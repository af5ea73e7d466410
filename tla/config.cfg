SPECIFICATION Spec
CONSTANTS
  Names <- MCNames
  Prefix <- MCPrefix
  Values <- MCValues
  Long = {"long", "rest"}
  Inputs <- MCInputs
  Edits = {"c"}
  NumberOf <- MCNumberOf
  IsTrue = {"yes"}
  Descriptors = 6
  MaxRestarts = 1
INVARIANTS LastFileWins FoundWasWritten OptionsOverride
PROPERTY CommandIsRun
