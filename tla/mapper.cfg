SPECIFICATION Spec
CONSTANTS
  MinKey = 8
  MaxKey = 12
  Named = {8, 9, 11, 12}
  Codes = {9, 50}
  Buttons = {"left", "middle", "right"}
INVARIANTS PrintsTheAnswers NothingInvented
