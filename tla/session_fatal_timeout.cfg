SPECIFICATION Spec
CONSTANTS
  Kinds = {"CBYE"}
  Fatal = {"TIMEOUT"}
  ClipEnabled = TRUE
  AcceptBreaks = FALSE
  Actors = {"clock"}
  MaxQueue = 2
  MaxUnacked = 1
PROPERTY FatalIsFinal
