SPECIFICATION Spec
CONSTANTS
  Kinds <- Most
  Fatal = {"EBSY"}
  ClipEnabled = TRUE
  AcceptBreaks = TRUE
  Actors = {"clipboard", "compositor", "failure"}
  MaxQueue = 2
  MaxUnacked = 1
INVARIANTS SocketOwned PollWatchesSocket NeverBlocks CleanAfterFarewell
PROPERTIES LifecycleSteps RefusalIsFinal
