SPECIFICATION FairSpec
CONSTANTS
  Kinds = {"EBAD", "INPUT"}
  Fatal = {"EBAD"}
  ClipEnabled = FALSE
  AcceptBreaks = FALSE
  Actors = {"clock", "failure", "quit", "restart"}
  MaxQueue = 2
  MaxUnacked = 1
PROPERTIES LifecycleMoves QuitHonoured PeerLossNoticed SessionRestored
