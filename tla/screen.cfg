SPECIFICATION ScreenSpec
CONSTANTS
  Keys <- MCKeys
  XkbMax = 4
  RawConfig <- MCRawConfig
  Offset = 1
  OffsetOnExplicit = FALSE
  IdConfig <- MCIdConfig
  RawKeyCodes = TRUE
  IdleKey = 2
  Env = {"break", "reid", "stray"}
  MaxPressed = 3
  Backends = {"notifier", "gnome"}
  Notifications = {101, 102}
  Pids = {1, 2}
  WaylandFails = TRUE
INVARIANTS ScreenTypeOK CountsAreKeysHeld DownIsCounted NoneLeftDown OffMeansOff StopsWhatLives
