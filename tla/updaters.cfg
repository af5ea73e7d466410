SPECIFICATION FairSpec
CONSTANTS
  Updaters = {"u", "v", "w"}
  Big = {"w"}
  Slots = 2
  Backlog = 2
  MaxRestarts = 1
  Breaks = TRUE
PROPERTIES KeepsPromise Delivered
