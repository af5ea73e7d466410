SPECIFICATION FairSpec
CONSTANTS
  Base = 3
  Lens = {0, 1, 4, 6, 10}
  MaxPackets = 3
INVARIANTS TypeOK NeverStuck
PROPERTIES InOrder AllHandedOver
