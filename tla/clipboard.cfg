SPECIFICATION Spec
CONSTANTS
  Base = 4
  Ids = {"c"}
  Texts <- MCTexts
  ServerData <- MCServerData
  MaxChunk = 3
  MaxPending = 2
INVARIANTS TypeOK InsideBuffer SendsWhatWasCopied
PROPERTIES GivesWhatWasSent NoFeedback
