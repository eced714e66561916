SPECIFICATION FairSpec
CONSTANTS
  approved = approved
  object = object
  Jobs <- OneJob
  Contract <- OneContract
  Objects <- MCObjects
  ObjectJob <- MCObjectJob
  NoObject = NoObject
  Bootstraps <- OneBootstrap
  Workers = {w1, w2}
  NoTemp = NoTemp
  PartialTemp = PartialTemp
  MaxFaults = 1
  MaxRevision = 3
CHECK_DEADLOCK FALSE
INVARIANTS
  StoreInv
  HistorySound
  DocumentSound
  HonestReturn
PROPERTIES
  WedgedForever
  NeverBackwards
  ImplementsLedger
  CallsReturn
