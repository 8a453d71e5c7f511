SPECIFICATION CleanerFairSpec
CONSTANTS
  Account = {a1}
  NoTrx = NoTrx
  Inherited = {0, 2}
  AckEvery = 2
  KeepBlocks = 0
  MaxUnack = 2
  Chunk = 1
  MaxBlock = 3
  MaxForks = 1
  MaxFaults = 1
INVARIANTS TypeOK NoStale ConfirmedStored ReceiptsMatch SeqMaxCovers
PROPERTIES SlaveKeepsOff CatchesUp
CHECK_DEADLOCK FALSE
