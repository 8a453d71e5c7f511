SPECIFICATION CleanerSpec
CONSTANTS
  Account = {a1}
  NoTrx = NoTrx
  Inherited = {0}
  AckEvery = 2
  KeepBlocks = 0
  MaxUnack = 2
  Chunk = 1
  MaxBlock = 1
  MaxForks = 1
  MaxFaults = 1
INVARIANT NothingAbandoned
CHECK_DEADLOCK FALSE
