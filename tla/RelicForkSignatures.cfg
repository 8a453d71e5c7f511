\* A handle with a signature, both written in the block that is forked.
SPECIFICATION Spec
CONSTANTS
  Null = Null
  MaxPk = 1
  MaxOwnedPk = 1
  Tables = {"handles", "nftsignatures"}
  Id = {1}
  MaxRows = 2
  MaxEntries = 2
  MaxBlock = 2
INVARIANT ForkPossible
CHECK_DEADLOCK FALSE
