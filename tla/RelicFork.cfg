\* Every table but four whose keys another has, with up to three rows
\* over two blocks, one of each table whose rows stay, and two audited updates
\* and deletes.
SPECIFICATION Spec
CONSTANTS
  Null = Null
  MaxPk = 1
  MaxOwnedPk = 2
  Tables = {"accounts", "transactions", "tokentransfers", "domains", "domainactivities", "handles", "handleactivities", "pubaddresses", "nftsignatures", "fiorequests"}
  Id = {1}
  MaxRows = 3
  MaxEntries = 2
  MaxBlock = 2
INVARIANTS TypeOK RefusedExactly
PROPERTY ImplementsStore
CHECK_DEADLOCK FALSE
