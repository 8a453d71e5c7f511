\* A contract account met for the first time in an action.
SPECIFICATION Spec
CONSTANTS
  Null = Null
  MaxPk = 1
  k1 = k1
  k2 = k2
  Name = {fioToken, fioAddress}
  FioToken = fioToken
  System = {fioToken, fioAddress}
  Contract = {fioToken, fioAddress}
  Key = {k1}
  Supply = 2
  Amount = {1}
  MaxBlock = 2
  MaxJournal = 1
PROPERTY ContractsAreAdded
CHECK_DEADLOCK FALSE
