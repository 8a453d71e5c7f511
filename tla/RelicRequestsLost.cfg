\* One request whose status is changed in a block that is forked.
SPECIFICATION Spec
CONSTANTS
  Null = Null
  MaxPk = 1
  Request = {r1}
  Handle = {h1}
  Content = {c1}
  MaxBlock = 2
  MaxRecord = 0
INVARIANT ContentRestored
CHECK_DEADLOCK FALSE
