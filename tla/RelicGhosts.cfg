\* One signature, signed and removed.
SPECIFICATION SignaturesSpec
CONSTANTS
  Null = Null
  MaxPk = 3
  Handle = {h1}
  Code = {}
  FioCode = fio
  Address = {}
  Token = {t1}
  c1 = c1
  c2 = c2
  Content = {c1, c2}
  MaxBlock = 3

INVARIANT DeleteRollsBack
CHECK_DEADLOCK FALSE
