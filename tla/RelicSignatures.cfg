\* Two blocks, two contents of two tokens of one handle, and an address of it.
SPECIFICATION SignaturesSpec
CONSTANTS
  Null = Null
  MaxPk = 3
  Handle = {h1}
  Code = {fio}
  FioCode = fio
  Address = {a1}
  Token = {t1, t2}
  c1 = c1
  c2 = c2
  Content = {c1, c2}
  MaxBlock = 2
SYMMETRY ContentSymmetry
INVARIANTS SignaturesTypeOK SignaturesKept
CHECK_DEADLOCK FALSE
