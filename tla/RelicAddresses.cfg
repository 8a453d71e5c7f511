\* Three blocks, two addresses and two codes of one handle, and a handle
\* that is not known.
SPECIFICATION Spec
CONSTANTS
  Null = Null
  MaxPk = 3
  Handle = {h1, Null}
  Code = {fio, btc}
  FioCode = fio
  a1 = a1
  a2 = a2
  Address = {a1, a2}
  MaxBlock = 3
SYMMETRY AddressSymmetry
INVARIANTS TypeOK ForkExact OneAddress LogKept
CHECK_DEADLOCK FALSE
