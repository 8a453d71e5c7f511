\* Two requests, of two contents, whose status changes over three blocks, with
\* forks of forks, and a record or an activity beside them.
SPECIFICATION Spec
CONSTANTS
  Null = Null
  MaxPk = 3
  Request = {r1, r2}
  Handle = {h1}
  Content = {c1, c2}
  MaxBlock = 3
  MaxRecord = 1
SYMMETRY Symmetry
INVARIANTS TypeOK LossConfined
PROPERTY ImplementsStore
CHECK_DEADLOCK FALSE
