\* One handle whose domain may be registered twice, a second domain name, and
\* rows of every activity table, over two blocks.
SPECIFICATION Spec
CONSTANTS
  Null = Null
  h1 = h1
  d1 = d1
  d2 = d2
  DomainOf <- MCDomainOf
  MaxPk = 2
  DomainName = {d1, d2}
  Handle = {h1}
  Owner = {a1}
  Flag = {FALSE}
  Stamp = {t1}
  Key = {k1}
  MaxDomain = 2
  MaxBlock = 2
  MaxActivity = 1
INVARIANTS TypeOK ForkPossible HandlesInDomain
PROPERTY ImplementsStore
CHECK_DEADLOCK FALSE
