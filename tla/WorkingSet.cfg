\* Three hosts in any order, two names, ranges that reach past the list.
CONSTANTS
  Host = {h1, h2, h3}
  Name = {n1, n2}
  NoName = NoName
  MaxPos = 4
SPECIFICATION WorkingSetSpec
INVARIANTS
  NameInForce
  PagingVisitsAll
