SPECIFICATION Spec
CONSTANTS
  c1 = c1
  c2 = c2
  c3 = c3
  p1 = p1
  p2 = p2
  s1 = s1
  Codes = {c1, c2, c3}
  Parents = {p1, p2}
  Schools = {s1}
  Users = {u1, u2}
  ParentOf <- TwoAndOne
  SchoolOf <- OneSchool
  Handlers = {h1, h2}
  Admins = {a1, a2}
  NoCode = NoCode
  NoUser = NoUser
  NoLink = NoLink
  MaxChanges = 1
  MaxFaults = 1
SYMMETRY Symmetry
INVARIANT TypeOK
INVARIANT LinkedByOneCode
INVARIANT LinkedHasAccess
INVARIANT WaitersHoldNothing
PROPERTY ImplementsRegistry
CHECK_DEADLOCK FALSE
