SPECIFICATION Spec
CONSTANTS
  c1 = c1
  c2 = c2
  c3 = c3
  p1 = p1
  p2 = p2
  s1 = s1
  Codes = {c1}
  Parents = {p1, p2}
  Schools = {s1}
  Users = {u1}
  ParentOf <- TwoAndOne
  SchoolOf <- OneSchool
  Handlers = {h1}
  Admins = {a1}
  NoCode = NoCode
  NoUser = NoUser
  NoLink = NoLink
  MaxChanges = 0
  MaxFaults = 0
PROPERTY TrialIsCreated
CHECK_DEADLOCK FALSE
