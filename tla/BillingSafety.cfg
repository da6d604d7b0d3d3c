SPECIFICATION Spec
CONSTANTS
  r1 = r1
  r2 = r2
  Requests = {r1}
  Payments = {p1}
  Invoices = {i1}
  Handlers = {h1, h2, h3}
  Months <- TwoMonthsAndOne
  NoItem = NoItem
  NoEnd = NoEnd
  MaxRows = 2
  MaxNow = 1
  MaxFaults = 1
  MaxEdits = 1
SYMMETRY HandlerSymmetry
INVARIANT TypeOK
INVARIANT CreditedOnce
INVARIANT NeverOvercredited
INVARIANT CoveredUnlessDisturbed
PROPERTY NeverShortened
PROPERTY SettledIsFinal
PROPERTY ImplementsLedger
CHECK_DEADLOCK FALSE
