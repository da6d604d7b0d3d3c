SPECIFICATION Spec
CONSTANTS
  r1 = r1
  r2 = r2
  Requests = {r1, r2}
  Payments = {}
  Invoices = {}
  Handlers = {h1, h2}
  Months <- TwoMonthsAndOne
  NoItem = NoItem
  NoEnd = NoEnd
  MaxRows = 2
  MaxNow = 1
  MaxFaults = 0
  MaxEdits = 0
SYMMETRY HandlerSymmetry
INVARIANT CapturedIsCovered
CHECK_DEADLOCK FALSE
