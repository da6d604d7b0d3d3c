SPECIFICATION Spec
CONSTANTS
  Conditions = {offline}
  FromList = {offline}
  NoCondition = NoCondition
  Limit = 1
  MaxAttempts = 1
  MaxAlerts = 2
  MaxFlips = 3
  MaxAdmin = 0
  MaxFaults = 0
PROPERTY ResolveIsTold
