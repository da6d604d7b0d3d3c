SPECIFICATION Spec
CONSTANTS
  Conditions = {offline}
  FromList = {offline}
  NoCondition = NoCondition
  Limit = 1
  MaxAttempts = 2
  MaxAlerts = 3
  MaxFlips = 2
  MaxAdmin = 1
  MaxFaults = 1
INVARIANT TypeOK
INVARIANT OneOpenAlert
INVARIANT ResolvedAfterOpened
INVARIANT OncePerTarget
INVARIANT AttemptsBounded
PROPERTY SentIsFinal
PROPERTY RecoveredIsResolved
PROPERTY DueIsTried
