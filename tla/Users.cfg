SPECIFICATION Spec
CONSTANTS
  Workers = {w1, w2}
  MaxAttempts = 2
  Retries = 1
  UserIds = {1, 2, 3}
  Scenarios <- MCScenarios
  Tokens = {"t1", "t2"}
  Batch = 1
  MaxDeletions = 1
INVARIANTS
  LogReplays
  ReachedExactlyOnce
  QuietInCoolOff
  LoginHasAccount
  DeletedIsClosed
  StoresAgree
PROPERTY DispatchEventuallyDone
CHECK_DEADLOCK FALSE
