SPECIFICATION Spec
CONSTANTS
  FeeCap = 2000
  DustThreshold = 2
  MinBankFee = 1
  WithdrawRatio = 1000
  ThresholdImbalance = 1
  DepositMinFee = 3
  DepositThreshold = 8
  DepositRatio = 1000
  FlowAmounts = {1, 2, 3, 4, 5, 6, 7, 8, 9, 11, 13}
  FlowFees = {0, 1, 2, 3}
  FlowRatios <- FlowRatioSet
  Procs = {p1, p2}
  Users = {"alice", "bob"}
  Scenarios <- FiveScenarios
  Sections <- TwoSections
  Reward = 2
  Ratios <- TwoRatios
  MinSatsForRatio = 6
  Limit <- SomeLimits
  InitBalance <- SomeBalance
  Keys = {"k"}
  MaxRequests = 3
INVARIANTS
  LedgerBalanced
  NoOverdraft
  LimitPassedOnlyByOverlap
  FlowsFollowPayments
  QuizzesPaidOnceInOrder
  OncePerKey
  PaymentsExact
  BankNeverPays
  ReceiptsBookedWhole
SYMMETRY Symmetry
CHECK_DEADLOCK FALSE
