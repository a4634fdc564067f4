SPECIFICATION BreakerFairSpec
CONSTANTS
  Calls = {c1, c2, c3}
  MaxConcurrent = 2
INVARIANTS
  NoSendOnClosed
  ReplyIsAnswer
  OnlyRejectedWaits
PROPERTY AdmittedReturns
CHECK_DEADLOCK FALSE
