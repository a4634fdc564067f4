SPECIFICATION FairSpec
CONSTANTS
  Requests = {r1, r2}
  Statuses = {204, 503}
  Sizes = {1}
  MaxCalls = 2
  MayHead = {}
  MayBring = {r1}
  Wrapped = {r1}
  Apache = {r2}
INVARIANTS
  ChainInv
  RecordsAgree
  ProperIsRecorded
  OneIdPerRequest
  VerdictMatchesResponse
PROPERTY RequestsFinish
