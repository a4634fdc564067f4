SPECIFICATION MetricsSpec
CONSTANTS
  Requests = {r1, r2}
  Statuses = {503}
  Sizes = {}
  MaxCalls = 1
  MayHead = {}
  MayBring = {}
  Wrapped = {r1, r2}
  Apache = {}
  Commands = {c1, c2}
INVARIANT AttemptsAreCounted
