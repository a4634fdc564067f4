SPECIFICATION Spec
CONSTANTS
  Spans = {s1, s2, s3}
  Senders = {g1}
  Loop = Loop
  Free = Free
  BatchSize = 1
  MaxBacklog = 2
  MaxQueued = 1
PROPERTY RemovesOnlySentSpans
