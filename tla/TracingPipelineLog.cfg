SPECIFICATION PipelineFairSpec
CONSTANTS
  Spans = {s1, s2}
  Senders = {g1}
  Loop = Loop
  Free = Free
  BatchSize = 2
  MaxBacklog = 1
  MaxQueued = 1
  MaxConcurrent = 1
PROPERTY BacklogIsCut
CHECK_DEADLOCK FALSE
