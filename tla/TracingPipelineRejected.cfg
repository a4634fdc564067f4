SPECIFICATION PipelineFairSpec
CONSTANTS
  Spans = {s1, s2}
  Senders = {g1}
  Loop = Loop
  Free = Free
  BatchSize = 1
  MaxBacklog = 2
  MaxQueued = 1
  MaxConcurrent = 2
PROPERTY BufferedIsEmitted
CHECK_DEADLOCK FALSE
