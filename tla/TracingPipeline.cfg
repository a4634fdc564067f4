SPECIFICATION PipelineFairSpec
CONSTANTS
  Spans = {s1, s2}
  Senders = {g1}
  Loop = Loop
  Free = Free
  BatchSize = 1
  MaxBacklog = 1
  MaxQueued = 1
  MaxConcurrent = 2
INVARIANTS
  PipelineInv
  SentWasAnswered
  DuplicatesFollowErrors
PROPERTY EverySpanLeaves
CHECK_DEADLOCK FALSE
