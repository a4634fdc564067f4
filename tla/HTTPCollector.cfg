SPECIFICATION FairSpec
CONSTANTS
  Spans = {s1, s2, s3, s4}
  Senders = {g1, g2}
  Loop = Loop
  Free = Free
  BatchSize = 2
  MaxBacklog = 2
  MaxQueued = 2
INVARIANTS
  NoSliceOutOfRange
  BacklogBounded
  NoResend
  LossIsMiscountedDisposal
  CleanCloseFlushes
  LossInv
PROPERTIES
  ImplementsLossyQueue
  CloseCompletes
  CollectCompletes
CHECK_DEADLOCK FALSE
