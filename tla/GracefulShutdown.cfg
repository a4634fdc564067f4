SPECIFICATION FairSpec
CONSTANTS
  Configured = {"http", "rpc", "metrics"}
  Insecure = FALSE
  IdleLimit = 4
  WaitLimit = 5
INVARIANTS
  ExitZeroWaits
  ExitTwoHeardSome
  ExitOneHeardEarly
  ShutdownInv
PROPERTIES
  ShutdownStarts
  ShutdownEnds
