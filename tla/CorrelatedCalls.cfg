SPECIFICATION Spec
CONSTANTS
  Services = {s1, s2, s3}
  UseZipkin = {s1, s2}
  RPCRegister = {s1, s3}
  OuterIDs = {id1}
  OuterTraces = {t1}
  MaxEdge = 2
  MaxCall = 3
CHECK_DEADLOCK FALSE
INVARIANTS
  TraceHasOneId
  IdHasOneTrace
  DoStaysInTrace
