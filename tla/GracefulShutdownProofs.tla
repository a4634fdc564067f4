----------------------- MODULE GracefulShutdownProofs -----------------------
(***************************************************************************)
(* Theorems about GracefulShutdown, for every set of configured servers    *)
(* and every pair of time limits, the second of them the longer.           *)
(***************************************************************************)
EXTENDS GracefulShutdown, FiniteSetTheorems, TLAPS

\* A server that starts to be waited for, or ceases to be, is one more or one
\* less.
LEMMA PendingChanges ==
  ASSUME NEW S, S \subseteq Servers, NEW s \in Servers
  PROVE  /\ Cardinality(S) \in Nat
         /\ s \notin S => Cardinality(S \cup {s}) = Cardinality(S) + 1
         /\ s \in S => Cardinality(S \ {s}) = Cardinality(S) - 1
         /\ s \in S => Cardinality(S) >= 1
<1>1. IsFiniteSet({"http", "rpc", "metrics"})
  <2>1. IsFiniteSet({} \cup {"http"})
    BY FS_EmptySet, FS_AddElement
  <2>2. IsFiniteSet(({} \cup {"http"}) \cup {"rpc"})
    BY <2>1, FS_AddElement
  <2>3. IsFiniteSet((({} \cup {"http"}) \cup {"rpc"}) \cup {"metrics"})
    BY <2>2, FS_AddElement
  <2>4. {"http", "rpc", "metrics"} = (({} \cup {"http"}) \cup {"rpc"}) \cup {"metrics"}
    OBVIOUS
  <2>5. QED
    BY <2>3, <2>4
<1>2. IsFiniteSet(S) /\ IsFiniteSet(S \ {s})
  BY <1>1, FS_Subset DEF Servers
<1>3. Cardinality(S) \in Nat /\ Cardinality(S \ {s}) \in Nat
  BY <1>2, FS_CardinalityType
<1>4. s \notin S => Cardinality(S \cup {s}) = Cardinality(S) + 1
  BY <1>2, FS_AddElement
<1>5. s \in S => Cardinality(S \ {s}) = Cardinality(S) - 1
  BY <1>2, FS_RemoveElement
<1>6. QED
  BY <1>3, <1>4, <1>5

LEMMA ShutdownInitInv == Init => ShutdownInv
<1> SUFFICES ASSUME Init PROVE ShutdownInv
  OBVIOUS
<1>1. TypeOK
  <2>1. cancelled \in BOOLEAN
    BY Zenon DEF Init
  <2>2. QED
    BY <2>1, ConfigAssumption DEF Init, TypeOK, Servers
<1>2. WaitEventsCounts
  <2>1. Pending = {}
    BY DEF Init, Pending
  <2>2. QED
    BY <2>1, FS_EmptySet DEF Init, WaitEventsCounts
<1>3. StopperReports /\ ExitZeroWaits /\ ExitTwoHeardSome /\ ChecksInv /\ PassedInv /\ TimeInv
  BY TimeAssumption, ConfigAssumption
  DEF Init, StopperReports, ExitZeroWaits, ExitTwoHeardSome, ChecksInv, PassedInv, TimeInv, ExitOneHeardEarly, Servers
<1>4. QED
  BY <1>1, <1>2, <1>3 DEF ShutdownInv

\* Steps of the servers and of their surroundings, before the process ends.
ServerStep ==
  \/ ListenFails
  \/ \E s \in Servers : Create(s) \/ Serve(s) \/ ServeReturns(s) \/ Requests(s)
  \/ Interrupt \/ Cancel

LEMMA ServerStepInv ==
  ASSUME ShutdownInv, ServerStep
  PROVE  ShutdownInv'
<1> USE DEF ShutdownInv
<1>1. UNCHANGED <<mainPc, source, waitEvents, loopStart, stopper, elapsed, exit>> /\ Running
  BY DEF ServerStep, ListenFails, Create, Serve, ServeReturns, Requests, Interrupt, Cancel, mainVars
<1>2. TypeOK'
  <2>1. server' \in [Servers -> {"off", "starting", "created", "serving", "reporting", "ended"}]
    BY DEF ServerStep, ListenFails, Create, Serve, ServeReturns, Requests, Interrupt, Cancel,
           serverVars, TypeOK
  <2>2. pointer' \in [Servers -> BOOLEAN]
    <3>1. pointer' = pointer \/ \E s \in Servers : pointer' = [pointer EXCEPT ![s] = TRUE]
      BY Zenon DEF ServerStep, ListenFails, Create, Serve, ServeReturns, Requests, Interrupt, Cancel,
           serverVars
    <3>2. QED
      BY <3>1 DEF TypeOK
  <2>3. active' \in [Servers -> BOOLEAN]
    <3>1. active' = active \/ \E s \in Servers : active' = [active EXCEPT ![s] = ~active[s]]
      BY Zenon DEF ServerStep, ListenFails, Create, Serve, ServeReturns, Requests, Interrupt, Cancel,
           serverVars
    <3>2. QED
      BY <3>1 DEF TypeOK
  <2>4. signal' \in {"armed", "reporting", "ended"}
    BY DEF ServerStep, ListenFails, Create, Serve, ServeReturns, Requests, Interrupt, Cancel, TypeOK
  <2>5. cancelled' \in BOOLEAN
    BY Zenon DEF ServerStep, ListenFails, Create, Serve, ServeReturns, Requests, Interrupt, Cancel,
           TypeOK
  <2>6. QED
    BY <1>1, <2>1, <2>2, <2>3, <2>4, <2>5 DEF TypeOK
<1>3. WaitEventsCounts'
  BY <1>1 DEF WaitEventsCounts, Pending
<1>4. ExitZeroWaits' /\ ExitTwoHeardSome'
  BY <1>1 DEF Running, ExitZeroWaits, ExitTwoHeardSome
<1>5. ChecksInv' /\ TimeInv'
  BY <1>1 DEF ChecksInv, TimeInv, ExitOneHeardEarly, Running
<1>6. PassedInv'
  <2>1. \A s \in Servers : server[s] = "ended" => server'[s] = "ended"
    BY DEF ServerStep, ListenFails, Create, Serve, ServeReturns, Requests, Interrupt, Cancel,
           serverVars, TypeOK
  <2>2. QED
    BY <1>1, <2>1 DEF PassedInv
<1>7. StopperReports'
  <2>1. ContextDone => ContextDone'
    BY <1>1 DEF ServerStep, ListenFails, Create, Serve, ServeReturns, Requests, Interrupt, Cancel,
                ContextDone
  <2>2. \A s \in Servers : stopper[s] \in {"sending", "received"} /\ active'[s] => active[s]
    <3> DEFINE Told(s) == stopper[s] \in {"sending", "received"}
               Before(s) == stopper[s] \in {"none", "unseen", "stopping"}
               Flipped(s) == active' = [active EXCEPT ![s] = ~active[s]]
    <3>1. active' = active \/ \E t \in Servers : Flipped(t) /\ (active[t] \/ Before(t))
      BY Zenon DEF ServerStep, ListenFails, Create, Serve, ServeReturns, Requests, Interrupt, Cancel,
             serverVars
    <3>2. \A t \in Servers : Flipped(t) => \A s \in Servers : s # t => active'[s] = active[s]
      BY DEF TypeOK
    <3>3. \A s, t \in Servers : Told(s) /\ Before(t) => s # t
      OBVIOUS
    <3> HIDE DEF Told, Before, Flipped
    <3>4. \A s \in Servers : Told(s) /\ active'[s] => active[s]
      BY <3>1, <3>2, <3>3, Zenon
    <3>5. QED
      BY <3>4, Zenon DEF Told
  <2>3. QED
    BY <1>1, <2>1, <2>2 DEF StopperReports
<1>8. QED
  BY <1>2, <1>3, <1>4, <1>5, <1>6, <1>7

\* The first event starts the tests, before any goroutine is started.
LEMMA ReceiveFirstInv ==
  ASSUME ShutdownInv, ReceiveFirst
  PROVE  ShutdownInv'
<1> USE DEF ShutdownInv
<1>1. /\ UNCHANGED <<pointer, active, waitEvents, loopStart, stopper, elapsed, cancelled, exit>>
      /\ Running /\ mainPc = "wait" /\ mainPc' = "http"
  BY DEF ReceiveFirst
<1>2. TypeOK'
  <2>1. /\ server' \in [Servers -> {"off", "starting", "created", "serving", "reporting", "ended"}]
        /\ signal' \in {"armed", "reporting", "ended"}
        /\ source' \in Servers \cup {"none", "interrupt"}
    BY DEF ReceiveFirst, TypeOK
  <2>2. QED
    BY <1>1, <2>1 DEF TypeOK, Servers
<1>3. WaitEventsCounts'
  BY <1>1 DEF WaitEventsCounts, Pending
<1>4. ExitZeroWaits' /\ ExitTwoHeardSome'
  BY <1>1 DEF Running, ExitZeroWaits, ExitTwoHeardSome
<1>5. ChecksInv' /\ TimeInv'
  BY <1>1 DEF ChecksInv, TimeInv, ExitOneHeardEarly, Running
<1>6. PassedInv'
  <2>1. \A s \in Servers : source' = s => server'[s] = "ended"
    BY DEF ReceiveFirst, TypeOK, Servers
  <2>2. QED
    BY <1>1, <2>1 DEF PassedInv, Running
<1>7. StopperReports'
  BY <1>1 DEF StopperReports, ContextDone
<1>8. QED
  BY <1>2, <1>3, <1>4, <1>5, <1>6, <1>7

\* A test either passes the server over or adds one to the counter and to the
\* servers waited for: the server was not among them before.
LEMMA CheckInv ==
  ASSUME ShutdownInv, NEW s \in Servers, Check(s)
  PROVE  ShutdownInv'
<1> USE DEF ShutdownInv
<1>1. /\ UNCHANGED <<server, pointer, active, signal, source, loopStart, elapsed, cancelled, exit>>
      /\ Running /\ mainPc = s /\ mainPc' = After(s)
  BY DEF Check, serverVars
<1>2. Skip(s) \/ Stop(s)
  BY DEF Check
<1>3. stopper[s] = "none"
  BY <1>1 DEF ChecksInv, Servers
<1>4. /\ stopper' \in [Servers -> {"none", "unseen", "stopping", "sending", "received"}]
      /\ \A r \in Servers \ {s} : stopper'[r] = stopper[r]
      /\ waitEvents' \in Nat
      /\ stopper'[s] \in {"none", "unseen", "stopping"}
      /\ stopper'[s] = "none" => source = s
  BY <1>2, <1>3 DEF Skip, Stop, TypeOK
<1>5. mainPc' \in {"rpc", "metrics", "select"} /\ mainPc' # s
      /\ (s = "http" => mainPc' = "rpc") /\ (s = "rpc" => mainPc' = "metrics")
      /\ (s = "metrics" => mainPc' = "select")
  BY <1>1 DEF After, Servers
<1>6. TypeOK'
  BY <1>1, <1>4, <1>5 DEF TypeOK, Servers
<1>7. WaitEventsCounts'
  <2>1. CASE Skip(s)
    <3>1. Pending' = Pending
      BY <1>3, <2>1 DEF Skip, Pending, TypeOK
    <3>2. QED
      BY <2>1, <3>1 DEF Skip, WaitEventsCounts
  <2>2. CASE Stop(s)
    <3>1. Pending' = Pending \cup {s} /\ s \notin Pending /\ Pending \subseteq Servers
      BY <1>3, <2>2 DEF Pending, Stop, TypeOK
    <3>2. QED
      BY <2>2, <3>1, PendingChanges DEF Stop, WaitEventsCounts
  <2>3. QED
    BY <1>2, <2>1, <2>2
<1>8. ExitZeroWaits' /\ ExitTwoHeardSome'
  BY <1>1 DEF Running, ExitZeroWaits, ExitTwoHeardSome
<1>9. ChecksInv'
  BY <1>1, <1>4, <1>5 DEF ChecksInv, Servers
<1>10. TimeInv'
  <2>1. \A r \in Servers : stopper'[r] # "received" => stopper[r] # "received"
    BY <1>3, <1>4
  <2>2. QED
    BY <1>1, <2>1, TimeAssumption DEF TimeInv, ExitOneHeardEarly, Running, Servers, TypeOK
<1>11. PassedInv'
  BY <1>1, <1>4, <1>5 DEF PassedInv, Running, Servers
<1>12. StopperReports'
  BY <1>1, <1>4 DEF StopperReports, ContextDone
<1>13. QED
  BY <1>6, <1>7, <1>8, <1>9, <1>10, <1>11, <1>12

\* A Shutdown returns: it stays among those that main waits for.
LEMMA StoppedInv ==
  ASSUME ShutdownInv, NEW s \in Servers, Stopped(s)
  PROVE  ShutdownInv'
<1> USE DEF ShutdownInv
<1>1. /\ UNCHANGED <<server, pointer, active, signal, mainPc, source, waitEvents, loopStart,
                    elapsed, cancelled, exit>>
      /\ Running /\ stopper[s] = "stopping"
      /\ stopper' = [stopper EXCEPT ![s] = "sending"]
  BY DEF Stopped, serverVars, mainVars
<1>2. TypeOK'
  BY <1>1 DEF TypeOK
<1>3. Pending' = Pending
  BY <1>1 DEF Pending, TypeOK
<1>4. WaitEventsCounts'
  BY <1>1, <1>3 DEF WaitEventsCounts
<1>5. ExitZeroWaits' /\ ExitTwoHeardSome'
  BY <1>1 DEF Running, ExitZeroWaits, ExitTwoHeardSome
<1>6. \A r \in Servers : /\ stopper[r] = "none" <=> stopper'[r] = "none"
                         /\ stopper'[r] # "received" => stopper[r] # "received"
  BY <1>1 DEF TypeOK
<1>7. ChecksInv'
  BY <1>1, <1>6 DEF ChecksInv, Servers
<1>8. TimeInv'
  BY <1>1, <1>6 DEF TimeInv, ExitOneHeardEarly, Running
<1>9. PassedInv'
  BY <1>1, <1>6 DEF PassedInv, Servers
<1>10. StopperReports'
  <2>1. active[s] => s # "rpc" /\ ContextDone
    BY DEF Stopped
  <2>2. QED
    BY <1>1, <2>1 DEF StopperReports, ContextDone, TypeOK
<1>11. QED
  BY <1>2, <1>4, <1>5, <1>7, <1>8, <1>9, <1>10

\* The process ends without an event.
LEMMA GiveUpInv ==
  ASSUME ShutdownInv, TLSFails \/ HealthzFails \/ Idle \/ Expire
  PROVE  ShutdownInv'
<1> USE DEF ShutdownInv
<1>1. /\ UNCHANGED <<server, pointer, active, signal, mainPc, source, waitEvents, loopStart,
                    stopper, elapsed, cancelled>>
      /\ exit' \in {"1", "2", "fatal", "panic"}
  BY DEF TLSFails, HealthzFails, Idle, Expire, serverVars, mainVars
<1>2. TypeOK'
  BY <1>1 DEF TypeOK
<1>3. WaitEventsCounts'
  BY <1>1 DEF WaitEventsCounts, Pending
<1>4. ExitZeroWaits'
  BY <1>1 DEF ExitZeroWaits
<1>5. ExitTwoHeardSome'
  <2>1. CASE Expire
    <3>1. ContextDone
      BY <2>1 DEF Expire
    <3>2. elapsed >= WaitLimit => \E s \in Servers : stopper[s] = "received"
      BY TimeAssumption DEF TimeInv, TypeOK
    <3>3. QED
      BY <1>1, <3>1, <3>2 DEF ContextDone, ExitTwoHeardSome
  <2>2. CASE TLSFails \/ HealthzFails \/ Idle
    BY <2>2 DEF TLSFails, HealthzFails, Idle, ExitTwoHeardSome
  <2>3. QED
    BY <2>1, <2>2
<1>6. ChecksInv' /\ PassedInv'
  BY <1>1 DEF ChecksInv, PassedInv
<1>7. TimeInv'
  <2>1. CASE Idle
    <3>1. elapsed - loopStart >= IdleLimit /\ elapsed <= WaitLimit
      BY <2>1 DEF Idle, IdleTooLong, TimeInv
    <3>2. QED
      BY <1>1, <3>1, TimeAssumption DEF TimeInv, ExitOneHeardEarly, TypeOK
  <2>2. CASE TLSFails \/ HealthzFails \/ Expire
    BY <1>1, <2>2 DEF TLSFails, HealthzFails, Expire, TimeInv, ExitOneHeardEarly
  <2>3. QED
    BY <2>1, <2>2
<1>8. StopperReports'
  BY <1>1 DEF StopperReports, ContextDone
<1>9. QED
  BY <1>2, <1>3, <1>4, <1>5, <1>6, <1>7, <1>8

\* An event takes its server out of those waited for; when the counter says
\* it was the last one, it was.
LEMMA ReceiveStoppedInv ==
  ASSUME ShutdownInv, NEW s \in Servers, ReceiveStopped(s)
  PROVE  ShutdownInv'
<1> USE DEF ShutdownInv
<1>1. /\ UNCHANGED <<server, pointer, active, signal, mainPc, source, elapsed, cancelled>>
      /\ Running /\ mainPc = "select" /\ stopper[s] = "sending"
      /\ stopper' = [stopper EXCEPT ![s] = "received"]
      /\ waitEvents' = waitEvents - 1 /\ loopStart' = elapsed
      /\ exit' = IF LastEvent THEN "0" ELSE "running"
  BY DEF ReceiveStopped, serverVars
<1>2. Pending' = Pending \ {s} /\ s \in Pending /\ Pending \subseteq Servers
  BY <1>1 DEF Pending, TypeOK
<1>3. WaitEventsCounts' /\ waitEvents' \in Nat
  <2>1. Cardinality(Pending') = Cardinality(Pending) - 1 /\ Cardinality(Pending) \in Nat
        /\ Cardinality(Pending) >= 1
    BY <1>2, PendingChanges
  <2>2. QED
    BY <1>1, <2>1 DEF WaitEventsCounts
<1>4. TypeOK'
  BY <1>1, <1>3 DEF TypeOK
<1>5. ExitZeroWaits'
  <2>1. ASSUME LastEvent, NEW r \in Pending, r # s PROVE FALSE
    <3>1. /\ Cardinality(Pending \ {s}) = Cardinality(Pending) - 1
          /\ Cardinality(Pending) = 1
      BY <1>2, <2>1, PendingChanges DEF LastEvent, WaitEventsCounts
    <3>2. r \in Pending \ {s} /\ Pending \ {s} \subseteq Servers
      BY <1>2, <2>1
    <3>3. Cardinality(Pending \ {s}) >= 1
      BY <3>2, PendingChanges
    <3>4. QED
      BY <3>1, <3>3
  <2>2. \A r \in Servers : LastEvent => stopper'[r] \in {"none", "unseen", "received"}
    BY <1>1, <2>1 DEF Pending, TypeOK
  <2>3. \A r \in Servers : stopper'[r] = "none" => server'[r] = "ended"
    BY <1>1 DEF PassedInv, Servers, TypeOK
  <2>4. \A r \in Servers : active'[r] /\ stopper'[r] = "received" => r # "rpc" /\ ContextDone'
    BY <1>1 DEF StopperReports, ContextDone, TypeOK
  <2>5. QED
    BY <1>1, <2>2, <2>3, <2>4 DEF ExitZeroWaits
<1>6. ExitTwoHeardSome' /\ ChecksInv' /\ PassedInv'
  BY <1>1 DEF ExitTwoHeardSome, ChecksInv, PassedInv, Servers, TypeOK
<1>7. TimeInv'
  <2>1. stopper'[s] = "received"
    BY <1>1 DEF TypeOK
  <2>2. QED
    BY <1>1, <2>1 DEF TimeInv, ExitOneHeardEarly, Running, TypeOK
<1>8. StopperReports'
  BY <1>1 DEF StopperReports, ContextDone, TypeOK
<1>9. QED
  BY <1>3, <1>4, <1>5, <1>6, <1>7, <1>8

\* A second passes: neither limit is reached yet.
LEMMA TickInv ==
  ASSUME ShutdownInv, Tick
  PROVE  ShutdownInv'
<1> USE DEF ShutdownInv
<1>1. /\ UNCHANGED <<server, pointer, active, signal, mainPc, source, waitEvents, loopStart,
                    stopper, cancelled, exit>>
      /\ Running /\ mainPc = "select" /\ elapsed' = elapsed + 1
      /\ elapsed < WaitLimit /\ elapsed - loopStart < IdleLimit
  BY TimeAssumption DEF Tick, serverVars, mainVars, ContextDone, IdleTooLong, TypeOK
<1>2. TypeOK'
  BY <1>1 DEF TypeOK
<1>3. WaitEventsCounts'
  BY <1>1 DEF WaitEventsCounts, Pending
<1>4. ExitZeroWaits' /\ ExitTwoHeardSome'
  BY <1>1 DEF Running, ExitZeroWaits, ExitTwoHeardSome
<1>5. ChecksInv' /\ PassedInv'
  BY <1>1 DEF ChecksInv, PassedInv
<1>6. TimeInv'
  BY <1>1, TimeAssumption DEF TimeInv, ExitOneHeardEarly, Running, TypeOK
<1>7. StopperReports'
  BY <1>1, TimeAssumption DEF StopperReports, ContextDone, TypeOK
<1>8. QED
  BY <1>2, <1>3, <1>4, <1>5, <1>6, <1>7

LEMMA ShutdownNextInv == ShutdownInv /\ [Next]_vars => ShutdownInv'
<1> SUFFICES ASSUME ShutdownInv, [Next]_vars PROVE ShutdownInv'
  OBVIOUS
<1>1. CASE UNCHANGED vars
  <2>1. UNCHANGED <<server, pointer, active, signal, mainPc, source, waitEvents, loopStart,
                    stopper, elapsed, cancelled, exit>>
    BY <1>1 DEF vars, serverVars, mainVars
  <2>2. QED
    BY <2>1 DEF ShutdownInv, TypeOK, WaitEventsCounts, Pending, StopperReports, ContextDone, ExitZeroWaits,
                ExitTwoHeardSome, ChecksInv, PassedInv, TimeInv, ExitOneHeardEarly
<1>2. CASE ServerStep
  BY <1>2, ServerStepInv
<1>3. CASE TLSFails \/ HealthzFails \/ Idle \/ Expire
  BY <1>3, GiveUpInv
<1>4. CASE ReceiveFirst
  BY <1>4, ReceiveFirstInv
<1>5. CASE \E s \in Servers : Check(s) \/ ReceiveStopped(s) \/ Stopped(s)
  BY <1>5, CheckInv, ReceiveStoppedInv, StoppedInv
<1>6. CASE Tick
  BY <1>6, TickInv
<1>7. QED
  BY <1>1, <1>2, <1>3, <1>4, <1>5, <1>6 DEF Next, Main, ServerStep, Exited

\* The inductive invariant holds in every behaviour of the server.
THEOREM ShutdownInvariance == Spec => []ShutdownInv
<1>1. QED
  BY ShutdownInitInv, ShutdownNextInv, PTL DEF Spec

\* waitEvents is the number of servers that main still waits for.
THEOREM WaitEventsCorrect == Spec => []WaitEventsCounts
<1>1. ShutdownInv => WaitEventsCounts
  BY DEF ShutdownInv
<1>2. QED
  BY <1>1, ShutdownInvariance, PTL

\* Exit 0 cuts no Shutdown short: each has returned, for want of requests or
\* because ctx had ended.
THEOREM ExitZeroCorrect == Spec => []ExitZeroWaits
<1>1. ShutdownInv => ExitZeroWaits
  BY DEF ShutdownInv
<1>2. QED
  BY <1>1, ShutdownInvariance, PTL

\* Exit 2 is never reached in silence.
THEOREM ExitTwoCorrect == Spec => []ExitTwoHeardSome
<1>1. ShutdownInv => ExitTwoHeardSome
  BY DEF ShutdownInv
<1>2. QED
  BY <1>1, ShutdownInvariance, PTL

\* Exit 1 is left to a shutdown that went silent early.
THEOREM ExitOneCorrect == Spec => []ExitOneHeardEarly
<1>1. ShutdownInv => ExitOneHeardEarly
  BY DEF ShutdownInv, TimeInv
<1>2. QED
  BY <1>1, ShutdownInvariance, PTL

-----------------------------------------------------------------------------
(* The exit comes nearer.                                                  *)

\* The tests to come, the events to wait for and the seconds left are numbers.
LEMMA RemainingType ==
  ASSUME ShutdownInv
  PROVE  TestsLeft \in 0 .. 4 /\ waitEvents \in Nat /\ WaitLimit - elapsed \in Nat /\ Remaining \in Nat
<1>1. mainPc \in {"wait", "http", "rpc", "metrics", "select"} /\ waitEvents \in Nat /\ elapsed \in Nat
  BY DEF ShutdownInv, TypeOK, Servers
<1>2. TestsLeft \in 0 .. 4
  BY <1>1 DEF TestsLeft
<1>3. WaitLimit - elapsed \in Nat
  BY <1>1, TimeAssumption DEF ShutdownInv, TimeInv
<1>4. QED
  BY <1>1, <1>2, <1>3 DEF Remaining

\* A test may add an event, but it is a test less.
LEMMA CheckAdvances ==
  ASSUME ShutdownInv, NEW s \in Servers, Check(s)
  PROVE  Remaining' < Remaining
<1>1. /\ UNCHANGED <<elapsed, exit>> /\ mainPc = s /\ mainPc' = After(s)
      /\ waitEvents' \in {waitEvents, waitEvents + 1}
  BY DEF Check, Stop, Skip
<1>2. TestsLeft \in 0 .. 4 /\ TestsLeft' = TestsLeft - 1
  <2>1. s \in {"http", "rpc", "metrics"}
    BY DEF Servers
  <2>2. CASE s = "http"
    BY <1>1, <2>2 DEF After, TestsLeft
  <2>3. CASE s = "rpc"
    BY <1>1, <2>3 DEF After, TestsLeft
  <2>4. CASE s = "metrics"
    BY <1>1, <2>4 DEF After, TestsLeft
  <2>5. QED
    BY <2>1, <2>2, <2>3, <2>4
<1>3. Running' = Running
  BY <1>1 DEF Running
<1>4. QED
  BY <1>1, <1>2, <1>3, RemainingType DEF Remaining

\* So does every other step of main, and a second that passes.
LEMMA MainAdvances ==
  ASSUME ShutdownInv, Main \/ Tick
  PROVE  Remaining' < Remaining
<1>1. CASE ReceiveFirst
  <2>1. UNCHANGED <<waitEvents, elapsed, exit>> /\ TestsLeft = 4 /\ TestsLeft' = 3
    BY <1>1 DEF ReceiveFirst, TestsLeft
  <2>2. QED
    BY <2>1, RemainingType DEF Remaining, Running
<1>2. ASSUME NEW s \in Servers, ReceiveStopped(s) PROVE Remaining' < Remaining
  <2>1. /\ UNCHANGED <<mainPc, elapsed>> /\ Running
        /\ waitEvents' = waitEvents - 1
    BY <1>2 DEF ReceiveStopped
  <2>2. TestsLeft' = TestsLeft
    BY <2>1 DEF TestsLeft
  <2>3. QED
    BY <2>1, <2>2, RemainingType DEF Remaining
<1>3. CASE Idle \/ Expire
  <2>1. UNCHANGED <<mainPc, waitEvents, elapsed>> /\ Running /\ ~Running'
    BY <1>3 DEF Idle, Expire, mainVars, Running
  <2>2. TestsLeft' = TestsLeft
    BY <2>1 DEF TestsLeft
  <2>3. QED
    BY <2>1, <2>2, RemainingType DEF Remaining
<1>4. CASE Tick
  <2>1. UNCHANGED <<mainPc, waitEvents, exit>> /\ elapsed' = elapsed + 1
    BY <1>4 DEF Tick, mainVars
  <2>2. TestsLeft' = TestsLeft
    BY <2>1 DEF TestsLeft
  <2>3. elapsed \in Nat /\ WaitLimit \in Nat
    BY TimeAssumption DEF ShutdownInv, TypeOK
  <2>4. QED
    BY <2>1, <2>2, <2>3, RemainingType DEF Remaining, Running
<1>5. QED
  BY <1>1, <1>2, <1>3, <1>4, CheckAdvances DEF Main

\* The others cannot take the exit further away.
LEMMA OthersDoNotDelay ==
  ASSUME ShutdownInv, ServerStep \/ TLSFails \/ HealthzFails \/ \E s \in Servers : Stopped(s)
  PROVE  Remaining' <= Remaining
<1>1. UNCHANGED <<mainPc, waitEvents, elapsed>> /\ Running
  BY DEF ServerStep, ListenFails, Create, Serve, ServeReturns, Requests, Interrupt, Cancel,
         TLSFails, HealthzFails, Stopped, mainVars
<1>2. TestsLeft' = TestsLeft
  BY <1>1 DEF TestsLeft
<1>3. QED
  BY <1>1, <1>2, RemainingType DEF Remaining

\* main's shutdown takes a bounded number of steps, however the servers, the
\* requests and the interrupts behave meanwhile: the safety half of
\* ShutdownEnds, for any limits.
THEOREM ShutdownIsBounded == Spec => ShutdownAdvances
<1> DEFINE Advances == /\ Remaining \in Nat /\ Remaining' \in Nat
                       /\ Remaining' <= Remaining
                       /\ Main \/ Tick => Remaining' < Remaining
<1>1. ASSUME ShutdownInv, ShutdownInv', [Next]_vars PROVE [Advances]_vars
  <2>1. Remaining \in Nat
    BY <1>1, RemainingType
  <2>2. Remaining' \in Nat
    <3>1. /\ mainPc' \in {"wait", "http", "rpc", "metrics", "select"}
          /\ waitEvents' \in Nat /\ elapsed' \in Nat /\ elapsed' <= WaitLimit
      BY <1>1 DEF ShutdownInv, TypeOK, Servers, TimeInv
    <3>2. TestsLeft' \in 0 .. 4
      BY <3>1 DEF TestsLeft
    <3>3. WaitLimit - elapsed' \in Nat
      <4>1. WaitLimit \in Nat
        BY TimeAssumption
      <4>2. elapsed' \in Nat /\ elapsed' <= WaitLimit
        BY <3>1
      <4>3. PICK e \in Nat : e = elapsed'
        BY <4>2
      <4>4. e <= WaitLimit
        BY <4>2, <4>3
      <4>5. WaitLimit - e \in Nat
        BY <4>1, <4>4
      <4>6. QED
        BY <4>3, <4>5
    <3>4. Remaining' = 2 * TestsLeft' + waitEvents' + (WaitLimit - elapsed')
                         + (IF exit' = "running" THEN 1 ELSE 0)
      BY DEF Remaining, Running
    <3>5. QED
      BY <3>1, <3>2, <3>3, <3>4
  <2>3. Main \/ Tick => Remaining' < Remaining
    BY <1>1, MainAdvances
  <2>4. CASE ServerStep \/ TLSFails \/ HealthzFails \/ \E s \in Servers : Stopped(s)
    BY <1>1, <2>1, <2>2, <2>3, <2>4, OthersDoNotDelay
  <2>5. CASE Main \/ Tick
    BY <2>1, <2>2, <2>3, <2>5
  <2>6. CASE UNCHANGED vars
    BY <2>6
  <2>7. QED
    BY <1>1, <2>4, <2>5, <2>6 DEF Next, ServerStep, Exited
<1>2. QED
  BY <1>1, ShutdownInitInv, ShutdownNextInv, PTL DEF Spec, ShutdownAdvances
=============================================================================
