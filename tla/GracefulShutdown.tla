-------------------------- MODULE GracefulShutdown --------------------------
(***************************************************************************)
(* Run of server/server.go and performGracefulShutdown of                  *)
(* server/shutdown.go: the goroutine of each server, main, which waits for *)
(* the first event of any of them, and the goroutines that then stop the   *)
(* servers main has seen.                                                  *)
(*                                                                         *)
(* Each server goroutine stores its server in cfg before it serves; main   *)
(* reads those pointers without synchronisation, at any moment of their    *)
(* start; a store that main cannot see yet is one not yet made.  Both      *)
(* channels are unbuffered: an event is handed over when main receives it. *)
(* os.Exit ends every goroutine.                                           *)
(*                                                                         *)
(* Abstraction: time is counted in seconds from the call of                *)
(* performGracefulShutdown, and passes only while main's select has        *)
(* nothing to do.  The requests of a server are one Boolean: some are      *)
(* being served.                                                           *)
(***************************************************************************)
EXTENDS Integers, FiniteSets

CONSTANTS
  Configured,  \* the servers that Run launches
  Insecure,    \* cfg.Insecure: no TLS
  IdleLimit,   \* seconds without an event after which main gives up: 4
  WaitLimit    \* seconds until ctx expires: 5

Servers == {"http", "rpc", "metrics"}

ASSUME ConfigAssumption == Configured \subseteq Servers /\ "metrics" \in Configured
ASSUME TimeAssumption == IdleLimit \in Nat /\ WaitLimit \in Nat /\ IdleLimit < WaitLimit
ASSUME InsecureAssumption == Insecure \in BOOLEAN

VARIABLES
  server,      \* a server's goroutine: "off", "starting", "created", "serving",
               \* "reporting" (blocked in errc <-), "ended"
  pointer,     \* the server is stored in cfg
  active,      \* it is serving requests
  signal,      \* the interrupt goroutine: "armed", "reporting", "ended"
  mainPc,      \* "wait", the server whose test comes next, or "select"
  source,      \* the source of the event that main received
  stopper,     \* the goroutine that stops a server: "none", "unseen" (main
               \* has found no pointer), "stopping", "sending" (blocked in
               \* evtc <-), "received"
  waitEvents,  \* main's counter
  elapsed,     \* seconds since performGracefulShutdown was called
  loopStart,   \* elapsed when the select was entered last
  cancelled,   \* the context given to Run is cancelled
  exit         \* "running", or how the process ended: "0", "1", "2" by main,
               \* "fatal" or "panic" by a server's goroutine

serverVars == <<server, pointer, active>>
mainVars == <<mainPc, source, waitEvents, loopStart>>
vars == <<serverVars, signal, mainVars, stopper, elapsed, cancelled, exit>>

Init ==
  /\ server = [s \in Servers |-> IF s \in Configured THEN "starting" ELSE "off"]
  /\ pointer = [s \in Servers |-> FALSE]
  /\ active = [s \in Servers |-> FALSE]
  /\ signal = "armed"
  /\ mainPc = "wait"
  /\ source = "none"
  /\ stopper = [s \in Servers |-> "none"]
  /\ waitEvents = 0
  /\ elapsed = 0
  /\ loopStart = 0
  /\ cancelled = FALSE
  /\ exit = "running"

Running == exit = "running"

----------------------------------------------------------------------------
(* The servers.                                                            *)

\* The port of the gRPC server is taken: it reports without being created.
ListenFails ==
  /\ Running
  /\ server["rpc"] = "starting"
  /\ server' = [server EXCEPT !["rpc"] = "reporting"]
  /\ UNCHANGED <<pointer, active, signal, mainVars, stopper, elapsed, cancelled, exit>>

\* logger.Fatal: there are no TLS credentials for the gRPC server.
TLSFails ==
  /\ Running
  /\ ~Insecure
  /\ server["rpc"] = "starting"
  /\ exit' = "fatal"
  /\ UNCHANGED <<serverVars, signal, mainVars, stopper, elapsed, cancelled>>

\* logger.Panic, in the HTTP server's goroutine: there is no healthz handler.
\* Nobody recovers; the process ends, with status 2 as after main's Exit(2).
HealthzFails ==
  /\ Running
  /\ server["http"] = "starting"
  /\ exit' = "panic"
  /\ UNCHANGED <<serverVars, signal, mainVars, stopper, elapsed, cancelled>>

\* The server is built and stored in cfg.
Create(s) ==
  /\ Running
  /\ server[s] = "starting"
  /\ server' = [server EXCEPT ![s] = "created"]
  /\ pointer' = [pointer EXCEPT ![s] = TRUE]
  /\ UNCHANGED <<active, signal, mainVars, stopper, elapsed, cancelled, exit>>

\* Serve begins, or fails at once: the port is taken, the server was stopped.
Serve(s) ==
  /\ Running
  /\ server[s] = "created"
  /\ \E outcome \in {"serving", "reporting"} : server' = [server EXCEPT ![s] = outcome]
  /\ UNCHANGED <<pointer, active, signal, mainVars, stopper, elapsed, cancelled, exit>>

\* Serve returns, on an error or because the server is being stopped.
ServeReturns(s) ==
  /\ Running
  /\ server[s] = "serving"
  /\ server' = [server EXCEPT ![s] = "reporting"]
  /\ UNCHANGED <<pointer, active, signal, mainVars, stopper, elapsed, cancelled, exit>>

\* Requests arrive until the server's goroutine of the shutdown is through.
Requests(s) ==
  /\ Running
  /\ \/ ~active[s] /\ server[s] = "serving" /\ stopper[s] \in {"none", "unseen", "stopping"}
     \/ active[s]
  /\ active' = [active EXCEPT ![s] = ~@]
  /\ UNCHANGED <<server, pointer, signal, mainVars, stopper, elapsed, cancelled, exit>>

Interrupt ==
  /\ Running
  /\ signal = "armed"
  /\ signal' = "reporting"
  /\ UNCHANGED <<serverVars, mainVars, stopper, elapsed, cancelled, exit>>

Cancel ==
  /\ Running
  /\ ~cancelled
  /\ cancelled' = TRUE
  /\ UNCHANGED <<serverVars, signal, mainVars, stopper, elapsed, exit>>

----------------------------------------------------------------------------
(* main.                                                                   *)

\* Mutant: only the interrupt handler is listened to.
ReceiveInterrupt ==
  /\ Running
  /\ mainPc = "wait"
  /\ signal = "reporting"
  /\ signal' = "ended"
  /\ source' = "interrupt"
  /\ mainPc' = "http"
  /\ UNCHANGED <<serverVars, waitEvents, loopStart, stopper, elapsed, cancelled, exit>>

\* rc := <-errc
ReceiveFirst ==
  /\ Running
  /\ mainPc = "wait"
  /\ \/ /\ signal = "reporting"
        /\ signal' = "ended"
        /\ source' = "interrupt"
        /\ UNCHANGED server
     \/ \E s \in Servers :
          /\ server[s] = "reporting"
          /\ server' = [server EXCEPT ![s] = "ended"]
          /\ source' = s
          /\ UNCHANGED signal
  /\ mainPc' = "http"
  /\ UNCHANGED <<pointer, active, waitEvents, loopStart, stopper, elapsed, cancelled, exit>>

After(s) == CASE s = "http" -> "rpc" [] s = "rpc" -> "metrics" [] s = "metrics" -> "select"

\* Mutants: the goroutine is started but not counted; the server is counted
\* whether or not its goroutine is started.
StopUncounted(s) ==
  /\ stopper' = [stopper EXCEPT ![s] = "stopping"]
  /\ UNCHANGED waitEvents
SkipCounted(s) ==
  /\ stopper' = IF source = s THEN stopper ELSE [stopper EXCEPT ![s] = "unseen"]
  /\ waitEvents' = waitEvents + 1

\* waitEvents++ and the goroutine that calls Shutdown or GracefulStop.
Stop(s) ==
  /\ stopper' = [stopper EXCEPT ![s] = "stopping"]
  /\ waitEvents' = waitEvents + 1

\* The server reported itself, or its pointer is nil.
Skip(s) ==
  /\ stopper' = IF source = s THEN stopper ELSE [stopper EXCEPT ![s] = "unseen"]
  /\ UNCHANGED waitEvents

\* Mutant: main itself calls Shutdown, one server after the other.
CheckBlocking(s) ==
  /\ Running
  /\ mainPc = s
  /\ \A r \in Servers : stopper[r] # "stopping"
  /\ IF source # s /\ pointer[s] THEN Stop(s) ELSE Skip(s)
  /\ mainPc' = After(s)
  /\ UNCHANGED <<serverVars, signal, source, loopStart, elapsed, cancelled, exit>>

\* if evtSrc.source != s && cfg.s != nil
Check(s) ==
  /\ Running
  /\ mainPc = s
  /\ \/ source # s /\ pointer[s] /\ Stop(s)
     \/ (source = s \/ ~pointer[s]) /\ Skip(s)
  /\ mainPc' = After(s)
  /\ UNCHANGED <<serverVars, signal, source, loopStart, elapsed, cancelled, exit>>

\* Mutant: only the context given to Run counts.
ContextDoneNoTimeout == cancelled

ContextDone == cancelled \/ elapsed >= WaitLimit

\* Mutant: the timer fires a second late.
IdleTooLongLate == elapsed - loopStart > IdleLimit

IdleTooLong == elapsed - loopStart >= IdleLimit

\* Shutdown returns when the requests are done or ctx is; GracefulStop is not
\* given ctx.
Stopped(s) ==
  /\ Running
  /\ stopper[s] = "stopping"
  /\ ~active[s] \/ (s # "rpc" /\ ContextDone)
  /\ stopper' = [stopper EXCEPT ![s] = "sending"]
  /\ UNCHANGED <<serverVars, signal, mainVars, elapsed, cancelled, exit>>

\* case <-time.After(4 * time.Second)
Idle ==
  /\ Running
  /\ mainPc = "select"
  /\ IdleTooLong
  /\ exit' = "1"
  /\ UNCHANGED <<serverVars, signal, mainVars, stopper, elapsed, cancelled>>

\* case <-ctx.Done()
Expire ==
  /\ Running
  /\ mainPc = "select"
  /\ ContextDone
  /\ exit' = "2"
  /\ UNCHANGED <<serverVars, signal, mainVars, stopper, elapsed, cancelled>>

\* Mutant: the counter is tested before it is decremented.
LastEventEarly == waitEvents <= 2

\* waitEvents-- made it 0.
LastEvent == waitEvents = 1

\* case evt := <-evtc
ReceiveStopped(s) ==
  /\ Running
  /\ mainPc = "select"
  /\ stopper[s] = "sending"
  /\ stopper' = [stopper EXCEPT ![s] = "received"]
  /\ waitEvents' = waitEvents - 1
  /\ exit' = IF LastEvent THEN "0" ELSE "running"
  /\ loopStart' = elapsed
  /\ UNCHANGED <<serverVars, signal, mainPc, source, elapsed, cancelled>>

Tick ==
  /\ Running
  /\ mainPc = "select"
  /\ ~ContextDone /\ ~IdleTooLong
  /\ \A s \in Servers : stopper[s] # "sending"
  /\ elapsed' = elapsed + 1
  /\ UNCHANGED <<serverVars, signal, mainVars, stopper, cancelled, exit>>

Exited == exit # "running" /\ UNCHANGED vars

Main ==
  \/ ReceiveFirst
  \/ \E s \in Servers : Check(s) \/ ReceiveStopped(s)
  \/ Idle \/ Expire

Next ==
  \/ ListenFails \/ TLSFails \/ HealthzFails
  \/ \E s \in Servers :
       Create(s) \/ Serve(s) \/ ServeReturns(s) \/ Requests(s) \/ Stopped(s)
  \/ Interrupt \/ Cancel
  \/ Main \/ Tick \/ Exited

Spec == Init /\ [][Next]_vars

\* main runs and time passes; nothing else is needed: requests may last for
\* ever, and a server may never come up.
FairSpec == Spec /\ WF_vars(Main) /\ WF_vars(Tick)
----------------------------------------------------------------------------
(* Properties.                                                             *)

TypeOK ==
  /\ server \in [Servers -> {"off", "starting", "created", "serving", "reporting", "ended"}]
  /\ pointer \in [Servers -> BOOLEAN]
  /\ active \in [Servers -> BOOLEAN]
  /\ signal \in {"armed", "reporting", "ended"}
  /\ mainPc \in Servers \cup {"wait", "select"}
  /\ source \in Servers \cup {"none", "interrupt"}
  /\ stopper \in [Servers -> {"none", "unseen", "stopping", "sending", "received"}]
  /\ waitEvents \in Nat
  /\ elapsed \in Nat
  /\ loopStart \in Nat
  /\ cancelled \in BOOLEAN
  /\ exit \in {"running", "0", "1", "2", "fatal", "panic"}

\* The servers that are being stopped and have not been heard of.
Pending == {s \in Servers : stopper[s] \in {"stopping", "sending"}}

\* waitEvents counts exactly the goroutines main has yet to hear of, from the
\* first test to the exit.
WaitEventsCounts == waitEvents = Cardinality(Pending)

\* Exit 0 waits for every server that main has seen: each Shutdown that it
\* started has returned, in whatever order, with requests left only if ctx had
\* ended, and a server that still serves either was told to stop or had no
\* pointer when main tested it.
ExitZeroWaits ==
  exit = "0" => \A s \in Servers :
    /\ stopper[s] \in {"none", "unseen", "received"}
    /\ server[s] = "serving" => stopper[s] \in {"unseen", "received"}
    /\ active[s] /\ stopper[s] = "received" => s # "rpc" /\ ContextDone

\* Exit 2 says that servers were slow, not silent: if none reports, the
\* four-second timer ends the process first.
ExitTwoHeardSome ==
  exit = "2" => cancelled \/ \E s \in Servers : stopper[s] = "received"

\* Every event restarts the four-second timer, and ctx ends after five: exit 1
\* means that nobody reported after the first second.  A server that stops
\* later makes the shutdown end with 0 or 2.
ExitOneHeardEarly == exit = "1" => loopStart + IdleLimit <= WaitLimit

\* The first event, whoever sends it, ends the waiting.
ShutdownStarts ==
  signal = "reporting" \/ (\E s \in Servers : server[s] = "reporting") ~>
    mainPc # "wait" \/ exit # "running"

\* A shutdown that has begun ends the process, even if a request never ends
\* or a server hangs in GracefulStop.
ShutdownEnds == mainPc # "wait" ~> exit # "running"

\* How far the exit is away: the tests to come, each of which may add an event
\* to wait for, the events, the seconds until ctx expires, and the exit itself.
TestsLeft ==
  CASE mainPc = "wait" -> 4
    [] mainPc = "http" -> 3
    [] mainPc = "rpc" -> 2
    [] mainPc = "metrics" -> 1
    [] mainPc = "select" -> 0
Remaining == 2 * TestsLeft + waitEvents + (WaitLimit - elapsed) + (IF Running THEN 1 ELSE 0)

\* Every step of main and every second brings the exit nearer, and no server,
\* request, interrupt or cancellation takes it further away: events restart the
\* four-second timer, but never without end.
ShutdownAdvances ==
  [][/\ Remaining \in Nat /\ Remaining' \in Nat
     /\ Remaining' <= Remaining
     /\ Main \/ Tick => Remaining' < Remaining]_vars

----------------------------------------------------------------------------
\* A goroutine that stops a server reports when the server has no requests
\* left, or when ctx has ended: GracefulStop does not look at it.
StopperReports ==
  \A s \in Servers :
    stopper[s] \in {"sending", "received"} /\ active[s] => s # "rpc" /\ ContextDone

\* The tests still to come start no goroutine twice.
ChecksInv ==
  /\ mainPc \in {"wait", "http"} => \A s \in Servers : stopper[s] = "none"
  /\ mainPc = "rpc" => stopper["rpc"] = "none" /\ stopper["metrics"] = "none"
  /\ mainPc = "metrics" => stopper["metrics"] = "none"

\* Only the server that reported is passed over without a look, and its
\* goroutine has ended.
PassedInv ==
  /\ mainPc \in {"rpc", "metrics", "select"} => stopper["http"] # "none" \/ source = "http"
  /\ mainPc \in {"metrics", "select"} => stopper["rpc"] # "none" \/ source = "rpc"
  /\ mainPc = "select" => stopper["metrics"] # "none" \/ source = "metrics"
  /\ \A s \in Servers : source = s => server[s] = "ended"
  /\ exit = "0" => mainPc = "select"

\* Time passes in the select only; as long as nobody was heard of, main is in
\* the select for the first time.
TimeInv ==
  /\ mainPc # "select" => elapsed = 0
  /\ loopStart <= elapsed /\ elapsed <= WaitLimit
  /\ ExitOneHeardEarly
  /\ (\A s \in Servers : stopper[s] # "received") => loopStart = 0 /\ elapsed <= IdleLimit

ShutdownInv ==
  /\ TypeOK /\ WaitEventsCounts /\ StopperReports /\ ExitZeroWaits /\ ExitTwoHeardSome
  /\ ChecksInv /\ PassedInv /\ TimeInv
=============================================================================
