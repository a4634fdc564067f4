---------------------------- MODULE HystrixMetrics ----------------------------
(***************************************************************************)
(* The collector of hystrix/hystrixMetrics.go over the request chain:      *)
(* every request goes to a handler wrapped by one of several               *)
(* hystrixHelpers, and hystrix tells a circuit's collectors of its         *)
(* commands.                                                               *)
(*                                                                         *)
(* A service registers a helper's NewPrometheusCollector with hystrix,     *)
(* which calls it once for every circuit made later, with the circuit's    *)
(* name; the helper returns itself.  The hystrix whose collectors take a   *)
(* MetricResult tells them by Update, and the helper's Update only logs:   *)
(* nothing calls its Increment methods, so none is modelled.               *)
(*                                                                         *)
(* Abstraction: of the counters, hystrixAttempts.  hystrix makes a circuit *)
(* at the first command of its name and reports a command after the        *)
(* verdict, at any time and in any order, or not at all.                   *)
(***************************************************************************)
EXTENDS RequestChain

CONSTANT Commands   \* the names of the helpers' commands, and of the circuits

VARIABLES
  registered,  \* the helpers whose NewPrometheusCollector hystrix calls
  command,     \* of each request: its handler's command, "none" before
  created,     \* the circuits there are
  collectors,  \* of each circuit: the helpers that are told of its commands
  reported,    \* the requests whose command is reported
  attempts     \* hystrix_attempts_total, by the label: a helper's command

metricsVars == <<registered, command, created, collectors, reported, attempts>>
allVars == <<vars, metricsVars>>

MetricsInit ==
  /\ Init
  /\ registered = {}
  /\ command = [r \in Requests |-> "none"]
  /\ created = {}
  /\ collectors = [c \in Commands |-> {}]
  /\ reported = {}
  /\ attempts = [label \in Commands |-> 0]

\* A service hands the helper's NewPrometheusCollector to hystrix.
Register(h) ==
  /\ ~crashed
  /\ registered' = registered \cup {h}
  /\ UNCHANGED <<vars, command, created, collectors, reported, attempts>>

\* The collector that helper h returns for a circuit, whatever its name.
NewPrometheusCollector(h, circuit) == h

\* hystrix: a command finds its circuit or makes it, with its collectors.
GetCircuit(c) ==
  /\ created' = created \cup {c}
  /\ collectors' = IF c \in created THEN collectors
                   ELSE [collectors EXCEPT ![c] =
                           {NewPrometheusCollector(h, c) : h \in registered}]

\* The request meets a handler wrapped for command c.
ArriveAt(r, c) ==
  /\ \E id \in CallerIds(r) : Arrive(r, id)
  /\ IF r \in Wrapped
     THEN command' = [command EXCEPT ![r] = c] /\ GetCircuit(c)
     ELSE UNCHANGED <<command, created, collectors>>
  /\ UNCHANGED <<registered, reported, attempts>>

\* hystrix hands the result of a command to the Update of each collector of
\* its circuit, which leaves the counters as they are.
Update(r) ==
  /\ ~crashed
  /\ verdict[r] # "none" /\ r \notin reported
  /\ reported' = reported \cup {r}
  /\ UNCHANGED <<vars, registered, command, created, collectors, attempts>>

ChainStep(r) == (Handler(r) \/ Hystrix(r) \/ WayOut(r)) /\ UNCHANGED metricsVars

MetricsNext ==
  \/ \E h \in Commands \ registered : Register(h)
  \/ \E r \in Requests : (\E c \in Commands : ArriveAt(r, c)) \/ ChainStep(r) \/ Update(r)
  \/ Idle /\ UNCHANGED metricsVars

MetricsSpec == MetricsInit /\ [][MetricsNext]_allVars
----------------------------------------------------------------------------
\* The reported requests of the circuits whose collectors include helper h.
Seen(h) == {r \in reported : h \in collectors[command[r]]}

\* hystrix_attempts_total is, by its Help text in hystrixMetrics.go:15, the
\* "Number of attempts to cross the circuit breaker.": a helper counts one for
\* each command that hystrix reported to it.
AttemptsAreCounted == \A h \in Commands : attempts[h] = Cardinality(Seen(h))
=============================================================================
