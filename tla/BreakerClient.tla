--------------------------- MODULE BreakerClient ---------------------------
(***************************************************************************)
(* circuitBreaker of hystrix/client.go, which every method of HTTPClient   *)
(* (Do, Get, Head, Post, PostForm) is a call of.                           *)
(*                                                                         *)
(* The caller hands fn to hystrix.Go and waits for one of two channels of  *)
(* capacity 1.  hystrix.Go starts two goroutines: the command goroutine    *)
(* asks the circuit, then runs fn and puts its answer into a channel; the  *)
(* timer goroutine watches the clock.  Either may run the fallback, which  *)
(* only logs.  hystrix is not part of the repository: its actions say what *)
(* circuitBreaker has to expect of it.                                     *)
(*                                                                         *)
(* Abstraction: a call is identified with a member of Calls, which a later *)
(* call may take once all its goroutines have ended.                       *)
(***************************************************************************)
EXTENDS Naturals, FiniteSets

CONSTANTS
  Calls,         \* identities for calls that overlap
  MaxConcurrent  \* how many commands of one name hystrix runs at a time

ASSUME ConcurrencyAssumption == MaxConcurrent \in Nat

VARIABLES
  doPc,     \* the caller: "idle", in the select, or what it got from it
  output,   \* the channel of responses: "empty", its content, or "closed"
  errors,   \* the channel of errors, likewise; "panic" after a send on closed
  command,  \* the command goroutine
  timer,    \* the timer goroutine: "off", "armed", or "fired"
  answer,   \* what fn returned, "none" before
  open      \* the circuit of the command name is open

callVars == <<doPc, output, errors, command, timer, answer>>
breakerVars == <<callVars, open>>

Responses == {"ok", "serverError"}
Answers   == Responses \cup {"err"}

BreakerInit ==
  /\ doPc = [c \in Calls |-> "idle"]
  /\ output = [c \in Calls |-> "empty"]
  /\ errors = [c \in Calls |-> "empty"]
  /\ command = [c \in Calls |-> "off"]
  /\ timer = [c \in Calls |-> "off"]
  /\ answer = [c \in Calls |-> "none"]
  /\ open = FALSE

\* The commands that hold one of hystrix's tickets; a timeout returns it.
Busy == {c \in Calls : command[c] \in {"running", "answered"} /\ timer[c] = "armed"}

\* A send on channel ch: a panic if it is closed.
Put(ch, c, value) == [ch EXCEPT ![c] = IF @ = "closed" THEN "panic" ELSE value]

\* Mutant: the fallback tells the caller.
FallbackReports(c) == errors' = Put(errors, c, "err") /\ UNCHANGED output

\* The fallback logs "breaker closed" and gives the error back to hystrix.
Fallback(c) == UNCHANGED <<output, errors>>

\* circuitBreaker makes its channels, calls hystrix.Go and selects.
Start(c) ==
  /\ doPc[c] # "waiting"
  /\ command[c] = "off" /\ timer[c] = "off"
  /\ doPc' = [doPc EXCEPT ![c] = "waiting"]
  /\ output' = [output EXCEPT ![c] = "empty"]
  /\ errors' = [errors EXCEPT ![c] = "empty"]
  /\ command' = [command EXCEPT ![c] = "asking"]
  /\ timer' = [timer EXCEPT ![c] = "armed"]
  /\ answer' = [answer EXCEPT ![c] = "none"]
  /\ UNCHANGED open

\* The circuit is open, or there is no ticket left: fn does not run.
Reject(c) ==
  /\ command[c] = "asking"
  /\ open \/ Cardinality(Busy) >= MaxConcurrent
  /\ Fallback(c)
  /\ command' = [command EXCEPT ![c] = "rejected"]
  /\ UNCHANGED <<doPc, timer, answer, open>>

\* fn runs; an open circuit lets a single call through from time to time.
Admit(c) ==
  /\ command[c] = "asking"
  /\ Cardinality(Busy) < MaxConcurrent
  /\ command' = [command EXCEPT ![c] = "running"]
  /\ UNCHANGED <<doPc, output, errors, timer, answer, open>>

\* Mutant: a response that counts as a failure is not passed on.
AnswerKeeps5xx(c, a) ==
  /\ command[c] = "running"
  /\ answer' = [answer EXCEPT ![c] = a]
  /\ command' = [command EXCEPT ![c] = "answered"]
  /\ IF a = "ok" THEN output' = Put(output, c, a) /\ UNCHANGED errors
                 ELSE errors' = Put(errors, c, "err") /\ UNCHANGED output
  /\ UNCHANGED <<doPc, timer, open>>

\* Mutant: errors go only to the fallback.
AnswerDropsErrors(c, a) ==
  /\ command[c] = "running"
  /\ answer' = [answer EXCEPT ![c] = a]
  /\ command' = [command EXCEPT ![c] = "answered"]
  /\ IF a = "ok" THEN output' = Put(output, c, a) ELSE UNCHANGED output
  /\ UNCHANGED <<doPc, errors, timer, open>>

\* fn returned a: it goes into one channel, also after a timeout.
Answer(c, a) ==
  /\ command[c] = "running"
  /\ answer' = [answer EXCEPT ![c] = a]
  /\ command' = [command EXCEPT ![c] = "answered"]
  /\ IF a \in Responses THEN output' = Put(output, c, a) /\ UNCHANGED errors
                        ELSE errors' = Put(errors, c, a) /\ UNCHANGED output
  /\ UNCHANGED <<doPc, timer, open>>

\* An error of fn, or a response with status 500, is a failure to hystrix: it
\* runs the fallback and may open the circuit.  A success closes it.  After a
\* timeout hystrix ignores what fn returned.
Report(c) ==
  /\ command[c] = "answered"
  /\ command' = [command EXCEPT ![c] = "off"]
  /\ \/ /\ timer[c] = "armed" /\ answer[c] = "ok"
        /\ open' = FALSE
        /\ UNCHANGED <<output, errors>>
     \/ /\ timer[c] = "armed" /\ answer[c] # "ok"
        /\ Fallback(c)
        /\ open' \in {open, TRUE}
     \/ /\ timer[c] = "fired"
        /\ UNCHANGED <<output, errors, open>>
  /\ timer' = [timer EXCEPT ![c] = "off"]
  /\ UNCHANGED <<doPc, answer>>

\* The rejected command and its timer goroutine end.
End(c) ==
  /\ command[c] = "rejected"
  /\ command' = [command EXCEPT ![c] = "off"]
  /\ timer' = [timer EXCEPT ![c] = "off"]
  /\ UNCHANGED <<doPc, output, errors, answer, open>>

\* hystrix's timeout passes before the command goroutine is done.
Timeout(c) ==
  /\ timer[c] = "armed"
  /\ command[c] \in {"running", "answered"}
  /\ timer' = [timer EXCEPT ![c] = "fired"]
  /\ Fallback(c)
  /\ open' \in {open, TRUE}
  /\ UNCHANGED <<doPc, command, answer>>

\* case r := <-output, case err := <-errors; the deferred calls close both.
Receive(c) ==
  /\ doPc[c] = "waiting"
  /\ \/ output[c] \in Responses /\ doPc' = [doPc EXCEPT ![c] = "response"]
     \/ errors[c] = "err"       /\ doPc' = [doPc EXCEPT ![c] = "error"]
  /\ output' = [output EXCEPT ![c] = "closed"]
  /\ errors' = [errors EXCEPT ![c] = "closed"]
  /\ UNCHANGED <<command, timer, answer, open>>

Hystrix(c) ==
  \/ Reject(c) \/ Admit(c)
  \/ Report(c) \/ End(c) \/ Timeout(c)

BreakerNext ==
  \E c \in Calls :
    Start(c) \/ Hystrix(c) \/ (\E a \in Answers : Answer(c, a)) \/ Receive(c)

BreakerSpec == BreakerInit /\ [][BreakerNext]_breakerVars

\* The goroutines run, and fn, an HTTP exchange, returns.
BreakerFairness ==
  \A c \in Calls :
    /\ WF_breakerVars(Reject(c) \/ Admit(c))
    /\ WF_breakerVars(\E a \in Answers : Answer(c, a))
    /\ WF_breakerVars(Report(c)) /\ WF_breakerVars(End(c)) /\ WF_breakerVars(Receive(c))

BreakerFairSpec == BreakerSpec /\ BreakerFairness
----------------------------------------------------------------------------
(* Properties.                                                             *)

BreakerTypeOK ==
  /\ doPc \in [Calls -> {"idle", "waiting", "response", "error"}]
  /\ output \in [Calls -> Responses \cup {"empty", "closed", "panic"}]
  /\ errors \in [Calls -> {"empty", "err", "closed", "panic"}]
  /\ command \in [Calls -> {"off", "asking", "rejected", "running", "answered"}]
  /\ timer \in [Calls -> {"off", "armed", "fired"}]
  /\ answer \in [Calls -> Answers \cup {"none"}]
  /\ open \in BOOLEAN

\* circuitBreaker closes its channels when it returns; no goroutine that is
\* still at work for the call, be it after a timeout, sends on one of them.
NoSendOnClosed == \A c \in Calls : output[c] # "panic" /\ errors[c] # "panic"

\* The caller gets what fn returned, a 500 included, and gets it only once fn
\* has returned: neither a timeout nor the fallback answers for it.
ReplyIsAnswer ==
  \A c \in Calls :
    /\ doPc[c] = "response" => answer[c] \in Responses
    /\ doPc[c] = "error" => answer[c] = "err"

\* When all goroutines of the call are gone, a caller that still waits was
\* rejected: an answer is never lost between the channels and the select.
OnlyRejectedWaits ==
  \A c \in Calls :
    doPc[c] = "waiting" /\ command[c] = "off" /\ output[c] = "empty" /\ errors[c] = "empty"
      => answer[c] = "none"

\* Nobody answers c any more: its command was rejected, or is gone, and fn
\* has not run.
Stranded(c) == doPc[c] = "waiting" /\ command[c] \in {"rejected", "off"} /\ answer[c] = "none"

\* A rejected call is never made good: the fallback tells hystrix only, so its
\* caller stays in the select of circuitBreaker for ever.
StrandedStays == [][\A c \in Calls : Stranded(c) => Stranded(c)']_breakerVars

\* What a caller in the select may find in its channels.
ChannelsMatch(c) ==
  /\ output[c] = IF answer[c] \in Responses THEN answer[c] ELSE "empty"
  /\ errors[c] = IF answer[c] = "err" THEN "err" ELSE "empty"

\* The inductive invariant: until fn has returned the caller stays in the
\* select with its channels open.
BreakerInv ==
  /\ BreakerTypeOK /\ NoSendOnClosed /\ ReplyIsAnswer
  /\ \A c \in Calls :
       /\ command[c] \in {"asking", "rejected", "running"} =>
            doPc[c] = "waiting" /\ answer[c] = "none"
       /\ doPc[c] = "waiting" => ChannelsMatch(c)

\* A call whose fn runs returns, however late and whatever hystrix made of it.
AdmittedReturns ==
  \A c \in Calls : command[c] = "running" ~> doPc[c] \in {"response", "error"}
=============================================================================
