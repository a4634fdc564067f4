-------------------------- MODULE TracingPipeline --------------------------
(***************************************************************************)
(* The span pipeline as NewTracer of handlers/opentracer.go wires it: the  *)
(* HTTPCollector with the HTTPClient of hystrix/client.go as its client    *)
(* and traceLogger as its logger.                                          *)
(*                                                                         *)
(* The collector's client.Do is a call of BreakerClient by the thread that *)
(* runs send, so a POST starts with the collector's Post and ends with the *)
(* call's Receive.  The call of Log inside append, which holds batchMutex, *)
(* is the loop of traceLogger.Log, one test and one body at a time.  The   *)
(* other calls of Log, in send, pass two arguments and leave that loop     *)
(* after one body: they are part of the collector's PostFails.             *)
(*                                                                         *)
(* The span server is no part of the repository.  It stores the spans of a *)
(* POST it answers with success; one that ends in an error, a 500 or a     *)
(* broken connection, it may have stored all the same.                     *)
(***************************************************************************)
EXTENDS HTTPCollector

CONSTANT MaxConcurrent  \* hystrix: commands of the name "zipkin" at a time

ASSUME TicketAssumption == MaxConcurrent \in Nat

VARIABLES
  doPc, output, errors, command, timer, answer, open,  \* of BreakerClient
  logPc,     \* traceLogger.Log called by append: "idle", or at its
             \* loop's "test" or "body"
  logIndex,  \* its i
  posted,    \* history: the spans of the POSTs that fn was run for
  answered,  \* history: the spans of the POSTs that got a response
  failed,    \* history: the spans of the POSTs that ended in an error
  stored,    \* the spans the server has stored
  duplicated \* history: those it has stored more than once

B == INSTANCE BreakerClient WITH Calls <- Threads

breaker == <<doPc, output, errors, command, timer, answer, open>>
logVars == <<logPc, logIndex>>
emissions == <<posted, answered, failed, stored, duplicated>>
pipelineVars == <<vars, breaker, logVars, emissions>>

PipelineInit ==
  /\ Init
  /\ B!BreakerInit
  /\ logPc = "idle"
  /\ logIndex = 0
  /\ posted = {} /\ answered = {} /\ failed = {}
  /\ stored = {} /\ duplicated = {}

\* append passes a message, "count" and dispose.
KeyVals == 3

\* for i := 0; i < len; i = +2
NextIndex(i) == 2

CallLog ==
  IF loopPc' = "logging" THEN logPc' = "test" /\ logIndex' = 0 ELSE UNCHANGED logVars

\* The loop's test; when it fails Log returns and append cuts the batch.
LogTest ==
  /\ logPc = "test"
  /\ IF logIndex < KeyVals
       THEN logPc' = "body" /\ UNCHANGED vars
       ELSE logPc' = "idle" /\ Dispose
  /\ UNCHANGED <<breaker, logIndex, emissions>>

LogBody ==
  /\ logPc = "body"
  /\ logIndex' = NextIndex(logIndex)
  /\ logPc' = "test"
  /\ UNCHANGED <<vars, breaker, emissions>>

Accept(s) == Receive(s) /\ CallLog /\ UNCHANGED <<breaker, emissions>>

\* send calls client.Do.
StartPost(w) == Post(w) /\ B!Start(w) /\ UNCHANGED <<logVars, emissions>>

\* Mutant: send ignores the error of Do.
EndPostIgnoringErrors(w) ==
  /\ B!Receive(w)
  /\ PostSucceeds(w)
  /\ UNCHANGED <<logVars, emissions>>

\* client.Do returns to send.
EndPost(w) ==
  /\ B!Receive(w)
  /\ \/ doPc'[w] = "response" /\ PostSucceeds(w)
     \/ doPc'[w] = "error" /\ PostFails(w)
  /\ UNCHANGED <<logVars, emissions>>

\* The circuit lets fn run: the request goes to the span server.
Emit(w) ==
  /\ B!Admit(w)
  /\ posted' = posted \cup Range(sendBatch[w])
  /\ UNCHANGED <<vars, logVars, answered, failed, stored, duplicated>>

\* The server has, or has not, stored the spans of the POST.
Store(spans, a) ==
  \/ /\ stored' = stored \cup spans
     /\ duplicated' = duplicated \cup (stored \cap spans)
  \/ /\ a # "ok"
     /\ UNCHANGED <<stored, duplicated>>

\* The span server, or the network, answers.
ServerAnswers(w, a) ==
  /\ B!Answer(w, a)
  /\ Store(Range(sendBatch[w]), a)
  /\ IF a \in B!Responses
       THEN answered' = answered \cup Range(sendBatch[w]) /\ UNCHANGED failed
       ELSE failed' = failed \cup Range(sendBatch[w]) /\ UNCHANGED answered
  /\ UNCHANGED <<vars, logVars, posted>>

BreakerSteps(w) ==
  /\ B!Reject(w) \/ B!Report(w) \/ B!End(w) \/ B!Timeout(w)
  /\ UNCHANGED <<vars, logVars, emissions>>

\* What the collector does by itself.
CollectorSteps ==
  /\ \/ \E s \in Spans : Collect(s)
     \/ Close \/ CloseReturns \/ TimePasses \/ Tick \/ Quit
     \/ \E w \in Threads : SendNothing(w) \/ Trim(w)
  /\ UNCHANGED <<breaker, logVars, emissions>>

PipelineNext ==
  \/ CollectorSteps
  \/ \E s \in Spans : Accept(s)
  \/ LogTest \/ LogBody
  \/ \E w \in Threads :
       \/ StartPost(w) \/ EndPost(w) \/ Emit(w) \/ BreakerSteps(w)
       \/ \E a \in B!Answers : ServerAnswers(w, a)

PipelineSpec == PipelineInit /\ [][PipelineNext]_pipelineVars

ByItself(A) == A /\ UNCHANGED <<breaker, logVars, emissions>>

\* Goroutines run, time passes, fn returns, and both hystrix and the server
\* are in the end kind to a POST that is tried again and again.
PipelineFairness ==
  /\ WF_pipelineVars(ByItself(TimePasses)) /\ WF_pipelineVars(ByItself(Tick))
  /\ WF_pipelineVars(ByItself(Quit)) /\ WF_pipelineVars(ByItself(CloseReturns))
  /\ WF_pipelineVars(LogTest) /\ WF_pipelineVars(LogBody)
  /\ \A s \in Spans : WF_pipelineVars(Accept(s))
  /\ \A w \in Threads :
       /\ WF_pipelineVars(ByItself(SendNothing(w)) \/ StartPost(w))
       /\ WF_pipelineVars(ByItself(Trim(w)))
       /\ WF_pipelineVars(EndPost(w))
       /\ WF_pipelineVars(BreakerSteps(w))
       /\ WF_pipelineVars(\E a \in B!Answers : ServerAnswers(w, a))
       /\ SF_pipelineVars(Emit(w))
       /\ SF_pipelineVars(ServerAnswers(w, "ok"))

PipelineFairSpec == PipelineSpec /\ PipelineFairness
----------------------------------------------------------------------------
(* Properties.                                                             *)

PipelineTypeOK ==
  /\ logPc \in {"idle", "test", "body"}
  /\ logIndex \in 0 .. KeyVals + 1
  /\ posted \subseteq Spans /\ answered \subseteq Spans /\ failed \subseteq Spans
  /\ stored \subseteq Spans /\ duplicated \subseteq Spans

\* What send cuts off as sent was answered by the span server: no timeout,
\* rejection, fallback or late answer of another call passes for a response.
SentWasAnswered == sent \subseteq answered

\* The server stores a span twice only if a POST of it ended in an error of
\* Do, the one case in which nobody can know what the server did.  A late
\* answer, a timeout or a 500 is never a reason to POST a span again.
DuplicatesFollowErrors == duplicated \subseteq failed

\* An append that overflows the backlog never ends: Log spins with
\* batchMutex locked, so the loop takes no other span and nothing that is in
\* the batch is ever cut off.
OverflowIsFinal ==
  [][loopPc = "logging" => UNCHANGED <<loopPc, batch, accepted>>]_pipelineVars

\* As NewTracer wires it the collector disposes of nothing and, between sends,
\* has lost nothing: it hangs before it can miscount.
NothingDisposed == disposed = {} /\ ((\A w \in Threads : phase[w] # "trim") => Lost = {})

\* A send whose POST hystrix rejected keeps sendMutex for ever: no span is
\* POSTed, stored or cut off as sent after that.
RejectionIsFinal ==
  [][\A w \in Threads :
       phase[w] = "post" /\ B!Stranded(w) =>
         /\ phase'[w] = "post" /\ B!Stranded(w)'
         /\ UNCHANGED <<sendMutex, posted, stored, sent>>]_pipelineVars

\* Spans of a POST that was answered while send still waits for the news.
InTheChannel(w) == IF phase[w] = "post" /\ answer[w] \in B!Responses THEN Range(sendBatch[w]) ELSE {}

\* The inductive invariant.  A thread is in client.Do exactly while its call
\* is under way, so the answer it meets there is that of its own POST; what
\* was stored was sent, or failed, or is about to be known as sent.
PipelineInv ==
  /\ PipelineTypeOK /\ IInv /\ B!BreakerInv
  /\ loopPc = "logging" <=> logPc # "idle"
  /\ \A w \in Threads :
       /\ phase[w] = "post" <=> doPc[w] = "waiting"
       /\ InTheChannel(w) \subseteq answered
  /\ SentWasAnswered /\ DuplicatesFollowErrors
  /\ \A s \in stored :
       s \in sent \cup failed \/ \E w \in Threads : s \in InTheChannel(w)

\* Log's loop is never over: its index comes back to 2, below KeyVals.
LogInv == logIndex \in {0, NextIndex(0)} /\ disposed = {}

\* If the circuit never opens and the backlog never overflows, every span
\* leaves the batch, through errors, 500s, timeouts and retries.
EverySpanLeaves ==
  [](~open /\ logPc = "idle") => \A s \in Spans : s \in Range(batch) ~> (s \notin Range(batch) \/ loopPc = "done")

\* "when batch size reaches this threshold, spans from the beginning of the
\* batch will be disposed".  The code violates it: traceLogger.Log never
\* returns from the call that append makes before it cuts the batch.
BacklogIsCut == Len(batch) > MaxBacklog ~> Len(batch) <= MaxBacklog

\* "the maximum duration we will buffer traces before emitting them": a span
\* in the batch of a collector that is not closed is emitted, sooner or later.
\* The code violates it: after a rejection by the circuit Do never returns,
\* and sendMutex stays locked.
BufferedIsEmitted ==
  \A s \in Spans : s \in Range(batch) ~> (s \in posted \cup disposed \/ closePc # "idle")
=============================================================================
