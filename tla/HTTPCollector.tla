--------------------------- MODULE HTTPCollector ---------------------------
(***************************************************************************)
(* The batching span collector of zipkin/collector-http-hystrix.go.        *)
(*                                                                         *)
(* Three kinds of goroutine touch it.  Callers of Collect hand a span over *)
(* an unbuffered channel; the loop goroutine owns that channel, appends to *)
(* the batch and starts senders; each sender (started by "go c.send()")    *)
(* POSTs what the batch held when it looked, then cuts that many spans off *)
(* the front.  Close makes the loop run one last send itself.              *)
(*                                                                         *)
(* Abstractions.  A span is a member of Spans, collected at most once.     *)
(* The clock is one Boolean: "due" says that time.Now() is after nextSend. *)
(* A critical section of batchMutex is atomic, except the one in which     *)
(* append calls the logger, a foreign function, with the mutex held: that  *)
(* is the loop state "logging".  sendBatch is a value although the code    *)
(* shares its array with batch: append writes only past the end of batch,  *)
(* so no element of an older slice is ever overwritten.                    *)
(***************************************************************************)
EXTENDS Naturals, Sequences, FiniteSets, Functions

CONSTANTS
  Spans,       \* the spans that may be collected
  Senders,     \* identities for the send goroutines past sendMutex.Lock()
  Loop,        \* the loop goroutine, a sender too once it has seen quit
  Free,        \* "sendMutex is not held"
  BatchSize,   \* c.batchSize
  MaxBacklog,  \* c.maxBacklog
  MaxQueued    \* bound of the model: the ticker starts no goroutine while
               \* this many are queued on sendMutex

Threads == Senders \cup {Loop}

ASSUME ThreadAssumption == Loop \notin Senders /\ Free \notin Threads
ASSUME SizeAssumption   == BatchSize \in Nat /\ MaxBacklog \in Nat
ASSUME BoundAssumption  == MaxQueued \in Nat

VARIABLES
  caller,     \* Collect(s): "new", "blocked" in c.spanc <- s, or "returned"
  batch,      \* c.batch
  due,        \* time.Now().After(nextSend)
  loopPc,     \* "select", "logging" (batchMutex held), "final", "done"
  queued,     \* send goroutines that have not passed sendMutex.Lock()
  sendMutex,  \* the thread that holds it, or Free
  phase,      \* of send(): "idle", "post" (in client.Do), "trim" (Do gave nil)
  sendBatch,  \* send's local variable
  shutdown,   \* the channel of capacity 1: "empty", or the "nil"/"err" in it
  closePc,    \* Close: "idle", "waiting", or what it returned: "nil", "err"
  accepted,   \* history: the spans the loop received, in order
  disposed,   \* history: the spans append disposed of
  sent        \* history: the spans of the POSTs for which Do returned nil

history    == <<accepted, disposed, sent>>
loopVars   == <<due, loopPc, queued>>
senderVars == <<sendMutex, phase, sendBatch>>
closeVars  == <<shutdown, closePc>>
vars == <<caller, batch, loopVars, senderVars, closeVars, history>>

Init ==
  /\ caller = [s \in Spans |-> "new"]
  /\ batch = << >>
  /\ due = FALSE
  /\ loopPc = "select"
  /\ queued = 0
  /\ sendMutex = Free
  /\ phase = [w \in Threads |-> "idle"]
  /\ sendBatch = [w \in Threads |-> << >>]
  /\ shutdown = "empty"
  /\ closePc = "idle"
  /\ accepted = << >>
  /\ disposed = {}
  /\ sent = {}

----------------------------------------------------------------------------
(* Callers.                                                                *)

\* Collect blocks in c.spanc <- s until the loop receives.
Collect(s) ==
  /\ caller[s] = "new"
  /\ caller' = [caller EXCEPT ![s] = "blocked"]
  /\ UNCHANGED <<batch, loopVars, senderVars, closeVars, history>>

\* close(c.quit), then Close waits on c.shutdown.
Close ==
  /\ closePc = "idle"
  /\ closePc' = "waiting"
  /\ UNCHANGED <<caller, batch, loopVars, senderVars, shutdown, history>>

CloseReturns ==
  /\ closePc = "waiting"
  /\ shutdown # "empty"
  /\ closePc' = shutdown
  /\ shutdown' = "empty"
  /\ UNCHANGED <<caller, batch, loopVars, senderVars, history>>

----------------------------------------------------------------------------
(* The loop goroutine.                                                     *)

\* nextSend moves ahead and "go c.send()" starts.
StartSend ==
  /\ due' = FALSE
  /\ queued' = queued + 1

\* Mutant: the decision is taken under sendMutex, before append unlocks.
AfterAppendLocked(currentBatchSize) ==
  /\ sendMutex = Free
  /\ IF currentBatchSize >= BatchSize THEN StartSend ELSE UNCHANGED <<due, queued>>

\* What the loop does with the batch size that append returned.
AfterAppend(currentBatchSize) ==
  \/ /\ currentBatchSize >= BatchSize
     /\ StartSend
  \/ /\ currentBatchSize < BatchSize
     /\ UNCHANGED <<due, queued>>

\* Mutant: the backlog may hold one span too many.
OverflowsLate(n) == n > MaxBacklog + 1

Overflows(n) == n > MaxBacklog

\* Mutants: the slice expression keeps the wrong end, or nothing.
DropLast(n) == SubSeq(batch, 1, Len(batch) - n)
DropAll(n)  == << >>

\* batch[n:]
DropFirst(n) == SubSeq(batch, n + 1, Len(batch))

\* case span := <-c.spanc, up to the end of append or to its call of Log.
Receive(s) ==
  /\ loopPc = "select"
  /\ caller[s] = "blocked"
  /\ caller' = [caller EXCEPT ![s] = "returned"]
  /\ accepted' = Append(accepted, s)
  /\ batch' = Append(batch, s)
  /\ \/ /\ ~Overflows(Len(batch'))
        /\ AfterAppend(Len(batch'))
        /\ UNCHANGED loopPc
     \/ /\ Overflows(Len(batch'))
        /\ loopPc' = "logging"
        /\ UNCHANGED <<due, queued>>
  /\ UNCHANGED <<senderVars, closeVars, disposed, sent>>

\* Mutant: one span more than needed is disposed of.
ExcessPlusOne == Len(batch) - MaxBacklog + 1

\* append's dispose
Excess == Len(batch) - MaxBacklog

\* Log returned: append cuts the oldest spans, then unlocks batchMutex.
Dispose ==
  /\ loopPc = "logging"
  /\ disposed' = disposed \cup Range(SubSeq(batch, 1, Excess))
  /\ batch' = DropFirst(Excess)
  /\ loopPc' = "select"
  /\ AfterAppend(Len(batch'))
  /\ UNCHANGED <<caller, senderVars, closeVars, accepted, sent>>

TimePasses ==
  /\ ~due
  /\ due' = TRUE
  /\ UNCHANGED <<caller, batch, loopPc, queued, senderVars, closeVars, history>>

\* case <-tickc with the time past nextSend; an earlier tick changes nothing.
Tick ==
  /\ loopPc = "select"
  /\ due
  /\ queued < MaxQueued
  /\ StartSend
  /\ UNCHANGED <<caller, batch, loopPc, senderVars, closeVars, history>>

\* case <-c.quit: from here on the loop receives no span.
Quit ==
  /\ loopPc = "select"
  /\ closePc # "idle"
  /\ loopPc' = "final"
  /\ UNCHANGED <<caller, batch, due, queued, senderVars, closeVars, history>>

----------------------------------------------------------------------------
(* send, run by a sender goroutine or, once, by the loop.                  *)

BatchMutexFree == loopPc # "logging"

\* w is about to lock sendMutex.
AtLock(w) ==
  /\ phase[w] = "idle"
  /\ IF w = Loop THEN loopPc = "final" ELSE queued > 0

\* Mutant: send does without sendMutex.
LockNothing(w) == AtLock(w) /\ BatchMutexFree

\* w can lock sendMutex and, to look at the batch, batchMutex.
Lock(w) == AtLock(w) /\ sendMutex = Free /\ BatchMutexFree

\* Mutant: the loop's last send counts as one of the queued goroutines.
DequeueAlways(w) == queued' = queued - 1

\* A queued goroutine leaves the queue when it gets the lock.
Dequeue(w) == queued' = IF w = Loop THEN queued ELSE queued - 1

\* Mutant: send logs its error and returns nil.
ReturnNil(w, result) ==
  IF w = Loop THEN shutdown' = "nil" /\ loopPc' = "done" ELSE UNCHANGED <<shutdown, loopPc>>

\* send returns: the loop puts the result into c.shutdown and ends, a
\* goroutine drops it.
Return(w, result) ==
  IF w = Loop THEN shutdown' = result /\ loopPc' = "done" ELSE UNCHANGED <<shutdown, loopPc>>

\* Mutant: sendMutex stays locked.
UnlockNothing(w) ==
  /\ phase' = [phase EXCEPT ![w] = "idle"]
  /\ UNCHANGED <<sendMutex, sendBatch>>

Unlock(w) ==
  /\ sendMutex' = Free
  /\ phase' = [phase EXCEPT ![w] = "idle"]
  /\ sendBatch' = [sendBatch EXCEPT ![w] = << >>]

\* There is nothing to send: return nil.
SendNothing(w) ==
  /\ Lock(w)
  /\ batch = << >>
  /\ Dequeue(w)
  /\ Return(w, "nil")
  /\ UNCHANGED <<caller, batch, due, senderVars, closePc, history>>

\* The batch is read; the request is on its way.
Post(w) ==
  /\ Lock(w)
  /\ batch # << >>
  /\ Dequeue(w)
  /\ sendMutex' = w
  /\ sendBatch' = [sendBatch EXCEPT ![w] = batch]
  /\ phase' = [phase EXCEPT ![w] = "post"]
  /\ UNCHANGED <<caller, batch, due, loopPc, closeVars, history>>

\* NewRequest or Do returned an error: the batch stays as it is.
PostFails(w) ==
  /\ phase[w] = "post"
  /\ Unlock(w)
  /\ Return(w, "err")
  /\ UNCHANGED <<caller, batch, due, queued, closePc, history>>

\* Do returned a response, whatever its status.
PostSucceeds(w) ==
  /\ phase[w] = "post"
  /\ phase' = [phase EXCEPT ![w] = "trim"]
  /\ sent' = sent \cup Range(sendBatch[w])
  /\ UNCHANGED <<caller, batch, loopVars, sendMutex, sendBatch, closeVars,
                 accepted, disposed>>

\* c.batch = c.batch[len(sendBatch):], and send returns nil.
Trim(w) ==
  /\ phase[w] = "trim"
  /\ BatchMutexFree
  /\ batch' = DropFirst(Len(sendBatch[w]))
  /\ Unlock(w)
  /\ Return(w, "nil")
  /\ UNCHANGED <<caller, due, queued, closePc, history>>

----------------------------------------------------------------------------
\* Nobody has anything left to do.  A Collect that the loop did not receive
\* before it ended stays blocked for ever.
Terminated ==
  /\ loopPc = "done"
  /\ queued = 0
  /\ closePc \in {"nil", "err"}
  /\ \A w \in Threads : phase[w] = "idle"
  /\ \A s \in Spans : caller[s] # "new"
  /\ UNCHANGED vars

LoopStep == Dispose \/ TimePasses \/ Tick \/ Quit

Send(w) == SendNothing(w) \/ Post(w) \/ PostFails(w) \/ PostSucceeds(w) \/ Trim(w)

Next ==
  \/ \E s \in Spans : Collect(s) \/ Receive(s)
  \/ Close \/ CloseReturns
  \/ LoopStep
  \/ \E w \in Threads : Send(w)
  \/ Terminated

Spec == Init /\ [][Next]_vars

\* The goroutines run, the clock advances, the logger returns, and client.Do
\* returns, with an error or with a response.
Fairness ==
  /\ WF_vars(CloseReturns)
  /\ WF_vars(Dispose) /\ WF_vars(TimePasses) /\ WF_vars(Tick) /\ WF_vars(Quit)
  /\ \A s \in Spans : WF_vars(Receive(s))
  /\ \A w \in Threads :
       /\ WF_vars(SendNothing(w) \/ Post(w))
       /\ WF_vars(PostFails(w) \/ PostSucceeds(w))
       /\ WF_vars(Trim(w))

FairSpec == Spec /\ Fairness

----------------------------------------------------------------------------
(* Properties.                                                             *)

InFlight(w) == phase[w] \in {"post", "trim"}

\* The types of the variables.
TypeOK ==
  /\ caller \in [Spans -> {"new", "blocked", "returned"}]
  /\ batch \in Seq(Spans)
  /\ due \in BOOLEAN
  /\ loopPc \in {"select", "logging", "final", "done"}
  /\ queued \in Nat
  /\ sendMutex \in Threads \cup {Free}
  /\ phase \in [Threads -> {"idle", "post", "trim"}]
  /\ sendBatch \in [Threads -> Seq(Spans)]
  /\ shutdown \in {"empty", "nil", "err"}
  /\ closePc \in {"idle", "waiting", "nil", "err"}
  /\ accepted \in Seq(Spans)
  /\ disposed \in SUBSET Spans
  /\ sent \in SUBSET Spans

\* The reslicing c.batch[len(sendBatch):] never panics: while a POST is under
\* way no append, disposal or other sender makes the batch shorter than the
\* slice that was read from it.
NoSliceOutOfRange ==
  \A w \in Threads : InFlight(w) => Len(sendBatch[w]) <= Len(batch)

\* Whenever batchMutex is free the backlog is within maxBacklog, whatever the
\* senders did in between.
BacklogBounded == BatchMutexFree => Len(batch) <= MaxBacklog

\* What sendMutex is for ("in order to prevent sending the same batch twice"):
\* no span is in two POSTs at a time, and none that went out in a POST that
\* succeeded is POSTed again, disposals and late trims notwithstanding.
NoResend ==
  \A w \in Threads :
    phase[w] = "post" =>
      /\ Range(sendBatch[w]) \cap sent = {}
      /\ \A v \in Threads \ {w} :
           InFlight(v) => Range(sendBatch[w]) \cap Range(sendBatch[v]) = {}

\* Spans that left the batch unsent and without the "disposing" log line.
Lost == Range(accepted) \ (Range(batch) \cup disposed \cup sent)

\* Between sends, exactly as many spans are lost silently as were reported
\* disposed of although the POST in flight delivered them: without overflow
\* during a POST nothing is lost.
LossIsMiscountedDisposal ==
  (\A w \in Threads : phase[w] # "trim") =>
    Cardinality(Lost) = Cardinality(disposed \cap sent)

\* When Close returned nil the collector is empty and silent: every span the
\* loop received was sent, disposed of or lost, and no send goroutine that
\* started earlier, and got the lock later, POSTs anything.
CleanCloseFlushes ==
  closePc = "nil" =>
    /\ batch = << >>
    /\ \A w \in Threads : phase[w] = "idle"

\* The batch is FIFO: it holds the latest received spans, in the order of
\* their arrival, so append and trim only ever drop the oldest ones.
BatchIsLatest ==
  batch = SubSeq(accepted, Len(accepted) - Len(batch) + 1, Len(accepted))

\* "Remove sent spans from the batch": a span that leaves the batch was sent,
\* or was disposed of.  The code violates it: the cut at the front counts
\* from a front that append may have moved during the POST.
RemovesOnlySentSpans ==
  [][Range(batch) \ Range(batch') \subseteq sent \cup disposed']_vars

\* Close returns, though it queues behind a POST in flight, the goroutines
\* waiting for sendMutex and the spans offered meanwhile.
CloseCompletes == closePc = "waiting" ~> closePc \in {"nil", "err"}

\* The steps of send that can still happen once the loop has seen quit: three
\* for each goroutine in the queue and for the loop on its way to its own send,
\* fewer for the one that has the lock.
LoopLeft == IF loopPc = "final" /\ phase[Loop] = "idle" THEN 3 ELSE 0
HolderLeft ==
  IF sendMutex = Free THEN 0
  ELSE IF phase[sendMutex] = "post" THEN 2
  ELSE IF phase[sendMutex] = "trim" THEN 1 ELSE 0
SendsLeft == 3 * queued + LoopLeft + HolderLeft

\* After quit nothing adds to them, and every step of a sender takes one off:
\* no stream of ticks, spans and failing POSTs keeps Close waiting for ever.
CloseDrains ==
  [][loopPc = "final" =>
       /\ SendsLeft \in Nat /\ SendsLeft' \in Nat
       /\ SendsLeft' <= SendsLeft
       /\ (\E w \in Threads : Send(w)) => SendsLeft' < SendsLeft]_vars

\* And as long as the loop is not done somebody can take one: the loop can lock
\* sendMutex, or its holder is in a POST or about to cut the batch.
CloseNotStuck ==
  loopPc = "final" => Lock(Loop) \/ \E w \in Threads : sendMutex = w /\ InFlight(w)

\* Collect is held up only by a loop that has seen quit.
CollectCompletes ==
  \A s \in Spans :
    caller[s] = "blocked" ~> (caller[s] = "returned" \/ loopPc \in {"final", "done"})

----------------------------------------------------------------------------
(* The collector as a LossyQueue.  The one span above the backlog that the *)
(* batch holds while append logs counts as pushed out already.             *)

Kept == IF loopPc = "logging" THEN Tail(batch) ELSE batch

\* The spans of a POST that succeeded and is yet to be cut off.
Owed == IF sendMutex # Free /\ phase[sendMutex] = "trim" THEN Len(sendBatch[sendMutex]) ELSE 0

Queue == INSTANCE LossyQueue WITH
  Items <- Spans, Bound <- MaxBacklog, open <- loopPc \in {"select", "logging"},
  arrived <- accepted, queue <- Kept, delivered <- sent, owed <- Owed

\* Every step of the collector's threads is a step of the queue or none: spans
\* are kept and POSTed in the order they came, none is delivered twice, and
\* the batch loses spans only off its front, to an overflow or to a POST.
ImplementsLossyQueue == Queue!QueueSpec

----------------------------------------------------------------------------
(* The inductive invariant behind the theorems of HTTPCollectorProofs.     *)

\* append leaves at most MaxBacklog spans, one more while it logs.
BacklogInv ==
  IF loopPc = "logging" THEN Len(batch) = MaxBacklog + 1 ELSE Len(batch) <= MaxBacklog

\* A send that is under way holds sendMutex.
MutexInv == \A w \in Threads : InFlight(w) => sendMutex = w

\* And whoever holds it has a send under way.
HolderInv == sendMutex # Free => sendMutex \in Threads /\ InFlight(sendMutex)

\* What is in flight is no longer than the batch, also after a disposal.
FlightInv ==
  \A w \in Threads :
    InFlight(w) => Len(sendBatch[w]) <= MaxBacklog /\ Len(sendBatch[w]) <= Len(batch)

\* Close's result appears once the loop is done; nil, only with nothing left.
CloseInv ==
  /\ InFlight(Loop) => loopPc = "final" /\ batch = sendBatch[Loop]
  /\ shutdown # "empty" \/ closePc \in {"nil", "err"} => loopPc = "done"
  /\ "nil" \in {shutdown, closePc} => batch = << >> /\ \A w \in Threads : ~InFlight(w)

\* The spans that have left the front of the batch.
Removed == Len(accepted) - Len(batch)

\* Each span is received once, and the batch is the end of the history.
OrderInv ==
  /\ IsInjective(accepted)
  /\ \A i \in 1 .. Len(accepted) : caller[accepted[i]] = "returned"
  /\ Len(batch) <= Len(accepted)
  /\ \A i \in 1 .. Len(batch) : batch[i] = accepted[Removed + i]

\* What w has in flight is the piece of the history after the first b spans;
\* while it is not yet sent, nothing sent lies in it or beyond.
Segment(w, b) ==
  /\ b + Len(sendBatch[w]) <= Len(accepted)
  /\ \A i \in 1 .. Len(sendBatch[w]) : sendBatch[w][i] = accepted[b + i]
  /\ phase[w] = "post" => \A s \in sent : \E i \in 1 .. b : s = accepted[i]

\* It starts at or before the front of the batch.
SegmentInv ==
  \A w \in Threads : InFlight(w) => \E b \in 0 .. Removed : Segment(w, b)

\* A sent span has left the batch, or its sender is about to cut it off.
SentInv ==
  \A s \in sent :
    \/ \E i \in 1 .. Removed : s = accepted[i]
    \/ \E w \in Threads : phase[w] = "trim" /\ s \in Range(sendBatch[w])

IInv ==
  /\ TypeOK /\ BacklogInv /\ MutexInv /\ FlightInv
  /\ CloseInv /\ OrderInv /\ SegmentInv /\ SentInv

\* A span that was disposed of has left the batch.
DisposedInv == \A s \in disposed : \E i \in 1 .. Removed : s = accepted[i]

\* Every span that has left the batch, or is about to be cut off it, was
\* counted once: by a disposal, or by a POST that succeeded.
CountInv ==
  /\ IsFiniteSet(disposed) /\ IsFiniteSet(sent)
  /\ Removed + Owed = Cardinality(disposed) + Cardinality(sent)

\* The invariant behind the theorem LossIsCounted.
LossInv == IInv /\ DisposedInv /\ CountInv
=============================================================================
