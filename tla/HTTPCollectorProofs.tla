------------------------ MODULE HTTPCollectorProofs ------------------------
(***************************************************************************)
(* Theorems about HTTPCollector, for every set of spans and senders and    *)
(* every batch size and backlog: its invariants, that it implements        *)
(* LossyQueue, and how many spans it loses without a word.                 *)
(***************************************************************************)
EXTENDS HTTPCollector, SequenceTheorems, FiniteSetTheorems, TLAPS

-----------------------------------------------------------------------------
(* The invariants.                                                         *)

\* A length, the elements and the range of a sequence of spans.
LEMMA SpanSeq ==
  ASSUME NEW q \in Seq(Spans)
  PROVE  /\ Len(q) \in Nat
         /\ DOMAIN q = 1 .. Len(q)
         /\ \A i \in 1 .. Len(q) : q[i] \in Spans
         /\ Range(q) \subseteq Spans
BY LenProperties, ElementOfSeq DEF Range

\* What remains of a sequence of spans when its first n are cut off.
LEMMA DropFirstOf ==
  ASSUME NEW q \in Seq(Spans), NEW n \in Nat, n <= Len(q)
  PROVE  /\ SubSeq(q, n + 1, Len(q)) \in Seq(Spans)
         /\ Len(SubSeq(q, n + 1, Len(q))) = Len(q) - n
         /\ \A i \in 1 .. Len(q) - n : SubSeq(q, n + 1, Len(q))[i] = q[n + i]
<1>1. Len(q) \in Nat /\ \A i \in (n + 1) .. Len(q) : q[i] \in Spans
  BY SpanSeq
<1>2. SubSeq(q, n + 1, Len(q)) \in Seq(Spans)
  BY <1>1, SubSeqProperties
<1>3. Len(SubSeq(q, n + 1, Len(q)))
        = IF n + 1 <= Len(q) THEN Len(q) - (n + 1) + 1 ELSE 0
  BY <1>1, SubSeqProperties
<1>4. \A i \in 1 .. Len(q) - (n + 1) + 1 :
        SubSeq(q, n + 1, Len(q))[i] = q[(n + 1) + i - 1]
  BY <1>1, SubSeqProperties
<1>5. QED
  BY <1>1, <1>2, <1>3, <1>4

\* The spans that are cut off are spans.
LEMMA PrefixOf ==
  ASSUME NEW q \in Seq(Spans), NEW n \in Nat, n <= Len(q)
  PROVE  Range(SubSeq(q, 1, n)) \subseteq Spans
<1>1. Len(q) \in Nat /\ \A i \in 1 .. n : q[i] \in Spans
  BY SpanSeq
<1>2. SubSeq(q, 1, n) \in Seq(Spans)
  BY <1>1, SubSeqProperties
<1>3. QED
  BY <1>2, SpanSeq

\* A span appended to a sequence of spans.
LEMMA AppendTo ==
  ASSUME NEW q \in Seq(Spans), NEW s \in Spans
  PROVE  /\ Append(q, s) \in Seq(Spans)
         /\ Len(Append(q, s)) = Len(q) + 1
         /\ \A i \in 1 .. Len(q) : Append(q, s)[i] = q[i]
         /\ Append(q, s)[Len(q) + 1] = s
BY AppendProperties

LEMMA InitInv == Init => IInv
<1> SUFFICES ASSUME Init PROVE IInv
  OBVIOUS
<1>1. Len(<< >>) = 0 /\ << >> \in Seq(Spans) /\ DOMAIN << >> = {}
  OBVIOUS
<1>2. TypeOK
  BY <1>1 DEF Init, TypeOK, Threads
<1>3. BacklogInv /\ MutexInv /\ FlightInv /\ CloseInv /\ SegmentInv /\ SentInv
  BY SizeAssumption, <1>1
  DEF Init, BacklogInv, MutexInv, FlightInv, CloseInv, SegmentInv, SentInv,
      InFlight, Threads
<1>4. OrderInv
  BY <1>1 DEF Init, OrderInv, IsInjective
<1>5. QED
  BY <1>2, <1>3, <1>4 DEF IInv

LEMMA SegmentFrame ==
  ASSUME SegmentInv, UNCHANGED <<batch, phase, sendBatch, accepted, sent>>
  PROVE  SegmentInv'
<1>1. Removed' = Removed
  BY DEF Removed
<1>2. \A w, b : Segment(w, b) => Segment(w, b)'
  BY DEF Segment
<1>3. QED
  BY <1>1, <1>2 DEF SegmentInv, InFlight

\* A step that leaves the batch, the senders and the history alone leaves
\* their invariants alone.
LEMMA Frame ==
  ASSUME IInv, UNCHANGED <<batch, loopPc, senderVars, history>>,
         \A s \in Spans : caller[s] = "returned" => caller'[s] = "returned"
  PROVE  (BacklogInv /\ MutexInv /\ FlightInv /\ OrderInv /\ SegmentInv /\ SentInv)'
<1> USE DEF IInv, senderVars, history
<1>1. (BacklogInv /\ MutexInv /\ FlightInv)'
  BY DEF BacklogInv, MutexInv, FlightInv, InFlight
<1>2. OrderInv'
  <2>1. ASSUME NEW i \in 1 .. Len(accepted) PROVE caller'[accepted[i]] = "returned"
    BY SpanSeq DEF TypeOK, OrderInv
  <2>2. QED
    BY <2>1 DEF OrderInv, Removed
<1>3. SegmentInv'
  BY SegmentFrame
<1>4. SentInv'
  BY DEF SentInv, Removed
<1>5. QED
  BY <1>1, <1>2, <1>3, <1>4

\* Collect and Close move only their callers.
LEMMA CallerStep ==
  ASSUME IInv, (\E s \in Spans : Collect(s)) \/ Close \/ CloseReturns
  PROVE  IInv'
<1>1. ASSUME NEW s \in Spans, Collect(s) PROVE IInv'
  <2>1. TypeOK'
    BY <1>1 DEF Collect, TypeOK, IInv, loopVars, senderVars, closeVars, history
  <2>2. (BacklogInv /\ MutexInv /\ FlightInv /\ OrderInv /\ SegmentInv /\ SentInv)'
    <3>1. UNCHANGED <<batch, loopPc, senderVars, history>>
      BY <1>1 DEF Collect, loopVars
    <3>2. \A t \in Spans : caller[t] = "returned" => caller'[t] = "returned"
      BY <1>1 DEF Collect, IInv, TypeOK
    <3>3. QED
      BY <3>1, <3>2, Frame
  <2>3. CloseInv'
    BY <1>1 DEF Collect, CloseInv, InFlight, IInv, loopVars, senderVars, closeVars
  <2>4. QED
    BY <2>1, <2>2, <2>3 DEF IInv
<1>2. CASE Close \/ CloseReturns
  <2>1. TypeOK'
    BY <1>2 DEF Close, CloseReturns, TypeOK, IInv, loopVars, senderVars, history
  <2>2. (BacklogInv /\ MutexInv /\ FlightInv /\ OrderInv /\ SegmentInv /\ SentInv)'
    <3>1. UNCHANGED <<batch, loopPc, senderVars, history, caller>>
      BY <1>2 DEF Close, CloseReturns, loopVars
    <3>2. QED
      BY <3>1, Frame
  <2>3. CloseInv'
    <3>1. CASE Close
      BY <3>1 DEF Close, CloseInv, InFlight, IInv, TypeOK, loopVars, senderVars
    <3>2. CASE CloseReturns
      BY <3>2 DEF CloseReturns, CloseInv, InFlight, IInv, TypeOK, loopVars, senderVars
    <3>3. QED
      BY <1>2, <3>1, <3>2
  <2>4. QED
    BY <2>1, <2>2, <2>3 DEF IInv
<1>3. QED
  BY <1>1, <1>2

\* Time and the ticker move only due and queued; quit, only the loop.
LEMMA ClockStep ==
  ASSUME IInv, TimePasses \/ Tick \/ Quit
  PROVE  IInv'
<1>1. CASE TimePasses \/ Tick
  <2>1. TypeOK'
    <3>1. due' \in BOOLEAN
      BY <1>1, Zenon DEF TimePasses, Tick, StartSend
    <3>2. queued' \in Nat
      BY <1>1 DEF TimePasses, Tick, StartSend, TypeOK, IInv
    <3>3. UNCHANGED <<caller, batch, loopPc, senderVars, closeVars, history>>
      BY <1>1 DEF TimePasses, Tick
    <3>4. QED
      BY <3>1, <3>2, <3>3 DEF TypeOK, IInv, senderVars, closeVars, history
  <2>2. (BacklogInv /\ MutexInv /\ FlightInv /\ OrderInv /\ SegmentInv /\ SentInv)'
    BY <1>1, Frame DEF TimePasses, Tick
  <2>3. CloseInv'
    BY <1>1 DEF TimePasses, Tick, CloseInv, InFlight, IInv, senderVars, closeVars
  <2>4. QED
    BY <2>1, <2>2, <2>3 DEF IInv
<1>2. CASE Quit
  <2> USE DEF IInv, Quit, senderVars, closeVars, history
  <2>1. TypeOK'
    BY <1>2 DEF TypeOK
  <2>2. (BacklogInv /\ MutexInv /\ FlightInv)'
    BY <1>2 DEF BacklogInv, MutexInv, FlightInv, InFlight
  <2>3. CloseInv'
    BY <1>2 DEF CloseInv, InFlight
  <2>4. OrderInv'
    BY <1>2 DEF OrderInv, Removed
  <2>5. SegmentInv'
    BY <1>2, SegmentFrame
  <2>6. SentInv'
    BY <1>2 DEF SentInv, Removed
  <2>7. QED
    BY <2>1, <2>2, <2>3, <2>4, <2>5, <2>6
<1>3. QED
  BY <1>1, <1>2

LEMMA AfterAppendType ==
  ASSUME TypeOK, NEW n, AfterAppend(n)
  PROVE  due' \in BOOLEAN /\ queued' \in Nat
<1>1. due' \in BOOLEAN
  BY Zenon DEF AfterAppend, StartSend, TypeOK
<1>2. queued' \in Nat
  BY DEF AfterAppend, StartSend, TypeOK
<1>3. QED
  BY <1>1, <1>2

\* Receive lengthens the batch and the history by the same span, a new one.
LEMMA ReceiveStep ==
  ASSUME IInv, NEW s \in Spans, Receive(s)
  PROVE  IInv'
<1> USE DEF IInv, Receive, senderVars, closeVars
<1>1. /\ batch' \in Seq(Spans) /\ Len(batch') = Len(batch) + 1
      /\ \A i \in 1 .. Len(batch) : batch'[i] = batch[i]
      /\ batch'[Len(batch) + 1] = s
  BY AppendTo DEF TypeOK
<1>2. /\ accepted' \in Seq(Spans) /\ Len(accepted') = Len(accepted) + 1
      /\ \A i \in 1 .. Len(accepted) : accepted'[i] = accepted[i]
      /\ accepted'[Len(accepted) + 1] = s
  BY AppendTo DEF TypeOK
<1>3. Len(batch) \in Nat /\ Len(accepted) \in Nat
  BY SpanSeq DEF TypeOK
<1>4. Removed' = Removed /\ Removed \in Nat
  BY <1>1, <1>2, <1>3 DEF Removed, OrderInv
<1>5. loopPc = "select" /\ loopPc' \in {"select", "logging"}
  OBVIOUS
<1>6. TypeOK'
  <2>1. due' \in BOOLEAN /\ queued' \in Nat
    <3>1. CASE AfterAppend(Len(batch'))
      BY <3>1, AfterAppendType
    <3>2. CASE UNCHANGED <<due, queued>>
      BY <3>2 DEF TypeOK
    <3>3. QED
      BY <3>1, <3>2
  <2>2. caller' \in [Spans -> {"new", "blocked", "returned"}]
    BY DEF TypeOK
  <2>3. QED
    BY <1>1, <1>2, <1>5, <2>1, <2>2 DEF TypeOK
<1>7. BacklogInv'
  <2>1. Len(batch) <= MaxBacklog
    BY <1>5 DEF BacklogInv
  <2>2. loopPc' = "logging" <=> Len(batch') > MaxBacklog
    BY <1>5 DEF Overflows
  <2>3. QED
    BY <1>1, <1>3, <2>1, <2>2, SizeAssumption DEF BacklogInv
<1>8. MutexInv'
  BY DEF MutexInv, InFlight
<1>9. FlightInv'
  <2>1. ASSUME NEW w \in Threads PROVE Len(sendBatch[w]) \in Nat
    BY SpanSeq DEF TypeOK
  <2>2. QED
    BY <1>1, <1>3, <2>1 DEF FlightInv, InFlight
<1>10. CloseInv'
  BY <1>5 DEF CloseInv, InFlight
<1>11. OrderInv'
  <2>1. ASSUME NEW i \in 1 .. Len(accepted) PROVE accepted[i] # s /\ accepted[i] \in Spans
    BY SpanSeq DEF OrderInv, TypeOK
  <2>2. DOMAIN accepted = 1 .. Len(accepted) /\ DOMAIN accepted' = 1 .. Len(accepted')
    BY <1>2, SpanSeq DEF TypeOK
  <2>3. IsInjective(accepted')
    BY <1>2, <1>3, <2>1, <2>2 DEF OrderInv, IsInjective
  <2>4. \A i \in 1 .. Len(accepted') : caller'[accepted'[i]] = "returned"
    BY <1>2, <1>3, <2>1 DEF OrderInv, TypeOK
  <2>5. \A i \in 1 .. Len(batch') : batch'[i] = accepted'[Removed' + i]
    <3> HIDE DEF Receive
    <3> TAKE i \in 1 .. Len(batch')
    <3>1. CASE i = Len(batch) + 1
      <4>1. Removed' + i = Len(accepted) + 1
        BY <1>3, <1>4, <3>1 DEF Removed
      <4>2. QED
        BY <1>1, <1>2, <3>1, <4>1
    <3>2. CASE i \in 1 .. Len(batch)
      <4>1. batch[i] = accepted[Removed + i] /\ Removed + i \in 1 .. Len(accepted)
        BY <1>3, <3>2 DEF OrderInv, Removed
      <4>2. QED
        BY <1>1, <1>2, <1>4, <3>2, <4>1
    <3>3. QED
      BY <1>1, <1>3, <3>1, <3>2
  <2>6. Len(batch') <= Len(accepted')
    BY <1>1, <1>2, <1>3 DEF OrderInv
  <2>7. QED
    BY <2>3, <2>4, <2>5, <2>6 DEF OrderInv
<1>12. SegmentInv'
  <2> SUFFICES ASSUME NEW w \in Threads, InFlight(w)'
               PROVE  \E b \in 0 .. Removed' : Segment(w, b)'
    BY DEF SegmentInv
  <2>1. PICK b \in 0 .. Removed : Segment(w, b)
    BY DEF SegmentInv, InFlight
  <2>2. UNCHANGED <<phase, sendBatch, sent>> /\ Len(sendBatch[w]) \in Nat
    BY SpanSeq DEF TypeOK
  <2>3. \A i \in 1 .. Len(sendBatch[w]) : sendBatch[w][i] = accepted'[b + i]
    BY <1>2, <1>3, <1>4, <2>1, <2>2 DEF Segment
  <2>4. b + Len(sendBatch[w]) <= Len(accepted')
    BY <1>2, <1>3, <1>4, <2>1, <2>2 DEF Segment
  <2>5. \A i \in 1 .. b : accepted'[i] = accepted[i]
    BY <1>2, <1>3, <1>4, <2>1 DEF Removed
  <2>6. Segment(w, b)'
    <3> HIDE DEF Receive
    <3> QED
      BY <2>1, <2>2, <2>3, <2>4, <2>5 DEF Segment
  <2>7. QED
    BY <1>4, <2>6
<1>13. SentInv'
  <2>1. \A i \in 1 .. Removed : accepted'[i] = accepted[i]
    BY <1>2, <1>3, <1>4 DEF Removed
  <2>2. QED
    BY <1>4, <2>1 DEF SentInv
<1>14. QED
  BY <1>6, <1>7, <1>8, <1>9, <1>10, <1>11, <1>12, <1>13

\* Cutting n spans off the front of the batch keeps the order, and the
\* pieces of history in flight.
LEMMA CutKeepsOrder ==
  ASSUME IInv, NEW n \in Nat, n <= Len(batch), batch' = DropFirst(n),
         UNCHANGED <<accepted, caller>>
  PROVE  /\ batch' \in Seq(Spans) /\ Len(batch') = Len(batch) - n
         /\ Removed' = Removed + n
         /\ OrderInv'
<1> USE DEF IInv
<1>1. Len(batch) \in Nat /\ Len(accepted) \in Nat
  BY SpanSeq DEF TypeOK
<1>2. /\ batch' \in Seq(Spans) /\ Len(batch') = Len(batch) - n
      /\ \A i \in 1 .. Len(batch) - n : batch'[i] = batch[n + i]
  BY DropFirstOf DEF TypeOK, DropFirst
<1>3. Removed' = Removed + n
  BY <1>1, <1>2 DEF Removed
<1>4. \A i \in 1 .. Len(batch') : batch'[i] = accepted'[Removed' + i]
  <2> TAKE i \in 1 .. Len(batch')
  <2>1. n + i \in 1 .. Len(batch)
    BY <1>1, <1>2
  <2>2. batch'[i] = batch[n + i] /\ batch[n + i] = accepted[Removed + (n + i)]
    BY <1>1, <1>2, <2>1 DEF OrderInv
  <2>3. Removed + (n + i) = Removed' + i
    BY <1>1, <1>2, <1>3 DEF Removed
  <2>4. QED
    BY <2>2, <2>3
<1>5. OrderInv'
  <2>1. Len(batch') <= Len(accepted')
    BY <1>1, <1>2 DEF OrderInv
  <2>2. IsInjective(accepted') /\ \A i \in 1 .. Len(accepted') : caller'[accepted'[i]] = "returned"
    BY DEF OrderInv
  <2>3. QED
    BY <1>4, <2>1, <2>2 DEF OrderInv
<1>6. QED
  BY <1>2, <1>3, <1>5

\* A disposal moves the front of the batch one span further.
LEMMA DisposeStep ==
  ASSUME IInv, Dispose
  PROVE  IInv'
<1> USE DEF IInv, Dispose, senderVars, closeVars
<1>1. Len(batch) \in Nat /\ Len(accepted) \in Nat
  BY SpanSeq DEF TypeOK
<1>2. Len(batch) = MaxBacklog + 1 /\ Excess = 1
  BY SizeAssumption DEF BacklogInv, Excess
<1>3. /\ batch' \in Seq(Spans) /\ Len(batch') = MaxBacklog
      /\ Removed' = Removed + 1 /\ OrderInv'
  BY <1>1, <1>2, CutKeepsOrder, SizeAssumption
<1>4. TypeOK'
  <2>1. disposed' \in SUBSET Spans
    <3>1. batch \in Seq(Spans) /\ disposed \in SUBSET Spans
      BY DEF TypeOK
    <3>2. Range(SubSeq(batch, 1, Excess)) \subseteq Spans
      BY <1>1, <1>2, <3>1, SizeAssumption, PrefixOf
    <3>3. QED
      BY <3>1, <3>2
  <2>2. due' \in BOOLEAN /\ queued' \in Nat
    BY AfterAppendType
  <2>3. QED
    BY <1>3, <2>1, <2>2 DEF TypeOK
<1>5. BacklogInv'
  BY <1>3, SizeAssumption DEF BacklogInv
<1>6. MutexInv'
  BY DEF MutexInv, InFlight
<1>7. FlightInv'
  BY <1>3 DEF FlightInv, InFlight
<1>8. CloseInv'
  BY DEF CloseInv, InFlight
<1>9. 0 .. Removed \subseteq 0 .. Removed' /\ 1 .. Removed \subseteq 1 .. Removed'
  BY <1>1, <1>3 DEF Removed, OrderInv
<1>10. SegmentInv'
  <2>1. UNCHANGED <<phase, sendBatch, accepted, sent>>
    OBVIOUS
  <2>2. \A w, b : Segment(w, b) => Segment(w, b)'
    BY <2>1 DEF Segment
  <2>3. QED
    BY <1>9, <2>1, <2>2 DEF SegmentInv, InFlight
<1>11. SentInv'
  BY <1>9 DEF SentInv
<1>12. QED
  BY <1>3, <1>4, <1>5, <1>6, <1>7, <1>8, <1>10, <1>11

\* Only the holder of sendMutex is in flight.
LEMMA Alone ==
  ASSUME IInv
  PROVE  /\ \A v, w \in Threads : InFlight(v) /\ InFlight(w) => v = w
         /\ sendMutex = Free => \A w \in Threads : ~InFlight(w)
BY ThreadAssumption DEF IInv, MutexInv

\* Whoever unlocks leaves nobody in flight.
LEMMA UnlockLeavesNobody ==
  ASSUME IInv, NEW w \in Threads, InFlight(w), Unlock(w)
  PROVE  /\ \A v \in Threads : ~InFlight(v)'
         /\ sendMutex' \in Threads \cup {Free}
         /\ phase' \in [Threads -> {"idle", "post", "trim"}]
         /\ sendBatch' \in [Threads -> Seq(Spans)]
<1>1. \A v \in Threads \ {w} : phase[v] = "idle"
  BY Alone DEF InFlight, IInv, TypeOK
<1>2. phase' = [phase EXCEPT ![w] = "idle"] /\ sendBatch' = [sendBatch EXCEPT ![w] = << >>]
  BY DEF Unlock
<1>3. \A v \in Threads : phase'[v] = "idle"
  BY <1>1, <1>2 DEF IInv, TypeOK
<1>4. sendMutex' = Free
  BY DEF Unlock
<1>5. << >> \in Seq(Spans)
  OBVIOUS
<1>6. QED
  BY <1>2, <1>3, <1>4, <1>5 DEF InFlight, IInv, TypeOK

\* Returning from send keeps the types, and ends the loop if it is the loop's.
LEMMA ReturnType ==
  ASSUME TypeOK, NEW w \in Threads, NEW r \in {"nil", "err"}, Return(w, r)
  PROVE  shutdown' \in {"empty", "nil", "err"} /\ loopPc' \in {"select", "logging", "final", "done"}
BY DEF Return, TypeOK

LEMMA DequeueType ==
  ASSUME TypeOK, NEW w, AtLock(w), Dequeue(w)
  PROVE  queued' \in Nat
BY DEF AtLock, Dequeue, TypeOK

\* A send that finds the batch empty changes only the queue and, if it is the
\* loop's, reports nil.
LEMMA SendNothingStep ==
  ASSUME IInv, NEW w \in Threads, SendNothing(w)
  PROVE  IInv'
<1> USE DEF IInv, SendNothing, Lock, senderVars, history
<1>1. TypeOK'
  BY ReturnType, DequeueType DEF TypeOK
<1>2. \A v \in Threads : ~InFlight(v)
  BY Alone
<1>3. loopPc # "logging" /\ loopPc' # "logging"
  BY DEF BatchMutexFree, Return
<1>4. (BacklogInv /\ MutexInv /\ FlightInv /\ SegmentInv)'
  BY <1>2, <1>3 DEF BacklogInv, MutexInv, FlightInv, SegmentInv, InFlight
<1>5. CloseInv'
  <2>1. CASE w = Loop
    <3>1. loopPc' = "done" /\ shutdown' = "nil"
      BY <2>1 DEF Return
    <3>2. QED
      BY <1>2, <2>1, <3>1 DEF CloseInv, InFlight, Threads
  <2>2. CASE w # Loop
    BY <1>2, <2>2 DEF CloseInv, InFlight, Return, Threads
  <2>3. QED
    BY <2>1, <2>2
<1>6. OrderInv'
  BY DEF OrderInv, Removed
<1>7. SentInv'
  BY DEF SentInv, Removed
<1>8. QED
  BY <1>1, <1>4, <1>5, <1>6, <1>7

\* A POST starts: its spans are the whole batch, and nobody else's.
LEMMA PostStep ==
  ASSUME IInv, NEW w \in Threads, Post(w)
  PROVE  IInv'
<1> USE DEF IInv, Post, Lock, closeVars, history
<1>1. \A v \in Threads : ~InFlight(v)
  BY Alone
<1>2. sendBatch'[w] = batch /\ phase'[w] = "post" /\ sendMutex' = w
  BY DEF TypeOK
<1>3. \A v \in Threads : InFlight(v)' => v = w
  BY <1>1 DEF InFlight, TypeOK
<1>4. TypeOK'
  <2>1. queued' \in Nat
    BY DequeueType
  <2>2. QED
    BY <2>1 DEF TypeOK
<1>5. BacklogInv' /\ MutexInv'
  BY <1>2, <1>3 DEF BacklogInv, MutexInv
<1>6. FlightInv'
  <2>1. Len(batch) <= MaxBacklog /\ Len(batch) \in Nat
    BY SpanSeq DEF BacklogInv, BatchMutexFree, TypeOK
  <2>2. QED
    BY <1>2, <1>3, <2>1 DEF FlightInv
<1>7. CloseInv'
  <2>1. InFlight(Loop)' => loopPc' = "final" /\ batch' = sendBatch'[Loop]
    BY <1>2, <1>3 DEF AtLock, Threads
  <2>2. "nil" \notin {shutdown, closePc}
    BY DEF CloseInv
  <2>3. QED
    BY <2>1, <2>2 DEF CloseInv
<1>8. OrderInv'
  BY DEF OrderInv, Removed
<1>9. SegmentInv'
  <2>1. /\ Len(batch) \in Nat /\ Len(accepted) \in Nat /\ Removed \in 0 .. Removed
        /\ Removed + Len(batch) <= Len(accepted)
    BY SpanSeq DEF TypeOK, OrderInv, Removed
  <2>2. \A i \in 1 .. Len(batch) : batch[i] = accepted[Removed + i]
    BY DEF OrderInv
  <2>3. Removed' = Removed
    BY DEF Removed
  <2>4. \A s \in sent : \E i \in 1 .. Removed : s = accepted[i]
    BY <1>1 DEF SentInv, InFlight
  <2>5. Segment(w, Removed)'
    <3>1. UNCHANGED <<accepted, sent>>
      OBVIOUS
    <3> HIDE DEF Post
    <3>2. QED
      BY <1>2, <2>1, <2>2, <2>3, <2>4, <3>1 DEF Segment
  <2>6. Removed' \in 0 .. Removed'
    BY <2>1, <2>3
  <2>7. QED
    BY <1>3, <2>5, <2>6 DEF SegmentInv
<1>10. SentInv'
  BY <1>1 DEF SentInv, Removed, InFlight
<1>11. QED
  BY <1>4, <1>5, <1>6, <1>7, <1>8, <1>9, <1>10

\* A POST fails: the batch keeps its spans.
LEMMA PostFailsStep ==
  ASSUME IInv, NEW w \in Threads, PostFails(w)
  PROVE  IInv'
<1> USE DEF IInv, PostFails, history
<1>1. InFlight(w)
  BY DEF InFlight
<1>2. \A v \in Threads : ~InFlight(v)'
  BY <1>1, UnlockLeavesNobody
<1>3. TypeOK'
  BY <1>1, UnlockLeavesNobody, ReturnType DEF TypeOK
<1>4. loopPc' = "logging" <=> loopPc = "logging"
  BY <1>1 DEF Return, CloseInv
<1>5. (BacklogInv /\ MutexInv /\ FlightInv /\ SegmentInv)'
  BY <1>2, <1>4 DEF BacklogInv, MutexInv, FlightInv, SegmentInv
<1>6. CloseInv'
  <2>1. "nil" \notin {shutdown', closePc'}
    BY <1>1 DEF CloseInv, Return
  <2>2. shutdown' # "empty" \/ closePc' \in {"nil", "err"} => loopPc' = "done"
    BY DEF CloseInv, Return
  <2>3. QED
    BY <1>2, <2>1, <2>2 DEF CloseInv, Threads
<1>7. OrderInv'
  BY DEF OrderInv, Removed
<1>8. SentInv'
  <2>1. \A v \in Threads : phase[v] # "trim"
    BY <1>1, Alone DEF InFlight
  <2>2. QED
    BY <2>1 DEF SentInv, Removed
<1>9. QED
  BY <1>3, <1>5, <1>6, <1>7, <1>8

\* A POST succeeds: its spans count as sent while they wait for the cut.
LEMMA PostSucceedsStep ==
  ASSUME IInv, NEW w \in Threads, PostSucceeds(w)
  PROVE  IInv'
<1> USE DEF IInv, PostSucceeds, loopVars, closeVars
<1>1. \A v \in Threads : InFlight(v)' <=> InFlight(v)
  BY DEF InFlight, TypeOK
<1>2. TypeOK'
  BY SpanSeq DEF TypeOK
<1>3. (BacklogInv /\ MutexInv /\ FlightInv)'
  BY <1>1 DEF BacklogInv, MutexInv, FlightInv
<1>4. CloseInv'
  BY <1>1 DEF CloseInv, Threads
<1>5. OrderInv'
  BY DEF OrderInv, Removed
<1>6. SegmentInv'
  <2>1. \A v \in Threads : phase'[v] # "post"
    BY <1>1, Alone DEF InFlight, TypeOK
  <2>2. Removed' = Removed /\ \A v \in Threads : \A b : Segment(v, b) => Segment(v, b)'
    BY <2>1 DEF Segment, Removed
  <2>3. QED
    BY <1>1, <2>2 DEF SegmentInv
<1>7. SentInv'
  <2>1. phase'[w] = "trim"
    BY DEF TypeOK
  <2>2. \A v \in Threads : phase[v] = "trim" => phase'[v] = "trim"
    BY DEF TypeOK
  <2>3. QED
    BY <2>1, <2>2 DEF SentInv, Removed
<1>8. QED
  BY <1>2, <1>3, <1>4, <1>5, <1>6, <1>7

\* The cut after a POST: what is sent lies behind the front of the batch.
LEMMA TrimStep ==
  ASSUME IInv, NEW w \in Threads, Trim(w)
  PROVE  IInv'
<1> USE DEF IInv, Trim
<1> DEFINE n == Len(sendBatch[w])
<1>1. InFlight(w)
  BY DEF InFlight
<1>2. Len(batch) \in Nat /\ Len(accepted) \in Nat /\ n \in Nat /\ n <= Len(batch)
  BY <1>1, SpanSeq DEF TypeOK, FlightInv
<1>3. /\ batch' \in Seq(Spans) /\ Len(batch') = Len(batch) - n
      /\ Removed' = Removed + n /\ OrderInv'
  BY <1>2, CutKeepsOrder DEF history
<1>4. \A v \in Threads : ~InFlight(v)'
  BY <1>1, UnlockLeavesNobody
<1>5. TypeOK'
  BY <1>1, <1>3, UnlockLeavesNobody, ReturnType DEF TypeOK, history
<1>6. BacklogInv'
  <2>1. loopPc' # "logging" /\ Len(batch) <= MaxBacklog
    BY DEF BatchMutexFree, Return, BacklogInv
  <2>2. QED
    BY <1>2, <1>3, <2>1, SizeAssumption DEF BacklogInv
<1>7. (MutexInv /\ FlightInv /\ SegmentInv)'
  BY <1>4 DEF MutexInv, FlightInv, SegmentInv
<1>8. CloseInv'
  <2>1. "nil" \in {shutdown', closePc'} => batch' = << >>
    <3>1. CASE w = Loop
      <4>1. Len(batch') = 0
        BY <1>1, <1>2, <1>3, <3>1 DEF CloseInv
      <4>2. QED
        BY <1>3, <4>1, EmptySeq
    <3>2. CASE w # Loop
      BY <1>1, <3>2 DEF CloseInv, Return
    <3>3. QED
      BY <3>1, <3>2
  <2>2. shutdown' # "empty" \/ closePc' \in {"nil", "err"} => loopPc' = "done"
    BY DEF CloseInv, Return
  <2>3. QED
    BY <1>4, <2>1, <2>2 DEF CloseInv, Threads
<1>9. SentInv'
  <2> SUFFICES ASSUME NEW s \in sent PROVE \E i \in 1 .. Removed' : s = accepted[i]
    BY DEF SentInv, history
  <2>1. CASE \E i \in 1 .. Removed : s = accepted[i]
    BY <1>2, <1>3, <2>1 DEF Removed
  <2>2. CASE \E v \in Threads : phase[v] = "trim" /\ s \in Range(sendBatch[v])
    <3>1. s \in Range(sendBatch[w])
      BY <1>1, <2>2, Alone DEF InFlight
    <3>2. PICK i \in 1 .. n : s = sendBatch[w][i]
      BY <3>1, SpanSeq DEF Range, TypeOK
    <3>3. PICK b \in 0 .. Removed : sendBatch[w][i] = accepted[b + i]
      BY <1>1, <3>2 DEF SegmentInv, Segment
    <3>4. b + i \in 1 .. Removed'
      BY <1>2, <1>3, <3>2, <3>3 DEF Removed
    <3>5. QED
      BY <3>2, <3>3, <3>4
  <2>3. QED
    BY <2>1, <2>2 DEF SentInv
<1>10. QED
  BY <1>3, <1>5, <1>6, <1>7, <1>8, <1>9

LEMMA NextInv == IInv /\ [Next]_vars => IInv'
<1> SUFFICES ASSUME IInv, [Next]_vars PROVE IInv'
  OBVIOUS
<1>1. CASE UNCHANGED vars
  <2> USE DEF vars, loopVars, senderVars, closeVars, history, IInv
  <2>1. TypeOK' /\ CloseInv'
    BY <1>1 DEF TypeOK, CloseInv, InFlight
  <2>2. (BacklogInv /\ MutexInv /\ FlightInv /\ OrderInv /\ SegmentInv /\ SentInv)'
    BY <1>1, Frame
  <2>3. QED
    BY <2>1, <2>2
<1>2. CASE (\E s \in Spans : Collect(s)) \/ Close \/ CloseReturns
  BY <1>2, CallerStep
<1>3. CASE \E s \in Spans : Receive(s)
  BY <1>3, ReceiveStep
<1>4. CASE LoopStep
  BY <1>4, ClockStep, DisposeStep DEF LoopStep
<1>5. CASE \E w \in Threads : Send(w)
  BY <1>5, SendNothingStep, PostStep, PostFailsStep, PostSucceedsStep, TrimStep DEF Send
<1>6. QED
  BY <1>1, <1>2, <1>3, <1>4, <1>5 DEF Next, Terminated

\* What the invariant says of the spans in flight.
LEMMA InvImpliesNoResend == IInv => NoResend
<1> SUFFICES ASSUME IInv, NEW w \in Threads, phase[w] = "post"
             PROVE  /\ Range(sendBatch[w]) \cap sent = {}
                    /\ \A v \in Threads \ {w} : ~InFlight(v)
  BY DEF NoResend
<1> USE DEF IInv
<1>1. InFlight(w)
  BY DEF InFlight
<1>2. \A v \in Threads \ {w} : ~InFlight(v)
  BY <1>1, Alone
<1>3. PICK b \in 0 .. Removed : Segment(w, b)
  BY <1>1 DEF SegmentInv
<1>4. ASSUME NEW s \in Range(sendBatch[w]), s \in sent PROVE FALSE
  <2>1. Len(accepted) \in Nat /\ DOMAIN accepted = 1 .. Len(accepted)
        /\ Len(batch) \in Nat /\ Len(sendBatch[w]) \in Nat
    BY SpanSeq DEF TypeOK
  <2>2. PICK i \in 1 .. Len(sendBatch[w]) : s = sendBatch[w][i]
    BY SpanSeq DEF Range, TypeOK
  <2>3. PICK j \in 1 .. b : s = accepted[j]
    BY <1>3, <1>4 DEF Segment
  <2>4. s = accepted[b + i]
    BY <1>3, <2>2 DEF Segment
  <2>5. b \in Nat /\ b + i <= Len(accepted)
    BY <1>3, <2>1, <2>2 DEF Removed, Segment
  <2>6. b + i \in 1 .. Len(accepted) /\ j \in 1 .. Len(accepted) /\ j # b + i
    BY <2>1, <2>2, <2>3, <2>5
  <2>7. QED
    BY <2>1, <2>3, <2>4, <2>6 DEF OrderInv, IsInjective
<1>5. QED
  BY <1>2, <1>4

\* The batch is what is left of the history when its front is cut off.
LEMMA InvImpliesLatest == IInv => BatchIsLatest
<1> SUFFICES ASSUME IInv PROVE BatchIsLatest
  OBVIOUS
<1> USE DEF IInv
<1> DEFINE rest == SubSeq(accepted, Removed + 1, Len(accepted))
<1>1. /\ Len(batch) \in Nat /\ Len(accepted) \in Nat
      /\ Removed \in Nat /\ Removed <= Len(accepted)
  BY SpanSeq DEF TypeOK, OrderInv, Removed
<1>2. /\ rest \in Seq(Spans) /\ Len(rest) = Len(accepted) - Removed
      /\ \A i \in 1 .. Len(accepted) - Removed : rest[i] = accepted[Removed + i]
  BY <1>1, DropFirstOf DEF TypeOK
<1>3. Len(rest) = Len(batch) /\ \A i \in 1 .. Len(batch) : batch[i] = rest[i]
  BY <1>1, <1>2 DEF OrderInv, Removed
<1>4. batch = rest
  BY <1>2, <1>3, SeqEqual DEF TypeOK
<1>5. QED
  BY <1>4 DEF BatchIsLatest, Removed

\* The inductive invariant holds in every behaviour of the collector.
THEOREM Invariance == Spec => []IInv
<1>1. Init => IInv
  BY InitInv
<1>2. IInv /\ [Next]_vars => IInv'
  BY NextInv
<1>3. QED
  BY <1>1, <1>2, PTL DEF Spec

\* The variables have their types.
THEOREM TypeCorrect == Spec => []TypeOK
<1>1. IInv => TypeOK
  BY DEF IInv
<1>2. QED
  BY <1>1, Invariance, PTL

\* c.batch[len(sendBatch):] never panics.
THEOREM SliceInRange == Spec => []NoSliceOutOfRange
<1>1. IInv => NoSliceOutOfRange
  BY DEF IInv, FlightInv, NoSliceOutOfRange
<1>2. QED
  BY <1>1, Invariance, PTL

\* The backlog is bounded whenever batchMutex is free.
THEOREM BacklogIsBounded == Spec => []BacklogBounded
<1>1. IInv => BacklogBounded
  BY DEF IInv, BacklogInv, BacklogBounded, BatchMutexFree
<1>2. QED
  BY <1>1, Invariance, PTL

\* send never POSTs a span that a successful POST delivered already, nor one
\* that another send has in flight.
THEOREM SentOnce == Spec => []NoResend
<1>1. QED
  BY InvImpliesNoResend, Invariance, PTL

\* After Close returned nil the collector is empty and stays silent.
THEOREM CleanClose == Spec => []CleanCloseFlushes
<1>1. IInv => CleanCloseFlushes
  BY DEF IInv, CloseInv, CleanCloseFlushes, InFlight, TypeOK
<1>2. QED
  BY <1>1, Invariance, PTL

\* The batch is the end of the sequence of spans received.
THEOREM BatchInOrder == Spec => []BatchIsLatest
<1>1. QED
  BY InvImpliesLatest, Invariance, PTL

-----------------------------------------------------------------------------
(* HTTPCollector implements LossyQueue: its initial state is one of the    *)
(* queue, and each of its steps is a step of the queue or leaves it alone. *)

LEMMA InitMaps == Init => Queue!QueueInit
BY SizeAssumption DEF Init, Queue!QueueInit, Kept, Owed

\* The queue does not see a step that leaves these alone.
LEMMA Unseen ==
  ASSUME UNCHANGED <<batch, accepted, sent>>,
         loopPc' \in {"select", "logging"} <=> loopPc \in {"select", "logging"},
         loopPc' = "logging" <=> loopPc = "logging",
         Owed' = Owed
  PROVE  UNCHANGED Queue!queueVars
BY DEF Queue!queueVars, Kept

\* Nothing is owed while nobody is past a successful POST.
LEMMA OwedValue ==
  ASSUME IInv
  PROVE  /\ \A w \in Threads : phase[w] = "trim" => Owed = Len(sendBatch[w])
         /\ (\A w \in Threads : phase[w] # "trim") => Owed = 0
BY ThreadAssumption DEF IInv, MutexInv, TypeOK, InFlight, Owed

\* Callers, the clock and the ticker.
LEMMA QuietSteps ==
  ASSUME IInv, [Next]_vars,
         \/ UNCHANGED vars
         \/ \E s \in Spans : Collect(s)
         \/ Close \/ CloseReturns \/ TimePasses \/ Tick
  PROVE  UNCHANGED Queue!queueVars
<1>1. UNCHANGED <<batch, accepted, sent, loopPc, sendMutex, phase, sendBatch>>
  BY DEF vars, Collect, Close, CloseReturns, TimePasses, Tick,
         loopVars, senderVars, history
<1>2. Owed' = Owed
  BY <1>1 DEF Owed
<1>3. QED
  BY <1>1, <1>2, Unseen

LEMMA QuitMaps ==
  ASSUME IInv, Quit
  PROVE  Queue!Shut
<1>1. UNCHANGED <<batch, accepted, sent, sendMutex, phase, sendBatch>>
  BY DEF Quit, senderVars, history
<1>2. loopPc = "select" /\ loopPc' = "final"
  BY DEF Quit
<1>3. Owed' = Owed
  BY <1>1 DEF Owed
<1>4. QED
  BY <1>1, <1>2, <1>3 DEF Queue!Shut, Kept

\* A span is received, into the room there is or in place of the oldest.
LEMMA ReceiveMaps ==
  ASSUME IInv, NEW s \in Spans, Receive(s)
  PROVE  Queue!Put(s)
<1>1. Len(batch) \in Nat /\ Len(batch') = Len(batch) + 1 /\ batch' = Append(batch, s)
  BY SpanSeq, AppendTo DEF IInv, TypeOK, Receive
<1>2. loopPc = "select" /\ loopPc' \in {"select", "logging"}
  BY DEF Receive
<1>3. \A i \in 1 .. Len(accepted) : accepted[i] # s
  BY DEF IInv, OrderInv, Receive
<1>4. Kept' = IF Len(Kept) < MaxBacklog THEN Append(Kept, s) ELSE Tail(Append(Kept, s))
  <2>1. Kept = batch
    BY <1>2 DEF Kept
  <2>2. loopPc' = "logging" <=> ~(Len(batch) < MaxBacklog)
    BY <1>1, <1>2, SizeAssumption DEF Receive, Overflows
  <2>3. QED
    BY <1>1, <2>1, <2>2 DEF Kept
<1>5. accepted' = Append(accepted, s) /\ sent' = sent
  BY DEF Receive
<1>6. Owed' = Owed
  BY DEF Receive, senderVars, Owed
<1>7. QED
  BY <1>2, <1>3, <1>4, <1>5, <1>6 DEF Queue!Put

\* The disposal removes what has counted as pushed out since Receive.
LEMMA DisposeMaps ==
  ASSUME IInv, Dispose
  PROVE  UNCHANGED Queue!queueVars
<1>1. Len(batch) = MaxBacklog + 1 /\ Excess = 1 /\ batch \in Seq(Spans)
  BY SizeAssumption DEF IInv, BacklogInv, Excess, Dispose, TypeOK
<1>2. SubSeq(batch, 2, Len(batch)) = Tail(batch)
  <2>1. batch # << >> /\ 1 <= Len(batch)
    BY <1>1, SizeAssumption, EmptySeq
  <2>2. /\ Tail(batch) \in Seq(Spans) /\ Len(Tail(batch)) = Len(batch) - 1
        /\ \A i \in 1 .. Len(Tail(batch)) : Tail(batch)[i] = batch[i + 1]
    BY <1>1, <2>1, HeadTailProperties
  <2>3. /\ SubSeq(batch, 2, Len(batch)) \in Seq(Spans)
        /\ Len(SubSeq(batch, 2, Len(batch))) = Len(batch) - 1
        /\ \A i \in 1 .. Len(batch) - 1 : SubSeq(batch, 2, Len(batch))[i] = batch[1 + i]
    BY <1>1, <2>1, DropFirstOf
  <2>4. Len(batch) - 1 \in Nat /\ \A i \in 1 .. Len(batch) - 1 : batch[i + 1] = batch[1 + i]
    BY <1>1, SizeAssumption
  <2>5. QED
    BY <2>2, <2>3, <2>4, SeqEqual
<1>3. Kept' = Kept
  BY <1>1, <1>2 DEF Dispose, DropFirst, Kept
<1>4. Owed' = Owed
  BY DEF Dispose, senderVars, Owed
<1>5. QED
  BY <1>3, <1>4 DEF Dispose, Queue!queueVars

\* Empty-handed, starting and failed sends.
LEMMA SendMaps ==
  ASSUME IInv, NEW w \in Threads, SendNothing(w) \/ Post(w) \/ PostFails(w)
  PROVE  UNCHANGED Queue!queueVars
<1> USE DEF IInv
<1>1. UNCHANGED <<batch, accepted, sent>>
  BY DEF SendNothing, Post, PostFails, history
<1>2. \A v \in Threads : phase[v] # "trim"
  <2>1. CASE SendNothing(w) \/ Post(w)
    BY <2>1, Alone DEF SendNothing, Post, Lock, InFlight
  <2>2. CASE PostFails(w)
    BY <2>2, Alone DEF PostFails, InFlight
  <2>3. QED
    BY <2>1, <2>2
<1>3. Owed = 0
  BY <1>2, OwedValue
<1>4. Owed' = 0
  <2>1. \A v \in Threads : phase'[v] # "trim"
    <3>1. CASE SendNothing(w)
      BY <1>2, <3>1 DEF SendNothing, senderVars
    <3>2. CASE Post(w)
      BY <1>2, <3>2 DEF Post, TypeOK
    <3>3. CASE PostFails(w)
      BY <1>2, <3>3 DEF PostFails, Unlock, TypeOK
    <3>4. QED
      BY <3>1, <3>2, <3>3
  <2>2. sendMutex' \in Threads \cup {Free}
    BY DEF SendNothing, Post, PostFails, Unlock, senderVars, TypeOK
  <2>3. QED
    BY <2>1, <2>2 DEF Owed
<1>5. /\ loopPc' \in {"select", "logging"} <=> loopPc \in {"select", "logging"}
      /\ loopPc' = "logging" <=> loopPc = "logging"
  <2>1. CASE Post(w)
    BY <2>1 DEF Post
  <2>2. CASE SendNothing(w) \/ PostFails(w)
    <3>1. w = Loop => loopPc = "final"
      BY <2>2 DEF SendNothing, Lock, AtLock, PostFails, CloseInv, InFlight
    <3>2. QED
      BY <2>2, <3>1 DEF SendNothing, PostFails, Return
  <2>3. QED
    BY <2>1, <2>2
<1>6. QED
  BY <1>1, <1>3, <1>4, <1>5, Unseen

\* The queue's length, and the items before it.
LEMMA KeptLength ==
  ASSUME IInv
  PROVE  /\ Len(Kept) \in Nat /\ Len(Kept) <= Len(batch)
         /\ \A w \in Threads : InFlight(w) => Len(sendBatch[w]) <= Len(Kept)
<1> USE DEF IInv
<1>1. Len(batch) \in Nat
  BY SpanSeq DEF TypeOK
<1>2. CASE loopPc = "logging"
  <2>1. Len(batch) = MaxBacklog + 1 /\ batch # << >>
    BY <1>2, SizeAssumption, EmptySeq DEF BacklogInv, TypeOK
  <2>2. Len(Kept) = MaxBacklog
    BY <1>2, <2>1, HeadTailProperties, SizeAssumption DEF Kept, TypeOK
  <2>3. QED
    BY <2>1, <2>2, SizeAssumption DEF FlightInv
<1>3. CASE loopPc # "logging"
  BY <1>1, <1>3 DEF Kept, FlightInv
<1>4. QED
  BY <1>2, <1>3

\* A POST succeeds: its spans follow everything delivered before.
LEMMA PostSucceedsMaps ==
  ASSUME IInv, NEW w \in Threads, PostSucceeds(w)
  PROVE  \/ \E k \in 0 .. Len(accepted), n \in 1 .. Len(Kept) : Queue!Deliver(k, n)
         \/ UNCHANGED Queue!queueVars
<1> USE DEF IInv
<1> DEFINE n == Len(sendBatch[w])
<1>1. InFlight(w) /\ phase[w] = "post"
  BY DEF PostSucceeds, InFlight
<1>2. PICK b \in 0 .. Removed : Segment(w, b)
  BY <1>1 DEF SegmentInv
<1>3. /\ Len(accepted) \in Nat /\ Len(batch) \in Nat /\ Len(batch) <= Len(accepted)
      /\ n \in Nat /\ DOMAIN sendBatch[w] = 1 .. n
  BY SpanSeq DEF TypeOK, OrderInv
<1>4. Len(Kept) \in Nat /\ Len(Kept) <= Len(batch) /\ n <= Len(Kept)
  BY <1>1, KeptLength
<1>5. sent' = sent \cup {accepted[b + i] : i \in 1 .. n}
  BY <1>2, <1>3 DEF PostSucceeds, Segment, Range
<1>6. \A s \in sent : \E i \in 1 .. b : s = accepted[i]
  BY <1>1, <1>2 DEF Segment
<1>7. Owed = 0
  <2>1. \A v \in Threads : phase[v] # "trim"
    BY <1>1, Alone DEF InFlight
  <2>2. QED
    BY <2>1, OwedValue
<1>8. Owed' = n
  BY <1>1, ThreadAssumption DEF PostSucceeds, MutexInv, TypeOK, Owed
<1>9. b \in 0 .. Len(accepted) /\ b + Len(Kept) <= Len(accepted)
  BY <1>2, <1>3, <1>4 DEF Removed
<1>10. UNCHANGED <<loopPc, accepted, Kept>>
  BY DEF PostSucceeds, loopVars, Kept
<1>11. CASE n > 0
  <2>1. Queue!Deliver(b, n)
    BY <1>4, <1>5, <1>6, <1>7, <1>8, <1>9, <1>10, <1>11 DEF Queue!Deliver
  <2>2. n \in 1 .. Len(Kept)
    BY <1>3, <1>4, <1>11
  <2>3. QED
    BY <1>9, <2>1, <2>2
<1>12. CASE n = 0
  <2>1. sent' = sent
    BY <1>3, <1>5, <1>12
  <2>2. QED
    BY <1>7, <1>8, <1>10, <1>12, <2>1 DEF Queue!queueVars
<1>13. QED
  BY <1>3, <1>11, <1>12

\* The cut gives up as many spans as were delivered.
LEMMA TrimMaps ==
  ASSUME IInv, NEW w \in Threads, Trim(w)
  PROVE  Queue!GiveUp \/ UNCHANGED Queue!queueVars
<1> USE DEF IInv
<1> DEFINE n == Len(sendBatch[w])
<1>1. phase[w] = "trim" /\ InFlight(w) /\ n \in Nat /\ n <= Len(batch) /\ Len(batch) \in Nat
  BY SpanSeq DEF Trim, InFlight, TypeOK, FlightInv
<1>2. Owed = n
  BY <1>1, OwedValue
<1>3. Owed' = 0
  BY DEF Trim, Unlock, Owed
<1>4. /\ loopPc # "logging" /\ loopPc' # "logging"
      /\ loopPc' \in {"select", "logging"} <=> loopPc \in {"select", "logging"}
  BY <1>1 DEF Trim, BatchMutexFree, Return, CloseInv
<1>5. Kept = batch /\ Kept' = SubSeq(batch, n + 1, Len(batch))
  BY <1>4 DEF Kept, Trim, DropFirst
<1>6. UNCHANGED <<accepted, sent>>
  BY DEF Trim, history
<1>7. CASE n > 0
  BY <1>2, <1>3, <1>4, <1>5, <1>6, <1>7 DEF Queue!GiveUp
<1>8. CASE n = 0
  <2>1. Kept' = Kept
    <3>1. /\ Kept' \in Seq(Spans) /\ Len(Kept') = Len(batch)
          /\ \A i \in 1 .. Len(batch) : Kept'[i] = batch[i]
      BY <1>1, <1>5, <1>8, DropFirstOf DEF TypeOK
    <3>2. QED
      BY <1>5, <3>1, SeqEqual DEF TypeOK
  <2>2. QED
    BY <1>2, <1>3, <1>4, <1>6, <1>8, <2>1 DEF Queue!queueVars
<1>9. QED
  BY <1>1, <1>7, <1>8

LEMMA StepMaps == IInv /\ [Next]_vars => [Queue!QueueNext]_(Queue!queueVars)
<1> SUFFICES ASSUME IInv, [Next]_vars PROVE Queue!QueueNext \/ UNCHANGED Queue!queueVars
  OBVIOUS
<1>1. CASE \/ UNCHANGED vars
           \/ \E s \in Spans : Collect(s)
           \/ Close \/ CloseReturns \/ TimePasses \/ Tick
  BY <1>1, QuietSteps
<1>2. CASE \E s \in Spans : Receive(s)
  BY <1>2, ReceiveMaps DEF Queue!QueueNext
<1>3. CASE Dispose
  BY <1>3, DisposeMaps
<1>4. CASE Quit
  BY <1>4, QuitMaps DEF Queue!QueueNext
<1>5. CASE \E w \in Threads : SendNothing(w) \/ Post(w) \/ PostFails(w)
  BY <1>5, SendMaps
<1>6. CASE \E w \in Threads : PostSucceeds(w)
  BY <1>6, PostSucceedsMaps DEF Queue!QueueNext
<1>7. CASE \E w \in Threads : Trim(w)
  BY <1>7, TrimMaps DEF Queue!QueueNext
<1>8. QED
  BY <1>1, <1>2, <1>3, <1>4, <1>5, <1>6, <1>7 DEF Next, LoopStep, Send, Terminated

\* The collector is a lossy queue: what it keeps and what it delivers are in
\* the order of arrival, no span is delivered twice, and only an overflow or a
\* delivery makes it give up spans, the oldest.
THEOREM CollectorIsLossyQueue == Spec => ImplementsLossyQueue
<1>1. Spec => []IInv
  BY Invariance
<1>2. Spec => Queue!QueueInit
  BY InitMaps DEF Spec
<1>3. Spec => [][Queue!QueueNext]_(Queue!queueVars)
  BY <1>1, StepMaps, PTL DEF Spec
<1>4. QED
  BY <1>2, <1>3, PTL DEF ImplementsLossyQueue, Queue!QueueSpec

-----------------------------------------------------------------------------
(* How many spans HTTPCollector loses without a word: as many as it        *)
(* reported disposed of although a POST had delivered them.  The argument  *)
(* counts: every span that leaves the front of the batch pays for one      *)
(* disposal or for one span of a successful POST.                          *)

\* A piece of the history holds as many spans as it is long.
LEMMA PieceCount ==
  ASSUME IInv, NEW b \in Nat, NEW n \in Nat, b + n <= Len(accepted)
  PROVE  /\ IsFiniteSet({accepted[b + i] : i \in 1 .. n})
         /\ Cardinality({accepted[b + i] : i \in 1 .. n}) = n
<1> DEFINE piece == {accepted[b + i] : i \in 1 .. n}
           f == [i \in 1 .. n |-> accepted[b + i]]
<1>1. Len(accepted) \in Nat /\ DOMAIN accepted = 1 .. Len(accepted)
  BY SpanSeq DEF IInv, TypeOK
<1>2. f \in Surjection(1 .. n, piece)
  BY DEF Surjection
<1>3. f \in Injection(1 .. n, piece)
  <2>1. ASSUME NEW i \in 1 .. n, NEW j \in 1 .. n, accepted[b + i] = accepted[b + j]
        PROVE  i = j
    <3>1. b + i \in 1 .. Len(accepted) /\ b + j \in 1 .. Len(accepted)
      BY <1>1
    <3>2. b + i = b + j
      BY <1>1, <2>1, <3>1 DEF IInv, OrderInv, IsInjective
    <3>3. QED
      BY <3>2
  <2>2. f \in [1 .. n -> piece]
    OBVIOUS
  <2>3. QED
    BY <2>1, <2>2 DEF Injection, IsInjective
<1>4. IsFiniteSet(1 .. n) /\ Cardinality(1 .. n) = n
  BY FS_Interval
<1>5. IsFiniteSet(piece) /\ Cardinality(piece) = n
  <2> HIDE DEF f, piece
  <2>1. IsFiniteSet(piece) /\ (Cardinality(piece) = Cardinality(1 .. n) <=> f \in Injection(1 .. n, piece))
    BY <1>2, <1>4, FS_Surjection
  <2>2. QED
    BY <1>3, <1>4, <2>1
<1>6. QED
  BY <1>5

LEMMA LossInit == Init => DisposedInv /\ CountInv
<1> SUFFICES ASSUME Init PROVE DisposedInv /\ CountInv
  OBVIOUS
<1>1. Owed = 0 /\ Removed = 0
  BY DEF Init, Owed, Removed
<1>2. QED
  BY <1>1, FS_EmptySet DEF Init, DisposedInv, CountInv

\* A step that moves none of these moves no count.
LEMMA LossFrame ==
  ASSUME LossInv, UNCHANGED <<disposed, sent, accepted, Removed, Owed>>
  PROVE  (DisposedInv /\ CountInv)'
BY DEF LossInv, DisposedInv, CountInv

\* A span received lengthens the batch and the history alike.
LEMMA LossReceive ==
  ASSUME LossInv, NEW s \in Spans, Receive(s)
  PROVE  (DisposedInv /\ CountInv)'
<1> USE DEF LossInv
<1>1. /\ Len(batch) \in Nat /\ Len(accepted) \in Nat /\ Len(batch) <= Len(accepted)
      /\ Len(batch') = Len(batch) + 1
      /\ Len(accepted') = Len(accepted) + 1
      /\ \A i \in 1 .. Len(accepted) : accepted'[i] = accepted[i]
  BY SpanSeq, AppendTo DEF IInv, TypeOK, OrderInv, Receive
<1>2. Removed' = Removed /\ Removed \in Nat /\ Removed <= Len(accepted)
  BY <1>1 DEF Removed
<1>3. UNCHANGED <<disposed, sent, Owed>>
  BY DEF Receive, senderVars, Owed
<1>4. CountInv'
  BY <1>2, <1>3 DEF CountInv
<1>5. DisposedInv'
  BY <1>1, <1>2, <1>3 DEF DisposedInv
<1>6. QED
  BY <1>4, <1>5

\* A disposal takes one span, which no disposal took before.
LEMMA LossDispose ==
  ASSUME LossInv, Dispose
  PROVE  (DisposedInv /\ CountInv)'
<1> USE DEF LossInv
<1> DEFINE s == batch[1]
<1>1. /\ Len(batch) = MaxBacklog + 1 /\ Excess = 1 /\ batch \in Seq(Spans)
      /\ Len(accepted) \in Nat /\ Len(batch) <= Len(accepted)
      /\ DOMAIN accepted = 1 .. Len(accepted)
  BY SpanSeq, SizeAssumption DEF IInv, BacklogInv, Excess, Dispose, TypeOK, OrderInv
<1>2. 1 <= Len(batch) /\ Removed \in Nat /\ Removed + 1 \in 1 .. Len(accepted)
  BY <1>1, SizeAssumption DEF Removed
<1>3. Range(SubSeq(batch, 1, 1)) = {s}
  <2>1. s \in Spans
    BY <1>1, <1>2, SpanSeq
  <2>2. /\ SubSeq(batch, 1, 1) \in Seq(Spans) /\ Len(SubSeq(batch, 1, 1)) = 1
        /\ SubSeq(batch, 1, 1)[1] = s
    <3>1. \A i \in 1 .. 1 : batch[i] \in Spans
      BY <2>1
    <3>2. /\ SubSeq(batch, 1, 1) \in Seq(Spans)
          /\ Len(SubSeq(batch, 1, 1)) = IF 1 <= 1 THEN 1 - 1 + 1 ELSE 0
          /\ \A i \in 1 .. 1 - 1 + 1 : SubSeq(batch, 1, 1)[i] = batch[1 + i - 1]
      BY <3>1, SubSeqProperties
    <3>3. QED
      BY <3>2
  <2>3. DOMAIN SubSeq(batch, 1, 1) = {1}
    BY <2>2, SpanSeq
  <2>4. QED
    BY <2>2, <2>3 DEF Range
<1>4. s = accepted[Removed + 1]
  BY <1>1, <1>2 DEF IInv, OrderInv
<1>5. s \notin disposed
  <2> SUFFICES ASSUME s \in disposed PROVE FALSE
    OBVIOUS
  <2>1. PICK i \in 1 .. Removed : s = accepted[i]
    BY DEF DisposedInv
  <2>2. i \in 1 .. Len(accepted) /\ i # Removed + 1
    BY <1>2
  <2>3. QED
    BY <1>1, <1>2, <1>4, <2>1, <2>2 DEF IInv, OrderInv, IsInjective
<1>6. disposed' = disposed \cup {s}
  BY <1>1, <1>3 DEF Dispose
<1>7. Removed' = Removed + 1 /\ Len(batch') = Len(batch) - 1
  BY <1>1, <1>2, CutKeepsOrder DEF Dispose
<1>8. IsFiniteSet(disposed') /\ Cardinality(disposed') = Cardinality(disposed) + 1
  <2> HIDE DEF s
  <2>1. QED
    BY <1>5, <1>6, FS_AddElement DEF CountInv
<1>9. UNCHANGED <<accepted, sent, Owed>>
  BY DEF Dispose, senderVars, Owed
<1>10. CountInv'
  <2>1. /\ Cardinality(disposed) \in Nat /\ Cardinality(sent) \in Nat
    BY FS_CardinalityType DEF CountInv
  <2>2. Owed \in Nat
    BY SpanSeq, ThreadAssumption DEF Owed, IInv, TypeOK
  <2>3. QED
    BY <1>2, <1>7, <1>8, <1>9, <2>1, <2>2 DEF CountInv
<1>11. DisposedInv'
  <2>1. ASSUME NEW t \in disposed' PROVE \E i \in 1 .. Removed' : t = accepted'[i]
    <3>1. CASE t = s
      BY <1>2, <1>4, <1>7, <1>9, <3>1
    <3>2. CASE t \in disposed
      BY <1>2, <1>7, <1>9, <3>2 DEF DisposedInv
    <3>3. QED
      BY <1>6, <3>1, <3>2
  <2>2. QED
    BY <2>1 DEF DisposedInv
<1>12. QED
  BY <1>10, <1>11

\* Steps of the callers, the clock and the sends that deliver nothing.
LEMMA LossOther ==
  ASSUME LossInv, [Next]_vars,
         \/ UNCHANGED vars
         \/ \E s \in Spans : Collect(s)
         \/ Close \/ CloseReturns \/ TimePasses \/ Tick \/ Quit
         \/ \E w \in Threads : SendNothing(w) \/ Post(w) \/ PostFails(w)
  PROVE  (DisposedInv /\ CountInv)'
<1> USE DEF LossInv
<1>1. UNCHANGED <<batch, accepted, disposed, sent>>
  BY DEF vars, Collect, Close, CloseReturns, TimePasses, Tick, Quit, SendNothing, Post,
         PostFails, history
<1>2. Removed' = Removed
  BY <1>1 DEF Removed
<1>3. Owed' = Owed
  <2>1. CASE \/ UNCHANGED vars
             \/ \E s \in Spans : Collect(s)
             \/ Close \/ CloseReturns \/ TimePasses \/ Tick \/ Quit
    <3>1. UNCHANGED <<sendMutex, phase, sendBatch>>
      BY <2>1 DEF vars, Collect, Close, CloseReturns, TimePasses, Tick, Quit, senderVars
    <3>2. QED
      BY <3>1 DEF Owed
  <2>2. CASE \E w \in Threads : SendNothing(w) \/ Post(w) \/ PostFails(w)
    <3>1. UNCHANGED Queue!queueVars
      BY <2>2, SendMaps
    <3>2. QED
      BY <3>1 DEF Queue!queueVars
  <2>3. QED
    BY <2>1, <2>2
<1>4. QED
  BY <1>1, <1>2, <1>3, LossFrame

\* A POST that succeeds adds its spans to those sent, each for the first time,
\* and owes as many to the cut.
LEMMA LossPostSucceeds ==
  ASSUME LossInv, NEW w \in Threads, PostSucceeds(w)
  PROVE  (DisposedInv /\ CountInv)'
<1> USE DEF LossInv
<1> DEFINE n == Len(sendBatch[w])
<1>1. InFlight(w) /\ phase[w] = "post"
  BY DEF PostSucceeds, InFlight
<1>2. PICK b \in 0 .. Removed : Segment(w, b)
  BY <1>1 DEF IInv, SegmentInv
<1>3. /\ Len(accepted) \in Nat /\ Len(batch) \in Nat /\ Len(batch) <= Len(accepted)
      /\ n \in Nat /\ DOMAIN sendBatch[w] = 1 .. n
  BY SpanSeq DEF IInv, TypeOK, OrderInv
<1>4. b \in Nat /\ b + n <= Len(accepted)
  BY <1>2, <1>3 DEF Removed, Segment
<1> DEFINE piece == {accepted[b + i] : i \in 1 .. n}
<1>5. Range(sendBatch[w]) = piece
  BY <1>2, <1>3 DEF Segment, Range
<1>6. IsFiniteSet(piece) /\ Cardinality(piece) = n
  BY <1>3, <1>4, PieceCount
<1>7. sent \cap piece = {}
  BY <1>1, <1>5, InvImpliesNoResend DEF NoResend
<1>8. sent' = sent \cup piece
  BY <1>5 DEF PostSucceeds
<1>9. IsFiniteSet(sent') /\ Cardinality(sent') = Cardinality(sent) + n
  <2> HIDE DEF n, piece
  <2>1. /\ IsFiniteSet(sent \cup piece)
        /\ Cardinality(sent \cup piece)
             = Cardinality(sent) + Cardinality(piece) - Cardinality(sent \cap piece)
    BY <1>6, FS_Union DEF CountInv
  <2>2. Cardinality(sent \cap piece) = 0
    BY <1>7, FS_EmptySet
  <2>3. Cardinality(sent) \in Nat
    BY FS_CardinalityType DEF CountInv
  <2>4. QED
    BY <1>3, <1>6, <1>8, <2>1, <2>2, <2>3
<1>10. Owed = 0 /\ Owed' = n
  <2>1. \A v \in Threads : phase[v] # "trim"
    BY <1>1, Alone DEF InFlight
  <2>2. Owed = 0
    BY <2>1, OwedValue
  <2>3. Owed' = n
    BY <1>1, ThreadAssumption DEF PostSucceeds, IInv, MutexInv, TypeOK, Owed
  <2>4. QED
    BY <2>2, <2>3
<1>11. UNCHANGED <<disposed, accepted, Removed>>
  BY DEF PostSucceeds, Removed
<1>12. CountInv'
  <2>1. Cardinality(disposed) \in Nat /\ Cardinality(sent) \in Nat /\ Removed \in Nat
    BY <1>3, FS_CardinalityType DEF CountInv, Removed
  <2>2. QED
    BY <1>3, <1>9, <1>10, <1>11, <2>1 DEF CountInv
<1>13. DisposedInv'
  BY <1>11 DEF DisposedInv
<1>14. QED
  BY <1>12, <1>13

\* The cut pays what the POST owed.
LEMMA LossTrim ==
  ASSUME LossInv, NEW w \in Threads, Trim(w)
  PROVE  (DisposedInv /\ CountInv)'
<1> USE DEF LossInv
<1> DEFINE n == Len(sendBatch[w])
<1>1. /\ phase[w] = "trim" /\ n \in Nat /\ n <= Len(batch)
      /\ Len(batch) \in Nat /\ Len(accepted) \in Nat /\ Len(batch) <= Len(accepted)
  BY SpanSeq DEF Trim, InFlight, IInv, TypeOK, FlightInv, OrderInv
<1>2. Removed' = Removed + n
  BY <1>1, CutKeepsOrder DEF Trim, history
<1>3. Owed = n
  BY <1>1, OwedValue
<1>4. Owed' = 0
  BY DEF Trim, Unlock, Owed
<1>5. UNCHANGED <<disposed, sent, accepted>>
  BY DEF Trim, history
<1>6. Removed \in Nat
  BY <1>1 DEF Removed
<1>7. CountInv'
  BY <1>1, <1>2, <1>3, <1>4, <1>5, <1>6 DEF CountInv
<1>8. DisposedInv'
  BY <1>1, <1>2, <1>5, <1>6 DEF DisposedInv
<1>9. QED
  BY <1>7, <1>8

LEMMA LossStep == LossInv /\ [Next]_vars => LossInv'
<1> SUFFICES ASSUME LossInv, [Next]_vars PROVE LossInv'
  OBVIOUS
<1>1. IInv'
  BY NextInv DEF LossInv
<1>2. (DisposedInv /\ CountInv)'
  <2>1. CASE \E s \in Spans : Receive(s)
    BY <2>1, LossReceive
  <2>2. CASE Dispose
    BY <2>2, LossDispose
  <2>3. CASE \E w \in Threads : PostSucceeds(w)
    BY <2>3, LossPostSucceeds
  <2>4. CASE \E w \in Threads : Trim(w)
    BY <2>4, LossTrim
  <2>5. CASE \/ UNCHANGED vars
             \/ \E s \in Spans : Collect(s)
             \/ Close \/ CloseReturns \/ TimePasses \/ Tick \/ Quit
             \/ \E w \in Threads : SendNothing(w) \/ Post(w) \/ PostFails(w)
    BY <2>5, LossOther
  <2>6. QED
    BY <2>1, <2>2, <2>3, <2>4, <2>5 DEF Next, LoopStep, Send, Terminated
<1>3. QED
  BY <1>1, <1>2 DEF LossInv

\* The elements of a finite set outside one of its subsets.
LEMMA CountRest ==
  ASSUME NEW S, IsFiniteSet(S), NEW T, T \subseteq S
  PROVE  /\ Cardinality(S \ T) \in Nat
         /\ Cardinality(S) = Cardinality(T) + Cardinality(S \ T)
<1> DEFINE R == S \ T
<1>1. IsFiniteSet(T) /\ IsFiniteSet(R)
  BY FS_Subset
<1>2. T \cup R = S /\ T \cap R = {}
  OBVIOUS
<1>3. Cardinality(T \cup R) = Cardinality(T) + Cardinality(R) - Cardinality(T \cap R)
  <2> HIDE DEF R
  <2>1. QED
    BY <1>1, FS_Union
<1>4. Cardinality(T) \in Nat /\ Cardinality(R) \in Nat /\ Cardinality({}) = 0
  BY <1>1, FS_CardinalityType, FS_EmptySet
<1>5. Cardinality(T \cup R) = Cardinality(S) /\ Cardinality(T \cap R) = Cardinality({})
  BY <1>2, Zenon
<1>6. QED
  <2> HIDE DEF R
  <2>1. Cardinality(S) = Cardinality(T) + Cardinality(R)
    BY <1>3, <1>4, <1>5
  <2>2. QED
    BY <1>4, <2>1 DEF R

\* With nothing owed, the spans that left the batch are those disposed of, those
\* sent and those lost, so the overlap of the first two leaves room for as many
\* of the third.
LEMMA InvImpliesLoss == LossInv => LossIsMiscountedDisposal
<1> SUFFICES ASSUME LossInv, \A w \in Threads : phase[w] # "trim"
             PROVE  Cardinality(Lost) = Cardinality(disposed \cap sent)
  BY DEF LossIsMiscountedDisposal
<1> USE DEF LossInv
<1> DEFINE gone == {accepted[0 + i] : i \in 1 .. Removed}
           paid == disposed \cup sent
<1>1. /\ Len(accepted) \in Nat /\ Len(batch) \in Nat /\ Removed \in Nat
      /\ 0 + Removed <= Len(accepted)
      /\ DOMAIN accepted = 1 .. Len(accepted) /\ DOMAIN batch = 1 .. Len(batch)
  BY SpanSeq DEF IInv, TypeOK, OrderInv, Removed
<1>2. IsFiniteSet(gone) /\ Cardinality(gone) = Removed
  BY <1>1, 0 \in Nat, PieceCount, Zenon
<1>3. paid \subseteq gone
  <2>1. \A i \in 1 .. Removed : accepted[i] = accepted[0 + i]
    BY <1>1
  <2>2. disposed \subseteq gone
    BY <2>1 DEF DisposedInv
  <2>3. sent \subseteq gone
    BY <2>1 DEF IInv, SentInv
  <2>4. QED
    BY <2>2, <2>3
<1>4. Lost = gone \ paid
  <2>1. gone \cap Range(batch) = {}
    <3> SUFFICES ASSUME NEW i \in 1 .. Removed, NEW j \in 1 .. Len(batch),
                        accepted[0 + i] = batch[j]
                 PROVE  FALSE
      BY <1>1 DEF Range
    <3>1. batch[j] = accepted[Removed + j]
      BY DEF IInv, OrderInv
    <3>2. 0 + i \in 1 .. Len(accepted) /\ Removed + j \in 1 .. Len(accepted) /\ 0 + i # Removed + j
      BY <1>1 DEF Removed
    <3>3. QED
      BY <1>1, <3>1, <3>2 DEF IInv, OrderInv, IsInjective
  <2>2. Range(accepted) = gone \cup Range(batch)
    <3>1. ASSUME NEW i \in 1 .. Len(accepted) PROVE accepted[i] \in gone \cup Range(batch)
      <4>1. CASE i \in 1 .. Removed
        <5>1. i = 0 + i
          OBVIOUS
        <5>2. QED
          BY <4>1, <5>1
      <4>2. CASE i \notin 1 .. Removed
        <5>1. i - Removed \in 1 .. Len(batch) /\ Removed + (i - Removed) = i
          BY <1>1, <4>2 DEF Removed
        <5>2. batch[i - Removed] = accepted[i]
          BY <5>1 DEF IInv, OrderInv
        <5>3. QED
          BY <1>1, <5>1, <5>2 DEF Range
      <4>3. QED
        BY <4>1, <4>2
    <3>2. ASSUME NEW i \in 1 .. Removed PROVE accepted[0 + i] \in Range(accepted)
      <4>1. 0 + i \in DOMAIN accepted
        BY <1>1
      <4>2. QED
        BY <4>1 DEF Range
    <3>3. ASSUME NEW j \in 1 .. Len(batch) PROVE batch[j] \in Range(accepted)
      <4>1. batch[j] = accepted[Removed + j] /\ Removed + j \in DOMAIN accepted
        BY <1>1 DEF IInv, OrderInv, Removed
      <4>2. QED
        BY <4>1 DEF Range
    <3>4. Range(accepted) \subseteq gone \cup Range(batch)
      BY <1>1, <3>1 DEF Range
    <3>5. gone \subseteq Range(accepted) /\ Range(batch) \subseteq Range(accepted)
      BY <1>1, <3>2, <3>3 DEF Range
    <3>6. QED
      BY <3>4, <3>5
  <2> HIDE DEF gone, paid
  <2>3. Lost = (gone \cup Range(batch)) \ (Range(batch) \cup paid)
    BY <2>2 DEF Lost, paid
  <2>4. QED
    BY <2>1, <2>3
<1>5. /\ IsFiniteSet(paid)
      /\ Cardinality(paid) = Cardinality(disposed) + Cardinality(sent) - Cardinality(disposed \cap sent)
      /\ Cardinality(disposed) \in Nat /\ Cardinality(sent) \in Nat
      /\ Cardinality(disposed \cap sent) \in Nat
  BY FS_Union, FS_CardinalityType, FS_Intersection DEF CountInv
<1>6. Owed = 0
  BY OwedValue
<1>7. /\ Cardinality(gone \ paid) \in Nat
      /\ Cardinality(gone) = Cardinality(paid) + Cardinality(gone \ paid)
  <2> HIDE DEF gone, paid
  <2>1. QED
    BY <1>2, <1>3, CountRest, Zenon
<1>8. Removed = Cardinality(disposed) + Cardinality(sent)
  BY <1>1, <1>6 DEF CountInv
<1>9. Cardinality(gone \ paid) = Cardinality(disposed \cap sent)
  <2> DEFINE rest == Cardinality(gone \ paid)
             d == Cardinality(disposed)
             e == Cardinality(sent)
             both == Cardinality(disposed \cap sent)
  <2>1. rest \in Nat /\ d \in Nat /\ e \in Nat /\ both \in Nat
    BY <1>5, <1>7
  <2>2. d + e = (d + e - both) + rest
    BY <1>2, <1>5, <1>7, <1>8, Zenon
  <2> HIDE DEF rest, d, e, both
  <2>3. rest = both
    BY <2>1, <2>2
  <2>4. QED
    BY <2>3 DEF rest, both
<1>10. QED
  BY <1>4, <1>9

\* Every span that left the batch was paid for once.
THEOREM LossInvariance == Spec => []LossInv
<1>1. Init => LossInv
  BY InitInv, LossInit DEF LossInv
<1>2. LossInv /\ [Next]_vars => LossInv'
  BY LossStep
<1>3. QED
  BY <1>1, <1>2, PTL DEF Spec

\* Between cuts the collector has silently lost exactly as many spans as it
\* reported disposed of although the POST in flight delivered them.
THEOREM LossIsCounted == Spec => []LossIsMiscountedDisposal
<1>1. QED
  BY InvImpliesLoss, LossInvariance, PTL

-----------------------------------------------------------------------------
(* Close is not held up for ever.                                          *)

\* Whoever has the lock keeps a send under way until it unlocks.
LEMMA HolderStep ==
  ASSUME IInv, HolderInv, [Next]_vars
  PROVE  HolderInv'
<1>1. CASE UNCHANGED <<sendMutex, phase>>
  BY <1>1 DEF HolderInv, InFlight
<1>2. ASSUME NEW w \in Threads, Send(w) PROVE HolderInv'
  <2>1. CASE SendNothing(w)
    BY <1>1, <2>1 DEF SendNothing, senderVars
  <2>2. CASE Post(w)
    BY <2>2 DEF Post, HolderInv, InFlight, IInv, TypeOK
  <2>3. CASE PostFails(w) \/ Trim(w)
    BY <2>3 DEF PostFails, Trim, Unlock, HolderInv
  <2>4. CASE PostSucceeds(w)
    <3>1. InFlight(w) /\ sendMutex' = sendMutex /\ phase'[w] = "trim"
      BY <2>4 DEF PostSucceeds, InFlight, IInv, TypeOK
    <3>2. sendMutex = w
      BY <3>1 DEF IInv, MutexInv
    <3>3. QED
      BY <3>1, <3>2 DEF HolderInv, InFlight
  <2>5. QED
    BY <1>2, <2>1, <2>2, <2>3, <2>4 DEF Send
<1>3. CASE \E s \in Spans : Collect(s) \/ Receive(s)
  BY <1>1, <1>3 DEF Collect, Receive, senderVars
<1>4. CASE Close \/ CloseReturns \/ LoopStep \/ Terminated
  BY <1>1, <1>4 DEF Close, CloseReturns, LoopStep, Dispose, TimePasses, Tick, Quit, Terminated,
                    vars, senderVars
<1>5. CASE UNCHANGED vars
  BY <1>1, <1>5 DEF vars, senderVars
<1>6. QED
  BY <1>2, <1>3, <1>4, <1>5 DEF Next

\* Both invariants together.
LEMMA HolderInvariance == Spec => [](IInv /\ HolderInv)
<1>1. Init => IInv /\ HolderInv
  BY InitInv DEF Init, HolderInv
<1>2. IInv /\ HolderInv /\ [Next]_vars => (IInv /\ HolderInv)'
  BY NextInv, HolderStep
<1>3. QED
  BY <1>1, <1>2, PTL DEF Spec

\* A loop that has seen quit is never stuck: the safety half of CloseCompletes.
THEOREM CloseIsNeverStuck == Spec => []CloseNotStuck
<1>1. IInv /\ HolderInv => CloseNotStuck
  <2> SUFFICES ASSUME IInv, HolderInv, loopPc = "final", sendMutex = Free PROVE Lock(Loop)
    BY DEF HolderInv, CloseNotStuck
  <2>1. Loop \in Threads /\ ~InFlight(Loop)
    BY Alone DEF Threads
  <2>2. phase[Loop] = "idle"
    BY <2>1 DEF InFlight, IInv, TypeOK
  <2>3. QED
    BY <2>2 DEF Lock, AtLock, BatchMutexFree
<1>2. QED
  BY <1>1, HolderInvariance, PTL

\* What is left is a number.
LEMMA SendsLeftType ==
  ASSUME IInv
  PROVE  /\ queued \in Nat /\ HolderLeft \in 0 .. 2 /\ LoopLeft \in {0, 3}
         /\ SendsLeft \in Nat
<1>1. queued \in Nat /\ HolderLeft \in 0 .. 2 /\ LoopLeft \in {0, 3}
  BY DEF IInv, TypeOK, HolderLeft, LoopLeft
<1>2. QED
  BY <1>1 DEF SendsLeft

\* The lock takes a goroutine out of the queue, or the loop off its way.
LEMMA LockDrains ==
  ASSUME IInv, loopPc = "final", NEW w \in Threads, SendNothing(w) \/ Post(w)
  PROVE  SendsLeft' < SendsLeft
<1>1. sendMutex = Free /\ HolderLeft = 0 /\ phase[w] = "idle" /\ HolderLeft' \in 0 .. 2
  BY DEF SendNothing, Post, Lock, AtLock, HolderLeft
<1>2. CASE w = Loop
  <2>1. queued' = queued /\ LoopLeft = 3 /\ LoopLeft' = 0
    BY <1>1, <1>2 DEF SendNothing, Post, Dequeue, Return, LoopLeft, IInv, TypeOK
  <2>2. QED
    BY <1>1, <2>1, SendsLeftType DEF SendsLeft
<1>3. CASE w # Loop
  <2>1. queued > 0 /\ queued' = queued - 1 /\ LoopLeft' = LoopLeft
    BY <1>3 DEF SendNothing, Post, Lock, AtLock, Dequeue, Return, LoopLeft, IInv, TypeOK, Threads,
                senderVars
  <2>2. QED
    BY <1>1, <2>1, SendsLeftType DEF SendsLeft
<1>4. QED
  BY <1>2, <1>3

\* The holder comes nearer to its unlocking.
LEMMA HolderDrains ==
  ASSUME IInv, loopPc = "final", NEW w \in Threads, PostFails(w) \/ PostSucceeds(w) \/ Trim(w)
  PROVE  SendsLeft' < SendsLeft
<1>1. InFlight(w) /\ sendMutex = w /\ sendMutex # Free
  BY ThreadAssumption DEF PostFails, PostSucceeds, Trim, InFlight, IInv, MutexInv
<1>2. HolderLeft' \in 0 .. 2 /\ HolderLeft' < HolderLeft
  <2>1. CASE PostFails(w) \/ Trim(w)
    BY <1>1, <2>1 DEF PostFails, Trim, Unlock, HolderLeft
  <2>2. CASE PostSucceeds(w)
    BY <1>1, <2>2 DEF PostSucceeds, HolderLeft, IInv, TypeOK
  <2>3. QED
    BY <2>1, <2>2
<1>3. queued' = queued
  BY DEF PostFails, PostSucceeds, Trim, loopVars
<1>4. LoopLeft' = LoopLeft
  <2>1. CASE w = Loop
    BY <1>1, <2>1
    DEF PostFails, PostSucceeds, Trim, Unlock, Return, LoopLeft, InFlight, IInv, TypeOK, loopVars
  <2>2. CASE w # Loop
    BY <2>2
    DEF PostFails, PostSucceeds, Trim, Unlock, Return, LoopLeft, IInv, TypeOK, loopVars, Threads
  <2>3. QED
    BY <2>1, <2>2
<1>5. QED
  BY <1>2, <1>3, <1>4, SendsLeftType DEF SendsLeft

\* After quit the sends that can still happen only become fewer.
THEOREM CloseSendsAreBounded == Spec => CloseDrains
<1>1. ASSUME IInv, IInv', Next, loopPc = "final"
      PROVE  /\ SendsLeft \in Nat /\ SendsLeft' \in Nat
             /\ SendsLeft' <= SendsLeft
             /\ (\E w \in Threads : Send(w)) => SendsLeft' < SendsLeft
  <2>1. SendsLeft \in Nat
    BY <1>1, SendsLeftType
  <2>2. SendsLeft' \in Nat
    <3>1. queued' \in Nat
      BY <1>1 DEF IInv, TypeOK
    <3>2. LoopLeft' \in {0, 3}
      BY DEF LoopLeft
    <3>3. HolderLeft' \in 0 .. 2
      BY DEF HolderLeft
    <3>4. \A q \in Nat : \A l \in {0, 3} : \A h \in 0 .. 2 : 3 * q + l + h \in Nat
      OBVIOUS
    <3>5. QED
      BY <3>1, <3>2, <3>3, <3>4 DEF SendsLeft
  <2>3. ASSUME NEW w \in Threads, Send(w) PROVE SendsLeft' < SendsLeft
    BY <1>1, <2>3, LockDrains, HolderDrains DEF Send
  <2>4. CASE UNCHANGED <<queued, loopPc, senderVars>>
    <3>1. SendsLeft' = SendsLeft
      BY <2>4 DEF SendsLeft, HolderLeft, LoopLeft, senderVars
    <3>2. QED
      BY <2>1, <2>2, <2>3, <3>1
  <2>5. CASE ~\E w \in Threads : Send(w)
    <3>1. UNCHANGED <<queued, loopPc, senderVars>>
      BY <1>1, <2>5
      DEF Next, Collect, Receive, Close, CloseReturns, LoopStep, Dispose, TimePasses, Tick, Quit,
          Terminated, vars, loopVars
    <3>2. QED
      BY <2>4, <3>1
  <2>6. CASE \E w \in Threads : Send(w)
    BY <2>1, <2>2, <2>3, <2>6
  <2>7. QED
    BY <2>5, <2>6
<1>2. QED
  BY <1>1, InitInv, NextInv, PTL DEF Spec, CloseDrains
=============================================================================
