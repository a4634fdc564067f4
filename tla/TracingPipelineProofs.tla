----------------------- MODULE TracingPipelineProofs -----------------------
(***************************************************************************)
(* The pipeline is a collector, and its calls are calls of the breaker, so *)
(* what is proved of the two holds of it.  From both invariants and the    *)
(* match between a thread's phase and its call follows what the pipeline   *)
(* adds: spans cut off as sent were answered, and the span server stores   *)
(* a span twice only after an error.                                       *)
(***************************************************************************)
EXTENDS TracingPipeline, HTTPCollectorProofs

BP == INSTANCE BreakerClientProofs WITH Calls <- Threads

LEMMA BreakerInitAgain == B!BreakerInit => B!BreakerInv
BY TicketAssumption, BP!BreakerInitInv
DEF B!BreakerInit, B!BreakerInv, BP!BreakerInit, BP!BreakerInv,
    B!BreakerTypeOK, BP!BreakerTypeOK, B!NoSendOnClosed, BP!NoSendOnClosed,
    B!ReplyIsAnswer, BP!ReplyIsAnswer, B!ChannelsMatch, BP!ChannelsMatch,
    B!Responses, BP!Responses, B!Answers, BP!Answers

LEMMA BreakerInvAgain == (B!BreakerInv <=> BP!BreakerInv) /\ (B!BreakerInv' <=> BP!BreakerInv')
<1>1. B!BreakerInv <=> BP!BreakerInv
  BY DEF B!BreakerInv, BP!BreakerInv,
    B!BreakerTypeOK, BP!BreakerTypeOK, B!NoSendOnClosed, BP!NoSendOnClosed,
    B!ReplyIsAnswer, BP!ReplyIsAnswer, B!ChannelsMatch, BP!ChannelsMatch,
    B!Responses, BP!Responses, B!Answers, BP!Answers
<1>2. B!BreakerInv' <=> BP!BreakerInv'
  BY DEF B!BreakerInv, BP!BreakerInv,
    B!BreakerTypeOK, BP!BreakerTypeOK, B!NoSendOnClosed, BP!NoSendOnClosed,
    B!ReplyIsAnswer, BP!ReplyIsAnswer, B!ChannelsMatch, BP!ChannelsMatch,
    B!Responses, BP!Responses, B!Answers, BP!Answers
<1>3. QED
  BY <1>1, <1>2

LEMMA BreakerNextAgain ==
  [B!BreakerNext]_(B!breakerVars) => [BP!BreakerNext]_(BP!breakerVars)
<1>1. ASSUME NEW c \in Threads PROVE B!Hystrix(c) => BP!Hystrix(c)
  <2> B!Cardinality(B!Busy) = BP!Cardinality(BP!Busy)
    BY Zenon DEF B!Busy, BP!Busy, B!Cardinality, BP!Cardinality, B!IsFiniteSet, BP!IsFiniteSet
  <2>1. B!Reject(c) => BP!Reject(c)
    BY Zenon DEF B!Reject, BP!Reject, B!Fallback, BP!Fallback
  <2>2. B!Admit(c) => BP!Admit(c)
    BY Zenon DEF B!Admit, BP!Admit
  <2>3. B!Report(c) => BP!Report(c)
    BY DEF B!Report, BP!Report, B!Fallback, BP!Fallback
  <2>4. B!End(c) => BP!End(c)
    BY DEF B!End, BP!End
  <2>5. B!Timeout(c) => BP!Timeout(c)
    BY DEF B!Timeout, BP!Timeout, B!Fallback, BP!Fallback
  <2>6. QED
    BY <2>1, <2>2, <2>3, <2>4, <2>5 DEF B!Hystrix, BP!Hystrix
<1>2. ASSUME NEW c \in Threads PROVE B!Start(c) => BP!Start(c)
  BY DEF B!Start, BP!Start
<1>3. ASSUME NEW c \in Threads PROVE B!Receive(c) => BP!Receive(c)
  BY DEF B!Receive, BP!Receive, B!Responses, BP!Responses
<1>4. ASSUME NEW c \in Threads, NEW a PROVE B!Answer(c, a) => BP!Answer(c, a)
  BY DEF B!Answer, BP!Answer, B!Put, BP!Put, B!Responses, BP!Responses
<1>5. QED
  BY <1>1, <1>2, <1>3, <1>4
  DEF B!BreakerNext, BP!BreakerNext, B!breakerVars, BP!breakerVars, B!callVars, BP!callVars,
      B!Answers, BP!Answers, B!Responses, BP!Responses

LEMMA BreakerStepAgain == B!BreakerInv /\ [B!BreakerNext]_(B!breakerVars) => B!BreakerInv'
BY BreakerInvAgain, BreakerNextAgain, BP!BreakerNextInv, TicketAssumption

LEMMA StrandedAgain ==
  ASSUME B!BreakerInv, [B!BreakerNext]_(B!breakerVars), NEW c \in Threads, B!Stranded(c)
  PROVE  B!Stranded(c)'
<1>1. BP!Stranded(c)
  BY DEF B!Stranded, BP!Stranded
<1>2. BP!Stranded(c)'
  BY <1>1, BreakerInvAgain, BreakerNextAgain, BP!StrandedStep, TicketAssumption
<1>3. QED
  BY <1>2 DEF B!Stranded, BP!Stranded

\* What a step of the pipeline is for its collector, and for its calls.
LEMMA StepProjects ==
  ASSUME [PipelineNext]_pipelineVars
  PROVE  [Next]_vars /\ [B!BreakerNext]_(B!breakerVars)
<1> USE DEF breaker, B!breakerVars, B!callVars
<1>1. CASE UNCHANGED pipelineVars
  BY <1>1 DEF pipelineVars
<1>2. CASE CollectorSteps
  BY <1>2 DEF CollectorSteps, Next, LoopStep, Send
<1>3. CASE (\E s \in Spans : Accept(s)) \/ LogTest \/ LogBody
  BY <1>3 DEF Accept, LogTest, LogBody, Next, LoopStep
<1>4. ASSUME NEW w \in Threads, StartPost(w) \/ EndPost(w)
      PROVE  [Next]_vars /\ [B!BreakerNext]_(B!breakerVars)
  <2>1. Post(w) \/ PostFails(w) \/ PostSucceeds(w)
    BY <1>4 DEF StartPost, EndPost
  <2>2. B!Start(w) \/ B!Receive(w)
    BY <1>4 DEF StartPost, EndPost
  <2>3. QED
    BY <2>1, <2>2 DEF Next, Send, B!BreakerNext
<1>5. ASSUME NEW w \in Threads,
             Emit(w) \/ BreakerSteps(w) \/ \E a \in B!Answers : ServerAnswers(w, a)
      PROVE  [Next]_vars /\ [B!BreakerNext]_(B!breakerVars)
  <2>1. UNCHANGED vars
    BY <1>5 DEF Emit, BreakerSteps, ServerAnswers
  <2>2. B!Hystrix(w) \/ \E a \in B!Answers : B!Answer(w, a)
    BY <1>5 DEF Emit, BreakerSteps, ServerAnswers, B!Hystrix
  <2>3. QED
    BY <2>1, <2>2 DEF B!BreakerNext
<1>6. QED
  BY <1>1, <1>2, <1>3, <1>4, <1>5 DEF PipelineNext

\* The pipeline's collector is HTTPCollector: whatever the breaker, hystrix, the
\* server and the logger do, it only ever takes the collector's steps.
THEOREM PipelineIsCollector == PipelineSpec => Spec
<1>1. PipelineInit => Init
  BY DEF PipelineInit
<1>2. [PipelineNext]_pipelineVars => [Next]_vars
  BY StepProjects
<1>3. QED
  BY <1>1, <1>2, PTL DEF PipelineSpec, Spec

\* Its calls of client.Do are calls of the breaker.
THEOREM PipelineCallsBreaker == PipelineSpec => B!BreakerSpec
<1>1. PipelineInit => B!BreakerInit
  BY DEF PipelineInit
<1>2. [PipelineNext]_pipelineVars => [B!BreakerNext]_(B!breakerVars)
  BY StepProjects
<1>3. QED
  BY <1>1, <1>2, PTL DEF PipelineSpec, B!BreakerSpec

LEMMA PipelineInitInv == PipelineInit => PipelineInv
<1> SUFFICES ASSUME PipelineInit PROVE PipelineInv
  OBVIOUS
<1>1. IInv
  BY InitInv DEF PipelineInit
<1>2. B!BreakerInv
  BY BreakerInitAgain DEF PipelineInit
<1>3. \A w \in Threads : phase[w] = "idle" /\ doPc[w] = "idle"
  BY DEF PipelineInit, Init, B!BreakerInit
<1>4. QED
  BY <1>1, <1>2, <1>3
  DEF PipelineInit, Init, PipelineInv, PipelineTypeOK, KeyVals, InTheChannel,
      SentWasAnswered, DuplicatesFollowErrors

\* The parts of the invariant that the pipeline adds to those of its components.
Logging == loopPc = "logging" <=> logPc # "idle"
Matched == \A w \in Threads : phase[w] = "post" <=> doPc[w] = "waiting"
Told    == \A w \in Threads : InTheChannel(w) \subseteq answered
StoredInv ==
  \A s \in stored : s \in sent \cup failed \/ \E w \in Threads : s \in InTheChannel(w)

LEMMA PipelineInvIs ==
  PipelineInv <=> /\ PipelineTypeOK /\ IInv /\ B!BreakerInv
                  /\ Logging /\ Matched /\ Told
                  /\ SentWasAnswered /\ DuplicatesFollowErrors /\ StoredInv
BY DEF PipelineInv, Logging, Matched, Told, StoredInv

\* Steps that leave the calls, the POSTs and the server alone.
LEMMA QuietStep ==
  ASSUME PipelineInv, UNCHANGED <<emissions, sent>>,
         \A w \in Threads : /\ (phase'[w] = "post" <=> phase[w] = "post")
                            /\ (doPc'[w] = "waiting" <=> doPc[w] = "waiting")
                            /\ phase[w] = "post" => sendBatch'[w] = sendBatch[w]
                            /\ answer'[w] = answer[w]
  PROVE  (Matched /\ Told /\ SentWasAnswered /\ DuplicatesFollowErrors /\ StoredInv)'
<1> USE PipelineInvIs DEF emissions
<1>1. \A w \in Threads : InTheChannel(w)' = InTheChannel(w)
  BY DEF InTheChannel
<1>2. QED
  BY <1>1 DEF Matched, Told, SentWasAnswered, DuplicatesFollowErrors, StoredInv

\* What the collector does by itself, and the logger's loop.
LEMMA CollectorStepInv ==
  ASSUME PipelineInv, CollectorSteps \/ (\E s \in Spans : Accept(s)) \/ LogTest \/ LogBody
  PROVE  (PipelineTypeOK /\ Logging /\ Matched /\ Told
            /\ SentWasAnswered /\ DuplicatesFollowErrors /\ StoredInv)'
<1> USE PipelineInvIs
<1>1. UNCHANGED <<breaker, emissions>>
  BY DEF CollectorSteps, Accept, LogTest, LogBody
<1>2. /\ sent' = sent
      /\ \A w \in Threads : /\ phase'[w] = "post" <=> phase[w] = "post"
                            /\ phase[w] = "post" => sendBatch'[w] = sendBatch[w]
  <2>1. CASE \E w \in Threads : Trim(w)
    <3>1. PICK w \in Threads : Trim(w)
      BY <2>1
    <3>2. /\ phase[w] = "trim" /\ phase' = [phase EXCEPT ![w] = "idle"]
          /\ sendBatch' = [sendBatch EXCEPT ![w] = << >>] /\ sent' = sent
      BY <3>1 DEF Trim, Unlock, history
    <3>3. QED
      BY <3>2 DEF IInv, TypeOK
  <2>2. CASE ~\E w \in Threads : Trim(w)
    <3>1. UNCHANGED <<phase, sendBatch, sent>>
      BY <2>2 DEF CollectorSteps, Accept, LogTest, LogBody, Collect, Close, CloseReturns,
             TimePasses, Tick, Quit, SendNothing, Receive, Dispose, vars, senderVars, history
    <3>2. QED
      BY <3>1
  <2>3. QED
    BY <2>1, <2>2
<1>3. (Matched /\ Told /\ SentWasAnswered /\ DuplicatesFollowErrors /\ StoredInv)'
  BY <1>1, <1>2, QuietStep DEF breaker
<1>4. Logging'
  <2>1. CASE CollectorSteps
    <3>1. logPc' = logPc
      BY <2>1 DEF CollectorSteps, logVars
    <3>2. loopPc' = "logging" <=> loopPc = "logging"
      <4>1. CASE \E w \in Threads : SendNothing(w) \/ Trim(w)
        BY <4>1 DEF SendNothing, Trim, Lock, BatchMutexFree, Return
      <4>2. CASE \/ \E s \in Spans : Collect(s)
                 \/ Close \/ CloseReturns \/ TimePasses \/ Tick \/ Quit
        BY <4>2 DEF Collect, Close, CloseReturns, TimePasses, Tick, Quit, loopVars
      <4>3. QED
        BY <2>1, <4>1, <4>2 DEF CollectorSteps
    <3>3. QED
      BY <3>1, <3>2 DEF Logging
  <2>2. CASE \E s \in Spans : Accept(s)
    <3>1. loopPc = "select"
      BY <2>2 DEF Accept, Receive
    <3>2. QED
      BY <2>2, <3>1 DEF Accept, CallLog, logVars, Logging
  <2>3. CASE LogTest \/ LogBody
    BY <2>3 DEF LogTest, LogBody, Dispose, vars, loopVars, Logging
  <2>4. QED
    BY <2>1, <2>2, <2>3
<1>5. PipelineTypeOK'
  <2>1. /\ logPc' \in {"idle", "test", "body"}
        /\ logIndex' \in {logIndex, 0, 2}
    BY DEF CollectorSteps, Accept, CallLog, LogTest, LogBody, NextIndex, logVars, PipelineTypeOK
  <2>2. QED
    BY <1>1, <2>1 DEF PipelineTypeOK, KeyVals, emissions
<1>6. QED
  BY <1>3, <1>4, <1>5

\* send calls client.Do: the call starts with nothing in its channels.
LEMMA StartPostInv ==
  ASSUME PipelineInv, NEW w \in Threads, StartPost(w)
  PROVE  (Matched /\ Told /\ SentWasAnswered /\ DuplicatesFollowErrors /\ StoredInv)'
<1> USE PipelineInvIs
<1>1. UNCHANGED <<emissions, sent>>
  BY DEF StartPost, Post, history
<1>2. /\ phase[w] = "idle" /\ phase' = [phase EXCEPT ![w] = "post"]
      /\ sendBatch' = [sendBatch EXCEPT ![w] = batch]
      /\ doPc' = [doPc EXCEPT ![w] = "waiting"] /\ answer' = [answer EXCEPT ![w] = "none"]
  BY DEF StartPost, Post, Lock, AtLock, B!Start
<1>3. /\ phase'[w] = "post" /\ doPc'[w] = "waiting" /\ answer'[w] = "none"
      /\ \A v \in Threads \ {w} : /\ phase'[v] = phase[v] /\ sendBatch'[v] = sendBatch[v]
                                  /\ doPc'[v] = doPc[v] /\ answer'[v] = answer[v]
  BY <1>2 DEF IInv, TypeOK, B!BreakerInv, B!BreakerTypeOK
<1>4. \A v \in Threads : InTheChannel(v)' = InTheChannel(v)
  BY <1>2, <1>3 DEF InTheChannel, B!Responses
<1>5. QED
  BY <1>1, <1>3, <1>4
  DEF Matched, Told, SentWasAnswered, DuplicatesFollowErrors, StoredInv, emissions

\* client.Do returns: what was in the channel is sent, or there was nothing.
LEMMA EndPostInv ==
  ASSUME PipelineInv, NEW w \in Threads, EndPost(w)
  PROVE  (Matched /\ Told /\ SentWasAnswered /\ DuplicatesFollowErrors /\ StoredInv)'
<1> USE PipelineInvIs
<1>1. UNCHANGED <<emissions, answer>> /\ phase[w] = "post" /\ doPc[w] = "waiting"
  BY DEF EndPost, B!Receive, PostSucceeds, PostFails
<1>2. /\ B!ChannelsMatch(w)
      /\ \/ output[w] \in B!Responses /\ doPc' = [doPc EXCEPT ![w] = "response"]
         \/ errors[w] = "err" /\ doPc' = [doPc EXCEPT ![w] = "error"]
  BY <1>1 DEF B!BreakerInv, EndPost, B!Receive
<1>3. doPc \in [Threads -> {"idle", "waiting", "response", "error"}]
  BY DEF B!BreakerInv, B!BreakerTypeOK
<1>4. CASE doPc'[w] = "response"
  <2>1. answer[w] \in B!Responses
    BY <1>2, <1>3, <1>4 DEF B!ChannelsMatch, B!Responses
  <2>2. PostSucceeds(w)
    BY <1>4 DEF EndPost
  <2>3. phase' = [phase EXCEPT ![w] = "trim"] /\ sendBatch' = sendBatch
    BY <2>2 DEF PostSucceeds
  <2>4. sent' = sent \cup InTheChannel(w)
    BY <1>1, <2>1, <2>2 DEF PostSucceeds, InTheChannel
  <2>5. \A v \in Threads \ {w} : InTheChannel(v)' = InTheChannel(v)
    BY <1>1, <2>3 DEF InTheChannel
  <2>6. InTheChannel(w)' = {}
    BY <2>3 DEF InTheChannel, IInv, TypeOK
  <2>7. Matched'
    BY <1>1, <1>2, <1>3, <1>4, <2>3 DEF Matched, IInv, TypeOK
  <2>8. QED
    BY <1>1, <2>4, <2>5, <2>6, <2>7
    DEF Told, SentWasAnswered, DuplicatesFollowErrors, StoredInv, emissions
<1>5. CASE doPc'[w] = "error"
  <2>1. answer[w] = "err"
    BY <1>2, <1>3, <1>5 DEF B!ChannelsMatch, B!Responses
  <2>2. PostFails(w)
    BY <1>5 DEF EndPost
  <2>3. /\ phase' = [phase EXCEPT ![w] = "idle"] /\ sent' = sent
        /\ sendBatch' = [sendBatch EXCEPT ![w] = << >>]
    BY <2>2 DEF PostFails, Unlock, history
  <2>4. \A v \in Threads : InTheChannel(v)' = InTheChannel(v)
    BY <1>1, <2>1, <2>3 DEF InTheChannel, B!Responses, IInv, TypeOK
  <2>5. Matched'
    BY <1>1, <1>2, <1>3, <1>5, <2>3 DEF Matched, IInv, TypeOK
  <2>6. QED
    BY <1>1, <2>3, <2>4, <2>5
    DEF Told, SentWasAnswered, DuplicatesFollowErrors, StoredInv, emissions
<1>6. QED
  BY <1>4, <1>5 DEF EndPost

\* hystrix moves nothing that the invariant reads but the command.
LEMMA HystrixStepInv ==
  ASSUME PipelineInv, NEW w \in Threads, Emit(w) \/ BreakerSteps(w)
  PROVE  (Matched /\ Told /\ SentWasAnswered /\ DuplicatesFollowErrors /\ StoredInv)'
<1>1. UNCHANGED <<doPc, answer, phase, sendBatch, sent, answered, failed, stored, duplicated>>
  BY DEF Emit, BreakerSteps, B!Admit, B!Reject, B!Report, B!End, B!Timeout, vars, senderVars,
         history, emissions
<1>2. \A v \in Threads : InTheChannel(v)' = InTheChannel(v)
  BY <1>1 DEF InTheChannel
<1>3. QED
  BY <1>1, <1>2, PipelineInvIs
  DEF Matched, Told, SentWasAnswered, DuplicatesFollowErrors, StoredInv

\* An answer comes to a call that waits, before any other.  The spans of its
\* POST are in no other POST and were not sent before, so if the server has
\* stored some of them already, an earlier POST of them failed.
LEMMA AnswerInv ==
  ASSUME PipelineInv, NEW w \in Threads, NEW a \in B!Answers, ServerAnswers(w, a)
  PROVE  (Matched /\ Told /\ SentWasAnswered /\ DuplicatesFollowErrors /\ StoredInv)'
<1> USE PipelineInvIs
<1> DEFINE spans == Range(sendBatch[w])
<1>1. /\ command[w] = "running" /\ answer' = [answer EXCEPT ![w] = a]
      /\ UNCHANGED <<doPc, phase, sendBatch, sent>>
  BY DEF ServerAnswers, B!Answer, vars, senderVars, history
<1>2. phase[w] = "post" /\ answer[w] = "none" /\ answer'[w] = a
  BY <1>1 DEF B!BreakerInv, B!BreakerTypeOK, Matched
<1>3. \A v \in Threads \ {w} : InTheChannel(v)' = InTheChannel(v)
  BY <1>1 DEF InTheChannel, B!BreakerInv, B!BreakerTypeOK
<1>4. /\ InTheChannel(w) = {}
      /\ InTheChannel(w)' = IF a \in B!Responses THEN spans ELSE {}
  BY <1>1, <1>2 DEF InTheChannel, B!Responses
<1>5. /\ stored' \subseteq stored \cup spans
      /\ duplicated' \subseteq duplicated \cup (stored \cap spans)
  BY DEF ServerAnswers, Store
<1>6. \/ a \in B!Responses /\ answered' = answered \cup spans /\ failed' = failed
      \/ a \notin B!Responses /\ failed' = failed \cup spans /\ answered' = answered
  BY DEF ServerAnswers
<1>7. stored \cap spans \subseteq failed
  <2>1. ASSUME NEW s \in stored \cap spans PROVE s \in failed
    <3>1. NoResend
      BY InvImpliesNoResend
    <3>2. s \notin sent
      BY <1>2, <3>1 DEF NoResend
    <3>3. \A v \in Threads : s \notin InTheChannel(v)
      <4>1. s \notin InTheChannel(w)
        BY <1>4
      <4>2. \A v \in Threads \ {w} : s \notin InTheChannel(v)
        BY <1>2, <3>1 DEF NoResend, InTheChannel, InFlight
      <4>3. QED
        BY <4>1, <4>2
    <3>4. QED
      BY <3>2, <3>3 DEF StoredInv
  <2>2. QED
    BY <2>1
<1> HIDE DEF spans
<1>8. Matched' /\ SentWasAnswered'
  BY <1>1, <1>6 DEF Matched, SentWasAnswered
<1>9. Told'
  BY <1>3, <1>4, <1>6 DEF Told
<1>10. DuplicatesFollowErrors'
  BY <1>5, <1>6, <1>7 DEF DuplicatesFollowErrors
<1>11. StoredInv'
  <2>1. ASSUME NEW s \in stored'
        PROVE  s \in sent' \cup failed' \/ \E v \in Threads : s \in InTheChannel(v)'
    <3>1. CASE s \in spans
      BY <1>4, <1>6, <3>1
    <3>2. CASE s \in stored
      <4>1. s \in sent \cup failed \/ \E v \in Threads \ {w} : s \in InTheChannel(v)
        BY <1>4, <3>2 DEF StoredInv
      <4>2. QED
        BY <1>1, <1>3, <1>6, <4>1
    <3>3. QED
      BY <1>5, <3>1, <3>2
  <2>2. QED
    BY <2>1 DEF StoredInv
<1>12. QED
  BY <1>8, <1>9, <1>10, <1>11

\* The types, and the logger, in the steps of the calls.
LEMMA CallTypes ==
  ASSUME PipelineInv, NEW w \in Threads,
         \/ StartPost(w) \/ EndPost(w) \/ Emit(w) \/ BreakerSteps(w)
         \/ \E a \in B!Answers : ServerAnswers(w, a)
  PROVE  (PipelineTypeOK /\ Logging)'
<1> USE PipelineInvIs
<1>1. UNCHANGED logVars
  BY DEF StartPost, EndPost, Emit, BreakerSteps, ServerAnswers
<1>2. Range(sendBatch[w]) \subseteq Spans
  BY SpanSeq DEF IInv, TypeOK
<1>3. (posted \subseteq Spans /\ answered \subseteq Spans /\ failed \subseteq Spans
         /\ stored \subseteq Spans /\ duplicated \subseteq Spans)'
  <2>1. CASE StartPost(w) \/ EndPost(w) \/ BreakerSteps(w)
    BY <2>1 DEF StartPost, EndPost, BreakerSteps, emissions, PipelineTypeOK
  <2>2. CASE Emit(w)
    BY <1>2, <2>2 DEF Emit, PipelineTypeOK
  <2>3. CASE \E a \in B!Answers : ServerAnswers(w, a)
    BY <1>2, <2>3 DEF ServerAnswers, Store, PipelineTypeOK
  <2>4. QED
    BY <2>1, <2>2, <2>3
<1>4. loopPc' = "logging" <=> loopPc = "logging"
  <2>1. CASE EndPost(w)
    <3>1. InFlight(w) /\ (w = Loop => loopPc = "final")
      BY <2>1 DEF EndPost, PostSucceeds, PostFails, InFlight, IInv, CloseInv
    <3>2. QED
      BY <2>1, <3>1 DEF EndPost, PostSucceeds, PostFails, Return, loopVars
  <2>2. CASE ~EndPost(w)
    BY <2>2 DEF StartPost, Post, Emit, BreakerSteps, ServerAnswers, vars, loopVars
  <2>3. QED
    BY <2>1, <2>2
<1>5. QED
  BY <1>1, <1>3, <1>4 DEF PipelineTypeOK, Logging, logVars

LEMMA PipelineStepInv == PipelineInv /\ [PipelineNext]_pipelineVars => PipelineInv'
<1> SUFFICES ASSUME PipelineInv, [PipelineNext]_pipelineVars PROVE PipelineInv'
  OBVIOUS
<1>1. IInv' /\ B!BreakerInv'
  BY StepProjects, NextInv, BreakerStepAgain, PipelineInvIs
<1>2. (PipelineTypeOK /\ Logging /\ Matched /\ Told
         /\ SentWasAnswered /\ DuplicatesFollowErrors /\ StoredInv)'
  <2>1. CASE UNCHANGED pipelineVars
    <3>1. UNCHANGED <<phase, sendBatch, sent, loopPc, doPc, answer, emissions, logVars>>
      BY <2>1 DEF pipelineVars, vars, senderVars, history, loopVars, breaker
    <3>2. (Matched /\ Told /\ SentWasAnswered /\ DuplicatesFollowErrors /\ StoredInv)'
      BY <3>1, QuietStep
    <3>3. (PipelineTypeOK /\ Logging)'
      <4>1. PipelineTypeOK /\ Logging
        BY PipelineInvIs
      <4>2. UNCHANGED <<loopPc, logPc, logIndex, posted, answered, failed, stored, duplicated>>
        BY <3>1 DEF emissions, logVars
      <4>3. QED
        BY <4>1, <4>2 DEF PipelineTypeOK, Logging
    <3>4. QED
      BY <3>2, <3>3
  <2>2. CASE CollectorSteps \/ (\E s \in Spans : Accept(s)) \/ LogTest \/ LogBody
    BY <2>2, CollectorStepInv
  <2>3. ASSUME NEW w \in Threads,
               \/ StartPost(w) \/ EndPost(w) \/ Emit(w) \/ BreakerSteps(w)
               \/ \E a \in B!Answers : ServerAnswers(w, a)
        PROVE  (PipelineTypeOK /\ Logging /\ Matched /\ Told
                  /\ SentWasAnswered /\ DuplicatesFollowErrors /\ StoredInv)'
    BY <2>3, CallTypes, StartPostInv, EndPostInv, HystrixStepInv, AnswerInv
  <2>4. QED
    BY <2>1, <2>2, <2>3 DEF PipelineNext
<1>3. QED
  BY <1>1, <1>2 DEF PipelineInv, Logging, Matched, Told, StoredInv

\* The inductive invariant of the pipeline.
THEOREM PipelineInvariance == PipelineSpec => []PipelineInv
<1>1. QED
  BY PipelineInitInv, PipelineStepInv, PTL DEF PipelineSpec

\* What is cut off as sent was answered by the span server.
THEOREM SentAreAnswered == PipelineSpec => []SentWasAnswered
<1>1. PipelineInv => SentWasAnswered
  BY PipelineInvIs
<1>2. QED
  BY <1>1, PipelineInvariance, PTL

\* The span server stores a span twice only after an error.
THEOREM DuplicatesAreRetries == PipelineSpec => []DuplicatesFollowErrors
<1>1. PipelineInv => DuplicatesFollowErrors
  BY PipelineInvIs
<1>2. QED
  BY <1>1, PipelineInvariance, PTL

----------------------------------------------------------------------------
(* What a call that never returns does to the collector.                   *)

\* The pipeline is a collector, so it is a lossy queue too.
THEOREM PipelineIsLossyQueue == PipelineSpec => ImplementsLossyQueue
<1>1. QED
  BY PipelineIsCollector, CollectorIsLossyQueue, PTL

LEMMA LogStep == LogInv /\ [PipelineNext]_pipelineVars => LogInv'
<1> SUFFICES ASSUME LogInv, [PipelineNext]_pipelineVars PROVE LogInv'
  OBVIOUS
<1> USE DEF LogInv, NextIndex
<1>1. CASE UNCHANGED pipelineVars
  BY <1>1 DEF pipelineVars, vars, history, logVars
<1>2. CASE CollectorSteps
  <2>1. UNCHANGED <<disposed, logIndex>>
    BY <1>2 DEF CollectorSteps, Collect, Close, CloseReturns, TimePasses, Tick, Quit,
         SendNothing, Trim, history, logVars
  <2>2. QED
    BY <2>1
<1>3. CASE \E s \in Spans : Accept(s)
  BY <1>3 DEF Accept, Receive, CallLog, logVars
<1>4. CASE LogTest \/ LogBody
  BY <1>4 DEF LogTest, LogBody, KeyVals, vars, history
<1>5. ASSUME NEW w \in Threads,
             \/ StartPost(w) \/ EndPost(w) \/ Emit(w) \/ BreakerSteps(w)
             \/ \E a \in B!Answers : ServerAnswers(w, a)
      PROVE  LogInv'
  <2>1. UNCHANGED logVars
    BY <1>5 DEF StartPost, EndPost, Emit, BreakerSteps, ServerAnswers
  <2>2. disposed' = disposed
    BY <1>5 DEF StartPost, EndPost, Emit, BreakerSteps, ServerAnswers,
         Post, PostFails, PostSucceeds, vars, history
  <2>3. QED
    BY <2>1, <2>2 DEF logVars
<1>6. QED
  BY <1>1, <1>2, <1>3, <1>4, <1>5 DEF PipelineNext

LEMMA LogInvariance == PipelineSpec => []LogInv
<1>1. PipelineInit => LogInv
  BY DEF PipelineInit, Init, LogInv
<1>2. QED
  BY <1>1, LogStep, PTL DEF PipelineSpec

\* Once append has called Log the loop stays there, and so does the batch: a
\* sender may end its POST, but cannot lock batchMutex.
THEOREM LogNeverReturns == PipelineSpec => OverflowIsFinal
<1>1. PipelineInv /\ LogInv /\ [PipelineNext]_pipelineVars
        => [loopPc = "logging" => UNCHANGED <<loopPc, batch, accepted>>]_pipelineVars
  <2> SUFFICES ASSUME PipelineInv, LogInv, PipelineNext, loopPc = "logging"
               PROVE  UNCHANGED <<loopPc, batch, accepted>>
    BY DEF pipelineVars, vars, loopVars, history
  <2>1. CASE CollectorSteps
    BY <2>1 DEF CollectorSteps, Collect, Close, CloseReturns, TimePasses, Tick, Quit,
         SendNothing, Trim, Lock, BatchMutexFree, loopVars, history
  <2>2. CASE (\E s \in Spans : Accept(s)) \/ LogTest \/ LogBody
    BY <2>2 DEF Accept, Receive, LogTest, LogBody, LogInv, NextIndex, KeyVals, vars,
         loopVars, history
  <2>3. ASSUME NEW w \in Threads, StartPost(w) PROVE FALSE
    BY <2>3 DEF StartPost, Post, Lock, BatchMutexFree
  <2>4. ASSUME NEW w \in Threads, EndPost(w) PROVE UNCHANGED <<loopPc, batch, accepted>>
    <3>1. w # Loop
      BY <2>4, PipelineInvIs
      DEF EndPost, PostSucceeds, PostFails, InFlight, IInv, CloseInv
    <3>2. QED
      BY <2>4, <3>1 DEF EndPost, PostSucceeds, PostFails, Return, loopVars, history
  <2>5. ASSUME NEW w \in Threads,
               Emit(w) \/ BreakerSteps(w) \/ \E a \in B!Answers : ServerAnswers(w, a)
        PROVE  UNCHANGED <<loopPc, batch, accepted>>
    BY <2>5 DEF Emit, BreakerSteps, ServerAnswers, vars, loopVars, history
  <2>6. QED
    BY <2>1, <2>2, <2>3, <2>4, <2>5 DEF PipelineNext
<1>2. QED
  BY <1>1, PipelineInvariance, LogInvariance, PTL DEF PipelineSpec, OverflowIsFinal

\* With nothing disposed of there is nothing to miscount.
LEMMA NothingIsLost == LossInv /\ LogInv => NothingDisposed
<1> SUFFICES ASSUME LossInv, LogInv, \A w \in Threads : phase[w] # "trim" PROVE Lost = {}
  BY DEF NothingDisposed, LogInv
<1>1. Cardinality(Lost) = Cardinality(disposed \cap sent)
  BY InvImpliesLoss DEF LossIsMiscountedDisposal
<1>2. disposed \cap sent = {}
  BY DEF LogInv
<1>3. Cardinality(Lost) = 0
  BY <1>1, <1>2, FS_EmptySet
<1>4. IsFiniteSet(Lost)
  <2>1. IsFiniteSet(Range(accepted))
    <3>1. Len(accepted) \in Nat /\ 0 + Len(accepted) <= Len(accepted)
          /\ DOMAIN accepted = 1 .. Len(accepted)
      BY SpanSeq DEF LossInv, IInv, TypeOK
    <3>2. IsFiniteSet({accepted[0 + i] : i \in 1 .. Len(accepted)})
      BY <3>1, PieceCount DEF LossInv
    <3>3. Range(accepted) \subseteq {accepted[0 + i] : i \in 1 .. Len(accepted)}
      BY <3>1 DEF Range
    <3>4. QED
      BY <3>2, <3>3, FS_Subset
  <2>2. QED
    BY <2>1, FS_Subset DEF Lost
<1>5. QED
  BY <1>3, <1>4, FS_EmptySet

\* The collector that NewTracer makes never disposes of a span, and never
\* loses one silently.
THEOREM NothingIsDisposed == PipelineSpec => []NothingDisposed
<1>1. PipelineSpec => []LossInv
  BY PipelineIsCollector, LossInvariance, PTL
<1>2. QED
  BY <1>1, NothingIsLost, LogInvariance, PTL

\* Only a cut after a POST makes the batch shorter, and when it is done
\* nothing is lost.
LEMMA CutsSentSpans ==
  ASSUME IInv, NothingDisposed', LogInv, LogInv', [PipelineNext]_pipelineVars
  PROVE  [Range(batch) \ Range(batch') \subseteq sent \cup disposed']_vars
<1> SUFFICES ASSUME PipelineNext PROVE Range(batch) \ Range(batch') \subseteq sent \cup disposed'
  BY DEF pipelineVars
<1>1. CASE \E w \in Threads : Trim(w)
  <2>1. PICK w \in Threads : Trim(w)
    BY <1>1
  <2>2. UNCHANGED <<accepted, sent>> /\ \A v \in Threads : phase'[v] # "trim"
    BY <2>1 DEF Trim, Unlock, history, IInv, TypeOK, MutexInv, InFlight
  <2>3. Lost' = {}
    BY <2>2 DEF NothingDisposed
  <2>4. Range(batch) \subseteq Range(accepted)
    <3>1. /\ Len(accepted) \in Nat /\ Len(batch) \in Nat
          /\ DOMAIN accepted = 1 .. Len(accepted) /\ DOMAIN batch = 1 .. Len(batch)
      BY SpanSeq DEF IInv, TypeOK
    <3>2. \A i \in DOMAIN batch : Removed + i \in DOMAIN accepted /\ batch[i] = accepted[Removed + i]
      BY <3>1 DEF IInv, OrderInv, Removed
    <3>3. QED
      BY <3>2 DEF Range
  <2>5. QED
    BY <2>2, <2>3, <2>4 DEF Lost
<1>2. CASE \E s \in Spans : Accept(s)
  <2>1. PICK s \in Spans : batch' = Append(batch, s)
    BY <1>2 DEF Accept, Receive
  <2>2. \A i \in DOMAIN batch : i \in DOMAIN batch' /\ batch'[i] = batch[i]
    BY <2>1 DEF IInv, TypeOK
  <2>3. QED
    BY <2>2 DEF Range
<1>3. CASE batch' = batch
  BY <1>3 DEF Range
<1>4. QED
  <2>1. CASE CollectorSteps
    BY <1>1, <1>3, <2>1 DEF CollectorSteps, Collect, Close, CloseReturns, TimePasses, Tick, Quit,
         SendNothing
  <2>2. CASE LogTest \/ LogBody
    BY <1>3, <2>2 DEF LogTest, LogBody, LogInv, NextIndex, KeyVals, vars
  <2>3. ASSUME NEW w \in Threads,
               \/ StartPost(w) \/ EndPost(w) \/ Emit(w) \/ BreakerSteps(w)
               \/ \E a \in B!Answers : ServerAnswers(w, a)
        PROVE  batch' = batch
    BY <2>3 DEF StartPost, EndPost, Emit, BreakerSteps, ServerAnswers,
         Post, PostFails, PostSucceeds, vars
  <2>4. QED
    BY <1>2, <1>3, <2>1, <2>2, <2>3 DEF PipelineNext

\* What the collector alone does not keep to, it keeps to behind traceLogger:
\* the overflow that would make a cut go wrong never ends.
THEOREM PipelineRemovesOnlySent == PipelineSpec => RemovesOnlySentSpans
<1>1. IInv /\ NothingDisposed' /\ LogInv /\ LogInv' /\ [PipelineNext]_pipelineVars
        => [Range(batch) \ Range(batch') \subseteq sent \cup disposed']_vars
  BY CutsSentSpans
<1>2. PipelineSpec => []IInv
  BY PipelineIsCollector, Invariance, PTL
<1>3. QED
  BY <1>1, <1>2, NothingIsDisposed, LogInvariance, PTL DEF PipelineSpec, RemovesOnlySentSpans

\* A sender whose call is stranded is inside its POST for good; the others
\* queue behind sendMutex and their calls, if any, are over.
LEMMA RejectedStep ==
  ASSUME PipelineInv, [PipelineNext]_pipelineVars,
         NEW w \in Threads, phase[w] = "post", B!Stranded(w)
  PROVE  /\ phase'[w] = "post" /\ B!Stranded(w)'
         /\ UNCHANGED <<sendMutex, posted, stored, sent>>
<1> USE PipelineInvIs
<1>1. B!Stranded(w)'
  BY StepProjects, StrandedAgain
<1>2. phase'[w] = "post"
  <2>1. PipelineInv'
    BY PipelineStepInv
  <2>2. Matched'
    BY <2>1 DEF PipelineInv, Matched
  <2>3. QED
    BY <1>1, <2>2 DEF Matched, B!Stranded
<1>3. \A v \in Threads \ {w} : ~InFlight(v) /\ doPc[v] # "waiting"
  BY DEF IInv, MutexInv, InFlight, Matched
<1>4. sendMutex = w /\ sendMutex # Free
  BY ThreadAssumption DEF IInv, MutexInv, InFlight, Threads
<1>5. \A v \in Threads : command[v] \notin {"asking", "running"}
  BY <1>3 DEF B!BreakerInv, B!Stranded
<1>6. UNCHANGED <<sendMutex, posted, stored, sent>>
  <2>1. CASE UNCHANGED pipelineVars
    BY <2>1 DEF pipelineVars, vars, senderVars, history, emissions
  <2>2. CASE CollectorSteps
    <3>1. \A v \in Threads : ~SendNothing(v) /\ ~Trim(v)
      BY <1>3, <1>4 DEF SendNothing, Lock, Trim, InFlight
    <3>2. QED
      BY <2>2, <3>1 DEF CollectorSteps, Collect, Close, CloseReturns, TimePasses, Tick, Quit,
           senderVars, history, emissions
  <2>3. CASE (\E s \in Spans : Accept(s)) \/ LogTest \/ LogBody
    BY <2>3 DEF Accept, Receive, LogTest, LogBody, Dispose, vars, senderVars, history, emissions
  <2>4. ASSUME NEW v \in Threads,
               \/ StartPost(v) \/ EndPost(v) \/ Emit(v) \/ BreakerSteps(v)
               \/ \E a \in B!Answers : ServerAnswers(v, a)
        PROVE  UNCHANGED <<sendMutex, posted, stored, sent>>
    <3>1. ~StartPost(v) /\ ~Emit(v) /\ \A a \in B!Answers : ~ServerAnswers(v, a)
      BY <1>4, <1>5 DEF StartPost, Post, Lock, Emit, B!Admit, ServerAnswers, B!Answer
    <3>2. ~EndPost(v)
      <4>1. CASE v = w
        BY <1>2, <4>1 DEF EndPost, PostSucceeds, PostFails, Unlock, IInv, TypeOK
      <4>2. CASE v # w
        BY <1>3, <4>2 DEF EndPost, PostSucceeds, PostFails, InFlight
      <4>3. QED
        BY <4>1, <4>2
    <3>3. QED
      BY <2>4, <3>1, <3>2 DEF BreakerSteps, vars, senderVars, history, emissions
  <2>5. QED
    BY <2>1, <2>2, <2>3, <2>4 DEF PipelineNext
<1>7. QED
  BY <1>1, <1>2, <1>6

\* One rejection by the circuit, and the service's spans have left for the
\* last time.
THEOREM RejectionStopsTheCollector == PipelineSpec => RejectionIsFinal
<1>1. PipelineInv /\ [PipelineNext]_pipelineVars
        => [\A w \in Threads :
              phase[w] = "post" /\ B!Stranded(w) =>
                /\ phase'[w] = "post" /\ B!Stranded(w)'
                /\ UNCHANGED <<sendMutex, posted, stored, sent>>]_pipelineVars
  BY RejectedStep
<1>2. QED
  BY <1>1, PipelineInvariance, PTL DEF PipelineSpec, RejectionIsFinal
=============================================================================
