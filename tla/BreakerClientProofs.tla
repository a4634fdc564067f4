------------------------ MODULE BreakerClientProofs ------------------------
(***************************************************************************)
(* Theorems about BreakerClient, for every set of calls, every number of   *)
(* tickets and every behaviour of hystrix that the model allows.           *)
(***************************************************************************)
EXTENDS BreakerClient, TLAPS

\* The part of the invariant that is about one call.
CallInv(c) ==
  /\ output[c] # "panic" /\ errors[c] # "panic"
  /\ doPc[c] = "response" => answer[c] \in Responses
  /\ doPc[c] = "error" => answer[c] = "err"
  /\ command[c] \in {"asking", "rejected", "running"} => doPc[c] = "waiting" /\ answer[c] = "none"
  /\ doPc[c] = "waiting" => ChannelsMatch(c)

LEMMA BreakerInvIs == BreakerInv <=> BreakerTypeOK /\ \A c \in Calls : CallInv(c)
BY DEF BreakerInv, CallInv, NoSendOnClosed, ReplyIsAnswer

LEMMA BreakerInitInv == BreakerInit => BreakerInv
<1>1. BreakerInit => BreakerTypeOK
  <2> SUFFICES ASSUME BreakerInit PROVE BreakerTypeOK
    OBVIOUS
  <2>1. open \in BOOLEAN
    BY Zenon DEF BreakerInit
  <2>2. /\ doPc \in [Calls -> {"idle", "waiting", "response", "error"}]
        /\ output \in [Calls -> Responses \cup {"empty", "closed", "panic"}]
        /\ errors \in [Calls -> {"empty", "err", "closed", "panic"}]
        /\ command \in [Calls -> {"off", "asking", "rejected", "running", "answered"}]
        /\ timer \in [Calls -> {"off", "armed", "fired"}]
        /\ answer \in [Calls -> Answers \cup {"none"}]
    BY DEF BreakerInit
  <2>3. QED
    BY <2>1, <2>2 DEF BreakerTypeOK
<1>2. BreakerInit => \A c \in Calls : CallInv(c)
  BY DEF BreakerInit, CallInv
<1>3. QED
  BY <1>1, <1>2, BreakerInvIs

\* Steps that touch only what belongs to the one call c.
LEMMA OneCall ==
  ASSUME BreakerTypeOK, \A d \in Calls : CallInv(d), NEW c \in Calls,
         BreakerTypeOK', CallInv(c)',
         \A d \in Calls \ {c} : /\ doPc'[d] = doPc[d] /\ output'[d] = output[d]
                                /\ errors'[d] = errors[d] /\ command'[d] = command[d]
                                /\ answer'[d] = answer[d]
  PROVE  BreakerInv'
<1>1. \A d \in Calls \ {c} : CallInv(d)'
  BY DEF CallInv, ChannelsMatch
<1>2. QED
  BY <1>1, BreakerInvIs DEF BreakerInv, CallInv, NoSendOnClosed, ReplyIsAnswer

LEMMA BreakerNextInv == BreakerInv /\ [BreakerNext]_breakerVars => BreakerInv'
<1> SUFFICES ASSUME BreakerInv, [BreakerNext]_breakerVars PROVE BreakerInv'
  OBVIOUS
<1> USE DEF callVars
<1>1. BreakerTypeOK /\ \A c \in Calls : CallInv(c)
  BY BreakerInvIs
<1>2. CASE UNCHANGED breakerVars
  BY <1>2 DEF breakerVars, BreakerInv, BreakerTypeOK, NoSendOnClosed, ReplyIsAnswer, ChannelsMatch
<1>3. ASSUME NEW c \in Calls, Start(c) PROVE BreakerInv'
  <2>1. BreakerTypeOK'
    BY <1>1, <1>3 DEF Start, BreakerTypeOK
  <2>2. CallInv(c)'
    <3>1. /\ doPc'[c] = "waiting" /\ answer'[c] = "none"
          /\ output'[c] = "empty" /\ errors'[c] = "empty"
      BY <1>1, <1>3 DEF Start, BreakerTypeOK
    <3>2. QED
      BY <3>1 DEF CallInv, ChannelsMatch, Responses
  <2>3. QED
    BY <1>1, <1>3, <2>1, <2>2, OneCall DEF Start, BreakerTypeOK
<1>4. ASSUME NEW c \in Calls, Hystrix(c) PROVE BreakerInv'
  <2>1. UNCHANGED <<doPc, output, errors, answer>>
    BY <1>4 DEF Hystrix, Reject, Admit, Report, End, Timeout, Fallback
  <2>2. /\ command' \in [Calls -> {"off", "asking", "rejected", "running", "answered"}]
        /\ \A d \in Calls \ {c} : command'[d] = command[d]
        /\ command'[c] \in {"rejected", "running"} => command[c] \in {"asking", "running"}
        /\ command'[c] # "asking"
    BY <1>1, <1>4 DEF Hystrix, Reject, Admit, Report, End, Timeout, BreakerTypeOK
  <2>3. timer' \in [Calls -> {"off", "armed", "fired"}]
    <3>1. \/ UNCHANGED timer
          \/ timer' = [timer EXCEPT ![c] = "off"]
          \/ timer' = [timer EXCEPT ![c] = "fired"]
      BY <1>4, Zenon DEF Hystrix, Reject, Admit, Report, End, Timeout
    <3>2. QED
      BY <1>1, <3>1 DEF BreakerTypeOK
  <2>4. open' \in BOOLEAN
    BY <1>1, <1>4, Zenon DEF Hystrix, Reject, Admit, Report, End, Timeout, BreakerTypeOK
  <2>5. BreakerTypeOK'
    BY <1>1, <2>1, <2>2, <2>3, <2>4 DEF BreakerTypeOK
  <2>6. CallInv(c)'
    BY <1>1, <2>1, <2>2 DEF CallInv, ChannelsMatch
  <2>7. QED
    BY <1>1, <2>1, <2>2, <2>5, <2>6, OneCall
<1>5. ASSUME NEW c \in Calls, NEW a \in Answers, Answer(c, a) PROVE BreakerInv'
  <2>1. command[c] = "running" /\ doPc[c] = "waiting" /\ output[c] = "empty" /\ errors[c] = "empty"
    BY <1>1, <1>5 DEF Answer, CallInv, ChannelsMatch, Responses
  <2>2. /\ answer' = [answer EXCEPT ![c] = a] /\ command' = [command EXCEPT ![c] = "answered"]
        /\ UNCHANGED <<doPc, timer, open>>
    BY <1>5 DEF Answer
  <2>3. CASE a \in Responses
    <3>1. output' = [output EXCEPT ![c] = a] /\ errors' = errors
      BY <1>1, <1>5, <2>1, <2>3 DEF Answer, Put, BreakerTypeOK
    <3>2. BreakerTypeOK'
      BY <1>1, <2>2, <2>3, <3>1 DEF BreakerTypeOK
    <3>3. CallInv(c)'
      BY <1>1, <2>1, <2>2, <2>3, <3>1 DEF CallInv, ChannelsMatch, BreakerTypeOK, Responses
    <3>4. QED
      BY <1>1, <2>2, <3>1, <3>2, <3>3, OneCall DEF BreakerTypeOK
  <2>4. CASE a \notin Responses
    <3>1. errors' = [errors EXCEPT ![c] = a] /\ output' = output /\ a = "err"
      BY <1>1, <1>5, <2>1, <2>4 DEF Answer, Put, BreakerTypeOK, Answers
    <3>2. BreakerTypeOK'
      BY <1>1, <2>2, <3>1 DEF BreakerTypeOK
    <3>3. CallInv(c)'
      BY <1>1, <2>1, <2>2, <3>1 DEF CallInv, ChannelsMatch, BreakerTypeOK, Responses
    <3>4. QED
      BY <1>1, <2>2, <3>1, <3>2, <3>3, OneCall DEF BreakerTypeOK
  <2>5. QED
    BY <2>3, <2>4
<1>6. ASSUME NEW c \in Calls, Receive(c) PROVE BreakerInv'
  <2>1. BreakerTypeOK'
    BY <1>1, <1>6 DEF Receive, BreakerTypeOK
  <2>2. CallInv(c)'
    <3>1. doPc[c] = "waiting" /\ ChannelsMatch(c) /\ command[c] \notin {"asking", "rejected", "running"}
      BY <1>1, <1>6 DEF Receive, CallInv, ChannelsMatch, Responses
    <3>2. CASE output[c] \in Responses /\ doPc' = [doPc EXCEPT ![c] = "response"]
      BY <1>1, <1>6, <3>1, <3>2 DEF Receive, CallInv, ChannelsMatch, BreakerTypeOK, Responses, Answers
    <3>3. CASE errors[c] = "err" /\ doPc' = [doPc EXCEPT ![c] = "error"]
      BY <1>1, <1>6, <3>1, <3>3 DEF Receive, CallInv, ChannelsMatch, BreakerTypeOK, Responses, Answers
    <3>4. QED
      BY <1>6, <3>2, <3>3 DEF Receive
  <2>3. QED
    BY <1>1, <1>6, <2>1, <2>2, OneCall DEF Receive, BreakerTypeOK
<1>7. QED
  BY <1>2, <1>3, <1>4, <1>5, <1>6 DEF BreakerNext

\* The inductive invariant holds in every behaviour.
THEOREM BreakerInvariance == BreakerSpec => []BreakerInv
<1>1. QED
  BY BreakerInitInv, BreakerNextInv, PTL DEF BreakerSpec

\* No goroutine of a call sends on a channel that its caller has closed.
THEOREM ChannelsOutliveSends == BreakerSpec => []NoSendOnClosed
<1>1. BreakerInv => NoSendOnClosed
  BY DEF BreakerInv
<1>2. QED
  BY <1>1, BreakerInvariance, PTL

\* The caller gets the answer of fn.
THEOREM RepliesAreAnswers == BreakerSpec => []ReplyIsAnswer
<1>1. BreakerInv => ReplyIsAnswer
  BY DEF BreakerInv
<1>2. QED
  BY <1>1, BreakerInvariance, PTL

\* Only a rejected caller can be left without an answer.
THEOREM AnswersArrive == BreakerSpec => []OnlyRejectedWaits
<1>1. BreakerInv => OnlyRejectedWaits
  BY DEF BreakerInv, OnlyRejectedWaits, BreakerTypeOK, ChannelsMatch, Answers, Responses
<1>2. QED
  BY <1>1, BreakerInvariance, PTL

\* Steps of other calls do not concern c, and its own cannot be taken.
LEMMA StrandedStep ==
  ASSUME BreakerInv, [BreakerNext]_breakerVars, NEW c \in Calls, Stranded(c)
  PROVE  Stranded(c)'
<1> USE DEF Stranded
<1>1. BreakerTypeOK /\ ChannelsMatch(c)
  BY DEF BreakerInv
<1>2. CASE UNCHANGED breakerVars
  BY <1>2 DEF breakerVars, callVars
<1>3. ASSUME NEW d \in Calls, Start(d) PROVE Stranded(c)'
  BY <1>1, <1>3 DEF Start, BreakerTypeOK
<1>4. ASSUME NEW d \in Calls, Hystrix(d) PROVE Stranded(c)'
  <2>1. UNCHANGED <<doPc, answer>>
    BY <1>4 DEF Hystrix, Reject, Admit, Report, End, Timeout, Fallback
  <2>2. command'[c] \in {"rejected", "off"}
    BY <1>1, <1>4 DEF Hystrix, Reject, Admit, Report, End, Timeout, BreakerTypeOK
  <2>3. QED
    BY <2>1, <2>2
<1>5. ASSUME NEW d \in Calls, NEW a \in Answers, Answer(d, a) PROVE Stranded(c)'
  BY <1>1, <1>5 DEF Answer, BreakerTypeOK
<1>6. ASSUME NEW d \in Calls, Receive(d) PROVE Stranded(c)'
  <2>1. d # c
    BY <1>1, <1>6 DEF Receive, ChannelsMatch, Responses
  <2>2. UNCHANGED <<command, answer>> /\ doPc'[c] = doPc[c]
    BY <1>1, <1>6, <2>1 DEF Receive, BreakerTypeOK
  <2>3. QED
    BY <2>2
<1>7. QED
  BY <1>2, <1>3, <1>4, <1>5, <1>6 DEF BreakerNext

\* A rejected caller waits for ever: no step of hystrix, of fn or of another
\* call brings it an answer.
THEOREM RejectedWaitsForever == BreakerSpec => StrandedStays
<1>1. BreakerInv /\ [BreakerNext]_breakerVars
        => [\A c \in Calls : Stranded(c) => Stranded(c)']_breakerVars
  BY StrandedStep
<1>2. QED
  BY <1>1, BreakerInvariance, PTL DEF BreakerSpec, StrandedStays
=============================================================================
