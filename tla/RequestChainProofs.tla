------------------------- MODULE RequestChainProofs -------------------------
(***************************************************************************)
(* Theorems about RequestChain.                                            *)
(*                                                                         *)
(* A call of the handler goes down through the writers one by one, so at   *)
(* any moment two neighbouring writers differ by at most the call under    *)
(* way (LayersInv).  The metrics' writer is compared with the response by  *)
(* how many calls have passed each (ResponseInv).  When the handler has    *)
(* ended no call is under way, so the records and the verdict of hystrix,  *)
(* taken from different writers at different moments, agree with each      *)
(* other and with the response.                                            *)
(*                                                                         *)
(* A response that a panic has cut is no longer compared with what goes    *)
(* down: PanicInv bounds it, from the last moment before.                  *)
(***************************************************************************)
EXTENDS RequestChain, FiniteSetTheorems, TLAPS

LEMMA ChainInitInv == Init => ChainInv
<1> SUFFICES ASSUME Init PROVE ChainInv
  OBVIOUS
<1> USE DEF Init
<1>1. TypeOK
  <2>1. \A r \in Requests : calls[r] \in Seq(({"WriteHeader"} \X Statuses) \cup ({"Write"} \X Sizes))
    OBVIOUS
  <2>2. /\ layer \in [Requests -> NoCall .. Monitor]
        /\ statusCode \in [Requests -> [Layers -> Codes]]
        /\ contentLength \in [Requests -> [Layers -> Nat]]
    BY DEF NoCall, Codes, Layers, Monitor
  <2>3. /\ sent \in [Requests -> [status : Codes, bytes : Nat]]
        /\ span \in [Requests -> Codes \cup {NoCall}]
        /\ logged \in [Requests -> [status : Codes \cup {NoCall}, length : Nat,
                                    id : {"none", "given", "fresh"}]]
        /\ counted \in [Requests -> [status : Codes \cup {NoCall}, length : Nat]]
        /\ processed \in [Codes -> Nat]
    BY DEF Codes
  <2>4. QED
    BY <2>1, <2>2, <2>3 DEF TypeOK
<1>2. {r \in Requests : pc[r] # "new"} = {} /\ Counted = {}
  BY DEF Counted
<1>3. \A c \in Codes : {r \in Counted : counted[r].status = c} = {}
  BY <1>2
<1>4. IsFiniteSet({r \in Requests : pc[r] # "new"}) /\ CountersMatch
  BY <1>2, <1>3, FS_EmptySet, Zenon DEF CountersMatch
<1>5. ControlInv /\ IdInv /\ RecordInv /\ VerdictInv
  BY <1>2 DEF ControlInv, IdInv, RecordInv, VerdictInv
<1>6. LayersInv
  BY DEF LayersInv, Top, Layers, Monitor, Logger, NoCall
<1>7. ResponseInv /\ PanicInv
  BY DEF ResponseInv, PanicInv, BytesMatch, DataNoted, FirstCounts, Passed, Layers, Metrics, NoCall
<1>8. QED
  BY <1>1, <1>4, <1>5, <1>6, <1>7 DEF ChainInv

LEMMA StatusCodeType ==
  ASSUME TypeOK, NEW r \in Requests, NEW l \in Layers
  PROVE  StatusCode(r, l) \in Codes
BY DEF TypeOK, StatusCode, Codes

CallValues == ({"WriteHeader"} \X Statuses) \cup ({"Write"} \X Sizes)

\* A call of the handler.
LEMMA LastCall ==
  ASSUME TypeOK, NEW r \in Requests, calls[r] # << >>
  PROVE  /\ Last(calls[r]) = calls[r][Len(calls[r])]
         /\ Last(calls[r]) \in CallValues
         /\ Len(calls[r]) \in Nat \ {0}
BY DEF TypeOK, Last, CallValues

LEMMA TypeArrive ==
  ASSUME TypeOK, NEW r \in Requests, NEW id \in CallerIds(r), Arrive(r, id)
  PROVE  TypeOK'
<1>1. id \in {"none", "given"}
  BY DEF CallerIds
<1>2. method' \in [Requests -> {"GET", "HEAD"}]
  BY DEF TypeOK, Arrive, Methods
<1>3. QED
  BY <1>1, <1>2 DEF TypeOK, Arrive, FromRequest, writers, records

LEMMA TypeHystrix ==
  ASSUME TypeOK, NEW r \in Requests, Hystrix(r)
  PROVE  TypeOK'
<1> USE DEF writers, ids, records, counters
<1>1. CASE Admit(r)
  BY <1>1 DEF TypeOK, Admit
<1>2. CASE Reject(r)
  BY <1>2 DEF TypeOK, Reject
<1>3. CASE Timeout(r)
  BY <1>3 DEF TypeOK, Timeout
<1>4. QED
  BY <1>1, <1>2, <1>3 DEF Hystrix

LEMMA TypeHandler ==
  ASSUME TypeOK, NEW r \in Requests, Handler(r), ControlInv
  PROVE  TypeOK'
<1> USE DEF ids, records, counters, writers
<1>1. ASSUME NEW call \in CallValues, Call(r, call)
      PROVE  TypeOK'
  <2>1. calls' \in [Requests -> Seq(({"WriteHeader"} \X Statuses) \cup ({"Write"} \X Sizes))]
    BY <1>1 DEF TypeOK, Call, CallValues
  <2>2. layer' \in [Requests -> NoCall .. Monitor]
    BY <1>1 DEF TypeOK, Call, Top, NoCall, Monitor, Logger
  <2>3. QED
    BY <1>1, <2>1, <2>2 DEF TypeOK, Call
<1>2. CASE Descend(r)
  <2>1. layer[r] \in Layers /\ Last(calls[r]) \in CallValues
    BY <1>2, LastCall DEF Descend, ControlInv, Layers, NoCall
  <2>2. Last(calls[r])[1] = "WriteHeader" => Last(calls[r])[2] \in Codes
    BY <2>1 DEF CallValues, Codes
  <2>3. Last(calls[r])[1] = "Write" => Last(calls[r])[2] \in Nat
    BY <2>1, StatusAssumption DEF CallValues
  <2>4. /\ statusCode' \in [Requests -> [Layers -> Codes]]
        /\ contentLength' \in [Requests -> [Layers -> Nat]]
    <3> DEFINE l == layer[r]
               call == Last(calls[r])
    <3>1. CASE call[1] = "WriteHeader"
      <4>1. [statusCode[r] EXCEPT ![l] = call[2]] \in [Layers -> Codes]
        BY <2>1, <2>2, <3>1 DEF TypeOK
      <4>2. statusCode' = [statusCode EXCEPT ![r] = [statusCode[r] EXCEPT ![l] = call[2]]]
            /\ UNCHANGED contentLength
        BY <1>2, <3>1 DEF Descend, Pass
      <4>3. QED
        BY <4>1, <4>2 DEF TypeOK
    <3>2. CASE call[1] = "Write"
      <4>1. [contentLength[r] EXCEPT ![l] = @ + call[2]] \in [Layers -> Nat]
        BY <2>1, <2>3, <3>2 DEF TypeOK
      <4>2. contentLength' = [contentLength EXCEPT ![r] = [contentLength[r] EXCEPT ![l] = @ + call[2]]]
            /\ UNCHANGED statusCode
        BY <1>2, <3>2 DEF Descend, Pass
      <4>3. QED
        BY <4>1, <4>2 DEF TypeOK
    <3>3. QED
      BY <1>2, <3>1, <3>2 DEF Descend, Pass
  <2>5. layer' \in [Requests -> NoCall .. Monitor]
    BY <1>2, <2>1 DEF TypeOK, Descend, NoCall, Layers, Monitor
  <2>6. QED
    BY <1>2, <2>4, <2>5 DEF TypeOK, Descend
<1>3. CASE Base(r)
  <2>1. Last(calls[r]) \in CallValues
    BY <1>3, LastCall DEF Base, ControlInv, NoCall
  <2>2. /\ Last(calls[r])[1] = "WriteHeader" => Last(calls[r])[2] \in Codes
        /\ Last(calls[r])[1] # "WriteHeader" => Last(calls[r])[2] \in Nat
        /\ OK \in Codes
    BY <2>1, StatusAssumption DEF CallValues, Codes
  <2>3. sent' \in [Requests -> [status : Codes, bytes : Nat]]
    <3>1. sent[r].status \in Codes /\ sent[r].bytes \in Nat
      BY DEF TypeOK
    <3>2. CASE UNCHANGED sent
      BY <3>2 DEF TypeOK
    <3>3. CASE Respond(r, Last(calls[r]))
      <4> DEFINE call == Last(calls[r])
                 first == IF call[1] = "WriteHeader" THEN call[2] ELSE OK
                 status == IF sent[r].status = 0 THEN first ELSE sent[r].status
                 body == IF call[1] = "WriteHeader" \/ method[r] = "HEAD" \/ status \in NoBody
                         THEN 0 ELSE call[2]
      <4>1. status \in Codes /\ sent[r].bytes + body \in Nat
        BY <2>2, <3>1
      <4>2. sent' = [sent EXCEPT ![r] = [status |-> status, bytes |-> sent[r].bytes + body]]
        BY <3>3 DEF Respond
      <4>3. QED
        BY <4>1, <4>2 DEF TypeOK
    <3>4. QED
      BY <1>3, <3>2, <3>3 DEF Base
  <2>4. layer' \in [Requests -> NoCall .. Monitor]
    BY <1>3 DEF TypeOK, Base, NoCall, Monitor
  <2>5. QED
    BY <1>3, <2>3, <2>4 DEF TypeOK, Base
<1>4. CASE Return(r)
  BY <1>4 DEF TypeOK, Return
<1>5. CASE Panic(r)
  BY <1>5 DEF TypeOK, Panic
<1>6. QED
  BY <1>1, <1>2, <1>3, <1>4, <1>5 DEF Handler, CallValues

LEMMA TypeWayOut ==
  ASSUME TypeOK, NEW r \in Requests, WayOut(r)
  PROVE  TypeOK'
<1> USE DEF ids, counters, writers, handlerVars
<1>1. /\ StatusCode(r, Logger) \in Codes /\ StatusCode(r, Metrics) \in Codes
      /\ contentLength[r][Logger] \in Nat /\ contentLength[r][Metrics] \in Nat
  <2>1. Logger \in Layers /\ Metrics \in Layers
    BY DEF Logger, Metrics, Layers
  <2>2. StatusCode(r, Logger) \in Codes /\ StatusCode(r, Metrics) \in Codes
    BY <2>1, StatusCodeType
  <2>3. QED
    BY <2>1, <2>2 DEF TypeOK
<1>2. CASE RecordSpan(r)
  BY <1>1, <1>2 DEF TypeOK, RecordSpan
<1>3. CASE RecordLog(r)
  <2>1. LoggedId(r) \in {"none", "given", "fresh"}
    BY DEF TypeOK, LoggedId
  <2>2. logged' \in [Requests -> [status : Codes \cup {NoCall}, length : Nat,
                                 id : {"none", "given", "fresh"}]]
    BY <1>1, <1>3, <2>1 DEF TypeOK, RecordLog
  <2>3. QED
    BY <1>3, <2>2 DEF TypeOK, RecordLog
<1>4. CASE RecordMetrics(r)
  <2>1. counted' \in [Requests -> [status : Codes \cup {NoCall}, length : Nat]]
    BY <1>1, <1>4 DEF TypeOK, RecordMetrics, Count
  <2>2. processed' \in [Codes -> Nat]
    BY <1>1, <1>4 DEF TypeOK, RecordMetrics, Count
  <2>3. QED
    BY <1>4, <2>1, <2>2 DEF TypeOK, RecordMetrics
<1>5. CASE Finish(r)
  <2>1. sent[r].status \in Codes /\ sent[r].bytes \in Nat /\ 0 \in Codes /\ OK \in Codes
    BY DEF TypeOK, Codes
  <2>2. sent' \in [Requests -> [status : Codes, bytes : Nat]]
    <3>1. ASSUME NEW response \in Flushed(r), sent' = [sent EXCEPT ![r] = response]
          PROVE  sent' \in [Requests -> [status : Codes, bytes : Nat]]
      <4>1. response \in [status : Codes, bytes : Nat]
        BY <2>1, <3>1 DEF Flushed
      <4>2. QED
        BY <3>1, <4>1 DEF TypeOK
    <3>2. ASSUME sent' = [sent EXCEPT ![r].status = IF @ = 0 THEN OK ELSE @]
          PROVE  sent' \in [Requests -> [status : Codes, bytes : Nat]]
      <4>1. PICK status \in Codes : sent' = [sent EXCEPT ![r].status = status]
        BY <2>1, <3>2
      <4>2. QED
        BY <4>1 DEF TypeOK
    <3>3. QED
      BY <1>5, <3>1, <3>2 DEF Finish
  <2>3. QED
    BY <1>5, <2>2 DEF TypeOK, Finish, records
<1>6. QED
  BY <1>2, <1>3, <1>4, <1>5 DEF WayOut

LEMMA TypeNext ==
  ASSUME TypeOK, ControlInv, [Next]_vars
  PROVE  TypeOK'
<1>1. CASE UNCHANGED vars
  BY <1>1 DEF TypeOK, vars, handlerVars, writers, ids, records, counters
<1>2. CASE Idle
  BY <1>1, <1>2 DEF Idle
<1>3. QED
  BY <1>1, <1>2, TypeArrive, TypeHandler, TypeHystrix, TypeWayOut DEF Next

----------------------------------------------------------------------------
\* Control: what a step changes it changes for one request.

LEMMA ControlNext ==
  ASSUME TypeOK, ControlInv, [Next]_vars
  PROVE  ControlInv'
<1> USE DEF TypeOK
<1>1. CASE UNCHANGED vars \/ Idle
  BY <1>1 DEF Idle, ControlInv, vars, handlerVars, Top
<1>2. ASSUME NEW r \in Requests, NEW id \in CallerIds(r), Arrive(r, id)
      PROVE  ControlInv'
  BY <1>2 DEF Arrive, ControlInv, Top
<1>3. ASSUME NEW r \in Requests, Hystrix(r)
      PROVE  ControlInv'
  <2>1. CASE Admit(r)
    BY <2>1 DEF Admit, ControlInv, Top
  <2>2. CASE Reject(r)
    BY <2>2 DEF Reject, ControlInv, Top
  <2>3. CASE Timeout(r)
    BY <2>3 DEF Timeout, ControlInv, Top
  <2>4. QED
    BY <1>3, <2>1, <2>2, <2>3 DEF Hystrix
<1>4. ASSUME NEW r \in Requests, Handler(r)
      PROVE  ControlInv'
  <2>1. ASSUME NEW call \in CallValues, Call(r, call)
        PROVE  ControlInv'
    <3>1. /\ calls' = [calls EXCEPT ![r] = Append(calls[r], call)]
          /\ Append(calls[r], call) # << >>
      BY <2>1 DEF Call, CallValues
    <3>2. layer'[r] = Top(r) /\ Top(r) <= Top(r) /\ handler[r] = "running"
      BY <2>1 DEF Call, Top, Monitor, Logger
    <3>3. QED
      BY <2>1, <3>1, <3>2 DEF Call, ControlInv
  <2>2. CASE Descend(r)
    <3>1. layer[r] \in Layers /\ layer[r] # NoCall /\ layer[r] <= Top(r) /\ Top(r) \in Int
      BY <2>2 DEF Descend, ControlInv, Top, NoCall, Layers, Monitor, Logger
    <3>2. layer'[r] <= Top(r)
      BY <2>2, <3>1 DEF Descend, Layers
    <3>3. QED
      BY <2>2, <3>1, <3>2 DEF Descend, ControlInv
  <2>3. CASE Base(r)
    BY <2>3 DEF Base, ControlInv, Top, NoCall
  <2>4. CASE Return(r)
    BY <2>4 DEF Return, ControlInv, Top
  <2>5. CASE Panic(r)
    BY <2>5 DEF Panic, ControlInv, Top
  <2>6. QED
    BY <1>4, <2>1, <2>2, <2>3, <2>4, <2>5 DEF Handler, CallValues
<1>5. ASSUME NEW r \in Requests, WayOut(r)
      PROVE  ControlInv'
  BY <1>5 DEF WayOut, RecordSpan, RecordLog, RecordMetrics, Finish, ControlInv, Top, handlerVars
<1>6. QED
  BY <1>1, <1>2, <1>3, <1>4, <1>5 DEF Next

----------------------------------------------------------------------------
\* Counting.

LEMMA OneMore ==
  ASSUME NEW S, IsFiniteSet(S), NEW x, x \notin S
  PROVE  IsFiniteSet(S \cup {x}) /\ Cardinality(S \cup {x}) = Cardinality(S) + 1
BY FS_AddElement

Arrived == {r \in Requests : pc[r] # "new"}

Under(c) == {r \in Counted : counted[r].status = c}

LEMMA CountNext ==
  ASSUME TypeOK, IsFiniteSet(Arrived), CountersMatch, ControlInv, [Next]_vars
  PROVE  IsFiniteSet(Arrived') /\ CountersMatch'
<1>1. ASSUME UNCHANGED <<received, processed, counted>>, Arrived' = Arrived, Counted' = Counted
      PROVE  IsFiniteSet(Arrived') /\ CountersMatch'
  <2>1. \A c \in Codes : {r \in Counted' : counted'[r].status = c} = {r \in Counted : counted[r].status = c}
    BY <1>1
  <2>2. QED
    BY <1>1, <2>1 DEF CountersMatch, Arrived
<1>2. CASE UNCHANGED vars \/ Idle
  BY <1>1, <1>2 DEF Idle, vars, records, counters, Arrived, Counted
<1>3. ASSUME NEW r \in Requests, NEW id \in CallerIds(r), Arrive(r, id)
      PROVE  IsFiniteSet(Arrived') /\ CountersMatch'
  <2>1. r \notin Arrived /\ Arrived' = Arrived \cup {r} /\ Counted' = Counted
    BY <1>3 DEF Arrive, Arrived, Counted, TypeOK
  <2>2. IsFiniteSet(Arrived') /\ Cardinality(Arrived') = Cardinality(Arrived) + 1
    BY <2>1, OneMore
  <2>3. received' = received + 1 /\ UNCHANGED <<processed, counted>>
    BY <1>3 DEF Arrive, records
  <2>4. received' = Cardinality(Arrived')
    BY <2>2, <2>3 DEF CountersMatch, Arrived
  <2>5. \A c \in Codes : processed'[c] = Cardinality({q \in Counted' : counted'[q].status = c})
    BY <2>1, <2>3 DEF CountersMatch
  <2>6. QED
    BY <2>2, <2>4, <2>5 DEF CountersMatch, Arrived
<1>4. ASSUME NEW r \in Requests, RecordMetrics(r)
      PROVE  IsFiniteSet(Arrived') /\ CountersMatch'
  <2> DEFINE code == StatusCode(r, Metrics)
  <2>1. /\ Arrived' = Arrived /\ r \notin Counted /\ Counted' = Counted \cup {r}
        /\ counted'[r].status = code /\ \A q \in Requests \ {r} : counted'[q] = counted[q]
        /\ processed' = [processed EXCEPT ![code] = @ + 1] /\ UNCHANGED received
    BY <1>4 DEF RecordMetrics, Count, Arrived, Counted, TypeOK
  <2>2. code \in Codes
    BY StatusCodeType DEF Metrics, Layers
  <2> HIDE DEF code
  <2>3. received' = Cardinality(Arrived')
    BY <2>1 DEF CountersMatch, Arrived
  <2>4. ASSUME NEW c \in Codes
        PROVE  processed'[c] = Cardinality(Under(c)')
    <3>1. Under(c) \subseteq Arrived /\ r \notin Under(c)
      BY <2>1 DEF Under, Arrived, Counted
    <3>2. IsFiniteSet(Under(c)) /\ processed[c] = Cardinality(Under(c))
      BY <3>1, FS_Subset DEF CountersMatch, Under
    <3>3. CASE c = code
      <4>1. Under(c)' = Under(c) \cup {r}
        BY <2>1, <3>3 DEF Under, Counted
      <4>2. Cardinality(Under(c) \cup {r}) = Cardinality(Under(c)) + 1
        BY <3>1, <3>2, OneMore
      <4>3. processed'[c] = processed[c] + 1
        BY <2>1, <2>2, <3>3 DEF TypeOK
      <4>4. QED
        BY <3>2, <4>1, <4>2, <4>3
    <3>4. CASE c # code
      <4>1. Under(c)' = Under(c)
        BY <2>1, <3>4 DEF Under, Counted
      <4>2. QED
        BY <2>1, <2>2, <3>2, <3>4, <4>1 DEF TypeOK
    <3>5. QED
      BY <3>3, <3>4
  <2>5. QED
    BY <2>1, <2>3, <2>4 DEF CountersMatch, Arrived, Under
<1>5. ASSUME NEW r \in Requests, Hystrix(r) \/ Handler(r) \/ RecordSpan(r) \/ RecordLog(r) \/ Finish(r)
      PROVE  IsFiniteSet(Arrived') /\ CountersMatch'
  <2>1. UNCHANGED <<received, processed, counted>>
    BY <1>5 DEF Hystrix, Admit, Reject, Timeout, Handler, Call, Descend, Base, Return, Panic,
                RecordSpan, RecordLog, Finish, records, counters
  <2>2. \/ UNCHANGED pc
        \/ /\ pc[r] = "handler" /\ pc' = [pc EXCEPT ![r] = "tracer"]
        \/ /\ pc[r] = "tracer" /\ pc' = [pc EXCEPT ![r] = "logger"]
        \/ /\ pc[r] = "logger" /\ pc' = [pc EXCEPT ![r] = "metrics"]
        \/ /\ pc[r] = "finish" /\ pc' = [pc EXCEPT ![r] = "finished"]
    <3>1. CASE Panic(r)
      BY <3>1 DEF Panic, TypeOK, ControlInv
    <3>2. CASE Return(r)
      BY <3>2 DEF Return, TypeOK
    <3>3. CASE Hystrix(r)
      BY <3>3 DEF Hystrix, Admit, Reject, Timeout, ControlInv
    <3>4. QED
      BY <1>5, <3>1, <3>2, <3>3 DEF Handler, Call, Descend, Base, RecordSpan, RecordLog, Finish
  <2>3. Arrived' = Arrived /\ Counted' = Counted
    BY <2>2 DEF Arrived, Counted, TypeOK
  <2>4. QED
    BY <1>1, <2>1, <2>3
<1>6. QED
  BY <1>2, <1>3, <1>4, <1>5 DEF Next, WayOut

----------------------------------------------------------------------------
\* The records.

LEMMA IdNext ==
  ASSUME TypeOK, ControlInv, IdInv, [Next]_vars
  PROVE  IdInv'
<1> USE DEF TypeOK
<1>1. CASE UNCHANGED vars \/ Idle
  BY <1>1 DEF Idle, IdInv, LoggedId, vars, records, ids
<1>2. ASSUME NEW r \in Requests, NEW id \in CallerIds(r), Arrive(r, id)
      PROVE  IdInv'
  <2>1. header[r] = "none"
    BY <1>2 DEF Arrive, IdInv
  <2>2. QED
    BY <1>2, <2>1 DEF Arrive, FromRequest, IdInv, LoggedId, records, CallerIds
<1>3. ASSUME NEW r \in Requests, Hystrix(r) \/ Handler(r)
      PROVE  IdInv'
  <2>1. UNCHANGED <<ids, records>>
    BY <1>3 DEF Hystrix, Admit, Reject, Timeout, Handler, Call, Descend, Base, Return, Panic
  <2>2. \A q \in Requests : pc'[q] = pc[q] \/ (pc'[q] = "tracer" /\ pc[q] # "new")
    BY <1>3 DEF Hystrix, Admit, Reject, Timeout, Handler, Call, Descend, Base, Return, Panic,
                ControlInv
  <2>3. QED
    BY <2>1, <2>2 DEF IdInv, LoggedId, ids, records
<1>4. ASSUME NEW r \in Requests, WayOut(r)
      PROVE  IdInv'
  <2>1. CASE RecordSpan(r)
    BY <2>1 DEF RecordSpan, IdInv, LoggedId, ids
  <2>2. CASE RecordLog(r)
    BY <2>2 DEF RecordLog, IdInv, LoggedId, ids
  <2>3. CASE RecordMetrics(r)
    BY <2>3 DEF RecordMetrics, IdInv, LoggedId, ids
  <2>4. CASE Finish(r)
    BY <2>4 DEF Finish, IdInv, LoggedId, ids, records
  <2>5. QED
    BY <1>4, <2>1, <2>2, <2>3, <2>4 DEF WayOut
<1>5. QED
  BY <1>1, <1>2, <1>3, <1>4 DEF Next

\* A call is under way only while the handler runs.
LEMMA Writing ==
  ASSUME ControlInv, NEW r \in Requests, layer[r] \in Layers \/ layer[r] = 0
  PROVE  handler[r] = "running" /\ calls[r] # << >> /\ layer[r] <= Top(r)
<1>1. layer[r] # NoCall
  BY DEF Layers, NoCall
<1>2. QED
  BY <1>1 DEF ControlInv

\* Only the handler's goroutine writes.
LEMMA Frozen ==
  ASSUME TypeOK, ControlInv, [Next]_vars, NEW r \in Requests, handler[r] # "running"
  PROVE  /\ statusCode'[r] = statusCode[r] /\ contentLength'[r] = contentLength[r]
         /\ calls'[r] = calls[r] /\ layer'[r] = layer[r] /\ layer[r] = NoCall
         /\ \A l \in Layers : StatusCode(r, l)' = StatusCode(r, l)
<1>1. layer[r] = NoCall /\ NoCall \notin Layers
  BY DEF ControlInv, NoCall, Layers
<1>2. ASSUME NEW q \in Requests, NEW call, Call(q, call)
      PROVE  q # r /\ UNCHANGED <<statusCode, contentLength>> /\ calls'[r] = calls[r] /\ layer'[r] = layer[r]
  BY <1>2 DEF Call, writers, TypeOK
<1>3. ASSUME NEW q \in Requests, Descend(q)
      PROVE  /\ q # r /\ statusCode'[r] = statusCode[r] /\ contentLength'[r] = contentLength[r]
             /\ calls'[r] = calls[r] /\ layer'[r] = layer[r]
  BY <1>1, <1>3 DEF Descend, Pass, TypeOK
<1>4. ASSUME NEW q \in Requests, Base(q)
      PROVE  q # r /\ UNCHANGED <<statusCode, contentLength>> /\ calls'[r] = calls[r] /\ layer'[r] = layer[r]
  BY <1>1, <1>4 DEF Base, TypeOK, NoCall
<1>5. /\ statusCode'[r] = statusCode[r] /\ contentLength'[r] = contentLength[r]
      /\ calls'[r] = calls[r] /\ layer'[r] = layer[r]
  <2>1. CASE UNCHANGED vars \/ Idle
    BY <2>1 DEF vars, Idle, writers, handlerVars
  <2>2. ASSUME NEW q \in Requests, NEW id \in CallerIds(q), Arrive(q, id)
        PROVE  UNCHANGED <<statusCode, contentLength, calls, layer>>
    BY <2>2 DEF Arrive, writers
  <2>3. ASSUME NEW q \in Requests, Hystrix(q) \/ Return(q) \/ Panic(q) \/ WayOut(q)
        PROVE  UNCHANGED <<statusCode, contentLength, calls, layer>>
    BY <2>3 DEF Hystrix, Admit, Reject, Timeout, Return, Panic, writers, handlerVars,
                WayOut, RecordSpan, RecordLog, RecordMetrics, Finish
  <2>4. QED
    BY <1>2, <1>3, <1>4, <2>1, <2>2, <2>3 DEF Next, Handler
<1>6. QED
  BY <1>1, <1>5 DEF StatusCode

LEMMA RecordNext ==
  ASSUME TypeOK, ControlInv, RecordInv, VerdictInv, [Next]_vars
  PROVE  RecordInv' /\ VerdictInv'
<1> SUFFICES ASSUME NEW q \in Requests PROVE RecordInv!(q)' /\ VerdictInv!(q)'
  BY DEF RecordInv, VerdictInv
<1> USE DEF TypeOK
<1>1. RecordInv!(q) /\ VerdictInv!(q)
  BY DEF RecordInv, VerdictInv
<1>2. ASSUME statusCode'[q] = statusCode[q], contentLength'[q] = contentLength[q],
             span'[q] = span[q], logged'[q] = logged[q], counted'[q] = counted[q],
             \/ pc'[q] = pc[q]
             \/ pc'[q] \in {"handler", "tracer"}
             \/ pc[q] = "finish" /\ pc'[q] = "finished",
             \/ verdict'[q] = verdict[q]
             \/ verdict'[q] \in {"rejected", "timeout"} /\ pc'[q] = "tracer"
      PROVE  RecordInv!(q)' /\ VerdictInv!(q)'
  BY <1>1, <1>2 DEF Counted, StatusCode
<1>3. CASE UNCHANGED vars \/ Idle
  BY <1>2, <1>3 DEF Idle, vars, writers, handlerVars, records
<1>4. ASSUME NEW r \in Requests, NEW id \in CallerIds(r), Arrive(r, id)
      PROVE  RecordInv!(q)' /\ VerdictInv!(q)'
  BY <1>2, <1>4 DEF Arrive, writers, records
<1>5. ASSUME NEW r \in Requests, Hystrix(r) \/ Panic(r) \/ Base(r) \/ \E call : Call(r, call)
      PROVE  RecordInv!(q)' /\ VerdictInv!(q)'
  BY <1>2, <1>5 DEF Hystrix, Admit, Reject, Timeout, Panic, Base, Call, writers, records
<1>6. ASSUME NEW r \in Requests, Descend(r)
      PROVE  RecordInv!(q)' /\ VerdictInv!(q)'
  <2>1. UNCHANGED <<pc, verdict, records>>
    BY <1>6 DEF Descend
  <2>2. CASE q = r
    <3>1. handler[r] = "running"
      BY <1>6, Writing DEF Descend
    <3>2. verdict[r] = "timeout" \/ (pc[r] = "handler" /\ verdict[r] = "none")
      BY <3>1 DEF ControlInv
    <3>3. QED
      BY <2>1, <2>2, <3>2 DEF Counted
  <2>3. CASE q # r
    <3>1. statusCode'[q] = statusCode[q] /\ contentLength'[q] = contentLength[q]
      BY <1>6, <2>3 DEF Descend, Pass
    <3>2. QED
      BY <1>2, <2>1, <3>1 DEF records
  <2>4. QED
    BY <2>2, <2>3
<1>7. ASSUME NEW r \in Requests, Return(r)
      PROVE  RecordInv!(q)' /\ VerdictInv!(q)'
  <2>1. UNCHANGED <<statusCode, contentLength, records>>
    BY <1>7 DEF Return, writers
  <2>2. CASE q = r
    <3>1. pc'[r] = "tracer" \/ verdict'[r] = "timeout"
      BY <1>7 DEF Return, ControlInv
    <3>2. verdict'[r] \in {"success", "failure"} =>
            (verdict'[r] = "failure" <=> Failure(StatusCode(r, Monitor)))
      BY <1>7 DEF Return, ControlInv
    <3>3. QED
      BY <2>1, <2>2, <3>1, <3>2 DEF Counted, StatusCode
  <2>3. CASE q # r
    BY <1>2, <1>7, <2>1, <2>3 DEF Return, records
  <2>4. QED
    BY <2>2, <2>3
<1>8. ASSUME NEW r \in Requests, WayOut(r)
      PROVE  RecordInv!(q)' /\ VerdictInv!(q)'
  <2>1. UNCHANGED <<statusCode, contentLength, verdict>>
    BY <1>8 DEF WayOut, RecordSpan, RecordLog, RecordMetrics, Finish, writers, handlerVars
  <2>2. VerdictInv!(q)'
    BY <1>1, <2>1 DEF StatusCode
  <2>3. CASE RecordSpan(r)
    BY <1>1, <2>1, <2>2, <2>3 DEF RecordSpan, Counted, StatusCode
  <2>4. CASE RecordLog(r)
    BY <1>1, <2>1, <2>2, <2>4 DEF RecordLog, Counted, StatusCode
  <2>5. CASE RecordMetrics(r)
    BY <1>1, <2>1, <2>2, <2>5 DEF RecordMetrics, Count, Counted, StatusCode
  <2>6. CASE Finish(r)
    BY <1>2, <2>1, <2>6 DEF Finish, records
  <2>7. QED
    BY <1>8, <2>3, <2>4, <2>5, <2>6 DEF WayOut
<1>9. QED
  BY <1>3, <1>4, <1>5, <1>6, <1>7, <1>8 DEF Next, Handler

----------------------------------------------------------------------------
\* The writers and the response.

\* A step that leaves writers and calls alone leaves the layers as they are.
LEMMA LayersNext ==
  ASSUME TypeOK, ControlInv, LayersInv, [Next]_vars
  PROVE  LayersInv'
<1> SUFFICES ASSUME NEW q \in Requests, NEW l \in 1 .. Top(q) - 1 PROVE LayersInv!(q)!(l)'
  BY DEF LayersInv, Top
<1> USE DEF TypeOK
<1>1. LayersInv!(q)!(l) /\ l \in Layers /\ l + 1 \in Layers /\ l < Top(q)
  BY DEF LayersInv, Top, Layers, Monitor, Logger
<1>2. CASE handler[q] # "running"
  BY <1>1, <1>2, Frozen DEF Layers, NoCall
<1>3. CASE handler[q] = "running"
  <2>1. ASSUME statusCode'[q] = statusCode[q], contentLength'[q] = contentLength[q],
               calls'[q] = calls[q], layer'[q] = layer[q]
        PROVE  LayersInv!(q)!(l)'
    BY <1>1, <2>1
  <2>2. ASSUME NEW call, Call(q, call)
        PROVE  LayersInv!(q)!(l)'
    <3>1. layer[q] # l /\ layer'[q] # l /\ UNCHANGED <<statusCode, contentLength>>
      BY <1>1, <2>2 DEF Call, NoCall, writers, Layers
    <3>2. QED
      BY <1>1, <3>1
  <2>3. CASE Base(q)
    <3>1. layer[q] # l /\ layer'[q] # l /\ UNCHANGED <<statusCode, contentLength>>
      BY <1>1, <2>3 DEF Base, NoCall, Layers
    <3>2. QED
      BY <1>1, <3>1
  <2>4. CASE Descend(q)
    <3> DEFINE m == layer[q]
               call == Last(calls[q])
    <3>1. m \in Layers /\ layer'[q] = m - 1 /\ UNCHANGED calls
      BY <2>4 DEF Descend
    <3>2. call \in CallValues
      <4>1. calls[q] # << >>
        BY <3>1, Writing
      <4>2. QED
        BY <4>1, LastCall
    <3>3. /\ statusCode'[q][m] = Status(call, statusCode[q][m])
          /\ \A k \in Layers \ {m} : statusCode'[q][k] = statusCode[q][k]
          /\ \A k \in Layers \ {m} : contentLength'[q][k] = contentLength[q][k]
      BY <2>4, <3>1 DEF Descend, Pass, Status
    <3>4. contentLength'[q][m] = contentLength[q][m] + Data(call)
      BY <2>4, <3>1, <3>2 DEF Descend, Pass, Data, CallValues
    <3>5. CASE l = m
      BY <1>1, <3>1, <3>3, <3>4, <3>5 DEF Layers, Status, Data
    <3>6. CASE l + 1 = m
      BY <1>1, <3>1, <3>3, <3>4, <3>6 DEF Layers, Status, Data
    <3>7. CASE l # m /\ l + 1 # m
      BY <1>1, <3>1, <3>3, <3>7 DEF Layers
    <3>8. QED
      BY <3>5, <3>6, <3>7
  <2>5. ASSUME NEW r \in Requests \ {q}, Handler(r)
        PROVE  LayersInv!(q)!(l)'
    <3>1. statusCode'[q] = statusCode[q] /\ contentLength'[q] = contentLength[q]
      BY <2>5 DEF Handler, Call, Descend, Pass, Base, Return, Panic, writers
    <3>2. calls'[q] = calls[q] /\ layer'[q] = layer[q]
      BY <2>5 DEF Handler, Call, Descend, Base, Return, Panic
    <3>3. QED
      BY <2>1, <3>1, <3>2
  <2>6. CASE Return(q) \/ Panic(q)
    BY <2>1, <2>6 DEF Return, Panic, writers
  <2>7. ASSUME NEW r \in Requests, Hystrix(r) \/ WayOut(r) \/ \E id \in CallerIds(r) : Arrive(r, id)
        PROVE  LayersInv!(q)!(l)'
    BY <2>1, <2>7 DEF Hystrix, Admit, Reject, Timeout, Arrive, writers, handlerVars,
                      WayOut, RecordSpan, RecordLog, RecordMetrics, Finish
  <2>8. CASE UNCHANGED vars \/ Idle
    BY <2>1, <2>8 DEF Idle, vars, writers, handlerVars
  <2>9. ASSUME Handler(q)
        PROVE  LayersInv!(q)!(l)'
    BY <2>2, <2>3, <2>4, <2>6, <2>9 DEF Handler
  <2>10. QED
    BY <2>5, <2>7, <2>8, <2>9 DEF Next
<1>4. QED
  BY <1>2, <1>3

LEMMA CallData ==
  ASSUME NEW call \in CallValues
  PROVE  /\ call[1] = "WriteHeader" => Data(call) = 0 /\ call[2] \in Statuses
         /\ call[1] # "WriteHeader" => call[1] = "Write" /\ Data(call) = call[2]
         /\ Data(call) \in Nat
<1>1. CASE call \in {"WriteHeader"} \X Statuses
  BY <1>1 DEF Data
<1>2. CASE call \in {"Write"} \X Sizes
  BY <1>2, StatusAssumption DEF Data
<1>3. QED
  BY <1>1, <1>2 DEF CallValues

\* What the calls' sequence tells of the first and the last.
LEMMA FirstAndLast ==
  ASSUME TypeOK, NEW q \in Requests, calls[q] # << >>
  PROVE  /\ Len(calls[q]) \in Nat \ {0} /\ Last(calls[q]) = calls[q][Len(calls[q])]
         /\ \A i \in 1 .. Len(calls[q]) : calls[q][i] \in CallValues
         /\ FirstStatus(q) # 0 <=> calls[q][1][1] = "WriteHeader"
         /\ Len(calls[q]) = 1 => Status(Last(calls[q]), 0) = FirstStatus(q)
<1>1. Len(calls[q]) \in Nat \ {0} /\ Last(calls[q]) = calls[q][Len(calls[q])]
  BY LastCall
<1>2. \A i \in 1 .. Len(calls[q]) : calls[q][i] \in CallValues
  BY <1>1 DEF TypeOK, CallValues
<1>3. calls[q][1] \in CallValues
  BY <1>1, <1>2
<1>4. FirstStatus(q) # 0 <=> calls[q][1][1] = "WriteHeader"
  BY <1>3, StatusAssumption DEF FirstStatus, CallValues
<1>5. Len(calls[q]) = 1 => Status(Last(calls[q]), 0) = FirstStatus(q)
  BY <1>1 DEF FirstStatus, Status
<1>6. QED
  BY <1>1, <1>2, <1>4, <1>5

LEMMA DescendResponse ==
  ASSUME TypeOK, ControlInv, NEW q \in Requests, Descend(q),
         BytesMatch(q), DataNoted(q), FirstCounts(q)
  PROVE  BytesMatch(q)' /\ DataNoted(q)' /\ FirstCounts(q)'
<1> DEFINE m == layer[q]
           n == Len(calls[q])
           call == Last(calls[q])
<1>1. /\ m \in Layers /\ layer'[q] = m - 1
      /\ UNCHANGED <<calls, sent, method, pc>> /\ Metrics \in Layers
  BY DEF Descend, TypeOK, Layers, Metrics
<1>2. calls[q] # << >>
  BY <1>1, Writing
<1>3. n \in Nat \ {0} /\ call = calls[q][n] /\ call \in CallValues
  BY <1>2, FirstAndLast
<1>4. statusCode'[q][Metrics] = IF m = Metrics THEN Status(call, statusCode[q][Metrics])
                                               ELSE statusCode[q][Metrics]
  BY <1>1 DEF Descend, Pass, Status, TypeOK
<1>5. contentLength'[q][Metrics] = contentLength[q][Metrics] + IF m = Metrics THEN Data(call) ELSE 0
  <2>1. contentLength[q][Metrics] \in Nat
    BY <1>1 DEF TypeOK
  <2>2. QED
    BY <1>1, <1>3, <2>1 DEF Descend, Pass, Data, TypeOK, CallValues
<1>6. /\ Passed(q, Metrics) = n - 1
      /\ Passed(q, Metrics)' = IF m = Metrics THEN n ELSE n - 1
      /\ Passed(q, 0)' = n - 1 /\ Passed(q, 0) = n - 1
  BY <1>1, <1>3 DEF Passed, Layers, Metrics
<1>7. Data(call) \in Nat /\ contentLength[q][Metrics] \in Nat /\ sent[q].bytes \in Nat
  BY <1>1, <1>3, CallData DEF TypeOK
<1>8. BytesMatch(q)'
  BY <1>1, <1>5, <1>7 DEF BytesMatch, BodyAllowed, Layers, Metrics
<1>9. DataNoted(q)'
  <2> SUFFICES ASSUME NEW i \in 1 .. Passed(q, Metrics)', Data(calls[q][i]) > 0
               PROVE  contentLength'[q][Metrics] > 0
    BY <1>1 DEF DataNoted, Data
  <2>1. CASE i \in 1 .. n - 1
    BY <1>5, <1>6, <1>7, <2>1 DEF DataNoted
  <2>2. CASE i = n
    BY <1>3, <1>5, <1>6, <1>7, <2>2
  <2>3. QED
    BY <1>3, <1>6, <2>1, <2>2
<1>10. FirstCounts(q)'
  <2> SUFFICES ASSUME NoLateHeader(q) PROVE FirstCounts(q)'
    BY <1>1 DEF FirstCounts, NoLateHeader
  <2>1. /\ statusCode[q][Metrics] = IF n - 1 = 0 THEN 0 ELSE FirstStatus(q)
        /\ IF n - 1 = 0
           THEN sent[q].status \in {0, OK} /\ (sent[q].status # 0 => pc[q] = "finished")
           ELSE sent[q].status = IF FirstStatus(q) # 0 THEN FirstStatus(q) ELSE OK
    BY <1>6 DEF FirstCounts
  <2>2. statusCode'[q][Metrics] = IF Passed(q, Metrics)' = 0 THEN 0 ELSE FirstStatus(q)
    <3>1. CASE m = Metrics
      <4>1. n > 1 => call[1] = "Write"
        BY <1>3 DEF NoLateHeader
      <4>2. Status(call, statusCode[q][Metrics]) = FirstStatus(q)
        <5>1. CASE n = 1
          BY <1>2, <2>1, <5>1, FirstAndLast
        <5>2. CASE n # 1
          <6>1. n > 1 /\ n - 1 # 0
            <7> HIDE DEF n
            <7>1. n \in Nat \ {0}
              BY <1>3
            <7>2. QED
              BY <5>2, <7>1
          <6>2. call[1] # "WriteHeader"
            BY <4>1, <6>1
          <6>3. statusCode[q][Metrics] = FirstStatus(q)
            BY <2>1, <6>1
          <6>4. QED
            BY <6>2, <6>3 DEF Status
        <5>3. QED
          BY <5>1, <5>2
      <4>3. QED
        BY <1>3, <1>4, <1>6, <3>1, <4>2
    <3>2. CASE m # Metrics
      BY <1>4, <1>6, <2>1, <3>2
    <3>3. QED
      BY <3>1, <3>2
  <2>3. QED
    BY <1>1, <1>6, <2>1, <2>2 DEF FirstCounts, FirstStatus
<1>11. QED
  BY <1>8, <1>9, <1>10

LEMMA BaseResponse ==
  ASSUME TypeOK, ControlInv, NEW q \in Requests, Base(q), pc[q] # "finished",
         BytesMatch(q), DataNoted(q), FirstCounts(q)
  PROVE  BytesMatch(q)' /\ DataNoted(q)' /\ FirstCounts(q)'
<1> DEFINE n == Len(calls[q])
           call == Last(calls[q])
           first == IF call[1] = "WriteHeader" THEN call[2] ELSE OK
           status == IF sent[q].status = 0 THEN first ELSE sent[q].status
           body == IF call[1] = "WriteHeader" \/ method[q] = "HEAD" \/ status \in NoBody
                   THEN 0 ELSE call[2]
<1>1. /\ layer[q] = 0 /\ layer'[q] = NoCall
      /\ UNCHANGED <<calls, statusCode, contentLength, method, pc>>
      /\ sent'[q] = [status |-> status, bytes |-> sent[q].bytes + body]
  BY DEF Base, Respond, TypeOK
<1>2. calls[q] # << >>
  BY <1>1, Writing
<1>3. n \in Nat \ {0} /\ call = calls[q][n] /\ call \in CallValues
  BY <1>2, FirstAndLast
<1>4. /\ Passed(q, Metrics) = n /\ Passed(q, Metrics)' = n
      /\ Passed(q, 0) = n - 1 /\ Passed(q, 0)' = n
  BY <1>1, <1>3 DEF Passed, Metrics, NoCall
<1>5. BytesMatch(q)'
  <2>1. layer'[q] # 0 /\ sent'[q].status = status /\ sent'[q].bytes = sent[q].bytes + body
    BY <1>1 DEF NoCall
  <2>2. body \in Nat /\ sent[q].bytes \in Nat /\ Data(call) \in Nat
    BY <1>3, CallData DEF TypeOK
  <2>3. status # 0
    <3>1. first # 0
      <4>1. call[1] = "WriteHeader" => call[2] \in 200 .. 599
        BY <1>3, CallData, StatusAssumption
      <4>2. QED
        BY <4>1 DEF OK
    <3>2. QED
      BY <3>1
  <2>4. CASE method[q] # "HEAD" /\ status \notin NoBody
    <3>1. BodyAllowed(q)
      BY <2>4 DEF BodyAllowed, NoBody
    <3>2. body = Data(call)
      BY <1>3, <2>4 DEF Data, CallValues
    <3>3. contentLength[q][Metrics] = sent[q].bytes + body
      BY <1>1, <3>1, <3>2 DEF BytesMatch
    <3>4. QED
      BY <1>1, <2>1, <2>2, <2>3, <2>4, <3>3 DEF BytesMatch, BodyAllowed
  <2>5. CASE ~(method[q] # "HEAD" /\ status \notin NoBody)
    <3>1. body = 0
      BY <2>5
    <3>2. sent[q].bytes = 0
      BY <2>5 DEF BytesMatch, BodyAllowed
    <3>3. QED
      BY <1>1, <2>1, <2>2, <2>3, <2>5, <3>1, <3>2 DEF BytesMatch, BodyAllowed
  <2>6. QED
    BY <2>4, <2>5
<1>6. DataNoted(q)'
  BY <1>1, <1>4 DEF DataNoted, Data
<1>7. FirstCounts(q)'
  <2> SUFFICES ASSUME NoLateHeader(q) PROVE FirstCounts(q)'
    BY <1>1 DEF FirstCounts, NoLateHeader
  <2>1. statusCode[q][Metrics] = FirstStatus(q)
    BY <1>3, <1>4 DEF FirstCounts
  <2>2. status = IF FirstStatus(q) # 0 THEN FirstStatus(q) ELSE OK
    <3>1. CASE n = 1
      <4>1. sent[q].status = 0
        BY <1>4, <3>1 DEF FirstCounts
      <4>2. QED
        BY <1>2, <1>3, <3>1, <4>1, FirstAndLast DEF FirstStatus
    <3>2. CASE n # 1
      <4>1. sent[q].status = IF FirstStatus(q) # 0 THEN FirstStatus(q) ELSE OK
        <5>1. Passed(q, 0) # 0
          <6> HIDE DEF n
          <6>1. n - 1 # 0
            BY <1>3, <3>2
          <6>2. QED
            BY <1>4, <6>1
        <5>2. QED
          BY <5>1 DEF FirstCounts
      <4>2. sent[q].status # 0
        BY <4>1 DEF OK
      <4>3. QED
        BY <4>1, <4>2
    <3>3. QED
      BY <3>1, <3>2
  <2>3. QED
    BY <1>1, <1>3, <1>4, <2>1, <2>2 DEF FirstCounts, FirstStatus
<1>8. QED
  BY <1>5, <1>6, <1>7

\* The other steps, which touch neither a call under way nor a writer.
LEMMA QuietResponse ==
  ASSUME TypeOK, NEW q \in Requests,
         BytesMatch(q), DataNoted(q), FirstCounts(q),
         statusCode'[q] = statusCode[q], contentLength'[q] = contentLength[q],
         calls'[q] = calls[q], layer'[q] = layer[q],
         method'[q] = method[q] \/ (method'[q] = "HEAD" /\ sent[q].status = 0),
         \/ sent'[q] = sent[q]
         \/ /\ pc'[q] = "finished" /\ sent[q].status = 0
            /\ sent'[q].status = OK /\ sent'[q].bytes = sent[q].bytes,
         pc[q] = "finished" => pc'[q] = "finished"
  PROVE  BytesMatch(q)' /\ DataNoted(q)' /\ FirstCounts(q)'
<1>1. /\ Passed(q, Metrics)' = Passed(q, Metrics) /\ Passed(q, 0)' = Passed(q, 0)
      /\ FirstStatus(q)' = FirstStatus(q) /\ NoLateHeader(q)' <=> NoLateHeader(q)
  BY DEF Passed, FirstStatus, NoLateHeader
<1>2. sent[q].bytes \in Nat /\ sent'[q].bytes = sent[q].bytes
  BY DEF TypeOK
<1>3. BytesMatch(q)'
  <2>1. sent[q].status = 0 => sent[q].bytes = 0
    BY DEF BytesMatch
  <2>2. BodyAllowed(q)' => BodyAllowed(q)
    BY DEF BodyAllowed, NoBody
  <2>3. CASE BodyAllowed(q)'
    BY <1>2, <2>1, <2>2, <2>3 DEF BytesMatch, Data, OK
  <2>4. CASE ~BodyAllowed(q)'
    <3>1. sent[q].status = 0 \/ ~BodyAllowed(q)
      BY <2>4 DEF BodyAllowed, NoBody, OK
    <3>2. sent'[q].bytes = 0
      BY <1>2, <2>1, <3>1 DEF BytesMatch
    <3>3. QED
      BY <2>4, <3>2 DEF BytesMatch
  <2>5. QED
    BY <2>3, <2>4
<1>4. DataNoted(q)'
  BY <1>1 DEF DataNoted, Data
<1>5. FirstCounts(q)'
  <2>1. sent'[q].status = sent[q].status \/ (pc'[q] = "finished" /\ sent[q].status = 0 /\ sent'[q].status = OK)
    BY DEF TypeOK
  <2>2. ASSUME NoLateHeader(q), Passed(q, 0) # 0 PROVE sent[q].status # 0
    BY <2>2 DEF FirstCounts, OK
  <2>3. ASSUME NoLateHeader(q)
        PROVE  statusCode'[q][Metrics] = IF Passed(q, Metrics) = 0 THEN 0 ELSE FirstStatus(q)
    BY <2>3 DEF FirstCounts
  <2>4. ASSUME NoLateHeader(q), Passed(q, 0) = 0
        PROVE  sent'[q].status \in {0, OK} /\ (sent'[q].status # 0 => pc'[q] = "finished")
    <3>1. sent[q].status \in {0, OK} /\ (sent[q].status # 0 => pc[q] = "finished")
      BY <2>4 DEF FirstCounts
    <3>2. QED
      BY <2>1, <3>1
  <2>5. ASSUME NoLateHeader(q), Passed(q, 0) # 0
        PROVE  sent'[q].status = IF FirstStatus(q) # 0 THEN FirstStatus(q) ELSE OK
    <3>1. sent'[q].status = sent[q].status
      BY <2>1, <2>2, <2>5
    <3>2. sent[q].status = IF FirstStatus(q) # 0 THEN FirstStatus(q) ELSE OK
      BY <2>5 DEF FirstCounts
    <3>3. QED
      BY <3>1, <3>2
  <2>6. SUFFICES ASSUME NoLateHeader(q)
                 PROVE  /\ statusCode'[q][Metrics] = IF Passed(q, Metrics) = 0 THEN 0 ELSE FirstStatus(q)
                        /\ IF Passed(q, 0) = 0
                           THEN sent'[q].status \in {0, OK} /\ (sent'[q].status # 0 => pc'[q] = "finished")
                           ELSE sent'[q].status = IF FirstStatus(q) # 0 THEN FirstStatus(q) ELSE OK
    BY <1>1 DEF FirstCounts, NoLateHeader
  <2>7. QED
    BY <2>3, <2>4, <2>5, <2>6
<1>6. QED
  BY <1>3, <1>4, <1>5

LEMMA ResponseNext ==
  ASSUME TypeOK, ControlInv, ResponseInv, [Next]_vars
  PROVE  ResponseInv'
<1> SUFFICES ASSUME NEW q \in Requests,
                    pc'[q] # "finished" \/ (verdict'[q] # "timeout" /\ handler'[q] # "panicked")
             PROVE  BytesMatch(q)' /\ DataNoted(q)' /\ FirstCounts(q)'
  BY DEF ResponseInv
<1>1. ASSUME pc[q] # "finished" \/ (verdict[q] # "timeout" /\ handler[q] # "panicked")
      PROVE  BytesMatch(q) /\ DataNoted(q) /\ FirstCounts(q)
  BY <1>1 DEF ResponseInv
<1>2. CASE UNCHANGED vars \/ Idle
  BY <1>1, <1>2, QuietResponse DEF Idle, vars, writers, handlerVars
<1>3. ASSUME NEW r \in Requests, \E id \in CallerIds(r) : Arrive(r, id)
      PROVE  BytesMatch(q)' /\ DataNoted(q)' /\ FirstCounts(q)'
  <2>1. /\ UNCHANGED <<writers, calls, layer, verdict>> /\ pc[r] = "new"
        /\ pc' = [pc EXCEPT ![r] = "handler"]
        /\ handler' = [handler EXCEPT ![r] = IF r \in Wrapped THEN "asking" ELSE "running"]
    BY <1>3 DEF Arrive
  <2>2. method'[q] = method[q] \/ (method'[q] = "HEAD" /\ sent[q].status = 0)
    <3>1. CASE q = r
      <4>1. method[q] = "GET" /\ method'[q] \in {"GET", "HEAD"} /\ calls[q] = << >> /\ layer[q] = NoCall
        BY <1>3, <3>1 DEF Arrive, Methods, ControlInv, TypeOK
      <4>2. FirstCounts(q) /\ NoLateHeader(q) /\ Passed(q, 0) = 0 /\ pc[q] # "finished"
        BY <1>1, <2>1, <3>1, <4>1 DEF NoLateHeader, Passed, NoCall
      <4>3. QED
        BY <4>1, <4>2 DEF FirstCounts
    <3>2. CASE q # r
      BY <1>3, <3>2 DEF Arrive, TypeOK
    <3>3. QED
      BY <3>1, <3>2
  <2>3. /\ pc[q] = "finished" <=> pc'[q] = "finished"
        /\ pc[q] = "finished" => handler'[q] = handler[q]
    BY <2>1 DEF TypeOK
  <2>4. QED
    BY <1>1, <2>1, <2>2, <2>3, QuietResponse DEF writers
<1>4. ASSUME NEW r \in Requests, Hystrix(r) \/ Return(r) \/ Panic(r)
      PROVE  BytesMatch(q)' /\ DataNoted(q)' /\ FirstCounts(q)'
  <2>1. UNCHANGED <<writers, calls, layer, method>>
    BY <1>4 DEF Hystrix, Admit, Reject, Timeout, Return, Panic
  <2>2. pc[q] = "finished" <=> pc'[q] = "finished"
    BY <1>4 DEF Hystrix, Admit, Reject, Timeout, Return, Panic, TypeOK, ControlInv
  <2>3. /\ pc[q] = "finished" /\ verdict[q] = "timeout" => verdict'[q] = "timeout"
        /\ handler[q] = "panicked" => handler'[q] = "panicked"
    BY <1>4 DEF Hystrix, Admit, Reject, Timeout, Return, Panic, TypeOK, ControlInv
  <2>4. QED
    BY <1>1, <2>1, <2>2, <2>3, QuietResponse DEF writers
<1>5. ASSUME NEW r \in Requests, \E call : Call(r, call)
      PROVE  BytesMatch(q)' /\ DataNoted(q)' /\ FirstCounts(q)'
  <2>1. PICK call : Call(r, call)
    BY <1>5
  <2>2. UNCHANGED <<writers, method, pc, verdict, handler>>
    BY <2>1 DEF Call
  <2>3. CASE q # r
    BY <1>1, <2>1, <2>2, <2>3, QuietResponse DEF Call, TypeOK, writers
  <2>4. CASE q = r
    <3> DEFINE n == Len(calls[q])
    <3>1. n \in Nat /\ calls[q] \in Seq(CallValues)
      BY DEF TypeOK, CallValues
    <3>2. /\ layer[q] = NoCall /\ layer'[q] \in {Logger, Monitor}
          /\ calls'[q] = Append(calls[q], call)
      BY <2>1, <2>4 DEF Call, Top, TypeOK
    <3>3. /\ Len(calls'[q]) = n + 1 /\ \A i \in 1 .. n : calls'[q][i] = calls[q][i]
      BY <3>1, <3>2
    <3>4. /\ Passed(q, Metrics)' = n /\ Passed(q, Metrics) = n
          /\ Passed(q, 0)' = n /\ Passed(q, 0) = n
      BY <3>1, <3>2, <3>3 DEF Passed, Metrics, Logger, Monitor, NoCall
    <3>5. BytesMatch(q) /\ DataNoted(q) /\ FirstCounts(q)
      BY <1>1, <2>2
    <3>6. BytesMatch(q)'
      BY <2>2, <3>2, <3>5 DEF BytesMatch, BodyAllowed, writers, Logger, Monitor, NoCall
    <3>7. DataNoted(q)'
      BY <2>2, <3>3, <3>4, <3>5 DEF DataNoted, writers, Data
    <3>8. FirstCounts(q)'
      <4>1. NoLateHeader(q)' => NoLateHeader(q)
        BY <3>1, <3>3 DEF NoLateHeader
      <4>2. n # 0 => FirstStatus(q)' = FirstStatus(q)
        BY <3>1, <3>3 DEF FirstStatus
      <4>3. QED
        BY <2>2, <3>4, <3>5, <4>1, <4>2 DEF FirstCounts, writers
    <3>9. QED
      BY <3>6, <3>7, <3>8
  <2>5. QED
    BY <2>3, <2>4
<1>6. ASSUME NEW r \in Requests, Descend(r)
      PROVE  BytesMatch(q)' /\ DataNoted(q)' /\ FirstCounts(q)'
  <2>1. UNCHANGED <<pc, handler, calls, verdict, sent, method>>
    BY <1>6 DEF Descend
  <2>2. CASE q = r
    BY <1>1, <1>6, <2>1, <2>2, DescendResponse
  <2>3. CASE q # r
    <3>1. statusCode'[q] = statusCode[q] /\ contentLength'[q] = contentLength[q] /\ layer'[q] = layer[q]
      BY <1>6, <2>3 DEF Descend, Pass, TypeOK
    <3>2. QED
      BY <1>1, <2>1, <3>1, QuietResponse
  <2>4. QED
    BY <2>2, <2>3
<1>7. ASSUME NEW r \in Requests, Base(r)
      PROVE  BytesMatch(q)' /\ DataNoted(q)' /\ FirstCounts(q)'
  <2>1. UNCHANGED <<pc, handler, calls, verdict, statusCode, contentLength, method>>
    BY <1>7 DEF Base
  <2>2. CASE q = r
    <3>1. handler[q] = "running"
      BY <1>7, <2>2, Writing DEF Base
    <3>2. pc[q] # "finished"
      BY <2>1, <3>1 DEF ControlInv
    <3>3. QED
      BY <1>1, <1>7, <2>1, <2>2, <3>2, BaseResponse
  <2>3. CASE q # r
    <3>1. sent'[q] = sent[q] /\ layer'[q] = layer[q]
      BY <1>7, <2>3 DEF Base, Respond, TypeOK
    <3>2. QED
      BY <1>1, <2>1, <3>1, QuietResponse
  <2>4. QED
    BY <2>2, <2>3
<1>8. ASSUME NEW r \in Requests, WayOut(r)
      PROVE  BytesMatch(q)' /\ DataNoted(q)' /\ FirstCounts(q)'
  <2>1. UNCHANGED <<statusCode, contentLength, calls, layer, verdict, method, handler>>
    BY <1>8 DEF WayOut, RecordSpan, RecordLog, RecordMetrics, Finish, writers, handlerVars
  <2>2. pc[q] = "finished" => pc'[q] = "finished"
    BY <1>8 DEF WayOut, RecordSpan, RecordLog, RecordMetrics, Finish, TypeOK
  <2>3. \/ sent'[q] = sent[q]
        \/ pc'[q] = "finished" /\ sent[q].status = 0 /\ sent'[q] = [sent[q] EXCEPT !.status = OK]
    <3>1. CASE Finish(r)
      <4>1. CASE q # r
        BY <3>1, <4>1 DEF Finish, TypeOK
      <4>2. CASE q = r
        <5>1. pc'[q] = "finished"
          BY <3>1, <4>2 DEF Finish, TypeOK
        <5>2. sent'[q] = [sent[q] EXCEPT !.status = IF @ = 0 THEN OK ELSE @]
          BY <2>1, <3>1, <4>2, <5>1 DEF Finish, TypeOK
        <5>3. QED
          BY <5>1, <5>2 DEF TypeOK
      <4>3. QED
        BY <4>1, <4>2
    <3>2. CASE ~Finish(r)
      BY <1>8, <3>2 DEF WayOut, RecordSpan, RecordLog, RecordMetrics, writers
    <3>3. QED
      BY <3>1, <3>2
  <2>4. \/ sent'[q] = sent[q]
        \/ /\ pc'[q] = "finished" /\ sent[q].status = 0
           /\ sent'[q].status = OK /\ sent'[q].bytes = sent[q].bytes
    BY <2>3 DEF TypeOK
  <2>5. QED
    BY <1>1, <2>1, <2>2, <2>4, QuietResponse
<1>9. QED
  BY <1>2, <1>3, <1>4, <1>5, <1>6, <1>7, <1>8 DEF Next, Handler

\* The status noted by the metrics' writer is the one sent, for a handler that
\* determines it.
LEMMA ProperStatus ==
  ASSUME TypeOK, NEW r \in Requests, layer[r] = NoCall, Proper(r),
         DataNoted(r), FirstCounts(r)
  PROVE  StatusCode(r, Metrics) = sent[r].status
<1> DEFINE n == Len(calls[r])
<1>1. PICK i \in 1 .. n : calls[r][i][1] = "WriteHeader" \/ calls[r][i][2] > 0
  BY DEF Proper
<1>2. n \in Nat \ {0} /\ calls[r] # << >>
  BY <1>1 DEF TypeOK
<1>3. Passed(r, Metrics) = n /\ Passed(r, 0) = n
  BY <1>2 DEF Passed, Metrics, NoCall
<1>4. /\ statusCode[r][Metrics] = FirstStatus(r)
      /\ sent[r].status = IF FirstStatus(r) # 0 THEN FirstStatus(r) ELSE OK
  BY <1>2, <1>3 DEF FirstCounts, Proper
<1>5. CASE FirstStatus(r) # 0
  BY <1>4, <1>5 DEF StatusCode
<1>6. CASE FirstStatus(r) = 0
  <2>1. calls[r][1][1] # "WriteHeader" /\ calls[r][i] \in CallValues
    BY <1>2, <1>6, FirstAndLast
  <2>2. calls[r][i][1] = "Write"
    BY <1>1, <1>2, <2>1, CallData DEF Proper, NoLateHeader
  <2>3. Data(calls[r][i]) > 0
    BY <1>1, <2>2 DEF Data
  <2>4. contentLength[r][Metrics] > 0
    BY <1>3, <2>3 DEF DataNoted
  <2>5. QED
    BY <1>4, <1>6, <2>4 DEF StatusCode
<1>7. QED
  BY <1>5, <1>6

\* What a panic leaves of a response, and that nothing touches it any more.
LEMMA PanicNext ==
  ASSUME TypeOK, ControlInv, ResponseInv, PanicInv, [Next]_vars
  PROVE  PanicInv'
<1> SUFFICES ASSUME NEW q \in Requests, pc'[q] = "finished", verdict'[q] # "timeout",
                    handler'[q] = "panicked"
             PROVE  /\ sent'[q].bytes <= contentLength'[q][Metrics]
                    /\ Proper(q)' => sent'[q].status \in {0, StatusCode(q, Metrics)'}
  BY DEF PanicInv
<1>1. CASE Finish(q)
  <2>1. /\ handler[q] = "panicked" /\ verdict[q] # "timeout" /\ pc[q] = "finish"
        /\ UNCHANGED calls
    BY <1>1 DEF Finish, handlerVars
  <2>2. /\ layer[q] = NoCall /\ contentLength'[q] = contentLength[q] /\ Metrics \in Layers
        /\ StatusCode(q, Metrics)' = StatusCode(q, Metrics)
    BY <2>1, Frozen DEF Metrics, Layers
  <2>3. PICK response \in Flushed(q) : sent' = [sent EXCEPT ![q] = response]
    BY <1>1, <2>1 DEF Finish
  <2>4. BytesMatch(q) /\ DataNoted(q) /\ FirstCounts(q)
    BY <2>1 DEF ResponseInv
  <2>5. sent[q].bytes \in Nat /\ contentLength[q][Metrics] \in Nat /\ sent'[q] = response
    BY <2>2, <2>3 DEF TypeOK
  <2>6. sent[q].bytes <= contentLength[q][Metrics]
    BY <2>2, <2>4, <2>5 DEF BytesMatch, NoCall
  <2>7. /\ response.bytes \in Nat /\ response.bytes <= sent[q].bytes
        /\ response.status \in {0, sent[q].status}
    BY <2>5 DEF Flushed
  <2>8. Proper(q)' => Proper(q)
    BY <2>1 DEF Proper, NoLateHeader
  <2>9. Proper(q) => StatusCode(q, Metrics) = sent[q].status
    BY <2>2, <2>4, ProperStatus
  <2>10. sent'[q].bytes <= contentLength'[q][Metrics]
    BY <2>2, <2>5, <2>6, <2>7
  <2>11. QED
    BY <2>2, <2>5, <2>7, <2>8, <2>9, <2>10
<1>2. CASE ~Finish(q)
  <2> DEFINE Over == /\ pc[q] = "finished" /\ handler[q] = "panicked" /\ verdict[q] # "timeout"
                     /\ sent'[q] = sent[q] /\ calls'[q] = calls[q]
  <2>1. Over
    <3>1. CASE UNCHANGED vars \/ Idle
      BY <3>1 DEF vars, Idle, writers, handlerVars
    <3>2. ASSUME NEW r \in Requests, NEW id \in CallerIds(r), Arrive(r, id)
          PROVE  Over
      BY <3>2 DEF Arrive, writers, TypeOK
    <3>3. ASSUME NEW r \in Requests, Hystrix(r)
          PROVE  Over
      BY <3>3 DEF Hystrix, Admit, Reject, Timeout, writers, TypeOK
    <3>4. ASSUME NEW r \in Requests, NEW call, Call(r, call)
          PROVE  Over
      BY <3>4 DEF Call, writers, TypeOK, ControlInv
    <3>5. ASSUME NEW r \in Requests, Descend(r) \/ Base(r) \/ Return(r) \/ Panic(r)
          PROVE  Over
      <4>1. handler[r] = "running"
        BY <3>5, Writing DEF Descend, Base, Return, Panic
      <4>2. /\ UNCHANGED calls /\ \A x \in Requests : x # r => sent'[x] = sent[x]
            /\ \A x \in Requests : x # r => pc'[x] = pc[x] /\ handler'[x] = handler[x]
                                             /\ verdict'[x] = verdict[x]
            /\ pc[r] # "finished" => pc'[r] # "finished"
        <5>1. CASE Base(r)
          <6>1. sent' = sent \/ \E new : sent' = [sent EXCEPT ![r] = new]
            BY <5>1 DEF Base, Respond
          <6>2. QED
            BY <5>1, <6>1 DEF Base, TypeOK
        <5>2. CASE Descend(r) \/ Return(r) \/ Panic(r)
          BY <5>2 DEF Descend, Return, Panic, writers, TypeOK
        <5>3. QED
          BY <3>5, <5>1, <5>2
      <4>3. q # r
        <5>1. CASE Panic(r)
          BY <4>1, <4>2, <5>1 DEF Panic, ControlInv, TypeOK
        <5>2. CASE Descend(r) \/ Base(r) \/ Return(r)
          BY <4>1, <5>2 DEF Descend, Base, Return, TypeOK
        <5>3. QED
          BY <3>5, <5>1, <5>2
      <4>4. QED
        BY <4>2, <4>3
    <3>6. ASSUME NEW r \in Requests, WayOut(r)
          PROVE  Over
      <4>1. CASE Finish(r)
        BY <1>2, <4>1 DEF Finish, handlerVars, TypeOK
      <4>2. CASE RecordSpan(r) \/ RecordLog(r) \/ RecordMetrics(r)
        BY <4>2 DEF RecordSpan, RecordLog, RecordMetrics, handlerVars, writers, TypeOK
      <4>3. QED
        BY <3>6, <4>1, <4>2 DEF WayOut
    <3> HIDE DEF Over
    <3>7. QED
      BY <3>1, <3>2, <3>3, <3>4, <3>5, <3>6 DEF Next, Handler
  <2>2. QED
    BY <2>1, Frozen DEF PanicInv, Proper, NoLateHeader, Metrics, Layers
<1>3. QED
  BY <1>1, <1>2

----------------------------------------------------------------------------
\* The theorems.

LEMMA ChainNextInv == ChainInv /\ [Next]_vars => ChainInv'
<1> SUFFICES ASSUME ChainInv, [Next]_vars PROVE ChainInv'
  OBVIOUS
<1> USE DEF ChainInv
<1>1. IsFiniteSet({r \in Requests : pc[r] # "new"})' /\ CountersMatch'
  BY CountNext DEF Arrived
<1>2. QED
  BY <1>1, TypeNext, ControlNext, IdNext, RecordNext, LayersNext, ResponseNext, PanicNext

\* The counters match the requests, the neighbouring writers each other and
\* the metrics' writer the response, for any number of requests, wrapped by
\* hystrix or not, and any number of calls of their handlers.
THEOREM ChainInvariance == Spec => []ChainInv
BY ChainInitInv, ChainNextInv, PTL DEF Spec

\* A counted request that was not timed out has no call under way: all its
\* layers and the server have seen the same.
LEMMA AtRest ==
  ASSUME ChainInv, NEW r \in Requests, verdict[r] # "timeout",
         r \in Counted \/ verdict[r] \in {"success", "failure"}
  PROVE  /\ layer[r] = NoCall /\ handler[r] # "running"
         /\ \A l \in 1 .. Top(r) : StatusCode(r, l) = StatusCode(r, Metrics)
         /\ contentLength[r][Logger] = contentLength[r][Metrics]
<1>1. handler[r] # "running" /\ layer[r] = NoCall
  BY DEF ChainInv, ControlInv, Counted
<1>2. \A l \in 1 .. Top(r) - 1 : /\ statusCode[r][l + 1] = statusCode[r][l]
                                /\ contentLength[r][l + 1] = contentLength[r][l]
  BY <1>1 DEF ChainInv, LayersInv, NoCall
<1>3. statusCode[r][2] = statusCode[r][1] /\ contentLength[r][2] = contentLength[r][1]
  <2>1. 1 \in 1 .. Top(r) - 1
    BY DEF Top, Monitor, Logger
  <2>2. QED
    BY <1>2, <2>1
<1>4. Top(r) = 3 => statusCode[r][3] = statusCode[r][1] /\ contentLength[r][3] = contentLength[r][1]
  <2>1. Top(r) = 3 => 2 \in 1 .. Top(r) - 1
    OBVIOUS
  <2>2. QED
    BY <1>2, <1>3, <2>1
<1>5. Top(r) \in {2, 3}
  BY DEF Top, Monitor, Logger
<1>6. QED
  BY <1>1, <1>3, <1>4, <1>5 DEF StatusCode, Metrics, Logger

\* The span, the log line and the metrics agree.
THEOREM RecordsAlwaysAgree == Spec => []RecordsAgree
<1>1. ChainInv => RecordsAgree
  <2> SUFFICES ASSUME ChainInv, NEW r \in Counted, verdict[r] # "timeout"
               PROVE  /\ span[r] = logged[r].status /\ logged[r].status = counted[r].status
                      /\ logged[r].length = counted[r].length
    BY DEF RecordsAgree
  <2>1. r \in Requests /\ pc[r] \in {"finish", "finished"}
    BY DEF Counted
  <2>2. StatusCode(r, Logger) = StatusCode(r, Metrics) /\ contentLength[r][Logger] = contentLength[r][Metrics]
    BY <2>1, AtRest DEF Top, Logger, Monitor
  <2>3. QED
    BY <2>1, <2>2 DEF ChainInv, RecordInv
<1>2. QED
  BY <1>1, ChainInvariance, PTL

\* The metrics tell what a client of a proper handler got, and bound what is
\* left of it after a panic.
THEOREM ProperIsAlwaysRecorded == Spec => []ProperIsRecorded
<1>1. ChainInv => ProperIsRecorded
  <2> SUFFICES ASSUME ChainInv, NEW r \in Requests, pc[r] = "finished", Proper(r),
                      verdict[r] # "timeout"
               PROVE  IF handler[r] = "panicked"
                      THEN /\ sent[r].status \in {0, counted[r].status}
                           /\ sent[r].bytes <= counted[r].length
                      ELSE /\ counted[r].status = sent[r].status
                           /\ sent[r].bytes = IF BodyAllowed(r) THEN counted[r].length ELSE 0
    BY DEF ProperIsRecorded
  <2>1. layer[r] = NoCall
    BY AtRest DEF Counted
  <2>2. counted[r].status = StatusCode(r, Metrics) /\ counted[r].length = contentLength[r][Metrics]
    BY DEF ChainInv, RecordInv, Counted
  <2>3. CASE handler[r] = "panicked"
    BY <2>2, <2>3 DEF ChainInv, PanicInv
  <2>4. CASE handler[r] # "panicked"
    <3>1. BytesMatch(r) /\ DataNoted(r) /\ FirstCounts(r) /\ sent[r].bytes \in Nat /\ TypeOK
      BY <2>4 DEF ChainInv, ResponseInv, TypeOK
    <3>2. StatusCode(r, Metrics) = sent[r].status
      BY <2>1, <3>1, ProperStatus
    <3>3. sent[r].bytes = IF BodyAllowed(r) THEN contentLength[r][Metrics] ELSE 0
      BY <2>1, <3>1 DEF BytesMatch, NoCall
    <3>4. QED
      BY <2>2, <2>4, <3>2, <3>3
  <2>5. QED
    BY <2>3, <2>4
<1>2. QED
  BY <1>1, ChainInvariance, PTL

LEMMA InvImpliesVerdict == ChainInv => VerdictMatchesResponse
<1> SUFFICES ASSUME ChainInv, NEW r \in Requests, Proper(r), verdict[r] \in {"success", "failure"}
             PROVE  verdict[r] = "failure" <=> sent[r].status \in 500 .. 599
  BY DEF VerdictMatchesResponse
<1>1. r \in Wrapped /\ Top(r) = Monitor
  BY DEF ChainInv, ControlInv, Top
<1>2. layer[r] = NoCall /\ StatusCode(r, Monitor) = StatusCode(r, Metrics)
  BY <1>1, AtRest DEF Monitor
<1>3. StatusCode(r, Monitor) = sent[r].status
  <2>1. DataNoted(r) /\ FirstCounts(r) /\ TypeOK
    BY DEF ChainInv, ControlInv, ResponseInv
  <2>2. QED
    BY <1>2, <2>1, ProperStatus
<1>4. verdict[r] = "failure" <=> Failure(sent[r].status)
  BY <1>3 DEF ChainInv, VerdictInv
<1>5. sent[r].status \in Nat
  <2>1. sent[r].status \in Codes
    BY DEF ChainInv, TypeOK
  <2>2. Codes \subseteq Nat
    BY StatusAssumption DEF Codes, OK
  <2>3. QED
    BY <2>1, <2>2
<1>6. QED
  BY <1>4, <1>5 DEF Failure

\* hystrix counts as a failure what the client of a proper handler sees as one.
THEOREM VerdictIsResponse == Spec => []VerdictMatchesResponse
BY ChainInvariance, InvImpliesVerdict, PTL

\* The handler, the span, the log line and the caller have one id.
THEOREM IdIsShared == Spec => []OneIdPerRequest
<1>1. ChainInv => OneIdPerRequest
  BY DEF ChainInv, IdInv, OneIdPerRequest, LoggedId, Counted, TypeOK
<1>2. QED
  BY <1>1, ChainInvariance, PTL
=============================================================================
