---------------------------- MODULE RequestChain ----------------------------
(***************************************************************************)
(* A request on its way through the chain that server.Run builds:          *)
(* HTTPMetricsCollector, HTTPLogrusLogger (or HttpApacheLogger) and        *)
(* TracerFromHTTPRequest of handlers/, and the service's own handler,      *)
(* which may be wrapped in hystrixHelper.Handler of hystrix/hystrix.go.    *)
(*                                                                         *)
(* The middleware puts HTTPWriters of httpWriter/writer.go around the      *)
(* server's ResponseWriter: layer 1 for the metrics, layer 2 for the log   *)
(* and the span, layer 3 for hystrix.  A call of the handler on its writer *)
(* passes through the layers, top down, to the server's writer, layer 0.   *)
(* When the handler returns, or panics, the deferred functions record what *)
(* their writer has seen: the span, the log line, the metrics.             *)
(*                                                                         *)
(* hystrix runs the handler in a goroutine of its own and stops waiting    *)
(* for it after a timeout: it then writes while the deferred functions     *)
(* read.  net/http recovers from a panic, but not in that goroutine.       *)
(*                                                                         *)
(* Abstraction: a body is the number of its bytes; a correlation id is the *)
(* one the caller sent, "given", or the one made here, "fresh".  net/http  *)
(* and hystrix are external: Base, Finish, Admit, Reject and Timeout say   *)
(* what the code expects of them.                                          *)
(***************************************************************************)
EXTENDS Integers, FiniteSets, SequencesExt

CONSTANTS
  Requests,
  Statuses,    \* the status codes the handler writes
  Sizes,       \* the lengths of the data it writes
  MaxCalls,    \* bound: calls of WriteHeader and Write for one request
  MayHead,     \* bound: the requests that may be HEAD, all others are GET
  MayBring,    \* bound: the requests whose caller may send an id
  Wrapped,     \* the requests whose handler is in a hystrixHelper.Handler
  Apache       \* the requests whose logger is HttpApacheLogger

OK == 200
NoCall == -1

ASSUME StatusAssumption == Statuses \subseteq 200 .. 599 /\ Sizes \subseteq Nat
ASSUME ChainAssumption ==
  {MayHead, MayBring, Wrapped, Apache} \subseteq SUBSET Requests

Methods(r) == {"GET"} \cup (IF r \in MayHead THEN {"HEAD"} ELSE {})
CallerIds(r) == {"none"} \cup (IF r \in MayBring THEN {"given"} ELSE {})

Layers == 1 .. 3
Metrics == 1
Logger == 2
Monitor == 3
Top(r) == IF r \in Wrapped THEN Monitor ELSE Logger

VARIABLES
  pc,          \* the serving goroutine: "new", "handler", then the deferred
               \* functions "tracer", "logger", "metrics", then net/http's
               \* "finish" and "finished"
  handler,     \* "idle", "asking" hystrix, "running", "returned", "panicked"
  calls,       \* history: the handler's calls of WriteHeader and Write
  layer,       \* where the last of them has got to, or NoCall
  statusCode, contentLength,  \* of the HTTPWriters
  sent,        \* the response as net/http has it: a status, 0 before, and the
               \* body bytes; once "finished", what has left for the client
  method,      \* the request's method
  verdict,     \* how the command ended for hystrix
  corrID,      \* the correlation id in the handler's context, and in the span
  header,      \* the one in the response header, "none" if there is none
  requestID,   \* the one in the request header
  span,        \* the status in the span, as recorded, or NoCall
  logged,      \* the log line: status, length and correlation id
  counted,     \* what this request added to the metrics: status and length
  received,    \* httpRequestsReceived_total
  processed,   \* httpRequestsProcessed_total, by status
  crashed      \* the process is gone

writers == <<statusCode, contentLength, sent>>
ids == <<corrID, header, requestID>>
records == <<span, logged, counted>>
counters == <<received, processed>>
handlerVars == <<handler, calls, layer, verdict>>
vars == <<pc, handlerVars, writers, method, ids, records, counters, crashed>>

Codes == Statuses \cup {0, OK}

Init ==
  /\ pc = [r \in Requests |-> "new"]
  /\ handler = [r \in Requests |-> "idle"]
  /\ calls = [r \in Requests |-> << >>]
  /\ layer = [r \in Requests |-> NoCall]
  /\ statusCode = [r \in Requests |-> [l \in Layers |-> 0]]
  /\ contentLength = [r \in Requests |-> [l \in Layers |-> 0]]
  /\ sent = [r \in Requests |-> [status |-> 0, bytes |-> 0]]
  /\ method = [r \in Requests |-> "GET"]
  /\ verdict = [r \in Requests |-> "none"]
  /\ corrID = [r \in Requests |-> "none"]
  /\ header = [r \in Requests |-> "none"]
  /\ requestID = [r \in Requests |-> "none"]
  /\ span = [r \in Requests |-> NoCall]
  /\ logged = [r \in Requests |-> [status |-> NoCall, length |-> 0, id |-> "none"]]
  /\ counted = [r \in Requests |-> [status |-> NoCall, length |-> 0]]
  /\ received = 0
  /\ processed = [c \in Codes |-> 0]
  /\ crashed = FALSE

----------------------------------------------------------------------------
(* The way in.                                                             *)

\* Mutant: the id made here is not sent back.
FromRequestSilent(r, id) ==
  /\ requestID' = [requestID EXCEPT ![r] = id]
  /\ corrID' = [corrID EXCEPT ![r] = IF id = "none" THEN "fresh" ELSE id]
  /\ UNCHANGED header

\* correlationID.FromRequest, and the response header at the edge.
FromRequest(r, id) ==
  /\ requestID' = [requestID EXCEPT ![r] = id]
  /\ corrID' = [corrID EXCEPT ![r] = IF id = "none" THEN "fresh" ELSE id]
  /\ header' = [header EXCEPT ![r] = IF id = "none" THEN "fresh" ELSE @]

\* The three middlewares up to their next.ServeHTTP.
Arrive(r, id) ==
  /\ ~crashed
  /\ pc[r] = "new"
  /\ pc' = [pc EXCEPT ![r] = "handler"]
  /\ received' = received + 1
  /\ FromRequest(r, id)
  /\ \E how \in Methods(r) : method' = [method EXCEPT ![r] = how]
  /\ handler' = [handler EXCEPT ![r] = IF r \in Wrapped THEN "asking" ELSE "running"]
  /\ UNCHANGED <<calls, layer, verdict, writers, records, processed, crashed>>

\* hystrix runs the command.
Admit(r) ==
  /\ ~crashed
  /\ handler[r] = "asking"
  /\ handler' = [handler EXCEPT ![r] = "running"]
  /\ UNCHANGED <<pc, calls, layer, verdict, writers, method, ids, records, counters, crashed>>

\* The circuit is open or the command's pool used up; the fallback logs, and
\* Do returns nil.
Reject(r) ==
  /\ ~crashed
  /\ handler[r] = "asking"
  /\ handler' = [handler EXCEPT ![r] = "returned"]
  /\ verdict' = [verdict EXCEPT ![r] = "rejected"]
  /\ pc' = [pc EXCEPT ![r] = "tracer"]
  /\ UNCHANGED <<calls, layer, writers, method, ids, records, counters, crashed>>

----------------------------------------------------------------------------
(* The handler.                                                            *)

Call(r, call) ==
  /\ ~crashed
  /\ handler[r] = "running" /\ layer[r] = NoCall
  /\ Len(calls[r]) < MaxCalls
  /\ calls' = [calls EXCEPT ![r] = Append(@, call)]
  /\ layer' = [layer EXCEPT ![r] = Top(r)]
  /\ UNCHANGED <<pc, handler, verdict, writers, method, ids, records, counters, crashed>>

\* Mutant: only the log's writer notes the status.
PassInnerOnly(r, l, call) ==
  \/ /\ call[1] = "WriteHeader"
     /\ statusCode' = [statusCode EXCEPT ![r][l] = IF l = Logger THEN call[2] ELSE @]
     /\ UNCHANGED contentLength
  \/ /\ call[1] = "Write"
     /\ contentLength' = [contentLength EXCEPT ![r][l] = @ + call[2]]
     /\ UNCHANGED statusCode

\* HTTPWriter.WriteHeader and Write, before they call the writer within.
Pass(r, l, call) ==
  \/ /\ call[1] = "WriteHeader"
     /\ statusCode' = [statusCode EXCEPT ![r][l] = call[2]]
     /\ UNCHANGED contentLength
  \/ /\ call[1] = "Write"
     /\ contentLength' = [contentLength EXCEPT ![r][l] = @ + call[2]]
     /\ UNCHANGED statusCode

Descend(r) ==
  /\ ~crashed
  /\ layer[r] \in Layers
  /\ Pass(r, layer[r], Last(calls[r]))
  /\ layer' = [layer EXCEPT ![r] = @ - 1]
  /\ UNCHANGED <<pc, handler, calls, verdict, sent, method, ids, records, counters, crashed>>

\* net/http: the statuses that allow no body, as HEAD does not.
NoBody == {204, 304}

\* net/http: the first status counts; a body implies one, and is dropped
\* where none is allowed.
Respond(r, call) ==
  LET first == IF call[1] = "WriteHeader" THEN call[2] ELSE OK
      status == IF sent[r].status = 0 THEN first ELSE sent[r].status
      body == IF call[1] = "WriteHeader" \/ method[r] = "HEAD" \/ status \in NoBody
              THEN 0 ELSE call[2]
  IN sent' = [sent EXCEPT ![r] = [status |-> status, bytes |-> @.bytes + body]]

\* The server's writer ends the call; after the request it has no effect.
Base(r) ==
  /\ ~crashed
  /\ layer[r] = 0
  /\ IF pc[r] = "finished" THEN UNCHANGED sent ELSE Respond(r, Last(calls[r]))
  /\ layer' = [layer EXCEPT ![r] = NoCall]
  /\ UNCHANGED <<pc, handler, calls, verdict, statusCode, contentLength, method, ids,
                 records, counters, crashed>>

\* Mutant: data without a status is not taken for success.
StatusCodeRaw(r, l) == statusCode[r][l]

StatusCode(r, l) ==
  IF statusCode[r][l] = 0 /\ contentLength[r][l] > 0 THEN OK ELSE statusCode[r][l]

\* Mutant: only 500 itself is a failure.
FailureOnly500(code) == code = 500

Failure(code) == code >= 500 /\ code < 600

\* Without hystrix the deferred functions are next; with it, if Do still waits.
Return(r) ==
  /\ ~crashed
  /\ handler[r] = "running" /\ layer[r] = NoCall
  /\ handler' = [handler EXCEPT ![r] = "returned"]
  /\ verdict' = [verdict EXCEPT ![r] =
       IF r \notin Wrapped \/ @ = "timeout" THEN @
       ELSE IF Failure(StatusCode(r, Monitor)) THEN "failure" ELSE "success"]
  /\ pc' = [pc EXCEPT ![r] = IF @ = "handler" THEN "tracer" ELSE @]
  /\ UNCHANGED <<calls, layer, writers, method, ids, records, counters, crashed>>

Panic(r) ==
  /\ ~crashed
  /\ handler[r] = "running" /\ layer[r] = NoCall
  /\ handler' = [handler EXCEPT ![r] = "panicked"]
  /\ crashed' = (r \in Wrapped)
  /\ pc' = [pc EXCEPT ![r] = IF r \in Wrapped THEN @ ELSE "tracer"]
  /\ UNCHANGED <<calls, layer, verdict, writers, method, ids, records, counters>>

\* hystrix waits no longer; the fallback logs, and Do returns nil.
Timeout(r) ==
  /\ ~crashed
  /\ r \in Wrapped
  /\ handler[r] = "running" /\ pc[r] = "handler"
  /\ verdict' = [verdict EXCEPT ![r] = "timeout"]
  /\ pc' = [pc EXCEPT ![r] = "tracer"]
  /\ UNCHANGED <<handler, calls, layer, writers, method, ids, records, counters, crashed>>

----------------------------------------------------------------------------
(* The way out.                                                            *)

RecordSpan(r) ==
  /\ ~crashed
  /\ pc[r] = "tracer"
  /\ span' = [span EXCEPT ![r] = StatusCode(r, Logger)]
  /\ pc' = [pc EXCEPT ![r] = "logger"]
  /\ UNCHANGED <<handlerVars, writers, method, ids, logged, counted, counters, crashed>>

\* The id of the request header or, "maybe", the one set on the way back;
\* HttpApacheLogger has only the latter.
LoggedId(r) ==
  IF r \notin Apache /\ requestID[r] # "none" THEN requestID[r] ELSE header[r]

RecordLog(r) ==
  /\ ~crashed
  /\ pc[r] = "logger"
  /\ logged' = [logged EXCEPT ![r] =
       [status |-> StatusCode(r, Logger), length |-> contentLength[r][Logger],
        id |-> LoggedId(r)]]
  /\ pc' = [pc EXCEPT ![r] = "metrics"]
  /\ UNCHANGED <<handlerVars, writers, method, ids, span, counted, counters, crashed>>

\* Mutant: after a panic nothing is counted.
CountUnlessPanic(r) ==
  /\ counted' = [counted EXCEPT ![r] =
       [status |-> StatusCode(r, Metrics), length |-> contentLength[r][Metrics]]]
  /\ processed' = IF handler[r] = "panicked" THEN processed
                  ELSE [processed EXCEPT ![StatusCode(r, Metrics)] = @ + 1]

Count(r) ==
  /\ counted' = [counted EXCEPT ![r] =
       [status |-> StatusCode(r, Metrics), length |-> contentLength[r][Metrics]]]
  /\ processed' = [processed EXCEPT ![StatusCode(r, Metrics)] = @ + 1]

RecordMetrics(r) ==
  /\ ~crashed
  /\ pc[r] = "metrics"
  /\ Count(r)
  /\ pc' = [pc EXCEPT ![r] = "finish"]
  /\ UNCHANGED <<handlerVars, writers, method, ids, span, logged, received, crashed>>

\* net/http: a panic closes the connection, and what is still buffered is lost:
\* the whole response, or the end of its body.
Flushed(r) ==
  {[status |-> 0, bytes |-> 0]} \cup
  {[status |-> sent[r].status, bytes |-> n] :
     n \in IF method[r] = "HEAD" THEN {0} ELSE 1 .. sent[r].bytes}

\* net/http: an unwritten response is an empty one with status 200.
Finish(r) ==
  /\ ~crashed
  /\ pc[r] = "finish"
  /\ \/ /\ handler[r] = "panicked"
        /\ \E response \in Flushed(r) : sent' = [sent EXCEPT ![r] = response]
     \/ /\ handler[r] # "panicked"
        /\ sent' = [sent EXCEPT ![r].status = IF @ = 0 THEN OK ELSE @]
  /\ pc' = [pc EXCEPT ![r] = "finished"]
  /\ UNCHANGED <<handlerVars, statusCode, contentLength, method, ids, records, counters, crashed>>

\* Mutant: the deferred functions wait for the handler's goroutine.
WayOutPatient(r) ==
  handler[r] # "running" /\ (RecordSpan(r) \/ RecordLog(r) \/ RecordMetrics(r) \/ Finish(r))

WayOut(r) == RecordSpan(r) \/ RecordLog(r) \/ RecordMetrics(r) \/ Finish(r)

Handler(r) ==
  \/ \E s \in Statuses : Call(r, <<"WriteHeader", s>>)
  \/ \E n \in Sizes : Call(r, <<"Write", n>>)
  \/ Descend(r) \/ Base(r) \/ Return(r) \/ Panic(r)

Hystrix(r) == Admit(r) \/ Reject(r) \/ Timeout(r)

Idle == (crashed \/ \A r \in Requests : pc[r] = "finished") /\ UNCHANGED vars

Next ==
  \/ \E r \in Requests :
       \/ \E id \in CallerIds(r) : Arrive(r, id)
       \/ Handler(r) \/ Hystrix(r) \/ WayOut(r)
  \/ Idle

Spec == Init /\ [][Next]_vars

\* The serving goroutines and hystrix run.  Nothing is assumed of the handler,
\* not even that it returns.
FairSpec ==
  Spec /\ \A r \in Wrapped :
    /\ WF_vars(Admit(r) \/ Reject(r))
    /\ WF_vars(Timeout(r))
    /\ WF_vars(WayOut(r))
----------------------------------------------------------------------------
(* Properties.                                                             *)

TypeOK ==
  /\ pc \in [Requests -> {"new", "handler", "tracer", "logger", "metrics", "finish", "finished"}]
  /\ handler \in [Requests -> {"idle", "asking", "running", "returned", "panicked"}]
  /\ calls \in [Requests -> Seq(({"WriteHeader"} \X Statuses) \cup ({"Write"} \X Sizes))]
  /\ layer \in [Requests -> NoCall .. Monitor]
  /\ statusCode \in [Requests -> [Layers -> Codes]]
  /\ contentLength \in [Requests -> [Layers -> Nat]]
  /\ sent \in [Requests -> [status : Codes, bytes : Nat]]
  /\ method \in [Requests -> {"GET", "HEAD"}]
  /\ verdict \in [Requests -> {"none", "success", "failure", "timeout", "rejected"}]
  /\ corrID \in [Requests -> {"none", "given", "fresh"}]
  /\ header \in [Requests -> {"none", "fresh"}]
  /\ requestID \in [Requests -> {"none", "given"}]
  /\ span \in [Requests -> Codes \cup {NoCall}]
  /\ logged \in [Requests -> [status : Codes \cup {NoCall}, length : Nat,
                              id : {"none", "given", "fresh"}]]
  /\ counted \in [Requests -> [status : Codes \cup {NoCall}, length : Nat]]
  /\ received \in Nat
  /\ processed \in [Codes -> Nat]
  /\ crashed \in BOOLEAN

Counted == {r \in Requests : pc[r] \in {"finish", "finished"}}

\* Every request received is in flight or counted as processed exactly once,
\* under the status recorded for it, however the handlers end and the deferred
\* functions of several requests interleave.
CountersMatch ==
  /\ received = Cardinality({r \in Requests : pc[r] # "new"})
  /\ \A c \in Codes : processed[c] = Cardinality({r \in Counted : counted[r].status = c})

\* The span, the log line and the metrics tell the same of a request whose
\* handler was not left running: they look at two writers at three moments.
RecordsAgree ==
  \A r \in Counted : verdict[r] # "timeout" =>
    /\ span[r] = logged[r].status /\ logged[r].status = counted[r].status
    /\ logged[r].length = counted[r].length

\* The handler wrote no header but with its first call.
NoLateHeader(r) == \A i \in 2 .. Len(calls[r]) : calls[r][i][1] = "Write"

\* What the handler did determines one status: it wrote the header first and
\* once, or no header but data.
Proper(r) ==
  /\ NoLateHeader(r)
  /\ \E i \in 1 .. Len(calls[r]) : calls[r][i][1] = "WriteHeader" \/ calls[r][i][2] > 0

BodyAllowed(r) == method[r] # "HEAD" /\ sent[r].status \notin NoBody

\* For such a handler the metrics tell what the client got: the status and,
\* unless net/http drops it, the length of the body.  If the handler panics
\* after that, they tell what it wrote, and the client gets no more than that.
ProperIsRecorded ==
  \A r \in Requests : pc[r] = "finished" /\ Proper(r) /\ verdict[r] # "timeout" =>
    IF handler[r] = "panicked"
    THEN sent[r].status \in {0, counted[r].status} /\ sent[r].bytes <= counted[r].length
    ELSE /\ counted[r].status = sent[r].status
         /\ sent[r].bytes = IF BodyAllowed(r) THEN counted[r].length ELSE 0

\* hystrix counts a failure exactly when the response has a status 5xx.
VerdictMatchesResponse ==
  \A r \in Requests : Proper(r) /\ verdict[r] \in {"success", "failure"} =>
    (verdict[r] = "failure" <=> sent[r].status \in 500 .. 599)

\* The log line has the id that the handler and the span have, and the caller
\* knows it: it sent it, or finds it in the response.  HttpApacheLogger does
\* not log an id that the caller sent.
OneIdPerRequest ==
  \A r \in Counted :
    /\ logged[r].id = corrID[r] \/ (r \in Apache /\ requestID[r] # "none")
    /\ corrID[r] \in {requestID[r], header[r]} \ {"none"}

\* Behind hystrix every request is answered, even if its handler never returns.
RequestsFinish == \A r \in Wrapped : pc[r] = "handler" ~> pc[r] = "finished" \/ crashed
----------------------------------------------------------------------------
(* The inductive invariant behind the theorems of RequestChainProofs.      *)

\* Where a request is: the way out begins when the handler has ended, or with
\* the timeout.
ControlInv ==
  \A r \in Requests :
    /\ pc[r] = "new" <=> handler[r] = "idle"
    /\ pc[r] = "new" => method[r] = "GET"
    /\ handler[r] = "asking" => pc[r] = "handler" /\ r \in Wrapped
    /\ handler[r] = "running" => pc[r] = "handler" \/ verdict[r] = "timeout"
    /\ pc[r] \in {"new", "handler"} => verdict[r] = "none"
    /\ verdict[r] # "none" => r \in Wrapped
    /\ verdict[r] \in {"success", "failure"} => handler[r] = "returned"
    /\ handler[r] \in {"idle", "asking"} => calls[r] = << >>
    /\ layer[r] # NoCall => handler[r] = "running" /\ calls[r] # << >> /\ layer[r] <= Top(r)

IdInv ==
  \A r \in Requests :
    /\ pc[r] = "new" => header[r] = "none"
    /\ pc[r] # "new" =>
         /\ corrID[r] = IF requestID[r] = "none" THEN "fresh" ELSE requestID[r]
         /\ header[r] = IF requestID[r] = "none" THEN "fresh" ELSE "none"
    /\ pc[r] \in {"metrics", "finish", "finished"} => logged[r].id = LoggedId(r)

\* What is recorded stays true of the writers: nothing writes any more.
RecordInv ==
  \A r \in Requests : verdict[r] # "timeout" =>
    /\ pc[r] \in {"logger", "metrics", "finish", "finished"} => span[r] = StatusCode(r, Logger)
    /\ pc[r] \in {"metrics", "finish", "finished"} =>
         logged[r].status = StatusCode(r, Logger) /\ logged[r].length = contentLength[r][Logger]
    /\ r \in Counted =>
         counted[r].status = StatusCode(r, Metrics) /\ counted[r].length = contentLength[r][Metrics]

VerdictInv ==
  \A r \in Requests : verdict[r] \in {"success", "failure"} =>
    (verdict[r] = "failure" <=> Failure(StatusCode(r, Monitor)))

\* What one more call makes of a status and of a length.
Data(call) == IF call[1] = "Write" THEN call[2] ELSE 0
Status(call, old) == IF call[1] = "WriteHeader" THEN call[2] ELSE old

\* Two neighbouring layers differ by the call that has passed the upper one.
LayersInv ==
  \A r \in Requests : \A l \in 1 .. Top(r) - 1 :
    IF layer[r] = l
    THEN /\ statusCode[r][l + 1] = Status(Last(calls[r]), statusCode[r][l])
         /\ contentLength[r][l + 1] = contentLength[r][l] + Data(Last(calls[r]))
    ELSE statusCode[r][l + 1] = statusCode[r][l] /\ contentLength[r][l + 1] = contentLength[r][l]

\* How many of the handler's calls have passed layer l.
Passed(r, l) == IF layer[r] >= l THEN Len(calls[r]) - 1 ELSE Len(calls[r])

FirstStatus(r) == IF calls[r][1][1] = "WriteHeader" THEN calls[r][1][2] ELSE 0

\* The metrics note the bytes that the server gets, ...
BytesMatch(r) ==
  /\ sent[r].status = 0 => sent[r].bytes = 0
  /\ IF BodyAllowed(r)
     THEN contentLength[r][Metrics] =
            sent[r].bytes + IF layer[r] = 0 THEN Data(Last(calls[r])) ELSE 0
     ELSE sent[r].bytes = 0

\* ... whether there was data, ...
DataNoted(r) ==
  (\E i \in 1 .. Passed(r, Metrics) : Data(calls[r][i]) > 0) => contentLength[r][Metrics] > 0

\* ... and the header, which the server sends, if no other follows it.
FirstCounts(r) ==
  NoLateHeader(r) =>
    /\ statusCode[r][Metrics] = IF Passed(r, Metrics) = 0 THEN 0 ELSE FirstStatus(r)
    /\ IF Passed(r, 0) = 0
       THEN sent[r].status \in {0, OK} /\ (sent[r].status # 0 => pc[r] = "finished")
       ELSE sent[r].status = IF FirstStatus(r) # 0 THEN FirstStatus(r) ELSE OK

ResponseInv ==
  \A r \in Requests :
    pc[r] # "finished" \/ (verdict[r] # "timeout" /\ handler[r] # "panicked") =>
      BytesMatch(r) /\ DataNoted(r) /\ FirstCounts(r)

\* After a panic the client has at most what the metrics noted.
PanicInv ==
  \A r \in Requests : pc[r] = "finished" /\ verdict[r] # "timeout" /\ handler[r] = "panicked" =>
    /\ sent[r].bytes <= contentLength[r][Metrics]
    /\ Proper(r) => sent[r].status \in {0, StatusCode(r, Metrics)}

ChainInv ==
  /\ TypeOK /\ IsFiniteSet({r \in Requests : pc[r] # "new"}) /\ CountersMatch
  /\ ControlInv /\ IdInv /\ RecordInv /\ VerdictInv /\ LayersInv /\ ResponseInv
  /\ PanicInv
=============================================================================
