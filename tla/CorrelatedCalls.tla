--------------------------- MODULE CorrelatedCalls ---------------------------
(***************************************************************************)
(* Correlation ids and traces across services.  A service that server.Run  *)
(* has launched answers HTTP, behind the tracer of handlers/opentracer.go  *)
(* or the plain id middleware of server/server.go, and gRPC, behind the    *)
(* interceptors chosen there.  A handler calls other services with the Do  *)
(* of zipkin/client.go, or with its Get, Head, Post and PostForm, which    *)
(* send neither id nor span.                                               *)
(*                                                                         *)
(* The tracer is a global variable of the process: the no-op tracer until  *)
(* the goroutine of the HTTP server stores its own.  The goroutine of the  *)
(* gRPC server passes the value it finds to its interceptor, for good; Do  *)
(* reads it twice, to start a span and to inject it.                       *)
(*                                                                         *)
(* A client outside may send any id and any trace, again and again: one of *)
(* its own, or an id that a response has told it.                          *)
(*                                                                         *)
(* Abstraction: a call is a number; an id made for call c is               *)
(* <<"made", c>>.  A span is known by its trace: the number of the call    *)
(* where the trace begins, or the one that a client outside sent, or 0 for *)
(* the span of the no-op tracer.  A handler may go on making calls for     *)
(* ever, in any number of goroutines.  openzipkin and otgrpc are external. *)
(***************************************************************************)
EXTENDS Integers, FiniteSets

CONSTANTS
  Services,
  UseZipkin,   \* the services with the option WithZipkinTracer
  RPCRegister, \* the services with a gRPC server
  OuterIDs,    \* the ids, and the traces, that clients outside have of their own
  OuterTraces,
  MaxEdge,     \* bound: the calls from outside
  MaxCall      \* bound: all calls

ASSUME ServiceAssumption ==
  /\ Services # {} /\ {UseZipkin, RPCRegister} \subseteq SUBSET Services
  /\ {MaxEdge, MaxCall} \subseteq Nat

Calls == 1 .. MaxCall
None == <<"none", 0>>
Edge == 0
NoTrace == 0

IDs == {None} \cup OuterIDs \cup {"made"} \X Calls
Traces == 0 .. MaxCall \cup OuterTraces

ASSUME OutsideAssumption ==
  /\ OuterIDs \cap ({None} \cup {"made"} \X Calls) = {}
  /\ OuterTraces \cap 0 .. MaxCall = {}

VARIABLES
  http,         \* the HTTP server: "down" or "up"
  globalTracer, \* of each process: "noop" or "zipkin"
  interceptor,  \* of the gRPC server: "down", "plain", "noop" or "zipkin"
  called,       \* the number of the last call
  state,        \* of a call: "new", "spanned", "sent", "served"
  service,      \* the service it calls
  kind,         \* "http" or "rpc"
  from,         \* the call whose handler makes it, or Edge
  via,          \* "edge", "Do" or "plain"
  origin,       \* history: the call with which its id came in or was made
  clientTrace,  \* the trace of the span that Do starts for it
  wireID,       \* the id in its request header
  wireTrace,    \* the trace in its request header
  corrID,       \* the id in its handler's context
  trace,        \* the trace of its server span
  replyID       \* the id in its response header

processVars == <<http, globalTracer, interceptor>>
clientVars == <<called, service, kind, from, via, origin, clientTrace, wireID, wireTrace>>
serverVars == <<corrID, trace, replyID>>
vars == <<processVars, clientVars, serverVars, state>>

Init ==
  /\ http = [s \in Services |-> "down"]
  /\ globalTracer = [s \in Services |-> "noop"]
  /\ interceptor = [s \in Services |-> "down"]
  /\ called = 0
  /\ state = [c \in Calls |-> "new"]
  /\ service = [c \in Calls |-> CHOOSE s \in Services : TRUE]
  /\ kind = [c \in Calls |-> "http"]
  /\ from = [c \in Calls |-> Edge]
  /\ via = [c \in Calls |-> "edge"]
  /\ origin = [c \in Calls |-> c]
  /\ clientTrace = [c \in Calls |-> NoTrace]
  /\ wireID = [c \in Calls |-> None]
  /\ wireTrace = [c \in Calls |-> NoTrace]
  /\ corrID = [c \in Calls |-> None]
  /\ trace = [c \in Calls |-> NoTrace]
  /\ replyID = [c \in Calls |-> None]

----------------------------------------------------------------------------
(* The processes.                                                          *)

\* NewTracer, in the goroutine of the HTTP server, before it listens.
SetGlobalTracer(s) ==
  /\ s \in UseZipkin /\ globalTracer[s] = "noop"
  /\ globalTracer' = [globalTracer EXCEPT ![s] = "zipkin"]
  /\ UNCHANGED <<http, interceptor, clientVars, serverVars, state>>

\* Mutant: the server listens before the tracer is set.
TracerReadyEarly(s) == TRUE

TracerReady(s) == s \in UseZipkin => globalTracer[s] = "zipkin"

ListenHTTP(s) ==
  /\ http[s] = "down" /\ TracerReady(s)
  /\ http' = [http EXCEPT ![s] = "up"]
  /\ UNCHANGED <<globalTracer, interceptor, clientVars, serverVars, state>>

\* The goroutine of the gRPC server builds its chain of interceptors.
ListenRPC(s) ==
  /\ s \in RPCRegister /\ interceptor[s] = "down"
  /\ interceptor' = [interceptor EXCEPT ![s] =
                       IF s \in UseZipkin THEN globalTracer[s] ELSE "plain"]
  /\ UNCHANGED <<http, globalTracer, clientVars, serverVars, state>>

----------------------------------------------------------------------------
(* The client.                                                             *)

Up(s, how) == IF how = "http" THEN http[s] = "up" ELSE interceptor[s] # "down"

\* A call is made from call p, or from the edge, to a service that is up.
NewCall(s, how, p, by) ==
  /\ called < MaxCall /\ Up(s, how)
  /\ called' = called + 1
  /\ service' = [service EXCEPT ![called'] = s]
  /\ kind' = [kind EXCEPT ![called'] = how]
  /\ from' = [from EXCEPT ![called'] = p]
  /\ via' = [via EXCEPT ![called'] = by]

\* The ids a client outside may send: its own, or one from a response.
EdgeIDs == {None} \cup OuterIDs \cup {replyID[c] : c \in {d \in 1 .. called : via[d] = "edge"}}

\* A client outside calls, perhaps with an id, if over HTTP, and a trace.
EdgeCall(s, how) ==
  /\ Cardinality({c \in 1 .. called : from[c] = Edge}) < MaxEdge
  /\ NewCall(s, how, Edge, "edge")
  /\ state' = [state EXCEPT ![called'] = "sent"]
  /\ \E id \in IF how = "http" THEN EdgeIDs ELSE {None} :
       wireID' = [wireID EXCEPT ![called'] = id]
  /\ \E t \in {NoTrace} \cup OuterTraces : wireTrace' = [wireTrace EXCEPT ![called'] = t]
  /\ UNCHANGED <<origin, clientTrace, processVars, serverVars>>

\* Get, Head, Post and PostForm: the embedded http.Client's, with a request
\* that has neither the handler's context nor its headers.
PlainCall(p, s) ==
  /\ state[p] = "served"
  /\ NewCall(s, "http", p, "plain")
  /\ state' = [state EXCEPT ![called'] = "sent"]
  /\ UNCHANGED <<origin, clientTrace, wireID, wireTrace, processVars, serverVars>>

\* openzipkin: the trace of a span that call c's tracer starts.
StartSpan(tracer, parent, c) ==
  IF tracer = "noop" THEN NoTrace ELSE IF parent = NoTrace THEN c ELSE parent

\* Mutant: the span in the context is not the parent.
DoSpanRoot(p, c) == StartSpan(globalTracer[service[p]], NoTrace, c)

\* The span of Do is a child of the one in the context, if there is one.
DoSpan(p, c) == StartSpan(globalTracer[service[p]], trace[p], c)

\* TraceClient.Do up to the span: the id of the context goes into the header.
DoStart(p, s) ==
  /\ state[p] = "served"
  /\ NewCall(s, "http", p, "Do")
  /\ state' = [state EXCEPT ![called'] = "spanned"]
  /\ wireID' = [wireID EXCEPT ![called'] = corrID[p]]
  /\ origin' = [origin EXCEPT ![called'] = IF corrID[p] = None THEN called' ELSE origin[p]]
  /\ clientTrace' = [clientTrace EXCEPT ![called'] = DoSpan(p, called')]
  /\ UNCHANGED <<wireTrace, processVars, serverVars>>

\* The rest of Do: Inject by the tracer of this moment.  openzipkin: neither
\* tracer injects a span of the no-op tracer, nor does the no-op tracer.
DoSend(c) ==
  /\ state[c] = "spanned"
  /\ state' = [state EXCEPT ![c] = "sent"]
  /\ wireTrace' = [wireTrace EXCEPT ![c] =
       IF globalTracer[service[from[c]]] = "noop" THEN NoTrace ELSE clientTrace[c]]
  /\ UNCHANGED <<called, service, kind, from, via, origin, clientTrace, wireID,
                 processVars, serverVars>>

----------------------------------------------------------------------------
(* The server.                                                             *)

\* Mutant: an id in the request is not used.
FromRequestFresh(c) == <<"made", c>>

\* correlationID.FromRequest: the id that came, or a new one.
FromRequest(c) == IF wireID[c] = None THEN <<"made", c>> ELSE wireID[c]

\* The span joins the trace in the request's header; the plain middleware
\* starts none.
ServerSpan(c) ==
  IF service[c] \in UseZipkin
  THEN StartSpan(globalTracer[service[c]], wireTrace[c], c) ELSE NoTrace

\* The id goes back only to a caller that sent none.
ReplyID(c) == IF wireID[c] = None THEN FromRequest(c) ELSE None

\* The tracer, or the plain middleware of a service without it, up to the
\* handler.
ServeHTTP(c) ==
  /\ state[c] = "sent" /\ kind[c] = "http"
  /\ state' = [state EXCEPT ![c] = "served"]
  /\ corrID' = [corrID EXCEPT ![c] = FromRequest(c)]
  /\ replyID' = [replyID EXCEPT ![c] = ReplyID(c)]
  /\ trace' = [trace EXCEPT ![c] = ServerSpan(c)]
  /\ UNCHANGED <<clientVars, processVars>>

\* otgrpc's interceptor, with the tracer it was given and the trace that came,
\* then grpcEndpointLog, which calls the handler with the same context: there
\* is no id in it.
ServeRPC(c) ==
  /\ state[c] = "sent" /\ kind[c] = "rpc"
  /\ state' = [state EXCEPT ![c] = "served"]
  /\ trace' = [trace EXCEPT ![c] =
       IF interceptor[service[c]] = "zipkin" THEN StartSpan("zipkin", wireTrace[c], c) ELSE NoTrace]
  /\ UNCHANGED <<corrID, replyID, clientVars, processVars>>

Next ==
  \/ \E s \in Services :
       \/ SetGlobalTracer(s) \/ ListenHTTP(s) \/ ListenRPC(s)
       \/ \E how \in {"http", "rpc"} : EdgeCall(s, how)
       \/ \E p \in 1 .. called : PlainCall(p, s) \/ DoStart(p, s)
  \/ \E c \in 1 .. called : DoSend(c) \/ ServeHTTP(c) \/ ServeRPC(c)

Spec == Init /\ [][Next]_vars
----------------------------------------------------------------------------
(* Properties.                                                             *)

Served(how) == {c \in 1 .. called : kind[c] = how /\ state[c] = "served"}

\* Trace t comes into the system with call c.
Begins(c, t) == c = t \/ (via[c] = "edge" /\ wireTrace[c] = t)

\* One trace has one id, and whoever made the call it came in with knows it: it
\* sent the id or finds it in the response.  Only a trace that came in at a gRPC
\* server, which has no ids, may have several; so may one that a client outside
\* sends with several calls, each with its own id.
TraceHasOneId ==
  \A c \in Served("http") : trace[c] # NoTrace =>
    \E root \in 1 .. called :
      /\ Begins(root, trace[c])
      /\ kind[root] = "http" => corrID[c] \in {wireID[root], replyID[root]} \ {None}

\* One id has one trace, if every service that met the id uses the tracer:
\* whatever the order in which the servers of their processes came up.  Two
\* calls with one id that do not go back to the same one go back to two from
\* outside, of which one at least sent an id that was known already.
IdHasOneTrace ==
  \A c, d \in Served("http") :
    LET o == origin[c]
        p == origin[d]
    IN corrID[c] = corrID[d] =>
         IF o = p
         THEN \/ trace[c] = trace[d]
              \/ \E e \in Served("http") : origin[e] = o /\ service[e] \notin UseZipkin
         ELSE /\ via[o] = "edge" /\ via[p] = "edge"
              /\ corrID[c] \in {wireID[o], wireID[p]}

\* All calls that one handler makes with Do belong to its trace, in a process
\* with the tracer, except those of a gRPC server that was set up before it.
DoStaysInTrace ==
  \A c \in Served("http") :
    via[c] = "Do" /\ {service[c], service[from[c]]} \subseteq UseZipkin
      => trace[c] = trace[from[c]] \/ (kind[from[c]] = "rpc" /\ trace[from[c]] = NoTrace)
----------------------------------------------------------------------------
(* The inductive invariant behind the theorems of CorrelatedCallsProofs.   *)

CallTypes ==
  /\ http \in [Services -> {"down", "up"}]
  /\ globalTracer \in [Services -> {"noop", "zipkin"}]
  /\ interceptor \in [Services -> {"down", "plain", "noop", "zipkin"}]
  /\ called \in 0 .. MaxCall
  /\ state \in [Calls -> {"new", "spanned", "sent", "served"}]
  /\ service \in [Calls -> Services]
  /\ kind \in [Calls -> {"http", "rpc"}]
  /\ from \in [Calls -> 0 .. MaxCall]
  /\ via \in [Calls -> {"edge", "Do", "plain"}]
  /\ origin \in [Calls -> Calls]
  /\ {wireID, corrID, replyID} \subseteq [Calls -> IDs]
  /\ {clientTrace, wireTrace, trace} \subseteq [Calls -> Traces]

\* A tracer that is in use is the one that stays.
ProcessInv ==
  \A s \in Services :
    (s \in UseZipkin /\ http[s] = "up") \/ interceptor[s] = "zipkin" => globalTracer[s] = "zipkin"

\* What a call has not come to yet is empty.
FreshInv ==
  \A c \in Calls :
    /\ state[c] = "new" <=> c > called
    /\ state[c] = "new" => clientTrace[c] = NoTrace /\ wireID[c] = None /\ origin[c] = c
    /\ state[c] \in {"new", "spanned"} => wireTrace[c] = NoTrace
    /\ state[c] # "served" => trace[c] = NoTrace /\ corrID[c] = None /\ replyID[c] = None

\* What a client outside may have as an id: its own, or that of an earlier
\* response.
Told(id) ==
  id \in {None} \cup OuterIDs \/
  \E c \in Calls : id = <<"made", c>> /\ state[c] = "served" /\ via[c] = "edge"

\* A call goes to a server that is up; one by Do has the id of its handler's
\* context, with its origin, and, in that handler's trace, a span; one from
\* outside has what its client sends, others have neither id nor span.
ClientInv ==
  \A c \in Calls : state[c] # "new" =>
    /\ kind[c] = "http" => http[service[c]] = "up"
    /\ kind[c] = "rpc" => via[c] = "edge"
    /\ via[c] = "Do" =>
         /\ from[c] \in Calls /\ state[from[c]] = "served"
         /\ wireID[c] = corrID[from[c]]
         /\ origin[c] = IF corrID[from[c]] = None THEN c ELSE origin[from[c]]
         /\ clientTrace[c] # NoTrace => globalTracer[service[from[c]]] = "zipkin"
         /\ IF trace[from[c]] # NoTrace THEN clientTrace[c] = trace[from[c]]
                                        ELSE clientTrace[c] \in {NoTrace, c}
    /\ via[c] # "Do" => clientTrace[c] = NoTrace /\ origin[c] = c /\ Told(wireID[c])
    /\ via[c] = "plain" => wireID[c] = None
    /\ state[c] = "spanned" => via[c] = "Do"
    /\ IF via[c] = "edge" THEN wireTrace[c] \in {NoTrace} \cup OuterTraces
       ELSE state[c] # "spanned" => wireTrace[c] = clientTrace[c]

\* What a server makes of a call.
ServerInv ==
  \A c \in Calls : state[c] = "served" =>
    /\ kind[c] = "http" => corrID[c] = FromRequest(c) /\ replyID[c] = ReplyID(c)
    /\ kind[c] = "http" =>
         trace[c] = IF service[c] \notin UseZipkin THEN NoTrace
                    ELSE IF wireTrace[c] = NoTrace THEN c ELSE wireTrace[c]
    /\ kind[c] = "rpc" =>
         /\ corrID[c] = None /\ replyID[c] = None
         /\ trace[c] \in {NoTrace, IF wireTrace[c] = NoTrace THEN c ELSE wireTrace[c]}
    /\ trace[c] # NoTrace => globalTracer[service[c]] = "zipkin"

\* Trace t, which call c belongs to, came in with call r.
Root(r, t, c) ==
  /\ Begins(r, t) /\ (r # c => state[r] = "served")
  /\ kind[r] = "http" => FromRequest(c) = FromRequest(r)

RootInv ==
  \A c \in Calls : \A t \in {clientTrace[c], trace[c]} \ {NoTrace} :
    \E r \in Calls : Root(r, t, c)

\* An id leads back to the call that brought it into the system.
OriginInv ==
  \A c \in Calls : state[c] = "served" /\ kind[c] = "http" =>
    LET o == origin[c] IN
    /\ state[o] = "served" /\ kind[o] = "http" /\ origin[o] = o /\ corrID[o] = corrID[c]
    /\ wireID[o] = None \/ via[o] = "edge"
    /\ \/ trace[o] = trace[c]
       \/ \E e \in Calls : /\ state[e] = "served" /\ kind[e] = "http"
                           /\ origin[e] = o /\ service[e] \notin UseZipkin

CallsInv ==
  /\ CallTypes /\ ProcessInv /\ FreshInv /\ ClientInv
  /\ ServerInv /\ RootInv /\ OriginInv
=============================================================================
