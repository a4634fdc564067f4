------------------------ MODULE CorrelatedCallsProofs ------------------------
(***************************************************************************)
(* Theorems about CorrelatedCalls, for any services, any choice of options *)
(* among them, any number of calls, and whatever ids and traces clients    *)
(* outside send.  An id leads back along the calls of Do to the one that   *)
(* brought it in, and a trace to its root; the two paths are the same as   *)
(* long as they meet tracers only.                                         *)
(***************************************************************************)
EXTENDS CorrelatedCalls, TLAPS

LEMMA CallsInitInv == Init => CallsInv
<1> SUFFICES ASSUME Init PROVE CallsInv
  OBVIOUS
<1> USE ServiceAssumption DEF Init
<1>1. CallTypes
  BY DEF CallTypes, Calls, IDs, Traces, Edge, NoTrace
<1>2. ProcessInv /\ FreshInv /\ ClientInv /\ ServerInv /\ RootInv /\ OriginInv
  BY DEF ProcessInv, FreshInv, ClientInv, ServerInv, RootInv, OriginInv, Calls
<1>3. QED
  BY <1>1, <1>2 DEF CallsInv

\* The processes come up: no call is touched, no tracer in use is replaced.
LEMMA ProcessSteps ==
  ASSUME CallsInv, NEW s \in Services, SetGlobalTracer(s) \/ ListenHTTP(s) \/ ListenRPC(s)
  PROVE  CallsInv'
<1> USE ServiceAssumption DEF CallsInv, clientVars, serverVars
<1>1. UNCHANGED <<clientVars, serverVars, state>>
  BY DEF SetGlobalTracer, ListenHTTP, ListenRPC
<1>2. CallTypes'
  BY <1>1 DEF CallTypes, SetGlobalTracer, ListenHTTP, ListenRPC
<1>3. ProcessInv'
  BY DEF ProcessInv, CallTypes, SetGlobalTracer, ListenHTTP, ListenRPC, TracerReady
<1>4. \A p \in Services :
        /\ globalTracer[p] = "zipkin" => globalTracer'[p] = "zipkin"
        /\ http[p] = "up" => http'[p] = "up"
  BY DEF CallTypes, SetGlobalTracer, ListenHTTP, ListenRPC
<1>5. FreshInv'
  BY <1>1 DEF FreshInv
<1>9. RootInv'
  <2>1. \A r, d \in Calls, x \in Traces : Root(r, x, d) => Root(r, x, d)'
    BY <1>1 DEF Root, Begins, FromRequest
  <2> SUFFICES ASSUME NEW d \in Calls, NEW x \in {clientTrace[d], trace[d]} \ {NoTrace}
               PROVE  \E r \in Calls : Root(r, x, d)'
    BY <1>1 DEF RootInv
  <2>2. x \in Traces
    BY DEF CallTypes
  <2>3. QED
    BY <2>1, <2>2 DEF RootInv
<1>10. OriginInv'
  BY <1>1 DEF OriginInv
<1>6. ClientInv'
  BY <1>1, <1>4 DEF ClientInv, Told, CallTypes
<1>7. ServerInv'
  BY <1>1, <1>4 DEF ServerInv, FromRequest, ReplyID, CallTypes
<1>8. QED
  BY <1>2, <1>3, <1>5, <1>6, <1>7, <1>9, <1>10

\* What the three ways to make a call have in common: n is the new call, from p
\* to s, with the trace t in its client span, w in its header, the id id and the
\* origin o.
Makes(n, s, how, p, by, t, w, id, o) ==
  /\ n = called + 1 /\ NewCall(s, how, p, by)
  /\ UNCHANGED <<processVars, serverVars>>
  /\ state' = [state EXCEPT ![called'] = IF by = "Do" THEN "spanned" ELSE "sent"]
  /\ clientTrace' = [clientTrace EXCEPT ![called'] = t]
  /\ wireTrace' = [wireTrace EXCEPT ![called'] = w]
  /\ wireID' = [wireID EXCEPT ![called'] = id]
  /\ origin' = [origin EXCEPT ![called'] = o]
  /\ t \in Traces /\ w \in Traces /\ id \in IDs /\ o \in Calls
  /\ how = "rpc" => by = "edge"
  /\ w \in IF by = "edge" THEN {NoTrace} \cup OuterTraces ELSE {NoTrace}
  /\ by # "Do" => t = NoTrace /\ o = n /\ Told(id)
  /\ by = "plain" => id = None
  /\ by = "Do" => /\ p \in 1 .. called /\ state[p] = "served"
                  /\ id = corrID[p] /\ t = DoSpan(p, n)
                  /\ o = IF corrID[p] = None THEN n ELSE origin[p]

LEMMA NewCallSteps ==
  ASSUME CallsInv, NEW n, NEW s \in Services, NEW how \in {"http", "rpc"}, NEW p \in 0 .. MaxCall,
         NEW by \in {"edge", "Do", "plain"}, NEW t, NEW w, NEW id, NEW o,
         Makes(n, s, how, p, by, t, w, id, o)
  PROVE  CallsInv'
<1> DEFINE st == IF by = "Do" THEN "spanned" ELSE "sent"
<1> USE ServiceAssumption DEF CallsInv, processVars, serverVars, NewCall, Makes
<1>1. n \in Calls /\ called' = n /\ state[n] = "new"
  BY DEF CallTypes, FreshInv, Calls
<1>2. CallTypes'
  BY <1>1 DEF CallTypes, Calls
<1>3. ProcessInv'
  BY DEF ProcessInv
<1>4. /\ clientTrace[n] = NoTrace /\ wireTrace[n] = NoTrace /\ trace[n] = NoTrace
      /\ wireID[n] = None /\ corrID[n] = None /\ replyID[n] = None /\ origin[n] = n
  BY <1>1 DEF FreshInv
<1>5. FreshInv'
  BY <1>1, <1>4 DEF FreshInv, CallTypes, Calls
<1>6. /\ \A c \in Calls \ {n} :
           /\ state'[c] = state[c] /\ service'[c] = service[c] /\ kind'[c] = kind[c]
           /\ from'[c] = from[c] /\ via'[c] = via[c] /\ origin'[c] = origin[c]
           /\ clientTrace'[c] = clientTrace[c] /\ wireTrace'[c] = wireTrace[c]
           /\ wireID'[c] = wireID[c] /\ FromRequest(c)' = FromRequest(c)
      /\ state'[n] = st /\ service'[n] = s /\ kind'[n] = how /\ from'[n] = p /\ via'[n] = by
      /\ clientTrace'[n] = t /\ wireTrace'[n] = w /\ wireID'[n] = id /\ origin'[n] = o
  BY <1>1 DEF CallTypes, FromRequest
<1>7. by = "Do" => /\ t # NoTrace => globalTracer[service[p]] = "zipkin"
                   /\ IF trace[p] # NoTrace THEN t = trace[p] ELSE t \in {NoTrace, n}
  BY DEF DoSpan, StartSpan, ServerInv, Calls, CallTypes
<1>8. ClientInv'
  <2>1. \A x \in IDs : Told(x) => Told(x)'
    BY <1>1, <1>6 DEF Told
  <2> SUFFICES ASSUME NEW c \in Calls, state'[c] # "new" PROVE ClientInv!(c)'
    BY DEF ClientInv
  <2>2. CASE c = n
    <3>1. by # "Do" => Told(id)'
      BY <2>1
    <3>2. by = "Do" => p \in Calls /\ p # n /\ state'[p] = "served" /\ origin'[p] = origin[p]
                       /\ service'[p] = service[p]
      BY <1>1, <1>6 DEF Calls, CallTypes
    <3>3. QED
      BY <1>1, <1>4, <1>6, <1>7, <2>2, <3>1, <3>2 DEF Up, CallTypes
  <2>3. CASE c # n
    <3>1. from[c] \in Calls /\ state[from[c]] = "served" => from[c] # n
      BY <1>1
    <3>2. via[c] # "Do" /\ state[c] # "new" => Told(wireID[c])'
      BY <1>6, <2>1, <2>3 DEF ClientInv, CallTypes
    <3>3. QED
      BY <1>1, <1>6, <2>3, <3>1, <3>2 DEF ClientInv, CallTypes
  <2>4. QED
    BY <2>2, <2>3
<1>9. ServerInv'
  BY <1>1, <1>6 DEF ServerInv, ReplyID
<1>10. \A r, c \in Calls, x \in Traces : r # n /\ c # n /\ Root(r, x, c) => Root(r, x, c)'
  BY <1>6 DEF Root, Begins
<1>11. RootInv'
  <2> SUFFICES ASSUME NEW c \in Calls, NEW x \in {clientTrace'[c], trace[c]} \ {NoTrace}
               PROVE  \E r \in Calls : Root(r, x, c)'
    BY DEF RootInv
  <2>1. CASE c # n
    <3>1. x \in {clientTrace[c], trace[c]} \ {NoTrace} /\ x \in Traces
      BY <1>6, <2>1 DEF CallTypes
    <3>2. PICK r \in Calls : Root(r, x, c)
      BY <3>1 DEF RootInv
    <3>3. r # n
      BY <1>1, <2>1, <3>2 DEF Root
    <3>4. QED
      BY <1>10, <2>1, <3>1, <3>2, <3>3
  <2>2. CASE c = n
    <3>1. by = "Do" /\ x = t
      BY <1>4, <1>6, <2>2
    <3>2. CASE x = n
      BY <1>1, <2>2, <3>2 DEF Root, Begins
    <3>3. CASE x # n
      <4>1. x = trace[p] /\ p \in Calls /\ state[p] = "served" /\ trace[p] # NoTrace
        BY <1>7, <3>1, <3>3 DEF Calls, CallTypes
      <4>2. p # n /\ x \in Traces
        BY <1>1, <4>1 DEF CallTypes
      <4>3. CASE kind[p] = "rpc"
        <5>1. Begins(p, x)
          BY <4>1, <4>3 DEF ServerInv, ClientInv, Begins
        <5>2. Root(p, x, n)'
          BY <1>6, <4>1, <4>2, <4>3, <5>1 DEF Root, Begins
        <5>3. QED
          BY <2>2, <4>1, <5>2
      <4>4. CASE kind[p] = "http"
        <5>1. PICK r \in Calls : Root(r, x, p)
          BY <4>1 DEF RootInv
        <5>2. state[r] = "served" /\ r # n /\ Begins(r, x)
          BY <1>1, <4>1, <5>1 DEF Root
        <5>3. corrID[p] = FromRequest(p) /\ corrID[p] # None
          BY <4>1, <4>4 DEF ServerInv, FromRequest, None
        <5>4. FromRequest(n)' = FromRequest(p)
          BY <1>6, <3>1, <5>3 DEF FromRequest
        <5>5. Root(r, x, n)'
          BY <1>6, <5>1, <5>2, <5>4 DEF Root, Begins
        <5>6. QED
          BY <2>2, <5>5
      <4>5. QED
        BY <4>1, <4>3, <4>4 DEF CallTypes
    <3>4. QED
      BY <3>2, <3>3
  <2>3. QED
    BY <2>1, <2>2
<1>12. OriginInv'
  <2> SUFFICES ASSUME NEW c \in Calls, state'[c] = "served", kind'[c] = "http"
               PROVE  OriginInv!(c)'
    BY DEF OriginInv
  <2>1. c # n /\ state[c] = "served" /\ kind[c] = "http"
    BY <1>6
  <2>2. origin[c] # n /\ origin[c] \in Calls
    BY <1>1, <2>1 DEF OriginInv, CallTypes
  <2>3. QED
    BY <1>1, <1>6, <2>1, <2>2 DEF OriginInv
<1>13. QED
  BY <1>2, <1>3, <1>5, <1>8, <1>9, <1>11, <1>12

LEMMA ClientSteps ==
  ASSUME CallsInv, NEW s \in Services,
         \/ \E how \in {"http", "rpc"} : EdgeCall(s, how)
         \/ \E p \in 1 .. called : PlainCall(p, s) \/ DoStart(p, s)
  PROVE  CallsInv'
<1> USE ServiceAssumption
<1>1. PICK n \in Nat : n = called + 1
  BY DEF CallsInv, CallTypes
<1>2. CallTypes /\ n # 0
  BY <1>1 DEF CallsInv, CallTypes
<1>3. 0 \in Traces /\ (n \in Calls => origin[n] = n /\ n \in Traces)
  BY <1>1, <1>2 DEF CallsInv, FreshInv, CallTypes, Calls, Traces
<1>4. ASSUME NEW how \in {"http", "rpc"}, EdgeCall(s, how) PROVE CallsInv'
  <2>1. n \in Calls /\ called' = n
    BY <1>1, <1>2, <1>4 DEF EdgeCall, NewCall, CallTypes, Calls
  <2>2. /\ clientTrace' = [clientTrace EXCEPT ![called'] = NoTrace]
        /\ origin' = [origin EXCEPT ![called'] = n]
    BY <1>1, <1>3, <1>4, <2>1 DEF EdgeCall, CallsInv, FreshInv, CallTypes
  <2>3. PICK id \in IF how = "http" THEN EdgeIDs ELSE {None} :
               wireID' = [wireID EXCEPT ![called'] = id]
    BY <1>4, <2>1 DEF EdgeCall
  <2>4. PICK w \in {NoTrace} \cup OuterTraces : wireTrace' = [wireTrace EXCEPT ![called'] = w]
    BY <1>4, <2>1 DEF EdgeCall
  <2>5. /\ NewCall(s, how, 0, "edge")
        /\ UNCHANGED <<processVars, serverVars>>
        /\ state' = [state EXCEPT ![called'] = "sent"]
    BY <1>4 DEF EdgeCall, Edge
  <2>6. id \in IDs /\ Told(id)
    <3>1. CASE id \in {None} \cup OuterIDs
      BY <3>1 DEF IDs, Told
    <3>2. ASSUME NEW c \in 1 .. called, via[c] = "edge", id = replyID[c], id # None
          PROVE  id \in IDs /\ Told(id)
      <4>1. c \in Calls
        BY <1>2, <2>1 DEF CallTypes, Calls
      <4>2. state[c] = "served" /\ replyID[c] = ReplyID(c)
        BY <1>2, <3>2, <4>1 DEF CallsInv, FreshInv, ServerInv, CallTypes
      <4>3. id = <<"made", c>>
        BY <3>2, <4>2 DEF ReplyID, FromRequest
      <4>4. QED
        BY <3>2, <4>1, <4>2, <4>3 DEF IDs, Told
    <3>3. QED
      BY <2>3, <3>1, <3>2 DEF EdgeIDs
  <2>7. w \in Traces /\ 0 \in 0 .. MaxCall
    BY <1>2, <1>3 DEF Traces, NoTrace
  <2>8. Makes(n, s, how, 0, "edge", 0, w, id, n)
    BY <1>1, <1>3, <2>1, <2>2, <2>3, <2>4, <2>5, <2>6, <2>7 DEF Makes, NoTrace
  <2>9. QED
    BY <2>1, <2>8, NewCallSteps, <2>7
<1>5. ASSUME NEW p \in 1 .. called, PlainCall(p, s) PROVE CallsInv'
  <2>1. n \in Calls /\ called' = n /\ p \in 0 .. MaxCall
    BY <1>1, <1>2, <1>5 DEF PlainCall, NewCall, CallTypes, Calls
  <2>2. /\ clientTrace' = [clientTrace EXCEPT ![called'] = NoTrace]
        /\ wireTrace' = [wireTrace EXCEPT ![called'] = NoTrace]
        /\ wireID' = [wireID EXCEPT ![called'] = None]
        /\ origin' = [origin EXCEPT ![called'] = n]
    BY <1>1, <1>3, <1>5, <2>1 DEF PlainCall, CallsInv, FreshInv, CallTypes
  <2>3. /\ NewCall(s, "http", p, "plain")
        /\ UNCHANGED <<processVars, serverVars>>
        /\ state' = [state EXCEPT ![called'] = "sent"]
    BY <1>5 DEF PlainCall
  <2>4. None \in IDs /\ Told(None)
    BY DEF IDs, Told
  <2>5. Makes(n, s, "http", p, "plain", 0, 0, None, n)
    BY <1>1, <1>3, <2>1, <2>2, <2>3, <2>4 DEF Makes, NoTrace
  <2>6. QED
    BY <2>1, <2>5, NewCallSteps
<1>6. ASSUME NEW p \in 1 .. called, DoStart(p, s) PROVE CallsInv'
  <2>1. n \in Calls /\ called' = n /\ p \in 0 .. MaxCall /\ p \in Calls
    BY <1>1, <1>2, <1>6 DEF DoStart, NewCall, CallTypes, Calls
  <2>2. DoSpan(p, n) \in Traces /\ corrID[p] \in IDs
    BY <1>2, <1>3, <2>1 DEF DoSpan, StartSpan, CallTypes, NoTrace
  <2>3. PICK o \in Calls : o = IF corrID[p] = None THEN n ELSE origin[p]
    BY <1>2, <2>1 DEF CallTypes
  <2>4. /\ NewCall(s, "http", p, "Do") /\ state[p] = "served"
        /\ UNCHANGED <<processVars, serverVars>>
        /\ state' = [state EXCEPT ![called'] = "spanned"]
        /\ wireID' = [wireID EXCEPT ![called'] = corrID[p]]
        /\ origin' = [origin EXCEPT ![called'] = o]
        /\ clientTrace' = [clientTrace EXCEPT ![called'] = DoSpan(p, n)]
    BY <1>6, <2>1, <2>3 DEF DoStart
  <2>5. wireTrace' = [wireTrace EXCEPT ![called'] = NoTrace]
    BY <1>1, <1>6, <2>1 DEF DoStart, CallsInv, FreshInv, CallTypes
  <2>6. Makes(n, s, "http", p, "Do", DoSpan(p, n), 0, corrID[p], o)
    BY <1>1, <1>3, <2>1, <2>2, <2>3, <2>4, <2>5 DEF Makes, NoTrace
  <2>7. QED
    BY <2>1, <2>6, NewCallSteps
<1>7. QED
  BY <1>4, <1>5, <1>6

\* Do injects the span it has started: the tracer is the same, or there was
\* none before and there is no span.
LEMMA DoSendInv ==
  ASSUME CallsInv, NEW c \in 1 .. called, DoSend(c)
  PROVE  CallsInv'
<1> USE DEF CallsInv, DoSend, processVars, serverVars
<1>1. c \in Calls
  BY ServiceAssumption DEF CallTypes, Calls
<1>2. CallTypes' /\ ProcessInv' /\ FreshInv'
  BY <1>1 DEF CallTypes, ProcessInv, FreshInv
<1>3. wireTrace'[c] = clientTrace[c] /\ \A d \in Calls \ {c} : wireTrace'[d] = wireTrace[d]
  BY <1>1 DEF ClientInv, CallTypes
<1>4. \A d \in Calls : (state'[d] = "served" <=> state[d] = "served") /\ (state'[d] = "new" <=> state[d] = "new")
  BY <1>1 DEF CallTypes
<1>5. ClientInv'
  <2>1. \A x \in IDs : Told(x)' <=> Told(x)
    BY <1>4 DEF Told
  <2>2. via[c] = "Do"
    BY <1>1 DEF ClientInv
  <2>3. QED
    BY <1>1, <1>3, <1>4, <2>1, <2>2 DEF ClientInv, CallTypes
<1>6. ServerInv'
  <2> SUFFICES ASSUME NEW d \in Calls, state'[d] = "served" PROVE ServerInv!(d)'
    BY DEF ServerInv
  <2>1. state[d] = "served" /\ wireTrace'[d] = wireTrace[d]
    BY <1>1, <1>3, <1>4 DEF CallTypes
  <2>2. FromRequest(d)' = FromRequest(d) /\ ReplyID(d)' = ReplyID(d)
    BY DEF FromRequest, ReplyID
  <2>3. QED
    BY <2>1, <2>2 DEF ServerInv
<1>7. RootInv'
  <2>1. \A r, d \in Calls, x \in Traces : Root(r, x, d) => Root(r, x, d)'
    <3>1. via[c] = "Do"
      BY <1>1 DEF ClientInv
    <3>2. QED
      BY <1>3, <1>4, <3>1 DEF Root, Begins, FromRequest
  <2> SUFFICES ASSUME NEW d \in Calls, NEW x \in {clientTrace[d], trace[d]} \ {NoTrace}
               PROVE  \E r \in Calls : Root(r, x, d)'
    BY DEF RootInv
  <2>2. x \in Traces
    BY DEF CallTypes
  <2>3. QED
    BY <2>1, <2>2 DEF RootInv
<1>9. OriginInv'
  BY <1>1, <1>4 DEF OriginInv, CallTypes
<1>8. QED
  BY <1>2, <1>5, <1>6, <1>7, <1>9

\* A server that uses the tracer has it when it is up.
LEMMA ServeHTTPInv ==
  ASSUME CallsInv, NEW c \in 1 .. called, ServeHTTP(c)
  PROVE  CallsInv'
<1> USE DEF CallsInv, ServeHTTP, processVars, clientVars
<1>1. c \in Calls
  BY ServiceAssumption DEF CallTypes, Calls
<1>2. /\ \A d \in Calls \ {c} : /\ corrID'[d] = corrID[d] /\ trace'[d] = trace[d]
                               /\ replyID'[d] = replyID[d] /\ state'[d] = state[d]
      /\ state'[c] = "served" /\ corrID'[c] = FromRequest(c) /\ replyID'[c] = ReplyID(c)
  BY <1>1 DEF CallTypes
<1>3. \A d \in Calls : FromRequest(d)' = FromRequest(d) /\ ReplyID(d)' = ReplyID(d)
  BY DEF FromRequest, ReplyID
<1>4. trace'[c] = IF service[c] \notin UseZipkin THEN NoTrace
                  ELSE IF wireTrace[c] = NoTrace THEN c ELSE wireTrace[c]
  BY <1>1 DEF ServerSpan, StartSpan, CallTypes, ClientInv, ProcessInv
<1>5. trace'[c] # NoTrace => globalTracer[service[c]] = "zipkin"
  BY <1>1, <1>4 DEF CallTypes, ClientInv, ProcessInv
<1>6. CallTypes'
  <2>1. FromRequest(c) \in IDs /\ ReplyID(c) \in IDs
    BY <1>1 DEF CallTypes, FromRequest, ReplyID, IDs
  <2>2. ServerSpan(c) \in Traces
    <3>1. wireTrace[c] \in Traces
      BY <1>1 DEF CallTypes
    <3>2. c \in Traces /\ NoTrace \in Traces
      BY <1>1, ServiceAssumption DEF Traces, Calls, NoTrace
    <3>3. QED
      BY <3>1, <3>2 DEF ServerSpan, StartSpan
  <2>3. corrID' \in [Calls -> IDs] /\ replyID' \in [Calls -> IDs]
    BY <1>1, <2>1 DEF CallTypes
  <2>4. trace' \in [Calls -> Traces]
    BY <1>1, <2>2 DEF CallTypes
  <2>5. state' \in [Calls -> {"new", "spanned", "sent", "served"}]
    BY <1>1 DEF CallTypes
  <2>6. QED
    BY <2>3, <2>4, <2>5 DEF CallTypes
<1>7. ProcessInv' /\ FreshInv'
  BY <1>1, <1>2 DEF ProcessInv, FreshInv
<1>8. ClientInv'
  <2>1. \A x \in IDs : Told(x) => Told(x)'
    BY <1>2 DEF Told
  <2> SUFFICES ASSUME NEW d \in Calls, state'[d] # "new" PROVE ClientInv!(d)'
    BY DEF ClientInv
  <2>2. state[d] # "new" /\ (state[from[d]] = "served" => from[d] # c)
    BY <1>2
  <2>3. via[d] # "Do" => Told(wireID[d])'
    BY <2>1, <2>2 DEF ClientInv, CallTypes
  <2>4. QED
    BY <1>2, <2>2, <2>3 DEF ClientInv, CallTypes
<1>9. ServerInv'
  BY <1>2, <1>3, <1>4, <1>5 DEF ServerInv
<1>10. RootInv'
  <2>1. \A r, d \in Calls, x \in Traces : Root(r, x, d) => Root(r, x, d)'
    BY <1>2, <1>3 DEF Root, Begins
  <2> SUFFICES ASSUME NEW d \in Calls, NEW x \in {clientTrace[d], trace'[d]} \ {NoTrace}
               PROVE  \E r \in Calls : Root(r, x, d)'
    BY DEF RootInv
  <2>2. x \in Traces
    BY <1>6 DEF CallTypes
  <2>3. CASE x \in {clientTrace[d], trace[d]}
    BY <2>1, <2>2, <2>3 DEF RootInv
  <2>4. CASE x \notin {clientTrace[d], trace[d]}
    <3>1. d = c /\ (x = c \/ x = wireTrace[c])
      BY <1>2, <1>4, <2>4
    <3>2. Begins(c, x)
      BY <1>1, <2>4, <3>1 DEF ClientInv, Begins
    <3>3. Root(c, x, c)'
      BY <1>3, <3>2 DEF Root, Begins
    <3>4. QED
      BY <1>1, <3>1, <3>3
  <2>5. QED
    BY <2>3, <2>4
<1>11. OriginInv'
  <2> SUFFICES ASSUME NEW d \in Calls, state'[d] = "served", kind[d] = "http"
               PROVE  OriginInv!(d)'
    BY DEF OriginInv
  <2>1. CASE d # c
    <3>1. state[d] = "served" /\ origin[d] # c /\ origin[d] \in Calls
      BY <1>2, <2>1 DEF OriginInv, CallTypes
    <3>2. QED
      BY <1>2, <2>1, <3>1 DEF OriginInv
  <2>2. CASE d = c
    <3> DEFINE p == from[c]
    <3>1. CASE via[c] = "Do" /\ corrID[p] # None
      <4>1. /\ p \in Calls /\ state[p] = "served" /\ p # c
            /\ wireID[c] = corrID[p] /\ origin[c] = origin[p] /\ corrID'[c] = corrID[p]
        BY <1>1, <1>2, <3>1 DEF ClientInv, FromRequest
      <4>2. kind[p] = "http"
        BY <3>1, <4>1 DEF ServerInv, CallTypes
      <4>3. PICK o \in Calls : o = origin[p]
        BY <4>1 DEF CallTypes
      <4>4. /\ state[o] = "served" /\ kind[o] = "http" /\ origin[o] = o /\ corrID[o] = corrID[p]
            /\ wireID[o] = None \/ via[o] = "edge"
            /\ \/ trace[o] = trace[p]
               \/ \E e \in Calls : /\ state[e] = "served" /\ kind[e] = "http"
                                   /\ origin[e] = o /\ service[e] \notin UseZipkin
        BY <4>1, <4>2, <4>3 DEF OriginInv
      <4>5. o # c
        BY <4>4
      <4>6. \/ trace'[o] = trace'[c]
            \/ \E e \in Calls : /\ state'[e] = "served" /\ kind[e] = "http"
                                /\ origin[e] = o /\ service[e] \notin UseZipkin
        <5>1. CASE service[c] \notin UseZipkin
          BY <1>1, <1>2, <4>1, <4>3, <5>1
        <5>2. CASE service[p] \notin UseZipkin
          BY <1>2, <4>1, <4>2, <4>3, <4>4, <5>2
        <5>3. CASE service[c] \in UseZipkin /\ service[p] \in UseZipkin
          <6>1. trace[p] # NoTrace
            BY <4>1, <4>2, <5>3 DEF ServerInv, Calls, NoTrace
          <6>2. trace'[c] = trace[p]
            BY <1>1, <1>4, <3>1, <5>3, <6>1 DEF ClientInv
          <6>3. QED
            BY <1>2, <4>4, <4>5, <6>2
        <5>4. QED
          BY <5>1, <5>2, <5>3
      <4>7. state'[o] = "served" /\ corrID'[o] = corrID'[c] /\ origin[c] = o
        BY <1>2, <4>1, <4>3, <4>4, <4>5
      <4>8. QED
        BY <2>2, <4>4, <4>6, <4>7
    <3>2. CASE ~(via[c] = "Do" /\ corrID[p] # None)
      <4>1. origin[c] = c /\ (wireID[c] = None \/ via[c] = "edge")
        BY <1>1, <3>2 DEF ClientInv, CallTypes
      <4>2. QED
        BY <1>1, <1>2, <2>2, <4>1
    <3>3. QED
      BY <3>1, <3>2
  <2>3. QED
    BY <2>1, <2>2
<1>12. QED
  BY <1>6, <1>7, <1>8, <1>9, <1>10, <1>11

\* A handler of an RPC has no id; its trace came with the call or begins with it.
LEMMA ServeRPCInv ==
  ASSUME CallsInv, NEW c \in 1 .. called, ServeRPC(c)
  PROVE  CallsInv'
<1> USE DEF CallsInv, ServeRPC, processVars, clientVars
<1>1. c \in Calls /\ state[c] = "sent" /\ kind[c] = "rpc" /\ via[c] = "edge"
  BY ServiceAssumption DEF CallTypes, Calls, ClientInv
<1>2. /\ \A d \in Calls \ {c} : trace'[d] = trace[d] /\ state'[d] = state[d]
      /\ state'[c] = "served"
      /\ trace'[c] \in {NoTrace, IF wireTrace[c] = NoTrace THEN c ELSE wireTrace[c]}
      /\ trace'[c] # NoTrace => globalTracer[service[c]] = "zipkin"
  BY <1>1 DEF CallTypes, StartSpan, ProcessInv
<1>3. \A d \in Calls : FromRequest(d)' = FromRequest(d) /\ ReplyID(d)' = ReplyID(d)
  BY DEF FromRequest, ReplyID
<1>4. CallTypes'
  <2>1. trace'[c] \in Traces
    <3>1. wireTrace[c] \in Traces
      BY <1>1 DEF CallTypes
    <3>2. c \in Traces /\ NoTrace \in Traces
      BY <1>1, ServiceAssumption DEF Traces, Calls, NoTrace
    <3>3. QED
      BY <1>2, <3>1, <3>2
  <2>2. trace' \in [Calls -> Traces]
    BY <1>1, <1>2, <2>1 DEF CallTypes
  <2>3. QED
    BY <1>1, <2>2 DEF CallTypes
<1>5. ProcessInv' /\ FreshInv'
  BY <1>1, <1>2 DEF ProcessInv, FreshInv
<1>6. ClientInv'
  <2>1. \A x \in IDs : Told(x) => Told(x)'
    BY <1>2 DEF Told
  <2> SUFFICES ASSUME NEW d \in Calls, state'[d] # "new" PROVE ClientInv!(d)'
    BY DEF ClientInv
  <2>2. state[d] # "new" /\ (state[from[d]] = "served" => from[d] # c)
    BY <1>1, <1>2
  <2>3. via[d] # "Do" => Told(wireID[d])'
    BY <2>1, <2>2 DEF ClientInv, CallTypes
  <2>4. QED
    BY <1>1, <1>2, <2>2, <2>3 DEF ClientInv, CallTypes
<1>7. ServerInv'
  BY <1>1, <1>2, <1>3 DEF ServerInv, FreshInv
<1>8. RootInv'
  <2>1. \A r, d \in Calls, x \in Traces : Root(r, x, d) => Root(r, x, d)'
    BY <1>2, <1>3 DEF Root, Begins
  <2> SUFFICES ASSUME NEW d \in Calls, NEW x \in {clientTrace[d], trace'[d]} \ {NoTrace}
               PROVE  \E r \in Calls : Root(r, x, d)'
    BY DEF RootInv
  <2>2. x \in Traces
    BY <1>4 DEF CallTypes
  <2>3. CASE x \in {clientTrace[d], trace[d]}
    BY <2>1, <2>2, <2>3 DEF RootInv
  <2>4. CASE x \notin {clientTrace[d], trace[d]}
    <3>1. d = c /\ Begins(c, x)
      BY <1>1, <1>2, <2>4 DEF Begins
    <3>2. Root(c, x, c)'
      BY <1>3, <3>1 DEF Root, Begins
    <3>3. QED
      BY <1>1, <3>1, <3>2
  <2>5. QED
    BY <2>3, <2>4
<1>9. OriginInv'
  <2> SUFFICES ASSUME NEW d \in Calls, state'[d] = "served", kind[d] = "http"
               PROVE  OriginInv!(d)'
    BY DEF OriginInv
  <2>1. d # c /\ state[d] = "served" /\ origin[d] # c /\ origin[d] \in Calls
    BY <1>1, <1>2 DEF OriginInv, CallTypes
  <2>2. \A e \in Calls : state[e] = "served" => state'[e] = "served" /\ trace'[e] = trace[e]
    BY <1>1, <1>2
  <2>3. QED
    BY <2>1, <2>2 DEF OriginInv
<1>10. QED
  BY <1>4, <1>5, <1>6, <1>7, <1>8, <1>9

LEMMA CallsNextInv == CallsInv /\ [Next]_vars => CallsInv'
<1> SUFFICES ASSUME CallsInv, [Next]_vars PROVE CallsInv'
  OBVIOUS
<1>1. CASE UNCHANGED vars
  <2> USE <1>1 DEF CallsInv, vars, processVars, clientVars, serverVars
  <2>1. CallTypes' /\ ProcessInv' /\ FreshInv'
    BY DEF CallTypes, ProcessInv, FreshInv
  <2>2. ClientInv'
    BY DEF ClientInv, Told
  <2>3. ServerInv'
    BY DEF ServerInv, FromRequest, ReplyID
  <2>4. RootInv'
    <3>1. \A r, d \in Calls, x \in Traces : Root(r, x, d) => Root(r, x, d)'
      BY DEF Root, Begins, FromRequest
    <3> SUFFICES ASSUME NEW d \in Calls, NEW x \in {clientTrace[d], trace[d]} \ {NoTrace}
                 PROVE  \E r \in Calls : Root(r, x, d)'
      BY DEF RootInv
    <3>2. x \in Traces
      BY DEF CallTypes
    <3>3. QED
      BY <3>1, <3>2 DEF RootInv
  <2>5. OriginInv'
    BY DEF OriginInv
  <2>6. QED
    BY <2>1, <2>2, <2>3, <2>4, <2>5
<1>2. CASE \E s \in Services : SetGlobalTracer(s) \/ ListenHTTP(s) \/ ListenRPC(s)
  BY <1>2, ProcessSteps
<1>3. CASE \E s \in Services :
             \/ \E how \in {"http", "rpc"} : EdgeCall(s, how)
             \/ \E p \in 1 .. called : PlainCall(p, s) \/ DoStart(p, s)
  BY <1>3, ClientSteps
<1>4. CASE \E c \in 1 .. called : DoSend(c) \/ ServeHTTP(c) \/ ServeRPC(c)
  BY <1>4, DoSendInv, ServeHTTPInv, ServeRPCInv
<1>5. QED
  BY <1>1, <1>2, <1>3, <1>4 DEF Next

\* In every state each span has its root and each id its origin, however the
\* servers come up and the calls of all handlers interleave.
THEOREM CallsInvariance == Spec => []CallsInv
BY CallsInitInv, CallsNextInv, PTL DEF Spec

LEMMA ServedCall ==
  ASSUME CallsInv, NEW how, NEW c \in Served(how)
  PROVE  c \in Calls /\ state[c] = "served" /\ kind[c] = how
BY ServiceAssumption DEF CallsInv, CallTypes, Served, Calls

LEMMA CallServed ==
  ASSUME CallsInv, NEW c \in Calls, state[c] = "served"
  PROVE  c \in 1 .. called /\ (kind[c] = "http" => c \in Served("http"))
BY ServiceAssumption DEF CallsInv, FreshInv, CallTypes, Served, Calls

\* One trace has one id, for any services, any number of calls, and whatever ids
\* and traces come from outside.
THEOREM OneIdPerTrace == Spec => []TraceHasOneId
<1>1. CallsInv => TraceHasOneId
  <2> SUFFICES ASSUME CallsInv, NEW c \in Served("http"), trace[c] # NoTrace
               PROVE  \E root \in 1 .. called :
                        /\ Begins(root, trace[c])
                        /\ kind[root] = "http" => corrID[c] \in {wireID[root], replyID[root]} \ {None}
    BY DEF TraceHasOneId
  <2>1. c \in Calls /\ state[c] = "served" /\ kind[c] = "http"
    BY ServedCall
  <2>2. PICK r \in Calls : Root(r, trace[c], c)
    BY <2>1 DEF CallsInv, RootInv
  <2>3. state[r] = "served" /\ r \in 1 .. called
    BY <2>1, <2>2, CallServed DEF Root
  <2>4. kind[r] = "http" => corrID[c] = FromRequest(r) /\ replyID[r] = ReplyID(r)
    BY <2>1, <2>2, <2>3 DEF CallsInv, Root, ServerInv
  <2>5. kind[r] = "http" => corrID[c] \in {wireID[r], replyID[r]} \ {None}
    BY <2>4 DEF ReplyID, FromRequest, None
  <2>6. QED
    BY <2>2, <2>3, <2>5 DEF Root
<1>2. QED
  BY <1>1, CallsInvariance, PTL

\* One id has one trace where all services that met it use the tracer; an id
\* that came in with two calls came in at the edge, with one of them at least
\* because its client knew it.
THEOREM OneTracePerId == Spec => []IdHasOneTrace
<1>1. CallsInv => IdHasOneTrace
  <2> SUFFICES ASSUME CallsInv, NEW c \in Served("http"), NEW d \in Served("http"),
                      corrID[c] = corrID[d]
               PROVE  IF origin[c] = origin[d]
                      THEN \/ trace[c] = trace[d]
                           \/ \E e \in Served("http") : origin[e] = origin[c] /\ service[e] \notin UseZipkin
                      ELSE /\ via[origin[c]] = "edge" /\ via[origin[d]] = "edge"
                           /\ corrID[c] \in {wireID[origin[c]], wireID[origin[d]]}
    BY DEF IdHasOneTrace
  <2>1. /\ c \in Calls /\ state[c] = "served" /\ kind[c] = "http"
        /\ d \in Calls /\ state[d] = "served" /\ kind[d] = "http"
    BY ServedCall
  <2>2. PICK o \in Calls : o = origin[c]
    BY <2>1 DEF CallsInv, CallTypes
  <2>3. PICK p \in Calls : p = origin[d]
    BY <2>1 DEF CallsInv, CallTypes
  <2>4. CASE o = p
    <3>1. ASSUME NEW e \in Calls, state[e] = "served", kind[e] = "http",
                 origin[e] = o, service[e] \notin UseZipkin
          PROVE  \E f \in Served("http") : origin[f] = o /\ service[f] \notin UseZipkin
      BY <3>1, CallServed
    <3> DEFINE Untraced(e) == /\ state[e] = "served" /\ kind[e] = "http"
                              /\ origin[e] = o /\ service[e] \notin UseZipkin
    <3>2. \A x \in {c, d} : trace[o] = trace[x] \/ \E e \in Calls : Untraced(e)
      <4> SUFFICES ASSUME NEW x \in {c, d} PROVE trace[o] = trace[x] \/ \E e \in Calls : Untraced(e)
        OBVIOUS
      <4>1. x \in Calls /\ state[x] = "served" /\ kind[x] = "http" /\ origin[x] = o
        BY <2>1, <2>2, <2>3, <2>4
      <4>2. QED
        BY <4>1 DEF CallsInv, OriginInv
    <3>3. CASE \E e \in Calls : Untraced(e)
      BY <2>2, <2>3, <2>4, <3>1, <3>3
    <3>4. QED
      BY <2>2, <2>3, <2>4, <3>2, <3>3
  <2>5. CASE o # p
    <3>1. /\ state[o] = "served" /\ kind[o] = "http" /\ corrID[o] = corrID[c]
          /\ wireID[o] = None \/ via[o] = "edge"
          /\ state[p] = "served" /\ kind[p] = "http" /\ corrID[p] = corrID[c]
          /\ wireID[p] = None \/ via[p] = "edge"
      BY <2>1, <2>2, <2>3 DEF CallsInv, OriginInv
    <3>2. corrID[c] = FromRequest(o) /\ corrID[c] = FromRequest(p)
      BY <3>1 DEF CallsInv, ServerInv
    <3>3. ~(wireID[o] = None /\ wireID[p] = None)
      BY <2>5, <3>2 DEF FromRequest
    <3>4. ASSUME NEW x \in Calls, NEW y \in Calls, wireID[x] = None, wireID[y] # None,
                 via[y] = "edge", state[y] = "served", FromRequest(x) = FromRequest(y)
          PROVE  via[x] = "edge" /\ FromRequest(x) = wireID[y]
      <4>1. wireID[y] = <<"made", x>>
        BY <3>4 DEF FromRequest
      <4>2. Told(wireID[y])
        BY <3>4 DEF CallsInv, ClientInv
      <4>3. <<"made", x>> \notin {None} \cup OuterIDs
        BY OutsideAssumption DEF None
      <4>4. via[x] = "edge"
        BY <4>1, <4>2, <4>3 DEF Told
      <4>5. QED
        BY <3>4, <4>4 DEF FromRequest
    <3>5. via[o] = "edge" /\ via[p] = "edge"
      BY <3>1, <3>2, <3>3, <3>4
    <3>6. corrID[c] \in {wireID[o], wireID[p]}
      BY <3>2, <3>3 DEF FromRequest
    <3>7. QED
      BY <2>2, <2>3, <2>5, <3>5, <3>6
  <2>6. QED
    BY <2>4, <2>5
<1>2. QED
  BY <1>1, CallsInvariance, PTL

\* The calls of one handler by Do stay in its trace.
THEOREM DoKeepsTrace == Spec => []DoStaysInTrace
<1>1. CallsInv => DoStaysInTrace
  <2> SUFFICES ASSUME CallsInv, NEW c \in Served("http"), via[c] = "Do",
                      service[c] \in UseZipkin, service[from[c]] \in UseZipkin
               PROVE  trace[c] = trace[from[c]] \/ (kind[from[c]] = "rpc" /\ trace[from[c]] = NoTrace)
    BY DEF DoStaysInTrace
  <2>1. c \in Calls /\ state[c] = "served" /\ kind[c] = "http"
    BY ServedCall
  <2>2. from[c] \in Calls /\ state[from[c]] = "served"
    BY <2>1 DEF CallsInv, ClientInv
  <2>3. CASE trace[from[c]] = NoTrace
    <3>1. CASE kind[from[c]] = "rpc"
      BY <2>3, <3>1
    <3>2. CASE kind[from[c]] = "http"
      BY <2>2, <2>3, <3>2 DEF CallsInv, ServerInv, Calls, NoTrace
    <3>3. QED
      BY <2>2, <3>1, <3>2 DEF CallsInv, CallTypes
  <2>4. CASE trace[from[c]] # NoTrace
    BY <2>1, <2>4 DEF CallsInv, ClientInv, ServerInv
  <2>5. QED
    BY <2>3, <2>4
<1>2. QED
  BY <1>1, CallsInvariance, PTL
=============================================================================
