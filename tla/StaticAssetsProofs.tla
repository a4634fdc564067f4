------------------------- MODULE StaticAssetsProofs -------------------------
(***************************************************************************)
(* Theorems about StaticAssets, for any instances, releases and roll-out:  *)
(* what the client shows after an answer, compared with the release that   *)
(* answered.                                                               *)
(***************************************************************************)
EXTENDS StaticAssets, TLAPS

LEMMA ReleaseTimes ==
  /\ None \notin Releases /\ Releases \subseteq Nat /\ Tags \subseteq Nat /\ Times \subseteq Nat
  /\ \A v \in Releases : ModTime(v) \in Times /\ ModTime(v) \in Nat
<1>1. None \notin Releases /\ Releases \subseteq Nat /\ Tags \subseteq Nat
  BY ReleaseAssumption DEF None, Tags
<1>2. \A v \in Releases : ModTime(v) \in Nat
  BY ReleaseAssumption DEF ModTime
<1>3. Times \subseteq Nat /\ \A v \in Releases : ModTime(v) \in Times
  BY <1>2 DEF Times, None
<1>4. QED
  BY <1>1, <1>2, <1>3

LEMMA AssetsInit == ASSUME Init PROVE AssetsInv
<1>1. cache = Empty /\ Empty \in [content : Tags, etag : Tags, date : Times]
  BY DEF Init, Empty, Tags, Times
<1>2. TypeOK
  BY <1>1 DEF Init, TypeOK, Tags
<1>3. CacheInv
  BY <1>1 DEF CacheInv, Empty
<1>4. RequestInv /\ ResponseInv
  BY DEF Init, RequestInv, ResponseInv
<1>5. TagAloneIsExact /\ NeverOlder
  BY DEF Init, TagAloneIsExact, NeverOlder, Answered
<1>6. QED
  BY <1>2, <1>3, <1>4, <1>5 DEF AssetsInv

\* The client sends its own validators.
LEMMA SendStep == ASSUME AssetsInv, Send PROVE AssetsInv'
<1>1. PICK gzip \in BOOLEAN, etag \in {None, cache.etag}, date \in {None, cache.date} :
        /\ request' = [gzip |-> gzip, etag |-> etag, date |-> date]
        /\ dated' = (dated \/ date # None)
  BY DEF Send
<1>2. UNCHANGED <<running, response, cache, shown>> /\ response = NoResponse
  BY DEF Send
<1>3. etag \in Tags /\ date \in Times
  BY DEF AssetsInv, TypeOK, Tags, Times
<1>4. request' \in [gzip : BOOLEAN, etag : Tags, date : Times]
  BY <1>1, <1>3
<1>5. dated' \in BOOLEAN /\ (dated => dated')
  BY <1>1 DEF AssetsInv, TypeOK
<1>6. TypeOK'
  BY <1>2, <1>4, <1>5 DEF AssetsInv, TypeOK
<1>7. CacheInv' /\ TagAloneIsExact' /\ NeverOlder'
  BY <1>2, <1>5 DEF AssetsInv, CacheInv, TagAloneIsExact, NeverOlder, Answered
<1>8. request'.etag = etag /\ request'.date = date /\ (date # None => dated')
  BY <1>1
<1>9. RequestInv' /\ ResponseInv'
  BY <1>1, <1>2, <1>8 DEF RequestInv, ResponseInv
<1>10. QED
  BY <1>6, <1>7, <1>9 DEF AssetsInv

LEMMA AnswerOf ==
  ASSUME NEW v \in Releases, NEW status \in {200, 304, 404}, NEW etag \in Tags, NEW date \in Times
  PROVE  /\ Answer(v, status, etag, date) \in Answers
         /\ Answer(v, status, etag, date).status = status
         /\ Answer(v, status, etag, date).release = v
         /\ Answer(v, status, etag, date).etag = etag
         /\ Answer(v, status, etag, date).date = date
BY DEF Answer, Tags, Answers

\* A file is packed once or not at all, and its header says which.
LEMMA BodyOf ==
  ASSUME TypeOK, NEW v \in Releases
  PROVE  /\ Body(v).status = 200 /\ Body(v).release = v
         /\ Body(v).etag = v /\ Body(v).date = ModTime(v)
         /\ Body(v).encoding \in {"none", "gzip"}
         /\ Body(v).data \in [content : Tags, gzips : Nat] /\ Body(v).data.content = v
         /\ Readable(Body(v))
         /\ Body(v) \in Answers
<1>1. PICK e \in {"none", "gzip"}, g \in {0, 1} :
        /\ e = IF (compress /\ request.gzip) \/ SendsPacked(v) THEN "gzip" ELSE "none"
        /\ g = IF (compress /\ request.gzip) \/ SendsPacked(v) THEN 1 ELSE 0
  OBVIOUS
<1>2. Body(v) = [Answer(v, 200, v, ModTime(v)) EXCEPT
                   !.encoding = e, !.data = [content |-> v, gzips |-> g]]
  <2>1. CASE compress /\ request.gzip
    <3>1. ~SendsPacked(v)
      BY <2>1 DEF SendsPacked
    <3>2. QED
      BY <1>1, <2>1, <3>1 DEF Body, Hash, Data
  <2>2. CASE ~(compress /\ request.gzip)
    BY <1>1, <2>2 DEF Body, Hash, Data
  <2>3. QED
    BY <2>1, <2>2
<1>3. v \in Tags /\ ModTime(v) \in Times
  BY ReleaseTimes DEF Tags
<1>4. PICK a, d : a = Answer(v, 200, v, ModTime(v)) /\ d = [content |-> v, gzips |-> g]
  OBVIOUS
<1>5. /\ a \in Answers
      /\ a.status = 200 /\ a.release = v /\ a.etag = v /\ a.date = ModTime(v)
  BY <1>3, <1>4, AnswerOf
<1>6. d \in [content : Tags, gzips : Nat] /\ d.content = v /\ d.gzips = g
  BY <1>3, <1>4
<1>7. PICK b : b = [a EXCEPT !.encoding = e, !.data = d]
  OBVIOUS
<1>8. /\ b \in Answers
      /\ b.status = 200 /\ b.release = v /\ b.etag = v /\ b.date = ModTime(v)
      /\ b.encoding = e /\ b.data = d
  <2>1. /\ b.status = 200 /\ b.release = v /\ b.etag = v /\ b.date = ModTime(v)
        /\ b.encoding = e /\ b.data = d
    BY <1>5, <1>7 DEF Answers
  <2>2. PICK c : c = [a EXCEPT !.encoding = e]
    OBVIOUS
  <2>3. c \in Answers
    BY <1>5, <2>2 DEF Answers
  <2>4. PICK D : D = [content : Tags, gzips : Nat]
    OBVIOUS
  <2>5. [c EXCEPT !.data = d] \in Answers
    BY <1>6, <2>3, <2>4 DEF Answers
  <2>6. b = [c EXCEPT !.data = d]
    BY <1>7, <2>2
  <2>7. QED
    BY <2>1, <2>5, <2>6
<1>9. Readable(b)
  BY <1>1, <1>6, <1>8 DEF Readable
<1>10. Body(v) = b
  BY <1>2, <1>4, <1>7
<1>11. QED
  BY <1>6, <1>8, <1>9, <1>10

\* One answer of an instance, whatever release it runs by then.
LEMMA ServeStep == ASSUME AssetsInv, NEW i \in Instances, Serve(i) PROVE AssetsInv'
<1> USE ReleaseTimes
<1>1. PICK v \in Releases : v = running[i]
  <2>1. running \in [Instances -> Releases]
    BY DEF AssetsInv, TypeOK
  <2>2. QED
    BY <2>1
<1>2. /\ request # NoRequest /\ request' = NoRequest /\ response' = ServeHTTP(v)
      /\ UNCHANGED <<running, cache, shown, dated>>
  BY <1>1 DEF Serve
<1>3. /\ request.etag \in {None, cache.etag} /\ request.date \in {None, cache.date}
      /\ request.date # None => dated
  BY <1>2 DEF AssetsInv, RequestInv
<1>4. None \in Tags /\ None \in Times /\ v \in Tags /\ v # None
  BY DEF Tags, Times
<1>5. cache.etag # None \/ cache.date # None => cache.content # None
  BY DEF AssetsInv, CacheInv, Empty
<1>6. /\ response' \in Answers
      /\ ResponseInv'
  <2>1. CASE ~Found(v)
    <3>1. response' = Answer(v, 404, None, None)
      BY <1>2, <2>1 DEF ServeHTTP
    <3>2. QED
      BY <1>4, <3>1, AnswerOf DEF ResponseInv
  <2>2. CASE Found(v) /\ TagMatches(v)
    <3>1. response' = Answer(v, 304, None, None)
      BY <1>2, <2>2 DEF ServeHTTP
    <3>2. cache.etag = v /\ cache.content # None
      BY <1>3, <1>4, <1>5, <2>2 DEF TagMatches, Hash
    <3>3. /\ response' \in Answers
          /\ response'.status = 304 /\ response'.release = v
          /\ response'.etag = None /\ response'.date = None
      BY <1>4, <3>1, AnswerOf
    <3>4. QED
      BY <1>2, <3>2, <3>3 DEF ResponseInv
  <2>3. CASE Found(v) /\ ~TagMatches(v) /\ UnmodifiedSince(v)
    <3>1. response' = Answer(v, 304, v, None)
      BY <1>2, <2>3 DEF ServeHTTP, Hash
    <3>2. request.date # None /\ ModTime(v) < request.date + 1
      BY <2>3 DEF UnmodifiedSince
    <3>3. cache.date # None /\ ModTime(v) < cache.date + 1 /\ dated
      BY <1>3, <3>2
    <3>4. cache.content # None /\ ModTime(v) <= cache.date
      <4>1. cache \in [content : Tags, etag : Tags, date : Times]
        BY DEF AssetsInv, TypeOK
      <4>2. PICK t, m : t = cache.date /\ m = ModTime(v)
        OBVIOUS
      <4>3. t \in Nat /\ m \in Nat
        BY <4>1, <4>2
      <4>4. m <= t
        BY <3>3, <4>2, <4>3
      <4>5. QED
        BY <1>5, <3>3, <4>2, <4>4
    <3>5. /\ response' \in Answers
          /\ response'.status = 304 /\ response'.release = v
          /\ response'.etag = v /\ response'.date = None
      BY <1>4, <3>1, AnswerOf
    <3>6. QED
      BY <1>2, <3>3, <3>4, <3>5 DEF ResponseInv
  <2>4. CASE Found(v) /\ ~TagMatches(v) /\ ~UnmodifiedSince(v)
    <3>1. response' = Body(v)
      BY <1>2, <2>4 DEF ServeHTTP
    <3>2. PICK b : b = Body(v)
      OBVIOUS
    <3>3. /\ b \in Answers
          /\ b.status = 200 /\ b.release = v /\ b.etag = v /\ b.date = ModTime(v)
          /\ b.data.content = v /\ Readable(b)
      BY <3>2, BodyOf DEF AssetsInv
    <3>4. response' = b
      BY <3>1, <3>2
    <3>5. QED
      BY <3>3, <3>4 DEF ResponseInv, Readable
  <2>5. QED
    BY <2>1, <2>2, <2>3, <2>4
<1>7. TypeOK'
  BY <1>2, <1>6 DEF AssetsInv, TypeOK
<1>8. CacheInv' /\ RequestInv' /\ TagAloneIsExact' /\ NeverOlder'
  BY <1>2 DEF AssetsInv, CacheInv, RequestInv, TagAloneIsExact, NeverOlder, Answered
<1>9. QED
  BY <1>6, <1>7, <1>8 DEF AssetsInv

\* What the client shows then: a new file, its own, or nothing.
LEMMA ReceiveStep == ASSUME AssetsInv, Receive PROVE AssetsInv'
<1> USE ReleaseTimes
<1>1. /\ response # NoResponse /\ response' = NoResponse
      /\ request = NoRequest /\ UNCHANGED <<running, request, dated>>
  BY DEF Receive, AssetsInv, TypeOK
<1>2. PICK v : v = response.release
  OBVIOUS
<1>3. /\ response \in Answers
      /\ cache \in [content : Tags, etag : Tags, date : Times] /\ v \in Releases /\ v # None
      /\ ModTime(v) \in Nat /\ cache.date \in Nat
  <2>1. /\ response \in Answers
        /\ cache \in [content : Tags, etag : Tags, date : Times]
    BY <1>1 DEF AssetsInv, TypeOK
  <2>2. v \in Releases /\ v # None /\ cache.date \in Times
    BY <1>2, <2>1 DEF Answers
  <2>3. ModTime(v) \in Nat /\ cache.date \in Nat
    BY <2>2
  <2>4. QED
    BY <2>1, <2>2, <2>3
<1>4. /\ response.status = 200 => /\ Readable(response) /\ response.data.content = v
                                  /\ response.etag = v /\ response.date = ModTime(v)
      /\ response.status = 304 =>
           /\ cache.content # None /\ response.date = None
           /\ \/ response.etag = None /\ cache.etag = v
              \/ response.etag = v /\ ModTime(v) <= cache.date /\ dated
  BY <1>1, <1>2 DEF AssetsInv, ResponseInv
<1>5. shown' = [content |-> cache'.content, release |-> v,
                readable |-> response.status # 200 \/ Readable(response)]
  BY <1>2 DEF Receive
<1>6. /\ cache' \in [content : Tags, etag : Tags, date : Times] /\ CacheInv'
      /\ cache'.content # None =>
           /\ ModTime(cache'.content) >= ModTime(v)
           /\ dated \/ cache'.content = v
  <2>1. CASE response.status = 200
    <3>1. cache' = [content |-> v, etag |-> v, date |-> ModTime(v)]
      BY <1>4, <2>1 DEF Receive
    <3>2. QED
      BY <1>1, <1>3, <3>1 DEF CacheInv, Tags
  <2>2. CASE response.status = 304 /\ response.etag = None
    <3>1. response.date = None /\ cache.etag = v /\ cache.content # None
      BY <1>3, <1>4, <2>2
    <3>2. cache' = [cache EXCEPT !.etag = Newer(response.etag, cache.etag),
                                 !.date = Newer(response.date, cache.date)]
      BY <2>2 DEF Receive
    <3>3. Newer(response.etag, cache.etag) = v /\ Newer(response.date, cache.date) = cache.date
      BY <2>2, <3>1 DEF Newer
    <3>4. /\ cache'.content = cache.content /\ cache'.etag = v /\ cache'.date = cache.date
          /\ cache' \in [content : Tags, etag : Tags, date : Times]
      BY <1>3, <3>2, <3>3 DEF Tags
    <3>5. QED
      BY <1>1, <1>3, <3>1, <3>4 DEF AssetsInv, CacheInv
  <2>3. CASE response.status = 304 /\ response.etag # None
    <3>1. response.etag = v /\ ModTime(v) <= cache.date /\ dated /\ response.date = None
      BY <1>4, <2>3
    <3>2. cache' = [cache EXCEPT !.etag = v, !.date = cache.date]
      <4>1. cache' = [cache EXCEPT !.etag = Newer(response.etag, cache.etag),
                                   !.date = Newer(response.date, cache.date)]
        BY <2>3 DEF Receive
      <4>2. Newer(response.etag, cache.etag) = v /\ Newer(response.date, cache.date) = cache.date
        BY <2>3, <3>1 DEF Newer
      <4>3. QED
        BY <4>1, <4>2
    <3>3. /\ cache'.content = cache.content /\ cache'.etag = v /\ cache'.date = cache.date
          /\ cache' \in [content : Tags, etag : Tags, date : Times]
      BY <1>3, <3>2 DEF Tags
    <3>4. cache.content # None /\ cache.date = ModTime(cache.content)
      BY <1>4, <2>3 DEF AssetsInv, CacheInv
    <3>5. QED
      BY <1>1, <1>3, <3>1, <3>3, <3>4 DEF CacheInv
  <2>4. CASE response.status = 404
    <3>1. cache' = Empty
      BY <2>4 DEF Receive
    <3>2. QED
      BY <3>1 DEF CacheInv, Empty, Tags, Times
  <2>5. response.status \in {200, 304, 404}
    BY <1>3 DEF Answers
  <2>6. QED
    BY <2>1, <2>2, <2>3, <2>4, <2>5
<1>7. (response.status # 200 \/ Readable(response)) = TRUE
  BY <1>4
<1>8. shown' = [content |-> cache'.content, release |-> v, readable |-> TRUE]
  BY <1>5, <1>7
<1>9. TypeOK'
  BY <1>1, <1>3, <1>6, <1>8 DEF AssetsInv, TypeOK, Tags
<1>10. TagAloneIsExact' /\ NeverOlder'
  BY <1>1, <1>6, <1>8 DEF TagAloneIsExact, NeverOlder, Answered
<1>11. RequestInv' /\ ResponseInv'
  BY <1>1 DEF RequestInv, ResponseInv
<1>12. QED
  BY <1>6, <1>9, <1>10, <1>11 DEF AssetsInv

LEMMA DeployStep == ASSUME AssetsInv, NEW i \in Instances, Deploy(i) PROVE AssetsInv'
<1>1. UNCHANGED <<request, response, cache, shown, dated>>
  BY DEF Deploy
<1>2. running' \in [Instances -> Releases]
  BY DEF Deploy, AssetsInv, TypeOK
<1>3. TypeOK'
  BY <1>1, <1>2 DEF AssetsInv, TypeOK
<1>4. QED
  BY <1>1, <1>3 DEF AssetsInv, CacheInv, RequestInv, ResponseInv, TagAloneIsExact, NeverOlder,
                    Answered, Readable

\* The inductive invariant: what the client's cache, its request and the
\* answer on its way say of each other.
THEOREM AssetsInvariance == Spec => []AssetsInv
<1>1. Init => AssetsInv
  BY AssetsInit
<1>2. AssetsInv /\ [Next]_vars => AssetsInv'
  <2> SUFFICES ASSUME AssetsInv, [Next]_vars PROVE AssetsInv'
    OBVIOUS
  <2>1. CASE Send
    BY <2>1, SendStep
  <2>2. CASE Receive
    BY <2>2, ReceiveStep
  <2>3. ASSUME NEW i \in Instances, Serve(i) PROVE AssetsInv'
    BY <2>3, ServeStep
  <2>4. ASSUME NEW i \in Instances, Deploy(i) PROVE AssetsInv'
    BY <2>4, DeployStep
  <2>5. CASE UNCHANGED vars
    BY <2>5 DEF vars, AssetsInv, TypeOK, CacheInv, RequestInv, ResponseInv, TagAloneIsExact,
                NeverOlder, Answered, Readable
  <2>6. QED
    BY <2>1, <2>2, <2>3, <2>4, <2>5 DEF Next
<1>3. QED
  BY <1>1, <1>2, PTL DEF Spec

\* A client that validates by ETag only shows the content of the release that
\* answered, and every client can read what it is sent.
THEOREM TagIsExact == Spec => []TagAloneIsExact
<1>1. AssetsInv => TagAloneIsExact
  BY DEF AssetsInv
<1>2. QED
  BY <1>1, AssetsInvariance, PTL

\* A client that sends dates never keeps a file older than the release's.
THEOREM DateIsNeverOlder == Spec => []NeverOlder
<1>1. AssetsInv => NeverOlder
  BY DEF AssetsInv
<1>2. QED
  BY <1>1, AssetsInvariance, PTL
=============================================================================
