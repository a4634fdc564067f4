---------------------------- MODULE StaticAssets ----------------------------
(***************************************************************************)
(* The embedded files of serveSwagger/assets.go, served through            *)
(* SwaggerProxy of serveSwagger/serveSwaggerUI.go by several instances of  *)
(* a service, each of some release, to a client with a cache.              *)
(*                                                                         *)
(* A file is compiled into the program with its hash and its modification  *)
(* time.  The client keeps what it got with the ETag and Last-Modified     *)
(* headers and sends, with its next request, both, one or none of them; an *)
(* answer 304 lets it keep the content, and the headers of the answer      *)
(* replace those it has.  Releases are rolled out and back, instance by    *)
(* instance, also while a request is on its way.                           *)
(*                                                                         *)
(* Abstraction: a file's content is the number of its release and stands   *)
(* for its hash too; times are whole seconds, as in the generated table;   *)
(* data is its content and how many times it is gzipped.  The client, the  *)
(* roll-out, net/http and gorilla's CompressHandler are external.          *)
(***************************************************************************)
EXTENDS Integers, FiniteSets

CONSTANTS
  Instances,
  Releases,    \* release numbers; a file of release v was modified ...
  SameSecond,  \* ... in second v, or in second v - 1 if v is one of these
  Lacking,     \* the releases that do not have the file
  Packed       \* the releases that have it in compressed form

ASSUME ReleaseAssumption ==
  /\ Releases \subseteq Nat \ {0} /\ Releases # {}
  /\ {SameSecond, Lacking, Packed} \subseteq SUBSET Releases

None == 0

VARIABLES
  running,   \* the release that an instance runs
  compress,  \* the option Compress: CompressHandler is around the proxy
  path,      \* the one the client asks for, below the proxy's
  request,   \* on its way: validators and whether gzip is accepted
  response,  \* on its way: status, header and data
  cache,     \* what the client keeps: content, ETag and date; None where absent
  shown,     \* what the last answer made the client show, and the release
             \* that answered
  dated      \* history: the client has sent a date

vars == <<running, compress, path, request, response, cache, shown, dated>>

NoRequest == [gzip |-> "none"]
NoResponse == [status |-> None]
Empty == [content |-> None, etag |-> None, date |-> None]

Init ==
  /\ running \in [Instances -> Releases]
  /\ compress \in BOOLEAN
  /\ path \in {"", "index.html", "no such file"}
  /\ request = NoRequest
  /\ response = NoResponse
  /\ cache = Empty
  /\ shown = [content |-> None, release |-> None, readable |-> TRUE]
  /\ dated = FALSE

----------------------------------------------------------------------------
(* The file.                                                               *)

\* Hash and ModTime of a release's file.
Hash(v) == v
ModTime(v) == IF v \in SameSecond THEN v - 1 ELSE v

\* Its data in the program: gzipped if the table gives the size before.
Data(v) == [content |-> v, gzips |-> IF v \in Packed THEN 1 ELSE 0]

----------------------------------------------------------------------------
(* The client.                                                             *)

\* One request at a time, with any of the validators the client has.
Send ==
  /\ request = NoRequest /\ response = NoResponse
  /\ \E gzip \in BOOLEAN, etag \in {None, cache.etag}, date \in {None, cache.date} :
       /\ request' = [gzip |-> gzip, etag |-> etag, date |-> date]
       /\ dated' = (dated \/ date # None)
  /\ UNCHANGED <<running, compress, path, response, cache, shown>>

\* Data as the client reads it: its content if it is gzipped as the header says.
Readable(r) == r.data.gzips = IF r.encoding = "gzip" THEN 1 ELSE 0

\* A header of an answer 304 replaces the one the client has.
Newer(value, old) == IF value = None THEN old ELSE value

Receive ==
  /\ response # NoResponse
  /\ response' = NoResponse
  /\ cache' =
       CASE response.status = 200 ->
              [content |-> response.data.content, etag |-> response.etag, date |-> response.date]
         [] response.status = 304 ->
              [cache EXCEPT !.etag = Newer(response.etag, @), !.date = Newer(response.date, @)]
         [] OTHER -> Empty
  /\ shown' = [content |-> cache'.content, release |-> response.release,
               readable |-> response.status # 200 \/ Readable(response)]
  /\ UNCHANGED <<running, compress, path, request, dated>>

----------------------------------------------------------------------------
(* The server.                                                             *)

\* SwaggerProxy.ServeHTTP: its path itself stands for the file index.html.
Name == IF path = "" THEN "index.html" ELSE path

Found(v) == Name = "index.html" /\ v \notin Lacking

\* Mutant: a client with any entity tag is told that nothing changed.
TagMatchesAny(v) == request.etag # None

TagMatches(v) == request.etag = Hash(v)

\* Mutant: the comparison is turned around.
UnmodifiedSinceReversed(v) == request.date # None /\ request.date < ModTime(v) + 1

\* The date has seconds: the file is unmodified if it is not a second newer.
UnmodifiedSince(v) == request.date # None /\ ModTime(v) < request.date + 1

Answer(v, status, etag, date) ==
  [status |-> status, release |-> v, etag |-> etag, date |-> date,
   encoding |-> "none", data |-> [content |-> None, gzips |-> 0]]

\* Packed data goes out as it is to who accepts it, unless the header says
\* already that it will be compressed.
SendsPacked(v) == v \in Packed /\ request.gzip /\ ~compress

\* The body: as it is stored, or decompressed; CompressHandler, which has set
\* the header before, compresses what it is given.
Body(v) ==
  LET gzips == IF SendsPacked(v) THEN 1 ELSE 0
      outer == compress /\ request.gzip
  IN [Answer(v, 200, Hash(v), ModTime(v)) EXCEPT
        !.encoding = IF outer \/ SendsPacked(v) THEN "gzip" ELSE "none",
        !.data = [content |-> Data(v).content, gzips |-> IF outer THEN gzips + 1 ELSE gzips]]

\* ServeHTTP: no such file, the tag matches, the date does (the answer has the
\* tag then), or the file.
ServeHTTP(v) ==
  IF ~Found(v) THEN Answer(v, 404, None, None)
  ELSE IF TagMatches(v) THEN Answer(v, 304, None, None)
  ELSE IF UnmodifiedSince(v) THEN Answer(v, 304, Hash(v), None)
  ELSE Body(v)

Serve(i) ==
  /\ request # NoRequest
  /\ response' = ServeHTTP(running[i])
  /\ request' = NoRequest
  /\ UNCHANGED <<running, compress, path, cache, shown, dated>>

\* An instance is replaced by one of any release.
Deploy(i) ==
  /\ \E v \in Releases : running' = [running EXCEPT ![i] = v]
  /\ UNCHANGED <<compress, path, request, response, cache, shown, dated>>

Next == Send \/ Receive \/ (\E i \in Instances : Serve(i) \/ Deploy(i))

Spec == Init /\ [][Next]_vars
----------------------------------------------------------------------------
(* Properties.                                                             *)

Answered == shown.release # None /\ shown.content # None

\* A client that validates by ETag only always shows the content of the
\* release that answered it, whatever is rolled out or back between and during
\* its requests; and every client can read what it is sent.
TagAloneIsExact ==
  Answered => shown.readable /\ (dated \/ shown.content = shown.release)

\* A client that sends dates may keep content that is not the release's, even
\* under the release's ETag; but never one that was modified before it.
NeverOlder == Answered => ModTime(shown.content) >= ModTime(shown.release)
----------------------------------------------------------------------------
(* The inductive invariant behind the theorems of StaticAssetsProofs.      *)

Tags == Releases \cup {None}
Times == {ModTime(v) : v \in Releases} \cup {None}

Answers ==
  [status : {200, 304, 404}, release : Releases, etag : Tags, date : Times,
   encoding : {"none", "gzip"}, data : [content : Tags, gzips : Nat]]

\* Of one request there is the request or the answer, or neither.
TypeOK ==
  /\ running \in [Instances -> Releases]
  /\ request = NoRequest \/ request \in [gzip : BOOLEAN, etag : Tags, date : Times]
  /\ response = NoResponse \/ response \in Answers
  /\ cache \in [content : Tags, etag : Tags, date : Times]
  /\ shown \in [content : Tags, release : Tags, readable : BOOLEAN]
  /\ dated \in BOOLEAN
  /\ request = NoRequest \/ response = NoResponse

\* The date is the content's and never goes back; the tag is that of the last
\* release that answered, which is the content's while no date was sent.
CacheInv ==
  /\ ~dated => cache.content = cache.etag
  /\ cache.content = None => cache = Empty
  /\ cache.content # None =>
       /\ cache.etag # None
       /\ cache.date = ModTime(cache.content)
       /\ ModTime(cache.content) >= ModTime(cache.etag)

\* The client sends only what it has.
RequestInv ==
  request # NoRequest =>
    /\ request.etag \in {None, cache.etag} /\ request.date \in {None, cache.date}
    /\ request.date # None => dated

\* A new answer is readable and of one release; "not modified" means that the
\* tag is the client's or, by date, that the release is not newer.
ResponseInv ==
  response # NoResponse =>
    LET v == response.release IN
    /\ response.status = 200 =>
         /\ Readable(response) /\ response.data.content = v
         /\ response.etag = v /\ response.date = ModTime(v)
    /\ response.status = 304 =>
         /\ cache.content # None /\ response.date = None
         /\ \/ response.etag = None /\ cache.etag = v
            \/ response.etag = v /\ ModTime(v) <= cache.date /\ dated

AssetsInv == TypeOK /\ CacheInv /\ RequestInv /\ ResponseInv /\ TagAloneIsExact /\ NeverOlder
=============================================================================
