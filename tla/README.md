# Verification of go-service-helper

This directory holds TLA+ models of go-service-helper, the TLC runs that check
them on small instances, and TLAPS proofs of all their safety properties for
every instance. The repository is a library for Go services: a span collector and
tracer, HTTP clients and handlers behind hystrix, a middleware chain with
metrics, log and trace, a mux that lists its URLs, embedded static files, and a
server runner with graceful shutdown. It has no tests and no design document; the
models are translated from the source, and the properties come from what the code
and its comments set out to do.

Paths are relative to `src/`. Mutants (operators whose comment begins with
"Mutant:") are plausible bugs; each property is known to fail for at least one.

## 1. The system

### Inventory

| Component | Source | State | Operations |
|---|---|---|---|
| HTTPCollector | `zipkin/collector-http-hystrix.go` | batch, nextSend, two mutexes, the channels spanc, quit, shutdown | Collect, Close, loop, append, send |
| HTTPClient, circuitBreaker | `hystrix/client.go` | per call: two channels of capacity 1, the goroutines of hystrix | Do, Get, Head, Post, PostForm |
| NewTracer, traceLogger | `handlers/opentracer.go` 23-66 | none of its own: wires collector, client and logger | NewTracer, Log |
| Run, performGracefulShutdown | `server/server.go`, `server/shutdown.go` | server pointers in cfg, waitEvents, two timers, two unbuffered channels | Run, the server goroutines, shutdown |
| ActuatorMux | `actuator/mux.go` | mappings (a shared slice), fDirty, mutex | Handle, HandleFunc, Handler, ServeHTTP |
| Middleware chain | `handlers/`, `httpWriter/writer.go`, `correlationID/id.go` | per request: status and length per writer; the metrics | HTTPMetricsCollector, HTTPLogrusLogger, HttpApacheLogger, TracerFromHTTPRequest, FromRequest |
| hystrixHelper.Handler | `hystrix/hystrix.go` | per request: the command goroutine | Handler |
| hystrix metrics | `hystrix/hystrixMetrics.go` | counters, with the helper's command as their label | NewPrometheusCollector, Update, Reset; Increment..., Update...Duration, which nothing calls |
| TraceClient | `zipkin/client.go` | none; reads the process's global tracer | Do, Get, Head, Post, PostForm |
| gRPC interceptors, endpoint log | `server/server.go`, `server/accessLogger.go` | the tracer the interceptor was given | grpcEndpointLog, the chain of unary interceptors |
| SwaggerProxy, static assets | `serveSwagger/` | the generated table of files | ServeHTTP |
| user, TLS configuration | `user/`, `server/tlsConfigFactory.go` | none | a header into a context; a constant |

### How the components interact

* Run launches up to three servers, each in a goroutine, and an interrupt
  goroutine. All report to main over `errc`; main takes one event and calls
  performGracefulShutdown, which reads the server pointers that the server
  goroutines store.
* The HTTP server's handler is the chain metrics -> log -> tracer -> handler.
  Each layer wraps the writer of the one outside or reuses it.
* A service may wrap its handler in hystrixHelper.Handler: then the handler runs
  in another goroutine, with the same writer, and may outlive its request.
  hystrix hands the result of each command to the Update of the collectors that
  the helpers returned when the command's circuit was made.
* A finished span becomes a call of Collect, which blocks until the collector's
  loop receives it. So a stuck loop in the end blocks every traced request.
* The collector POSTs through the HTTPClient of the hystrix package and logs
  through traceLogger, the latter with batchMutex locked.
* A handler calls the next service with TraceClient, which sends the correlation
  id of the context and a span of the process's global tracer. The HTTP server's
  goroutine sets that tracer; the gRPC server's goroutine, which may run first,
  hands the value it finds to its interceptor.

### What is hard, and what makes each component correct

* **Collector.** Any number of send goroutines overlap with append. `sendMutex`
  covers the POST, `batchMutex` does not, so append may cut the batch at the
  front while a POST holds the same spans. Correct means: spans in order, none
  POSTed again after a success, the backlog bounded, no slice out of range, a
  Close that returns nil leaves nothing behind, Close and Collect return.
* **Circuit breaker.** The caller, the command goroutine and hystrix's timer
  race. Correct means: no send on a channel the caller has closed, the caller
  gets exactly what fn returned, and gets it.
* **The two together.** The server may have stored what a failed POST carried.
  Correct means: nothing is cut off unless answered, nothing is stored twice
  without an error.
* **Shutdown.** Servers fail, start and stop in any order, with an interrupt,
  a cancelled context and two timers. Correct means: one event suffices, the
  exit code tells the truth, the process ends.
* **ActuatorMux.** `fDirty` and `mappings` are used without the mutex. Correct
  means: nothing registered is lost, and what is listed is sorted and complete.
* **Chain.** Three records of one response, made at three moments, of two
  writers, perhaps while the handler still writes; below them net/http may have no
  body to send, or drop what it has buffered. Correct means: the records agree with
  each other, with the counters and with the client.
* **Calls between services.** Processes come up server by server, and clients
  outside send ids and traces of their own. Correct means: one id and one trace
  from the edge to the last service.
* **Static files.** A client validates with tags and dates against instances of
  different releases. Correct means: readable, and not stale.

`PROJECT.json` lists the hazards with their lines and the properties for them.

## 2. The modules

| Module | Models | Extends or composes |
|---|---|---|
| `HTTPCollector` | the collector | INSTANCE LossyQueue (refinement) |
| `LossyQueue` | what a collector promises, without its threads | |
| `BreakerClient` | circuitBreaker over an external hystrix | |
| `TracingPipeline` | NewTracer: collector + client + logger + span server | EXTENDS HTTPCollector, INSTANCE BreakerClient |
| `GracefulShutdown` | Run and performGracefulShutdown | |
| `ActuatorMux` | the mux | |
| `RequestChain` | the middleware and hystrixHelper.Handler | |
| `HystrixMetrics` | the attempts counter of several helpers over the chain | EXTENDS RequestChain |
| `CorrelatedCalls` | ids and traces across services | |
| `StaticAssets` | the files, the proxy, a caching client and rolling releases | |
| `HTTPCollectorProofs` | the theorems on the collector: invariants, refinement, loss | EXTENDS HTTPCollector |
| `TracingPipelineProofs` | the theorems on the composition | EXTENDS HTTPCollectorProofs, INSTANCE BreakerClientProofs |
| `BreakerClientProofs`, `GracefulShutdownProofs`, `ActuatorMuxProofs`, `RequestChainProofs`, `CorrelatedCallsProofs`, `StaticAssetsProofs` | the theorems | EXTENDS the component's module |

### HTTPCollector and LossyQueue

`batch` is c.batch, `caller` the blocked Collect calls, `queued` the goroutines
that wait for `sendMutex`, `phase` where send is. `Receive` is the whole case of
the loop's select, append included; only where append calls the logger with
batchMutex held is there a state in between ("logging", left by `Dispose`).
`Post` is send up to client.Do, `PostFails` and `PostSucceeds` are its two
results, `Trim` is the cut at the front and the return. `Quit` and the thread
`Loop` are the last send that Close waits for. The clock is one Boolean, `due`:
the code only ever asks whether nextSend has passed. `accepted`, `disposed` and
`sent` are history.

LossyQueue has a bounded queue that pushes out its oldest item when full,
delivers in order and nothing twice, and gives up its oldest items, as many as it
has delivered. The refinement maps its queue to the batch as it will be when
append is done (`Kept`) and what it owes to the length of the sendBatch that was
delivered and is not yet cut off (`Owed`).

### BreakerClient

One record of channels and goroutines per call. `Start` is circuitBreaker up to
its select, `Answer` the function given to hystrix.Go (it puts its answer into
one of two channels, also after a timeout), `Receive` the select and the
deferred closes. `Put` makes a send on a closed channel visible as "panic".
`Reject`, `Admit`, `Timeout` and `End` are what the code has to expect of
hystrix: rejection when the circuit is open or the tickets are used up, a
timeout that does not stop fn, a fallback that may run in either goroutine.

### TracingPipeline

The collector's threads are the callers of the client. `StartPost` conjoins the
collector's `Post` with the client's `Start`, `EndPost` the client's `Receive`
with `PostSucceeds` or `PostFails`, so a POST lasts as long as the call does.
`LogTest` and `LogBody` are the loop of traceLogger.Log, with the index that the
code assigns; `Dispose` follows when Log returns. The span server stores a POST
that it answers with success and may store one that ends in an error: `stored`
and `duplicated` are what it has, `failed` the spans of POSTs that ended so.

### GracefulShutdown

`server` is where a server's goroutine is, `pointer` whether main can see it in
cfg, `stopper` the goroutine that shuts it down, "unseen" if main found no
pointer. `Check` is one of the three tests of performGracefulShutdown, in the
code's order. A channel without buffer is a pair of states: the sender is
"reporting" or "sending" until main receives. Time is counted in seconds from the
call of performGracefulShutdown and passes only while main's select has nothing
to do. `Create` builds a server and stores its pointer. `HealthzFails` is the panic
of the HTTP server's goroutine when there is no healthz handler: it ends the
process with the status of Go's panics, which is 2 as well, but "panic" in the
model, so that what is said of exit "2" is said of main's `os.Exit(2)` only.

### ActuatorMux

A slice is an array and a length: `arrays` are the arrays mappings has pointed
to, the last one current. append writes into spare room or moves to an array of
twice the size. A request copies array and length in two steps and then reads
the elements one by one, all without the mutex, as the code does. Sorting is a
sequence of swaps of two stores each: up to `InsertionMax` (12) entries
`sort.Strings` is an insertion sort, which swaps neighbours in the wrong order; a
longer list it sorts by a quicksort whose choices depend on the version of Go (since
1.19 another one), so `MaySwap` then allows any swaps, also of a sorted list. Patterns
are numbers in the order of the strings.

### RequestChain

Layers 1 to 3 are the HTTPWriters for metrics, log and span, and hystrix; 0 is
net/http's writer. A call of the handler passes down one layer per step, so that
after a timeout it interleaves with the deferred functions `RecordSpan`,
`RecordLog` and `RecordMetrics`. `Respond` and `Finish` say what net/http does:
the first status counts, a body implies 200, HEAD, 204 and 304 have no body, an
unwritten response is an empty 200. net/http buffers the response: a panic that
reaches it closes the connection, and the client gets what was flushed before
(`Flushed`), anything from nothing to all that was written. A panic runs the
deferred functions in the serving goroutine and ends the process in a command
goroutine. The constants say
which requests are wrapped by hystrix (`Wrapped`), logged by HttpApacheLogger
(`Apache`), may be HEAD (`MayHead`) or may bring an id (`MayBring`), and what a
handler writes (`Statuses`, `Sizes`, at most `MaxCalls` calls).

### HystrixMetrics

`Register` hands a helper's NewPrometheusCollector to hystrix; `GetCircuit` asks
every registered helper for a collector when a circuit's first command comes.
A helper returns itself, whatever the circuit's name, so `collectors` has labels
that are not the circuit's. `Update` hands a command's result to the collectors of
its circuit, once, at any time after the verdict and in any order. The helper's
Update only logs, and nothing calls its Increment methods: the counters, of which
`attempts` stands for all, stay as they are.

### CorrelatedCalls

A call is a number; its record is spread over `service`, `kind`, `from` (the call
whose handler makes it), `wireID` and `wireTrace` (its request header), `corrID`
and `trace` (its handler's context), `replyID` (its response header).
`SetGlobalTracer`, `ListenHTTP` and `ListenRPC` are the goroutines of Run that
race to set and to read the tracer. `DoStart` and `DoSend` are the two halves of
TraceClient.Do, each with its own read of the global tracer. A trace is known by
the call at its root, 0 being that of the no-op tracer, or is one that a client
outside has made. `EdgeCall` is such a client: it sends any id and any trace, of
its own (`OuterIDs`, `OuterTraces`) or an id that a response has told it, as often
as it likes. `origin`, which is history, is the call with which an id came in: where
a client outside sent it or, if it sent none, where it was made.

### StaticAssets

`Serve` is ServeHTTP of one instance, with the release that it runs now:
`TagMatches`, `UnmodifiedSince`, `SendsPacked` and `Body` are its conditions in
the code's order. `Send` and `Receive` are a client that keeps content and
validators as HTTP lets it, `Deploy` replaces an instance by one of any release,
newer or older, also while a request is under way.

## 3. The runs

| Run | What it shows | Bounds |
|---|---|---|
| collector | implements LossyQueue; no slice out of range, the bound, no second POST, loss is miscounted disposal, clean Close; Close and Collect return | 4 spans, 2 senders and the loop, BatchSize 2, MaxBacklog 2, MaxQueued 2 |
| breaker | no send on closed channels, replies are answers, only rejection leaves a caller waiting, an admitted call returns | 3 calls, 2 tickets |
| pipeline | what is cut off as sent was answered, duplicates follow errors; spans leave | 2 spans, 1 sender and the loop, BatchSize 1, MaxBacklog 1, 2 tickets |
| shutdown | what each exit code means, with waitEvents in the inductive invariant; the shutdown starts and ends | all three servers, TLS, 4 and 5 seconds as in the code |
| mux | nothing lost, clean means sorted and, while the list is short, left alone; an undisturbed list is complete | 1 pattern, 2 lookups, 2 requests; insertion sort up to 3 entries |
| chain | records, counters, response and verdict agree; one id; a hung handler does not hang the client | 2 requests: one behind hystrix that may bring an id, one with HttpApacheLogger; 2 calls each, status 204, 503 or none, data of one byte |
| calls | one id per trace, one trace per id, Do stays in the trace | 3 services (tracer in 2, gRPC in 2), 2 calls from outside, 3 in all; one id and one trace that clients outside have of their own |
| assets | exact with tags only, never older with dates, readable always | 2 instances, 5 releases: two of the same second, one without the file, three packed |
| collector_loss | **violated** `RemovesOnlySentSpans` | 3 spans |
| pipeline_log | **violated** `BacklogIsCut` | 2 spans |
| pipeline_rejected | **violated** `BufferedIsEmitted` | 2 spans |
| metrics_attempts | **violated** `AttemptsAreCounted` | 2 requests, 2 helpers |

Why the bounds are enough. Four spans with MaxBacklog 2 overflow during a POST
by as much as the POST holds, which is the worst the cut can do; two senders and
the loop queue behind each other in every order; MaxQueued bounds only how many
ticks may start a goroutine before one runs, appends are not bounded by it. Two
tickets and three calls reject by pool as well as by circuit. A pattern and two
lookups fill the array of the mux to its capacity and move it twice, so the last
append is in place, under the readers. Thirteen entries are out of reach, so the
limit of the insertion sort is scaled down from 12 to 3: the list passes it with its
last entry. Two calls of a handler, with three writers between them and the client,
are a header and a body, two headers, or two pieces of data, of which a panic may
cut off one; the rest is the same again, which the proof shows. HEAD and 304 take
the same way through net/http as 204, and are left to the proof with the other
statuses and sizes. Three calls pass a trace on twice, from a client
outside to a handler's call and on to the next, through every mix of services with
and without a tracer; two calls from outside can repeat an id or a trace.
Five releases have every relation of content, date and packing that a pair can
have. The shutdown's state is finite as it is. For everything but liveness the
proofs remove the bounds.

`CHECK_DEADLOCK FALSE` stands where the system may stop: a Collect that comes
after the loop has seen quit blocks for ever, so does a rejected call of the
breaker, and the calls between services are bounded in number. The other runs
check for deadlock, with an explicit step for a system that has ended.

### Where the code differs from what it says

* `collector_loss`: append disposes of spans at the front of the batch during a
  POST that holds the same spans; the cut after the POST then removes as many
  spans that were never sent (`zipkin/collector-http-hystrix.go:221`, "Remove
  sent spans from the batch"). `LossIsMiscountedDisposal`, which is proved, says
  that this is the only way to lose one, and how many are lost. It strikes a
  collector whose logger returns; behind traceLogger the next finding comes first,
  and nothing is lost because the overflow never ends (`PipelineRemovesOnlySent`).
* `pipeline_log`: `i = +2` in traceLogger.Log (`handlers/opentracer.go:29`) makes
  its loop endless for append's three arguments, with batchMutex locked. The proof
  of `OverflowIsFinal` shows it for every backlog: after the first overflow the
  loop receives nothing, and the batch stays as it is, for good.
* `pipeline_rejected`: a rejected call of circuitBreaker never returns
  (`hystrix/client.go:50`), and send keeps sendMutex. `OnlyRejectedWaits`, which
  is proved, says that rejection is the only cause; `StrandedStays` and
  `RejectionIsFinal`, proved too, that nothing makes up for it: after one rejected
  POST no span is POSTed, stored or cut off any more.
* `metrics_attempts`: hystrix tells a collector of a command by
  `Update(MetricResult)`, and Update (`hystrix/hystrixMetrics.go:153`) only logs.
  hystrix_attempts_total, "Number of attempts to cross the circuit breaker.", stays
  at 0 like the other counters, under every label.

Where no text promises otherwise there is no finding; the properties then draw
the line around what the code does:

* `ExitZeroWaits`: a server whose pointer was not there when main tested it is not
  stopped, and exit 0 may cut it off (`server/shutdown.go:45`). A server that was
  told to stop has reported, which does not mean that it is idle: a Shutdown that ctx
  ended returns with its requests still active, and counts like any other.
* `UndisturbedListing`: a list that is read while another request sorts it may
  lack or repeat entries (`actuator/mux.go:154`). `CleanIsStable` says when that
  can be: up to 12 entries, only between a registration and the end of the first
  sort after it. Of a longer list even that is not certain: a request that had seen
  fDirty set sorts the sorted list again, and a quicksort may move its entries on
  the way. `MappingsAreRegistrations` counts the empty string that each call of
  Handler adds.
* `ProperIsRecorded` needs a handler that writes something, because an empty
  answer is sent as 200 and recorded as 0, and one that writes its header first,
  because the last status is recorded and the first is sent. Of HEAD, 204 and 304
  it says that the status is right and the body empty, because the metrics count the
  dropped one. If the handler panics, it says that the client gets at most what is
  recorded: the metrics count a response that may never have left.
  `RecordsAgree` excepts requests that hystrix timed out.
* `OneIdPerRequest`: HttpApacheLogger logs no id for a caller that sent one.
* `IdHasOneTrace`: an id that clients outside send more than once, a retry for
  example, is in as many traces as there are such calls, unless they send a trace
  with it (`correlationID/id.go:23`). The property says that this is the only
  reason, besides a service without the tracer on the way. `TraceHasOneId` likewise
  says of a trace from outside that every id in it is one that its clients know.
* `DoStaysInTrace`: a gRPC server that is set up before the tracer keeps the no-op
  tracer for good; calls from its handlers start traces of their own. `Get`,
  `Head`, `Post` and `PostForm` of TraceClient send neither id nor span, and no
  call of TraceClient passes the circuit breaker: c.Client is the http.Client
  inside (`zipkin/client.go:58`).
* `TagAloneIsExact`: If-Modified-Since is looked at although If-None-Match did not
  match (`serveSwagger/assets.go:389`). A client that sends both may keep content
  that a roll-back has replaced, or that is as old by the second, and takes over
  the tag of the other release with it.

A rejected command of hystrixHelper.Handler ends as an empty 200, and a panic in a
command goroutine ends the process: the model has both steps, and no text in the
repository to state a property from.

### Fairness

* Goroutines that can run do run (weak fairness on every step of the code).
* client.Do returns in `CloseCompletes` and `CollectCompletes`: the collector's
  default client has a timeout of five seconds. A sender chosen by `queued` is
  any of the identities, so weak fairness for each is enough.
* In the breaker fn, an HTTP exchange, returns. NewClient sets no timeout, so
  this is an assumption about the network; `AdmittedReturns` says that nothing
  else is needed.
* In the pipeline hystrix admits (strong fairness) and the server answers (strong
  fairness) a POST that is tried again and again; `EverySpanLeaves` says on top
  that the circuit never opens and the backlog never overflows, the two
  conditions under which the findings above do not strike.
* In the shutdown only main and the clock are fair: requests may last for ever.
* In the chain hystrix admits or rejects, its timer
  runs out, and the deferred functions of the request that waits for it run; the
  handler is assumed to do nothing, not even to return. That `RecordSpan` goes on
  assumes that Collect returns when the span is finished: `pipeline_log` and
  `pipeline_rejected` are the cases in which the collector does not let it.
* The calls between services, the metrics, the static files and the mux have no
  liveness: what they owe is said when an answer, or a report, is there.

## 4. The proofs

Each proof module shows Init => Inv, Inv /\ [Next]_vars => Inv', one lemma per
action or group of actions, and derives the properties from the invariant. Every
leaf is checked, with SMT, Zenon and LS4. The inductive invariants are part of
the component's module.

**HTTPCollectorProofs** (from ThreadAssumption, SizeAssumption, BoundAssumption,
for any set of spans and senders and any sizes). `NoResend` is not inductive: it
says nothing about where sent spans are. `IInv` adds the order of things: the
batch is the end of `accepted` (`OrderInv`); what a sender has in flight is a
segment of `accepted` that starts no later than the batch, with nothing sent in
or after it (`SegmentInv`); a sent span lies before the batch or is about to be
cut (`SentInv`). `FlightInv` needs the bound on the backlog: a disposal shortens
the batch to MaxBacklog and no further, so never below a slice in flight.
Proved: `TypeOK`, `NoSliceOutOfRange`, `BacklogBounded`, `NoResend`,
`CleanCloseFlushes`, `BatchIsLatest`.

`CollectorIsLossyQueue`: under `IInv` every step of the collector is one step of
the queue or none; the segment that a sender holds is the witness for what the
queue delivers, and `sendMutex` is why the queue owes for one delivery at a time.

`LossIsCounted`: `CountInv` counts the spans that have left the batch, or are
about to, as disposals plus deliveries: each is paid for once. What is neither
disposed of nor sent is then exactly what is both.

The safety half of `CloseCompletes`: after quit every step of a sender lowers
`SendsLeft` and nothing raises it (`CloseDrains`), and until the loop is done it
can lock sendMutex or the holder of sendMutex can go on (`CloseNotStuck`, with
`HolderInv`: whoever holds sendMutex has a send under way). That the step is also
taken is the fairness, which only TLC handles.

**BreakerClientProofs** (from no assumption on the limits). `BreakerInv` adds
that until fn has returned the caller is in the select with open channels, and
that a waiting caller's channels hold exactly fn's answer. Proved:
`NoSendOnClosed`, `ReplyIsAnswer`, `OnlyRejectedWaits`, and the action property
`StrandedStays`.

**TracingPipelineProofs** (the collector's assumptions and TicketAssumption). The
pipeline takes only steps of the collector (`PipelineIsCollector`) and its calls
are calls of the breaker (`PipelineCallsBreaker`), so both invariants hold of it.
`PipelineInv` adds that a thread is in client.Do exactly while its call waits,
which ties the answer it meets to its own POST. Proved: `SentWasAnswered`,
`DuplicatesFollowErrors`. The theorems of the collector carry over; the
refinement is stated for the pipeline as well (`PipelineIsLossyQueue`).

The last part proves what the two hangs of the pipeline do, for every size.
`LogInv`: the index of Log's loop is 0 or 2, so the loop does not end and append
never cuts. Hence `OverflowIsFinal`; and as nothing is disposed of,
`LossIsMiscountedDisposal` leaves nothing to be lost (`NothingDisposed`) and a cut
removes sent spans only: the pipeline keeps to `RemovesOnlySentSpans`, which the
collector violates. `RejectionIsFinal` takes `StrandedStays` of the breaker and
`MutexInv` of the collector: the stranded sender holds sendMutex, so no other
thread has a call under way that could be answered.

**GracefulShutdownProofs** (from ConfigAssumption and TimeAssumption:
IdleLimit < WaitLimit). `ShutdownInv` adds that tests still to come have started
nothing (`ChecksInv`), so each increment of waitEvents adds one pending
goroutine, that a server passed over is the one that reported and has ended
(`PassedInv`), that a server whose stopper has reported has no requests left unless
ctx has ended (`StopperReports`), and that as long as nobody was heard of the idle
timer started at 0 (`TimeInv`). Proved: `WaitEventsCounts`, `ExitZeroWaits`, `ExitTwoHeardSome`,
`ExitOneHeardEarly`. The safety half of `ShutdownEnds` is `ShutdownAdvances`: every
step of main and every second lower `Remaining` (tests to come, events to wait for,
seconds left), which no server, request, interrupt or cancellation raises, although
each event restarts the four-second timer.

**ActuatorMuxProofs** (from PatternAssumption and ThreadAssumption, for any
patterns, lookups and requests, and any limit of the insertion sort). The difficulty
is that between its two stores a
swap has one string twice and another not at all. `ContentInv` is therefore about
`Settled`, the array with the second store done: a swap of any two entries leaves the
number of occurrences of every string as it is (`OccurrencesSwap`), and an append
adds one (`OccurrencesAppend`). `SortInv`: fDirty is clear only if the list is
sorted, and up to InsertionMax entries also while another request, which had seen it
set, sorts again; a longer list may then be anything until that request is done.
`SliceInv` and `AloneInv` follow what a request has copied and read, which stays the
current array as long as nobody overlaps. Proved: `MuxInv` (with
`MappingsAreRegistrations`), `CleanIsSorted`, `CleanIsStable`, `UndisturbedListing`.

**RequestChainProofs** (from StatusAssumption and ChainAssumption, for any
requests, statuses, sizes and number of calls). `ChainInv` has two ideas.
`LayersInv`: neighbouring writers differ by at most the call that is between them,
so when the handler has ended all writers of a request are equal. `ResponseInv`:
`Passed` counts the calls that have gone by a layer, and by it the metrics' writer
and the server's are compared while a call is under way; it holds until the request
is finished, when a panic may cut the response. `PanicInv` is what is left of it then.
`RecordInv` carries the records, which are taken one by one, on to the end.
Proved: `ChainInv` (with the counters), `RecordsAgree`, `ProperIsRecorded`, `VerdictMatchesResponse`, `OneIdPerRequest`.

**CorrelatedCallsProofs** (from ServiceAssumption and OutsideAssumption: what clients
outside make up themselves is not what a service makes; for any services, any number
of calls and any ids and traces from outside, repeated or not). The properties
compare calls far apart; `CallsInv` replaces that by what one call knows of another:
a call with which its trace came in (`RootInv`) and the one with which its id came in
(`OriginInv`). It says that a tracer in use is the one that stays (`ProcessInv`), and
that an id made by a service is known outside only after a response has told it
(`Told` in `ClientInv`), so that of two origins of one id one at least sent it.
Proved: `TraceHasOneId`, `IdHasOneTrace`, `DoStaysInTrace`.

**StaticAssetsProofs** (from ReleaseAssumption, for any instances and releases).
`CacheInv` and `ResponseInv` compare the content that a client shows with the tag
that it keeps, which may be of another release: never older by date, and the same
as long as no date was sent. A deployment between request and answer changes
neither, because an answer is of one release throughout. Proved:
`TagAloneIsExact`, `NeverOlder`.

Only model-checked:

* Liveness, which is out of the provers' reach: `CloseCompletes`,
  `CollectCompletes`, `AdmittedReturns`, `EverySpanLeaves`, `ShutdownStarts`,
  `ShutdownEnds`, `RequestsFinish`. Of `CloseCompletes` and `ShutdownEnds` the
  proofs have the bound on the steps, not the fairness that makes them happen.
* The violations of the findings, which are counterexamples. `OverflowIsFinal` and
  `RejectionIsFinal` prove what follows after the hang; that there is a behaviour
  that gets there is the runs' part.
* That every mutant breaks its property.

Some of what is proved is in no .cfg, to keep the runs short: the inductive
invariants `BreakerInv` (a part of `PipelineInv`, which a run checks), `CallsInv`,
`AssetsInv` and `LogInv`, `WaitEventsCounts` and `TypeOK` as parts of the invariants
that the runs check, and `StrandedStays`, `OverflowIsFinal`,
`RejectionIsFinal`, `NothingDisposed`, `CloseDrains`, `CloseNotStuck` and
`ShutdownAdvances`. Each can be added to the .cfg of its
module and holds there; `NothingDisposed` and its companions are worth three spans
in the pipeline, so that the backlog overflows during a POST.

## 5. What is not modelled

* net/http, grpc, hystrix, openzipkin, otgrpc, gorilla's handlers and prometheus
  are external: modelled by what the code has to expect of them. Thrift encoding,
  formatting, logging and options are data.
* user copies a header into a context; it keeps nothing, only the log line reads
  it and nothing sends it on. The TLS configuration is a constant.
* The stream interceptors of the gRPC server; the hystrix metrics other than
  the attempts, which nothing changes either; `Open` of the generated file system, which the
  server does not use; the choice of the list's format in ActuatorMux.
* Failures that only end the process: log.Fatal in the mux's list when
  os.Hostname or the encoder fails (`actuator/mux.go:114`, 175), and the panic of a
  second Close of the collector, which closes quit again.
* A crash and restart of the process: nothing is persisted. What os.Exit drops
  of the collector's batch is what the batch holds then.

## 6. Plan

Done, in this order: HTTPCollector and its proof, BreakerClient and its proof,
TracingPipeline, GracefulShutdown and its proof, ActuatorMux, RequestChain;
LossyQueue and the refinement, the loss proof, the pipeline's proof;
CorrelatedCalls, HystrixMetrics and StaticAssets; the proofs of RequestChain and
CorrelatedCalls; the proofs of ActuatorMux and StaticAssets; the
proofs about the two hangs of the pipeline and about the bounded shutdown of the
collector and of the server.

To come: an abstract specification of the shutdown (one event stops every server
that is seen, and the exit code is a function of what main heard), and the proof
that GracefulShutdown implements it.
