# A verification project for the AWS Distro for OpenTelemetry Python

TLA+ modules beside the code of `aws-opentelemetry-distro`. Every definition is
translated from the source; `PROJECT.json` says from which lines. Below, `D/` is
`src/aws-opentelemetry-distro/src/amazon/opentelemetry/distro/`.

Contents: [the system](#the-system), [the modules](#the-modules),
[the runs](#the-runs), [the proofs](#the-proofs),
[what the checks found](#what-the-checks-found), [the plan](#the-plan),
[what is left out](#what-is-left-out).

## The system

The distribution is loaded into a Python application when its process starts. It
configures the OpenTelemetry SDK (pinned at 1.33.1) and adds to it a remote
sampler, exporters, span and log processors and patched instrumentations. After
that it runs inside the application: the application's threads call samplers and
processors as spans start and end, and a few threads of the SDK and of the
distribution work in the background (timers that poll X-Ray, the periodic metric
reader, the batch processors' workers). The hard behaviour is there: shared
state with several small locks or none, remote calls that fail or answer late,
a wall clock, and updates that replace objects other threads still hold.

| Component | State | Operations | Talks to |
|---|---|---|---|
| Reservoir, `D/sampler/_rate_limiter.py` | floor of the wallet, lock | `try_spend` | wall clock; called by every thread that starts a root span |
| Rule statistics, `D/sampler/_sampling_rule_applier.py`, `_sampling_statistics_document.py` | a document of three counters per rule, a lock per applier | count in `should_sample`, `get_then_reset_statistics`, `snapshot`, `with_target` | application threads, targets poller, rule cache |
| Rule cache and pollers, `D/sampler/_rule_cache.py`, `aws_xray_remote_sampler.py`, `_aws_xray_sampling_client.py` | list of appliers, its time, cache lock; two timers | `update_sampling_rules`, `update_sampling_targets`, `get_all_statistics`, `expired`, `should_sample` | X-Ray over HTTP, reservoirs, fallback sampler |
| Matching, `D/sampler/_matcher.py`, `_SamplingRuleApplier.matches` | none | `wild_card_match`, `attribute_match`, `matches` | rule cache |
| EMF exporter, `D/exporter/aws/metrics/` | the current batch of log events | conversion, `export`, `send_log_event`, `flush_pending_events` | periodic metric reader, CloudWatch Logs |
| OTLP logs exporter, `D/exporter/otlp/aws/logs/otlp_aws_logs_exporter.py` | shutdown flag and event | `export` with its retries, `shutdown` | CloudWatch OTLP endpoint |
| OTLP log processor, `D/exporter/otlp/aws/logs/_aws_cw_otlp_batch_log_record_processor.py` | the SDK's queue and export lock | `_export`, `force_flush`, `_estimate_log_size` | the exporter, the SDK's worker |
| LLO handler, `D/llo_handler.py` | patterns | `process_spans`: collect, emit, filter | traces exporter, event logger |
| Span pipeline, `D/always_record_sampler.py`, `D/*_processor.py`, `D/aws_metric_attributes_span_exporter.py` | attributes of live spans, the queues of sampled and unsampled spans | `on_start`, `on_end`, `export`, `shutdown` | the SDK's tracer, histograms, exporters |
| Metric attribute generator, `D/_aws_metric_attribute_generator.py` | none | `generate_metric_attributes_dict_from_span` | span metrics processor, attribute exporter |
| Configurator and distro, `D/aws_opentelemetry_configurator.py`, `aws_opentelemetry_distro.py` | environment variables | `_configure` and what it calls | everything |
| Code correlation, `D/code_correlation/` | the resolved `sys.path` and its hash, package maps, `lru_cache`s | `resolve_package_from_filename`, `is_user_code`, `on_start` | span processor, patches |
| Patches for code attributes, `D/patches/_flask_patches.py` and its siblings | the decorated views of the application, the replaced methods of a framework | register, dispatch, `patched_instrument`, `patched_uninstrument` | the frameworks, spans |
| Lambda layer, `src/lambda-layer/` | nothing between invocations but the providers | the instrumented handler, flushes | providers, the Lambda runtime |
| Botocore patches, UDP exporter, signing session, scope exporter | none worth a model | | |

What makes each of them correct, and what is hard about it:

* **Reservoir.** No more requests pass in any window than a full wallet and what
  the window earns; a request is refused only when the wallet lacks its price.
  Hard: threads spend at once; `datetime.now()` may be set back.
* **Statistics.** X-Ray is told of every request at most once, and of a
  consistent triple of counters. Hard: three kinds of actors, two locks on one
  document after `with_target`, reports that fail after the reset.
* **Rule cache and matching.** The first rule that is meant for a request decides
  it; unchanged rules keep their appliers; the cache converges to the service's
  rules and targets; it recovers from expiry. Hard: two pollers fetch rules with
  nothing between fetch and update, failures look like empty answers, the time
  of the update stands for the time of the fetch.
* **EMF exporter.** Every point is told by one log, with its own value, time and
  attributes, and what is accepted is stored, once, in requests CloudWatch Logs
  accepts. Hard: no lock in the client, a flush outside of the reader's lock,
  requests whose outcome is not known, a batch that stays after a failure.
* **OTLP logs.** Export makes so many attempts and none after its deadline, and
  shutdown interrupts it; each record is exported once and in order, in batches
  within the limit unless of one record. Hard: time, the repeated send, the worker
  against `force_flush`, exceptions in the middle of a batch.
* **Span pipeline and LLO handler.** A span is exported by exactly one of the
  sampled and unsampled paths; metrics and the span agree; a full queue loses
  only what it must; what is taken off a span is in the event emitted for it.
  Hard: all processors are handed one object, which exporters change in place
  from several threads.
* **Code correlation.** The caches answer as if computed afresh, a span is named
  after the handler that ran or after the first frame of user code, and no view
  is wrapped twice. Hard: double-checked locking over two variables, caches that
  keep a verdict for ever, views that several threads replace.
* **Lambda.** An invocation flushes within its timeout and returns or raises what
  the handler did.

`PROJECT.json` lists every component with its status, and under `hazards` each
hard spot at its line with the properties that watch it.

## The modules

| Module | Models | Uses |
|---|---|---|
| `TokenBucket` | abstract: an atomic bucket of credit | |
| `RateLimiter` | `_RateLimiter.try_spend`, step by step | refines `TokenBucket` |
| `SamplingStatistics` | the counters of one rule, their appliers, poller and updates | |
| `Matcher` | wildcards, attributes and the fields of a rule, with a reference | |
| `RuleCache` | the cache, its two pollers, the service, the choice of a rule | `Matcher` |
| `EmfConversion` | from points to log events, with a reference | `Attributes` |
| `CloudWatchLogClient` | the EMF batch and its requests, under two threads | `EmfConversion` |
| `OtlpLogsExport` | the retry loop of the logs exporter, with a clock | |
| `LogSize` | the size estimate of a record, with a reference | |
| `LogProcessor` | queue, worker, flush and shutdown of the log processor | `OtlpLogsExport` (composed and as the specification it implements), `LogSize` |
| `TracingSetup` | what configurator and distro build of the environment | |
| `Attributes` | attributes as functions: one, and two put together | |
| `MetricAttributes` | the attributes of service and dependency metrics | `Attributes` |
| `LloHandler` | what is collected, emitted and filtered of a span | `Attributes` |
| `SpanPipeline` | spans, processors, queues, workers, exporters and shutdown | `TracingSetup` and the two above |
| `PathResolver` | `_resolve_system_paths` with its lock | |
| `PackageClassifier` | whose code a file is | |
| `CodeCorrelation` | registration, requests in threads, caches, names of spans | the two above |
| `Totals` | the sum of numbers over a finite set, as statistics and sizes need it | |
| `TotalsProofs` | what a sum is made of | `Totals`, TLAPS |
| `RateLimiterProofs`, `SamplingStatisticsProofs`, `RuleCacheProofs`, `CloudWatchLogClientProofs`, `LogProcessorProofs` (with `OtlpLogsExport`), `SpanPipelineProofs`, `CodeCorrelationProofs` (with `PathResolver`) | theorems | their module, `TotalsProofs`, TLAPS |
| `MC...` | each composed module for TLC: symmetry, views, constants | |

The sampler is three modules rather than one because its three concerns meet only
at narrow seams, and each needs detail the others would multiply. `RateLimiter`
is the reservoir of one applier. `SamplingStatistics` follows one rule: whether a
request was sampled is a free choice there, and target and rule updates are
actions that may happen at any time. `RuleCache` is where they do happen: it has
all rules, and no statistics.

**RateLimiter.** Variables: `now`, `floor` (`__wallet_floor_millis`), `lock`,
`pc`, `ceiling` (the local `wallet_ceiling_millis`), `result`. `Call`, `Acquire`,
`ReadClock`, `Grant` and `Refuse` are the steps of `try_spend`; `Tick` and
`StepBack` are the wall clock. Time is scaled so that the wallet earns one unit
of credit per unit of time; the code divides by the quota instead. The variables
`wOpen`, `wStart`, `wSpent`, `wLast` are an observer that opens a window at a
time of its choice and adds up the grants.

**SamplingStatistics.** Objects are numbers: appliers with `docOf`, `lockOf`,
`borrowing`, documents with `counts`. A request is `Decide`, `Lock`, and a `Load`
and a `Store` for each counter (`x += 1` is not atomic in CPython, and two
appliers that share a document do not share a lock). The poller is `PollStart`,
`PollSwap` (the critical section of `get_then_reset_statistics`), `PollRead` for
each counter of `snapshot`, `PollSend` with both outcomes, and `PollUpdate`
(`with_target`). `RuleRemoved` and `RuleChanged` are `update_sampling_rules` as
it bears on this rule. History: what was sampled, stored, reported, lost with a
failed report, and dropped with a replaced rule.

**Matcher and RuleCache.** `Matches` is `matches`, field by field with the
deprecated attributes; `Raises` says where it raises instead of answering. Texts
are sequences of symbols of one line. The reference does not know the code:
`Fits` cuts a text into pieces for a pattern, `MeantFor` compares a rule with
what was called, whatever the attributes that report it are named. In
`RuleCache` a rule is a name and a body; the body is a number, its priority, and
`Fields` has the fields of each. The sorted list is kept as a set: since names
are unique, the order is a function of the rules, and `First` finds the applier
the loop would. Requests that the bodies treat alike are one profile. A poller is
`GetSamplingRules` (the moment the service answers) and `UpdateSamplingRules`
(the critical section under the cache lock); the targets poller is
`GetAllStatistics`, `GetSamplingTargets`, `UpdateSamplingTargets`, and the two
rules steps if it was told to refresh. A failed rules request yields any part of
the rules, since an error in the middle of the records keeps those read before.
The service's `Modify` and `UpOrDown` may come at any time. The target of an
applier is the version of the rules at which the service computed it.

**EmfConversion and CloudWatchLogClient.** `EmfLogs` is what one `export` makes
of its points: conversion by kind, grouping by attributes and time within a
scope, dimensions, and the log with metrics first and attributes written over
them; `UnknownServices` are the names with the prefix that the SDK gives to a
service without one. `Tells` is the reference: what a log must say for a point to be told. In
the client, batches are objects in `heap`; `batch` is `_event_batch` and `cur` the
local `current_batch` of each thread. `BeginExport` takes some `Data` and its
logs become events one after the other; `SendEvent` decides about the batch,
`AddEvent` appends; `BeginFlush` starts `flush_pending_events`; `Sort`,
`StoreSorted`, `PutOk`, `PutNotFound`, `Create`, `Raise` are `_send_log_batch`,
for both callers; `Renew` puts the new batch in place; an exception ends the
export and the logs left of it. Sorting is two steps because the code reads one
list and stores another. A request holds the list it was built with, which later
appends to the batch still reach, until another thread's sort gives the batch a
new list: `Request` and `copy` keep track of that. `Raise` may come before or
after the service stored the request. `exportLock` is the lock of the SDK's
periodic reader, which is held during exports and not during `force_flush`.

**OtlpLogsExport.** `xpc` is the place in the loop; `Attempt` reads the time that
remains, `Post` is `session.post` (at `"repost"` the second one after a connection
error), `Decide` takes the answer and the delay, `Wait` is `_shutdown_event.wait`,
`SetEvent` and `SetDown` the two assignments of `shutdown`. `remaining` is
`deadline_sec - time()`: it falls by the time that requests and waits take, and
rises when the wall clock is set back (`StepBack`). A request takes any time: the
`timeout` it is given bounds each wait on its socket, not their number, and it
is signed outside of that. `spent` adds up the requests of the attempt under way.

**LogProcessor.** `queue` is the deque, `holder` the export lock, and `iteration`,
`left`, `batch`, `batchSize`, `popped` the locals of `_export`. `Emit` and
`AppendLeft` are the two halves of `emit`, its check of the flag and its append,
and `emitting` counts the threads that are between them; records are numbered as
they are appended. `before` and `stragglers` remember, of the moment of shutdown,
the records there were and the threads in `emit`. `Wake` and `Clear` the SDK's worker;
`Acquire`, `BeginBatch`, `Pop`, `ExportRest`, `ExportReturned` and `Release` are
`_export` for the worker and for `force_flush`; `Shutdown`, `Joined` and `Closed`
are the SDK's shutdown. `Export` and `Return` hand over to `OtlpLogsExport`, whose
steps are `ExporterStep`. The size of a record is `LogSize!Estimate`, level by
level through a heap of objects that may be shared or hold themselves.

**SpanPipeline.** `env` is what `TracingSetup` makes of the environment, and
`Pipeline` the processors in their order. `Start` folds `on_start` of every
processor over the span and its parent, `Update` is the application, `End` makes
the `ReadableSpan` that every `on_end` is handed; `Refuse`, `Check`, `Enqueue` are
the `on_end` of the batch processors (the check and the append are apart),
`Measure` that of the metrics processor. A worker is `Take`, then for each span
`Generate` (`AwsMetricAttributesSpanExporter`) or `Process` (`LLOHandler`), which
read the attributes, and `Replace`, which writes them back in place, then
`Deliver` or `Fail`, and `Exit`. `Shutdown` goes from processor to processor. A
scene is the spans an application makes; it is chosen at first.

**CodeCorrelation.** `PathResolver` has a variable for each global of
`_resolve_system_paths` and a step for each access to them: `Ask`, `Compare`,
`Acquire`, `Same`, `Store`, `Collect`, `Assign`, `Read`. The list is built while
`sys.path` changes: `Insert` and `Remove` come at any moment, and `Collect` may meet
what came since the walk began; if something was taken away under the walk, it
may have passed over anything. `shrunk` and `torn` remember that a directory left
`sys.path` since a hash was taken, and since that of the list in use. In
`CodeCorrelation` a program imports from more directories as it serves a request,
and some programs take these out again (`Withdraw`). `PackageClassifier` goes
from a file and the directories that hold it to a distribution and a verdict. An
application registers its view (`FlaskRule`, `ApiRoute`, `Route`, ...), the hooks
may be removed and put back, and each thread answers a request: `Starts` is
`on_start` of the processor, which goes over the frames (`HitUser`, `HitPackage`,
`FindSite`, `AskPaths`, `LookUp`, `StoreUser`), and `Enter`, `Dispatch`, `Replace`,
`Run` and `Leave` are the places where a patch acts.

## The runs

All runs finish on two cores in under three minutes.

| Run | Bounds | States | Shows |
|---|---|---|---|
| `rate_limiter` | 2 threads, wallet of 2 requests, clock of 1.5 wallets | 0.7 M | `WindowBound`, and that the wallet implements `TokenBucket` (`BucketSpec`) |
| `statistics` | 2 threads, 3 appliers, 3 documents, 2 requests | 2.8 M | `ReportSound`, `NoOverReport`, `Conservation`, `ConsistentReport` |
| `rule_cache` | 1 rule beside the default, 3 versions, 4 bodies of which one unsupported, 76 requests in profiles, clock of 3, TTL 1 | 1.0 M | `RightRule`, `NoMissedChange`, `KeepsAppliers`, `Converges`, `Recovers` |
| `rule_cache_default` | 2 bodies, 1 version | violated | finding, below |
| `log_client` | 2 threads, 5 things to export, 3 logs, batches of 2 events and 6 bytes, 2 times | 0.8 M | `PointsTold`, `NoLoss`, `AtMostOnce`, `RequestOK`, `FlushStores` |
| `log_client_lost` | 2 logs | violated | finding, below |
| `log_processor` | 3 records of 2 sizes, queue and batch of 2, requests of 7 bytes, timeout 1, 2 attempts, requests that take up to twice the timeout, the deadline put off by 1 | 1.8 M | `Lineage`, `RequestFits`, `Drained`, `TimeBound`, `ShutdownBound`, `Exporter`, `ShutdownReturns` |
| `span_pipeline` | 10 deployments with scenes of 2 or 3 spans, queues and batches of 2 | 0.1 M | `Conserved`, `MetricsMatchSpans`, `OperationAgrees`, `LloKept`, `Delivered` |
| `consumer_metrics` | CONSUMER under CONSUMER | violated | finding, below |
| `shared_span` | 2 deployments with two exporters of a span | violated | finding, below |
| `code_correlation` | 12 applications of 8 frameworks, a request in each of 2 threads, caches of 2 verdicts, 3 frames, 2 switches of the hooks | 0.3 M | `NotBehind`, `OneLayer`, `HandlerNamed`, `UserFrameNamed`, `Answered` |
| `flask_rules` | one application with two rules | violated | finding, below |

Every passing run also checks the module's `TypeOK`.

Why the bounds suffice.

* *rate_limiter*: the clock runs past a full wallet, so that the cap matters, and
  two threads are enough for every race on one lock; what is more is the theorem's.
* *statistics*: three appliers allow a document to be shared by two of them and
  then replaced, three documents a swap after a rule change, and two requests
  meet on the shared document; the theorems cover the rest.
* *rule_cache*: two changes of the rules are needed for an older answer to
  overwrite a newer one and to be noticed; one rule beside the default shows
  removal, return, change of body and of support. The bodies have wildcards
  beside a dot, attributes, an empty pattern, a service type and an ARN; the requests report the
  same calls in the new, the deprecated and the URL attributes.
* *log_client*: a batch that is full after two events, a third that must wait for
  the next; times on both sides of the day's limit and of the valid range; one
  deletion of the log group and one request whose outcome is not known (each may
  fail plainly any number of times). The things to export are nothing, one gauge
  at two times, three metrics of one group, points that are not told, and two
  scopes of which one is empty.
* *log_processor*: a request has room for one record of each size, to the byte,
  and not for two of the larger; three records overflow the queue of two and
  leave one for the next batch; the second attempt is the last, and may begin
  just before the deadline; a request may end before, at or after it
  (`MaxRequest`). All three threads of `emit` may have passed its check when
  shutdown is called. The theorems cover other timeouts, attempts and requests of
  any length.
* *span_pipeline*: each scene has what its deployment treats differently (a
  request, a consumer, a database, a Lambda function, Gen AI content); three
  spans overflow a queue of two while a batch is under way. The scenes are
  chosen so that every processor, exporter and precedence of the attributes in
  question is met.
* *code_correlation*: two threads are enough for both races (on the resolver and
  on the view of Flask); a cache of two verdicts evicts within a stack of three
  frames; the fourth frame is past `MAX_STACK_FRAMES`. One application takes the
  directory that it imports from out of `sys.path` again, while the other request
  puts it in.

Deadlock is checked except where the system stops: in `log_processor` after
shutdown, in `span_pipeline` (and its two findings) when all spans are over and
the provider is shut down, in `code_correlation` (and `flask_rules`) when the
requests are answered.

What the properties say beyond their formulas:

* `WindowBound` holds although the wall clock may be set back: the observer
  counts by clock readings. While the clock is behind the floor the reservoir
  refuses everything, which `TokenBucket!StepBack` allows and bounds.
* `Conservation` and `ConsistentReport` hold while no applier has been replaced
  under a request (`overlap`). Without the condition they do not: an increment on
  a shared document can be lost, and not only one. `ReportSound` and
  `NoOverReport` hold in any case, so that the error is always to report too
  little.
* `RightRule` compares the applier that the loop finds with the first rule that
  is meant for the request. Its exception is a rule that raises: matching a
  number against a wildcard does (`re.fullmatch` of no string) or against an empty
  pattern (`len`), and so does the look for the ARN of a Lambda function when no
  attributes were given.
* `NoMissedChange` states exactly what a targets poll may miss. The cache is
  stamped with the time of the update, so that a modification between the answer
  of the service and the update is older than the stamp, and a modification in
  the same instant is not newer: in both cases the history variable `stale` is
  set. In all others a poll that saw newer rules refreshes.
* `Converges` needs the periodic rules poll for what `NoMissedChange` lets pass,
  and shows that overtaking answers, targets for older rules and failed polls
  leave nothing behind once the service stays up.
* `PointsTold` follows a point from the export that returned SUCCESS to a log that
  is stored, pending, or was turned down for its age, and compares the log with
  the point by the reference. `NoLoss`, `PointsTold` and `AtMostOnce` hold while
  no two threads were in the client at once (`overlap`); `AtMostOnce` also allows
  for a request that failed after it was stored. `FlushStores` holds
  whatever overlaps, with one thread that flushes: what was in the batch when a
  flush began is stored when it returns, whatever exports do meanwhile.
* `Exporter` is a refinement: what the processor's callers, the worker and the
  shutdown do to the exporter is `ExportSpec`. It fails if two calls overlap.
* `TimeBound` is not a bound in seconds: the code has none. `requests` applies the
  timeout to each wait on the socket, so that a service which answers a byte at a
  time can hold a request as long as it likes; and the second `post` after a
  connection error has the whole time its first had. What the loop does
  guarantee is that only this can outlast the deadline: no attempt begins after
  it, no wait goes beyond it, and everything before the attempt under way is
  within it, also when the clock is set back in between (which puts the deadline
  off). `ShutdownBound` allows the one attempt, of two requests, that may begin
  after the event is set.
* `Drained` excepts the records of threads that had passed `emit`'s check of the
  flag when shutdown was called: as many as there were, appended after it.
* `Lineage` places every record: sent, in the batch, in the queue, in this order
  and once; or dropped by the full queue; or the one record that had been popped
  beyond a batch whose export raised. Nothing else is lost.
* `RequestFits` is about the size as written. An estimate may be smaller than
  that: a record that holds itself, or more than three levels, is cut off
  (`KnotIsSized` shows one); the property speaks of the others.
* `Conserved` counts a span at every batch processor: waiting, in the batch,
  sent or lost, once from its `on_end` on, and never at the other path's.
* `MetricsMatchSpans` holds although metrics and exported attributes are derived
  at different times from an object that changes in between. `OperationAgrees`
  compares two derivations: the operation that went down from parent to child
  and the one of the service metric. A span that is renamed after its child
  started breaks it, and is excepted.
* `LloKept`: a span that was sent has at most one event, whose content is just what
  was on the span and no longer is. Content whose key comes again is excepted:
  later content overwrites earlier of the same key before the event is made
  (`D/llo_handler.py:316`), and both are taken off the span: the earlier is lost.
* `NotBehind`: the list in use has every directory its hash stands for, while
  nobody rebuilds it. It holds for whatever is put into `sys.path` between the
  hash and the list, and when a thread rebuilds with an older hash than the one
  before it. It excepts a list before whose end a directory left `sys.path`
  (`torn`); without that it is false, see the notes below.
* `UserFrameNamed` excepts files that were looked up in a list which lacked a
  directory of the hash, or while `sys.path` lacked one that the program had put
  there before (`raced`), see the notes below.
* `HandlerNamed` and `OneLayer` go over every way to register a view, hooks that
  come and go, and two threads of Flask that replace one view.

**Fairness.** `RuleCache`: `WF_vars(RulesPoller)` and `WF_vars(TargetsPoller)` say
that the timers keep firing and that requests end: each poll starts the next
timer as its last act, each wait of a request has a timeout of 20 seconds
(`_aws_xray_sampling_client.py`), a service is taken not to go on sending a little
within it for ever, and the timers are daemon threads of a live
process. Nothing is assumed of the clock, of the editing of rules, or of the
service; `Converges` speaks of the behaviours in which it stays up.
`LogProcessor`: the worker's loop wakes up after its delay at the latest, waits
have a timeout, a caller that asks for the lock gets it when it is
free, every request ends, `emit` is two statements, and a shutdown goes on once its thread may;
nobody need emit, flush or shut down. That requests end is an assumption about the
service: each wait for it is bounded by the timeout, but a service that goes on
sending a little keeps the request, and the lock, and `ShutdownReturns` fails.
`SpanPipeline`: only that some worker which
can work does; that is weaker than what the SDK gives, and enough for `Delivered`
because an application starts only so many spans. `CodeCorrelation`: threads
run; requests need not come.

## The proofs

TLAPS checks every leaf; no theorem is taken on trust. Assumptions are the named
ones on the constants, which every run evaluates: sizes and limits are natural
numbers and a queue holds at least one record (`QueueAssumption`,
`LimitsAssumption`, `PipelineAssumption`, `SizesAssumption`), time has a range
(`TimeAssumption`, `HorizonAssumption`), thread sets are finite where threads are
counted (`ThreadsAssumption`), the names of rules are unique numbers
(`RulesAssumption`), applications are records of their fields
(`CorrelationAssumption`) whose views have a name (`NamesAssumption`), rules and
requests are made of texts, and what a request's attributes report is what is
called (`RequestsAssumption`), a parent starts before its children
(`PipelineAssumption`), a millisecond has at least one of the units of a point's
time (`MilliAssumption`), and no index turns the key of an operation into that of
content (`KeysAssumption`). Some theorems have a hypothesis beside these; it is
named with them below. Those about points, spans and frames are also an `ASSUME` of the
module of the run, so that TLC evaluates them on its constants.

All invariants that the passing runs check, and all their action properties, are
theorems.

What a recursion over data computes is proved where the induction can be had
without a theorem that takes an operator: a set of naturals that is not empty has
a least element, and the least counterexample contradicts the step. So recursive
definitions are functions (`EndsAfter`, `Started`, `Collected`, `Those`,
`EmfLogs`), not `RECURSIVE` operators, and functions of attributes are put together with `Entry` and `++` rather than the
`:>` and `@@` of TLC, which the provers do not know.

`RateLimiterProofs`, for any set of threads, quota, price and horizon:

* `WindowBound` is not inductive: it does not say why the next grant fits. `IInv`
  adds `LockHeld` (a thread computes exactly when it holds the lock, so that the
  floor cannot move between its reading and its decision) and `WindowFloor`: once
  the observer has counted a grant, what it counted plus the start of its window
  is at most a full wallet plus the floor, and the floor is at most the last
  reading. A grant raises the floor by at least its price, because the balance is
  capped; that keeps `WindowFloor`, and it implies `WindowBound`.
* `Refinement`: a call takes effect in the bucket when it reads the clock. The
  tokens are the capped difference of the clock and the floor as it will be after
  the decision already taken. Each step of `RateLimiter` is a step of the bucket
  or a stutter.

`Totals` defines a sum by counting units, since what a fold does with one more
element could only be proved by induction. `TotalsProofs` has what the proofs
need of it: the sum of the empty set, of one element and the rest, of a larger
set, and of two functions that differ at one place.

`SamplingStatisticsProofs`, for any number of threads, appliers and documents:

* `ReportSound` needs to know who may still reach a document. `IInv` adds
  `CountingInv` (a counting request holds the lock of its applier, and what it
  loaded is not more than was ever stored), `DocInv` (the poller's document and
  the cache's are different, and none has left in a report) and `SnapInv`.
* `ConsistentReport`: the counters of a document may be out of order between the
  stores of one request. `OrderInv` says that they are in order once the thread
  that counts is done (`DueInv`), that only the cache's document can be in
  between (`RestInv`), and that the document the poller reads is no longer that
  one (`CopyInv`).
* `NoOverReport`: `SumInv` has `SampledAll` (what was sampled is what was stored
  and what threads still owe) and `TakenOnly` (what left in reports is at most
  what was stored on the documents that were taken). It holds with `overlap`.
* `Conservation`: `ConsInv` is the balance itself, in a form that sums over all
  documents the cache and the poller may still reach, and `FreshInv` (a document
  not made yet is empty).

`RuleCacheProofs`, for any rules, bodies, edits and clock:

* `KeepsAppliers` needs that a rule has one body in an answer and one applier in
  the cache. `TInv`, the inductive form of `TypeOK`, adds both.
* `NoMissedChange` needs `AgeInv`: a cache that is not behind by its own making
  has the rules of its time, and any later change is later on the clock.
* `RightRule` is a fact of every state of the right types: the loop over the sorted
  appliers stops at the first that matches or raises, and matching agrees with
  the reference. `WildCardFits` is the agreement for one pattern: `EndsAfter` says
  after which symbols of the text the parts of the regular expression so far may
  end, `Fits` cuts the text into one piece for each symbol of the pattern, and
  the two agree for each beginning of the pattern, by induction over its length.
  `MatchesMeant` finds the fields of the call in the attributes, new, deprecated
  or as a URL, one field after the other.

`CloudWatchLogClientProofs`, for any threads, data, limits, times and failures:

* `TInv` adds to the types where the locals of a call are in use (`PlaceInv`),
  that there is room for the logs of an export under way (`RoomInv`), and that
  lists and requests have only events that `add_event` took (`EventInv`).
* `NoLoss` from `AloneInv`: without an overlap there is one thread inside, it works
  on the batch of the client, and what it accepted is stored or in that batch; at
  the moment before the batch is renewed all of it is stored.
* `AtMostOnce` from `OnceInv`: lists have no event twice, and a stored event is in
  the batch only between a successful request and the renewal.
* `RequestOK` from `LimitInv`: count, size and the two time stamps of a batch are
  those of its events, sorting keeps them, and an event is appended only where
  they leave room. That sorting by counting the earlier events is a permutation
  in order of time is a lemma (`SortedFacts` and those before it).
* `FlushStores` from `DueInv`, which follows the events due through list, sorted
  copy and request. Hypothesis `OneFlusher`: one thread calls `force_flush`. The
  run has one as well. A second one may lose events for the first: its sorted
  copy, stored late, takes away what an export appended in between, and the first
  was to store. The cause is that of the finding `log_client_lost`.
* `PointsTold` from `TakenInv` (every log that an export has got past is an event,
  and decided) and `ToldInv` (the same of the exports that returned SUCCESS).
  That a log tells a point is `ExportTells`, for any scopes, groups and kinds of
  points: the records of a group are those like its first one (`Groups`), its log
  writes of each name the last record, and no other record of the group has the
  name of the point. Hypothesis: each of `Data` is an export (`IsExport`): points of
  a scope that share name, time and attributes are one point, as the SDK
  aggregates them; no metric is named like an attribute or an added dimension
  (the code overwrites its value then, see below); a time is not 0 (for which the
  code takes the present). The module of the run assumes it (`DataExported`).

`LogProcessorProofs`, for any timeout, number of attempts, Retry-After, length of a
request and set-back of the clock, queue, batch and sizes of records:

* `TimeBound` and `ShutdownBound` of `OtlpLogsExport` follow from `ExportInv`:
  `DeadlineInv` says at each place of the loop what is left of the deadline (an
  attempt that has not sent yet has not passed it, a wait fits in what remains),
  `LateInv` how many requests can have begun since the event was set.
* `Refinement`: the processor uses the exporter as `ExportSpec` says, step by step.
  It carries the two bounds over (`CallsEnd`, `CallsStop`).
* `TypeOK` and `Drained` from `TInv`: the locals belong to the caller with the
  lock, which finds as many records as it counts on, since a full queue drops one
  only to append another (`LockInv`); after shutdown only stragglers are appended,
  and the worker's last export takes all that was appended before (`ShutdownInv`).
* `Lineage` from `LineInv`: the line of records that left and are to leave is in
  order, and who is not in it is accounted for; a step moves records along the
  line, drops one or appends the newest.
* `RequestFits` from `FitInv`: the running size is the sum of the estimates of the
  batch, and only a batch of one record exceeds the limit.

`SpanPipelineProofs`, for any deployments, scenes and sizes of queue and batch:

* `Conserved` is inductive with `TInv`, the types with what `on_end` has been
  through (`LiveInv`) and what queues and batches may hold (`WorkInv`). The proof
  counts: each step changes the number of places of one span at one processor
  where it changes anything, by as much in the one place as in the other. A batch
  that fails moves to `lost` as a whole.
* `MetricsMatchSpans`: metrics are recorded from the span as `on_end` finds it, and
  an exporter derives the attributes again from what it finds later, which may
  be what it or another exporter wrote. The derivation is idempotent: of a span
  that has what was derived from it, the same is derived. The invariant says of
  each span that what can be derived from it is what could be when it ended, of
  the worker that is about to write that it has read such a span, and of what
  was sent that it has these attributes. Hypothesis `Unshared`: no exporter with
  an LLO handler has the spans of one that wraps; with one the property is false,
  which is the finding `shared_span`.
* `OperationAgrees`: `Started` goes over the processors, and what it hands down is
  the operation of the nearest SERVER span above or else of the local root, by
  induction over the parents. Until the span is renamed, nothing that its
  operation is made of changes: the application sets other attributes
  (hypothesis `Unnamed`: it does not set `aws.local.operation` itself), and
  what exporters take off or put on a span leaves the `Decisive` keys alone.
* `LloKept`: `Handles` says of the processor with the LLO handler that a span which
  waits for it, before it in `on_end`, in its queue or in the rest of its batch, is
  as it was when it ended, with no event told of it; that the span in hand, between
  reading and replacing, has been told of; and that the spans it is done with, in
  the batch or sent, are stripped and told of. A span is in one of these places,
  once, by `Conserved`: the handler never meets a span twice. `ToldContent` says
  that the event made of a span has the content that came last under each key, by
  induction over the events of the span. `ContentRemoved` adds that a span sent has
  no content (`LloFiltered`). Hypotheses: `Unshared`, without which an exporter
  puts back what was taken off (`shared_span`), and `OneHandler`, no two exporters
  with a handler have the same spans: both could read a span before either
  replaces its attributes, and tell its content twice.

`CodeCorrelationProofs`, for any threads, directories, applications and files:

* `Resolves`: every step of the requests is a step of `PathResolver` or leaves it
  alone, so that its invariant is proved about the resolver by itself.
* `NotBehind` is not inductive: it speaks of the moments at which nobody holds the
  lock. `ResolverInv` adds `HolderInv` (who rebuilds holds the lock), `GrowInv`
  (what a thread has hashed is in `sys.path` until something is taken out) and
  `RebuildInv`: until it stores a hash the holder leaves hash and list as they
  were, and the list it is about to assign has what the hash stands for, if
  nothing left `sys.path` since the hash was taken.
* `OneLayer` needs `LayerInv`: a view with a layer bears the mark that keeps the
  next registration from adding one, in `view_functions` and in the hands of every
  thread. Callbacks of aio_pika bear none, and are decorated as they were written
  each time.
* `TypeOK` bounds the numbers of wrappers: `MadeInv` counts them against the rules
  registered and the requests that were dispatched, and `CacheInv` says that the
  cache of verdicts has a file once, which moving a row to its end and dropping the
  oldest keep.
* `HandlerNamed` from `MarkInv` (a marked function has a wrapper), `WrapInv` (who
  dispatches has a wrapped view, where the framework decorates) and `NameInv`,
  which says for each place of a request which name the span has by then.
* `UserFrameNamed` from `PathInv` (the resolver is asked for files that are nowhere
  else), `RowsInv` (a cached verdict, of either
  cache, is right unless the file was raced: the look that made it had all the
  directories of its hash, and that those that the program had put there) and `ScanInv` (the frames a look has
  passed are none of the user's). Hypothesis `PathsSettle`: for files on the stack
  the classification agrees with the user's own account, in any list that has the
  directories which are there when the span starts. `MCCodeCorrelation` assumes
  it (`AccountsAgree`), so that TLC evaluates it: one of its files is classified
  wrongly by shorter lists.

Only model-checked:

* `LogSize`: the estimate of a record's size is a recursion over recursive objects,
  compared with its reference by TLC alone. `RequestFits` speaks of records
  whose estimate is right.
* Liveness (`Converges`, `Recovers`, `ShutdownReturns`, `Delivered`, `Answered`),
  which the prover does not reason about.

## What the checks found

* `rule_cache_default`. The comment at `_rule_cache.py:61` says "Should not ever
  reach fallback sampler as default rule is able to match". A rules request that
  fails is answered with an empty list, which replaces the cached rules and is
  stamped as fresh. Until the next successful poll every request is decided by
  the fallback sampler, although the rules fetched before would be good for an
  hour.
* `log_client_lost`. `send_log_event` "batches log events ... and sends them"
  (`_cloudwatch_log_client.py:335-337`). `PeriodicExportingMetricReader` calls
  the exporter's `force_flush` outside of its export lock, and the client has
  none. An event that is appended to the batch while a flush sorts it or waits
  for its request is thrown away with the batch.
* `consumer_metrics`. "dependency metrics should not be generated" for a CONSUMER
  that processes under a CONSUMER (`attribute_propagating_span_processor.py:24`).
  The attribute that marks it is a text, and is compared with a member of an
  enumeration, which no text equals (`_aws_span_processing_util.py:115, 156`).
* `shared_span`. `process_spans` filters "to maintain privacy"
  (`llo_handler.py:352`). Where a second exporter has read the attributes of the
  span before and replaces them after, it puts the content back, and both send it.
* `flask_rules`. The wrapper is marked "to avoid double decoration"
  (`_flask_patches.py:60`), the function is not: a view with two rules is wrapped
  twice, and Flask refuses the second wrapper for the endpoint of the first.

Read in the code while modelling it, without a run of their own:

* The resolver stores the hash before the list (`packages_resolver.py:141`). A
  thread without the lock that comes in between gets the old list; what it makes
  of it is kept by `lru_cache`, so that a file may be taken for the wrong
  package from then on.
* The hash is taken before the lock and the list is built after
  (`packages_resolver.py:131, 142`). A directory that is taken out of `sys.path` in
  between (a plugin loader does so) and put back later is in the hash and not in
  the list: the fast path goes on to hand out that list until `sys.path` changes.
* The configured `include` and `exclude` are compared as they are with names of
  distributions in lower case. The configured stack
  depth is checked and never used.
* Distro defaults for agents set `OTEL_AWS_APPLICATION_SIGNALS_ENABLED`, which hides
  the deprecated `OTEL_AWS_APP_SIGNALS_ENABLED`.
* `_exclude_urls_for_instrumentations` swaps the variables of requests and urllib3
  (`aws_opentelemetry_configurator.py:354-355`).
* `AwsLambdaSpanProcessor` asks a remote parent for its scope, and raises.
* An attribute of an EMF log that is named like a metric overwrites its value, and
  one log that fails ends the export with the logs after it; events too old or
  too new are dropped while the export returns SUCCESS.
* A call named in the old attributes matches differently where these say more:
  `http.target` has the query, `http.host` may have the port.

## The plan

Done: the sampler with its matching (`RateLimiter`, `SamplingStatistics`,
`Matcher`, `RuleCache`), EMF (`EmfConversion`, `CloudWatchLogClient`), logs
(`OtlpLogsExport`, `LogSize`, `LogProcessor`), spans (`TracingSetup`,
`MetricAttributes`, `LloHandler`, `SpanPipeline`), code correlation
(`PathResolver`, `PackageClassifier`, `CodeCorrelation`); and the proofs of all
of their safety properties.

Not planned: an abstract queue of a batch processor that `LogProcessor` and
`SpanPipeline` would both implement. What it would promise, every item once, in
order or dropped for a cause, is what `Lineage` and `Conserved` already say.

## What is left out

* Text: formatting, JSON, units and namespaces, logging, the wording of messages
  and their truncation; `Decimal` rounding in the reservoir. Where texts are
  compared they are sequences of symbols or of parts; wildcards do not meet line
  breaks. Of a bucket its number is kept; of the resource's attributes, those the
  EMF dimensions are made of.
* The lengths of polling intervals and schedule delays: timers may fire at any
  time, which allows every behaviour the real ones do. The jitter goes with them.
* Malformed rules. A rule whose fields do not compare (a priority that is a text)
  makes the sort raise and ends its poller, always; the model has no such rules.
* The interval of the EMF batch is only looked at when the next event arrives: no
  timer exists, and an idle batch waits for a flush.
* In `CodeCorrelation`: the order of `sys.path`, which decides
  only whether a list of the same directories is built again; spans are
  recorded ones; the cache
  between `is_user_code` and `resolve_package_from_filename` is folded into these
  two; file and line go with the name.
* In `SpanPipeline`: latencies and histograms. A metric is the record of its
  attributes, error and fault.
* The Lambda layer: one invocation runs in one thread and keeps nothing for the
  next; it is a wrapper of the handler on the SDK's providers, with flushes one
  after the other in what is left of one timeout. Spans of a function are in
  `SpanPipeline`.
* The marker of the WSGI master: who inherits it is up to the server that forks
  or restarts the processes, which the code does not say.
* Botocore and Bedrock patches are tables from a call to attributes; the UDP
  exporter's encoding and socket, the signing session and the scope exporter hold
  no state and run nothing concurrently. Scripts, tests and samples are not part
  of the distribution.
