---------------------------- MODULE SpanPipeline ----------------------------
(***************************************************************************)
(* The spans of a trace through the tracer provider that the configurator  *)
(* built: the application starts, updates and ends them, the processors    *)
(* see each start and each end in their order, the workers of the batch    *)
(* processors export, and the provider is shut down.                       *)
(*                                                                         *)
(* All processors are handed the same ReadableSpan, `ended`, at the end of *)
(* a span; exporters replace its attributes in place.  The span of the     *)
(* application, `live`, keeps its own.                                     *)
(***************************************************************************)
EXTENDS MetricAttributes, LloHandler, TracingSetup, FiniteSets

CONSTANTS Cases,           \* of an environment, see TracingSetup, and a scene, the spans to come
          QueueSize,       \* max_queue_size of a batch processor
          BatchSize        \* max_export_batch_size

(* What the derivation of metrics and the LLOHandler read of a span.       *)
Fields == {"name", "kind", "parent", "scope", "attrs", "events"}

(* What makes its operation and its dependency: no content of a large      *)
(* language model, whatever the indices.                                   *)
Decisive ==
  {"http.method", "http.target", "http.url", "messaging.operation", "aws.consumer.parent.span.kind", "aws.local.operation"}

ASSUME KeysAssumption == \A key \in Decisive : ~IsLlo(key)

ASSUME PipelineAssumption ==
  /\ QueueSize \in Nat \ {0} /\ BatchSize \in 1..QueueSize
  /\ \A c \in Cases : c = [env |-> c.env, scene |-> c.scene] /\ c.env.exporters \in Seq(Range(c.env.exporters))
  /\ \A c \in Cases : c.scene \in Seq(Range(c.scene))
  /\ \A c \in Cases : \A i \in DOMAIN c.scene :
       /\ Fields \subseteq DOMAIN c.scene[i] /\ c.scene[i].events \in Seq(Range(c.scene[i].events))
       /\ c.scene[i].parent \in {"none", "remote", "local"}
       /\ c.scene[i].parent = "local" => c.scene[i].up \in 1..(i - 1)

VARIABLES
  env, scene, sampled,  \* chosen at first; the sampling decision of the trace
  live,        \* the spans of the application
  ended,       \* the ReadableSpans
  next,        \* the ending of a span: the processor whose on_end is next
  checked,     \* the spans whose on_end found the processor not done
  queue,       \* of each batch processor, the oldest first
  batch,       \* what its worker exports, see Take
  stage,       \* of each batch processor: up, done (shutting down), exited
  sent,        \* what each exporter has delivered
  lost,        \* <<processor, span, cause>>
  metrics,     \* records of the AwsSpanMetricsProcessor
  events       \* Gen AI events emitted

vars == <<env, scene, sampled, live, ended, next, checked, queue, batch, stage, sent, lost, metrics, events>>

Spans == DOMAIN scene
PipelineOf == [e \in { c.env : c \in Cases } |-> Processors(e)]
Pipeline == PipelineOf[env]
Workers == { p \in DOMAIN Pipeline : Batching(Pipeline[p]) }
Takes(p) == (Pipeline[p].type = "sampled") = sampled

NoSpan   == [state |-> "none"]
Absent   == [state |-> "absent"]
Phase(i) == live[i].state
Nothing  == [name |-> None, attrs |-> None]
Idle     == [spans |-> <<>>, at |-> 1, step |-> "read", attrs |-> None]

Init ==
  /\ \E c \in Cases : env = c.env /\ scene = c.scene
  /\ sampled \in BOOLEAN
  /\ live = [i \in Spans |-> NoSpan]
  /\ ended = [i \in Spans |-> NoSpan]
  /\ next = [i \in Spans |-> 0]
  /\ checked = {} /\ lost = {} /\ metrics = {} /\ events = {}
  /\ queue = [p \in Workers |-> <<>>]
  /\ batch = [p \in Workers |-> Idle]
  /\ stage = [p \in Workers |-> "up"]
  /\ sent = [p \in Workers |-> <<>>]

-----------------------------------------------------------------------------
(* on_start of the processors: what each makes of the span and its parent  *)
(* `up`, of which only the flag of the Lambda processor changes.           *)

IsSpan(up) == up.state # "none"
IsOpen(s)  == s.state \in {"started", "updated"}

Set(s, key, value) == [s EXCEPT !.attrs = Entry(key, value) ++ @]
SetIf(condition, s, key, value) == IF condition THEN Set(s, key, value) ELSE s

(* CodeAttributesSpanProcessor; `caller` is the first frame of user code.  *)
CodeStart(s) ==
  SetIf(/\ ~(s.kind \in {"SERVER", "INTERNAL"} /\ s.library)
        /\ ~Has(s, "code.function.name") /\ s.caller # None,
        s, "code.function.name", s.caller)

UnsampledStart(s) == SetIf(~sampled, s, "aws.trace.flag.sampled", <<"false">>)
BaggageStart(s)   == SetIf(s.session # None, s, "session.id", s.session)

UnderLambda(s, up) == s.scope = "flask" /\ IsSpan(up) /\ up.scope = "aws_lambda"

Inherit(s, up, keys) == [s EXCEPT !.attrs = [k \in { key \in keys : Has(up, key) } |-> up.attrs[k]] ++ @]

(* AttributePropagatingSpanProcessor.                                      *)
Propagated(s, up) ==
  LET sdk      == SetIf(AwsSdk(up), s, "aws.sdk.descendant", <<"true">>)
      internal == IF up.kind = "INTERNAL" THEN Inherit(sdk, up, {"aws.remote.service", "aws.remote.operation"}) ELSE sdk
      consumer == SetIf(s.kind = "CONSUMER" /\ up.kind = "CONSUMER", internal, "aws.consumer.parent.span.kind", <<"CONSUMER">>)
  IN  IF Has(consumer, "cloud.resource_id") THEN consumer ELSE Inherit(consumer, up, {"cloud.resource_id"})

(* Mutant: the operation goes down one generation.                         *)
PropagateOnce(s, up) ==
  LET own       == IF IsSpan(up) THEN Propagated(s, up) ELSE s
      operation == IF LocalRoot(s) THEN IF s.kind = "SERVER" THEN None ELSE IngressOperation(own, env.lambda)
                   ELSE IF up.kind = "SERVER" THEN IngressOperation(up, env.lambda) ELSE None
  IN  SetIf(operation # None, own, "aws.local.operation", operation)

PropagatingStart(s, up) ==
  LET own       == IF IsSpan(up) THEN Propagated(s, up) ELSE s
      operation == IF LocalRoot(s) THEN IF s.kind = "SERVER" THEN None ELSE IngressOperation(own, env.lambda)
                   ELSE IF up.kind = "SERVER" THEN IngressOperation(up, env.lambda)
                   ELSE Attr(up, "aws.local.operation")
  IN  SetIf(operation # None, own, "aws.local.operation", operation)

OnStart(both, processor) ==
  LET s  == both.span
      up == both.up
  IN  CASE processor.type = "code"        -> [both EXCEPT !.span = CodeStart(s)]
        [] processor.type = "unsampled"   -> [both EXCEPT !.span = UnsampledStart(s)]
        [] processor.type = "baggage"     -> [both EXCEPT !.span = BaggageStart(s)]
        [] processor.type = "propagating" -> [both EXCEPT !.span = PropagatingStart(s, up)]
        [] processor.type = "lambda" /\ UnderLambda(s, up) ->
             [span |-> [s EXCEPT !.kind = "SERVER"],
              up   |-> SetIf(IsOpen(up), up, "aws.trace.lambda.multiple.server", <<"true">>)]
        [] OTHER -> both

(* The flask span of a Lambda function whose parent is remote: the scope   *)
(* of a parent that is no SDK span is asked for its name, and the start of *)
(* the span raises.                                                        *)
StartRaises(s) == env.lambda /\ s.scope = "flask" /\ s.parent = "remote"

(* Span n of the scene, after those before it, under span s.up if its      *)
(* parent is local.  The processors see nothing of a span that is not      *)
(* recorded, nor of those under it.                                        *)
Local(n) == scene[n].parent = "local"
Unseen(n) ==
  \/ ~Records(env, sampled)
  \/ StartRaises(scene[n])
  \/ Local(n) /\ Phase(scene[n].up) = "absent"

(* The new span and its parent after one processor and the next: of the    *)
(* parent they set attributes only.                                        *)
Started(n) ==
  LET both == [span |-> scene[n], up |-> IF Local(n) THEN live[scene[n].up] ELSE NoSpan]
      after[p \in 0..Len(Pipeline)] == IF p = 0 THEN both ELSE OnStart(after[p - 1], Pipeline[p])
  IN  after[Len(Pipeline)]

Recording(n, s) == [field \in DOMAIN scene[n] \cup {"state"} |-> IF field = "state" THEN "started" ELSE s[field]]

Start(n) ==
  /\ Phase(n) = "none"
  /\ \A i \in 1..(n - 1) : Phase(i) # "none"
  /\ live' = IF Unseen(n) THEN [live EXCEPT ![n] = Absent]
             ELSE [i \in Spans |-> IF i = n THEN Recording(n, Started(n).span)
                                   ELSE IF Local(n) /\ i = scene[n].up
                                     THEN [live[i] EXCEPT !.attrs = Started(n).up.attrs] ELSE live[i]]
  /\ UNCHANGED <<env, scene, sampled, ended, next, checked, queue, batch, stage, sent, lost, metrics, events>>

(* The name and the attributes that are set once the span has started.     *)
Update(i) ==
  LET later == scene[i].later
  IN  /\ Phase(i) = "started" /\ later # Nothing
      /\ live' = [live EXCEPT ![i].state = "updated",
                              ![i].name  = OrElse(later.name, @),
                              ![i].attrs = later.attrs ++ @]
      /\ UNCHANGED <<env, scene, sampled, ended, next, checked, queue, batch, stage, sent, lost, metrics, events>>

-----------------------------------------------------------------------------
(* on_end: processor after processor, each in the thread that ends the     *)
(* span.                                                                   *)

Ends(p) == Pipeline[p].type \in {"sampled", "unsampled", "metrics"}
After(p) ==
  LET later == { q \in DOMAIN Pipeline : q > p /\ Ends(q) }
  IN  IF later = {} THEN Len(Pipeline) + 1 ELSE CHOOSE q \in later : \A r \in later : q <= r

End(i) ==
  /\ IsOpen(live[i]) /\ (Phase(i) = "updated" \/ scene[i].later = Nothing)
  /\ live' = [live EXCEPT ![i].state = "over"]
  /\ ended' = [ended EXCEPT ![i] = live[i]]
  /\ next' = [next EXCEPT ![i] = After(0)]
  /\ UNCHANGED <<env, scene, sampled, checked, queue, batch, stage, sent, lost, metrics, events>>

At(i, p) == next[i] = p /\ next' = [next EXCEPT ![i] = After(p)]

(* The batch processor of the other spans, or one that is shut down.       *)
Refuse(i, p) ==
  /\ At(i, p) /\ i \notin checked
  /\ ~Takes(p) \/ stage[p] # "up"
  /\ lost' = IF Takes(p) THEN lost \cup {<<p, i, "shut down">>} ELSE lost
  /\ UNCHANGED <<env, scene, sampled, live, ended, checked, queue, batch, stage, sent, metrics, events>>

(* Mutant: the sampling decision is not looked at.                         *)
CheckDone(i, p) ==
  /\ next[i] = p /\ i \notin checked /\ stage[p] = "up"
  /\ checked' = checked \cup {i}
  /\ UNCHANGED <<env, scene, sampled, live, ended, next, queue, batch, stage, sent, lost, metrics, events>>

Check(i, p) ==
  /\ next[i] = p /\ i \notin checked
  /\ Takes(p) /\ stage[p] = "up"
  /\ checked' = checked \cup {i}
  /\ UNCHANGED <<env, scene, sampled, live, ended, next, queue, batch, stage, sent, lost, metrics, events>>

(* Mutant: the deque has no bound.                                         *)
EnqueueUnbounded(i, p) ==
  /\ At(i, p) /\ i \in checked
  /\ checked' = checked \ {i}
  /\ IF stage[p] = "exited"
       THEN lost' = lost \cup {<<p, i, "late">>} /\ UNCHANGED queue
       ELSE queue' = [queue EXCEPT ![p] = Append(@, i)] /\ UNCHANGED lost
  /\ UNCHANGED <<env, scene, sampled, live, ended, batch, stage, sent, metrics, events>>

(* appendleft on a bounded deque.  The worker may have left meanwhile:     *)
(* nobody looks at the queue again.                                        *)
Enqueue(i, p) ==
  LET full == Len(queue[p]) = QueueSize
  IN  /\ At(i, p) /\ i \in checked
      /\ checked' = checked \ {i}
      /\ IF stage[p] = "exited"
           THEN /\ lost' = lost \cup {<<p, i, "late">>}
                /\ UNCHANGED queue
           ELSE /\ lost' = IF full THEN lost \cup {<<p, Head(queue[p]), "overflow">>} ELSE lost
                /\ queue' = [queue EXCEPT ![p] = Append(IF full THEN Tail(@) ELSE @, i)]
      /\ UNCHANGED <<env, scene, sampled, live, ended, batch, stage, sent, metrics, events>>

(* AwsSpanMetricsProcessor.                                                *)
Code(s)  == Attr(s, "http.status_code")
Fault(s) == Code(s) = <<"5xx">> \/ (Code(s) # <<"4xx">> /\ s.error)

Metric(i, kind, attrs) ==
  [span |-> i, kind |-> kind, attrs |-> attrs, error |-> Code(ended[i]) = <<"4xx">>, fault |-> Fault(ended[i])]

MetricsOf(i) ==
  LET s == ended[i]
  IN  (IF HasService(s) THEN { Metric(i, "service", ServiceAttributes(s, env.lambda)) } ELSE {})
        \cup (IF HasDependency(s) THEN { Metric(i, "dependency", DependencyAttributes(s)) } ELSE {})

Ec2Metadata(m) == m.kind = "dependency" /\ m.attrs["aws.remote.service"] = <<"169.254.169.254">>

Measure(i, p) ==
  /\ At(i, p) /\ Pipeline[p].type = "metrics"
  /\ metrics' = metrics \cup (IF Raises(ended[i]) THEN {} ELSE { m \in MetricsOf(i) : ~Ec2Metadata(m) })
  /\ UNCHANGED <<env, scene, sampled, live, ended, checked, queue, batch, stage, sent, lost, events>>

OnEnd(i) ==
  \E p \in DOMAIN Pipeline :
    IF p \in Workers THEN Refuse(i, p) \/ Check(i, p) \/ Enqueue(i, p) ELSE Measure(i, p)

-----------------------------------------------------------------------------
(* The worker of a batch processor.  It takes a batch off its queue, the   *)
(* exporter goes over its spans (`at` is the one in hand), reading its     *)
(* attributes and then replacing them with `attrs`, and delivers them.     *)

ExporterOf(p) == Pipeline[p].exporter
InHand(p)     == batch[p].spans[batch[p].at]
Busy(p)       == batch[p].spans # <<>>
Prepared(p)   == batch[p].at > Len(batch[p].spans) \/ ~(ExporterOf(p).wraps \/ ExporterOf(p).llo)

Take(p) ==
  LET n == IF Len(queue[p]) < BatchSize THEN Len(queue[p]) ELSE BatchSize
  IN  /\ ~Busy(p) /\ stage[p] # "exited" /\ n > 0
      /\ batch' = [batch EXCEPT ![p] = [Idle EXCEPT !.spans = SubSeq(queue[p], 1, n)]]
      /\ queue' = [queue EXCEPT ![p] = SubSeq(@, n + 1, Len(@))]
      /\ UNCHANGED <<env, scene, sampled, live, ended, next, checked, stage, sent, lost, metrics, events>>

Advance(b) == [b EXCEPT !.at = @ + 1, !.step = "read", !.attrs = None]

Lose(p, cause) ==
  /\ lost' = lost \cup { <<p, batch[p].spans[n], cause>> : n \in DOMAIN batch[p].spans }
  /\ batch' = [batch EXCEPT ![p] = Idle]

(* AwsMetricAttributesSpanExporter: an exception of the generator ends the *)
(* export of the batch.                                                    *)
Generate(p) ==
  /\ Busy(p) /\ ~Prepared(p) /\ batch[p].step = "read" /\ ExporterOf(p).wraps
  /\ \E s \in {ended[InHand(p)]} :
       IF Raises(s) THEN Lose(p, "raised")
       ELSE /\ \E attrs \in {SpanAttributes(s, env.lambda)} :
                 batch' = [batch EXCEPT ![p] = IF attrs = None THEN Advance(@)
                                               ELSE [@ EXCEPT !.step = "write", !.attrs = attrs ++ s.attrs]]
            /\ UNCHANGED lost
  /\ UNCHANGED <<env, scene, sampled, live, ended, next, checked, queue, stage, sent, metrics, events>>

(* process_spans: the event goes to a logger, which is none if logging is  *)
(* not set up.                                                             *)
Process(p) ==
  LET s == ended[InHand(p)]
  IN  /\ Busy(p) /\ ~Prepared(p) /\ batch[p].step = "read" /\ ExporterOf(p).llo
      /\ \E messages \in {MessagesOf(s)} :
           events' = IF messages # {} /\ env.logging THEN events \cup { GenAiEvent(InHand(p), s, messages) } ELSE events
      /\ batch' = [batch EXCEPT ![p].step = "write", ![p].attrs = Filtered(s.attrs)]
      /\ UNCHANGED <<env, scene, sampled, live, ended, next, checked, queue, stage, sent, lost, metrics>>

Replace(p) ==
  /\ Busy(p) /\ batch[p].step = "write"
  /\ ended' = [ended EXCEPT ![InHand(p)].attrs = batch[p].attrs,
                            ![InHand(p)].events = IF ExporterOf(p).llo THEN FilteredEvents(@) ELSE @]
  /\ batch' = [batch EXCEPT ![p] = Advance(@)]
  /\ UNCHANGED <<env, scene, sampled, live, next, checked, queue, stage, sent, lost, metrics, events>>

Delivery(i) == [span |-> i, attrs |-> ended[i].attrs, events |-> ended[i].events]

Deliver(p) ==
  /\ Busy(p) /\ Prepared(p) /\ ExporterOf(p) # NoExporter
  /\ sent' = [sent EXCEPT ![p] = @ \o [n \in DOMAIN batch[p].spans |-> Delivery(batch[p].spans[n])]]
  /\ batch' = [batch EXCEPT ![p] = Idle]
  /\ UNCHANGED <<env, scene, sampled, live, ended, next, checked, queue, stage, lost, metrics, events>>

(* A result of FAILURE is not retried.  What is no exporter raises.        *)
Fail(p) ==
  /\ Busy(p) /\ Prepared(p)
  /\ ExporterOf(p) = NoExporter \/ ~env.reachable
  /\ Lose(p, "failed")
  /\ UNCHANGED <<env, scene, sampled, live, ended, next, checked, queue, stage, sent, metrics, events>>

(* Mutant: the worker leaves what is queued.                               *)
ExitAtOnce(p) ==
  /\ stage[p] = "done" /\ ~Busy(p)
  /\ stage' = [stage EXCEPT ![p] = "exited"]
  /\ UNCHANGED <<env, scene, sampled, live, ended, next, checked, queue, batch, sent, lost, metrics, events>>

(* Shut down, the worker leaves once its queue is empty.                   *)
Exit(p) ==
  /\ stage[p] = "done" /\ ~Busy(p) /\ queue[p] = <<>>
  /\ stage' = [stage EXCEPT ![p] = "exited"]
  /\ UNCHANGED <<env, scene, sampled, live, ended, next, checked, queue, batch, sent, lost, metrics, events>>

Work(p) == Take(p) \/ Generate(p) \/ Process(p) \/ Replace(p) \/ Deliver(p) \/ Fail(p) \/ Exit(p)

(* The provider shuts down one processor after the other, and waits for    *)
(* the worker of each.                                                     *)
Shutdown(p) ==
  /\ stage[p] = "up" /\ \A q \in Workers : q < p => stage[q] = "exited"
  /\ stage' = [stage EXCEPT ![p] = "done"]
  /\ UNCHANGED <<env, scene, sampled, live, ended, next, checked, queue, batch, sent, lost, metrics, events>>

Next ==
  \/ \E i \in Spans : Start(i) \/ Update(i) \/ End(i) \/ OnEnd(i)
  \/ \E p \in Workers : Work(p) \/ Shutdown(p)

(* A worker wakes up after schedule_delay_millis at the latest.  Nothing   *)
(* makes an application start or end a span, go on in the middle of        *)
(* on_end, or shut the provider down.                                      *)
Spec == Init /\ [][Next]_vars /\ WF_vars(\E p \in Workers : Work(p))

-----------------------------------------------------------------------------
Causes == {"shut down", "late", "overflow", "raised", "failed"}

(* Every variable has its type, and what is in hand is in the batch.       *)
TypeOK ==
  /\ [env |-> env, scene |-> scene] \in Cases /\ sampled \in BOOLEAN
  /\ \A i \in Spans : Phase(i) \in {"none", "absent", "started", "updated", "over"}
  /\ \A i \in Spans : (ended[i] = NoSpan) <=> (Phase(i) # "over")
  /\ next \in [Spans -> 0..(Len(Pipeline) + 1)]
  /\ checked \subseteq Spans
  /\ queue \in [Workers -> Seq(Spans)]
  /\ stage \in [Workers -> {"up", "done", "exited"}]
  /\ \A p \in Workers :
       /\ Len(queue[p]) <= QueueSize /\ Len(batch[p].spans) <= BatchSize
       /\ batch[p].step = "write" => batch[p].at \in DOMAIN batch[p].spans
  /\ lost \subseteq Workers \X Spans \X Causes

Count(seq, i) == Cardinality({ n \in DOMAIN seq : seq[n] = i })

Times(p, i) ==
  Count(queue[p], i) + Count(batch[p].spans, i)
    + Cardinality({ n \in DOMAIN sent[p] : sent[p][n].span = i })
    + Cardinality({ cause \in Causes : <<p, i, cause>> \in lost })

(* A batch processor has a span of its decision exactly once from its      *)
(* on_end on, waiting, in the batch, sent or lost, and no other span ever: *)
(* queue and batch of the sampled and of the unsampled processors, their   *)
(* overflow and their shutdown together.                                   *)
Conserved ==
  \A p \in Workers, i \in Spans : Times(p, i) = IF Takes(p) /\ next[i] > p THEN 1 ELSE 0

(* No two exporters are handed the same span, one that puts attributes on  *)
(* it and one that owns an LLOHandler.                                     *)
Unshared(e) ==
  \A p, q \in DOMAIN Processors(e) :
    Processors(e)[p].type = Processors(e)[q].type /\ Processors(e)[p].exporter.wraps => ~Processors(e)[q].exporter.llo

(* "This will result in metrics and spans being produced with common       *)
(* attributes" (AwsMetricAttributesSpanExporter): what is sent of a span   *)
(* has the attributes its metrics were recorded with, LOCAL_ROOT aside,    *)
(* although either may be derived from a span that exporters have changed. *)
MetricsMatchSpans ==
  \A p \in Workers, m \in metrics :
    \A n \in DOMAIN sent[p] :
      ExporterOf(p).wraps /\ sent[p][n].span = m.span
      => \A key \in DOMAIN m.attrs \ {"aws.span.kind"} :
           key \in DOMAIN sent[p][n].attrs /\ sent[p][n].attrs[key] = m.attrs[key]

(* The span whose operation the spans under it are counted for.            *)
Owning[i \in Spans] == IF Local(i) /\ scene[i].kind # "SERVER" THEN Owning[scene[i].up] ELSE i

(* Its operation is another one after it has started.                      *)
Renamed(i) ==
  \/ scene[i].later.name # None
  \/ \E key \in {"http.method", "http.target", "http.url"} : key \in DOMAIN scene[i].later.attrs

(* The application leaves the operation to the processors.                 *)
Unnamed(s) == \A i \in DOMAIN s : "aws.local.operation" \notin DOMAIN s[i].attrs \cup DOMAIN s[i].later.attrs

(* A dependency metric is counted for the operation that the service       *)
(* metric of its local root (or of the SERVER span above it) names, unless *)
(* that span is renamed after the start of the one under it: the operation *)
(* goes down from parent to child as spans start, and is derived anew as   *)
(* they end.                                                               *)
OperationAgrees ==
  \A d, m \in metrics :
    d.kind = "dependency" /\ m.kind = "service" /\ m.span = Owning[d.span] /\ ~Renamed(m.span)
      => d.attrs["aws.local.operation"] = m.attrs["aws.local.operation"]

(* No two exporters with an LLOHandler are handed the same span.           *)
OneHandler(e) ==
  \A p, q \in DOMAIN Processors(e) :
    Processors(e)[p].type = Processors(e)[q].type /\ Processors(e)[p].exporter.llo /\ Processors(e)[q].exporter.llo => p = q

(* Content of a large language model on the span: where it is (0: in the   *)
(* attributes; 2n - 1: the event n itself; 2n: in its attributes), its key *)
(* and itself.                                                             *)
Contents(s) ==
  { <<0, key, s.attrs[key]>> : key \in { k \in DOMAIN s.attrs : IsLlo(k) } }
    \cup { <<2 * n - 1, s.events[n].name, EventContent(s.events[n].attrs)>> : n \in { m \in DOMAIN s.events : IsLlo(s.events[m].name) } }
    \cup UNION { { <<2 * n, key, s.events[n].attrs[key]>> : key \in { k \in DOMAIN s.events[n].attrs : IsLlo(k) } }
                 : n \in DOMAIN s.events }

(* That whose key does not come again.                                     *)
Latest(found) == { c \in found : ~\E other \in found : other[2] = c[2] /\ other[1] > c[1] }

Emitted(i) == UNION { { m.content : m \in e.input \cup e.output } : e \in { x \in events : x.span = i } }

(* What the LLOHandler takes off a span it has put in the one event of the *)
(* span, except the content whose key came again, which is lost; and the   *)
(* event has nothing that is still on the span.                            *)
LloKept ==
  \A p \in Workers : ExporterOf(p).llo /\ env.logging =>
    \A n \in DOMAIN sent[p] :
      LET i    == sent[p][n].span
          left == { Tail(c) : c \in Contents(sent[p][n]) }
      IN  /\ Cardinality({ e \in events : e.span = i }) <= 1
          /\ Emitted(i) = { c[3] : c \in { x \in Latest(Contents(live[i])) : Tail(x) \notin left } }

(* "Filters out LLO attributes from the span and its events to maintain    *)
(* privacy" (process_spans): none of it is sent by the exporter that owns  *)
(* the LLOHandler.                                                         *)
LloFiltered == \A p \in Workers : ExporterOf(p).llo => \A n \in DOMAIN sent[p] : Contents(sent[p][n]) = {}

(* What a worker can still take from its queue is exported or lost in the  *)
(* end, although the provider may be shut down at any time: the worker     *)
(* leaves nothing behind.                                                  *)
Delivered == <>[](\A p \in Workers : queue[p] = <<>> /\ ~Busy(p))

(* "If the span is a CONSUMER PROCESS with the parent also a CONSUMER ...  *)
(* dependency metrics should not be generated for this span"               *)
(* (AttributePropagatingSpanProcessor).                                    *)
ConsumerQuiet ==
  \A m \in metrics :
    LET s == live[m.span]
    IN  ~(/\ m.kind = "dependency"
          /\ s.kind = "CONSUMER" /\ Attr(s, "messaging.operation") = <<"process">>
          /\ s.parent = "local" /\ live[s.up].kind = "CONSUMER")
=============================================================================
