---------------------------- MODULE TracingSetup ----------------------------
(***************************************************************************)
(* What the distro and the AwsOpenTelemetryConfigurator make of the        *)
(* environment: the defaults, the sampler, the exporters and the span      *)
(* processors of the tracer provider.                                      *)
(*                                                                         *)
(* The environment of a process is a record with the text of each          *)
(* variable, lower case, or Unset; `exporters` (OTEL_TRACES_EXPORTER) is   *)
(* the sequence of the exporters it names, and `endpoint`                  *)
(* (OTEL_EXPORTER_OTLP_TRACES_ENDPOINT) "xray" when it is an AWS OTLP      *)
(* endpoint.  `botocore` tells whether it is installed, `reachable`        *)
(* whether what the exporters send to is.                                  *)
(***************************************************************************)
EXTENDS Integers, Sequences

When(condition, seq) == IF condition THEN seq ELSE <<>>

Unset == "unset"
Default(text, default) == IF text = Unset THEN default ELSE text
Enabled(text) == Default(text, "false") = "true"

(* get_aws_region.                                                         *)
RegionKnown(process) == process.botocore /\ process.region # Unset

(* AwsOpenTelemetryDistro._configure, setdefault by setdefault.            *)
WithDefaults(process) ==
  IF Enabled(process.agent)
    THEN [process EXCEPT !.exporters = IF @ = <<>> THEN <<"otlp">> ELSE @,
                         !.endpoint  = IF RegionKnown(process) THEN Default(@, "xray") ELSE @,
                         !.logging   = Default(@, "true"),
                         !.signals   = Default(@, "false")]
    ELSE process

(* _is_application_signals_enabled; the second variable is the deprecated  *)
(* one, which the default for agents hides.                                *)
SignalsEnabled(process) == Default(process.signals, Default(process.oldSignals, "false")) = "true"

(* What the configurator reads from it.  Without OTEL_TRACES_EXPORTER the  *)
(* distro of OpenTelemetry sets "otlp".                                    *)
Deployment(process) ==
  LET set == WithDefaults(process)
  IN  [signals |-> SignalsEnabled(set), lambda |-> set.function # Unset, agent |-> Enabled(set.agent),
       code |-> Enabled(set.code), logging |-> Enabled(set.logging),
       exporters |-> IF set.exporters = <<>> THEN <<"otlp">> ELSE set.exporters, endpoint |-> set.endpoint,
       botocore |-> set.botocore, reachable |-> set.reachable]

(* `to` is where the exporter sends; `wraps` tells that it is an           *)
(* AwsMetricAttributesSpanExporter, `llo` that it owns an LLOHandler.      *)
Exporter(to, wraps, llo) == [to |-> to, wraps |-> wraps, llo |-> llo]
NoExporter == Exporter("nothing", FALSE, FALSE)

(* _create_aws_otlp_exporter: nothing without botocore.                    *)
AwsOtlpExporter(env) == IF env.botocore THEN Exporter("xray", FALSE, env.agent) ELSE NoExporter

SpanExporter(env, name) ==
  LET udp  == env.lambda /\ name = "otlp" /\ env.endpoint = "unset"
      xray == name = "otlp" /\ env.endpoint = "xray"
  IN  IF xray THEN AwsOtlpExporter(env) ELSE Exporter(IF udp THEN "udp" ELSE name, env.signals, FALSE)

(* A dropped span is not recorded, unless the AlwaysRecordSampler made it  *)
(* RECORD_ONLY.                                                            *)
Records(env, sampled) == sampled \/ env.signals

Processor(type, exporter) == [type |-> type, exporter |-> exporter]
Plain(type) == <<Processor(type, NoExporter)>>

AgentProcessors(env) ==
  When(env.endpoint = "xray", <<Processor("unsampled", AwsOtlpExporter(env))>>) \o Plain("baggage")

SignalsProcessors(env) ==
  Plain("propagating")
    \o (IF env.lambda THEN <<Processor("unsampled", Exporter("udp", TRUE, FALSE))>> ELSE Plain("metrics"))

Processors(env) ==
  [n \in DOMAIN env.exporters |-> Processor("sampled", SpanExporter(env, env.exporters[n]))]
    \o When(env.code, Plain("code"))
    \o When(env.lambda, Plain("lambda"))
    \o When(env.agent, AgentProcessors(env))
    \o When(env.signals, SignalsProcessors(env))

Batching(processor) == processor.type \in {"sampled", "unsampled"}
=============================================================================
