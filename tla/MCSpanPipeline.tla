--------------------------- MODULE MCSpanPipeline ---------------------------
(* Environments and scenes for SpanPipeline.                               *)
EXTENDS SpanPipeline

PlainProcess ==
  [signals |-> Unset, oldSignals |-> Unset, function |-> Unset, agent |-> Unset, code |-> "true", logging |-> "true",
   exporters |-> <<>>, endpoint |-> Unset, region |-> "us-east-1", botocore |-> TRUE, reachable |-> TRUE]

Signals == [PlainProcess EXCEPT !.oldSignals = "true"]
Agent   == [PlainProcess EXCEPT !.agent = "true", !.logging = Unset]
Both    == [Agent EXCEPT !.signals = "true"]
OnLambda(process) == [process EXCEPT !.function = "shop"]

SignalsOnly   == Deployment(Signals)
SignalsTwo    == Deployment([Signals EXCEPT !.exporters = <<"otlp", "console">>])
AgentOnly     == Deployment([Agent EXCEPT !.oldSignals = "true", !.exporters = <<"otlp", "console">>])
AgentSignals  == Deployment(Both)
LambdaSignals == Deployment(OnLambda(Signals))
LambdaCustom  == Deployment([OnLambda(Both) EXCEPT !.endpoint = "other"])
NoBotocore    == Deployment([Both EXCEPT !.endpoint = "xray", !.botocore = FALSE, !.logging = "false", !.code = Unset])

(* Two exporters of one span, one with an LLOHandler and one that wraps.   *)
LambdaAgent   == Deployment(OnLambda(Both))
AgentConsole  == Deployment([Both EXCEPT !.exporters = <<"otlp", "console">>])

Span(name, kind, parent, up, attrs) ==
  [name |-> <<name>>, kind |-> kind, parent |-> parent, up |-> up, attrs |-> attrs, scope |-> "app", library |-> TRUE,
   caller |-> None, session |-> None, events |-> <<>>, error |-> FALSE, later |-> Nothing]

Then(attrs) == [name |-> None, attrs |-> attrs]

Http(method, url) == ("http.method" :> <<method>>) @@ ("http.url" :> url)

(* A request, the call of a queue that it makes and the HTTP span below.   *)
Request == <<
  [Span("GET", "SERVER", "remote", 0, Http("GET", <<"shop.example", "cart", "1">>)) EXCEPT !.later = Then(("http.status_code" :> <<"5xx">>))],
  [Span("SQS.SendMessage", "CLIENT", "local", 1,
        ("rpc.system" :> <<"aws-api">>) @@ ("rpc.service" :> <<"SQS">>) @@ ("rpc.method" :> <<"SendMessage">>)
          @@ ("aws.auth.region" :> <<"us-east-1">>) @@ ("cloud.resource_id" :> <<"arn:lambda">>))
     EXCEPT !.later = Then(("aws.sqs.queue.url" :> <<"sqs", "us-west-2", "123456789012", "orders">>)), !.caller = <<"app.send">>],
  Span("POST", "CLIENT", "local", 2,
       Http("POST", <<"sqs.us-west-2.example">>) @@ ("http.status_code" :> <<"4xx">>) @@ ("net.peer.name" :> <<"host">>) @@ ("net.peer.port" :> <<"443">>)) >>

Call == << Request[1], Request[2] >>

(* A local root that consumes, work inside and a database.                 *)
Consume == <<
  [Span("orders process", "CONSUMER", "none", 0, ("messaging.system" :> <<"kafka">>)) EXCEPT
     !.later = Then(("messaging.operation" :> <<"process">>))],
  [Span("work", "INTERNAL", "local", 1, ("aws.remote.service" :> <<"billing">>)) EXCEPT !.library = FALSE, !.caller = <<"app.work">>],
  [Span("SELECT", "CLIENT", "local", 2,
        ("db.system" :> <<"mysql">>) @@ ("db.statement" :> <<"SELECT", "1">>) @@ ("db.name" :> <<"a|b">>)
          @@ ("db.user" :> <<"me">>) @@ ("db.connection_string" :> <<"db", "3306">>)) EXCEPT !.error = TRUE] >>

(* The flask application of a function, and the boto3sqs span it makes.    *)
Function == <<
  [Span("handler", "SERVER", "remote", 0, <<>>) EXCEPT !.scope = "aws_lambda"],
  [Span("GET /", "INTERNAL", "local", 1, ("http.target" :> <<"cart">>)) EXCEPT !.scope = "flask"],
  [Span("orders send", "PRODUCER", "local", 2, ("messaging.system" :> <<"aws.sqs">>)) EXCEPT !.scope = "boto3sqs"] >>

Unlinked == << [Function[2] EXCEPT !.parent = "remote"], [Function[3] EXCEPT !.up = 1] >>

(* An answer on the attributes, prompts on events; a tool.                 *)
Chat == <<
  [Span("chat", "CLIENT", "none", 0,
        ("gen_ai.completion.0.content" :> <<"answer">>) @@ ("gen_ai.completion.0.role" :> <<"assistant">>)
          @@ ("gen_ai.request.model" :> <<"model">>) @@ ("rpc.system" :> <<"aws-api">>) @@ ("rpc.service" :> <<"Bedrock Runtime">>))
     EXCEPT !.session = <<"session">>,
            !.events = << [name |-> "gen_ai.user.message", attrs |-> ("content" :> <<"first">>)],
                          [name |-> "gen_ai.user.message", attrs |-> ("content" :> <<"second">>)],
                          [name |-> "log", attrs |-> ("gen_ai.tool.message" :> <<"tool">>) @@ ("level" :> <<"info">>)] >>],
  Span("tool", "INTERNAL", "local", 1, ("tool.result" :> <<"found">>)) >>

(* A data source whose knowledge base is not on the span.                  *)
Retrieve == <<
  Span("retrieve", "CLIENT", "none", 0,
       ("rpc.system" :> <<"aws-api">>) @@ ("rpc.service" :> <<"Bedrock Agent Runtime">>) @@ ("aws.bedrock.data_source.id" :> <<"source">>)),
  Span("tool", "INTERNAL", "local", 1, <<>>) >>

(* CONSUMER under CONSUMER.                                                *)
Relay == <<
  Span("poll", "CONSUMER", "none", 0, ("messaging.operation" :> <<"receive">>)),
  Span("handle", "CONSUMER", "local", 1, ("messaging.operation" :> <<"process">>)) >>

Case(e, s) == [env |-> e, scene |-> s]

MCCases == {
  Case(SignalsOnly, Request),
  Case(SignalsOnly, Consume),
  Case(SignalsTwo, Call),
  Case(AgentOnly, Chat),
  Case(AgentSignals, Chat),
  Case(SignalsOnly, Retrieve),
  Case([LambdaSignals EXCEPT !.reachable = FALSE], Request),
  Case(LambdaSignals, Function),
  Case(LambdaCustom, Unlinked),
  Case(NoBotocore, Call) }

ASSUME CasesUnshared == \A c \in MCCases : Unshared(c.env)
ASSUME CasesOneHandler == \A c \in MCCases : OneHandler(c.env)
ASSUME CasesUnnamed == \A c \in MCCases : Unnamed(c.scene)

ConsumerCases == { Case(SignalsOnly, Relay) }
SharedCases   == { Case(AgentConsole, Chat), Case(LambdaAgent, Chat) }

MCServiceName == <<"cart">>
MCAccountIds  == {"123456789012"}
MCSqlKeywords == {"SELECT"}
MCIndices     == {0}
=============================================================================
