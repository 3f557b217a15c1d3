-------------------------- MODULE MetricAttributes --------------------------
(***************************************************************************)
(* The attributes of the metrics of a span, as _AwsMetricAttributeGenerator *)
(* derives them from the attributes of the span.                           *)
(*                                                                         *)
(* A value is the sequence of its parts, and None is the empty one: the    *)
(* parts of an ARN between colons, <<"arn", "aws", "sns", region, account, *)
(* name>>; of a queue URL <<"sqs", region, account, name>>; of an HTTP URL *)
(* the authority and the segments of the path.  An empty string is not a   *)
(* value.  The attributes of a span are a function over the keys present.  *)
(***************************************************************************)
EXTENDS Attributes, Integers, SequencesExt

CONSTANTS ServiceName,     \* service.name of the resource, or None
          AccountIds,      \* the parts that are_account_id accepts
          SqlKeywords      \* of sql_dialect_keywords.json

None == <<>>

(* At most one: the least of a set of indices, an element of a set.        *)
Foremost(N) == { n \in N : \A m \in N : n <= m }
Either(S)   == IF S = {} THEN <<>> ELSE CHOOSE x \in S : TRUE

Has(s, key)  == key \in DOMAIN s.attrs
Attr(s, key) == IF Has(s, key) THEN s.attrs[key] ELSE None
OrElse(v, default) == IF v = None THEN default ELSE v

UnknownOperation       == <<"UnknownOperation">>
UnknownRemoteService   == <<"UnknownRemoteService">>
UnknownRemoteOperation == <<"UnknownRemoteOperation">>
InternalOperation      == <<"InternalOperation">>

-----------------------------------------------------------------------------
(* What kind of span it is (_aws_span_processing_util).  An attribute is   *)
(* the text that was set; the members of the enumerations it is compared   *)
(* with are other values than their texts.                                 *)

ProcessMember  == <<"MessagingOperationValues.PROCESS">>
ConsumerMember == <<"SpanKind.CONSUMER">>

LocalRoot(s)   == s.parent \in {"none", "remote"}
Boto3Sqs(s)    == s.scope = "boto3sqs"
AwsSdk(s)      == Attr(s, "rpc.system") = <<"aws-api">>
Db(s)          == Has(s, "db.system") \/ Has(s, "db.operation") \/ Has(s, "db.statement")
LambdaInvoke(s) == AwsSdk(s) /\ Attr(s, "rpc.service") = <<"Lambda">> /\ Attr(s, "rpc.method") = <<"Invoke">>

ConsumerProcess(s) == s.kind = "CONSUMER" /\ Attr(s, "messaging.operation") = ProcessMember

DependencyConsumer(s) ==
  /\ s.kind = "CONSUMER"
  /\ ConsumerProcess(s) => LocalRoot(s) \/ Attr(s, "aws.consumer.parent.span.kind") # ConsumerMember

HasService(s) == (LocalRoot(s) /\ ~Boto3Sqs(s)) \/ s.kind = "SERVER"

HasDependency(s) ==
  s.kind = "CLIENT" \/ (~Boto3Sqs(s) /\ (s.kind = "PRODUCER" \/ DependencyConsumer(s)))

-----------------------------------------------------------------------------
(* Operations.                                                             *)

ApiPath(path) == IF path = None THEN <<"/">> ELSE <<"/", path[1]>>

(* http.target is a path; the path of http.url follows its authority.      *)
HttpPath(s) == IF Has(s, "http.target") THEN Attr(s, "http.target") ELSE Tail(Attr(s, "http.url"))

Prefixed(method, operation) == IF method = None THEN operation ELSE <<method[1], " ">> \o operation

HttpOperation(s) ==
  IF Has(s, "http.target") \/ Has(s, "http.url")
    THEN Prefixed(Attr(s, "http.method"), ApiPath(HttpPath(s)))
    ELSE UnknownOperation

ValidOperation(s) == s.name \notin {None, UnknownOperation, Attr(s, "http.method")}
UsesInternal(s)   == LocalRoot(s) /\ s.kind # "SERVER"

IngressOperation(s, inLambda) ==
  IF inLambda /\ s.scope # "flask" THEN <<"function", "/FunctionHandler">>
  ELSE IF UsesInternal(s) THEN InternalOperation
  ELSE IF ValidOperation(s) THEN s.name ELSE HttpOperation(s)

EgressOperation(s) ==
  IF UsesInternal(s) THEN InternalOperation ELSE OrElse(Attr(s, "aws.local.operation"), UnknownOperation)

-----------------------------------------------------------------------------
(* The remote service and operation, by the first family of attributes     *)
(* that is present.                                                        *)

Families == <<
  [service |-> "aws.remote.service", operation |-> "aws.remote.operation"],
  [service |-> "rpc.service",        operation |-> "rpc.method"],
  [service |-> "db.system",          operation |-> "db.operation"],
  [service |-> "faas.invoked_name",  operation |-> "faas.trigger"],
  [service |-> "messaging.system",   operation |-> "messaging.operation"],
  [service |-> "graphql",            operation |-> "graphql.operation.type"] >>

NoFamily == [service |-> "none", operation |-> "none"]

Present(s, f) == Has(s, f.service) \/ Has(s, f.operation) \/ (f.service = "db.system" /\ Has(s, "db.statement"))

Family(s) ==
  LET found == Foremost({ n \in DOMAIN Families : Present(s, Families[n]) })
  IN  IF found = {} THEN NoFamily ELSE Families[Either(found)]

BedrockServices   == {"Bedrock Agent", "Bedrock Agent Runtime"}
AgentCoreServices == {"Bedrock AgentCore Control", "Bedrock AgentCore"}

Normalized(s, service) ==
  IF ~AwsSdk(s) THEN service
  ELSE IF LambdaInvoke(s) THEN OrElse(Attr(s, "aws.lambda.function.name"), UnknownRemoteService)
  ELSE <<"AWS::", CASE service[1] \in BedrockServices   -> "Bedrock"
                    [] service[1] \in AgentCoreServices -> "BedrockAgentCore"
                    [] service[1] = "Secrets Manager"   -> "SecretsManager"
                    [] service[1] = "SFN"               -> "StepFunctions"
                    [] OTHER                            -> service[1]>>

StatementKeyword(s) ==
  LET statement == Attr(s, "db.statement")
  IN  IF statement # None /\ statement[1] \in SqlKeywords THEN <<statement[1]>> ELSE UnknownRemoteOperation

WithPort(address, port) == IF port = None THEN address ELSE address \o <<":">> \o port

GeneratedService(s) ==
  IF Has(s, "net.peer.name") THEN WithPort(Attr(s, "net.peer.name"), Attr(s, "net.peer.port"))
  ELSE IF Has(s, "net.sock.peer.addr") THEN WithPort(Attr(s, "net.sock.peer.addr"), Attr(s, "net.sock.peer.port"))
  ELSE IF Has(s, "http.url") THEN <<Attr(s, "http.url")[1]>>
  ELSE UnknownRemoteService

GeneratedOperation(s) ==
  Prefixed(Attr(s, "http.method"),
           IF Has(s, "http.url") THEN ApiPath(Tail(Attr(s, "http.url"))) ELSE UnknownRemoteOperation)

FamilyService(s, f) ==
  LET named == OrElse(Attr(s, f.service), UnknownRemoteService)
  IN  CASE f.service = "graphql"     -> <<"graphql">>
        [] f.service = "rpc.service" -> Normalized(s, named)
        [] OTHER                     -> named

FamilyOperation(s, f) ==
  IF f.service = "db.system" /\ ~Has(s, f.operation) THEN StatementKeyword(s)
  ELSE OrElse(Attr(s, f.operation), UnknownRemoteOperation)

RemoteService(s) ==
  LET peer  == IF Has(s, "aws.remote.service") THEN None ELSE Attr(s, "peer.service")
      known == OrElse(peer, FamilyService(s, Family(s)))
  IN  IF known = UnknownRemoteService THEN GeneratedService(s) ELSE known

RemoteOperation(s) ==
  LET known == FamilyOperation(s, Family(s))
  IN  IF known = UnknownRemoteOperation THEN GeneratedOperation(s) ELSE known

-----------------------------------------------------------------------------
(* The remote resource: its type, its identifier and its CloudFormation    *)
(* identifier.                                                             *)

Escaped(v) == FlattenSeq([i \in DOMAIN v |-> IF v[i] \in {"|", "^"} THEN <<"^", v[i]>> ELSE <<v[i]>>])

IsArn(v)     == Len(v) >= 6 /\ v[1] = "arn" /\ v[5] \in AccountIds
ArnName(v)   == IF IsArn(v) THEN <<Last(v)>> ELSE None
QueueName(v) == IF Len(v) \in {3, 4} /\ v[Len(v) - 1] \in AccountIds THEN <<Last(v)>> ELSE None

(* Keys in the order of precedence; `id` and `cfn` are keys whose value    *)
(* identifies the resource, read as `by` says.                             *)
Row(key, type, by, cfn) == [key |-> key, type |-> type, by |-> by, cfn |-> cfn]

Resources == <<
  Row("aws.dynamodb.table_names",  "DynamoDB::Table",       "value", ""),
  Row("aws.dynamodb.table.arn",    "DynamoDB::Table",       "arn",   ""),
  Row("aws.kinesis.stream.name",   "Kinesis::Stream",       "value", ""),
  Row("aws.kinesis.stream.arn",    "Kinesis::Stream",       "arn",   ""),
  Row("aws.s3.bucket",             "S3::Bucket",            "value", ""),
  Row("aws.sqs.queue.name",        "SQS::Queue",            "value", "aws.sqs.queue.url"),
  Row("aws.sqs.queue.url",         "SQS::Queue",            "url",   "aws.sqs.queue.url"),
  Row("aws.bedrock.agent.id",      "Bedrock::Agent",        "value", ""),
  Row("aws.bedrock.data_source.id", "Bedrock::DataSource",  "value", "aws.bedrock.knowledge_base.id"),
  Row("aws.bedrock.guardrail.id",  "Bedrock::Guardrail",    "value", "aws.bedrock.guardrail.arn"),
  Row("aws.bedrock.knowledge_base.id", "Bedrock::KnowledgeBase", "value", ""),
  Row("gen_ai.request.model",      "Bedrock::Model",        "value", ""),
  Row("rpc.service",               "BedrockAgentCore",      "agentcore", ""),
  Row("aws.secretsmanager.secret.arn", "SecretsManager::Secret", "arn", "aws.secretsmanager.secret.arn"),
  Row("aws.sns.topic.arn",         "SNS::Topic",            "arn",   "aws.sns.topic.arn"),
  Row("aws.stepfunctions.state_machine.arn", "StepFunctions::StateMachine", "arn", "aws.stepfunctions.state_machine.arn"),
  Row("aws.stepfunctions.activity.arn", "StepFunctions::Activity", "arn", "aws.stepfunctions.activity.arn"),
  Row("aws.lambda.function.name",  "Lambda::Function",      "value", "aws.lambda.function.arn"),
  Row("aws.lambda.resource_mapping.id", "Lambda::EventSourceMapping", "value", "") >>

Names(s, row) ==
  /\ Has(s, row.key)
  /\ row.key = "aws.dynamodb.table_names" => Len(Attr(s, row.key)) = 1
  /\ row.key = "rpc.service" => Attr(s, row.key)[1] \in AgentCoreServices

Resource(type, id, cfn) == [type |-> type, id |-> id, cfn |-> cfn]
NoResource == Resource("", None, None)

(* Bedrock AgentCore: the handlers in their order.                         *)
IdOrArn(s, idKey, arnKey) == IF Has(s, idKey) THEN Attr(s, idKey) ELSE ArnName(Attr(s, arnKey))

Managed(type, id) == IF id \in {<<"aws.browser.v1">>, <<"aws.codeinterpreter.v1">>} THEN type ELSE type \o "Custom"

CredentialType(method) ==
  CASE method = <<"GetResourceApiKey">>      -> "APIKeyCredentialProvider"
    [] method = <<"GetResourceOauth2Token">> -> "OAuth2CredentialProvider"
    [] OTHER -> ""

AgentCore(s) ==
  LET either(a, b) == Has(s, a) \/ Has(s, b)
      browser == IdOrArn(s, "gen_ai.browser.id", "aws.bedrock.agentcore.browser.arn")
      gateway == IdOrArn(s, "gen_ai.gateway.id", "aws.bedrock.agentcore.gateway.arn")
      target  == Attr(s, "aws.gateway.target.id")
      point   == Attr(s, "aws.bedrock.agentcore.runtime_endpoint.arn")
      runtime == IdOrArn(s, "gen_ai.runtime.id", "aws.bedrock.agentcore.runtime.arn")
      code    == IdOrArn(s, "gen_ai.code_interpreter.id", "aws.bedrock.agentcore.code_interpreter.arn")
      holder  == Attr(s, "aws.auth.credential_provider")
      method  == CredentialType(Attr(s, "rpc.method"))
      memory  == IdOrArn(s, "gen_ai.memory.id", "aws.bedrock.agentcore.memory.arn")
      same(type, id) == Resource("BedrockAgentCore::" \o type, id, id)
  IN  IF either("gen_ai.browser.id", "aws.bedrock.agentcore.browser.arn")
        THEN same(Managed("Browser", browser), browser)
      ELSE IF target # None
        THEN IF either("gen_ai.gateway.id", "aws.bedrock.agentcore.gateway.arn")
               THEN same("GatewayTarget", gateway) ELSE same("GatewayTarget", target)
      ELSE IF either("gen_ai.gateway.id", "aws.bedrock.agentcore.gateway.arn")
        THEN same("Gateway", gateway)
      ELSE IF point # None
        THEN Resource("BedrockAgentCore::RuntimeEndpoint", ArnName(point), point)
      ELSE IF either("gen_ai.runtime.id", "aws.bedrock.agentcore.runtime.arn")
        THEN same("Runtime", runtime)
      ELSE IF either("gen_ai.code_interpreter.id", "aws.bedrock.agentcore.code_interpreter.arn")
        THEN same(Managed("CodeInterpreter", code), code)
      ELSE IF holder # None /\ method # ""
        THEN same(method, OrElse(ArnName(holder), holder))
      ELSE IF either("gen_ai.memory.id", "aws.bedrock.agentcore.memory.arn")
        THEN Resource("BedrockAgentCore::Memory", memory, Attr(s, "aws.bedrock.agentcore.memory.arn"))
      ELSE NoResource

NamingRow(s) == { Resources[n] : n \in Foremost({ m \in DOMAIN Resources : Names(s, Resources[m]) }) }

SdkResource(s, row) ==
  LET v   == Attr(s, row.key)
      id  == CASE row.by = "value" -> v [] row.by = "arn" -> ArnName(v) [] row.by = "url" -> QueueName(v)
      cfn == Attr(s, row.cfn)
  IN  IF row.by = "agentcore" THEN AgentCore(s)
      ELSE IF row.type = "Bedrock::DataSource" THEN Resource(row.type, id, Escaped(cfn) \o <<"|">> \o Escaped(id))
      ELSE Resource(row.type, id, cfn)

SdkResources(s) ==
  { SdkResource(s, row) : row \in { r \in NamingRow(s) : ~(r.key = "aws.lambda.function.name" /\ LambdaInvoke(s)) } }

(* A data source without its knowledge base: None is joined to a text.     *)
Raises(s) ==
  /\ HasDependency(s) /\ AwsSdk(s) /\ ~Has(s, "aws.bedrock.knowledge_base.id")
  /\ \E row \in NamingRow(s) : row.type = "Bedrock::DataSource"

(* A database by its address, or by its connection string, of which None   *)
(* is left if it has no host.                                              *)
Addresses == <<
  [address |-> "server.address",        port |-> "server.port"],
  [address |-> "net.peer.name",         port |-> "net.peer.port"],
  [address |-> "server.socket.address", port |-> "server.socket.port"] >>

WithBar(v, port) == IF port = None THEN v ELSE v \o <<"|">> \o port

DbConnection(s) ==
  LET found == Foremost({ n \in DOMAIN Addresses : Has(s, Addresses[n].address) })
      known == Addresses[Either(found)]
      text  == Attr(s, "db.connection_string")
      at    == IF found # {} THEN WithBar(Escaped(Attr(s, known.address)), Attr(s, known.port))
               ELSE IF text \in {None, <<"no host">>} THEN None
               ELSE WithBar(Escaped(<<text[1]>>), Tail(text))
  IN  IF at = None \/ ~Has(s, "db.name") THEN at ELSE Escaped(Attr(s, "db.name")) \o <<"|">> \o at

Delimited(r) ==
  Resource(r.type, Escaped(r.id),
           IF r.type = "Bedrock::DataSource" THEN r.cfn ELSE OrElse(Escaped(r.cfn), Escaped(r.id)))

Identified(r) == r.type # "" /\ r.id # None /\ r.cfn # None

RemoteResource(s) ==
  { r \in IF AwsSdk(s) THEN { Delimited(r) : r \in SdkResources(s) }
          ELSE IF Db(s) THEN { Resource("DB::Connection", at, at) : at \in {DbConnection(s)} }
          ELSE {} : Identified(r) }

-----------------------------------------------------------------------------
(* Account and region.                                                     *)

ArnKeys == <<
  "aws.dynamodb.table.arn", "aws.kinesis.stream.arn", "aws.sns.topic.arn", "aws.secretsmanager.secret.arn",
  "aws.stepfunctions.state_machine.arn", "aws.stepfunctions.activity.arn", "aws.bedrock.guardrail.arn",
  "aws.lambda.function.arn" >>

Account(id, region) == Entry("aws.remote.resource.account.id", <<id>>) ++ Entry("aws.remote.resource.region", <<region>>)

AccountOf(s) ==
  IF Has(s, "aws.sqs.queue.url")
    THEN { Account(url[3], url[2]) : url \in { u \in {Attr(s, "aws.sqs.queue.url")} :
                                               Len(u) = 4 /\ u[1] = "sqs" /\ QueueName(u) # None } }
    ELSE { Account(arn[5], arn[4]) :
             arn \in { a \in { Attr(s, ArnKeys[n]) : n \in Foremost({ m \in DOMAIN ArnKeys : Has(s, ArnKeys[m]) }) } : IsArn(a) } }

(* The access key stands in for an account that is not known.              *)
Copied(s, to, from) == IF Has(s, from) THEN Entry(to, Attr(s, from)) ELSE <<>>

Owner(s) ==
  IF AccountOf(s) # {} THEN Either(AccountOf(s))
  ELSE Copied(s, "aws.remote.resource.account.access_key", "aws.auth.account.access_key")
       ++ Copied(s, "aws.remote.resource.region", "aws.auth.region")

-----------------------------------------------------------------------------
(* The attributes of both metrics.                                         *)

Service == Entry("aws.local.service", OrElse(ServiceName, <<"UnknownService">>))

ServiceAttributes(s, inLambda) ==
  Service ++ Entry("aws.local.operation", IngressOperation(s, inLambda))
          ++ Entry("aws.span.kind", IF LocalRoot(s) THEN <<"LOCAL_ROOT">> ELSE <<s.kind>>)

ResourceAttributes(s) ==
  Either({ Entry("aws.remote.resource.type", <<r.type>>) ++ Entry("aws.remote.resource.identifier", r.id)
           ++ Entry("aws.remote.resource.cfn.primary.identifier", r.cfn) ++ Owner(s) : r \in RemoteResource(s) })

DependencyAttributes(s) ==
  Service
    ++ Entry("aws.local.operation", EgressOperation(s))
    ++ Entry("aws.remote.service", RemoteService(s))
    ++ Entry("aws.remote.operation", RemoteOperation(s))
    ++ ResourceAttributes(s)
    ++ (IF LambdaInvoke(s) THEN Entry("aws.remote.environment", <<"lambda:default">>) ELSE <<>>)
    ++ (IF Db(s) THEN Copied(s, "aws.remote.db.user", "db.user") ELSE <<>>)
    ++ Entry("aws.span.kind", <<s.kind>>)

(* Mutant: a local root has the attributes of its service metric.         *)
RootAttributes(s, inLambda) ==
  IF HasService(s) THEN ServiceAttributes(s, inLambda)
  ELSE IF HasDependency(s) THEN DependencyAttributes(s) ELSE <<>>

(* What the exporter puts on the span: both kinds of metrics make it a     *)
(* local root with the attributes of the dependency.                       *)
SpanAttributes(s, inLambda) ==
  IF HasService(s) /\ HasDependency(s) THEN Entry("aws.span.kind", <<"LOCAL_ROOT">>) ++ DependencyAttributes(s)
  ELSE IF HasService(s) THEN ServiceAttributes(s, inLambda)
  ELSE IF HasDependency(s) THEN DependencyAttributes(s)
  ELSE <<>>
=============================================================================
