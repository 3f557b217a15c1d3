----------------------------- MODULE MCRuleCache -----------------------------
(* RuleCache for TLC: the default rule and one rule that is added, edited, *)
(* replaced by one of an unsupported version and deleted; and what spans   *)
(* report of a few calls in the new names of attributes and in the old.    *)
EXTENDS RuleCache

NoKeys == [k \in {} |-> <<>>]
All == [attributes |-> NoKeys, path |-> Star, method |-> Star, host |-> Star, service |-> Star, type |-> Star, arn |-> Star]

(* Wildcards beside a symbol that regular expressions know, and a pattern  *)
(* that is empty.                                                          *)
MCFields ==
  <<[All EXCEPT !.path = <<"/", "v", "?", ".", "*">>, !.method = <<"GET">>, !.host = <<"*", ".", "aws">>],
    [All EXCEPT !.attributes = [tenant |-> <<"b", "*">>, port |-> <<"8", "?">>],
                !.type = <<"AWS::Lambda::Function">>, !.arn = <<"arn", "*">>],
    [All EXCEPT !.attributes = [port |-> <<>>]],
    All>>

Lambda == [k \in {"service.name", "cloud.platform"} |-> IF k = "service.name" THEN <<"svc">> ELSE <<"aws_lambda">>]
Ecs == [k \in {"cloud.platform", "aws.ecs.container.arn"} |->
          IF k = "cloud.platform" THEN <<"aws_ecs">> ELSE <<"arn", "ecs">>]

Paths == {<<"/">>, <<"/", "v", "1", ".", "x">>, <<"/", "v", "1", "x", ".">>, <<"/", "v", ".", "1">>}
Hosts == {<<"a", ".", "aws">>, <<"a", "b", "aws">>}
Calls == [path : Paths, method : {<<"GET">>, <<"PUT">>}, host : Hosts]

Put(keys, values) == [k \in { keys[i] : i \in DOMAIN keys } |-> values[CHOOSE i \in DOMAIN keys : keys[i] = k]]

(* What spans report of a call; of none for work without one.              *)
SpansOf(c) ==
  LET url == <<"https", "://">> \o c.host \o (IF c.path = <<"/">> THEN <<>> ELSE c.path) \o <<"?", "q">>
  IN  { Put(<<"url.path", "http.request.method", "server.address">>, <<c.path, c.method, c.host>>),
        Put(<<"http.target", "http.method", "http.host">>, <<c.path, c.method, c.host>>),
        Put(<<"url.full", "http.request.method", "server.address">>, <<url, c.method, c.host>>),
        Put(<<"http.url", "http.method", "http.host">>, <<url, c.method, c.host>>) }

HttpRequests ==
  { [attributes |-> a, given |-> TRUE, resource |-> Ecs,
     call |-> [path |-> c.path, method |-> c.method, host |-> c.host, service |-> <<>>,
               type |-> <<"AWS::ECS::Container">>, arn |-> <<"arn", "ecs">>]] : <<c, a>> \in
    UNION { {c} \X SpansOf(c) : c \in Calls } }

(* Work in a Lambda function, whose ARN is in the attributes if anywhere.  *)
Plain(attributes, given) ==
  [attributes |-> attributes, given |-> given, resource |-> Lambda,
   call |-> [path |-> <<"/">>, method |-> Absent, host |-> Absent, service |-> <<"svc">>,
             type |-> <<"AWS::Lambda::Function">>, arn |-> Get(attributes, "faas.id", <<>>)]]

PlainRequests ==
  { Plain(Put(<<"tenant", "port", "faas.id">>, <<t, n, <<"arn", "f">>>>), TRUE) :
      t \in {<<"a", "b">>, <<"b">>, <<"b", "a">>}, n \in {Number, <<"8">>, <<"8", "0">>} }
  \cup { Plain(Put(<<"tenant">>, <<<<"b">>>>), TRUE), Plain(NoKeys, TRUE), Plain(NoKeys, FALSE) }

MCRequests == HttpRequests \cup PlainRequests
=============================================================================
