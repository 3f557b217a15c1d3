------------------------------ MODULE Matcher -------------------------------
(***************************************************************************)
(* sampler/_matcher.py and _SamplingRuleApplier.matches: whether a rule of *)
(* X-Ray is for a request.                                                 *)
(*                                                                         *)
(* A text is a sequence of symbols of one line; "://" is one symbol.       *)
(* A request is the attributes that its span starts with, whether they     *)
(* were given at all, and the resource of its process.                     *)
(***************************************************************************)
EXTENDS Integers, SequencesExt

Absent == <<"no text">>     \* None
Number == <<"a number">>    \* a value that is no string
Star    == <<"*">>

Wild(pattern) == \E i \in DOMAIN pattern : pattern[i] \in {"*", "?"}

(* The parts of a regular expression: . and .* and an escaped symbol.      *)
Dot     == <<".">>
DotStar == <<".*">>
Escaped(symbol) == <<"escaped", symbol>>

(* Mutant: what is not a wildcard is not escaped, and a dot is one.        *)
ToRegexPatternUnescaped(pattern) ==
  [i \in DOMAIN pattern |-> IF pattern[i] \in {"?", "."} THEN Dot ELSE IF pattern[i] = "*" THEN DotStar ELSE Escaped(pattern[i])]

(* to_regex_pattern: .* and . for the wildcards, the rest is escaped.      *)
ToRegexPattern(pattern) ==
  [i \in DOMAIN pattern |-> IF pattern[i] = "?" THEN Dot ELSE IF pattern[i] = "*" THEN DotStar ELSE Escaped(pattern[i])]

(* re.fullmatch: how much of the text the first parts of the pattern, and  *)
(* then the next one, can end at.                                          *)
EndsAfter(ends, part, text) ==
  IF part = DotStar THEN { j \in 0..Len(text) : \E i \in ends : i <= j }
  ELSE { j \in 1..Len(text) : j - 1 \in ends /\ part \in {Dot, Escaped(text[j])} }

FullMatch(regex, text) ==
  LET ends[n \in 0..Len(regex)] == IF n = 0 THEN {0} ELSE EndsAfter(ends[n - 1], regex[n], text)
  IN  Len(text) \in ends[Len(regex)]

WildCardMatch(text, pattern) ==
  \/ pattern = Star
  \/ /\ text # Absent
     /\ IF Wild(pattern) THEN FullMatch(ToRegexPattern(pattern), text) ELSE pattern = text

AttributeMatch(attributes, ruleAttributes) ==
  \/ DOMAIN ruleAttributes = {}
  \/ /\ Cardinality(DOMAIN ruleAttributes) <= Cardinality(DOMAIN attributes)
     /\ LET matched == { k \in DOMAIN attributes \cap DOMAIN ruleAttributes :
                           WildCardMatch(attributes[k], ruleAttributes[k]) }
        IN  Cardinality(matched) = Cardinality(DOMAIN ruleAttributes)

-----------------------------------------------------------------------------
(* matches                                                                 *)

Get(attributes, key, default) == IF key \in DOMAIN attributes THEN attributes[key] ELSE default

(* An attribute, or the deprecated one for the same.                       *)
Either(attributes, key, deprecated) == Get(attributes, key, Get(attributes, deprecated, Absent))

(* urlparse(url).path: from the first "/" after the scheme and the host to *)
(* the query or the fragment.                                              *)
PathOf(url) ==
  LET First(from, symbols) ==
        LET at == { i \in from..Len(url) : url[i] \in symbols } IN IF at = {} THEN Len(url) + 1 ELSE Min(at)
      host == First(1, {"://"}) + 1
      end  == First(host, {"?", "#"})
      path == SubSeq(url, First(host, {"/", "?", "#"}), end - 1)
  IN  IF path = <<>> THEN <<"/">> ELSE path

(* A URL without a scheme is ignored: the path is not known.               *)
UrlPath(attributes) ==
  LET path == Either(attributes, "url.path", "http.target")
      url  == Either(attributes, "url.full", "http.url")
  IN  IF path # Absent THEN path
      ELSE IF url = Absent THEN <<"/">>
      ELSE IF Contains(url, "://") THEN PathOf(url) ELSE Absent

ServiceType(resource) ==
  CASE Get(resource, "cloud.platform", Absent) = <<"aws_lambda">>            -> <<"AWS::Lambda::Function">>
    [] Get(resource, "cloud.platform", Absent) = <<"aws_elastic_beanstalk">> -> <<"AWS::ElasticBeanstalk::Environment">>
    [] Get(resource, "cloud.platform", Absent) = <<"aws_ec2">>               -> <<"AWS::EC2::Instance">>
    [] Get(resource, "cloud.platform", Absent) = <<"aws_ecs">>               -> <<"AWS::ECS::Container">>
    [] Get(resource, "cloud.platform", Absent) = <<"aws_eks">>               -> <<"AWS::EKS::Container">>
    [] OTHER -> <<>>

(* __get_arn; that of a Lambda function may be an attribute of the span.   *)
LambdaArn(q) ==
  LET known == Either(q.resource, "cloud.resource_id", "faas.id")
      span  == Either(q.attributes, "cloud.resource_id", "faas.id")
  IN  IF known # Absent THEN known ELSE IF span # Absent THEN span ELSE <<>>

InLambda(q) ==
  /\ "aws.ecs.container.arn" \notin DOMAIN q.resource
  /\ Get(q.resource, "cloud.platform", Absent) = <<"aws_lambda">>

Arn(q) == IF InLambda(q) THEN LambdaArn(q) ELSE Get(q.resource, "aws.ecs.container.arn", <<>>)

AllButArn(rule, q) ==
  /\ AttributeMatch(q.attributes, rule.attributes)
  /\ WildCardMatch(UrlPath(q.attributes), rule.path)
  /\ WildCardMatch(Either(q.attributes, "http.request.method", "http.method"), rule.method)
  /\ WildCardMatch(Either(q.attributes, "server.address", "http.host"), rule.host)
  /\ WildCardMatch(Get(q.resource, "service.name", <<>>), rule.service)
  /\ WildCardMatch(ServiceType(q.resource), rule.type)

(* It raises: re.fullmatch of a value that is no string, the length of one *)
(* when the pattern is empty, and the look for the ARN among attributes    *)
(* that were not given.                                                    *)
Fails(text, pattern) == text = Number /\ pattern # Star /\ (Wild(pattern) \/ pattern = <<>>)

Raises(rule, q) ==
  \/ /\ Cardinality(DOMAIN rule.attributes) <= Cardinality(DOMAIN q.attributes)
     /\ \E k \in DOMAIN q.attributes \cap DOMAIN rule.attributes :
          Fails(q.attributes[k], rule.attributes[k])
  \/ /\ AllButArn(rule, q)
     /\ InLambda(q) /\ ~q.given /\ Either(q.resource, "cloud.resource_id", "faas.id") = Absent

Matches(rule, q) == ~Raises(rule, q) /\ AllButArn(rule, q) /\ WildCardMatch(Arn(q), rule.arn)

-----------------------------------------------------------------------------
(* Reference: a text fits a pattern if it can be cut into one piece for    *)
(* each symbol of the pattern.  No text fits * alone.                      *)
Fits(text, pattern) ==
  IF text = Absent THEN pattern = Star
  ELSE \E cuts \in [0..Len(pattern) -> 0..Len(text)] :
         /\ cuts[0] = 0 /\ cuts[Len(pattern)] = Len(text)
         /\ \A i \in DOMAIN pattern :
              CASE pattern[i] = "*" -> cuts[i - 1] <= cuts[i]
                [] pattern[i] = "?" -> cuts[i] = cuts[i - 1] + 1
                [] OTHER -> cuts[i] = cuts[i - 1] + 1 /\ text[cuts[i]] = pattern[i]

(* A text of this model, and the patterns of a rule.                       *)
IsText(text) == text \in Seq(STRING)

CallFields == {"path", "method", "host", "service", "type", "arn"}

IsRule(rule) ==
  /\ \A field \in CallFields : IsText(rule[field])
  /\ IsFiniteSet(DOMAIN rule.attributes) /\ \A k \in DOMAIN rule.attributes : IsText(rule.attributes[k])

(* The URL is a scheme, "://", a host, the path, and a query or a fragment *)
(* if there is one.  The path of a URL that ends with the host is "/".     *)
IsUrlOf(url, path) ==
  \E scheme \in 0..Len(url), host \in 0..Len(url), end \in 0..Len(url) :
    /\ scheme < host /\ host <= end
    /\ url[scheme + 1] = "://" /\ \A i \in 1..scheme : url[i] # "://"
    /\ \A i \in (scheme + 2)..host : url[i] \notin {"/", "?", "#"}
    /\ \A i \in (host + 1)..end : url[i] \notin {"?", "#"}
    /\ host < end => url[host + 1] = "/"
    /\ end < Len(url) => url[end + 1] \in {"?", "#"}
    /\ path = IF host = end THEN <<"/">> ELSE SubSeq(url, host + 1, end)

Says(attributes, keys, value) == \A k \in keys \cap DOMAIN attributes : attributes[k] = value
Silent(attributes, keys)      == keys \cap DOMAIN attributes = {}

ReportsPath(attributes, path) ==
  LET paths == {"url.path", "http.target"}
      urls  == {"url.full", "http.url"}
  IN  /\ Says(attributes, paths, path)
      /\ Silent(attributes, paths) =>
           /\ \A k \in urls \cap DOMAIN attributes : IsUrlOf(attributes[k], path)
           /\ Silent(attributes, urls) => path = <<"/">>

Reports(attributes, keys, value) ==
  Says(attributes, keys, value) /\ (Silent(attributes, keys) => value = Absent)

ReportsArn(q) ==
  LET ids == {"cloud.resource_id", "faas.id"}
  IN  IF InLambda(q)
      THEN /\ Says(q.resource, ids, q.call.arn)
           /\ Silent(q.resource, ids) =>
                /\ Says(q.attributes, ids, q.call.arn)
                /\ Silent(q.attributes, ids) => q.call.arn = <<>>
      ELSE q.call.arn = Get(q.resource, "aws.ecs.container.arn", <<>>)

(* The attributes and the resource say what is called, by any of the names *)
(* that the semantic conventions have or had for it; where there are two,  *)
(* they say the same.                                                      *)
Truthful(q) ==
  /\ IsFiniteSet(DOMAIN q.attributes)
  /\ \A k \in DOMAIN q.attributes : IsText(q.attributes[k]) /\ q.attributes[k] # Absent
  /\ \A k \in DOMAIN q.resource : IsText(q.resource[k]) /\ q.resource[k] # Absent
  /\ DOMAIN q.call = CallFields
  /\ \A field \in CallFields : IsText(q.call[field])
  /\ ReportsPath(q.attributes, q.call.path)
  /\ Reports(q.attributes, {"http.request.method", "http.method"}, q.call.method)
  /\ Reports(q.attributes, {"server.address", "http.host"}, q.call.host)
  /\ q.call.service = Get(q.resource, "service.name", <<>>)
  /\ q.call.type = ServiceType(q.resource)
  /\ ReportsArn(q)

(* The rule is meant for the request, by what was called: `call` says so   *)
(* whatever the names of the attributes are.                               *)
MeantFor(rule, q) ==
  /\ \A k \in DOMAIN rule.attributes : k \in DOMAIN q.attributes /\ Fits(q.attributes[k], rule.attributes[k])
  /\ \A field \in DOMAIN q.call : Fits(q.call[field], rule[field])
=============================================================================
