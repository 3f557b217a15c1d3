----------------------------- MODULE RuleCache -----------------------------
(***************************************************************************)
(* sampler/_rule_cache.py, with the two pollers of the remote sampler      *)
(* (aws_xray_remote_sampler.py) that keep it up to date: one fetches the   *)
(* sampling rules, the other reports statistics, fetches the sampling      *)
(* targets, and fetches the rules too when the service says that they were *)
(* modified after the cache last changed.                                  *)
(*                                                                         *)
(* Each poller is a timer that starts the next one when it is done, and    *)
(* may fire at any time here.  The lock of the cache makes one step of     *)
(* each update; between the answer of the service and the update anything  *)
(* may happen.                                                             *)
(*                                                                         *)
(* A rule is its name and its body, a number that is also its priority and *)
(* stands for its `Fields`, which say what requests it is for (Matcher).   *)
(* The list of appliers is sorted by priority and name, and kept as a set: *)
(* the order says which applier a request finds first.                     *)
(***************************************************************************)
EXTENDS Matcher

CONSTANTS Names,        \* of the rules, in the order of the strings
          Default,      \* the default rule, which is for all requests
          Bodies,       \* of the rules
          Fields,       \* the patterns of each body
          DefaultBody,  \* that of the default rule
          Unsupported,  \* bodies of a Version other than 1
          Requests,     \* that are to be sampled
          TTL,          \* CACHE_TTL_SECONDS
          Horizon,      \* bound on the clock
          MaxVersion    \* bound on the changes of the rules in the service

None == 0

ASSUME RulesAssumption == /\ Names \subseteq Nat /\ Default \in Names
                          /\ Bodies \subseteq Nat \ {None}
                          /\ DefaultBody \in Bodies \ Unsupported
                          /\ \A field \in DOMAIN Fields[DefaultBody] \ {"attributes"} :
                               Fields[DefaultBody][field] = Star
                          /\ DOMAIN Fields[DefaultBody].attributes = {}
ASSUME RequestsAssumption == /\ \A b \in Bodies : IsRule(Fields[b])
                             /\ \A q \in Requests : Truthful(q)
ASSUME TimeAssumption == TTL \in Nat /\ Horizon \in Nat \ {0} /\ MaxVersion \in Nat \ {0}

VARIABLES
  now,           \* the clock
  \* the X-Ray service
  up,            \* it answers
  server,        \* the body of each rule, None for a name without a rule
  version,       \* how often the rules were changed
  modified,      \* LastRuleModification
  \* the cache
  appliers,      \* __rule_appliers
  lastModified,  \* _last_modified
  \* the pollers
  pc,            \* where each of them is
  got,           \* the rules it received
  names,         \* the rules it reports statistics of
  targets,       \* the targets response it received
  \* history
  asOf,          \* the version the cache was last made of, None if by a failure
  stale          \* the cache was behind the service when it was made, or the
                 \* service changed at the very time it was made

service == <<up, server, version, modified>>
cache   == <<appliers, lastModified>>
pollers == <<pc, got, names, targets>>
history == <<asOf, stale>>
vars    == <<now, service, cache, pollers, history>>

Pollers == {"rules", "targets"}
Rule    == [name : Names, body : Bodies]
Applier == [name : Names, body : Bodies, target : 0..MaxVersion]

(* The rules of the service.                                               *)
ServerRules == {[name |-> n, body |-> server[n]] : n \in {m \in Names : server[m] # None}}

NoRules   == [rules |-> {}, version |-> None]
NoTargets == [for |-> {}, version |-> None, modified |-> 0]

Init ==
  /\ now = 1
  /\ up \in BOOLEAN
  /\ server = [n \in Names |-> IF n = Default THEN DefaultBody ELSE None]
  /\ version = 1 /\ modified = 0
  /\ appliers = {} /\ lastModified = now
  /\ pc = [p \in Pollers |-> "idle"]
  /\ got = [p \in Pollers |-> NoRules]
  /\ names = {} /\ targets = NoTargets
  /\ asOf = None /\ stale = TRUE

-----------------------------------------------------------------------------
(* The service: somebody edits a rule in the console, and it is reachable  *)
(* or not.                                                                 *)

Modify ==
  /\ version < MaxVersion
  /\ version' = version + 1
  /\ modified' = now
  /\ \E n \in Names \ {Default}, b \in Bodies \cup {None} :
       server[n] # b /\ server' = [server EXCEPT ![n] = b]
  /\ stale' = (stale \/ now = lastModified)
  /\ UNCHANGED <<now, up, cache, pollers, asOf>>

UpOrDown ==
  /\ up' = ~up
  /\ UNCHANGED <<now, server, version, modified, cache, pollers, history>>

Tick ==
  /\ now < Horizon
  /\ now' = now + 1
  /\ UNCHANGED <<service, cache, pollers, history>>

-----------------------------------------------------------------------------
(* Rules                                                                   *)

(* _AwsXRaySamplingClient.get_sampling_rules: an error anywhere is caught  *)
(* and leaves the rules that were read until then, often none.             *)
GetSamplingRules(p) ==
  /\ \/ p = "rules"   /\ pc[p] = "idle"
     \/ p = "targets" /\ pc[p] = "refresh"
  /\ \/ up /\ got' = [got EXCEPT ![p] = [rules |-> ServerRules, version |-> version]]
     \/ /\ ~up
        /\ \E part \in SUBSET ServerRules :
             got' = [got EXCEPT ![p] = [rules |-> part, version |-> None]]
  /\ pc' = [pc EXCEPT ![p] = "update"]
  /\ UNCHANGED <<now, service, cache, names, targets, history>>

(* Mutants: every Version is taken; every applier is new; and an applier   *)
(* stays when the name of its rule does.                                   *)
AppliersForAll(rules) ==
  {[name |-> r.name, body |-> r.body, target |-> None] : r \in rules}

AppliersForNew(rules) ==
  {[name |-> r.name, body |-> r.body, target |-> None] : r \in {s \in rules : s.body \notin Unsupported}}

AppliersForNames(rules) ==
  LET Same(r) == {x \in appliers : x.name = r.name} IN
  UNION {IF Same(r) # {} THEN Same(r) ELSE {[name |-> r.name, body |-> r.body, target |-> None]} :
           r \in {s \in rules : s.body \notin Unsupported}}

(* update_sampling_rules: the applier of a rule that did not change stays. *)
AppliersFor(rules) ==
  LET Same(r) == {x \in appliers : x.name = r.name /\ x.body = r.body} IN
  UNION {IF Same(r) # {} THEN Same(r) ELSE {[name |-> r.name, body |-> r.body, target |-> None]} :
           r \in {s \in rules : s.body \notin Unsupported}}

(* Mutant: the time is kept when the rules are.                            *)
UpdateSamplingRulesIfChanged(p) ==
  /\ pc[p] = "update"
  /\ appliers' = AppliersFor(got[p].rules)
  /\ lastModified' = IF appliers' = appliers THEN lastModified ELSE now
  /\ asOf' = got[p].version
  /\ stale' = (got[p].version # version)
  /\ pc' = [pc EXCEPT ![p] = "idle"]
  /\ got' = [got EXCEPT ![p] = NoRules]
  /\ UNCHANGED <<now, service, names, targets>>

UpdateSamplingRules(p) ==
  /\ pc[p] = "update"
  /\ appliers' = AppliersFor(got[p].rules)
  /\ lastModified' = now
  /\ asOf' = got[p].version
  /\ stale' = (got[p].version # version)
  /\ pc' = [pc EXCEPT ![p] = "idle"]
  /\ got' = [got EXCEPT ![p] = NoRules]
  /\ UNCHANGED <<now, service, names, targets>>

-----------------------------------------------------------------------------
(* Targets                                                                 *)

(* get_all_statistics                                                      *)
GetAllStatistics ==
  /\ pc["targets"] = "idle"
  /\ names' = {x.name : x \in appliers}
  /\ pc' = [pc EXCEPT !["targets"] = "report"]
  /\ UNCHANGED <<now, service, cache, got, targets, history>>

(* _AwsXRaySamplingClient.get_sampling_targets: a target for each rule the *)
(* service knows, and nothing after an error.                              *)
GetSamplingTargets ==
  /\ pc["targets"] = "report"
  /\ targets' = IF up THEN [for |-> {n \in names : server[n] # None},
                            version |-> version, modified |-> modified]
                      ELSE NoTargets
  /\ names' = {}
  /\ pc' = [pc EXCEPT !["targets"] = "apply"]
  /\ UNCHANGED <<now, service, cache, got, history>>

(* update_sampling_targets and what the poller does with its answer.       *)
WithTargets ==
  {IF x.name \in targets.for THEN [x EXCEPT !.target = targets.version] ELSE x : x \in appliers}

RefreshRules == targets.modified > lastModified

(* Mutant: the targets renew the time of the rules.                        *)
UpdateSamplingTargetsAndTime ==
  /\ pc["targets"] = "apply"
  /\ appliers' = WithTargets
  /\ lastModified' = now
  /\ pc' = [pc EXCEPT !["targets"] = IF RefreshRules THEN "refresh" ELSE "idle"]
  /\ targets' = NoTargets
  /\ UNCHANGED <<now, service, got, names, history>>

UpdateSamplingTargets ==
  /\ pc["targets"] = "apply"
  /\ appliers' = WithTargets
  /\ pc' = [pc EXCEPT !["targets"] = IF RefreshRules THEN "refresh" ELSE "idle"]
  /\ targets' = NoTargets
  /\ UNCHANGED <<now, service, lastModified, got, names, history>>

-----------------------------------------------------------------------------
(* Sampling: should_sample of the sampler and of the cache.                *)

Expired == now > lastModified + TTL

(* The bodies whose rule a request is matched by, or raises at: where the  *)
(* loop of should_sample ends.  Requests that no rule tells apart are one. *)
Profile(q) ==
  [ends  |-> { b \in Bodies : Raises(Fields[b], q) \/ Matches(Fields[b], q) },
   fails |-> { b \in Bodies : Raises(Fields[b], q) },
   meant |-> { b \in Bodies : MeantFor(Fields[b], q) }]

Profiles == { Profile(q) : q \in Requests }

Lowest(rules) ==
  {r \in rules : \A s \in rules : r.body < s.body \/ (r.body = s.body /\ r.name <= s.name)}

First(q, rules) == Lowest({r \in rules : r.body \in q.ends})

(* The rule that decides, none when the fallback sampler does.             *)
Decider(q) == IF Expired THEN {} ELSE {[name |-> r.name, body |-> r.body] : r \in First(q, appliers)}

-----------------------------------------------------------------------------

RulesPoller   == GetSamplingRules("rules") \/ UpdateSamplingRules("rules")
TargetsPoller == \/ GetAllStatistics \/ GetSamplingTargets \/ UpdateSamplingTargets
                 \/ GetSamplingRules("targets") \/ UpdateSamplingRules("targets")

Next == Modify \/ UpOrDown \/ Tick \/ RulesPoller \/ TargetsPoller

(* The timers keep running.                                                *)
Spec == Init /\ [][Next]_vars /\ WF_vars(RulesPoller) /\ WF_vars(TargetsPoller)

-----------------------------------------------------------------------------

(* A rule has one applier, and is of a Version that is supported.          *)
OneEach ==
  \A x \in appliers : /\ x.body \notin Unsupported
                      /\ \A y \in appliers : x.name = y.name => x = y

TypeOK ==
  /\ now \in 1..Horizon
  /\ up \in BOOLEAN
  /\ server \in [Names -> Bodies \cup {None}]
  /\ version \in 1..MaxVersion /\ modified \in 0..now
  /\ appliers \subseteq Applier /\ OneEach /\ lastModified \in 1..now
  /\ pc["rules"] \in {"idle", "update"}
  /\ pc["targets"] \in {"idle", "report", "apply", "refresh", "update"}
  /\ \A p \in Pollers : got[p].rules \subseteq Rule /\ got[p].version \in 0..MaxVersion
  /\ names \subseteq Names
  /\ targets.for \subseteq Names /\ targets.version \in 0..version /\ targets.modified \in 0..modified
  /\ asOf \in 0..version /\ stale \in BOOLEAN

(* A targets poll does not miss a modification: when it has seen rules     *)
(* newer than those in the cache and goes idle all the same, the cache was *)
(* behind already when it was made (92-93: the time of the update stands   *)
(* for the time of the fetch), or made at the very time of the change.     *)
NoMissedChange ==
  [][ /\ pc["targets"] = "apply" /\ pc'["targets"] = "idle"
      /\ targets.version > asOf
      => stale ]_vars

(* A rules update by either poller keeps the applier, with its target, its *)
(* reservoir and its statistics, of every rule that is the same before and *)
(* after it, also when a targets update came in between (82-91).           *)
KeepsAppliers ==
  [][ \A x \in appliers, y \in appliers' :
        pc["targets"] # "apply" /\ x.name = y.name /\ x.body = y.body => x = y ]_vars

(* Whatever the pollers did to each other, once the service stays up (its  *)
(* rules change only so often) every request is decided by the rule that   *)
(* the service has for it, and the rules are the ones with its last target.*)
ServerDecider(q) == First(q, {r \in ServerRules : r.body \notin Unsupported})

Converges ==
  <>[]up => <>[](/\ \A q \in Profiles : Decider(q) = ServerDecider(q)
                 /\ \A x \in appliers : x.target = version)

(* The rule that decides is the first that is meant for the request, under *)
(* the old names of the attributes as under the new ones, unless one of    *)
(* the rules raises.                                                       *)
RightRule ==
  ~Expired =>
    \A q \in Profiles :
      (\A x \in appliers : x.body \notin q.fails)
        => Decider(q) = {[name |-> r.name, body |-> r.body] : r \in Lowest({x \in appliers : x.body \in q.meant})}

(* An expired cache is used again after the next poll, even a failed one.  *)
Recovers == Expired ~> ~Expired

(* The comment at 61: "Should not ever reach fallback sampler as default  *)
(* rule is able to match", read where it is most likely to hold: the cache *)
(* has been made of an answer of the service, and is not expired.          *)
DefaultMatches ==
  [][ Expired \/ asOf = None \/ Expired' \/ \A q \in Profiles : Decider(q)' # {} ]_vars
=============================================================================
