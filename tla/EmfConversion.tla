--------------------------- MODULE EmfConversion ----------------------------
(***************************************************************************)
(* exporter/aws/metrics/base_emf_exporter.py: the log events that an       *)
(* export makes of the points it is given.  The points of a scope come in  *)
(* the order of its metrics, each with the kind and the name of its own.   *)
(*                                                                         *)
(* Left out: units, the namespace, and the attributes of the resource that *)
(* are copied as text.  The middle of a bucket is the number of the bucket.*)
(***************************************************************************)
EXTENDS Attributes, Integers, SequencesExt

CONSTANTS Milli,              \* units of a point's time in one of CloudWatch's
          SignalsDimensions,  \* should_add_application_signals_dimensions
          Resource,           \* of the process
          UnknownServices,    \* names that start with "unknown_service:"
          Lower(_)            \* str.lower of an attribute's key

ASSUME MilliAssumption == Milli \in Nat \ {0}

Lookup(f, key) == IF key \in DOMAIN f THEN f[key] ELSE ""

(* The elements of a sequence that are in a set.                           *)
Those(s, set) ==
  LET kept[n \in 0..Len(s)] ==
        IF n = 0 THEN <<>> ELSE IF s[n] \in set THEN Append(kept[n - 1], s[n]) ELSE kept[n - 1]
  IN  kept[Len(s)]

(* _convert_exp_histogram: positive buckets, zero, negative buckets, of    *)
(* each those that have a count.                                           *)
Buckets(sign, side) ==
  LET all == [i \in DOMAIN side.counts |-> <<sign, side.offset + i - 1, side.counts[i]>>]
  IN  Those(all, { b \in Range(all) : b[3] > 0 })

ExpHistogram(p) ==
  Buckets(1, p.positive) \o (IF p.zero > 0 THEN <<<<0, 0, p.zero>>>> ELSE <<>>) \o Buckets(-1, p.negative)

(* The value of a record is of its kind; a number may be missing.          *)
Value(p) ==
  CASE p.kind \in {"gauge", "sum"} -> p.value
    [] p.kind = "histogram"        -> p.summary
    [] p.kind = "exponential"      -> <<"buckets", ExpHistogram(p)>>

Supported(p) == p.kind \in {"gauge", "sum", "histogram", "exponential"}

(* _normalize_timestamp                                                    *)
Record(p) == [name |-> p.name, attributes |-> p.attributes, stamp |-> p.time \div Milli, value |-> Value(p)]

(* Mutant: points of different times are one group.                        *)
SameGroupAtAnyTime(r, s) == r.attributes = s.attributes

(* _group_by_attributes_and_timestamp                                      *)
SameGroup(r, s) == r.attributes = s.attributes /\ r.stamp = s.stamp

(* The groups of a scope, in the order of their first records.             *)
Groups(records) ==
  LET first == Those([i \in DOMAIN records |-> i],
                     { i \in DOMAIN records : \A j \in 1..(i - 1) : ~SameGroup(records[j], records[i]) })
  IN  [g \in DOMAIN first |-> Those(records, { r \in Range(records) : SameGroup(records[first[g]], r) })]

(* _get_deployment_environment                                             *)
Environment ==
  LET platform == Lookup(Resource, "cloud.platform") IN
  CASE Lookup(Resource, "deployment.environment.name") # "" -> Resource["deployment.environment.name"]
    [] Lookup(Resource, "deployment.environment.name") = "" /\ Lookup(Resource, "deployment.environment") # ""
         -> Resource["deployment.environment"]
    [] OTHER ->
         CASE platform = "aws_ec2"    -> "ec2:default"
           [] platform = "aws_ecs"    -> "ecs:default"
           [] platform = "aws_eks"    -> "eks:default"
           [] platform = "aws_lambda" -> "lambda:default"
           [] OTHER                   -> "generic:default"

Service ==
  LET name == Lookup(Resource, "service.name")
  IN  IF name \in {"", "unknown_service"} \cup UnknownServices THEN "UnknownService" ELSE name

(* _add_application_signals_dimensions: those that the attributes do not   *)
(* have in any case.                                                       *)
Extra(attributes) ==
  LET missing == IF SignalsDimensions
                   THEN { d \in {"Service", "Environment"} :
                            \A k \in DOMAIN attributes : Lower(k) # Lower(d) }
                   ELSE {}
  IN  [d \in missing |-> <<"text", IF d = "Service" THEN Service ELSE Environment>>]

IsWritten(r) == r.name # "" /\ r.value # <<>>

LastOf(records, name) ==
  CHOOSE i \in DOMAIN records : records[i].name = name /\ \A j \in DOMAIN records : records[j].name = name => j <= i

(* _create_emf_log.  Of records of one name the last is written; the       *)
(* attributes are those of the first record, and are written over metrics  *)
(* of the same name.                                                       *)
EmfLog(records) ==
  LET told   == Those(records, { r \in Range(records) : IsWritten(r) })
      names  == { told[i].name : i \in DOMAIN told }
      fields == [name \in names |-> told[LastOf(told, name)].value] ++ Entry("Version", <<"text", "1">>)
      own    == records[1].attributes
      added  == Extra(own)
  IN  [stamp      |-> records[1].stamp,
       metrics    |-> [i \in DOMAIN told |-> told[i].name],
       fields     |-> added ++ (own ++ fields),
       dimensions |-> DOMAIN own \cup DOMAIN added]

(* export: of each scope, and of one scope after the other.                *)
ScopeLogs(points) ==
  LET known   == Those(points, { p \in Range(points) : Supported(p) })
      records == [i \in DOMAIN known |-> Record(known[i])]
      groups  == Groups(records)
  IN  [g \in DOMAIN groups |-> EmfLog(groups[g])]

EmfLogs(scopes) ==
  LET logs[n \in 0..Len(scopes)] == IF n = 0 THEN <<>> ELSE logs[n - 1] \o ScopeLogs(scopes[n])
  IN  logs[Len(scopes)]

-----------------------------------------------------------------------------
(* Reference: what a log must say so that a point is told, and nothing but *)
(* the point under its name.  A missing number is never told.              *)
Measured(p) ==
  CASE p.kind \in {"gauge", "sum"} -> p.value
    [] p.kind = "histogram" -> p.summary
    [] p.kind = "exponential" ->
         { <<1, p.positive.offset + i - 1, p.positive.counts[i]>> : i \in DOMAIN p.positive.counts }
           \cup { <<-1, p.negative.offset + i - 1, p.negative.counts[i]>> : i \in DOMAIN p.negative.counts }
           \cup {<<0, 0, p.zero>>}

Tells(log, p) ==
  /\ p.time \in (Milli * log.stamp)..(Milli * log.stamp + Milli - 1)
  /\ \E i \in DOMAIN log.metrics : log.metrics[i] = p.name
  /\ IF p.kind = "exponential"
       THEN Range(log.fields[p.name][2]) = { b \in Measured(p) : b[3] > 0 }
       ELSE log.fields[p.name] = Measured(p)
  /\ \A k \in DOMAIN p.attributes : k \in log.dimensions /\ log.fields[k] = p.attributes[k]
  /\ log.dimensions \subseteq DOMAIN p.attributes \cup {"Service", "Environment"}

Tellable(p) == Supported(p) /\ p.name # "" /\ (p.kind \in {"gauge", "sum"} => p.value # <<>>)

(* What the reader hands over: points of one scope that share name, time   *)
(* and attributes are one point, none is of the epoch's first moment (for  *)
(* which the code takes the present), and no metric is named like an       *)
(* attribute or a dimension that is added.                                 *)
IsPoint(p) ==
  /\ p.time \in Nat /\ p.time >= Milli
  /\ p.kind = "histogram" => p.summary # <<>>
  /\ p.kind = "exponential" => /\ p.zero \in Nat
                               /\ p.positive.counts \in Seq(Nat) /\ p.negative.counts \in Seq(Nat)
  /\ p.name \notin DOMAIN p.attributes \cup DOMAIN Extra(p.attributes)

IsExport(scopes) ==
  /\ scopes \in Seq(Range(scopes))
  /\ \A points \in Range(scopes) :
       /\ points \in Seq(Range(points))
       /\ \A p \in Range(points) : Tellable(p) => IsPoint(p)
       /\ \A p, q \in { x \in Range(points) : Tellable(x) } :
            p.name = q.name /\ p.attributes = q.attributes /\ p.time \div Milli = q.time \div Milli => p = q
=============================================================================
