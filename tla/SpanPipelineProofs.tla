------------------------- MODULE SpanPipelineProofs -------------------------
(***************************************************************************)
(* SpanPipeline for any number of spans, exporters and environments, any   *)
(* size of queue and batch: each span is in one place, once; spans and     *)
(* metrics have common attributes; the metrics of a dependency name the    *)
(* operation of the service that calls it; content of a large language     *)
(* model is told of in full, and taken off.                                *)
(***************************************************************************)
EXTENDS SpanPipeline, FiniteSetTheorems, SequenceTheorems, WellFoundedInduction, TLAPS

-----------------------------------------------------------------------------
(* The processors of an environment are a sequence, and on_end goes over   *)
(* it forward.                                                             *)

SetupInv == [env |-> env, scene |-> scene] \in Cases /\ sampled \in BOOLEAN

PlainTypes(e) ==
  {"code", "baggage"} \cup (IF e.lambda THEN {"lambda"} ELSE {})
    \cup (IF ~e.signals THEN {} ELSE IF e.lambda THEN {"propagating"} ELSE {"propagating", "metrics"})

Parts(e) ==
  { Processor("sampled", SpanExporter(e, e.exporters[n])) : n \in DOMAIN e.exporters }
    \cup { Processor(type, NoExporter) : type \in PlainTypes(e) }
    \cup { Processor("unsampled", AwsOtlpExporter(e)), Processor("unsampled", Exporter("udp", TRUE, FALSE)) }

LEMMA ProcessorsSeq ==
  ASSUME NEW e, e.exporters \in Seq(Range(e.exporters))
  PROVE  /\ Processors(e) \in Seq(Parts(e))
         /\ e.signals => \E p \in DOMAIN Processors(e) : Processors(e)[p].type = "propagating"
<1> DEFINE S == Parts(e)
           first == [n \in DOMAIN e.exporters |-> Processor("sampled", SpanExporter(e, e.exporters[n]))]
<1>1. first \in Seq(S)
  <2>1. Len(e.exporters) \in Nat /\ DOMAIN e.exporters = 1..Len(e.exporters)
    BY LenProperties
  <2>2. first \in [1..Len(e.exporters) -> S]
    BY <2>1 DEF Parts
  <2> QED
    BY <2>1, <2>2, SeqDef
<1>2. \A type \in PlainTypes(e) : Plain(type) \in Seq(S)
  <2> SUFFICES ASSUME NEW type \in PlainTypes(e) PROVE Plain(type) \in Seq(S)
    OBVIOUS
  <2>1. Processor(type, NoExporter) \in S
    BY DEF Parts
  <2> HIDE DEF S
  <2> QED
    BY <2>1 DEF Plain
<1>3. /\ <<Processor("unsampled", AwsOtlpExporter(e))>> \in Seq(S)
      /\ <<Processor("unsampled", Exporter("udp", TRUE, FALSE))>> \in Seq(S)
  BY DEF Parts
<1> HIDE DEF S, first
<1>4. <<>> \in Seq(S)
  BY EmptySeq
<1>5. \A s \in Seq(S), t \in Seq(S) : s \o t \in Seq(S)
  BY ConcatProperties
<1>6. AgentProcessors(e) \in Seq(S) /\ (e.signals => SignalsProcessors(e) \in Seq(S))
  <2>1. /\ Plain("baggage") \in Seq(S) /\ (e.signals => Plain("propagating") \in Seq(S))
        /\ e.signals /\ ~e.lambda => Plain("metrics") \in Seq(S)
    BY <1>2 DEF PlainTypes
  <2> QED
    BY <2>1, <1>3, <1>4, <1>5 DEF AgentProcessors, SignalsProcessors, When
<1>7. \A c, s : (c => s \in Seq(S)) => When(c, s) \in Seq(S)
  BY <1>4 DEF When
<1>8. /\ When(e.code, Plain("code")) \in Seq(S) /\ When(e.lambda, Plain("lambda")) \in Seq(S)
      /\ When(e.agent, AgentProcessors(e)) \in Seq(S) /\ When(e.signals, SignalsProcessors(e)) \in Seq(S)
  BY <1>2, <1>4, <1>6 DEF When, PlainTypes
<1>9. Processors(e) = first \o When(e.code, Plain("code")) \o When(e.lambda, Plain("lambda"))
                        \o When(e.agent, AgentProcessors(e)) \o When(e.signals, SignalsProcessors(e))
  BY DEF Processors, first
<1> DEFINE before == first \o When(e.code, Plain("code")) \o When(e.lambda, Plain("lambda")) \o When(e.agent, AgentProcessors(e))
<1>10. before \in Seq(S) /\ Processors(e) = before \o When(e.signals, SignalsProcessors(e))
  BY <1>1, <1>5, <1>8, <1>9
<1> HIDE DEF before
<1>11. Processors(e) \in Seq(S)
  BY <1>5, <1>8, <1>10
<1>12. ASSUME e.signals PROVE \E p \in DOMAIN Processors(e) : Processors(e)[p].type = "propagating"
  <2> DEFINE one == Processor("propagating", NoExporter)
             other == IF e.lambda THEN <<Processor("unsampled", Exporter("udp", TRUE, FALSE))>> ELSE Plain("metrics")
             q == Len(before) + 1
  <2>1. one \in S /\ other \in Seq(S) /\ <<one>> \in Seq(S)
    <3>1. e.lambda \/ Plain("metrics") \in Seq(S)
      BY <1>2, <1>12 DEF PlainTypes
    <3>2. other \in Seq(S)
      BY <1>3, <3>1
    <3>3. one \in S
      <4>1. "propagating" \in PlainTypes(e)
        BY <1>12 DEF PlainTypes
      <4> QED
        BY <4>1, Zenon DEF S, Parts
    <3> HIDE DEF one, other
    <3> QED
      BY <3>2, <3>3
  <2>2. When(e.signals, SignalsProcessors(e)) = <<one>> \o other
    BY <1>12 DEF When, SignalsProcessors, Plain
  <2> HIDE DEF one, other
  <2>3. Len(<<one>> \o other) = 1 + Len(other) /\ (<<one>> \o other)[1] = one /\ Len(other) \in Nat
    BY <2>1, ConcatProperties, LenProperties
  <2>4. <<one>> \o other \in Seq(S)
    BY <1>5, <2>1
  <2>5. Len(before) \in Nat /\ q \in DOMAIN Processors(e) /\ Processors(e)[q] = one
    BY <1>10, <2>2, <2>3, <2>4, ConcatProperties, LenProperties
  <2>6. one.type = "propagating"
    BY DEF one, Processor
  <2> QED
    BY <2>5, <2>6
<1> QED
  BY <1>11, <1>12 DEF S

LEMMA PartTypes == \A e : \A x \in Parts(e) : x.type \in {"sampled", "unsampled"} \cup PlainTypes(e)
<1> SUFFICES ASSUME NEW e, NEW x \in Parts(e) PROVE x.type \in {"sampled", "unsampled"} \cup PlainTypes(e)
  OBVIOUS
<1>0. \A type, exporter : Processor(type, exporter).type = type
  BY DEF Processor
<1>1. CASE x \in { Processor("sampled", SpanExporter(e, e.exporters[n])) : n \in DOMAIN e.exporters }
  BY <1>0, <1>1
<1>2. CASE x \in { Processor(type, NoExporter) : type \in PlainTypes(e) }
  BY <1>0, <1>2
<1>3. CASE x \in {Processor("unsampled", AwsOtlpExporter(e)), Processor("unsampled", Exporter("udp", TRUE, FALSE))}
  BY <1>0, <1>3
<1> QED
  BY <1>1, <1>2, <1>3, Zenon DEF Parts

LEMMA PipelineFacts ==
  ASSUME SetupInv
  PROVE  /\ Len(Pipeline) \in Nat /\ DOMAIN Pipeline = 1..Len(Pipeline)
         /\ Workers \subseteq 1..Len(Pipeline) /\ \A p \in Workers : Ends(p)
         /\ Pipeline = Processors(env) /\ \A p \in DOMAIN Pipeline : Pipeline[p] \in Parts(env)
<1> DEFINE c == [env |-> env, scene |-> scene]
<1>1. c \in Cases /\ c.env = env
  BY DEF SetupInv
<1>2. env \in { d.env : d \in Cases }
  BY <1>1
<1>3. env.exporters \in Seq(Range(env.exporters))
  BY <1>1, PipelineAssumption
<1>4. Pipeline = Processors(env)
  BY <1>2 DEF Pipeline, PipelineOf
<1>5. Pipeline \in Seq(Parts(env))
  BY <1>3, <1>4, ProcessorsSeq
<1>6. Len(Pipeline) \in Nat /\ DOMAIN Pipeline = 1..Len(Pipeline)
  BY <1>5, LenProperties
<1>7. \A p \in DOMAIN Pipeline : Pipeline[p] \in Parts(env)
  BY <1>5, <1>6, ElementOfSeq
<1> QED
  BY <1>4, <1>6, <1>7 DEF Workers, Batching, Ends

LEMMA Least == ASSUME NEW S \in SUBSET Nat, S # {} PROVE \E q \in S : \A r \in S : q <= r
<1> DEFINE R == OpToRel(<, Nat)
<1>1. IsWellFoundedOn(R, Nat)
  BY NatLessThanWellFounded
<1>2. \A r \in Nat, n \in Nat : r < n => <<r, n>> \in R
  BY Zenon DEF OpToRel
<1> HIDE DEF R
<1>3. PICK q \in S : \A r \in S : ~(<<r, q>> \in R)
  BY <1>1, WFMin
<1>4. \A r \in S : ~(r < q)
  BY <1>2, <1>3, Zenon
<1> QED
  BY <1>4

(* No batch processor is passed over.                                      *)
LEMMA AfterFacts ==
  ASSUME SetupInv, NEW p \in 0..Len(Pipeline)
  PROVE  /\ After(p) \in 0..(Len(Pipeline) + 1) /\ After(p) > p
         /\ \A q \in Workers : After(p) > q <=> q <= p
<1> DEFINE later == { q \in DOMAIN Pipeline : q > p /\ Ends(q) }
<1>1. Len(Pipeline) \in Nat /\ later \subseteq 1..Len(Pipeline) /\ \A q \in later : q > p
  BY PipelineFacts
<1>2. \A q \in Workers : q \in 1..Len(Pipeline) /\ (q > p => q \in later)
  BY PipelineFacts
<1>3. After(p) = IF later = {} THEN Len(Pipeline) + 1 ELSE CHOOSE q \in later : \A r \in later : q <= r
  BY DEF After
<1> HIDE DEF later
<1>4. CASE later = {}
  BY <1>1, <1>2, <1>3, <1>4
<1>5. CASE later # {}
  <2>1. later \in SUBSET Nat
    BY <1>1
  <2>2. \E q \in later : \A r \in later : q <= r
    BY <1>5, <2>1, Least
  <2>3. After(p) \in later /\ \A r \in later : After(p) <= r
    BY <1>3, <1>5, <2>2
  <2>4. After(p) \in 1..Len(Pipeline) /\ After(p) > p
    BY <1>1, <2>3
  <2>5. ASSUME NEW q \in Workers PROVE After(p) > q <=> q <= p
    BY <1>1, <1>2, <2>3, <2>4
  <2> QED
    BY <1>1, <2>4, <2>5
<1> QED
  BY <1>4, <1>5

-----------------------------------------------------------------------------
(* Counting in sequences.                                                  *)

Where(s, i) == { n \in DOMAIN s : s[n] = i }

LEMMA CountFacts ==
  ASSUME NEW S, NEW s \in Seq(S), NEW i
  PROVE  /\ IsFiniteSet(Where(s, i)) /\ Count(s, i) = Cardinality(Where(s, i)) /\ Count(s, i) \in Nat
         /\ Count(s, i) = 0 <=> \A n \in DOMAIN s : s[n] # i
<1>1. Len(s) \in Nat /\ DOMAIN s = 1..Len(s)
  BY LenProperties
<1>2. IsFiniteSet(DOMAIN s)
  BY <1>1, FS_Interval
<1>3. IsFiniteSet(Where(s, i))
  BY <1>2, FS_Subset DEF Where
<1>4. Count(s, i) = Cardinality(Where(s, i))
  BY DEF Count, Where
<1>5. Cardinality(Where(s, i)) \in Nat /\ (Cardinality(Where(s, i)) = 0 <=> Where(s, i) = {})
  BY <1>3, FS_CardinalityType, FS_EmptySet
<1>6. Where(s, i) = {} <=> \A n \in DOMAIN s : s[n] # i
  BY DEF Where
<1> QED
  BY <1>3, <1>4, <1>5, <1>6

LEMMA CountConcat ==
  ASSUME NEW S, NEW s \in Seq(S), NEW t \in Seq(S), NEW i
  PROVE  Count(s \o t, i) = Count(s, i) + Count(t, i)
<1> DEFINE u == s \o t
           k == Len(s)
           B == { n \in DOMAIN u : n > k /\ u[n] = i }
           move == [n \in Where(t, i) |-> n + k]
<1>1. /\ k \in Nat /\ DOMAIN s = 1..k
      /\ Len(t) \in Nat /\ DOMAIN t = 1..Len(t)
      /\ u \in Seq(S) /\ DOMAIN u = 1..(k + Len(t))
      /\ \A n \in DOMAIN s : u[n] = s[n]
      /\ \A n \in DOMAIN t : u[n + k] = t[n]
  BY LenProperties, ConcatProperties
<1> HIDE DEF u, k
<1>2. Where(u, i) = Where(s, i) \cup B /\ Where(s, i) \cap B = {}
  BY <1>1 DEF Where
<1>3. move \in Bijection(Where(t, i), B)
  <2>1. \A n \in Where(t, i) : move[n] = n + k /\ move[n] \in B
    BY <1>1 DEF Where
  <2>2. \A n \in Where(t, i), m \in Where(t, i) : move[n] = move[m] => n = m
    BY <1>1, <2>1 DEF Where
  <2>3. ASSUME NEW m \in B PROVE \E n \in Where(t, i) : move[n] = m
    <3>1. m - k \in DOMAIN t /\ t[m - k] = i /\ (m - k) + k = m
      BY <1>1
    <3>2. m - k \in Where(t, i)
      BY <3>1 DEF Where
    <3> QED
      BY <2>1, <3>1, <3>2
  <2>4. move \in [Where(t, i) -> B]
    BY <2>1
  <2> HIDE DEF move, B
  <2> QED
    BY <2>2, <2>3, <2>4 DEF Bijection, Injection, IsInjective, Surjection
<1>4. IsFiniteSet(Where(t, i)) /\ IsFiniteSet(Where(s, i))
  BY CountFacts
<1>5. IsFiniteSet(B) /\ Cardinality(B) = Cardinality(Where(t, i))
  <2>1. Bijection(Where(t, i), B) # {}
    BY <1>3
  <2> HIDE DEF B
  <2> QED
    BY <2>1, <1>4, FS_Bijection DEF ExistsBijection
<1> HIDE DEF B
<1>6. Cardinality(Where(u, i)) = Cardinality(Where(s, i)) + Cardinality(B)
  <2>1. Cardinality(Where(s, i) \cup B) = Cardinality(Where(s, i)) + Cardinality(B) - Cardinality(Where(s, i) \cap B)
    BY <1>4, <1>5, FS_Union
  <2>2. Cardinality(Where(s, i) \cap B) = 0
    BY <1>2, FS_EmptySet
  <2>3. Cardinality(Where(s, i)) \in Nat /\ Cardinality(B) \in Nat
    BY <1>4, <1>5, FS_CardinalityType
  <2> QED
    BY <1>2, <2>1, <2>2, <2>3
<1> QED
  BY <1>1, <1>5, <1>6, CountFacts DEF u

LEMMA CountOne == \A e, i : Count(<<e>>, i) = IF e = i THEN 1 ELSE 0
<1> SUFFICES ASSUME NEW e, NEW i PROVE Count(<<e>>, i) = IF e = i THEN 1 ELSE 0
  OBVIOUS
<1>1. Where(<<e>>, i) = IF e = i THEN {1} ELSE {}
  BY DEF Where
<1>2. Count(<<e>>, i) = Cardinality(Where(<<e>>, i))
  BY DEF Count, Where
<1> QED
  BY <1>1, <1>2, FS_EmptySet, FS_Singleton

LEMMA CountNone == \A i : Count(<<>>, i) = 0
<1> SUFFICES ASSUME NEW i PROVE Count(<<>>, i) = 0
  OBVIOUS
<1>1. <<>> \in Seq({}) /\ DOMAIN <<>> = {}
  OBVIOUS
<1> QED
  BY <1>1, CountFacts

LEMMA CountAppend ==
  ASSUME NEW S, NEW s \in Seq(S), NEW e \in S, NEW i
  PROVE  Append(s, e) \in Seq(S) /\ Count(Append(s, e), i) = Count(s, i) + IF e = i THEN 1 ELSE 0
<1>1. Append(s, e) = s \o <<e>> /\ <<e>> \in Seq(S) /\ Append(s, e) \in Seq(S)
  BY AppendIsConcat, AppendProperties
<1>2. Count(s \o <<e>>, i) = Count(s, i) + Count(<<e>>, i)
  BY <1>1, CountConcat
<1>3. Count(<<e>>, i) = IF e = i THEN 1 ELSE 0
  BY CountOne
<1> QED
  BY <1>1, <1>2, <1>3

LEMMA CountTail ==
  ASSUME NEW S, NEW s \in Seq(S), s # <<>>, NEW i
  PROVE  /\ Head(s) \in S /\ Tail(s) \in Seq(S) /\ Len(Tail(s)) = Len(s) - 1
         /\ Count(s, i) = Count(Tail(s), i) + IF Head(s) = i THEN 1 ELSE 0
<1>1. /\ Head(s) \in S /\ Tail(s) \in Seq(S) /\ Len(Tail(s)) = Len(s) - 1
      /\ \A n \in 1..Len(Tail(s)) : Tail(s)[n] = s[n + 1]
  BY HeadTailProperties
<1>2. Head(s) = s[1] /\ Len(s) \in Nat \ {0}
  BY EmptySeq
<1>3. <<Head(s)>> \in Seq(S) /\ Len(<<Head(s)>>) = 1 /\ <<Head(s)>>[1] = Head(s)
  BY <1>1
<1>4. /\ <<Head(s)>> \o Tail(s) \in Seq(S) /\ Len(<<Head(s)>> \o Tail(s)) = Len(s)
      /\ \A n \in 1..Len(s) : (<<Head(s)>> \o Tail(s))[n] = IF n <= 1 THEN Head(s) ELSE Tail(s)[n - 1]
  BY <1>1, <1>2, <1>3, ConcatProperties
<1>5. \A n \in 1..Len(s) : (<<Head(s)>> \o Tail(s))[n] = s[n]
  BY <1>1, <1>2, <1>4
<1>6. <<Head(s)>> \o Tail(s) = s
  BY <1>4, <1>5, SeqEqual
<1>7. Count(<<Head(s)>> \o Tail(s), i) = Count(<<Head(s)>>, i) + Count(Tail(s), i)
  BY <1>1, <1>3, CountConcat
<1>8. Count(Tail(s), i) \in Nat
  BY <1>1, CountFacts
<1>9. Count(<<Head(s)>>, i) = IF Head(s) = i THEN 1 ELSE 0
  BY CountOne
<1>10. Count(s, i) = Count(<<Head(s)>>, i) + Count(Tail(s), i)
  BY <1>6, <1>7, Zenon
<1>11. Count(s, i) = Count(Tail(s), i) + IF Head(s) = i THEN 1 ELSE 0
  <2>1. CASE Head(s) = i
    BY <1>8, <1>9, <1>10, <2>1
  <2>2. CASE Head(s) # i
    BY <1>8, <1>9, <1>10, <2>2
  <2> QED
    BY <2>1, <2>2
<1> QED
  BY <1>1, <1>11

LEMMA CountSplit ==
  ASSUME NEW S, NEW s \in Seq(S), NEW n \in 0..Len(s), NEW i
  PROVE  /\ SubSeq(s, 1, n) \in Seq(S) /\ SubSeq(s, n + 1, Len(s)) \in Seq(S)
         /\ Len(SubSeq(s, 1, n)) = n /\ Len(SubSeq(s, n + 1, Len(s))) = Len(s) - n
         /\ Count(s, i) = Count(SubSeq(s, 1, n), i) + Count(SubSeq(s, n + 1, Len(s)), i)
<1> DEFINE a == SubSeq(s, 1, n)
           b == SubSeq(s, n + 1, Len(s))
<1>1. Len(s) \in Nat /\ \A m \in 1..Len(s) : s[m] \in S
  BY LenProperties, ElementOfSeq
<1>2. a \in Seq(S) /\ Len(a) = n /\ \A m \in 1..n : a[m] = s[m]
  BY <1>1, SubSeqProperties
<1>3. b \in Seq(S) /\ Len(b) = Len(s) - n /\ \A m \in 1..(Len(s) - n) : b[m] = s[n + m]
  <2>1. /\ b \in Seq(S) /\ Len(b) = IF n + 1 <= Len(s) THEN Len(s) - (n + 1) + 1 ELSE 0
        /\ \A m \in 1..(Len(s) - (n + 1) + 1) : b[m] = s[n + 1 + m - 1]
    <3>1. \A m \in (n + 1)..Len(s) : s[m] \in S
      BY <1>1
    <3>2. n + 1 \in Int /\ Len(s) \in Int
      BY <1>1
    <3> QED
      BY <3>1, <3>2, SubSeqProperties
  <2> QED
    BY <1>1, <2>1
<1> HIDE DEF a, b
<1>4. a \o b = s
  <2>1. /\ a \o b \in Seq(S) /\ Len(a \o b) = Len(s)
        /\ \A m \in 1..Len(s) : (a \o b)[m] = IF m <= n THEN a[m] ELSE b[m - n]
    <3>1. Len(a) + Len(b) = Len(s)
      BY <1>1, <1>2, <1>3
    <3>2. /\ a \o b \in Seq(S) /\ Len(a \o b) = Len(a) + Len(b)
          /\ \A m \in 1..(Len(a) + Len(b)) : (a \o b)[m] = IF m <= Len(a) THEN a[m] ELSE b[m - Len(a)]
      BY <1>2, <1>3, ConcatProperties
    <3> QED
      BY <1>2, <3>1, <3>2
  <2>2. \A m \in 1..Len(s) : (a \o b)[m] = s[m]
    BY SMTT(30), <1>1, <1>2, <1>3, <2>1
  <2> QED
    BY <2>1, <2>2, SeqEqual
<1>5. Count(a \o b, i) = Count(a, i) + Count(b, i)
  BY <1>2, <1>3, CountConcat
<1> QED
  BY <1>2, <1>3, <1>4, <1>5 DEF a, b

-----------------------------------------------------------------------------
(* Types: a span is ended before a batch processor has it, and what a      *)
(* worker has in hand is of its batch.                                     *)

Over == { i \in Spans : Phase(i) = "over" }

LiveInv ==
  /\ DOMAIN live = Spans /\ DOMAIN ended = Spans
  /\ next \in [Spans -> 0..(Len(Pipeline) + 1)]
  /\ \A i \in Spans :
       /\ "state" \in DOMAIN live[i] /\ Phase(i) \in {"none", "absent", "started", "updated", "over"}
       /\ Phase(i) = "over" => "state" \in DOMAIN ended[i] /\ ended[i].state # "none"
       /\ Phase(i) # "over" => ended[i] = NoSpan /\ next[i] = 0
  /\ checked \subseteq { i \in Spans : next[i] \in Workers /\ Takes(next[i]) }

IsBatch(b, S) ==
  /\ DOMAIN b = {"spans", "at", "step", "attrs"}
  /\ b.spans \in Seq(S) /\ Len(b.spans) <= BatchSize
  /\ b.at \in Nat \ {0} /\ b.step \in {"read", "write"}
  /\ b.step = "write" => b.at \in DOMAIN b.spans

SentSpans(p) == [n \in DOMAIN sent[p] |-> sent[p][n].span]

WorkInv ==
  /\ queue \in [Workers -> Seq(Over)] /\ stage \in [Workers -> {"up", "done", "exited"}]
  /\ DOMAIN batch = Workers /\ DOMAIN sent = Workers
  /\ \A p \in Workers :
       /\ Len(queue[p]) <= QueueSize
       /\ IsBatch(batch[p], Over)
       /\ sent[p] \in Seq(Range(sent[p])) /\ SentSpans(p) \in Seq(Over)
  /\ lost \subseteq Workers \X Spans \X Causes

TInv == SetupInv /\ LiveInv /\ WorkInv

(* What was chosen at first stays.                                         *)
LEMMA SetupKept == [Next]_vars => UNCHANGED <<env, scene, sampled>>
<1>1. ASSUME NEW i \in Spans, Start(i) \/ Update(i) \/ End(i) \/ OnEnd(i) PROVE UNCHANGED <<env, scene, sampled>>
  BY <1>1 DEF Start, Update, End, OnEnd, Refuse, Check, Enqueue, Measure
<1>2. ASSUME NEW p \in Workers, Work(p) \/ Shutdown(p) PROVE UNCHANGED <<env, scene, sampled>>
  BY <1>2 DEF Work, Shutdown, Take, Generate, Process, Replace, Deliver, Fail, Exit
<1> QED
  BY <1>1, <1>2 DEF Next, vars

LEMMA Same ==
  ASSUME UNCHANGED <<env, scene, sampled>>
  PROVE  /\ Spans' = Spans /\ Pipeline' = Pipeline /\ Workers' = Workers
         /\ \A p : (Takes(p)' <=> Takes(p)) /\ ExporterOf(p)' = ExporterOf(p)
         /\ SetupInv => SetupInv'
<1>1. Spans' = Spans /\ Pipeline' = Pipeline
  BY DEF Spans, Pipeline
<1> QED
  BY <1>1 DEF Workers, Takes, ExporterOf, SetupInv

LEMMA TInit == Init => TInv
<1> SUFFICES ASSUME Init PROVE TInv
  OBVIOUS
<1>1. PICK c \in Cases : env = c.env /\ scene = c.scene
  BY DEF Init
<1>2. SetupInv
  BY <1>1, PipelineAssumption DEF Init, SetupInv
<1>3. \A i \in Spans : live[i] = NoSpan /\ ended[i] = NoSpan /\ next[i] = 0 /\ "state" \in DOMAIN NoSpan /\ NoSpan.state = "none"
  BY DEF Init, NoSpan
<1>4. LiveInv
  <2>1. DOMAIN live = Spans /\ DOMAIN ended = Spans /\ next \in [Spans -> 0..(Len(Pipeline) + 1)] /\ checked = {}
    BY <1>2, PipelineFacts DEF Init
  <2> QED
    BY <1>3, <2>1 DEF LiveInv, Phase
<1>5. WorkInv
  <2>1. /\ \A p \in Workers : queue[p] = <<>> /\ batch[p] = Idle /\ sent[p] = <<>> /\ stage[p] = "up"
        /\ queue = [p \in Workers |-> <<>>] /\ stage = [p \in Workers |-> "up"]
        /\ DOMAIN batch = Workers /\ DOMAIN sent = Workers /\ lost = {}
    BY DEF Init
  <2>2. \A S : <<>> \in Seq(S) /\ Len(<<>>) = 0
    BY EmptySeq
  <2>3. IsBatch(Idle, Over)
    BY <2>2, PipelineAssumption DEF IsBatch, Idle
  <2>4. \A p \in Workers : SentSpans(p) = <<>>
    BY <2>1 DEF SentSpans
  <2>5. \A p \in Workers : sent[p] \in Seq(Range(sent[p])) /\ SentSpans(p) \in Seq(Over) /\ Len(queue[p]) <= QueueSize
    <3>1. ASSUME NEW p \in Workers PROVE sent[p] \in Seq(Range(sent[p])) /\ SentSpans(p) \in Seq(Over)
      <4>1. sent[p] = <<>> /\ SentSpans(p) = <<>>
        BY <2>1, <2>4
      <4>2. <<>> \in Seq(Range(sent[p])) /\ <<>> \in Seq(Over)
        BY <2>2
      <4> QED
        BY <4>1, <4>2
    <3>2. \A p \in Workers : Len(queue[p]) <= QueueSize
      BY <2>1, <2>2, PipelineAssumption
    <3> QED
      BY <3>1, <3>2
  <2> QED
    BY <2>1, <2>2, <2>3, <2>5 DEF WorkInv
<1> QED
  BY <1>2, <1>4, <1>5 DEF TInv

-----------------------------------------------------------------------------
(* The spans.                                                              *)

LEMMA StartLive == ASSUME TInv, NEW n \in Spans, Start(n) PROVE LiveInv' /\ Over' = Over
<1>1. /\ Phase(n) = "none" /\ UNCHANGED <<env, scene, sampled, ended, next, checked>>
      /\ Spans' = Spans /\ Pipeline' = Pipeline /\ Workers' = Workers
      /\ \A p : Takes(p)' <=> Takes(p)
  BY Same DEF Start
<1>2. DOMAIN live' = Spans /\ \A i \in Spans : "state" \in DOMAIN live'[i] /\
        IF i = n THEN live'[i].state \in {"absent", "started"} ELSE live'[i].state = live[i].state
  <2>1. DOMAIN live = Spans /\ \A i \in Spans : "state" \in DOMAIN live[i]
    BY DEF TInv, LiveInv
  <2>2. CASE Unseen(n)
    BY <2>1, <2>2 DEF Start, Absent
  <2>3. CASE ~Unseen(n)
    <3> DEFINE own == Started(n).span
               above == Started(n).up.attrs
    <3>1. live' = [i \in Spans |-> IF i = n THEN Recording(n, own)
                                   ELSE IF Local(n) /\ i = scene[n].up THEN [live[i] EXCEPT !.attrs = above] ELSE live[i]]
      BY <2>3 DEF Start
    <3> HIDE DEF own, above
    <3>2. "state" \in DOMAIN Recording(n, own) /\ Recording(n, own).state = "started"
      BY DEF Recording
    <3>3. \A i \in Spans : LET s == [live[i] EXCEPT !.attrs = above] IN "state" \in DOMAIN s /\ s.state = live[i].state
      BY <2>1
    <3> QED
      BY <2>1, <3>1, <3>2, <3>3
  <2> QED
    BY <2>2, <2>3
<1>3. \A i \in Spans : Phase(i)' = live'[i].state /\ Phase(i) = live[i].state
  BY DEF Phase
<1>4. LiveInv'
  BY <1>1, <1>2, <1>3 DEF TInv, LiveInv
<1>5. Over' = Over
  BY <1>1, <1>2, <1>3 DEF Over
<1> QED
  BY <1>4, <1>5

LEMMA UpdateLive == ASSUME TInv, NEW n \in Spans, Update(n) PROVE LiveInv' /\ Over' = Over
<1>1. /\ Phase(n) = "started" /\ UNCHANGED <<env, scene, sampled, ended, next, checked>>
      /\ Spans' = Spans /\ Pipeline' = Pipeline /\ Workers' = Workers
      /\ \A p : Takes(p)' <=> Takes(p)
  BY Same DEF Update
<1>2. DOMAIN live' = Spans /\ \A i \in Spans : "state" \in DOMAIN live'[i] /\
        IF i = n THEN live'[i].state = "updated" ELSE live'[i].state = live[i].state
  <2>1. DOMAIN live = Spans /\ \A i \in Spans : "state" \in DOMAIN live[i]
    BY DEF TInv, LiveInv
  <2>2. \E name, attrs : live' = [live EXCEPT ![n] = [[[live[n] EXCEPT !.state = "updated"] EXCEPT !.name = name] EXCEPT !.attrs = attrs]]
    BY <2>1 DEF Update
  <2> QED
    BY <2>1, <2>2
<1>3. \A i \in Spans : Phase(i)' = live'[i].state /\ Phase(i) = live[i].state
  BY DEF Phase
<1>4. LiveInv'
  BY <1>1, <1>2, <1>3 DEF TInv, LiveInv
<1>5. Over' = Over
  BY <1>1, <1>2, <1>3 DEF Over
<1> QED
  BY <1>4, <1>5

LEMMA EndLive ==
  ASSUME TInv, NEW n \in Spans, End(n)
  PROVE  LiveInv' /\ Over \subseteq Over' /\ next[n] = 0 /\ next' = [next EXCEPT ![n] = After(0)]
<1>1. /\ IsOpen(live[n]) /\ UNCHANGED <<env, scene, sampled, checked>>
      /\ Spans' = Spans /\ Pipeline' = Pipeline /\ Workers' = Workers
      /\ \A p : Takes(p)' <=> Takes(p)
  BY Same DEF End
<1>2. live[n].state \in {"started", "updated"} /\ Phase(n) # "over"
  BY <1>1 DEF IsOpen, Phase
<1>3. next[n] = 0 /\ next' = [next EXCEPT ![n] = After(0)] /\ n \notin checked
  <2>1. next[n] = 0
    BY <1>2 DEF TInv, LiveInv
  <2>2. 0 \notin Workers
    BY PipelineFacts DEF TInv
  <2> QED
    BY <2>1, <2>2 DEF End, TInv, LiveInv
<1>4. After(0) \in 0..(Len(Pipeline) + 1)
  BY AfterFacts, PipelineFacts DEF TInv
<1>5. /\ DOMAIN live' = Spans /\ DOMAIN ended' = Spans
      /\ \A i \in Spans : "state" \in DOMAIN live'[i] /\
           IF i = n THEN live'[i].state = "over" /\ ended'[i] = live[n] ELSE live'[i] = live[i] /\ ended'[i] = ended[i]
  BY DEF End, TInv, LiveInv
<1>6. \A i \in Spans : Phase(i)' = live'[i].state /\ Phase(i) = live[i].state
  BY DEF Phase
<1>7. LiveInv'
  <2>1. next' \in [Spans -> 0..(Len(Pipeline) + 1)] /\ \A i \in Spans : i # n => next'[i] = next[i]
    BY <1>3, <1>4 DEF TInv, LiveInv
  <2> QED
    BY <1>1, <1>2, <1>3, <1>5, <1>6, <2>1 DEF TInv, LiveInv
<1>8. Over \subseteq Over'
  BY <1>1, <1>5, <1>6 DEF Over
<1> QED
  BY <1>3, <1>7, <1>8

(* What a processor of on_end does to the span's progress.                 *)
LEMMA OnEndFacts ==
  ASSUME TInv, NEW i \in Spans, NEW p, Refuse(i, p) \/ Check(i, p) \/ Enqueue(i, p) \/ Measure(i, p),
         p \in DOMAIN Pipeline
  PROVE  /\ next[i] = p /\ p \in 1..Len(Pipeline) /\ Phase(i) = "over" /\ i \in Over
         /\ After(p) \in 0..(Len(Pipeline) + 1) /\ After(p) > p
         /\ \A q \in Workers : After(p) > q <=> q <= p
<1>1. next[i] = p
  BY DEF Refuse, Check, Enqueue, Measure, At
<1>2. p \in 1..Len(Pipeline) /\ Len(Pipeline) \in Nat
  BY PipelineFacts DEF TInv
<1>3. Phase(i) = "over"
  BY <1>1, <1>2 DEF TInv, LiveInv
<1>4. i \in Over
  BY <1>3 DEF Over
<1>5. p \in 0..Len(Pipeline)
  BY <1>2
<1> QED
  BY <1>1, <1>2, <1>3, <1>4, <1>5, AfterFacts DEF TInv

LEMMA OnEndLive ==
  ASSUME TInv, NEW i \in Spans, NEW p \in DOMAIN Pipeline,
         IF p \in Workers THEN Refuse(i, p) \/ Check(i, p) \/ Enqueue(i, p) ELSE Measure(i, p)
  PROVE  LiveInv' /\ Over' = Over
<1>1. /\ UNCHANGED <<env, scene, sampled, live, ended>>
      /\ Spans' = Spans /\ Pipeline' = Pipeline /\ Workers' = Workers
      /\ \A q : Takes(q)' <=> Takes(q)
  BY Same DEF Refuse, Check, Enqueue, Measure
<1>2. /\ next[i] = p /\ p \in 1..Len(Pipeline) /\ Phase(i) = "over" /\ After(p) \in 0..(Len(Pipeline) + 1)
  BY OnEndFacts
<1>3. \A j : Phase(j)' = Phase(j)
  BY <1>1 DEF Phase
<1>4. next \in [Spans -> 0..(Len(Pipeline) + 1)] /\ checked \subseteq { j \in Spans : next[j] \in Workers /\ Takes(next[j]) }
  BY DEF TInv, LiveInv
<1>5. /\ next' \in [Spans -> 0..(Len(Pipeline) + 1)]
      /\ \A j \in Spans : j # i => next'[j] = next[j]
      /\ checked' \subseteq { j \in Spans : next'[j] \in Workers /\ Takes(next'[j]) }
  <2>1. CASE next' = [next EXCEPT ![i] = After(p)] /\ checked' \subseteq checked \ {i}
    BY <1>2, <1>4, <2>1
  <2>2. CASE Check(i, p) /\ p \in Workers
    <3>1. next' = next /\ checked' = checked \cup {i} /\ Takes(p)
      BY <2>2 DEF Check
    <3> QED
      BY <1>2, <1>4, <2>2, <3>1
  <2>3. p \notin Workers => i \notin checked
    BY <1>2, <1>4
  <2> QED
    BY ZenonT(60), <1>2, <1>4, <2>1, <2>2, <2>3 DEF Refuse, Enqueue, Measure, At
<1>6. LiveInv'
  BY <1>1, <1>2, <1>3, <1>5 DEF TInv, LiveInv
<1>7. Over' = Over
  BY <1>1, <1>3 DEF Over
<1> QED
  BY <1>6, <1>7

(* The exporter replaces attributes and events of a span that is over.     *)
LEMMA ReplaceLive == ASSUME TInv, NEW p \in Workers, Replace(p) PROVE LiveInv' /\ Over' = Over
<1> DEFINE x == InHand(p)
<1>1. /\ UNCHANGED <<env, scene, sampled, live, next, checked>>
      /\ Spans' = Spans /\ Pipeline' = Pipeline /\ Workers' = Workers
      /\ \A q : Takes(q)' <=> Takes(q)
  BY Same DEF Replace
<1>2. x \in Over /\ x \in Spans
  <2>1. IsBatch(batch[p], Over) /\ batch[p].step = "write"
    BY DEF TInv, WorkInv, Replace
  <2> QED
    BY <2>1, ElementOfSeq, LenProperties DEF IsBatch, InHand, Over
<1>3. \E attrs, new : ended' = [ended EXCEPT ![x] = [[ended[x] EXCEPT !.attrs = attrs] EXCEPT !.events = new]]
  BY <1>2 DEF Replace, TInv, LiveInv
<1> HIDE DEF x
<1>4. /\ DOMAIN ended' = Spans
      /\ \A i \in Spans : IF i = x THEN (DOMAIN ended'[i] = DOMAIN ended[i]) /\ ("state" \in DOMAIN ended[i] => ended'[i].state = ended[i].state)
                          ELSE ended'[i] = ended[i]
  BY <1>2, <1>3 DEF TInv, LiveInv
<1>5. \A i : Phase(i)' = Phase(i)
  BY <1>1 DEF Phase
<1>6. Phase(x) = "over"
  BY <1>2 DEF Over
<1>7. LiveInv'
  BY <1>1, <1>4, <1>5, <1>6 DEF TInv, LiveInv
<1>8. Over' = Over
  BY <1>1, <1>5 DEF Over
<1> QED
  BY <1>7, <1>8

LEMMA LiveKept ==
  ASSUME TInv, UNCHANGED <<env, scene, sampled, live, ended, next, checked>>
  PROVE  LiveInv' /\ Over' = Over
<1>1. /\ Spans' = Spans /\ Pipeline' = Pipeline /\ Workers' = Workers
      /\ \A q : Takes(q)' <=> Takes(q)
  BY Same
<1>2. \A i : Phase(i)' = Phase(i)
  BY DEF Phase
<1>3. LiveInv'
  BY <1>1, <1>2 DEF TInv, LiveInv
<1>4. Over' = Over
  BY <1>1, <1>2 DEF Over
<1> QED
  BY <1>3, <1>4

LEMMA LiveStep == TInv /\ [Next]_vars => LiveInv' /\ Over \subseteq Over'
<1> SUFFICES ASSUME TInv, [Next]_vars PROVE LiveInv' /\ Over \subseteq Over'
  OBVIOUS
<1>1. ASSUME NEW i \in Spans, Start(i) PROVE LiveInv' /\ Over \subseteq Over'
  BY <1>1, StartLive
<1>2. ASSUME NEW i \in Spans, Update(i) PROVE LiveInv' /\ Over \subseteq Over'
  BY <1>2, UpdateLive
<1>3. ASSUME NEW i \in Spans, End(i) PROVE LiveInv' /\ Over \subseteq Over'
  BY <1>3, EndLive
<1>4. ASSUME NEW i \in Spans, OnEnd(i) PROVE LiveInv' /\ Over \subseteq Over'
  <2>1. PICK p \in DOMAIN Pipeline : IF p \in Workers THEN Refuse(i, p) \/ Check(i, p) \/ Enqueue(i, p) ELSE Measure(i, p)
    BY <1>4 DEF OnEnd
  <2> QED
    BY <2>1, OnEndLive
<1>5. ASSUME NEW p \in Workers, Replace(p) PROVE LiveInv' /\ Over \subseteq Over'
  BY <1>5, ReplaceLive
<1>6. ASSUME NEW p \in Workers, Take(p) \/ Generate(p) \/ Process(p) \/ Deliver(p) \/ Fail(p) \/ Exit(p) \/ Shutdown(p)
      PROVE  LiveInv' /\ Over \subseteq Over'
  <2>1. UNCHANGED <<env, scene, sampled, live, ended, next, checked>>
    BY <1>6 DEF Take, Generate, Process, Deliver, Fail, Exit, Shutdown
  <2> QED
    BY <2>1, LiveKept
<1>7. CASE UNCHANGED vars
  <2>1. UNCHANGED <<env, scene, sampled, live, ended, next, checked>>
    BY <1>7 DEF vars
  <2> QED
    BY <2>1, LiveKept
<1> QED
  BY <1>1, <1>2, <1>3, <1>4, <1>5, <1>6, <1>7 DEF Next, Work

-----------------------------------------------------------------------------
(* The batch processors.                                                   *)

(* A step is within the types when it keeps them over the spans that were  *)
(* over before it.                                                         *)
LEMMA WorkMonotone ==
  ASSUME TInv, UNCHANGED <<env, scene, sampled>>, Over \subseteq Over',
         queue' \in [Workers -> Seq(Over)], stage' \in [Workers -> {"up", "done", "exited"}],
         DOMAIN batch' = Workers, DOMAIN sent' = Workers,
         \A p \in Workers :
           /\ Len(queue'[p]) <= QueueSize /\ IsBatch(batch'[p], Over)
           /\ sent'[p] \in Seq(Range(sent'[p])) /\ [n \in DOMAIN sent'[p] |-> sent'[p][n].span] \in Seq(Over),
         lost' \subseteq Workers \X Spans \X Causes
  PROVE  WorkInv'
<1>1. Workers' = Workers /\ Spans' = Spans
  BY Same
<1>2. \A s : s \in Seq(Over) => s \in Seq(Over')
  BY SeqMonotonic
<1>3. queue' \in [Workers -> Seq(Over')]
  BY <1>2
<1>4. \A p \in Workers : IsBatch(batch'[p], Over')
  BY <1>2 DEF IsBatch
<1>5. \A p \in Workers : [n \in DOMAIN sent'[p] |-> sent'[p][n].span] \in Seq(Over')
  BY <1>2
<1> QED
  BY <1>1, <1>3, <1>4, <1>5 DEF WorkInv, SentSpans

LEMMA WorkKept ==
  ASSUME TInv, UNCHANGED <<env, scene, sampled, queue, batch, stage, sent>>, Over \subseteq Over',
         lost' \subseteq Workers \X Spans \X Causes
  PROVE  WorkInv'
<1>1. \A p \in Workers : [n \in DOMAIN sent[p] |-> sent[p][n].span] \in Seq(Over)
  BY DEF TInv, WorkInv, SentSpans
<1> QED
  BY <1>1, WorkMonotone DEF TInv, WorkInv

LEMMA WorkQueue ==
  ASSUME TInv, UNCHANGED <<env, scene, sampled, batch, stage, sent>>, Over \subseteq Over',
         NEW p \in Workers, NEW q \in Seq(Over), Len(q) <= QueueSize, queue' = [queue EXCEPT ![p] = q],
         lost' \subseteq Workers \X Spans \X Causes
  PROVE  WorkInv'
<1>1. queue' \in [Workers -> Seq(Over)] /\ \A r \in Workers : Len(queue'[r]) <= QueueSize
  BY DEF TInv, WorkInv
<1>2. \A r \in Workers : [n \in DOMAIN sent[r] |-> sent[r][n].span] \in Seq(Over)
  BY DEF TInv, WorkInv, SentSpans
<1> QED
  BY <1>1, <1>2, WorkMonotone DEF TInv, WorkInv

LEMMA WorkBatch ==
  ASSUME TInv, UNCHANGED <<env, scene, sampled, stage>>, Over \subseteq Over',
         NEW p \in Workers, NEW b, IsBatch(b, Over), batch' = [batch EXCEPT ![p] = b],
         queue' \in [Workers -> Seq(Over)], \A r \in Workers : Len(queue'[r]) <= QueueSize,
         DOMAIN sent' = Workers,
         \A r \in Workers : sent'[r] \in Seq(Range(sent'[r])) /\ [n \in DOMAIN sent'[r] |-> sent'[r][n].span] \in Seq(Over),
         lost' \subseteq Workers \X Spans \X Causes
  PROVE  WorkInv'
<1>1. DOMAIN batch' = Workers /\ \A r \in Workers : IsBatch(batch'[r], Over)
  BY DEF TInv, WorkInv
<1> QED
  BY <1>1, WorkMonotone DEF TInv, WorkInv

LEMMA IdleBatch == \A S : IsBatch(Idle, S)
  BY EmptySeq, PipelineAssumption DEF IsBatch, Idle


LEMMA LostMore ==
  ASSUME TInv, NEW p \in Workers, NEW i \in Spans, NEW cause \in Causes
  PROVE  lost \cup {<<p, i, cause>>} \subseteq Workers \X Spans \X Causes
BY DEF TInv, WorkInv

LEMMA OnEndWork ==
  ASSUME TInv, NEW i \in Spans, NEW p \in DOMAIN Pipeline,
         IF p \in Workers THEN Refuse(i, p) \/ Check(i, p) \/ Enqueue(i, p) ELSE Measure(i, p)
  PROVE  WorkInv'
<1>1. Over' = Over /\ i \in Over
  BY OnEndLive, OnEndFacts
<1>2. CASE Check(i, p) \/ Measure(i, p)
  BY <1>1, <1>2, WorkKept DEF Check, Measure, TInv, WorkInv
<1>3. CASE p \in Workers /\ Refuse(i, p)
  <2>1. lost' \subseteq Workers \X Spans \X Causes
    <3>1. "shut down" \in Causes
      BY DEF Causes
    <3>2. lost' = lost \/ lost' = lost \cup {<<p, i, "shut down">>}
      BY <1>3 DEF Refuse
    <3> QED
      BY <1>3, <3>1, <3>2, LostMore DEF TInv, WorkInv
  <2> QED
    BY <1>1, <1>3, <2>1, WorkKept DEF Refuse
<1>4. CASE p \in Workers /\ Enqueue(i, p)
  <2>1. CASE stage[p] = "exited"
    <3>1. lost' = lost \cup {<<p, i, "late">>} /\ UNCHANGED <<env, scene, sampled, queue, batch, stage, sent>>
      BY <1>4, <2>1 DEF Enqueue
    <3>2. lost' \subseteq Workers \X Spans \X Causes
      <4>1. "late" \in Causes
        BY DEF Causes
      <4> QED
        BY <1>4, <3>1, <4>1, LostMore
    <3> QED
      BY <1>1, <3>1, <3>2, WorkKept
  <2>2. CASE stage[p] # "exited"
    <3> DEFINE rest == IF Len(queue[p]) = QueueSize THEN Tail(queue[p]) ELSE queue[p]
    <3>1. /\ queue' = [queue EXCEPT ![p] = Append(rest, i)]
          /\ lost' = IF Len(queue[p]) = QueueSize THEN lost \cup {<<p, Head(queue[p]), "overflow">>} ELSE lost
          /\ UNCHANGED <<env, scene, sampled, batch, stage, sent>>
      BY <1>4, <2>2 DEF Enqueue, TInv, WorkInv
    <3>2. queue[p] \in Seq(Over) /\ Len(queue[p]) \in Nat /\ Len(queue[p]) <= QueueSize
      BY <1>4, LenProperties DEF TInv, WorkInv
    <3>3. /\ rest \in Seq(Over) /\ Len(rest) < QueueSize
          /\ Len(queue[p]) = QueueSize => Head(queue[p]) \in Spans
      <4>1. CASE Len(queue[p]) = QueueSize
        <5>1. queue[p] # <<>>
          BY <4>1, EmptySeq, PipelineAssumption
        <5>2. Head(queue[p]) \in Over /\ Tail(queue[p]) \in Seq(Over) /\ Len(Tail(queue[p])) = Len(queue[p]) - 1
          BY <3>2, <5>1, CountTail
        <5> QED
          BY <3>2, <4>1, <5>2 DEF Over
      <4>2. CASE Len(queue[p]) # QueueSize
        BY <3>2, <4>2, PipelineAssumption
      <4> QED
        BY <4>1, <4>2
    <3> HIDE DEF rest
    <3>4. Append(rest, i) \in Seq(Over) /\ Len(Append(rest, i)) <= QueueSize
      BY <1>1, <3>3, AppendProperties, LenProperties, PipelineAssumption
    <3>5. lost' \subseteq Workers \X Spans \X Causes
      <4>1. "overflow" \in Causes
        BY DEF Causes
      <4>2. CASE Len(queue[p]) = QueueSize
        <5>1. lost \cup {<<p, Head(queue[p]), "overflow">>} \subseteq Workers \X Spans \X Causes
          BY <1>4, <3>3, <4>1, <4>2, LostMore
        <5> QED
          BY <3>1, <4>2, <5>1
      <4>3. CASE Len(queue[p]) # QueueSize
        BY <3>1, <4>3 DEF TInv, WorkInv
      <4> QED
        BY <4>2, <4>3
    <3> QED
      BY <1>1, <1>4, <3>1, <3>4, <3>5, WorkQueue
  <2> QED
    BY <2>1, <2>2
<1> QED
  BY <1>2, <1>3, <1>4

LEMMA TakeWork == ASSUME TInv, NEW p \in Workers, Take(p) PROVE WorkInv'
<1> DEFINE n == IF Len(queue[p]) < BatchSize THEN Len(queue[p]) ELSE BatchSize
           b == [Idle EXCEPT !.spans = SubSeq(queue[p], 1, n)]
           rest == SubSeq(queue[p], n + 1, Len(queue[p]))
<1>1. queue[p] \in Seq(Over) /\ Len(queue[p]) \in Nat /\ Len(queue[p]) <= QueueSize
  BY LenProperties DEF TInv, WorkInv
<1>2. n \in 0..Len(queue[p]) /\ n <= BatchSize
  BY <1>1, PipelineAssumption
<1>3. /\ batch' = [batch EXCEPT ![p] = b] /\ queue' = [queue EXCEPT ![p] = rest]
      /\ UNCHANGED <<env, scene, sampled, live, ended, next, checked, stage, sent, lost>>
  BY DEF Take, TInv, WorkInv
<1> HIDE DEF n
<1>4. /\ SubSeq(queue[p], 1, n) \in Seq(Over) /\ Len(SubSeq(queue[p], 1, n)) = n
      /\ rest \in Seq(Over) /\ Len(rest) = Len(queue[p]) - n
  BY <1>1, <1>2, CountSplit
<1>5. IsBatch(b, Over)
  BY <1>2, <1>4 DEF IsBatch, Idle
<1> HIDE DEF b, rest
<1>6. Over' = Over
  BY <1>3, LiveKept
<1>7. queue' \in [Workers -> Seq(Over)] /\ \A r \in Workers : Len(queue'[r]) <= QueueSize
  <2>1. queue \in [Workers -> Seq(Over)] /\ \A r \in Workers : Len(queue[r]) <= QueueSize
    BY DEF TInv, WorkInv
  <2>2. Len(rest) <= QueueSize
    BY <1>1, <1>2, <1>4, PipelineAssumption
  <2> QED
    BY <1>3, <1>4, <2>1, <2>2
<1>8. \A r \in Workers : [m \in DOMAIN sent[r] |-> sent[r][m].span] \in Seq(Over)
  BY DEF TInv, WorkInv, SentSpans
<1> QED
  BY ZenonT(60), <1>3, <1>5, <1>6, <1>7, <1>8, WorkBatch DEF TInv, WorkInv

(* The batch changes, not its spans.                                       *)
LEMMA BatchWork ==
  ASSUME TInv, NEW p \in Workers, NEW b, IsBatch(b, Over), batch' = [batch EXCEPT ![p] = b], Over \subseteq Over',
         UNCHANGED <<env, scene, sampled, queue, stage, sent>>,
         lost' \subseteq Workers \X Spans \X Causes
  PROVE  WorkInv'
<1>1. \A r \in Workers : [m \in DOMAIN sent[r] |-> sent[r][m].span] \in Seq(Over)
  BY DEF TInv, WorkInv, SentSpans
<1> QED
  BY <1>1, WorkBatch DEF TInv, WorkInv

LEMMA LoseWork ==
  ASSUME TInv, NEW p \in Workers, NEW cause \in Causes, Lose(p, cause), Over \subseteq Over',
         UNCHANGED <<env, scene, sampled, queue, stage, sent>>
  PROVE  WorkInv'
<1>1. batch[p].spans \in Seq(Over)
  BY DEF TInv, WorkInv, IsBatch
<1>2. \A n \in DOMAIN batch[p].spans : batch[p].spans[n] \in Spans
  BY <1>1, ElementOfSeq, LenProperties DEF Over
<1>3. lost' \subseteq Workers \X Spans \X Causes
  BY <1>2 DEF Lose, TInv, WorkInv
<1>4. batch' = [batch EXCEPT ![p] = Idle] /\ IsBatch(Idle, Over)
  BY IdleBatch DEF Lose
<1> QED
  BY <1>3, <1>4, BatchWork

(* The next span, or the same one in its other step.                       *)
LEMMA BatchSteps ==
  ASSUME NEW S, NEW b, IsBatch(b, S)
  PROVE  /\ IsBatch(Advance(b), S) /\ Advance(b).spans = b.spans
         /\ \A attrs : b.at <= Len(b.spans) =>
              LET c == [[b EXCEPT !.step = "write"] EXCEPT !.attrs = attrs] IN IsBatch(c, S) /\ c.spans = b.spans
<1>1. Len(b.spans) \in Nat /\ DOMAIN b.spans = 1..Len(b.spans)
  BY LenProperties DEF IsBatch
<1>2. /\ DOMAIN Advance(b) = DOMAIN b /\ Advance(b).spans = b.spans
      /\ Advance(b).at = b.at + 1 /\ Advance(b).step = "read"
  BY DEF IsBatch, Advance
<1>3. IsBatch(Advance(b), S)
  BY <1>2 DEF IsBatch
<1>4. ASSUME NEW attrs, b.at <= Len(b.spans)
      PROVE  LET c == [[b EXCEPT !.step = "write"] EXCEPT !.attrs = attrs] IN IsBatch(c, S) /\ c.spans = b.spans
  <2> DEFINE c == [[b EXCEPT !.step = "write"] EXCEPT !.attrs = attrs]
  <2>1. DOMAIN c = DOMAIN b /\ c.spans = b.spans /\ c.at = b.at /\ c.step = "write"
    BY DEF IsBatch
  <2> HIDE DEF c
  <2>2. IsBatch(c, S)
    BY <1>1, <1>4, <2>1 DEF IsBatch
  <2> QED
    BY <2>1, <2>2 DEF c
<1> QED
  BY <1>2, <1>3, <1>4

(* An exporter at work, or failing: it keeps the spans of its batch, or    *)
(* loses all of them.                                                      *)
LEMMA ExportFacts ==
  ASSUME TInv, NEW p \in Workers, Generate(p) \/ Process(p) \/ Replace(p) \/ Fail(p)
  PROVE  /\ UNCHANGED <<env, scene, sampled, live, next, checked, queue, stage, sent>>
         /\ \/ \E cause \in Causes : Lose(p, cause)
            \/ /\ UNCHANGED lost
               /\ \E b : IsBatch(b, Over) /\ b.spans = batch[p].spans /\ batch' = [batch EXCEPT ![p] = b]
<1>1. IsBatch(batch[p], Over) /\ DOMAIN batch = Workers
  BY DEF TInv, WorkInv
<1>2. IsBatch(Advance(batch[p]), Over) /\ Advance(batch[p]).spans = batch[p].spans
  BY <1>1, BatchSteps
<1>3. ASSUME ~Prepared(p), NEW attrs
      PROVE  LET b == [[batch[p] EXCEPT !.step = "write"] EXCEPT !.attrs = attrs] IN IsBatch(b, Over) /\ b.spans = batch[p].spans
  <2>1. batch[p].at <= Len(batch[p].spans)
    BY <1>1, <1>3, LenProperties DEF Prepared, IsBatch
  <2> QED
    BY <1>1, <2>1, BatchSteps
<1>4. CASE Generate(p)
  <2>1. ~Prepared(p) /\ UNCHANGED <<env, scene, sampled, live, next, checked, queue, stage, sent>>
    BY <1>4 DEF Generate
  <2>2. PICK s : IF Raises(s) THEN Lose(p, "raised")
                 ELSE /\ \E attrs : batch' = [batch EXCEPT ![p] = IF attrs = None THEN Advance(@)
                                                 ELSE [[@ EXCEPT !.step = "write"] EXCEPT !.attrs = attrs ++ s.attrs]]
                      /\ UNCHANGED lost
    BY <1>4 DEF Generate
  <2>3. "raised" \in Causes
    BY DEF Causes
  <2>4. CASE Raises(s)
    BY <2>1, <2>2, <2>3, <2>4
  <2>5. CASE ~Raises(s)
    <3>1. PICK attrs : batch' = [batch EXCEPT ![p] = IF attrs = None THEN Advance(@)
                                                 ELSE [[@ EXCEPT !.step = "write"] EXCEPT !.attrs = attrs ++ s.attrs]]
      BY <2>2, <2>5
    <3> DEFINE new == attrs ++ s.attrs
               b == [[batch[p] EXCEPT !.step = "write"] EXCEPT !.attrs = new]
    <3>2. batch' = [batch EXCEPT ![p] = IF attrs = None THEN Advance(batch[p]) ELSE b]
      BY <1>1, <3>1
    <3>3. IsBatch(b, Over) /\ b.spans = batch[p].spans
      <4> HIDE DEF new
      <4> QED
        BY <1>3, <2>1
    <3> HIDE DEF b, new
    <3> QED
      BY <1>2, <2>1, <2>2, <2>5, <3>2, <3>3
  <2> QED
    BY <2>4, <2>5
<1>5. CASE Process(p)
  <2>1. ~Prepared(p) /\ UNCHANGED <<env, scene, sampled, live, next, checked, queue, stage, sent, lost>>
    BY <1>5 DEF Process
  <2>2. PICK attrs : batch' = [batch EXCEPT ![p] = [[batch[p] EXCEPT !.step = "write"] EXCEPT !.attrs = attrs]]
    BY <1>1, <1>5 DEF Process
  <2> QED
    BY <1>3, <2>1, <2>2
<1>6. CASE Replace(p)
  BY <1>1, <1>2, <1>6 DEF Replace
<1>7. CASE Fail(p)
  <2>1. "failed" \in Causes
    BY DEF Causes
  <2> QED
    BY <1>7, <2>1 DEF Fail
<1> QED
  BY <1>4, <1>5, <1>6, <1>7

LEMMA ExportWork ==
  ASSUME TInv, NEW p \in Workers, Generate(p) \/ Process(p) \/ Replace(p) \/ Fail(p), Over \subseteq Over'
  PROVE  WorkInv'
<1>1. UNCHANGED <<env, scene, sampled, queue, stage, sent>>
  BY ExportFacts
<1>2. ASSUME NEW cause \in Causes, Lose(p, cause) PROVE WorkInv'
  BY <1>1, <1>2, LoseWork
<1>3. ASSUME UNCHANGED lost, NEW b, IsBatch(b, Over), batch' = [batch EXCEPT ![p] = b] PROVE WorkInv'
  <2>1. lost' \subseteq Workers \X Spans \X Causes
    BY <1>3 DEF TInv, WorkInv
  <2> QED
    BY <1>1, <1>3, <2>1, BatchWork
<1> QED
  BY <1>2, <1>3, ExportFacts

(* What is delivered are the spans of the batch.                           *)
LEMMA DeliverFacts ==
  ASSUME TInv, NEW p \in Workers, Deliver(p)
  PROVE  /\ UNCHANGED <<env, scene, sampled, live, ended, next, checked, queue, stage, lost>>
         /\ batch' = [batch EXCEPT ![p] = Idle] /\ DOMAIN sent' = Workers
         /\ \A r \in Workers : r # p => sent'[r] = sent[r]
         /\ sent'[p] \in Seq(Range(sent'[p]))
         /\ [n \in DOMAIN sent'[p] |-> sent'[p][n].span] = SentSpans(p) \o batch[p].spans
<1> DEFINE s == sent[p]
           b == batch[p].spans
           t == [n \in DOMAIN b |-> Delivery(b[n])]
           S == Range(s) \cup Range(t)
<1>1. s \in Seq(Range(s)) /\ SentSpans(p) \in Seq(Over) /\ b \in Seq(Over) /\ DOMAIN sent = Workers
  BY DEF TInv, WorkInv, IsBatch
<1>2. Len(b) \in Nat /\ DOMAIN b = 1..Len(b)
  BY <1>1, LenProperties
<1>3. t \in Seq(Range(t)) /\ Len(t) = Len(b) /\ \A n \in 1..Len(b) : t[n].span = b[n]
  <2>1. DOMAIN t = 1..Len(b) /\ \A n \in 1..Len(b) : t[n] \in Range(t)
    BY <1>2 DEF Range
  <2>2. t \in [1..Len(b) -> Range(t)]
    BY <2>1
  <2>3. \A n \in 1..Len(b) : t[n].span = b[n]
    BY <1>2 DEF Delivery
  <2> HIDE DEF t
  <2> QED
    BY <1>2, <2>2, <2>3, SeqDef, LenProperties
<1>4. sent' = [sent EXCEPT ![p] = s \o t] /\ sent'[p] = s \o t
  BY <1>1 DEF Deliver
<1> HIDE DEF t, b, s
<1>5. s \in Seq(S) /\ t \in Seq(S)
  BY <1>1, <1>3, SeqMonotonic
<1> HIDE DEF S
<1>6. /\ s \o t \in Seq(S) /\ Len(s \o t) = Len(s) + Len(t)
      /\ \A n \in 1..(Len(s) + Len(t)) : (s \o t)[n] = IF n <= Len(s) THEN s[n] ELSE t[n - Len(s)]
      /\ Len(s) \in Nat /\ DOMAIN s = 1..Len(s)
      /\ DOMAIN (s \o t) = 1..(Len(s) + Len(t))
  BY <1>5, ConcatProperties, LenProperties
<1>7. s \o t \in Seq(Range(s \o t))
  <2> DEFINE u == s \o t
  <2>1. u \in [1..Len(u) -> S] /\ Len(u) \in Nat /\ DOMAIN u = 1..Len(u)
    BY <1>6, LenProperties
  <2> HIDE DEF u
  <2>3. \A n \in 1..Len(u) : u[n] \in Range(u)
    BY <2>1 DEF Range
  <2>2. u \in Seq(Range(u))
    BY <2>1, <2>3, SeqDef
  <2> QED
    BY <2>2 DEF u
<1>8. [n \in DOMAIN (s \o t) |-> (s \o t)[n].span] = SentSpans(p) \o b
  <2> DEFINE u == s \o t
             x == [n \in DOMAIN u |-> u[n].span]
             y == SentSpans(p) \o b
  <2>1. /\ DOMAIN SentSpans(p) = 1..Len(s) /\ Len(SentSpans(p)) = Len(s)
        /\ \A n \in 1..Len(s) : SentSpans(p)[n] = s[n].span
    BY <1>1, <1>6, LenProperties DEF SentSpans, s
  <2>2. /\ y \in Seq(Over) /\ Len(y) = Len(s) + Len(b) /\ DOMAIN y = 1..(Len(s) + Len(b))
        /\ \A n \in 1..(Len(s) + Len(b)) : y[n] = IF n <= Len(s) THEN SentSpans(p)[n] ELSE b[n - Len(s)]
    <3>1. /\ y \in Seq(Over) /\ Len(y) = Len(SentSpans(p)) + Len(b)
          /\ \A n \in 1..(Len(SentSpans(p)) + Len(b)) :
               y[n] = IF n <= Len(SentSpans(p)) THEN SentSpans(p)[n] ELSE b[n - Len(SentSpans(p))]
      BY <1>1, ConcatProperties
    <3>2. DOMAIN y = 1..Len(y)
      BY <3>1, LenProperties
    <3> QED
      BY <2>1, <3>1, <3>2
  <2>3. DOMAIN u = DOMAIN y
    BY <1>3, <1>6, <2>2
  <2>4. \A n \in DOMAIN y : u[n].span = y[n]
    <3> SUFFICES ASSUME NEW n \in 1..(Len(s) + Len(b)) PROVE u[n].span = y[n]
      BY <2>2
    <3>1. CASE n <= Len(s)
      BY <1>3, <1>6, <2>1, <2>2, <3>1
    <3>2. CASE ~(n <= Len(s))
      <4>1. n - Len(s) \in 1..Len(b)
        BY <1>2, <1>6, <3>2
      <4>2. u[n] = t[n - Len(s)] /\ y[n] = b[n - Len(s)]
        BY <1>3, <1>6, <2>2, <3>2
      <4> QED
        BY <1>3, <4>1, <4>2
    <3> QED
      BY <3>1, <3>2
  <2>5. x = [n \in DOMAIN y |-> y[n]] /\ y = [n \in DOMAIN y |-> y[n]]
    <3> HIDE DEF u
    <3>1. y = [n \in DOMAIN y |-> y[n]]
      <4>1. y \in [1..Len(y) -> Over]
        BY <2>2, LenProperties
      <4> HIDE DEF y
      <4> QED
        BY <4>1
    <3> HIDE DEF y
    <3> QED
      BY <2>3, <2>4, <3>1
  <2> QED
    BY <2>5
<1> QED
  BY <1>1, <1>4, <1>7, <1>8 DEF Deliver, s, b

LEMMA DeliverWork == ASSUME TInv, NEW p \in Workers, Deliver(p) PROVE WorkInv'
<1>1. /\ UNCHANGED <<env, scene, sampled, live, ended, next, checked, queue, stage, lost>>
      /\ batch' = [batch EXCEPT ![p] = Idle] /\ DOMAIN sent' = Workers
      /\ \A r \in Workers : r # p => sent'[r] = sent[r]
      /\ sent'[p] \in Seq(Range(sent'[p]))
      /\ [n \in DOMAIN sent'[p] |-> sent'[p][n].span] = SentSpans(p) \o batch[p].spans
  BY DeliverFacts
<1>2. Over' = Over
  BY <1>1, LiveKept
<1>3. SentSpans(p) \o batch[p].spans \in Seq(Over)
  BY ConcatProperties DEF TInv, WorkInv, IsBatch
<1>4. ASSUME NEW r \in Workers
      PROVE  sent'[r] \in Seq(Range(sent'[r])) /\ [n \in DOMAIN sent'[r] |-> sent'[r][n].span] \in Seq(Over)
  <2>1. CASE r = p
    BY <1>1, <1>3, <2>1, Zenon
  <2>2. CASE r # p
    <3>1. sent[r] \in Seq(Range(sent[r])) /\ [n \in DOMAIN sent[r] |-> sent[r][n].span] \in Seq(Over)
      BY DEF TInv, WorkInv, SentSpans
    <3>2. sent'[r] = sent[r]
      BY <1>1, <2>2
    <3> QED
      BY <3>1, <3>2, Zenon
  <2> QED
    BY <2>1, <2>2
<1>5. IsBatch(Idle, Over)
  BY IdleBatch
<1> QED
  BY <1>1, <1>2, <1>4, <1>5, WorkBatch DEF TInv, WorkInv

LEMMA TypesStep == TInv /\ [Next]_vars => TInv'
<1> SUFFICES ASSUME TInv, [Next]_vars PROVE TInv'
  OBVIOUS
<1>1. SetupInv' /\ LiveInv' /\ Over \subseteq Over'
  BY SetupKept, Same, LiveStep DEF TInv
<1>2. ASSUME NEW i \in Spans, Start(i) \/ Update(i) \/ End(i) PROVE WorkInv'
  <2>1. UNCHANGED <<env, scene, sampled, queue, batch, stage, sent, lost>>
    BY <1>2 DEF Start, Update, End
  <2> QED
    BY <1>1, <2>1, WorkKept DEF TInv, WorkInv
<1>3. ASSUME NEW i \in Spans, OnEnd(i) PROVE WorkInv'
  <2>1. PICK p \in DOMAIN Pipeline : IF p \in Workers THEN Refuse(i, p) \/ Check(i, p) \/ Enqueue(i, p) ELSE Measure(i, p)
    BY <1>3 DEF OnEnd
  <2> QED
    BY <2>1, OnEndWork
<1>4. ASSUME NEW p \in Workers, Work(p) PROVE WorkInv'
  <2>1. CASE Exit(p)
    <3>1. stage' \in [Workers -> {"up", "done", "exited"}] /\ UNCHANGED <<env, scene, sampled, queue, batch, sent, lost>>
      BY <2>1 DEF Exit, TInv, WorkInv
    <3>2. \A r \in Workers : [n \in DOMAIN sent[r] |-> sent[r][n].span] \in Seq(Over)
      BY DEF TInv, WorkInv, SentSpans
    <3> QED
      BY <1>1, <3>1, <3>2, WorkMonotone DEF TInv, WorkInv
  <2>2. CASE Generate(p) \/ Process(p) \/ Replace(p) \/ Fail(p)
    BY <1>1, <2>2, ExportWork
  <2> QED
    BY <1>4, <2>1, <2>2, TakeWork, DeliverWork DEF Work
<1>5. ASSUME NEW p \in Workers, Shutdown(p) PROVE WorkInv'
  <2>1. stage' \in [Workers -> {"up", "done", "exited"}] /\ UNCHANGED <<env, scene, sampled, queue, batch, sent, lost>>
    BY <1>5 DEF Shutdown, TInv, WorkInv
  <2>2. \A r \in Workers : [n \in DOMAIN sent[r] |-> sent[r][n].span] \in Seq(Over)
    BY DEF TInv, WorkInv, SentSpans
  <2> QED
    BY <1>1, <2>1, <2>2, WorkMonotone DEF TInv, WorkInv
<1>6. CASE UNCHANGED vars
  BY <1>1, <1>6, WorkKept DEF vars, TInv, WorkInv
<1> QED
  BY <1>1, <1>2, <1>3, <1>4, <1>5, <1>6 DEF Next, TInv

LEMMA Types == Spec => []TInv
<1>1. TInv /\ [Next]_vars => TInv'
  BY TypesStep
<1> QED
  BY TInit, <1>1, PTL DEF Spec

(* Every variable has its type, and what a worker has in hand is in its    *)
(* batch: for any environments and scenes, queue and batch sizes.          *)
THEOREM TypeCorrect == Spec => []TypeOK
<1>1. TInv => TypeOK
  <2> SUFFICES ASSUME TInv PROVE TypeOK
    OBVIOUS
  <2>1. Over \subseteq Spans
    BY DEF Over
  <2>2. queue \in [Workers -> Seq(Spans)]
    BY <2>1, SeqMonotonic DEF TInv, WorkInv
  <2>3. \A i \in Spans : (ended[i] = NoSpan) <=> (Phase(i) # "over")
    BY DEF TInv, LiveInv, NoSpan
  <2>4. \A p \in Workers : /\ Len(queue[p]) <= QueueSize /\ Len(batch[p].spans) <= BatchSize
                           /\ batch[p].step = "write" => batch[p].at \in DOMAIN batch[p].spans
    BY DEF TInv, WorkInv, IsBatch
  <2> QED
    BY <2>2, <2>3, <2>4 DEF TypeOK, TInv, SetupInv, LiveInv, WorkInv
<1> QED
  BY Types, <1>1, PTL

-----------------------------------------------------------------------------
(* Each span once.                                                         *)

Losses(L, p, i) == { cause \in Causes : <<p, i, cause>> \in L }

LEMMA LossFacts ==
  ASSUME NEW L, NEW p, NEW i
  PROVE  /\ IsFiniteSet(Losses(L, p, i)) /\ Cardinality(Losses(L, p, i)) \in Nat
         /\ Cardinality(Losses(L, p, i)) = 0 => \A cause \in Causes : <<p, i, cause>> \notin L
<1>1. IsFiniteSet(Causes)
  <2>1. Causes = {"shut down"} \cup ({"late"} \cup ({"overflow"} \cup ({"raised"} \cup {"failed"})))
    BY DEF Causes
  <2>2. IsFiniteSet({"shut down"}) /\ IsFiniteSet({"late"}) /\ IsFiniteSet({"overflow"}) /\ IsFiniteSet({"raised"}) /\ IsFiniteSet({"failed"})
    BY FS_Singleton
  <2> QED
    BY <2>1, <2>2, FS_Union
<1>2. IsFiniteSet(Losses(L, p, i))
  BY <1>1, FS_Subset DEF Losses
<1> QED
  BY <1>2, FS_CardinalityType, FS_EmptySet DEF Losses

LoseAlso(M, L, p, cause, A) ==
  \A q, i, c : <<q, i, c>> \in M <=> <<q, i, c>> \in L \/ (q = p /\ i \in A /\ c = cause)

(* A cause that is new for a span adds one to it.                          *)
LEMMA LossMore ==
  ASSUME NEW L, NEW p, NEW cause \in Causes, NEW A, NEW M, LoseAlso(M, L, p, cause, A)
  PROVE  \A q, i : Cardinality(Losses(M, q, i)) =
           Cardinality(Losses(L, q, i)) + IF q = p /\ i \in A /\ <<p, i, cause>> \notin L THEN 1 ELSE 0
<1> SUFFICES ASSUME NEW q, NEW i
             PROVE  Cardinality(Losses(M, q, i)) =
                      Cardinality(Losses(L, q, i)) + IF q = p /\ i \in A /\ <<p, i, cause>> \notin L THEN 1 ELSE 0
  OBVIOUS
<1>1. IsFiniteSet(Losses(L, q, i)) /\ Cardinality(Losses(L, q, i)) \in Nat
  BY LossFacts
<1>2. CASE q = p /\ i \in A /\ <<p, i, cause>> \notin L
  <2>1. Losses(M, q, i) = Losses(L, q, i) \cup {cause} /\ cause \notin Losses(L, q, i)
    BY <1>2 DEF Losses, LoseAlso
  <2>2. Cardinality(Losses(L, q, i) \cup {cause}) = Cardinality(Losses(L, q, i)) + 1
    BY <1>1, <2>1, FS_AddElement
  <2> QED
    BY <1>2, <2>1, <2>2
<1>3. CASE ~(q = p /\ i \in A /\ <<p, i, cause>> \notin L)
  <2>1. Losses(M, q, i) = Losses(L, q, i)
    BY <1>3 DEF Losses, LoseAlso
  <2> QED
    BY <1>1, <1>3, <2>1
<1> QED
  BY <1>2, <1>3

LEMMA LossOne ==
  ASSUME NEW L, NEW p, NEW j, NEW cause \in Causes, NEW q, NEW i
  PROVE  Cardinality(Losses(L \cup {<<p, j, cause>>}, q, i)) =
           Cardinality(Losses(L, q, i)) + IF q = p /\ i = j /\ <<p, j, cause>> \notin L THEN 1 ELSE 0
<1> DEFINE A == {j}
           M == L \cup {<<p, j, cause>>}
<1>1. (i \in A <=> i = j)
      /\ LoseAlso(M, L, p, cause, A)
  BY DEF LoseAlso
<1> HIDE DEF A, M
<1>2. Cardinality(Losses(M, q, i)) =
        Cardinality(Losses(L, q, i)) + IF q = p /\ i \in A /\ <<p, i, cause>> \notin L THEN 1 ELSE 0
  BY <1>1, LossMore
<1>3. Cardinality(Losses(L, q, i)) \in Nat
  BY LossFacts
<1>4. CASE q = p /\ i = j /\ <<p, j, cause>> \notin L
  BY <1>1, <1>2, <1>3, <1>4 DEF M
<1>5. CASE ~(q = p /\ i = j /\ <<p, j, cause>> \notin L)
  BY <1>1, <1>2, <1>3, <1>5 DEF M
<1> QED
  BY <1>4, <1>5

(* The spans that a processor has, of a queue, a batch and what is sent.   *)
Tally(p, i, q, b, s, L) ==
  Count(q, i) + Count(b, i) + Count(s, i) + Cardinality(Losses(L, p, i))

LEMMA TimesTally ==
  /\ \A p, i : Times(p, i) = Tally(p, i, queue[p], batch[p].spans, SentSpans(p), lost)
  /\ \A p, i : Times(p, i)' = Tally(p, i, queue'[p], batch'[p].spans, [n \in DOMAIN sent'[p] |-> sent'[p][n].span], lost')
<1>1. \A s, i : { n \in DOMAIN s : s[n].span = i } = { n \in DOMAIN [m \in DOMAIN s |-> s[m].span] : [m \in DOMAIN s |-> s[m].span][n] = i }
  OBVIOUS
<1> QED
  BY <1>1 DEF Times, Tally, Count, Losses, SentSpans

LEMMA TallyFacts ==
  ASSUME TInv, NEW p \in Workers, NEW i
  PROVE  /\ queue[p] \in Seq(Over) /\ batch[p].spans \in Seq(Over) /\ SentSpans(p) \in Seq(Over)
         /\ Count(queue[p], i) \in Nat /\ Count(batch[p].spans, i) \in Nat /\ Count(SentSpans(p), i) \in Nat
         /\ Cardinality(Losses(lost, p, i)) \in Nat
<1>1. queue[p] \in Seq(Over) /\ batch[p].spans \in Seq(Over) /\ SentSpans(p) \in Seq(Over)
  BY DEF TInv, WorkInv, IsBatch
<1> QED
  BY <1>1, CountFacts, LossFacts

Due(p, i) == IF Takes(p) /\ next[i] > p THEN 1 ELSE 0

(* A processor that keeps queue, batch, sent and lost spans, and whose     *)
(* place in the endings stays.                                             *)
LEMMA TimesKept ==
  ASSUME Conserved, UNCHANGED <<env, scene, sampled>>, NEW p \in Workers, NEW i \in Spans,
         queue'[p] = queue[p], batch'[p].spans = batch[p].spans, sent'[p] = sent[p],
         Cardinality(Losses(lost', p, i)) = Cardinality(Losses(lost, p, i)),
         next'[i] > p <=> next[i] > p
  PROVE  Times(p, i)' = Due(p, i)'
<1>1. Times(p, i) = Due(p, i)
  BY DEF Conserved, Due
<1>2. Due(p, i)' = Due(p, i)
  BY Same DEF Due
<1>3. Times(p, i)' = Times(p, i)
  <2>1. [n \in DOMAIN sent'[p] |-> sent'[p][n].span] = SentSpans(p)
    BY DEF SentSpans
  <2>2. Times(p, i) = Tally(p, i, queue[p], batch[p].spans, SentSpans(p), lost)
    BY TimesTally
  <2>3. Times(p, i)' = Tally(p, i, queue'[p], batch'[p].spans, [n \in DOMAIN sent'[p] |-> sent'[p][n].span], lost')
    BY TimesTally
  <2> QED
    BY <2>1, <2>2, <2>3 DEF Tally
<1> QED
  BY <1>1, <1>2, <1>3

(* The ending of a span goes from a processor to the one after it.         *)
LEMMA Passed ==
  ASSUME TInv, NEW i \in Spans, NEW p \in DOMAIN Pipeline,
         Refuse(i, p) \/ Enqueue(i, p) \/ Measure(i, p)
  PROVE  /\ ~(next[i] > p) /\ next'[i] > p
         /\ \A q \in Workers, j \in Spans : (q # p \/ j # i) => (next'[j] > q <=> next[j] > q)
<1>1. next[i] = p /\ p \in 1..Len(Pipeline) /\ After(p) > p /\ \A q \in Workers : After(p) > q <=> q <= p
  BY OnEndFacts
<1>2. next' = [next EXCEPT ![i] = After(p)]
  BY DEF Refuse, Enqueue, Measure, At
<1>3. DOMAIN next = Spans /\ Workers \subseteq Nat /\ Len(Pipeline) \in Nat
  BY PipelineFacts DEF TInv, LiveInv
<1>4. next'[i] = After(p) /\ \A j \in Spans : j # i => next'[j] = next[j]
  BY <1>2, <1>3
<1>5. \A q \in Workers : q # p => (After(p) > q <=> p > q)
  BY <1>1, <1>3
<1> QED
  BY <1>1, <1>3, <1>4, <1>5

LEMMA SpansConserved ==
  ASSUME TInv, Conserved, NEW n \in Spans, Start(n) \/ Update(n) \/ End(n), NEW p \in Workers, NEW i \in Spans
  PROVE  Times(p, i)' = Due(p, i)'
<1>1. UNCHANGED <<env, scene, sampled, queue, batch, sent, lost>>
  BY DEF Start, Update, End
<1>2. next'[i] > p <=> next[i] > p
  <2>1. CASE Start(n) \/ Update(n)
    BY <2>1 DEF Start, Update
  <2>2. CASE End(n)
    <3>1. next[n] = 0 /\ next' = [next EXCEPT ![n] = After(0)] /\ DOMAIN next = Spans
      BY <2>2, EndLive DEF TInv, LiveInv
    <3>2. p \in 1..Len(Pipeline) /\ Len(Pipeline) \in Nat
      BY PipelineFacts DEF TInv
    <3>3. After(0) > p <=> p <= 0
      BY <3>2, AfterFacts DEF TInv
    <3>4. ~(After(0) > p) /\ ~(0 > p)
      BY <3>2, <3>3
    <3> QED
      BY <3>1, <3>4
  <2> QED
    BY <2>1, <2>2
<1> QED
  BY <1>1, <1>2, TimesKept

(* The span that a processor did not have yet.                             *)
LEMMA NotYet ==
  ASSUME TInv, Conserved, NEW p \in Workers, NEW i \in Spans, ~(next[i] > p)
  PROVE  /\ Count(queue[p], i) = 0 /\ Count(batch[p].spans, i) = 0 /\ Count(SentSpans(p), i) = 0
         /\ Cardinality(Losses(lost, p, i)) = 0 /\ \A cause \in Causes : <<p, i, cause>> \notin lost
<1>1. Times(p, i) = 0
  BY DEF Conserved
<1>2. Times(p, i) = Count(queue[p], i) + Count(batch[p].spans, i) + Count(SentSpans(p), i) + Cardinality(Losses(lost, p, i))
  BY TimesTally DEF Tally
<1> QED
  BY <1>1, <1>2, TallyFacts, LossFacts

(* A batch processor loses the span that ends.                             *)
LEMMA LostConserved ==
  ASSUME TInv, Conserved, NEW n \in Spans, NEW p \in Workers, NEW cause \in Causes,
         Refuse(n, p) \/ Enqueue(n, p), Takes(p), UNCHANGED <<env, scene, sampled, queue, batch, sent>>,
         lost' = lost \cup {<<p, n, cause>>}, NEW q \in Workers, NEW i \in Spans
  PROVE  Times(q, i)' = Due(q, i)'
<1>1. /\ ~(next[n] > p) /\ next'[n] > p
      /\ (q # p \/ i # n) => (next'[i] > q <=> next[i] > q)
  BY Passed DEF Workers
<1>2. Cardinality(Losses(lost', q, i)) =
        Cardinality(Losses(lost, q, i)) + IF q = p /\ i = n /\ <<p, n, cause>> \notin lost THEN 1 ELSE 0
  BY LossOne
<1>3. Cardinality(Losses(lost, q, i)) \in Nat
  BY LossFacts
<1>4. CASE q = p /\ i = n
  <2>1. /\ Count(queue[q], i) = 0 /\ Count(batch[q].spans, i) = 0 /\ Count(SentSpans(q), i) = 0
        /\ Cardinality(Losses(lost, q, i)) = 0 /\ <<p, n, cause>> \notin lost
    BY <1>1, <1>4, NotYet
  <2>2. Cardinality(Losses(lost', q, i)) = 1
    BY <1>2, <1>4, <2>1
  <2>3. Times(q, i)' = Tally(q, i, queue'[q], batch'[q].spans, [m \in DOMAIN sent'[q] |-> sent'[q][m].span], lost')
    BY TimesTally
  <2>4. [m \in DOMAIN sent'[q] |-> sent'[q][m].span] = SentSpans(q) /\ queue'[q] = queue[q] /\ batch'[q].spans = batch[q].spans
    BY DEF SentSpans
  <2>5. Times(q, i)' = 1
    BY <2>1, <2>2, <2>3, <2>4 DEF Tally
  <2>6. Due(q, i)' = 1
    BY <1>1, <1>4, Same DEF Due
  <2> QED
    BY <2>5, <2>6
<1>5. CASE ~(q = p /\ i = n)
  <2>1. Cardinality(Losses(lost', q, i)) = Cardinality(Losses(lost, q, i))
    BY <1>2, <1>3, <1>5
  <2> QED
    BY <1>1, <1>5, <2>1, TimesKept
<1> QED
  BY <1>4, <1>5

(* A span that ends is appended; the first of a full queue is lost.        *)
LEMMA QueuedConserved ==
  ASSUME TInv, Conserved, NEW n \in Spans, NEW p \in Workers, Enqueue(n, p), stage[p] # "exited",
         NEW q \in Workers, NEW i \in Spans
  PROVE  Times(q, i)' = Due(q, i)'
<1> DEFINE full == Len(queue[p]) = QueueSize
           head == Head(queue[p])
           rest == IF full THEN Tail(queue[p]) ELSE queue[p]
           moves == full /\ q = p /\ i = head
<1>1. /\ ~(next[n] > p) /\ next'[n] > p /\ n \in Over
      /\ (q # p \/ i # n) => (next'[i] > q <=> next[i] > q)
  BY Passed, OnEndFacts DEF Workers
<1>2. /\ queue' = [queue EXCEPT ![p] = Append(rest, n)]
      /\ lost' = IF full THEN lost \cup {<<p, head, "overflow">>} ELSE lost
      /\ UNCHANGED <<env, scene, sampled, batch, sent>>
  BY DEF Enqueue, TInv, WorkInv
<1>3. Takes(p)
  BY DEF Enqueue, At, TInv, LiveInv
<1>4. queue[p] \in Seq(Over) /\ DOMAIN queue = Workers /\ (full => queue[p] # <<>>)
  BY EmptySeq, PipelineAssumption DEF TInv, WorkInv
<1>5. /\ rest \in Seq(Over)
      /\ full => Count(queue[p], i) = Count(rest, i) + IF head = i THEN 1 ELSE 0
  BY <1>4, CountTail
<1>6. "overflow" \in Causes
  BY DEF Causes
<1> DEFINE put == IF n = i THEN 1 ELSE 0
           out == IF moves THEN 1 ELSE 0
<1>7. Count(Append(rest, n), i) = Count(rest, i) + put /\ Count(rest, i) \in Nat
  <2> HIDE DEF rest
  <2> QED
    BY <1>1, <1>5, CountAppend, CountFacts
<1>8. CASE q # p
  <2>1. Cardinality(Losses(lost', q, i)) = Cardinality(Losses(lost, q, i))
    <3>1. CASE full
      <4>1. Cardinality(Losses(lost \cup {<<p, head, "overflow">>}, q, i)) =
              Cardinality(Losses(lost, q, i)) + IF q = p /\ i = head /\ <<p, head, "overflow">> \notin lost THEN 1 ELSE 0
        BY <1>6, LossOne
      <4> QED
        BY <1>2, <1>8, <3>1, <4>1, LossFacts
    <3>2. CASE ~full
      BY <1>2, <3>2
    <3> QED
      BY <3>1, <3>2
  <2>2. queue'[q] = queue[q]
    BY <1>2, <1>4, <1>8
  <2> QED
    BY <1>1, <1>2, <1>8, <2>1, <2>2, TimesKept
<1>9. CASE q = p
  <2>1. Cardinality(Losses(lost', q, i)) = Cardinality(Losses(lost, q, i)) + out
    <3>1. CASE full
      <4>1. Cardinality(Losses(lost \cup {<<p, head, "overflow">>}, q, i)) =
              Cardinality(Losses(lost, q, i)) + IF q = p /\ i = head /\ <<p, head, "overflow">> \notin lost THEN 1 ELSE 0
        BY <1>6, LossOne
      <4>2. i = head => <<p, head, "overflow">> \notin lost
        <5> SUFFICES ASSUME i = head PROVE Cardinality(Losses(lost, p, i)) = 0
          BY <1>6, LossFacts
        <5>1. Times(p, i) <= 1
          BY DEF Conserved
        <5>2. Times(p, i) = Count(queue[p], i) + Count(batch[p].spans, i) + Count(SentSpans(p), i) + Cardinality(Losses(lost, p, i))
          BY TimesTally DEF Tally
        <5>3. Count(queue[p], i) >= 1
          BY <1>5, <1>7, <3>1
        <5> QED
          BY <5>1, <5>2, <5>3, TallyFacts
      <4> QED
        BY <1>2, <1>9, <3>1, <4>1, <4>2
    <3>2. CASE ~full
      BY <1>2, <3>2, LossFacts
    <3> QED
      BY <3>1, <3>2
  <2>2. Count(queue'[q], i) + out = Count(queue[q], i) + put
    <3>1. Count(queue'[q], i) = Count(rest, i) + put
      BY <1>2, <1>4, <1>7, <1>9
    <3>2. Count(queue[q], i) = Count(rest, i) + out
      <4>1. CASE full
        BY <1>5, <1>7, <1>9, <4>1
      <4>2. CASE ~full
        BY <1>7, <1>9, <4>2
      <4> QED
        BY <4>1, <4>2
    <3> QED
      BY <1>7, <3>1, <3>2
  <2>3. Times(q, i)' = Count(queue'[q], i) + Count(batch[q].spans, i) + Count(SentSpans(q), i) + Cardinality(Losses(lost', q, i))
    <3>1. Times(q, i)' = Tally(q, i, queue'[q], batch'[q].spans, [m \in DOMAIN sent'[q] |-> sent'[q][m].span], lost')
      BY TimesTally
    <3>2. [m \in DOMAIN sent'[q] |-> sent'[q][m].span] = SentSpans(q) /\ batch'[q].spans = batch[q].spans
      BY <1>2 DEF SentSpans
    <3> QED
      BY <3>1, <3>2 DEF Tally
  <2>4. Times(q, i) = Count(queue[q], i) + Count(batch[q].spans, i) + Count(SentSpans(q), i) + Cardinality(Losses(lost, q, i))
    BY TimesTally DEF Tally
  <2>5. Times(q, i)' = Times(q, i) + put
    <3>1. queue'[q] = Append(rest, n)
      BY <1>2, <1>4, <1>9
    <3>2. Count(queue'[q], i) \in Nat /\ out \in 0..1 /\ put \in 0..1
      BY <1>7, <3>1
    <3> HIDE DEF out, put
    <3> QED
      BY SMTT(30), <2>1, <2>2, <2>3, <2>4, <3>2, TallyFacts
  <2>6. Due(q, i)' = Due(q, i) + put
    <3>1. CASE i = n
      BY <1>1, <1>2, <1>3, <1>9, <3>1, Same DEF Due
    <3>2. CASE i # n
      BY <1>1, <1>2, <3>2, Same DEF Due
    <3> QED
      BY <3>1, <3>2
  <2> QED
    BY <2>5, <2>6 DEF Conserved, Due
<1> QED
  BY <1>8, <1>9

LEMMA OnEndConserved ==
  ASSUME TInv, Conserved, NEW n \in Spans, NEW p \in DOMAIN Pipeline,
         IF p \in Workers THEN Refuse(n, p) \/ Check(n, p) \/ Enqueue(n, p) ELSE Measure(n, p),
         NEW q \in Workers, NEW i \in Spans
  PROVE  Times(q, i)' = Due(q, i)'
<1>1. CASE p \in Workers /\ Check(n, p)
  BY <1>1, TimesKept DEF Check
<1>2. CASE p \in Workers /\ Refuse(n, p) /\ Takes(p)
  <2>1. "shut down" \in Causes
    BY DEF Causes
  <2>2. lost' = lost \cup {<<p, n, "shut down">>} /\ UNCHANGED <<env, scene, sampled, queue, batch, sent>>
    BY <1>2 DEF Refuse
  <2> QED
    BY <1>2, <2>1, <2>2, LostConserved
<1>3. CASE p \in Workers /\ Enqueue(n, p) /\ stage[p] = "exited"
  <2>1. "late" \in Causes
    BY DEF Causes
  <2>2. lost' = lost \cup {<<p, n, "late">>} /\ UNCHANGED <<env, scene, sampled, queue, batch, sent>>
    BY <1>3 DEF Enqueue
  <2>3. Takes(p)
    BY <1>3 DEF Enqueue, At, TInv, LiveInv
  <2> QED
    BY <1>3, <2>1, <2>2, <2>3, LostConserved
<1>4. CASE p \in Workers /\ Refuse(n, p) /\ ~Takes(p)
  <2>1. UNCHANGED <<env, scene, sampled, queue, batch, sent, lost>>
    BY <1>4 DEF Refuse
  <2>2. q # p \/ i # n => (next'[i] > q <=> next[i] > q)
    BY <1>4, Passed
  <2>3. CASE q # p \/ i # n
    BY <2>1, <2>2, <2>3, TimesKept
  <2>4. CASE q = p /\ i = n
    <3>1. ~Takes(q) /\ ~(Takes(q)')
      BY <1>4, <2>1, <2>4, Same
    <3>2. Times(q, i) = 0
      BY <3>1 DEF Conserved
    <3>3. Times(q, i)' = Times(q, i)
      <4>1. [m \in DOMAIN sent'[q] |-> sent'[q][m].span] = SentSpans(q)
        BY <2>1 DEF SentSpans
      <4>2. Times(q, i) = Tally(q, i, queue[q], batch[q].spans, SentSpans(q), lost)
        BY TimesTally
      <4>3. Times(q, i)' = Tally(q, i, queue'[q], batch'[q].spans, [m \in DOMAIN sent'[q] |-> sent'[q][m].span], lost')
        BY TimesTally
      <4> QED
        BY <2>1, <4>1, <4>2, <4>3
    <3> QED
      BY <3>1, <3>2, <3>3 DEF Due
  <2> QED
    BY <2>3, <2>4
<1>5. CASE p \notin Workers /\ Measure(n, p)
  <2>1. UNCHANGED <<env, scene, sampled, queue, batch, sent, lost>>
    BY <1>5 DEF Measure
  <2>2. next'[i] > q <=> next[i] > q
    BY <1>5, Passed
  <2> QED
    BY <2>1, <2>2, TimesKept
<1>6. CASE p \in Workers /\ Enqueue(n, p) /\ stage[p] # "exited"
  BY <1>6, QueuedConserved
<1> QED
  BY <1>1, <1>2, <1>3, <1>4, <1>5, <1>6

LEMMA TakeConserved ==
  ASSUME TInv, Conserved, NEW p \in Workers, Take(p), NEW q \in Workers, NEW i \in Spans
  PROVE  Times(q, i)' = Due(q, i)'
<1> DEFINE n == IF Len(queue[p]) < BatchSize THEN Len(queue[p]) ELSE BatchSize
           first == SubSeq(queue[p], 1, n)
           rest == SubSeq(queue[p], n + 1, Len(queue[p]))
<1>1. queue[p] \in Seq(Over) /\ Len(queue[p]) \in Nat /\ n \in 0..Len(queue[p])
  BY LenProperties, PipelineAssumption DEF TInv, WorkInv
<1>2. /\ \A r \in Workers \ {p} : batch'[r] = batch[r] /\ queue'[r] = queue[r]
      /\ batch'[p].spans = first /\ queue'[p] = rest /\ batch[p].spans = <<>>
      /\ UNCHANGED <<env, scene, sampled, next, sent, lost>>
  BY DEF Take, Busy, Idle, TInv, WorkInv
<1>3. CASE q # p
  BY <1>2, <1>3, TimesKept
<1>4. CASE q = p
  <2>1. Count(queue[p], i) = Count(first, i) + Count(rest, i) /\ first \in Seq(Over) /\ rest \in Seq(Over)
    <3> HIDE DEF n
    <3> QED
      BY <1>1, CountSplit
  <2>2. Count(first, i) \in Nat /\ Count(rest, i) \in Nat
    <3> HIDE DEF first, rest
    <3> QED
      BY <2>1, CountFacts
  <2>3. Times(q, i)' = Count(rest, i) + Count(first, i) + Count(SentSpans(q), i) + Cardinality(Losses(lost, q, i))
    <3>1. Times(q, i)' = Tally(q, i, queue'[q], batch'[q].spans, [m \in DOMAIN sent'[q] |-> sent'[q][m].span], lost')
      BY TimesTally
    <3>2. [m \in DOMAIN sent'[q] |-> sent'[q][m].span] = SentSpans(q)
      BY <1>2 DEF SentSpans
    <3> HIDE DEF first, rest
    <3> QED
      BY <1>2, <1>4, <3>1, <3>2 DEF Tally
  <2>4. Times(q, i) = Count(queue[q], i) + 0 + Count(SentSpans(q), i) + Cardinality(Losses(lost, q, i))
    <3>1. Times(q, i) = Tally(q, i, queue[q], batch[q].spans, SentSpans(q), lost)
      BY TimesTally
    <3>2. Count(batch[q].spans, i) = 0
      BY <1>2, <1>4, CountNone
    <3> QED
      BY <3>1, <3>2 DEF Tally
  <2>5. Times(q, i)' = Times(q, i)
    <3> HIDE DEF first, rest
    <3> QED
      BY <1>4, <2>1, <2>2, <2>3, <2>4, TallyFacts
  <2>6. Due(q, i)' = Due(q, i)
    BY <1>2, Same DEF Due
  <2> QED
    BY <2>5, <2>6 DEF Conserved, Due
<1> QED
  BY <1>3, <1>4

(* Lost spans are counted as lost instead of in the batch, each once: it   *)
(* is there no more than once, and has not been lost before.               *)
LEMMA LoseConserved ==
  ASSUME TInv, Conserved, NEW p \in Workers, NEW cause \in Causes, Lose(p, cause),
         UNCHANGED <<env, scene, sampled, next, queue, sent>>, NEW q \in Workers, NEW i \in Spans
  PROVE  Times(q, i)' = Due(q, i)'
<1> DEFINE b == batch[p].spans
           A == { b[n] : n \in DOMAIN b }
           more == IF q = p /\ i \in A /\ <<p, i, cause>> \notin lost THEN 1 ELSE 0
<1>1. /\ \A r \in Workers \ {p} : batch'[r] = batch[r]
      /\ batch'[p].spans = <<>>
      /\ lost' = lost \cup { <<p, b[n], cause>> : n \in DOMAIN b }
  BY DEF Lose, Idle, TInv, WorkInv
<1>2. Cardinality(Losses(lost', q, i)) = Cardinality(Losses(lost, q, i)) + more
  <2> DEFINE M == lost'
  <2>1. LoseAlso(M, lost, p, cause, A)
    BY <1>1 DEF LoseAlso
  <2> HIDE DEF A, M
  <2>2. \A r, j : Cardinality(Losses(M, r, j)) =
          Cardinality(Losses(lost, r, j)) + IF r = p /\ j \in A /\ <<p, j, cause>> \notin lost THEN 1 ELSE 0
    BY <2>1, LossMore
  <2> QED
    BY <2>2 DEF M
<1>3. CASE q # p
  BY <1>1, <1>2, <1>3, LossFacts, TimesKept
<1>4. CASE q = p
  <2>1. Times(q, i) = Count(queue[q], i) + Count(b, i) + Count(SentSpans(q), i) + Cardinality(Losses(lost, q, i))
    BY <1>4, TimesTally DEF Tally
  <2>2. Times(q, i)' = Count(queue[q], i) + 0 + Count(SentSpans(q), i) + Cardinality(Losses(lost', q, i))
    <3>1. Times(q, i)' = Tally(q, i, queue'[q], batch'[q].spans, [m \in DOMAIN sent'[q] |-> sent'[q][m].span], lost')
      BY TimesTally
    <3>2. [m \in DOMAIN sent'[q] |-> sent'[q][m].span] = SentSpans(q) /\ queue'[q] = queue[q]
      BY DEF SentSpans
    <3>3. Count(batch'[q].spans, i) = 0
      BY <1>1, <1>4, CountNone
    <3> QED
      BY <3>1, <3>2, <3>3 DEF Tally
  <2>3. Times(q, i) \in 0..1
    BY DEF Conserved
  <2>4. b \in Seq(Over) /\ (Count(b, i) = 0 <=> i \notin A)
    <3>1. b \in Seq(Over)
      BY TallyFacts
    <3>2. Count(b, i) = 0 <=> \A n \in DOMAIN b : b[n] # i
      <4> HIDE DEF b
      <4> QED
        BY <3>1, CountFacts
    <3> QED
      BY <3>1, <3>2
  <2>5. Count(b, i) = more
    <3>1. CASE i \in A
      <4>1. Count(b, i) = 1 /\ Cardinality(Losses(lost, q, i)) = 0
        <5> HIDE DEF A, b, more
        <5>1. Count(b, i) \in Nat /\ Count(b, i) # 0
          BY <2>4, <3>1, CountFacts
        <5> QED
          BY <1>4, <2>1, <2>3, <5>1, TallyFacts
      <4>2. <<p, i, cause>> \notin lost
        BY <1>4, <4>1, LossFacts
      <4> QED
        BY <1>4, <3>1, <4>1, <4>2
    <3>2. CASE i \notin A
      BY <2>4, <3>2
    <3> QED
      BY <3>1, <3>2
  <2>6. Times(q, i)' = Times(q, i)
    <3>1. more \in 0..1
      OBVIOUS
    <3> HIDE DEF b, more, A
    <3> QED
      BY <1>2, <1>4, <2>1, <2>2, <2>5, <3>1, TallyFacts
  <2>7. Due(q, i)' = Due(q, i)
    BY Same DEF Due
  <2> QED
    BY <2>6, <2>7 DEF Conserved, Due
<1> QED
  BY <1>3, <1>4

LEMMA ExportConserved ==
  ASSUME TInv, Conserved, NEW p \in Workers, Generate(p) \/ Process(p) \/ Replace(p) \/ Fail(p),
         NEW q \in Workers, NEW i \in Spans
  PROVE  Times(q, i)' = Due(q, i)'
<1>1. UNCHANGED <<env, scene, sampled, next, queue, sent>>
  BY ExportFacts
<1>2. ASSUME NEW cause \in Causes, Lose(p, cause) PROVE Times(q, i)' = Due(q, i)'
  BY <1>1, <1>2, LoseConserved
<1>3. ASSUME UNCHANGED lost, NEW b, b.spans = batch[p].spans, batch' = [batch EXCEPT ![p] = b] PROVE Times(q, i)' = Due(q, i)'
  <2>1. batch'[q].spans = batch[q].spans
    BY <1>3 DEF TInv, WorkInv
  <2> QED
    BY <1>1, <1>3, <2>1, TimesKept
<1> QED
  BY <1>2, <1>3, ExportFacts

LEMMA DeliverConserved ==
  ASSUME TInv, Conserved, NEW p \in Workers, Deliver(p), NEW q \in Workers, NEW i \in Spans
  PROVE  Times(q, i)' = Due(q, i)'
<1>1. /\ UNCHANGED <<env, scene, sampled, next, queue, lost>>
      /\ batch' = [batch EXCEPT ![p] = Idle]
      /\ \A r \in Workers : r # p => sent'[r] = sent[r]
      /\ [n \in DOMAIN sent'[p] |-> sent'[p][n].span] = SentSpans(p) \o batch[p].spans
  BY DeliverFacts
<1>2. batch'[p].spans = <<>> /\ \A r \in Workers : r # p => batch'[r] = batch[r]
  BY <1>1 DEF Idle, TInv, WorkInv
<1>3. CASE q # p
  BY <1>1, <1>2, <1>3, TimesKept
<1>4. CASE q = p
  <2>1. Count(SentSpans(p) \o batch[p].spans, i) = Count(SentSpans(p), i) + Count(batch[p].spans, i)
    BY TallyFacts, CountConcat
  <2>2. Times(p, i)' = Count(queue[p], i) + 0 + Count(SentSpans(p) \o batch[p].spans, i) + Cardinality(Losses(lost, p, i))
    <3>1. Times(p, i)' = Tally(p, i, queue'[p], batch'[p].spans, [m \in DOMAIN sent'[p] |-> sent'[p][m].span], lost')
      BY TimesTally
    <3>2. Count(batch'[p].spans, i) = 0
      BY <1>2, CountNone
    <3> QED
      BY <1>1, <3>1, <3>2 DEF Tally
  <2>3. Times(p, i) = Count(queue[p], i) + Count(batch[p].spans, i) + Count(SentSpans(p), i) + Cardinality(Losses(lost, p, i))
    BY TimesTally DEF Tally
  <2>4. Times(p, i)' = Times(p, i)
    BY <2>1, <2>2, <2>3, TallyFacts
  <2>5. Due(p, i)' = Due(p, i)
    BY <1>1, Same DEF Due
  <2> QED
    BY <1>4, <2>4, <2>5 DEF Conserved, Due
<1> QED
  BY <1>3, <1>4

(* A batch processor has each span of its decision exactly once from its   *)
(* on_end on, waiting, in the batch, sent or lost, and no other span ever: *)
(* for any environments and scenes, queue and batch sizes, in any order of *)
(* endings, exports and shutdown.                                          *)
THEOREM EachSpanOnce == Spec => []Conserved
<1>1. Init => Conserved
  <2> SUFFICES ASSUME Init, NEW p \in Workers, NEW i \in Spans PROVE Times(p, i) = 0 /\ ~(next[i] > p)
    BY DEF Conserved
  <2>1. TInv
    BY TInit
  <2>2. p \in 1..Len(Pipeline) /\ Len(Pipeline) \in Nat /\ next[i] = 0
    BY <2>1, PipelineFacts DEF TInv, Init
  <2>3. queue[p] = <<>> /\ batch[p].spans = <<>> /\ sent[p] = <<>> /\ lost = {}
    BY DEF Init, Idle
  <2>4. SentSpans(p) = <<>>
    BY <2>3 DEF SentSpans
  <2>5. Losses(lost, p, i) = {}
    BY <2>3 DEF Losses
  <2>6. Cardinality(Losses(lost, p, i)) = 0
    BY <2>5, FS_EmptySet
  <2>7. Times(p, i) = Count(queue[p], i) + Count(batch[p].spans, i) + Count(SentSpans(p), i) + Cardinality(Losses(lost, p, i))
    BY TimesTally DEF Tally
  <2>8. Count(queue[p], i) = 0 /\ Count(batch[p].spans, i) = 0 /\ Count(SentSpans(p), i) = 0
    BY <2>3, <2>4, CountNone
  <2> QED
    BY <2>2, <2>6, <2>7, <2>8
<1>2. TInv /\ Conserved /\ [Next]_vars => Conserved'
  <2> SUFFICES ASSUME TInv, Conserved, [Next]_vars PROVE Conserved'
    OBVIOUS
  <2>1. Workers' = Workers /\ Spans' = Spans
    BY SetupKept, Same
  <2>2. ASSUME NEW p \in Workers, NEW i \in Spans PROVE Times(p, i)' = Due(p, i)'
    <3>1. ASSUME NEW n \in Spans, Start(n) \/ Update(n) \/ End(n) PROVE Times(p, i)' = Due(p, i)'
      BY <3>1, SpansConserved
    <3>2. ASSUME NEW n \in Spans, OnEnd(n) PROVE Times(p, i)' = Due(p, i)'
      <4>1. PICK q \in DOMAIN Pipeline : IF q \in Workers THEN Refuse(n, q) \/ Check(n, q) \/ Enqueue(n, q) ELSE Measure(n, q)
        BY <3>2 DEF OnEnd
      <4> QED
        BY <4>1, OnEndConserved
    <3>3. ASSUME NEW q \in Workers, Work(q) PROVE Times(p, i)' = Due(p, i)'
      <4>1. CASE Exit(q)
        BY <4>1, TimesKept DEF Exit
      <4> QED
        BY <3>3, <4>1, TakeConserved, ExportConserved, DeliverConserved DEF Work
    <3>4. ASSUME NEW q \in Workers, Shutdown(q) PROVE Times(p, i)' = Due(p, i)'
      BY <3>4, TimesKept DEF Shutdown
    <3>5. CASE UNCHANGED vars
      BY <3>5, TimesKept DEF vars
    <3> QED
      BY <3>1, <3>2, <3>3, <3>4, <3>5 DEF Next
  <2> QED
    BY <2>1, <2>2 DEF Conserved, Due
<1> QED
  BY <1>1, <1>2, Types, PTL DEF Spec

-----------------------------------------------------------------------------
(* Derived again from a span that has them, the attributes are the same.   *)

DerivedKeys == {
  "aws.local.service", "aws.local.operation", "aws.span.kind", "aws.remote.service", "aws.remote.operation",
  "aws.remote.resource.type", "aws.remote.resource.identifier", "aws.remote.resource.cfn.primary.identifier",
  "aws.remote.resource.account.id", "aws.remote.resource.region", "aws.remote.resource.account.access_key",
  "aws.remote.environment", "aws.remote.db.user" }

Agree(s, t, key) == (Has(t, key) <=> Has(s, key)) /\ Attr(t, key) = Attr(s, key)

(* Spans that differ in derived attributes only.                           *)
Akin(s, t) ==
  /\ t.name = s.name /\ t.kind = s.kind /\ t.parent = s.parent /\ t.scope = s.scope
  /\ \A key : key \notin DerivedKeys => Agree(s, t, key)

LEMMA KindsAkin ==
  ASSUME NEW s, NEW t, Akin(s, t)
  PROVE  /\ AwsSdk(t) <=> AwsSdk(s)
         /\ Db(t) <=> Db(s)
         /\ LambdaInvoke(t) <=> LambdaInvoke(s)
         /\ HasService(t) <=> HasService(s)
         /\ HasDependency(t) <=> HasDependency(s)
         /\ LocalRoot(t) <=> LocalRoot(s)
         /\ UsesInternal(t) <=> UsesInternal(s)
<1>1. /\ Agree(s, t, "rpc.system") /\ Agree(s, t, "rpc.service") /\ Agree(s, t, "rpc.method")
      /\ Agree(s, t, "db.system") /\ Agree(s, t, "db.operation") /\ Agree(s, t, "db.statement")
      /\ Agree(s, t, "messaging.operation") /\ Agree(s, t, "aws.consumer.parent.span.kind")
  BY DEF Akin, DerivedKeys
<1>2. (AwsSdk(t) <=> AwsSdk(s)) /\ (Db(t) <=> Db(s)) /\ (LocalRoot(t) <=> LocalRoot(s)) /\ (Boto3Sqs(t) <=> Boto3Sqs(s))
  BY <1>1 DEF Akin, Agree, AwsSdk, Db, LocalRoot, Boto3Sqs
<1>3. (LambdaInvoke(t) <=> LambdaInvoke(s)) /\ (DependencyConsumer(t) <=> DependencyConsumer(s))
  BY <1>1, <1>2 DEF Akin, Agree, LambdaInvoke, DependencyConsumer, ConsumerProcess
<1> QED
  BY <1>2, <1>3 DEF Akin, HasService, HasDependency, UsesInternal

LEMMA GeneratedAkin ==
  ASSUME NEW s, NEW t, Akin(s, t)
  PROVE  /\ HttpOperation(t) = HttpOperation(s)
         /\ GeneratedService(t) = GeneratedService(s)
         /\ GeneratedOperation(t) = GeneratedOperation(s)
         /\ \A inLambda : IngressOperation(t, inLambda) = IngressOperation(s, inLambda)
<1>1. Agree(s, t, "http.target") /\ Agree(s, t, "http.url") /\ Agree(s, t, "http.method")
  BY DEF Akin, DerivedKeys
<1>2. /\ Agree(s, t, "net.peer.name") /\ Agree(s, t, "net.peer.port")
      /\ Agree(s, t, "net.sock.peer.addr") /\ Agree(s, t, "net.sock.peer.port")
  BY DEF Akin, DerivedKeys
<1>3. HttpOperation(t) = HttpOperation(s)
  BY <1>1 DEF Agree, HttpOperation, HttpPath
<1>4. GeneratedOperation(t) = GeneratedOperation(s)
  BY <1>1 DEF Agree, GeneratedOperation
<1>5. GeneratedService(t) = GeneratedService(s)
  BY <1>1, <1>2 DEF Agree, GeneratedService
<1>6. ValidOperation(t) <=> ValidOperation(s)
  BY <1>1 DEF Akin, Agree, ValidOperation
<1>7. \A inLambda : IngressOperation(t, inLambda) = IngressOperation(s, inLambda)
  BY <1>3, <1>6, KindsAkin DEF Akin, IngressOperation
<1> QED
  BY <1>3, <1>4, <1>5, <1>7

LEMMA ServiceAkin ==
  ASSUME NEW s, NEW t, Akin(s, t), NEW inLambda
  PROVE  ServiceAttributes(t, inLambda) = ServiceAttributes(s, inLambda)
BY KindsAkin, GeneratedAkin DEF Akin, ServiceAttributes

Underived(row) == row.key \notin DerivedKeys /\ row.cfn \notin DerivedKeys

(* What the tables name is not derived.                                    *)
LEMMA TablesFree ==
  /\ \A n \in DOMAIN Resources : Underived(Resources[n])
  /\ \A n \in DOMAIN ArnKeys : ArnKeys[n] \notin DerivedKeys
  /\ \A n \in DOMAIN Addresses : Addresses[n].address \notin DerivedKeys /\ Addresses[n].port \notin DerivedKeys
<1>1. \A n \in DOMAIN Resources : Underived(Resources[n])
  <2> DEFINE keys == {
        "aws.dynamodb.table_names", "aws.dynamodb.table.arn", "aws.kinesis.stream.name", "aws.kinesis.stream.arn",
        "aws.s3.bucket", "aws.sqs.queue.name", "aws.sqs.queue.url", "aws.bedrock.agent.id", "aws.bedrock.data_source.id",
        "aws.bedrock.knowledge_base.id", "aws.bedrock.guardrail.id", "aws.bedrock.guardrail.arn", "gen_ai.request.model",
        "rpc.service", "aws.secretsmanager.secret.arn", "aws.sns.topic.arn", "aws.stepfunctions.state_machine.arn",
        "aws.stepfunctions.activity.arn", "aws.lambda.function.name", "aws.lambda.function.arn",
        "aws.lambda.resource_mapping.id", "" }
  <2>1. DOMAIN Resources = 1..19
    BY DEF Resources
  <2>2. \A key, type, how, cfn : key \notin DerivedKeys /\ cfn \notin DerivedKeys => Underived(Row(key, type, how, cfn))
    BY DEF Underived, Row
  <2>3. keys \cap DerivedKeys = {}
    BY DEF DerivedKeys
  <2>4. \A key \in keys, cfn \in keys : \A type, how : Underived(Row(key, type, how, cfn))
    BY <2>2, <2>3
  <2>5. /\ Underived(Resources[1]) /\ Underived(Resources[2]) /\ Underived(Resources[3])
        /\ Underived(Resources[4]) /\ Underived(Resources[5]) /\ Underived(Resources[6])
    BY <2>4 DEF Resources
  <2>6. /\ Underived(Resources[7]) /\ Underived(Resources[8]) /\ Underived(Resources[9])
        /\ Underived(Resources[10]) /\ Underived(Resources[11]) /\ Underived(Resources[12])
    BY <2>4 DEF Resources
  <2>7. /\ Underived(Resources[13]) /\ Underived(Resources[14]) /\ Underived(Resources[15])
        /\ Underived(Resources[16]) /\ Underived(Resources[17]) /\ Underived(Resources[18])
    BY <2>4 DEF Resources
  <2>8. Underived(Resources[19])
    BY <2>4 DEF Resources
  <2> HIDE DEF keys
  <2> QED
    BY <2>1, <2>5, <2>6, <2>7, <2>8
<1>2. \A n \in DOMAIN ArnKeys : ArnKeys[n] \notin DerivedKeys
  BY DEF ArnKeys, DerivedKeys
<1>3. \A n \in DOMAIN Addresses : Addresses[n].address \notin DerivedKeys /\ Addresses[n].port \notin DerivedKeys
  BY DEF Addresses, DerivedKeys
<1> QED
  BY <1>1, <1>2, <1>3

LEMMA AgentCoreAkin == ASSUME NEW s, NEW t, Akin(s, t) PROVE AgentCore(t) = AgentCore(s)
<1>1. /\ Agree(s, t, "gen_ai.browser.id") /\ Agree(s, t, "aws.bedrock.agentcore.browser.arn")
      /\ Agree(s, t, "gen_ai.gateway.id") /\ Agree(s, t, "aws.bedrock.agentcore.gateway.arn")
      /\ Agree(s, t, "gen_ai.runtime.id") /\ Agree(s, t, "aws.bedrock.agentcore.runtime.arn")
      /\ Agree(s, t, "gen_ai.code_interpreter.id") /\ Agree(s, t, "aws.bedrock.agentcore.code_interpreter.arn")
      /\ Agree(s, t, "gen_ai.memory.id") /\ Agree(s, t, "aws.bedrock.agentcore.memory.arn")
  BY DEF Akin, DerivedKeys
<1>2. /\ Agree(s, t, "aws.gateway.target.id") /\ Agree(s, t, "aws.bedrock.agentcore.runtime_endpoint.arn")
      /\ Agree(s, t, "aws.auth.credential_provider") /\ Agree(s, t, "rpc.method")
  BY DEF Akin, DerivedKeys
<1>3. \A id, arn : Agree(s, t, id) /\ Agree(s, t, arn) => IdOrArn(t, id, arn) = IdOrArn(s, id, arn)
  BY DEF IdOrArn, Agree
<1>4. /\ IdOrArn(t, "gen_ai.browser.id", "aws.bedrock.agentcore.browser.arn") = IdOrArn(s, "gen_ai.browser.id", "aws.bedrock.agentcore.browser.arn")
      /\ IdOrArn(t, "gen_ai.gateway.id", "aws.bedrock.agentcore.gateway.arn") = IdOrArn(s, "gen_ai.gateway.id", "aws.bedrock.agentcore.gateway.arn")
      /\ IdOrArn(t, "gen_ai.runtime.id", "aws.bedrock.agentcore.runtime.arn") = IdOrArn(s, "gen_ai.runtime.id", "aws.bedrock.agentcore.runtime.arn")
      /\ IdOrArn(t, "gen_ai.code_interpreter.id", "aws.bedrock.agentcore.code_interpreter.arn")
           = IdOrArn(s, "gen_ai.code_interpreter.id", "aws.bedrock.agentcore.code_interpreter.arn")
      /\ IdOrArn(t, "gen_ai.memory.id", "aws.bedrock.agentcore.memory.arn") = IdOrArn(s, "gen_ai.memory.id", "aws.bedrock.agentcore.memory.arn")
  BY <1>1, <1>3
<1> QED
  BY <1>1, <1>2, <1>4 DEF AgentCore, Agree

LEMMA ResourceAkin == ASSUME NEW s, NEW t, Akin(s, t) PROVE RemoteResource(t) = RemoteResource(s)
<1>1. \A n \in DOMAIN Resources :
        /\ Agree(s, t, Resources[n].key) /\ Agree(s, t, Resources[n].cfn)
        /\ Names(t, Resources[n]) <=> Names(s, Resources[n])
  <2> SUFFICES ASSUME NEW n \in DOMAIN Resources
               PROVE  /\ Agree(s, t, Resources[n].key) /\ Agree(s, t, Resources[n].cfn)
                      /\ Names(t, Resources[n]) <=> Names(s, Resources[n])
    OBVIOUS
  <2>1. Agree(s, t, Resources[n].key) /\ Agree(s, t, Resources[n].cfn)
    BY TablesFree DEF Akin, Underived
  <2> QED
    BY <2>1 DEF Names, Agree
<1>2. NamingRow(t) = NamingRow(s)
  <2>1. { m \in DOMAIN Resources : Names(t, Resources[m]) } = { m \in DOMAIN Resources : Names(s, Resources[m]) }
    BY <1>1
  <2> QED
    BY <2>1, Zenon DEF NamingRow
<1>3. \A row \in NamingRow(s) : SdkResource(t, row) = SdkResource(s, row)
  <2> SUFFICES ASSUME NEW row \in NamingRow(s) PROVE SdkResource(t, row) = SdkResource(s, row)
    OBVIOUS
  <2>1. Agree(s, t, row.key) /\ Agree(s, t, row.cfn)
    <3>1. PICK n \in Foremost({ m \in DOMAIN Resources : Names(s, Resources[m]) }) : row = Resources[n]
      BY DEF NamingRow
    <3>2. n \in DOMAIN Resources
      BY DEF Foremost
    <3> QED
      BY <1>1, <3>1, <3>2
  <2>2. Attr(t, row.key) = Attr(s, row.key) /\ Attr(t, row.cfn) = Attr(s, row.cfn) /\ AgentCore(t) = AgentCore(s)
    BY <2>1, AgentCoreAkin DEF Agree
  <2> QED
    BY <2>2 DEF SdkResource
<1>4. SdkResources(t) = SdkResources(s)
  BY <1>2, <1>3, KindsAkin DEF SdkResources
<1>5. DbConnection(t) = DbConnection(s)
  <2>1. \A n \in DOMAIN Addresses : Agree(s, t, Addresses[n].address) /\ Agree(s, t, Addresses[n].port)
    BY TablesFree DEF Akin
  <2>2. Agree(s, t, "db.connection_string") /\ Agree(s, t, "db.name")
    BY DEF Akin, DerivedKeys
  <2> DEFINE found == Foremost({ n \in DOMAIN Addresses : Has(s, Addresses[n].address) })
             known == Addresses[Either(found)]
  <2>3. { n \in DOMAIN Addresses : Has(t, Addresses[n].address) } = { n \in DOMAIN Addresses : Has(s, Addresses[n].address) }
    BY <2>1 DEF Agree
  <2>4. found # {} => Attr(t, known.address) = Attr(s, known.address) /\ Attr(t, known.port) = Attr(s, known.port)
    <3>1. found # {} => Either(found) \in DOMAIN Addresses
      BY DEF Either, Foremost
    <3> QED
      BY <2>1, <3>1 DEF Agree
  <2>5. Foremost({ n \in DOMAIN Addresses : Has(t, Addresses[n].address) }) = found
    BY <2>3
  <2> HIDE DEF found
  <2> QED
    BY <2>2, <2>4, <2>5 DEF DbConnection, Agree, found
<1> QED
  BY <1>4, <1>5, KindsAkin DEF RemoteResource

LEMMA OwnerAkin == ASSUME NEW s, NEW t, Akin(s, t) PROVE Owner(t) = Owner(s)
<1>1. /\ Agree(s, t, "aws.sqs.queue.url")
      /\ Agree(s, t, "aws.auth.account.access_key") /\ Agree(s, t, "aws.auth.region")
  BY DEF Akin, DerivedKeys
<1>2. \A n \in DOMAIN ArnKeys : Agree(s, t, ArnKeys[n])
  BY TablesFree DEF Akin
<1>3. { Attr(t, ArnKeys[n]) : n \in Foremost({ m \in DOMAIN ArnKeys : Has(t, ArnKeys[m]) }) }
        = { Attr(s, ArnKeys[n]) : n \in Foremost({ m \in DOMAIN ArnKeys : Has(s, ArnKeys[m]) }) }
  <2>1. { m \in DOMAIN ArnKeys : Has(t, ArnKeys[m]) } = { m \in DOMAIN ArnKeys : Has(s, ArnKeys[m]) }
    BY <1>2 DEF Agree
  <2>2. \A n \in Foremost({ m \in DOMAIN ArnKeys : Has(s, ArnKeys[m]) }) : Attr(t, ArnKeys[n]) = Attr(s, ArnKeys[n])
    BY <1>2 DEF Agree, Foremost
  <2> QED
    BY <2>1, <2>2
<1>4. AccountOf(t) = AccountOf(s)
  BY <1>1, <1>3 DEF AccountOf, Agree
<1> QED
  BY <1>1, <1>4 DEF Owner, Copied, Agree

LEMMA NamingAkin == ASSUME NEW s, NEW t, Akin(s, t) PROVE NamingRow(t) = NamingRow(s)
<1>1. \A n \in DOMAIN Resources : Names(t, Resources[n]) <=> Names(s, Resources[n])
  <2> SUFFICES ASSUME NEW n \in DOMAIN Resources PROVE Names(t, Resources[n]) <=> Names(s, Resources[n])
    OBVIOUS
  <2>1. Agree(s, t, Resources[n].key)
    BY TablesFree DEF Akin, Underived
  <2> QED
    BY <2>1 DEF Names, Agree
<1>2. { m \in DOMAIN Resources : Names(t, Resources[m]) } = { m \in DOMAIN Resources : Names(s, Resources[m]) }
  BY <1>1
<1> QED
  BY <1>2, Zenon DEF NamingRow

LEMMA RaisesAkin == ASSUME NEW s, NEW t, Akin(s, t) PROVE Raises(t) <=> Raises(s)
<1>1. Agree(s, t, "aws.bedrock.knowledge_base.id")
  BY DEF Akin, DerivedKeys
<1> QED
  BY <1>1, NamingAkin, KindsAkin DEF Raises, Agree

LEMMA JoinIs == ASSUME NEW f, NEW g PROVE f ++ g = Joined(f, g)
<1> DEFINE S == { Joined(a, b) : a \in {f}, b \in {g} }
<1>1. S = {Joined(f, g)}
  OBVIOUS
<1>2. f ++ g = CHOOSE h \in S : TRUE
  BY DEF ++
<1> HIDE DEF S
<1> QED
  BY <1>1, <1>2

(* Of functions joined, the first that has a key.                          *)
LEMMA JoinFacts ==
  ASSUME NEW f, NEW g
  PROVE  /\ DOMAIN (f ++ g) = DOMAIN f \cup DOMAIN g
         /\ \A x \in DOMAIN f : (f ++ g)[x] = f[x]
         /\ \A x \in DOMAIN g \ DOMAIN f : (f ++ g)[x] = g[x]
         /\ f ++ (f ++ g) = f ++ g
<1>1. /\ DOMAIN (f ++ g) = DOMAIN f \cup DOMAIN g
      /\ \A x \in DOMAIN f : (f ++ g)[x] = f[x]
      /\ \A x \in DOMAIN g \ DOMAIN f : (f ++ g)[x] = g[x]
  BY JoinIs DEF Joined
<1> DEFINE h == f ++ g
<1>2. f ++ h = [k \in DOMAIN f \cup DOMAIN h |-> IF k \in DOMAIN f THEN f[k] ELSE h[k]]
  BY JoinIs DEF Joined
<1>3. h = [k \in DOMAIN f \cup DOMAIN g |-> IF k \in DOMAIN f THEN f[k] ELSE g[k]]
  BY JoinIs DEF Joined
<1>4. DOMAIN h = DOMAIN f \cup DOMAIN g /\ \A x \in DOMAIN g \ DOMAIN f : h[x] = g[x]
  BY <1>1
<1> HIDE DEF h
<1>5. DOMAIN f \cup DOMAIN h = DOMAIN f \cup DOMAIN g
  BY <1>4
<1>6. f ++ h = h
  BY <1>2, <1>3, <1>4, <1>5
<1> QED
  BY <1>1, <1>6 DEF h

LEMMA OneFacts == ASSUME NEW key, NEW v PROVE DOMAIN Entry(key, v) = {key} /\ Entry(key, v)[key] = v
BY DEF Entry

(* What a function has, it keeps when another follows it.                  *)
LEMMA JoinKeeps ==
  ASSUME NEW f, NEW g, NEW S, DOMAIN f \subseteq S, DOMAIN g \subseteq S
  PROVE  DOMAIN (f ++ g) \subseteq S /\ \A x \in DOMAIN f : x \in DOMAIN (f ++ g) /\ (f ++ g)[x] = f[x]
BY JoinFacts

LEMMA ServiceKeys ==
  ASSUME NEW s, NEW inLambda
  PROVE  /\ DOMAIN ServiceAttributes(s, inLambda) = {"aws.local.service", "aws.local.operation", "aws.span.kind"}
         /\ ServiceAttributes(s, inLambda)["aws.local.service"] = OrElse(ServiceName, <<"UnknownService">>)
         /\ ServiceAttributes(s, inLambda)["aws.local.operation"] = IngressOperation(s, inLambda)
<1> DEFINE a == Entry("aws.local.operation", IngressOperation(s, inLambda))
           b == Entry("aws.span.kind", IF LocalRoot(s) THEN <<"LOCAL_ROOT">> ELSE <<s.kind>>)
           h == Service ++ a
<1>1. /\ DOMAIN Service = {"aws.local.service"} /\ Service["aws.local.service"] = OrElse(ServiceName, <<"UnknownService">>)
      /\ DOMAIN a = {"aws.local.operation"} /\ a["aws.local.operation"] = IngressOperation(s, inLambda)
      /\ DOMAIN b = {"aws.span.kind"}
  BY OneFacts DEF Service
<1>2. ServiceAttributes(s, inLambda) = h ++ b
  BY DEF ServiceAttributes
<1> HIDE DEF a, b
<1>3. /\ DOMAIN h = {"aws.local.service", "aws.local.operation"}
      /\ h["aws.local.service"] = OrElse(ServiceName, <<"UnknownService">>)
      /\ h["aws.local.operation"] = IngressOperation(s, inLambda)
  BY <1>1, JoinIs DEF Joined
<1> HIDE DEF h
<1> QED
  BY <1>1, <1>2, <1>3, JoinIs DEF Joined

LEMMA OwnerKeys == ASSUME NEW s PROVE DOMAIN Owner(s) \subseteq DerivedKeys
<1>1. ASSUME NEW to \in DerivedKeys, NEW from PROVE DOMAIN Copied(s, to, from) \subseteq DerivedKeys
  BY <1>1 DEF Copied, Entry
<1>2. CASE AccountOf(s) # {}
  <2>1. Owner(s) = Either(AccountOf(s))
    BY <1>2 DEF Owner
  <2>2. Owner(s) \in AccountOf(s)
    BY <1>2, <2>1 DEF Either
  <2>3. PICK id, region : Owner(s) = Account(id, region)
    BY <2>2 DEF AccountOf
  <2>4. /\ DOMAIN Entry("aws.remote.resource.account.id", <<id>>) \subseteq DerivedKeys
        /\ DOMAIN Entry("aws.remote.resource.region", <<region>>) \subseteq DerivedKeys
    BY DEF Entry, DerivedKeys
  <2> QED
    BY <2>3, <2>4, JoinKeeps DEF Account
<1>3. CASE AccountOf(s) = {}
  <2>1. Owner(s) = Copied(s, "aws.remote.resource.account.access_key", "aws.auth.account.access_key")
                     ++ Copied(s, "aws.remote.resource.region", "aws.auth.region")
    BY <1>3 DEF Owner
  <2>2. "aws.remote.resource.account.access_key" \in DerivedKeys /\ "aws.remote.resource.region" \in DerivedKeys
    BY DEF DerivedKeys
  <2>3. /\ DOMAIN Copied(s, "aws.remote.resource.account.access_key", "aws.auth.account.access_key") \subseteq DerivedKeys
        /\ DOMAIN Copied(s, "aws.remote.resource.region", "aws.auth.region") \subseteq DerivedKeys
    BY <1>1, <2>2
  <2> QED
    BY <2>1, <2>3, JoinKeeps
<1> QED
  BY <1>2, <1>3

LEMMA ResourceKeys == ASSUME NEW s PROVE DOMAIN ResourceAttributes(s) \subseteq DerivedKeys
<1> DEFINE of(r) == Entry("aws.remote.resource.type", <<r.type>>) ++ Entry("aws.remote.resource.identifier", r.id)
                      ++ Entry("aws.remote.resource.cfn.primary.identifier", r.cfn) ++ Owner(s)
<1>1. ResourceAttributes(s) = Either({ of(r) : r \in RemoteResource(s) })
  BY DEF ResourceAttributes
<1>2. ASSUME NEW r PROVE DOMAIN of(r) \subseteq DerivedKeys
  <2> DEFINE a == Entry("aws.remote.resource.type", <<r.type>>)
             b == Entry("aws.remote.resource.identifier", r.id)
             c == Entry("aws.remote.resource.cfn.primary.identifier", r.cfn)
  <2>1. DOMAIN a \subseteq DerivedKeys /\ DOMAIN b \subseteq DerivedKeys /\ DOMAIN c \subseteq DerivedKeys
    BY DEF Entry, DerivedKeys
  <2>2. of(r) = a ++ b ++ c ++ Owner(s)
    OBVIOUS
  <2> HIDE DEF a, b, c, of
  <2>3. DOMAIN (a ++ b) \subseteq DerivedKeys
    BY <2>1, JoinKeeps
  <2>4. DOMAIN (a ++ b ++ c) \subseteq DerivedKeys
    BY <2>1, <2>3, JoinKeeps
  <2> QED
    BY <2>2, <2>4, OwnerKeys, JoinKeeps
<1> HIDE DEF of
<1>3. CASE { of(r) : r \in RemoteResource(s) } = {}
  BY <1>1, <1>3 DEF Either
<1>4. CASE { of(r) : r \in RemoteResource(s) } # {}
  <2>1. ResourceAttributes(s) \in { of(r) : r \in RemoteResource(s) }
    BY <1>1, <1>4 DEF Either
  <2> QED
    BY <1>2, <2>1
<1> QED
  BY <1>3, <1>4

LEMMA DependencyKeys ==
  ASSUME NEW s
  PROVE  LET d == DependencyAttributes(s)
         IN  /\ DOMAIN d \subseteq DerivedKeys
             /\ {"aws.local.service", "aws.local.operation", "aws.remote.service", "aws.remote.operation"} \subseteq DOMAIN d
             /\ d["aws.local.service"] = OrElse(ServiceName, <<"UnknownService">>)
             /\ d["aws.local.operation"] = EgressOperation(s)
             /\ d["aws.remote.service"] = RemoteService(s)
             /\ d["aws.remote.operation"] = RemoteOperation(s)
<1> DEFINE a == Entry("aws.local.operation", EgressOperation(s))
           b == Entry("aws.remote.service", RemoteService(s))
           c == Entry("aws.remote.operation", RemoteOperation(s))
           e == IF LambdaInvoke(s) THEN Entry("aws.remote.environment", <<"lambda:default">>) ELSE <<>>
           u == IF Db(s) THEN Copied(s, "aws.remote.db.user", "db.user") ELSE <<>>
           k == Entry("aws.span.kind", <<s.kind>>)
           r == ResourceAttributes(s)
           h == Service ++ a ++ b ++ c
           i == h ++ r
           j == i ++ e
           l == j ++ u
<1>1. /\ DOMAIN Service = {"aws.local.service"} /\ Service["aws.local.service"] = OrElse(ServiceName, <<"UnknownService">>)
      /\ DOMAIN a = {"aws.local.operation"} /\ a["aws.local.operation"] = EgressOperation(s)
      /\ DOMAIN b = {"aws.remote.service"} /\ b["aws.remote.service"] = RemoteService(s)
      /\ DOMAIN c = {"aws.remote.operation"} /\ c["aws.remote.operation"] = RemoteOperation(s)
      /\ DOMAIN k = {"aws.span.kind"}
  BY OneFacts DEF Service
<1>2. DOMAIN e \subseteq DerivedKeys /\ DOMAIN u \subseteq DerivedKeys /\ DOMAIN k \subseteq DerivedKeys
  <2>1. {"aws.remote.environment", "aws.remote.db.user", "aws.span.kind"} \subseteq DerivedKeys
    BY DEF DerivedKeys
  <2>2. DOMAIN Entry("aws.remote.environment", <<"lambda:default">>) \subseteq DerivedKeys
    BY <2>1 DEF Entry
  <2>3. DOMAIN Copied(s, "aws.remote.db.user", "db.user") \subseteq DerivedKeys
    BY <2>1 DEF Copied, Entry
  <2> QED
    BY <1>1, <2>1, <2>2, <2>3
<1>3. DOMAIN r \subseteq DerivedKeys
  BY ResourceKeys
<1>4. DependencyAttributes(s) = l ++ k
  BY Zenon DEF DependencyAttributes
<1> HIDE DEF a, b, c, e, u, k, r
<1> DEFINE four == {"aws.local.service", "aws.local.operation", "aws.remote.service", "aws.remote.operation"}
<1>5. DOMAIN h = four /\ four \subseteq DerivedKeys
  <2>1. DOMAIN (Service ++ a) = {"aws.local.service", "aws.local.operation"}
    BY <1>1, JoinIs DEF Joined
  <2>2. DOMAIN (Service ++ a ++ b) = {"aws.local.service", "aws.local.operation", "aws.remote.service"}
    BY <1>1, <2>1, JoinIs DEF Joined
  <2>3. DOMAIN h = four
    BY <1>1, <2>2, JoinIs DEF Joined
  <2> QED
    BY <2>3 DEF DerivedKeys
<1>6. /\ h["aws.local.service"] = OrElse(ServiceName, <<"UnknownService">>)
      /\ h["aws.local.operation"] = EgressOperation(s)
      /\ h["aws.remote.service"] = RemoteService(s)
      /\ h["aws.remote.operation"] = RemoteOperation(s)
  <2>1. /\ DOMAIN (Service ++ a) = {"aws.local.service", "aws.local.operation"}
        /\ (Service ++ a)["aws.local.service"] = OrElse(ServiceName, <<"UnknownService">>)
        /\ (Service ++ a)["aws.local.operation"] = EgressOperation(s)
    BY <1>1, JoinIs DEF Joined
  <2>2. /\ DOMAIN (Service ++ a ++ b) = {"aws.local.service", "aws.local.operation", "aws.remote.service"}
        /\ (Service ++ a ++ b)["aws.local.service"] = OrElse(ServiceName, <<"UnknownService">>)
        /\ (Service ++ a ++ b)["aws.local.operation"] = EgressOperation(s)
        /\ (Service ++ a ++ b)["aws.remote.service"] = RemoteService(s)
    BY <1>1, <2>1, JoinIs DEF Joined
  <2> QED
    BY <1>1, <2>2, JoinIs DEF Joined
<1> HIDE DEF h
<1>7. DOMAIN i \subseteq DerivedKeys /\ \A x \in four : x \in DOMAIN i /\ i[x] = h[x]
  BY <1>3, <1>5, JoinKeeps
<1> HIDE DEF i
<1>8. DOMAIN j \subseteq DerivedKeys /\ \A x \in four : x \in DOMAIN j /\ j[x] = h[x]
  BY <1>2, <1>7, JoinKeeps
<1> HIDE DEF j
<1>9. DOMAIN l \subseteq DerivedKeys /\ \A x \in four : x \in DOMAIN l /\ l[x] = h[x]
  BY <1>2, <1>8, JoinKeeps
<1> HIDE DEF l
<1>10. DOMAIN (l ++ k) \subseteq DerivedKeys /\ \A x \in four : x \in DOMAIN (l ++ k) /\ (l ++ k)[x] = h[x]
  BY <1>2, <1>9, JoinKeeps
<1> QED
  BY <1>4, <1>6, <1>10

LEMMA SpanKeys ==
  ASSUME NEW s, NEW inLambda
  PROVE  LET d == SpanAttributes(s, inLambda)
         IN  /\ DOMAIN d \subseteq DerivedKeys
             /\ HasDependency(s) =>
                  /\ \A key \in DOMAIN DependencyAttributes(s) \ {"aws.span.kind"} :
                       key \in DOMAIN d /\ d[key] = DependencyAttributes(s)[key]
                  /\ {"aws.local.operation", "aws.remote.service", "aws.remote.operation"} \subseteq DOMAIN d
                  /\ d["aws.local.operation"] = EgressOperation(s)
                  /\ d["aws.remote.service"] = RemoteService(s)
                  /\ d["aws.remote.operation"] = RemoteOperation(s)
<1> DEFINE d == SpanAttributes(s, inLambda)
           e == DependencyAttributes(s)
           k == Entry("aws.span.kind", <<"LOCAL_ROOT">>)
           three == {"aws.local.operation", "aws.remote.service", "aws.remote.operation"}
<1>1. /\ DOMAIN e \subseteq DerivedKeys /\ three \subseteq DOMAIN e
      /\ e["aws.local.operation"] = EgressOperation(s)
      /\ e["aws.remote.service"] = RemoteService(s)
      /\ e["aws.remote.operation"] = RemoteOperation(s)
  BY DependencyKeys
<1>2. DOMAIN k = {"aws.span.kind"} /\ "aws.span.kind" \in DerivedKeys /\ "aws.span.kind" \notin three
  BY DEF Entry, DerivedKeys
<1> HIDE DEF e, k
<1>3. CASE HasDependency(s)
  <2>1. d = e \/ d = k ++ e
    BY <1>3 DEF SpanAttributes, e, k
  <2> HIDE DEF d
  <2>2. DOMAIN d \subseteq DerivedKeys /\ \A key \in DOMAIN e \ {"aws.span.kind"} : key \in DOMAIN d /\ d[key] = e[key]
    <3>1. CASE d = e
      BY <1>1, <3>1
    <3>2. CASE d = k ++ e
      BY <1>1, <1>2, <3>2, JoinIs DEF Joined
    <3> QED
      BY <2>1, <3>1, <3>2
  <2> QED
    BY <1>1, <1>2, <1>3, <2>2 DEF d, e
<1>4. CASE ~HasDependency(s)
  <2>1. d = ServiceAttributes(s, inLambda) \/ d = <<>>
    BY <1>4 DEF SpanAttributes
  <2>2. DOMAIN ServiceAttributes(s, inLambda) \subseteq DerivedKeys
    BY ServiceKeys DEF DerivedKeys
  <2> HIDE DEF d
  <2>3. DOMAIN d \subseteq DerivedKeys
    BY <2>1, <2>2
  <2> QED
    BY <1>4, <2>3 DEF d
<1> QED
  BY <1>3, <1>4

(* The names of the remote service and of the remote operation, read from  *)
(* the attributes they were put in.                                        *)
LEMMA RemoteAgain ==
  ASSUME NEW s, NEW t, Akin(s, t),
         Has(t, "aws.remote.service"), Attr(t, "aws.remote.service") = RemoteService(s),
         Has(t, "aws.remote.operation"), Attr(t, "aws.remote.operation") = RemoteOperation(s)
  PROVE  RemoteService(t) = RemoteService(s) /\ RemoteOperation(t) = RemoteOperation(s)
<1> DEFINE first == Families[1]
<1>1. /\ first.service = "aws.remote.service" /\ first.operation = "aws.remote.operation"
      /\ 1 \in DOMAIN Families /\ DOMAIN Families = 1..6
  BY DEF Families
<1>2. Family(t) = first
  <2> DEFINE N == { n \in DOMAIN Families : Present(t, Families[n]) }
  <2>1. Present(t, first)
    BY <1>1 DEF Present
  <2>2. 1 \in N /\ N \subseteq 1..6
    BY <1>1, <2>1
  <2> HIDE DEF N
  <2>3. Foremost(N) = {1}
    <3>1. \A n \in N : n \in Nat /\ 1 <= n
      BY <2>2
    <3>2. 1 \in Foremost(N)
      BY <2>2, <3>1 DEF Foremost
    <3>3. \A n \in Foremost(N) : n \in N /\ n <= 1
      BY <2>2 DEF Foremost
    <3>4. \A n \in Foremost(N) : n = 1
      BY <3>1, <3>3
    <3> QED
      BY <3>2, <3>4
  <2>4. Either({1}) = 1
    BY DEF Either
  <2> QED
    BY <2>3, <2>4 DEF Family, N
<1> HIDE DEF first
<1>3. FamilyService(t, first) = OrElse(RemoteService(s), UnknownRemoteService)
  BY <1>1 DEF FamilyService, OrElse
<1>4. FamilyOperation(t, first) = OrElse(RemoteOperation(s), UnknownRemoteOperation)
  BY <1>1 DEF FamilyOperation
<1>5. GeneratedService(t) = GeneratedService(s) /\ GeneratedOperation(t) = GeneratedOperation(s)
  BY GeneratedAkin
<1>6. RemoteService(t) = RemoteService(s)
  <2>1. RemoteService(t) = IF OrElse(RemoteService(s), UnknownRemoteService) = UnknownRemoteService
                             THEN GeneratedService(s) ELSE OrElse(RemoteService(s), UnknownRemoteService)
    BY <1>2, <1>3, <1>5 DEF RemoteService, OrElse
  <2>2. RemoteService(s) = None \/ RemoteService(s) = UnknownRemoteService => RemoteService(s) = GeneratedService(s)
    <3> DEFINE f == Family(s)
               peer == IF Has(s, "aws.remote.service") THEN None ELSE Attr(s, "peer.service")
               known == OrElse(peer, FamilyService(s, f))
    <3>1. None # UnknownRemoteService /\ \A v, w : w # None => OrElse(v, w) # None
      BY DEF None, UnknownRemoteService, OrElse
    <3>2. FamilyService(s, f) # None
      <4>1. \A v : v # None => Normalized(s, v) # None
        BY <3>1 DEF Normalized, None
      <4>2. OrElse(Attr(s, f.service), UnknownRemoteService) # None
        BY <3>1
      <4> HIDE DEF f
      <4> QED
        BY <4>1, <4>2 DEF FamilyService, None
    <3>3. known # None
      BY <3>1, <3>2
    <3>4. RemoteService(s) = IF known = UnknownRemoteService THEN GeneratedService(s) ELSE known
      BY DEF RemoteService
    <3> QED
      BY <3>1, <3>3, <3>4
  <2> QED
    BY <2>1, <2>2 DEF OrElse
<1>7. RemoteOperation(t) = RemoteOperation(s)
  <2>1. RemoteOperation(t) = IF OrElse(RemoteOperation(s), UnknownRemoteOperation) = UnknownRemoteOperation
                               THEN GeneratedOperation(s) ELSE OrElse(RemoteOperation(s), UnknownRemoteOperation)
    BY <1>2, <1>4, <1>5 DEF RemoteOperation
  <2>2. RemoteOperation(s) = None \/ RemoteOperation(s) = UnknownRemoteOperation => RemoteOperation(s) = GeneratedOperation(s)
    <3> DEFINE known == FamilyOperation(s, Family(s))
    <3>1. None # UnknownRemoteOperation /\ \A v : OrElse(v, UnknownRemoteOperation) # None
      BY DEF None, UnknownRemoteOperation, OrElse
    <3>2. known # None
      BY <3>1 DEF FamilyOperation, StatementKeyword, None
    <3>3. RemoteOperation(s) = IF known = UnknownRemoteOperation THEN GeneratedOperation(s) ELSE known
      BY DEF RemoteOperation
    <3> QED
      BY <3>1, <3>2, <3>3
  <2> QED
    BY <2>1, <2>2 DEF OrElse
<1> QED
  BY <1>6, <1>7

(* The attributes of both metrics, and those the exporter puts on a span,  *)
(* are the same once they are on it.                                       *)
LEMMA DerivedAgain ==
  ASSUME NEW s, NEW t, NEW inLambda,
         t.name = s.name, t.kind = s.kind, t.parent = s.parent, t.scope = s.scope,
         t.attrs = SpanAttributes(s, inLambda) ++ s.attrs
  PROVE  /\ Akin(s, t)
         /\ SpanAttributes(t, inLambda) = SpanAttributes(s, inLambda)
         /\ ServiceAttributes(t, inLambda) = ServiceAttributes(s, inLambda)
         /\ HasDependency(s) => DependencyAttributes(t) = DependencyAttributes(s)
<1> DEFINE d == SpanAttributes(s, inLambda)
<1>1. DOMAIN d \subseteq DerivedKeys
  BY SpanKeys
<1>2. \A key : Has(t, key) <=> key \in DOMAIN d \/ Has(s, key)
  BY JoinIs DEF Has, Joined
<1>3. \A key \in DOMAIN d : Attr(t, key) = d[key]
  <2> HIDE DEF d
  <2>1. t.attrs = d ++ s.attrs
    BY DEF d
  <2>2. \A key \in DOMAIN d : (d ++ s.attrs)[key] = d[key]
    BY JoinFacts
  <2> QED
    BY <1>2, <2>1, <2>2 DEF Attr
<1>4. \A key : key \notin DOMAIN d => Agree(s, t, key)
  <2> HIDE DEF d
  <2>1. t.attrs = d ++ s.attrs
    BY DEF d
  <2>2. \A key \in DOMAIN s.attrs : key \notin DOMAIN d => (d ++ s.attrs)[key] = s.attrs[key]
    BY JoinIs DEF Joined
  <2> QED
    BY <1>2, <2>1, <2>2 DEF Agree, Attr, Has
<1> HIDE DEF d
<1>5. Akin(s, t)
  BY <1>1, <1>4 DEF Akin
<1>6. ServiceAttributes(t, inLambda) = ServiceAttributes(s, inLambda)
  BY <1>5, ServiceAkin
<1>7. ASSUME HasDependency(s) PROVE DependencyAttributes(t) = DependencyAttributes(s)
  <2>1. /\ {"aws.local.operation", "aws.remote.service", "aws.remote.operation"} \subseteq DOMAIN d
        /\ d["aws.local.operation"] = EgressOperation(s)
        /\ d["aws.remote.service"] = RemoteService(s)
        /\ d["aws.remote.operation"] = RemoteOperation(s)
    BY <1>7, SpanKeys DEF d
  <2>2. /\ Has(t, "aws.remote.service") /\ Attr(t, "aws.remote.service") = RemoteService(s)
        /\ Has(t, "aws.remote.operation") /\ Attr(t, "aws.remote.operation") = RemoteOperation(s)
        /\ Attr(t, "aws.local.operation") = EgressOperation(s)
    BY <1>2, <1>3, <2>1
  <2>3. RemoteService(t) = RemoteService(s) /\ RemoteOperation(t) = RemoteOperation(s)
    BY <1>5, <2>2, RemoteAgain
  <2>4. EgressOperation(t) = EgressOperation(s)
    <3>1. UsesInternal(t) <=> UsesInternal(s)
      BY <1>5, KindsAkin
    <3>2. \A v : OrElse(OrElse(v, UnknownOperation), UnknownOperation) = OrElse(v, UnknownOperation)
      BY DEF OrElse
    <3> QED
      BY <2>2, <3>1, <3>2 DEF EgressOperation
  <2>5. ResourceAttributes(t) = ResourceAttributes(s)
    BY <1>5, ResourceAkin, OwnerAkin, Zenon DEF ResourceAttributes
  <2>6. /\ LambdaInvoke(t) <=> LambdaInvoke(s)
        /\ Db(t) <=> Db(s)
        /\ Copied(t, "aws.remote.db.user", "db.user") = Copied(s, "aws.remote.db.user", "db.user")
    <3>1. Agree(s, t, "db.user")
      BY <1>5 DEF Akin, DerivedKeys
    <3> QED
      BY <1>5, <3>1, KindsAkin DEF Copied, Agree
  <2> QED
    BY <2>3, <2>4, <2>5, <2>6 DEF DependencyAttributes
<1>8. (HasService(t) <=> HasService(s)) /\ (HasDependency(t) <=> HasDependency(s))
  BY <1>5, KindsAkin
<1>9. SpanAttributes(t, inLambda) = SpanAttributes(s, inLambda)
  BY <1>6, <1>7, <1>8 DEF SpanAttributes
<1> QED
  BY <1>5, <1>6, <1>7, <1>9

-----------------------------------------------------------------------------
(* What is derived from a span for its metrics and for the exporter.       *)

FieldsInv ==
  \A i \in Spans : /\ Phase(i) \in {"started", "updated", "over"} => Fields \subseteq DOMAIN live[i]
                   /\ Phase(i) = "over" => Fields \subseteq DOMAIN ended[i]

Derived(i) == SpanAttributes(ended[i], env.lambda)
Includes(attrs, d) == \A key \in DOMAIN d : key \in DOMAIN attrs /\ attrs[key] = d[key]
Carries(i, attrs)  == Includes(attrs, Derived(i))

(* No exporter of the sampling decision owns an LLOHandler.                *)
NoLlo == \A p \in Workers : Takes(p) => ~ExporterOf(p).llo

MeasureInv == \A m \in metrics : env.signals /\ ~env.lambda /\ m.span \in Over
WriteInv   == \A p \in Workers : batch[p].step = "write" => ExporterOf(p).wraps \/ ExporterOf(p).llo

MetricOf(i, m) ==
  \/ m.kind = "service" /\ HasService(ended[i]) /\ m.attrs = ServiceAttributes(ended[i], env.lambda)
  \/ m.kind = "dependency" /\ HasDependency(ended[i]) /\ m.attrs = DependencyAttributes(ended[i])

(* What an exporter has in hand, has done of its batch and has delivered.  *)
BatchCarries(b) ==
  /\ b.step = "write" => b.attrs = Derived(b.spans[b.at]) ++ ended[b.spans[b.at]].attrs
  /\ \A n \in DOMAIN b.spans : n < b.at => Carries(b.spans[n], ended[b.spans[n]].attrs)

SentCarries(s) == \A n \in DOMAIN s : Carries(s[n].span, s[n].attrs)

MatchInv ==
  NoLlo => /\ \A m \in metrics : MetricOf(m.span, m)
           /\ \A p \in Workers : ExporterOf(p).wraps => BatchCarries(batch[p]) /\ SentCarries(sent[p])

AInv == FieldsInv /\ MeasureInv /\ WriteInv /\ MatchInv

LEMMA SceneFields == ASSUME SetupInv PROVE \A i \in Spans : Fields \subseteq DOMAIN scene[i]
<1> DEFINE c == [env |-> env, scene |-> scene]
<1>1. c \in Cases /\ c.scene = scene
  BY DEF SetupInv
<1> HIDE DEF c
<1>2. \A i \in DOMAIN c.scene : Fields \subseteq DOMAIN c.scene[i]
  BY <1>1, PipelineAssumption
<1> QED
  BY <1>1, <1>2 DEF Spans

(* An exporter replaces the attributes and the events of the span it has   *)
(* in hand.                                                                *)
LEMMA ReplaceFacts ==
  ASSUME TInv, FieldsInv, NEW p \in Workers, Replace(p)
  PROVE  LET i == InHand(p)
         IN  /\ i \in Over /\ batch[p].at \in DOMAIN batch[p].spans
             /\ \A j \in Spans : j # i => ended'[j] = ended[j]
             /\ \A j \in Spans : DOMAIN ended'[j] = DOMAIN ended[j]
             /\ ended'[i].name = ended[i].name /\ ended'[i].kind = ended[i].kind
             /\ ended'[i].parent = ended[i].parent /\ ended'[i].scope = ended[i].scope
             /\ ended'[i].attrs = batch[p].attrs
<1> DEFINE i == InHand(p)
           b == batch[p]
<1>1. i \in Over /\ i \in Spans /\ b.at \in DOMAIN b.spans
  <2>1. IsBatch(b, Over) /\ b.step = "write"
    BY DEF TInv, WorkInv, Replace
  <2> QED
    BY <2>1, ElementOfSeq, LenProperties DEF IsBatch, InHand, Over
<1>2. \E new : ended' = [ended EXCEPT ![i] = [[ended[i] EXCEPT !.attrs = b.attrs] EXCEPT !.events = new]]
  BY <1>1 DEF Replace, TInv, LiveInv
<1>3. DOMAIN ended = Spans /\ Fields \subseteq DOMAIN ended[i]
  BY <1>1 DEF TInv, LiveInv, FieldsInv, Over
<1>4. i = InHand(p) /\ b = batch[p]
  OBVIOUS
<1> HIDE DEF i, b
<1> QED
  BY <1>1, <1>2, <1>3, <1>4 DEF Fields

LEMMA FieldsStep == TInv /\ FieldsInv /\ [Next]_vars => FieldsInv'
<1> SUFFICES ASSUME TInv, FieldsInv, [Next]_vars PROVE FieldsInv'
  OBVIOUS
<1>1. Spans' = Spans /\ DOMAIN live = Spans /\ DOMAIN ended = Spans
  BY SetupKept, Same DEF TInv, LiveInv
<1>2. \A i : Phase(i)' = live'[i].state /\ Phase(i) = live[i].state
  BY DEF Phase
<1>3. \A i \in Spans : "state" \in DOMAIN live[i]
  BY DEF TInv, LiveInv
<1>4. ASSUME NEW n \in Spans, Start(n) PROVE FieldsInv'
  <2>1. ended' = ended /\ Phase(n) = "none"
    BY <1>4 DEF Start
  <2>2. CASE Unseen(n)
    <3>1. live' = [live EXCEPT ![n] = Absent]
      BY <1>4, <2>2 DEF Start
    <3>2. \A i \in Spans : i # n => live'[i] = live[i]
      BY <1>1, <3>1
    <3>3. live'[n].state = "absent"
      BY <1>1, <3>1 DEF Absent
    <3> QED
      BY <1>1, <1>2, <2>1, <3>2, <3>3 DEF FieldsInv
  <2>3. CASE ~Unseen(n)
    <3> DEFINE own == Started(n).span
               above == Started(n).up.attrs
               over(s) == [s EXCEPT !.attrs = above]
    <3>1. live' = [i \in Spans |-> IF i = n THEN Recording(n, own)
                                   ELSE IF Local(n) /\ i = scene[n].up THEN over(live[i]) ELSE live[i]]
      BY <1>4, <2>3 DEF Start
    <3>2. Fields \subseteq DOMAIN Recording(n, own) /\ Recording(n, own).state = "started"
      BY SceneFields DEF TInv, Recording
    <3>3. \A i \in Spans : DOMAIN over(live[i]) = DOMAIN live[i] /\ over(live[i]).state = live[i].state
      BY <1>3
    <3> HIDE DEF own, above, over
    <3>4. live'[n] = Recording(n, own)
      BY <3>1
    <3>5. \A i \in Spans : i # n => DOMAIN live'[i] = DOMAIN live[i] /\ live'[i].state = live[i].state
      BY <3>1, <3>3
    <3> QED
      BY <1>1, <1>2, <2>1, <3>2, <3>4, <3>5 DEF FieldsInv
  <2> QED
    BY <2>2, <2>3
<1>5. ASSUME NEW n \in Spans, Update(n) PROVE FieldsInv'
  <2>1. ended' = ended /\ Phase(n) = "started"
    BY <1>5 DEF Update
  <2>2. \E name, attrs : live' = [live EXCEPT ![n] = [[[live[n] EXCEPT !.state = "updated"] EXCEPT !.name = name] EXCEPT !.attrs = attrs]]
    BY <1>1, <1>5 DEF Update
  <2>3. DOMAIN live'[n] = DOMAIN live[n] /\ \A i \in Spans : i # n => live'[i] = live[i]
    BY <1>1, <2>2
  <2>4. live'[n].state = "updated"
    BY <1>1, <1>3, <2>2
  <2> QED
    BY <1>1, <1>2, <2>1, <2>3, <2>4 DEF FieldsInv
<1>6. ASSUME NEW n \in Spans, End(n) PROVE FieldsInv'
  <2>1. Phase(n) \in {"started", "updated"}
    BY <1>6 DEF End, IsOpen, Phase
  <2>2. /\ ended'[n] = live[n] /\ live'[n].state = "over" /\ DOMAIN live'[n] = DOMAIN live[n]
        /\ \A i \in Spans : i # n => ended'[i] = ended[i] /\ live'[i] = live[i]
    BY <1>1, <1>3, <1>6 DEF End
  <2> QED
    BY <1>1, <1>2, <2>1, <2>2 DEF FieldsInv
<1>7. ASSUME NEW p \in Workers, Replace(p) PROVE FieldsInv'
  <2>1. live' = live
    BY <1>7 DEF Replace
  <2>2. \A j \in Spans : DOMAIN ended'[j] = DOMAIN ended[j]
    BY <1>7, ReplaceFacts
  <2> QED
    BY <1>1, <1>2, <2>1, <2>2 DEF FieldsInv
<1>8. ASSUME UNCHANGED <<live, ended>> PROVE FieldsInv'
  BY <1>1, <1>2, <1>8 DEF FieldsInv
<1>9. ASSUME NEW i \in Spans, OnEnd(i) PROVE UNCHANGED <<live, ended>>
  BY <1>9 DEF OnEnd, Refuse, Check, Enqueue, Measure
<1>10. ASSUME NEW p \in Workers, Take(p) \/ Generate(p) \/ Process(p) \/ Deliver(p) \/ Fail(p) \/ Exit(p) \/ Shutdown(p)
       PROVE  UNCHANGED <<live, ended>>
  BY <1>10 DEF Take, Generate, Process, Deliver, Fail, Exit, Shutdown
<1>11. UNCHANGED vars => UNCHANGED <<live, ended>>
  BY DEF vars
<1> QED
  BY <1>4, <1>5, <1>6, <1>7, <1>8, <1>9, <1>10, <1>11 DEF Next, Work

(* A processor has spans of its decision only.                             *)
LEMMA Decided ==
  ASSUME TInv, Conserved, NEW p \in Workers
  PROVE  /\ Busy(p) => Takes(p)
         /\ sent[p] # <<>> => Takes(p)
<1>1. \A i \in Spans : ~Takes(p) => Count(batch[p].spans, i) = 0 /\ Count(SentSpans(p), i) = 0
  <2> SUFFICES ASSUME NEW i \in Spans, ~Takes(p) PROVE Count(batch[p].spans, i) = 0 /\ Count(SentSpans(p), i) = 0
    OBVIOUS
  <2>1. Times(p, i) = 0
    BY DEF Conserved
  <2>2. Times(p, i) = Count(queue[p], i) + Count(batch[p].spans, i) + Count(SentSpans(p), i) + Cardinality(Losses(lost, p, i))
    BY TimesTally DEF Tally
  <2> QED
    BY <2>1, <2>2, TallyFacts
<1>2. \A s \in Seq(Over) : s # <<>> => \E i \in Spans : Count(s, i) # 0
  <2> SUFFICES ASSUME NEW s \in Seq(Over), s # <<>> PROVE \E i \in Spans : Count(s, i) # 0
    OBVIOUS
  <2>1. 1 \in DOMAIN s /\ s[1] \in Over
    BY EmptySeq, LenProperties, ElementOfSeq
  <2>2. Count(s, s[1]) # 0
    BY <2>1, CountFacts
  <2> QED
    BY <2>1, <2>2 DEF Over
<1>3. batch[p].spans \in Seq(Over) /\ SentSpans(p) \in Seq(Over)
  BY TallyFacts
<1>4. Busy(p) => Takes(p)
  BY <1>1, <1>2, <1>3 DEF Busy
<1>5. sent[p] # <<>> => Takes(p)
  <2>1. SentSpans(p) = <<>> => sent[p] = <<>>
    <3>1. sent[p] \in Seq(Range(sent[p])) /\ DOMAIN SentSpans(p) = DOMAIN sent[p]
      BY DEF TInv, WorkInv, SentSpans
    <3>2. DOMAIN sent[p] = {} => sent[p] = <<>>
      <4> DEFINE s == sent[p]
                 S == Range(s)
      <4>1. s \in Seq(S)
        BY <3>1
      <4> HIDE DEF s, S
      <4>2. Len(s) \in Nat /\ DOMAIN s = 1..Len(s) /\ (s = <<>> <=> Len(s) = 0)
        BY <4>1, LenProperties, EmptySeq
      <4>3. DOMAIN s = {} => s = <<>>
        BY <4>2
      <4> QED
        BY <4>3 DEF s
    <3> QED
      BY <3>1, <3>2
  <2> QED
    BY <1>1, <1>2, <1>3, <2>1
<1> QED
  BY <1>4, <1>5

(* What is derived from a span that is over stays.                         *)
Steady(i) ==
  /\ Derived(i)' = Derived(i)
  /\ HasService(ended[i])' <=> HasService(ended[i])
  /\ ServiceAttributes(ended[i], env.lambda)' = ServiceAttributes(ended[i], env.lambda)
  /\ HasDependency(ended[i])' <=> HasDependency(ended[i])
  /\ HasDependency(ended[i]) => DependencyAttributes(ended[i])' = DependencyAttributes(ended[i])
  /\ ended'[i].attrs = ended[i].attrs \/ ended'[i].attrs = Derived(i) ++ ended[i].attrs

LEMMA WriterWraps ==
  ASSUME TInv, Conserved, AInv, NoLlo, NEW p \in Workers, Replace(p)
  PROVE  ExporterOf(p).wraps /\ batch[p].attrs = Derived(InHand(p)) ++ ended[InHand(p)].attrs
<1>1. Busy(p) /\ batch[p].step = "write"
  BY DEF Replace
<1>2. ~ExporterOf(p).llo
  BY <1>1, Decided DEF NoLlo
<1>3. ExporterOf(p).wraps
  BY <1>1, <1>2 DEF AInv, WriteInv
<1> QED
  BY <1>1, <1>3 DEF AInv, MatchInv, BatchCarries, InHand

(* A ReadableSpan is made at the end of its span, and changed by exporters *)
(* only.                                                                   *)
LEMMA EndedSteps ==
  ASSUME TInv, FieldsInv, [Next]_vars, NEW i \in Spans
  PROVE  ended'[i] = ended[i] \/ End(i) \/ \E p \in Workers : Replace(p) /\ i = InHand(p)
<1>1. ASSUME NEW p \in Workers, Replace(p), i # InHand(p) PROVE ended'[i] = ended[i]
  BY <1>1, ReplaceFacts
<1>2. ASSUME NEW n \in Spans, End(n), n # i PROVE ended'[i] = ended[i]
  BY <1>2 DEF End, TInv, LiveInv
<1>3. ASSUME NEW n \in Spans, Start(n) \/ Update(n) \/ OnEnd(n) PROVE ended' = ended
  BY <1>3 DEF Start, Update, OnEnd, Refuse, Check, Enqueue, Measure
<1>4. ASSUME NEW p \in Workers, Take(p) \/ Generate(p) \/ Process(p) \/ Deliver(p) \/ Fail(p) \/ Exit(p) \/ Shutdown(p)
      PROVE  ended' = ended
  BY <1>4 DEF Take, Generate, Process, Deliver, Fail, Exit, Shutdown
<1>5. UNCHANGED vars => ended' = ended
  BY DEF vars
<1> QED
  BY <1>1, <1>2, <1>3, <1>4, <1>5 DEF Next, Work

LEMMA SpansSteady ==
  ASSUME TInv, Conserved, AInv, NoLlo, [Next]_vars, NEW i \in Over
  PROVE  Steady(i)
<1>1. env' = env
  BY SetupKept
<1>2. i \in Spans
  BY DEF Over
<1>3. CASE ended'[i] = ended[i]
  BY <1>1, <1>3 DEF Steady, Derived
<1>4. ASSUME NEW p \in Workers, Replace(p), i = InHand(p) PROVE Steady(i)
  <2> DEFINE s == ended[i]
             t == ended'[i]
  <2>1. /\ t.name = s.name /\ t.kind = s.kind /\ t.parent = s.parent /\ t.scope = s.scope
        /\ t.attrs = batch[p].attrs
    BY <1>4, ReplaceFacts DEF AInv
  <2>2. t.attrs = SpanAttributes(s, env.lambda) ++ s.attrs
    BY <1>4, <2>1, WriterWraps DEF Derived
  <2> HIDE DEF s, t
  <2>3. /\ Akin(s, t)
        /\ SpanAttributes(t, env.lambda) = SpanAttributes(s, env.lambda)
        /\ ServiceAttributes(t, env.lambda) = ServiceAttributes(s, env.lambda)
        /\ HasDependency(s) => DependencyAttributes(t) = DependencyAttributes(s)
    BY <2>1, <2>2, DerivedAgain
  <2>4. (HasService(t) <=> HasService(s)) /\ (HasDependency(t) <=> HasDependency(s))
    BY <2>3, KindsAkin
  <2> QED
    BY <1>1, <2>2, <2>3, <2>4 DEF Steady, Derived, s, t
<1>5. ~End(i)
  BY DEF End, IsOpen, Over, Phase
<1> QED
  BY <1>2, <1>3, <1>4, <1>5, EndedSteps DEF AInv

(* The measuring of a span.                                                *)
LEMMA MeasureFacts ==
  ASSUME TInv, NEW i \in Spans, NEW p \in DOMAIN Pipeline, Measure(i, p)
  PROVE  /\ i \in Over /\ env.signals /\ ~env.lambda /\ UNCHANGED <<env, ended>>
         /\ \A m \in metrics' : m \in metrics \/ (m.span = i /\ MetricOf(i, m))
<1>1. i \in Over
  BY OnEndFacts
<1>2. env.signals /\ ~env.lambda
  <2>1. Pipeline[p].type = "metrics" /\ Pipeline[p] \in Parts(env)
    BY PipelineFacts DEF TInv, Measure
  <2>2. "metrics" \in PlainTypes(env)
    BY <2>1, PartTypes
  <2> QED
    BY <2>2 DEF PlainTypes
<1>3. UNCHANGED <<env, ended>>
  BY DEF Measure
<1>4. \A m \in MetricsOf(i) : m.span = i /\ MetricOf(i, m)
  BY DEF MetricsOf, Metric, MetricOf
<1>5. \A m \in metrics' : m \in metrics \/ m \in MetricsOf(i)
  BY DEF Measure
<1> QED
  BY <1>1, <1>2, <1>3, <1>4, <1>5

LEMMA MetricsStep ==
  ASSUME [Next]_vars
  PROVE  \/ metrics' = metrics
         \/ \E i \in Spans : \E p \in DOMAIN Pipeline : Measure(i, p)
<1>1. ASSUME NEW i \in Spans, OnEnd(i) PROVE metrics' = metrics \/ \E p \in DOMAIN Pipeline : Measure(i, p)
  BY <1>1 DEF OnEnd, Refuse, Check, Enqueue
<1>2. ASSUME NEW i \in Spans, Start(i) \/ Update(i) \/ End(i) PROVE metrics' = metrics
  BY <1>2 DEF Start, Update, End
<1>3. ASSUME NEW p \in Workers, Work(p) \/ Shutdown(p) PROVE metrics' = metrics
  BY <1>3 DEF Work, Take, Generate, Process, Replace, Deliver, Fail, Exit, Shutdown
<1> QED
  BY <1>1, <1>2, <1>3 DEF Next, vars

LEMMA JoinIncludes == \A d, f : Includes(d ++ f, d)
BY JoinFacts DEF Includes

(* After a step.                                                           *)
NextDerived(i) == SpanAttributes(ended'[i], env'.lambda)

NextCarries(b) ==
  /\ b.step = "write" => b.attrs = NextDerived(b.spans[b.at]) ++ ended'[b.spans[b.at]].attrs
  /\ \A n \in DOMAIN b.spans : n < b.at => Includes(ended'[b.spans[n]].attrs, NextDerived(b.spans[n]))

(* A batch is carried over a step, and so is one whose span in hand is.    *)
LEMMA BatchKept ==
  ASSUME NEW b, IsBatch(b, Over), BatchCarries(b), \A i \in Over : Steady(i)
  PROVE  /\ NextCarries(b)
         /\ /\ b.at \in DOMAIN b.spans
            /\ \/ ended'[b.spans[b.at]].attrs = Derived(b.spans[b.at]) ++ ended[b.spans[b.at]].attrs
               \/ Includes(ended'[b.spans[b.at]].attrs, Derived(b.spans[b.at]))
            => NextCarries(Advance(b))
<1>1. \A n \in DOMAIN b.spans : b.spans[n] \in Over
  BY ElementOfSeq, LenProperties DEF IsBatch
<1>2. \A i \in Over : NextDerived(i) = Derived(i)
  BY DEF Steady, NextDerived, Derived
<1>3. ASSUME b.step = "write" PROVE b.attrs = NextDerived(b.spans[b.at]) ++ ended'[b.spans[b.at]].attrs
  <2> DEFINE i == b.spans[b.at]
             d == Derived(i)
  <2>1. i \in Over /\ b.attrs = d ++ ended[i].attrs
    BY <1>1, <1>3 DEF IsBatch, BatchCarries
  <2>2. NextDerived(i) = d /\ (ended'[i].attrs = ended[i].attrs \/ ended'[i].attrs = d ++ ended[i].attrs)
    BY <1>2, <2>1 DEF Steady
  <2> HIDE DEF d, i
  <2>3. d ++ (d ++ ended[i].attrs) = d ++ ended[i].attrs
    BY JoinFacts
  <2>4. b.attrs = NextDerived(i) ++ ended'[i].attrs
    BY <2>1, <2>2, <2>3
  <2> QED
    BY <2>4 DEF i
<1>4. ASSUME NEW n \in DOMAIN b.spans, n < b.at
      PROVE  Includes(ended'[b.spans[n]].attrs, NextDerived(b.spans[n]))
  <2> DEFINE i == b.spans[n]
             d == Derived(i)
  <2>1. i \in Over /\ Includes(ended[i].attrs, d)
    BY <1>1, <1>4 DEF BatchCarries, Carries
  <2>2. NextDerived(i) = d /\ (ended'[i].attrs = ended[i].attrs \/ ended'[i].attrs = d ++ ended[i].attrs)
    BY <1>2, <2>1 DEF Steady
  <2> HIDE DEF d, i
  <2>3. Includes(ended'[i].attrs, NextDerived(i))
    BY <2>1, <2>2, JoinIncludes
  <2> QED
    BY <2>3 DEF i
<1>5. ASSUME b.at \in DOMAIN b.spans,
             \/ ended'[b.spans[b.at]].attrs = Derived(b.spans[b.at]) ++ ended[b.spans[b.at]].attrs
             \/ Includes(ended'[b.spans[b.at]].attrs, Derived(b.spans[b.at]))
      PROVE  NextCarries(Advance(b))
  <2> DEFINE i == b.spans[b.at]
             d == Derived(i)
             c == Advance(b)
  <2>1. NextDerived(i) = d /\ (ended'[i].attrs = d ++ ended[i].attrs \/ Includes(ended'[i].attrs, d))
    BY <1>1, <1>2, <1>5
  <2>2. c.spans = b.spans /\ c.at = b.at + 1 /\ c.step = "read"
    BY DEF IsBatch, Advance
  <2>3. \A n \in DOMAIN b.spans : n < b.at + 1 => n < b.at \/ n = b.at
    <3>1. DOMAIN b.spans = 1..Len(b.spans) /\ Len(b.spans) \in Nat /\ b.at \in Nat
      BY LenProperties DEF IsBatch
    <3> QED
      BY <3>1
  <2> HIDE DEF d, i, c
  <2>4. Includes(ended'[i].attrs, NextDerived(i))
    BY <2>1, JoinIncludes
  <2>5. NextCarries(c)
    BY <1>4, <2>2, <2>3, <2>4 DEF NextCarries, i
  <2> QED
    BY <2>5 DEF c
<1>6. NextCarries(b)
  BY <1>3, <1>4 DEF NextCarries
<1> QED
  BY <1>5, <1>6

LEMMA IdleCarries == ASSUME NEW s, NEW b, b = [Idle EXCEPT !.spans = s], s \in Seq(Over) PROVE NextCarries(b)
<1>1. b.at = 1 /\ b.step = "read" /\ b.spans = s
  BY DEF Idle
<1>2. \A n \in DOMAIN s : ~(n < 1)
  BY LenProperties
<1> QED
  BY <1>1, <1>2 DEF NextCarries

(* The exporter of a processor that wraps, step by step.                   *)
LEMMA BatchStep ==
  ASSUME TInv, Conserved, AInv, NoLlo, NEW p \in Workers, ExporterOf(p).wraps, [Next]_vars
  PROVE  NextCarries(batch'[p])
<1>1. \A i \in Over : Steady(i)
  BY SpansSteady
<1>2. IsBatch(batch[p], Over) /\ BatchCarries(batch[p]) /\ DOMAIN batch = Workers
  BY DEF TInv, WorkInv, AInv, MatchInv
<1>3. /\ NextCarries(batch[p])
      /\ /\ batch[p].at \in DOMAIN batch[p].spans
         /\ \/ ended'[InHand(p)].attrs = Derived(InHand(p)) ++ ended[InHand(p)].attrs
            \/ Includes(ended'[InHand(p)].attrs, Derived(InHand(p)))
         => NextCarries(Advance(batch[p]))
  BY <1>1, <1>2, BatchKept DEF InHand
<1>4. CASE batch'[p] = batch[p]
  BY <1>3, <1>4
<1>5. CASE batch'[p] = Idle
  <2>1. Idle = [Idle EXCEPT !.spans = <<>>] /\ <<>> \in Seq(Over)
    BY EmptySeq DEF Idle
  <2> QED
    BY <1>5, <2>1, IdleCarries
<1>6. CASE Take(p)
  <2> DEFINE n == IF Len(queue[p]) < BatchSize THEN Len(queue[p]) ELSE BatchSize
             s == SubSeq(queue[p], 1, n)
  <2>1. queue[p] \in Seq(Over)
    BY DEF TInv, WorkInv
  <2>2. n \in 0..Len(queue[p])
    BY <2>1, PipelineAssumption, LenProperties
  <2>3. s \in Seq(Over)
    <3> HIDE DEF n
    <3> QED
      BY <2>1, <2>2, CountSplit
  <2>4. batch' = [batch EXCEPT ![p] = [Idle EXCEPT !.spans = s]]
    BY <1>6 DEF Take
  <2> HIDE DEF s, n
  <2>5. batch'[p] = [Idle EXCEPT !.spans = s]
    BY <1>2, <2>4
  <2> QED
    BY <2>3, <2>5, IdleCarries
<1>7. CASE Generate(p)
  <2> DEFINE i == InHand(p)
             b == batch[p]
  <2>1. b.at \in DOMAIN b.spans /\ UNCHANGED <<env, ended>>
    <3>1. b.at <= Len(b.spans) /\ b.at \in Nat \ {0} /\ DOMAIN b.spans = 1..Len(b.spans) /\ Len(b.spans) \in Nat
      BY <1>2, <1>7, LenProperties DEF Generate, Prepared, IsBatch
    <3> QED
      BY <1>7, <3>1 DEF Generate
  <2>2. IF Raises(ended[i]) THEN Lose(p, "raised")
        ELSE batch' = [batch EXCEPT ![p] = IF Derived(i) = None THEN Advance(b)
                                           ELSE [[b EXCEPT !.step = "write"] EXCEPT !.attrs = Derived(i) ++ ended[i].attrs]]
    BY <1>2, <1>7 DEF Generate, Derived
  <2>3. CASE Raises(ended[i])
    <3>1. batch'[p] = Idle
      BY <1>2, <2>2, <2>3 DEF Lose
    <3> QED
      BY <1>5, <3>1
  <2>4. CASE ~Raises(ended[i]) /\ Derived(i) = None
    <3>1. batch'[p] = Advance(b)
      BY <1>2, <2>2, <2>4
    <3>2. Includes(ended[i].attrs, Derived(i))
      BY <2>4 DEF Includes, None
    <3> QED
      BY <1>3, <2>1, <3>1, <3>2
  <2>5. CASE ~Raises(ended[i]) /\ Derived(i) # None
    <3> DEFINE c == [[b EXCEPT !.step = "write"] EXCEPT !.attrs = Derived(i) ++ ended[i].attrs]
    <3>1. batch'[p] = c
      BY <1>2, <2>2, <2>5
    <3>2. /\ c.spans = b.spans /\ c.at = b.at /\ c.step = "write" /\ c.attrs = Derived(i) ++ ended[i].attrs
          /\ DOMAIN c = DOMAIN b
      BY <1>2 DEF IsBatch
    <3> HIDE DEF c
    <3>3. BatchCarries(c)
      <4>1. BatchCarries(b) /\ i = b.spans[b.at]
        BY <1>2 DEF InHand
      <4> HIDE DEF b, i
      <4> QED
        BY <3>2, <4>1 DEF BatchCarries
    <3>4. IsBatch(c, Over)
      <4>1. IsBatch(b, Over)
        BY <1>2
      <4> HIDE DEF b
      <4> QED
        BY <2>1, <3>2, <4>1 DEF IsBatch
    <3> QED
      BY <1>1, <3>1, <3>3, <3>4, BatchKept
  <2> QED
    BY <2>3, <2>4, <2>5
<1>8. CASE Replace(p)
  <2>1. batch'[p] = Advance(batch[p])
    BY <1>2, <1>8 DEF Replace
  <2>2. batch[p].at \in DOMAIN batch[p].spans /\ ended'[InHand(p)].attrs = Derived(InHand(p)) ++ ended[InHand(p)].attrs
    BY <1>8, ReplaceFacts, WriterWraps DEF AInv
  <2> QED
    BY <1>3, <2>1, <2>2
<1>9. ASSUME NEW i \in Spans, Start(i) \/ Update(i) \/ End(i) \/ OnEnd(i) PROVE batch' = batch
  BY <1>9 DEF Start, Update, End, OnEnd, Refuse, Check, Enqueue, Measure
<1>10. ASSUME NEW q \in Workers, Work(q) \/ Shutdown(q), q # p PROVE batch'[p] = batch[p]
  BY <1>2, <1>10 DEF Work, Take, Generate, Process, Replace, Deliver, Fail, Exit, Shutdown, Lose
<1>11. ~Process(p)
  BY Decided DEF Process, NoLlo
<1>12. Deliver(p) \/ Fail(p) => batch'[p] = Idle
  BY <1>2 DEF Deliver, Fail, Lose
<1>13. Exit(p) \/ Shutdown(p) \/ UNCHANGED vars => batch'[p] = batch[p]
  BY DEF Exit, Shutdown, vars
<1> QED
  BY <1>4, <1>5, <1>6, <1>7, <1>8, <1>9, <1>10, <1>11, <1>12, <1>13 DEF Next, Work

LEMMA SentStep ==
  ASSUME TInv, Conserved, AInv, NoLlo, NEW p \in Workers, ExporterOf(p).wraps, [Next]_vars
  PROVE  \A n \in DOMAIN sent'[p] : Includes(sent'[p][n].attrs, NextDerived(sent'[p][n].span))
<1> DEFINE s == sent[p]
           b == batch[p].spans
           t == [n \in DOMAIN b |-> Delivery(b[n])]
<1>1. \A i \in Over : NextDerived(i) = Derived(i)
  BY SpansSteady DEF Steady, NextDerived, Derived
<1>2. \A n \in DOMAIN s : s[n].span \in Over /\ Includes(s[n].attrs, Derived(s[n].span))
  <2>1. SentSpans(p) \in Seq(Over) /\ DOMAIN SentSpans(p) = DOMAIN s /\ \A n \in DOMAIN s : SentSpans(p)[n] = s[n].span
    BY DEF TInv, WorkInv, SentSpans
  <2>2. \A n \in DOMAIN s : s[n].span \in Over
    BY <2>1, ElementOfSeq, LenProperties
  <2> QED
    BY <2>2 DEF AInv, MatchInv, SentCarries, Carries
<1>3. CASE sent'[p] = sent[p]
  BY <1>1, <1>2, <1>3
<1>4. CASE Deliver(p)
  <2>1. sent'[p] = s \o t /\ UNCHANGED <<env, ended>> /\ Prepared(p)
    BY <1>4 DEF Deliver, TInv, WorkInv
  <2>2. IsBatch(batch[p], Over) /\ BatchCarries(batch[p]) /\ s \in Seq(Range(s))
    BY DEF TInv, WorkInv, AInv, MatchInv
  <2>3. Len(b) \in Nat /\ DOMAIN b = 1..Len(b) /\ batch[p].at \in Nat
    BY <2>2, LenProperties DEF IsBatch
  <2>4. \A k \in DOMAIN b : b[k] \in Over /\ k < batch[p].at
    <3>1. batch[p].at > Len(b)
      BY <2>1 DEF Prepared
    <3>2. \A k \in DOMAIN b : b[k] \in Over
      BY <2>2, ElementOfSeq, LenProperties DEF IsBatch
    <3> QED
      BY <2>3, <3>1, <3>2
  <2>5. \A k \in DOMAIN b : t[k].span = b[k] /\ t[k].attrs = ended[b[k]].attrs
    BY DEF Delivery
  <2>6. \A k \in DOMAIN b : Includes(t[k].attrs, NextDerived(t[k].span))
    <3>1. \A k \in DOMAIN b : Includes(ended[b[k]].attrs, Derived(b[k]))
      BY <2>2, <2>4 DEF BatchCarries, Carries
    <3> HIDE DEF t, b
    <3> QED
      BY <1>1, <2>4, <2>5, <3>1
  <2>7. t \in Seq(Range(t)) /\ Len(t) = Len(b)
    <3>1. DOMAIN t = 1..Len(b) /\ \A n \in 1..Len(b) : t[n] \in Range(t)
      BY <2>3 DEF Range
    <3>2. t \in [1..Len(b) -> Range(t)]
      BY <3>1
    <3> HIDE DEF t, b
    <3> QED
      BY <2>3, <3>2, SeqDef, LenProperties
  <2> DEFINE S == Range(s) \cup Range(t)
             u == s \o t
  <2>8. s \in Seq(S) /\ t \in Seq(S)
    BY <2>2, <2>7, SeqMonotonic
  <2> HIDE DEF s, t, b, S
  <2>9. /\ u \in Seq(S) /\ Len(u) = Len(s) + Len(t) /\ DOMAIN u = 1..Len(u)
        /\ \A n \in 1..(Len(s) + Len(t)) : u[n] = IF n <= Len(s) THEN s[n] ELSE t[n - Len(s)]
    <3>1. /\ u \in Seq(S) /\ Len(u) = Len(s) + Len(t)
          /\ \A n \in 1..(Len(s) + Len(t)) : u[n] = IF n <= Len(s) THEN s[n] ELSE t[n - Len(s)]
      BY <2>8, ConcatProperties
    <3> HIDE DEF u
    <3> QED
      BY <3>1, LenProperties
  <2>10. Len(s) \in Nat /\ DOMAIN s = 1..Len(s)
    BY <2>8, LenProperties
  <2> HIDE DEF u
  <2>11. \A n \in DOMAIN u : Includes(u[n].attrs, NextDerived(u[n].span))
    <3> SUFFICES ASSUME NEW n \in DOMAIN u PROVE Includes(u[n].attrs, NextDerived(u[n].span))
      OBVIOUS
    <3>1. CASE n <= Len(s)
      <4>1. n \in DOMAIN s /\ u[n] = s[n]
        BY <2>7, <2>9, <2>10, <2>3, <3>1
      <4> QED
        BY <1>1, <1>2, <4>1
    <3>2. CASE ~(n <= Len(s))
      <4>1. n - Len(s) \in DOMAIN b /\ u[n] = t[n - Len(s)]
        BY <2>7, <2>9, <2>10, <2>3, <3>2
      <4> QED
        BY <2>6, <4>1
    <3> QED
      BY <3>1, <3>2
  <2> QED
    BY <2>1, <2>11 DEF u
<1>5. ASSUME NEW i \in Spans, Start(i) \/ Update(i) \/ End(i) \/ OnEnd(i) PROVE sent' = sent
  BY <1>5 DEF Start, Update, End, OnEnd, Refuse, Check, Enqueue, Measure
<1>6. ASSUME NEW q \in Workers, Work(q) \/ Shutdown(q), ~Deliver(q) PROVE sent' = sent
  BY <1>6 DEF Work, Take, Generate, Process, Replace, Fail, Exit, Shutdown, Lose
<1>7. ASSUME NEW q \in Workers, Deliver(q), q # p PROVE sent'[p] = sent[p]
  BY <1>7, DeliverFacts
<1>8. UNCHANGED vars => sent' = sent
  BY DEF vars
<1> QED
  BY <1>3, <1>4, <1>5, <1>6, <1>7, <1>8 DEF Next

LEMMA MatchStep == ASSUME TInv, Conserved, AInv, [Next]_vars PROVE MatchInv'
<1>1. env' = env /\ Workers' = Workers /\ (NoLlo' <=> NoLlo) /\ \A p : ExporterOf(p)' = ExporterOf(p)
  BY SetupKept, Same DEF NoLlo
<1> SUFFICES ASSUME NoLlo
             PROVE  /\ \A m \in metrics' : MetricOf(m.span, m)'
                    /\ \A p \in Workers : ExporterOf(p).wraps => BatchCarries(batch[p])' /\ SentCarries(sent[p])'
  BY <1>1 DEF MatchInv
<1>2. ASSUME NEW m \in metrics, m \in metrics' PROVE MetricOf(m.span, m)'
  <2>1. m.span \in Over /\ MetricOf(m.span, m)
    BY DEF AInv, MeasureInv, MatchInv
  <2>2. Steady(m.span)
    BY <2>1, SpansSteady
  <2> QED
    BY <2>1, <2>2 DEF MetricOf, Steady
<1>3. \A m \in metrics' : MetricOf(m.span, m)'
  <2>1. CASE metrics' = metrics
    BY <1>2, <2>1
  <2>2. ASSUME NEW i \in Spans, NEW p \in DOMAIN Pipeline, Measure(i, p) PROVE \A m \in metrics' : MetricOf(m.span, m)'
    <3> SUFFICES ASSUME NEW m \in metrics' PROVE MetricOf(m.span, m)'
      OBVIOUS
    <3>1. UNCHANGED <<env, ended>> /\ (m \in metrics \/ (m.span = i /\ MetricOf(i, m)))
      BY <2>2, MeasureFacts
    <3>2. CASE m.span = i /\ MetricOf(i, m)
      BY <3>1, <3>2 DEF MetricOf
    <3> QED
      BY <1>2, <3>1, <3>2
  <2> QED
    BY <2>1, <2>2, MetricsStep
<1>4. ASSUME NEW p \in Workers, ExporterOf(p).wraps PROVE BatchCarries(batch[p])'
  BY <1>4, BatchStep DEF BatchCarries, NextCarries, Carries, Derived, NextDerived
<1>5. ASSUME NEW p \in Workers, ExporterOf(p).wraps PROVE SentCarries(sent[p])'
  BY <1>5, SentStep DEF SentCarries, Carries, Derived, NextDerived
<1> QED
  BY <1>3, <1>4, <1>5

(* What an exporter is about to write it has prepared just now or before.  *)
LEMMA Writing ==
  ASSUME TInv, [Next]_vars, NEW p \in Workers, batch'[p].step = "write"
  PROVE  batch'[p] = batch[p] \/ Generate(p) \/ Process(p)
<1>1. DOMAIN batch = Workers /\ IsBatch(batch[p], Over)
  BY DEF TInv, WorkInv
<1>2. ASSUME Replace(p) PROVE FALSE
  <2>1. batch'[p] = Advance(batch[p])
    BY <1>1, <1>2 DEF Replace
  <2>2. Advance(batch[p]).step = "read"
    BY <1>1 DEF IsBatch, Advance
  <2> QED
    BY <2>1, <2>2
<1>3. ASSUME Take(p) PROVE FALSE
  <2>1. \E s : batch' = [batch EXCEPT ![p] = [Idle EXCEPT !.spans = s]]
    BY <1>3 DEF Take
  <2>2. \A s : [Idle EXCEPT !.spans = s].step = "read"
    BY DEF Idle
  <2> QED
    BY <1>1, <2>1, <2>2
<1>4. ASSUME Deliver(p) \/ Fail(p) PROVE FALSE
  <2>1. batch'[p] = Idle
    BY <1>1, <1>4 DEF Deliver, Fail, Lose
  <2> QED
    BY <2>1 DEF Idle
<1>5. ASSUME NEW i \in Spans, Start(i) \/ Update(i) \/ End(i) \/ OnEnd(i) PROVE batch' = batch
  BY <1>5 DEF Start, Update, End, OnEnd, Refuse, Check, Enqueue, Measure
<1>6. ASSUME NEW q \in Workers, Work(q) \/ Shutdown(q), q # p PROVE batch'[p] = batch[p]
  BY <1>1, <1>6 DEF Work, Take, Generate, Process, Replace, Deliver, Fail, Exit, Shutdown, Lose
<1>7. Exit(p) \/ Shutdown(p) \/ UNCHANGED vars => batch'[p] = batch[p]
  BY DEF Exit, Shutdown, vars
<1> QED
  BY <1>2, <1>3, <1>4, <1>5, <1>6, <1>7 DEF Next, Work

LEMMA AStep == TInv /\ Conserved /\ AInv /\ [Next]_vars => AInv'
<1> SUFFICES ASSUME TInv, Conserved, AInv, [Next]_vars PROVE AInv'
  OBVIOUS
<1>1. env' = env /\ Workers' = Workers /\ (\A p : ExporterOf(p)' = ExporterOf(p)) /\ Over \subseteq Over'
  BY SetupKept, Same, LiveStep
<1>2. MeasureInv'
  <2>1. \A m \in metrics' : m \in metrics \/ (env.signals /\ ~env.lambda /\ m.span \in Over)
    BY MetricsStep, MeasureFacts
  <2> QED
    BY <1>1, <2>1 DEF AInv, MeasureInv
<1>3. WriteInv'
  <2> SUFFICES ASSUME NEW p \in Workers, batch'[p].step = "write" PROVE ExporterOf(p).wraps \/ ExporterOf(p).llo
    BY <1>1 DEF WriteInv
  <2>1. batch'[p] = batch[p] \/ Generate(p) \/ Process(p)
    BY Writing
  <2>2. CASE batch'[p] = batch[p]
    BY <2>2 DEF AInv, WriteInv
  <2>3. CASE Generate(p) \/ Process(p)
    BY <2>3 DEF Generate, Process
  <2> QED
    BY <2>1, <2>2, <2>3
<1> QED
  BY <1>2, <1>3, FieldsStep, MatchStep DEF AInv

LEMMA AInit == Init => AInv
<1> SUFFICES ASSUME Init PROVE AInv
  OBVIOUS
<1>1. metrics = {} /\ \A i \in Spans : Phase(i) = "none"
  BY DEF Init, Phase, NoSpan
<1>2. \A p \in Workers : batch[p] = Idle /\ sent[p] = <<>>
  BY DEF Init
<1>3. Idle.step = "read" /\ Idle.spans = <<>> /\ DOMAIN <<>> = {}
  BY EmptySeq, LenProperties DEF Idle
<1>4. FieldsInv
  BY <1>1 DEF FieldsInv
<1>5. MeasureInv
  BY <1>1 DEF MeasureInv
<1>6. WriteInv
  BY <1>2, <1>3 DEF WriteInv
<1>7. \A p \in Workers : BatchCarries(batch[p]) /\ SentCarries(sent[p])
  BY <1>2, <1>3 DEF BatchCarries, SentCarries
<1> QED
  BY <1>1, <1>4, <1>5, <1>6, <1>7 DEF AInv, MatchInv

LEMMA MetricsMatch ==
  ASSUME TInv, Conserved, AInv, \A c \in Cases : Unshared(c.env)
  PROVE  MetricsMatchSpans
<1> SUFFICES ASSUME NEW p \in Workers, NEW m \in metrics, NEW n \in DOMAIN sent[p],
                    ExporterOf(p).wraps, sent[p][n].span = m.span, NEW key \in DOMAIN m.attrs \ {"aws.span.kind"}
             PROVE  key \in DOMAIN sent[p][n].attrs /\ sent[p][n].attrs[key] = m.attrs[key]
  BY DEF MetricsMatchSpans
<1> DEFINE s == ended[m.span]
           d == Derived(m.span)
<1>1. Takes(p)
  <2>1. sent[p] # <<>>
    BY EmptySeq, LenProperties
  <2> QED
    BY <2>1, Decided
<1>2. Unshared(env)
  <2> DEFINE c == [env |-> env, scene |-> scene]
  <2>1. c \in Cases /\ c.env = env
    BY DEF TInv, SetupInv
  <2> QED
    BY <2>1
<1>3. NoLlo
  <2> SUFFICES ASSUME NEW q \in Workers, Takes(q) PROVE ~ExporterOf(q).llo
    BY DEF NoLlo
  <2>1. Pipeline = Processors(env) /\ p \in DOMAIN Pipeline /\ q \in DOMAIN Pipeline
    BY PipelineFacts DEF TInv, Workers
  <2>2. Pipeline[p].type \in {"sampled", "unsampled"} /\ Pipeline[q].type \in {"sampled", "unsampled"}
    BY DEF Workers, Batching
  <2>3. Pipeline[p].type = Pipeline[q].type
    BY <1>1, <2>2, Zenon DEF Takes
  <2> QED
    BY <1>2, <2>1, <2>3 DEF Unshared, ExporterOf
<1>4. MetricOf(m.span, m) /\ Includes(sent[p][n].attrs, d) /\ ~env.lambda
  BY <1>3 DEF AInv, MatchInv, MeasureInv, SentCarries, Carries
<1>5. SUFFICES key \in DOMAIN d /\ d[key] = m.attrs[key]
  BY <1>4, <1>5 DEF Includes
<1>6. d = SpanAttributes(s, env.lambda)
  BY DEF Derived
<1>7. CASE HasDependency(s) /\ m.attrs = DependencyAttributes(s)
  BY <1>6, <1>7, SpanKeys
<1>8. CASE HasService(s) /\ m.attrs = ServiceAttributes(s, env.lambda)
  <2>1. CASE ~HasDependency(s)
    BY <1>6, <1>8, <2>1 DEF SpanAttributes
  <2>2. CASE HasDependency(s)
    <3>1. key \in {"aws.local.service", "aws.local.operation"}
      BY <1>8, ServiceKeys
    <3>2. /\ m.attrs["aws.local.service"] = OrElse(ServiceName, <<"UnknownService">>)
          /\ m.attrs["aws.local.operation"] = IngressOperation(s, env.lambda)
      BY <1>8, ServiceKeys
    <3>3. IngressOperation(s, env.lambda) = EgressOperation(s)
      <4>1. UsesInternal(s)
        BY <1>8, <2>2 DEF HasService, HasDependency, DependencyConsumer, UsesInternal
      <4> QED
        BY <1>4, <4>1 DEF IngressOperation, EgressOperation
    <3>4. /\ key \in DOMAIN DependencyAttributes(s) /\ key # "aws.span.kind"
          /\ DependencyAttributes(s)["aws.local.service"] = OrElse(ServiceName, <<"UnknownService">>)
          /\ DependencyAttributes(s)["aws.local.operation"] = EgressOperation(s)
      BY <3>1, DependencyKeys
    <3>5. key \in DOMAIN d /\ d[key] = DependencyAttributes(s)[key]
      BY <1>6, <2>2, <3>4, SpanKeys
    <3> HIDE DEF s, d
    <3> QED
      BY <3>1, <3>2, <3>3, <3>4, <3>5
  <2> QED
    BY <2>1, <2>2
<1> QED
  BY <1>4, <1>7, <1>8 DEF MetricOf

(* The spans of a wrapping exporter have the attributes their metrics were *)
(* recorded with, in any order of endings and exports and however many of  *)
(* them write to the same span, as long as no exporter with an LLOHandler  *)
(* is handed the same spans: what is derived from a span that already has  *)
(* the derived attributes is the same again.                               *)
THEOREM CommonAttributes ==
  ASSUME \A c \in Cases : Unshared(c.env)
  PROVE  Spec => []MetricsMatchSpans
<1>1. TInv /\ Conserved /\ AInv => MetricsMatchSpans
  BY MetricsMatch
<1> QED
  BY <1>1, AInit, AStep, Types, EachSpanOnce, PTL DEF Spec

-----------------------------------------------------------------------------
(* The operation that a span is handed as it starts.                       *)

(* The processors go over a span that starts, one after the other.         *)
Parent(n) == IF Local(n) THEN live[scene[n].up] ELSE NoSpan

LEMMA StartedSteps ==
  ASSUME SetupInv, NEW n
  PROVE  \E f : /\ f[0] = [span |-> scene[n], up |-> Parent(n)]
                /\ \A p \in 1..Len(Pipeline) : f[p] = OnStart(f[p - 1], Pipeline[p])
                /\ Started(n) = f[Len(Pipeline)]
<1> DEFINE N == Len(Pipeline)
           both == [span |-> scene[n], up |-> Parent(n)]
           Step(f, p) == IF p = 0 THEN both ELSE OnStart(f[p - 1], Pipeline[p])
           Upto(m) == \E f : f = [p \in 0..m |-> Step(f, p)]
           after == CHOOSE f : f = [p \in 0..N |-> Step(f, p)]
<1>1. N \in Nat
  BY PipelineFacts
<1>2. Started(n) = after[N]
  BY DEF Started, Parent
<1>3. Upto(N)
  <2> DEFINE Bad == { m \in 0..N : ~Upto(m) }
  <2> SUFFICES ASSUME Bad # {} PROVE FALSE
    BY <1>1
  <2>1. Bad \in SUBSET Nat
    BY <1>1
  <2>2. PICK m \in Bad : \A r \in Bad : m <= r
    BY <2>1, Least
  <2>3. m \in 0..N /\ ~Upto(m)
    BY <2>2
  <2> HIDE DEF Step
  <2>4. CASE m = 0
    <3> DEFINE g == [p \in 0..0 |-> Step(<<>>, p)]
    <3>1. g = [p \in 0..0 |-> Step(g, p)]
      BY DEF Step
    <3> HIDE DEF g
    <3> QED
      BY <2>3, <2>4, <3>1
  <2>5. CASE m # 0
    <3>1. m - 1 \in 0..N /\ m - 1 \notin Bad
      BY <1>1, <2>2, <2>5
    <3>2. PICK f : f = [p \in 0..(m - 1) |-> Step(f, p)]
      BY <3>1
    <3> DEFINE g == [p \in 0..m |-> IF p = m THEN Step(f, m) ELSE f[p]]
    <3>3. \A p \in 0..m : Step(g, p) = Step(f, p)
      BY <2>3, <2>5 DEF Step
    <3>4. \A p \in 0..m : g[p] = Step(f, p)
      <4> HIDE DEF Step
      <4> QED
        BY <2>3, <3>2
    <3>5. g = [p \in 0..m |-> Step(g, p)]
      <4>1. DOMAIN g = 0..m /\ g = [p \in 0..m |-> g[p]]
        OBVIOUS
      <4> HIDE DEF g
      <4> QED
        BY <3>3, <3>4, <4>1
    <3> HIDE DEF g
    <3> QED
      BY <2>3, <3>5
  <2> QED
    BY <2>4, <2>5
<1>4. after = [p \in 0..N |-> Step(after, p)]
  <2> HIDE DEF Step
  <2> QED
    BY <1>3, Zenon
<1> HIDE DEF after
<1>5. after[0] = both /\ \A p \in 1..N : after[p] = OnStart(after[p - 1], Pipeline[p])
  BY <1>1, <1>4
<1> QED
  BY <1>2, <1>5

(* A span to which attributes were added.                                  *)
Extends(s, r) ==
  /\ DOMAIN r = DOMAIN s
  /\ r.name = s.name /\ r.kind = s.kind /\ r.parent = s.parent /\ r.scope = s.scope

Keeps(s, r) == Extends(s, r) /\ Attr(r, "aws.local.operation") = Attr(s, "aws.local.operation")

LEMMA SetFacts ==
  ASSUME NEW s, Fields \subseteq DOMAIN s, NEW key, NEW v
  PROVE  /\ Extends(s, Set(s, key, v))
         /\ Attr(Set(s, key, v), key) = v
         /\ \A other : other # key => Agree(s, Set(s, key, v), other)
<1> DEFINE new == Entry(key, v) ++ s.attrs
           r == [s EXCEPT !.attrs = new]
<1>1. Set(s, key, v) = r
  BY DEF Set
<1>2. DOMAIN new = {key} \cup DOMAIN s.attrs /\ new[key] = v /\ \A other \in DOMAIN s.attrs : other # key => new[other] = s.attrs[other]
  BY JoinIs DEF Joined, Entry
<1> HIDE DEF new
<1>3. Extends(s, r) /\ r.attrs = new
  BY DEF Extends, Fields
<1> HIDE DEF r
<1>4. Attr(r, key) = v /\ \A other : other # key => Agree(s, r, other)
  BY <1>2, <1>3 DEF Agree, Attr, Has
<1> QED
  BY <1>1, <1>3, <1>4

LEMMA KeepsAgain == ASSUME NEW s, NEW r, NEW t, Keeps(s, r), Keeps(r, t) PROVE Keeps(s, t)
BY DEF Keeps, Extends

LEMMA SetKeeps ==
  ASSUME NEW s, Fields \subseteq DOMAIN s, NEW key, key # "aws.local.operation", NEW v, NEW c
  PROVE  Keeps(s, SetIf(c, s, key, v))
BY SetFacts DEF SetIf, Keeps, Agree, Extends

LEMMA InheritKeeps ==
  ASSUME NEW s, Fields \subseteq DOMAIN s, NEW up, NEW keys, "aws.local.operation" \notin keys
  PROVE  Keeps(s, Inherit(s, up, keys))
<1> DEFINE above == [k \in { key \in keys : Has(up, key) } |-> up.attrs[k]]
           new == above ++ s.attrs
           r == [s EXCEPT !.attrs = new]
<1>1. Inherit(s, up, keys) = r
  BY DEF Inherit
<1>2. "aws.local.operation" \notin DOMAIN above
  OBVIOUS
<1> HIDE DEF above
<1>3. /\ "aws.local.operation" \in DOMAIN new <=> "aws.local.operation" \in DOMAIN s.attrs
      /\ "aws.local.operation" \in DOMAIN new => new["aws.local.operation"] = s.attrs["aws.local.operation"]
  BY <1>2, JoinIs DEF Joined
<1> HIDE DEF new
<1>4. Extends(s, r) /\ r.attrs = new
  BY DEF Extends, Fields
<1> HIDE DEF r
<1> QED
  BY <1>1, <1>3, <1>4 DEF Keeps, Attr, Has

LEMMA PropagatedKeeps ==
  ASSUME NEW s, Fields \subseteq DOMAIN s, NEW up
  PROVE  Keeps(s, Propagated(s, up))
<1> DEFINE sdk      == SetIf(AwsSdk(up), s, "aws.sdk.descendant", <<"true">>)
           internal == IF up.kind = "INTERNAL" THEN Inherit(sdk, up, {"aws.remote.service", "aws.remote.operation"}) ELSE sdk
           consumer == SetIf(s.kind = "CONSUMER" /\ up.kind = "CONSUMER", internal, "aws.consumer.parent.span.kind", <<"CONSUMER">>)
<1>1. Propagated(s, up) = IF Has(consumer, "cloud.resource_id") THEN consumer ELSE Inherit(consumer, up, {"cloud.resource_id"})
  BY DEF Propagated
<1>2. Keeps(s, sdk) /\ Fields \subseteq DOMAIN sdk
  <2>1. Keeps(s, sdk)
    BY SetKeeps
  <2> QED
    BY <2>1 DEF Keeps, Extends
<1> HIDE DEF sdk
<1>3. Keeps(s, internal) /\ Fields \subseteq DOMAIN internal
  <2>1. Keeps(sdk, Inherit(sdk, up, {"aws.remote.service", "aws.remote.operation"}))
    BY <1>2, InheritKeeps
  <2>2. Keeps(s, internal)
    BY <1>2, <2>1, KeepsAgain
  <2> QED
    BY <2>2 DEF Keeps, Extends
<1> HIDE DEF internal
<1>4. Keeps(s, consumer) /\ Fields \subseteq DOMAIN consumer
  <2>1. Keeps(internal, consumer)
    BY <1>3, SetKeeps
  <2>2. Keeps(s, consumer)
    BY <1>3, <2>1, KeepsAgain
  <2> QED
    BY <2>2 DEF Keeps, Extends
<1> HIDE DEF consumer
<1>5. Keeps(consumer, Inherit(consumer, up, {"cloud.resource_id"}))
  BY <1>4, InheritKeeps
<1>6. Keeps(s, Inherit(consumer, up, {"cloud.resource_id"}))
  BY <1>4, <1>5, KeepsAgain
<1> QED
  BY <1>1, <1>4, <1>6

(* The operation that a span is handed as it starts.                       *)
Handed(s, up) ==
  IF LocalRoot(s) THEN IF s.kind = "SERVER" THEN None ELSE InternalOperation
  ELSE IF up.kind = "SERVER" THEN IngressOperation(up, env.lambda) ELSE Attr(up, "aws.local.operation")

LEMMA PropagatingFacts ==
  ASSUME ~env.lambda, NEW s, Fields \subseteq DOMAIN s, NEW up
  PROVE  LET r == PropagatingStart(s, up)
         IN  /\ Extends(s, r)
             /\ Attr(r, "aws.local.operation") = OrElse(Handed(s, up), Attr(s, "aws.local.operation"))
<1> DEFINE own == IF IsSpan(up) THEN Propagated(s, up) ELSE s
           handed == Handed(s, up)
           r == SetIf(handed # None, own, "aws.local.operation", handed)
<1>1. Keeps(s, own) /\ Fields \subseteq DOMAIN own
  <2>1. Keeps(s, own)
    BY PropagatedKeeps DEF Keeps, Extends
  <2> QED
    BY <2>1 DEF Keeps, Extends
<1> HIDE DEF own
<1>2. LocalRoot(s) /\ s.kind # "SERVER" => IngressOperation(own, env.lambda) = InternalOperation
  BY <1>1 DEF Keeps, Extends, LocalRoot, UsesInternal, IngressOperation
<1>3. PropagatingStart(s, up) = r
  BY <1>2 DEF PropagatingStart, Handed, own
<1> HIDE DEF handed
<1>4. CASE handed # None
  <2>1. r = Set(own, "aws.local.operation", handed)
    BY <1>4 DEF SetIf
  <2>2. Extends(own, r) /\ Attr(r, "aws.local.operation") = handed
    BY <1>1, <2>1, SetFacts
  <2> QED
    BY <1>1, <1>3, <1>4, <2>2 DEF Keeps, Extends, OrElse, handed
<1>5. CASE handed = None
  <2>1. r = own
    BY <1>5 DEF SetIf
  <2> QED
    BY <1>1, <1>3, <1>5, <2>1 DEF Keeps, OrElse, handed
<1> QED
  BY <1>4, <1>5

LEMMA OnStartFacts ==
  ASSUME ~env.lambda, NEW s, Fields \subseteq DOMAIN s, NEW up, NEW x, x.type # "lambda"
  PROVE  \E r : /\ OnStart([span |-> s, up |-> up], x) = [span |-> r, up |-> up]
                /\ Extends(s, r)
                /\ Attr(r, "aws.local.operation") =
                     IF x.type = "propagating" THEN OrElse(Handed(s, up), Attr(s, "aws.local.operation"))
                     ELSE Attr(s, "aws.local.operation")
<1> DEFINE both == [span |-> s, up |-> up]
<1>1. both.span = s /\ both.up = up /\ \A r : [both EXCEPT !.span = r] = [span |-> r, up |-> up]
  OBVIOUS
<1>2. CASE x.type = "propagating"
  BY <1>1, <1>2, PropagatingFacts DEF OnStart
<1>3. CASE x.type = "code"
  <2>1. Keeps(s, CodeStart(s))
    BY SetKeeps DEF CodeStart
  <2> QED
    BY <1>1, <1>3, <2>1 DEF OnStart, Keeps
<1>4. CASE x.type = "unsampled"
  <2>1. Keeps(s, UnsampledStart(s))
    BY SetKeeps DEF UnsampledStart
  <2> QED
    BY <1>1, <1>4, <2>1 DEF OnStart, Keeps
<1>5. CASE x.type = "baggage"
  <2>1. Keeps(s, BaggageStart(s))
    BY SetKeeps DEF BaggageStart
  <2> QED
    BY <1>1, <1>5, <2>1 DEF OnStart, Keeps
<1>6. CASE x.type \notin {"code", "unsampled", "baggage", "propagating", "lambda"}
  BY <1>1, <1>6 DEF OnStart, Extends
<1> QED
  BY <1>2, <1>3, <1>4, <1>5, <1>6

(* Counted environments record metrics, and have a processor that hands    *)
(* the operation down.                                                     *)
Counted == env.signals /\ ~env.lambda

LEMMA CountedPipeline ==
  ASSUME SetupInv, Counted
  PROVE  /\ \A p \in DOMAIN Pipeline : Pipeline[p].type # "lambda"
         /\ \E p \in DOMAIN Pipeline : Pipeline[p].type = "propagating"
<1>1. ASSUME NEW p \in DOMAIN Pipeline PROVE Pipeline[p].type # "lambda"
  <2>1. Pipeline[p] \in Parts(env) /\ "lambda" \notin PlainTypes(env)
    BY PipelineFacts DEF Counted, PlainTypes
  <2> QED
    BY <2>1, PartTypes
<1>2. \E p \in DOMAIN Pipeline : Pipeline[p].type = "propagating"
  <2> DEFINE c == [env |-> env, scene |-> scene]
  <2>1. c \in Cases /\ c.env = env
    BY DEF SetupInv
  <2>2. env.exporters \in Seq(Range(env.exporters))
    BY <2>1, PipelineAssumption
  <2> QED
    BY <2>2, ProcessorsSeq, PipelineFacts DEF Counted
<1> QED
  BY <1>1, <1>2

LEMMA SceneFacts ==
  ASSUME SetupInv
  PROVE  /\ Len(scene) \in Nat /\ Spans = 1..Len(scene)
         /\ \A i \in Spans : /\ scene[i].parent \in {"none", "remote", "local"}
                             /\ LocalRoot(scene[i]) <=> ~Local(i)
                             /\ Local(i) => scene[i].up \in 1..(i - 1)
<1> DEFINE c == [env |-> env, scene |-> scene]
<1>1. c \in Cases /\ c.scene = scene
  BY DEF SetupInv
<1>2. scene \in Seq(Range(scene))
  BY <1>1, PipelineAssumption
<1>3. Len(scene) \in Nat /\ Spans = 1..Len(scene)
  BY <1>2, LenProperties DEF Spans
<1>4. \A i \in Spans : /\ scene[i].parent \in {"none", "remote", "local"}
                       /\ scene[i].parent = "local" => scene[i].up \in 1..(i - 1)
  <2> HIDE DEF c
  <2>1. \A i \in DOMAIN c.scene : /\ c.scene[i].parent \in {"none", "remote", "local"}
                                  /\ c.scene[i].parent = "local" => c.scene[i].up \in 1..(i - 1)
    BY <1>1, PipelineAssumption
  <2> QED
    BY <1>1, <2>1 DEF Spans
<1> QED
  BY <1>3, <1>4 DEF LocalRoot, Local

LEMMA StartedFacts ==
  ASSUME SetupInv, Counted, \A c \in Cases : Unnamed(c.scene), NEW n \in Spans
  PROVE  /\ Started(n).up = Parent(n)
         /\ Extends(scene[n], Started(n).span)
         /\ Attr(Started(n).span, "aws.local.operation") = Handed(scene[n], Parent(n))
<1> DEFINE N == Len(Pipeline)
           up == Parent(n)
           s == scene[n]
           By(p) == \E q \in 1..p : Pipeline[q].type = "propagating"
           Good(x, p) == \E r : /\ x = [span |-> r, up |-> up] /\ Extends(s, r)
                                /\ Attr(r, "aws.local.operation") = IF By(p) THEN Handed(s, up) ELSE None
<1>1. N \in Nat /\ DOMAIN Pipeline = 1..N
  BY PipelineFacts
<1>2. Fields \subseteq DOMAIN s /\ Attr(s, "aws.local.operation") = None
  <2> DEFINE c == [env |-> env, scene |-> scene]
  <2>1. c \in Cases /\ c.scene = scene
    BY DEF SetupInv
  <2>2. Unnamed(scene)
    BY <2>1
  <2> QED
    BY <2>2, SceneFields DEF Unnamed, Spans, Attr, Has
<1>3. PICK f : /\ f[0] = [span |-> s, up |-> up]
               /\ \A p \in 1..N : f[p] = OnStart(f[p - 1], Pipeline[p])
               /\ Started(n) = f[N]
  BY StartedSteps
<1>4. \A p \in 1..N : Pipeline[p].type # "lambda"
  BY <1>1, CountedPipeline
<1> HIDE DEF up, s
<1>5. Good(f[0], 0)
  BY <1>2, <1>3 DEF Extends
<1>6. ASSUME NEW p \in 1..N, Good(f[p - 1], p - 1) PROVE Good(f[p], p)
  <2>1. PICK r : /\ f[p - 1] = [span |-> r, up |-> up] /\ Extends(s, r)
                 /\ Attr(r, "aws.local.operation") = IF By(p - 1) THEN Handed(s, up) ELSE None
    BY <1>6
  <2>2. Fields \subseteq DOMAIN r /\ Handed(r, up) = Handed(s, up)
    BY <1>2, <2>1 DEF Extends, Handed, LocalRoot
  <2>3. PICK t : /\ f[p] = [span |-> t, up |-> up] /\ Extends(r, t)
                 /\ Attr(t, "aws.local.operation") =
                      IF Pipeline[p].type = "propagating" THEN OrElse(Handed(r, up), Attr(r, "aws.local.operation"))
                      ELSE Attr(r, "aws.local.operation")
    <3>1. f[p] = OnStart([span |-> r, up |-> up], Pipeline[p])
      BY <1>3, <2>1
    <3> DEFINE x == Pipeline[p]
    <3>2. x.type # "lambda" /\ ~env.lambda /\ Fields \subseteq DOMAIN r
      BY <1>4, <2>2 DEF Counted
    <3>3. f[p] = OnStart([span |-> r, up |-> up], x)
      BY <3>1
    <3> HIDE DEF x
    <3>4. \E t : /\ OnStart([span |-> r, up |-> up], x) = [span |-> t, up |-> up]
                 /\ Extends(r, t)
                 /\ Attr(t, "aws.local.operation") =
                      IF x.type = "propagating" THEN OrElse(Handed(r, up), Attr(r, "aws.local.operation"))
                      ELSE Attr(r, "aws.local.operation")
      BY <3>2, OnStartFacts
    <3> QED
      BY <3>3, <3>4 DEF x
  <2>4. By(p) <=> By(p - 1) \/ Pipeline[p].type = "propagating"
    BY <1>1
  <2>5. Extends(s, t)
    BY <2>1, <2>3 DEF Extends
  <2>6. Attr(t, "aws.local.operation") = IF By(p) THEN Handed(s, up) ELSE None
    <3> HIDE DEF By
    <3> QED
      BY <2>1, <2>2, <2>3, <2>4 DEF OrElse
  <2> QED
    BY <2>3, <2>5, <2>6
<1> HIDE DEF Good
<1>7. \A p \in 0..N : Good(f[p], p)
  <2> DEFINE Bad == { p \in 0..N : ~Good(f[p], p) }
  <2> SUFFICES ASSUME Bad # {} PROVE FALSE
    OBVIOUS
  <2>1. Bad \in SUBSET Nat
    BY <1>1
  <2>2. PICK p \in Bad : \A r \in Bad : p <= r
    BY <2>1, Least
  <2>3. p \in 1..N /\ p - 1 \notin Bad /\ p - 1 \in 0..N
    BY <1>1, <1>5, <2>2
  <2> QED
    BY <1>6, <2>2, <2>3
<1>8. By(N)
  BY <1>1, CountedPipeline
<1>9. Good(f[N], N)
  BY <1>1, <1>7
<1> QED
  BY <1>3, <1>8, <1>9 DEF Good, s, up

(* What the derivation reads of two spans is the same.                     *)
Same5(s, t) ==
  t.name = s.name /\ t.kind = s.kind /\ t.parent = s.parent /\ t.scope = s.scope /\ t.attrs = s.attrs

LEMMA SameReads ==
  ASSUME NEW s, NEW t, Same5(s, t), NEW inLambda
  PROVE  /\ \A key : Agree(s, t, key)
         /\ IngressOperation(t, inLambda) = IngressOperation(s, inLambda)
<1>1. \A key : Agree(s, t, key)
  BY DEF Same5, Agree, Has, Attr
<1>2. UsesInternal(t) <=> UsesInternal(s)
  BY DEF Same5, UsesInternal, LocalRoot
<1>3. /\ Attr(t, "http.method") = Attr(s, "http.method") /\ HttpOperation(t) = HttpOperation(s)
  <2>1. Agree(s, t, "http.method") /\ Agree(s, t, "http.target") /\ Agree(s, t, "http.url")
    BY <1>1
  <2> QED
    BY <2>1 DEF Agree, HttpOperation, HttpPath
<1> QED
  BY <1>1, <1>2, <1>3 DEF Same5, IngressOperation, ValidOperation

(* A span that the processors have seen.                                   *)
Seen(i) == Phase(i) \in {"started", "updated", "over"}

LEMMA StartFrame ==
  ASSUME TInv, FieldsInv, Counted, \A c \in Cases : Unnamed(c.scene), NEW n \in Spans, Start(n), NEW i \in Spans, Seen(i)
  PROVE  live'[i].state = live[i].state /\ Same5(live[i], live'[i])
<1>1. i # n /\ DOMAIN live = Spans /\ Fields \subseteq DOMAIN live[i] /\ "state" \in DOMAIN live[i]
  BY DEF Start, Seen, TInv, LiveInv, FieldsInv
<1>2. CASE Unseen(n)
  <2>1. live'[i] = live[i]
    BY <1>1, <1>2 DEF Start
  <2> QED
    BY <2>1 DEF Same5
<1>3. CASE ~Unseen(n)
  <2> DEFINE own == Started(n).span
             above == Started(n).up.attrs
  <2>1. live'[i] = IF Local(n) /\ i = scene[n].up THEN [live[i] EXCEPT !.attrs = above] ELSE live[i]
    BY <1>1, <1>3 DEF Start
  <2>2. Local(n) /\ i = scene[n].up => above = live[i].attrs
    BY StartedFacts DEF Parent, TInv
  <2> HIDE DEF above
  <2> QED
    BY <1>1, <2>1, <2>2 DEF Same5, Fields
<1> QED
  BY <1>2, <1>3

LEMMA UpdateFrame ==
  ASSUME TInv, FieldsInv, \A c \in Cases : Unnamed(c.scene), NEW i \in Spans, Update(i)
  PROVE  /\ live'[i].state = "updated" /\ i \notin Over
         /\ live'[i].kind = live[i].kind /\ live'[i].parent = live[i].parent /\ live'[i].scope = live[i].scope
         /\ Attr(live'[i], "aws.local.operation") = Attr(live[i], "aws.local.operation")
         /\ ~Renamed(i) => \A inLambda : IngressOperation(live'[i], inLambda) = IngressOperation(live[i], inLambda)
<1> DEFINE later == scene[i].later
           s == live[i]
           t == live'[i]
           name == OrElse(later.name, s.name)
           attrs == later.attrs ++ s.attrs
<1>1. DOMAIN live = Spans /\ Fields \subseteq DOMAIN s /\ "state" \in DOMAIN s /\ Phase(i) = "started"
  BY DEF Update, TInv, LiveInv, FieldsInv
<1>2. t = [[[s EXCEPT !.state = "updated"] EXCEPT !.name = name] EXCEPT !.attrs = attrs]
  BY <1>1 DEF Update
<1>3. \A key : key \notin DOMAIN later.attrs => (key \in DOMAIN attrs <=> key \in DOMAIN s.attrs)
                                                  /\ (key \in DOMAIN s.attrs => attrs[key] = s.attrs[key])
  BY JoinIs DEF Joined
<1>4. "aws.local.operation" \notin DOMAIN later.attrs
  <2> DEFINE c == [env |-> env, scene |-> scene]
  <2>1. c \in Cases /\ c.scene = scene
    BY DEF TInv, SetupInv
  <2>2. Unnamed(scene)
    BY <2>1
  <2> QED
    BY <2>2 DEF Unnamed, Spans
<1>5. Renamed(i) <=> later.name # None \/ \E key \in {"http.method", "http.target", "http.url"} : key \in DOMAIN later.attrs
  BY DEF Renamed
<1>6. later.name = None => name = s.name
  BY DEF OrElse
<1> HIDE DEF s, t, later, name, attrs
<1>7. /\ t.state = "updated" /\ t.kind = s.kind /\ t.parent = s.parent /\ t.scope = s.scope
      /\ t.name = name /\ t.attrs = attrs
  BY <1>1, <1>2 DEF Fields
<1>8. \A key : key \notin DOMAIN later.attrs => Agree(s, t, key)
  BY <1>3, <1>7 DEF Agree, Has, Attr
<1>9. Attr(t, "aws.local.operation") = Attr(s, "aws.local.operation")
  BY <1>4, <1>8 DEF Agree
<1>10. ASSUME ~Renamed(i), NEW inLambda PROVE IngressOperation(t, inLambda) = IngressOperation(s, inLambda)
  <2>1. t.name = s.name
    BY <1>5, <1>6, <1>7, <1>10
  <2>2. Agree(s, t, "http.method") /\ Agree(s, t, "http.target") /\ Agree(s, t, "http.url")
    BY <1>5, <1>8, <1>10
  <2>3. HttpOperation(t) = HttpOperation(s)
    BY <2>2 DEF Agree, HttpOperation, HttpPath
  <2>4. UsesInternal(t) <=> UsesInternal(s)
    BY <1>7 DEF UsesInternal, LocalRoot
  <2> QED
    BY <1>7, <2>1, <2>2, <2>3, <2>4 DEF IngressOperation, ValidOperation, Agree
<1> QED
  BY <1>1, <1>7, <1>9, <1>10 DEF s, t, Over

(* What a step leaves of a span that the processors have seen.             *)
Lasting(i) ==
  /\ live'[i].state \in {"started", "updated", "over"}
  /\ live'[i].kind = live[i].kind /\ live'[i].parent = live[i].parent
  /\ Attr(live'[i], "aws.local.operation") = Attr(live[i], "aws.local.operation")
  /\ ~Renamed(i) => IngressOperation(live'[i], env.lambda) = IngressOperation(live[i], env.lambda)
  /\ i \in Over => i \in Over' /\ Same5(live[i], live'[i])

LEMMA LiveFrame ==
  ASSUME TInv, FieldsInv, Counted, \A c \in Cases : Unnamed(c.scene), [Next]_vars, NEW i \in Spans, Seen(i)
  PROVE  Lasting(i)
<1>1. DOMAIN live = Spans /\ Fields \subseteq DOMAIN live[i] /\ "state" \in DOMAIN live[i]
  BY DEF Seen, TInv, LiveInv, FieldsInv
<1>2. \A j : Phase(j)' = live'[j].state /\ Phase(j) = live[j].state
  BY DEF Phase
<1>3. Spans' = Spans
  BY SetupKept, Same
<1>4. ASSUME live'[i].state = live[i].state, Same5(live[i], live'[i]) PROVE Lasting(i)
  BY <1>2, <1>3, <1>4, SameReads DEF Lasting, Seen, Same5, Agree, Over
<1>5. CASE live'[i] = live[i]
  BY <1>4, <1>5 DEF Same5
<1>6. ASSUME NEW n \in Spans, Start(n) PROVE Lasting(i)
  BY <1>4, <1>6, StartFrame
<1>7. ASSUME NEW n \in Spans, Update(n) PROVE Lasting(i)
  <2>1. CASE n = i
    BY <1>2, <1>7, <2>1, UpdateFrame DEF Lasting, Seen
  <2>2. CASE n # i
    BY <1>1, <1>5, <1>7, <2>2 DEF Update
  <2> QED
    BY <2>1, <2>2
<1>8. ASSUME NEW n \in Spans, End(n) PROVE Lasting(i)
  <2>1. CASE n = i
    <3>1. live' = [live EXCEPT ![i] = [live[i] EXCEPT !.state = "over"]] /\ i \notin Over
      BY <1>1, <1>8, <2>1 DEF End, IsOpen, Over, Phase
    <3> DEFINE t == [live[i] EXCEPT !.state = "over"]
    <3>2. t.state = "over" /\ Same5(live[i], t) /\ live'[i] = t
      BY <1>1, <3>1 DEF Same5, Fields
    <3> HIDE DEF t
    <3> QED
      BY <1>2, <3>1, <3>2, SameReads DEF Lasting, Seen, Same5, Agree
  <2>2. CASE n # i
    BY <1>1, <1>5, <1>8, <2>2 DEF End
  <2> QED
    BY <2>1, <2>2
<1>9. ASSUME NEW n \in Spans, OnEnd(n) PROVE live' = live
  BY <1>9 DEF OnEnd, Refuse, Check, Enqueue, Measure
<1>10. ASSUME NEW p \in Workers, Work(p) \/ Shutdown(p) PROVE live' = live
  BY <1>10 DEF Work, Take, Generate, Process, Replace, Deliver, Fail, Exit, Shutdown
<1>11. UNCHANGED vars => live' = live
  BY DEF vars
<1> QED
  BY <1>5, <1>6, <1>7, <1>8, <1>9, <1>10, <1>11 DEF Next

(* The owning of spans is a recursive function: it is there because every  *)
(* local parent comes before.                                              *)
OwningOf(s) == CHOOSE f : f = [i \in DOMAIN s |-> IF s[i].parent = "local" /\ s[i].kind # "SERVER" THEN f[s[i].up] ELSE i]

LEMMA OwningIs == Owning = OwningOf(scene)
BY DEF Owning, OwningOf, Spans, Local

LEMMA OwningKept == ASSUME scene' = scene PROVE Owning' = Owning
<1>1. Owning' = OwningOf(scene')
  BY DEF Owning, OwningOf, Spans, Local
<1> QED
  BY <1>1, OwningIs

LEMMA OwningFacts ==
  ASSUME SetupInv
  PROVE  \A i \in Spans : /\ Owning[i] = IF Local(i) /\ scene[i].kind # "SERVER" THEN Owning[scene[i].up] ELSE i
                          /\ Owning[i] \in Spans
<1> DEFINE N == Len(scene)
           Under(i) == Local(i) /\ scene[i].kind # "SERVER"
           Step(f, i) == IF Under(i) THEN f[scene[i].up] ELSE i
           Upto(m) == \E f : f = [i \in 1..m |-> Step(f, i)]
<1>1. N \in Nat /\ Spans = 1..N /\ \A i \in 1..N : Under(i) => scene[i].up \in 1..(i - 1)
  BY SceneFacts
<1> HIDE DEF Under
<1>2. Upto(N)
  <2> DEFINE Bad == { m \in 0..N : ~Upto(m) }
  <2> SUFFICES ASSUME Bad # {} PROVE FALSE
    BY <1>1
  <2>1. Bad \in SUBSET Nat
    BY <1>1
  <2>2. PICK m \in Bad : \A r \in Bad : m <= r
    BY <2>1, Least
  <2>3. m \in 0..N /\ ~Upto(m)
    BY <2>2
  <2>4. CASE m = 0
    <3>1. <<>> = [i \in 1..m |-> Step(<<>>, i)]
      BY <2>4
    <3> QED
      BY <2>3, <3>1
  <2>5. CASE m # 0
    <3>1. m - 1 \in 0..N /\ m - 1 \notin Bad
      BY <1>1, <2>2, <2>5
    <3>2. PICK f : f = [i \in 1..(m - 1) |-> Step(f, i)]
      BY <3>1
    <3> DEFINE g == [i \in 1..m |-> IF i = m THEN Step(f, m) ELSE f[i]]
    <3>3. \A i \in 1..m : Step(g, i) = Step(f, i)
      BY <1>1, <2>3, <2>5
    <3>4. \A i \in 1..m : g[i] = Step(f, i)
      <4> HIDE DEF Step
      <4> QED
        BY <2>3, <3>2
    <3>5. g = [i \in 1..m |-> Step(g, i)]
      <4>1. DOMAIN g = 1..m /\ g = [i \in 1..m |-> g[i]]
        OBVIOUS
      <4> HIDE DEF g
      <4> QED
        BY <3>3, <3>4, <4>1
    <3> HIDE DEF g
    <3> QED
      BY <2>3, <3>5
  <2> QED
    BY <2>4, <2>5
<1>3. Owning = [i \in Spans |-> Step(Owning, i)]
  <2> DEFINE own == CHOOSE f : f = [i \in Spans |-> Step(f, i)]
  <2>1. Owning = own
    BY DEF Owning, Under
  <2>2. own = [i \in Spans |-> Step(own, i)]
    <3> HIDE DEF Step
    <3> QED
      BY <1>1, <1>2, Zenon
  <2> HIDE DEF own
  <2> QED
    BY <2>1, <2>2
<1>4. \A i \in Spans : Owning[i] \in Spans
  <2> DEFINE Bad == { i \in Spans : Owning[i] \notin Spans }
  <2> SUFFICES ASSUME Bad # {} PROVE FALSE
    OBVIOUS
  <2>1. Bad \in SUBSET Nat
    BY <1>1
  <2>2. PICK i \in Bad : \A r \in Bad : i <= r
    BY <2>1, Least
  <2>3. Owning[i] = Step(Owning, i) /\ i \in 1..N /\ Owning[i] \notin Spans
    BY <1>1, <1>3, <2>2
  <2>4. Under(i) /\ Owning[i] = Owning[scene[i].up]
    BY <1>1, <2>3
  <2>5. scene[i].up \in 1..(i - 1) /\ scene[i].up \in Bad
    BY <1>1, <2>3, <2>4
  <2> QED
    BY <2>2, <2>3, <2>5
<1> QED
  BY <1>3, <1>4 DEF Under

(* A span that the processors have seen has the operation of the span that *)
(* owns it: it was handed down, parent by parent, as the spans started.    *)
OwnInv ==
  \A i \in Spans : Seen(i) =>
    /\ live[i].kind = scene[i].kind /\ live[i].parent = scene[i].parent
    /\ ~Local(i) /\ scene[i].kind # "SERVER" => Attr(live[i], "aws.local.operation") = InternalOperation
    /\ Local(i) /\ scene[i].kind # "SERVER" =>
         /\ Seen(Owning[i])
         /\ ~Renamed(Owning[i]) => Attr(live[i], "aws.local.operation") = IngressOperation(live[Owning[i]], env.lambda)

LEMMA NewlySeen ==
  ASSUME TInv, Counted, \A c \in Cases : Unnamed(c.scene), [Next]_vars, NEW i \in Spans, ~Seen(i), Seen(i)'
  PROVE  /\ live'[i].kind = scene[i].kind /\ live'[i].parent = scene[i].parent
         /\ Attr(live'[i], "aws.local.operation") = Handed(scene[i], Parent(i))
         /\ Local(i) => scene[i].up \in Spans /\ Seen(scene[i].up)
<1>1. DOMAIN live = Spans /\ "state" \in DOMAIN live[i]
  BY DEF TInv, LiveInv
<1>2. \A j : Phase(j)' = live'[j].state /\ Phase(j) = live[j].state
  BY DEF Phase
<1>3. ASSUME NEW n \in Spans, n # i, Start(n) PROVE FALSE
  <2>1. live'[i].state = live[i].state
    <3>1. CASE Unseen(n)
      BY <1>1, <1>3, <3>1 DEF Start
    <3>2. CASE ~Unseen(n)
      <4> DEFINE above == Started(n).up.attrs
      <4>1. live'[i] = IF Local(n) /\ i = scene[n].up THEN [live[i] EXCEPT !.attrs = above] ELSE live[i]
        BY <1>1, <1>3, <3>2 DEF Start
      <4> HIDE DEF above
      <4> QED
        BY <1>1, <4>1
    <3> QED
      BY <3>1, <3>2
  <2> QED
    BY <1>2, <2>1 DEF Seen
<1>4. ASSUME NEW n \in Spans, Update(n) \/ End(n) PROVE FALSE
  <2>1. i # n
    BY <1>4 DEF Update, End, IsOpen, Seen, Phase
  <2>2. live'[i] = live[i]
    BY <1>1, <1>4, <2>1 DEF Update, End
  <2> QED
    BY <1>2, <2>2 DEF Seen
<1>5. live' # live
  BY <1>2 DEF Seen
<1>6. ASSUME NEW n \in Spans, OnEnd(n) PROVE live' = live
  BY <1>6 DEF OnEnd, Refuse, Check, Enqueue, Measure
<1>7. ASSUME NEW p \in Workers, Work(p) \/ Shutdown(p) PROVE live' = live
  BY <1>7 DEF Work, Take, Generate, Process, Replace, Deliver, Fail, Exit, Shutdown
<1>8. UNCHANGED vars => live' = live
  BY DEF vars
<1>9. Start(i)
  BY <1>3, <1>4, <1>5, <1>6, <1>7, <1>8 DEF Next
<1>10. ~Unseen(i)
  <2> SUFFICES ASSUME Unseen(i) PROVE FALSE
    OBVIOUS
  <2>1. live'[i] = Absent
    BY <1>1, <1>9 DEF Start
  <2> QED
    BY <1>2, <2>1 DEF Seen, Absent
<1> DEFINE own == Started(i).span
<1>11. live'[i] = Recording(i, own)
  BY <1>1, <1>9, <1>10 DEF Start
<1>12. Extends(scene[i], own) /\ Attr(own, "aws.local.operation") = Handed(scene[i], Parent(i))
  BY StartedFacts DEF TInv
<1>13. Fields \subseteq DOMAIN scene[i]
  BY SceneFields DEF TInv
<1> HIDE DEF own
<1>14. live'[i].kind = own.kind /\ live'[i].parent = own.parent /\ live'[i].attrs = own.attrs
  BY <1>11, <1>13 DEF Recording, Fields
<1>15. ASSUME Local(i) PROVE scene[i].up \in Spans /\ Seen(scene[i].up)
  <2>1. scene[i].up \in 1..(i - 1) /\ scene[i].up \in Spans
    BY <1>15, SceneFacts DEF TInv
  <2>2. Phase(scene[i].up) # "none" /\ Phase(scene[i].up) # "absent"
    BY <1>9, <1>10, <1>15, <2>1 DEF Start, Unseen
  <2> QED
    BY <2>1, <2>2 DEF TInv, LiveInv, Seen
<1> QED
  BY <1>12, <1>14, <1>15 DEF Extends, Attr, Has

LEMMA OwnStep ==
  ASSUME TInv, FieldsInv, OwnInv, Counted, \A c \in Cases : Unnamed(c.scene), [Next]_vars
  PROVE  OwnInv'
<1>1. UNCHANGED <<env, scene>> /\ Spans' = Spans
  BY SetupKept, Same
<1>2. Owning' = Owning /\ (\A i : Renamed(i)' <=> Renamed(i)) /\ (\A i : Local(i)' <=> Local(i))
  BY <1>1, OwningKept DEF Renamed, Local
<1>3. \A i \in Spans : Seen(i) => Lasting(i)
  BY LiveFrame
<1>4. \A i \in Spans : /\ Owning[i] = IF Local(i) /\ scene[i].kind # "SERVER" THEN Owning[scene[i].up] ELSE i
                       /\ Owning[i] \in Spans
  BY OwningFacts DEF TInv
<1> DEFINE Own(i, o) == /\ live'[o].state \in {"started", "updated", "over"}
                        /\ ~Renamed(o) => Attr(live'[i], "aws.local.operation") = IngressOperation(live'[o], env.lambda)
<1>5. SUFFICES ASSUME NEW i \in Spans, Seen(i)'
               PROVE  /\ live'[i].kind = scene[i].kind /\ live'[i].parent = scene[i].parent
                      /\ ~Local(i) /\ scene[i].kind # "SERVER" => Attr(live'[i], "aws.local.operation") = InternalOperation
                      /\ Local(i) /\ scene[i].kind # "SERVER" => Own(i, Owning[i])
  BY <1>1, <1>2 DEF OwnInv, Seen, Phase
<1>6. CASE Seen(i)
  <2>1. Lasting(i)
    BY <1>3, <1>6
  <2>2. ASSUME Local(i), scene[i].kind # "SERVER" PROVE Own(i, Owning[i])
    <3> DEFINE o == Owning[i]
    <3>1. o \in Spans /\ Seen(o) /\ (~Renamed(o) => Attr(live[i], "aws.local.operation") = IngressOperation(live[o], env.lambda))
      BY <1>4, <1>6, <2>2 DEF OwnInv
    <3>2. Lasting(o)
      BY <1>3, <3>1
    <3> HIDE DEF o
    <3>3. Own(i, o)
      BY <2>1, <3>1, <3>2 DEF Lasting
    <3> QED
      BY <3>3 DEF o
  <2> HIDE DEF Own
  <2> QED
    BY <1>6, <2>1, <2>2 DEF Lasting, OwnInv
<1>7. CASE ~Seen(i)
  <2>1. /\ live'[i].kind = scene[i].kind /\ live'[i].parent = scene[i].parent
        /\ Attr(live'[i], "aws.local.operation") = Handed(scene[i], Parent(i))
        /\ Local(i) => scene[i].up \in Spans /\ Seen(scene[i].up)
    BY <1>5, <1>7, NewlySeen
  <2>2. LocalRoot(scene[i]) <=> ~Local(i)
    BY SceneFacts DEF TInv
  <2>3. ASSUME ~Local(i), scene[i].kind # "SERVER" PROVE Attr(live'[i], "aws.local.operation") = InternalOperation
    BY <2>1, <2>2, <2>3 DEF Handed
  <2>4. ASSUME Local(i), scene[i].kind # "SERVER" PROVE Own(i, Owning[i])
    <3> DEFINE u == scene[i].up
               o == Owning[u]
    <3>1. u \in Spans /\ Seen(u) /\ Lasting(u) /\ Owning[i] = o
      BY <1>3, <1>4, <2>1, <2>4
    <3>2. Attr(live'[i], "aws.local.operation") =
            IF live[u].kind = "SERVER" THEN IngressOperation(live[u], env.lambda) ELSE Attr(live[u], "aws.local.operation")
      BY <2>1, <2>2, <2>4 DEF Handed, Parent
    <3>3. live[u].kind = scene[u].kind /\ live[u].parent = scene[u].parent
      BY <3>1 DEF OwnInv
    <3>4. o = IF Local(u) /\ scene[u].kind # "SERVER" THEN Owning[scene[u].up] ELSE u
      BY <1>4, <3>1
    <3>5. LocalRoot(scene[u]) <=> ~Local(u)
      BY <3>1, SceneFacts DEF TInv
    <3> HIDE DEF u
    <3>6. CASE scene[u].kind = "SERVER"
      <4>1. o = u
        BY <3>4, <3>6
      <4>2. Own(i, u)
        BY <3>1, <3>2, <3>3, <3>6 DEF Lasting
      <4> HIDE DEF o
      <4> QED
        BY <3>1, <4>1, <4>2
    <3>7. CASE scene[u].kind # "SERVER" /\ Local(u)
      <4>1. o \in Spans /\ Seen(o) /\ (~Renamed(o) => Attr(live[u], "aws.local.operation") = IngressOperation(live[o], env.lambda))
        BY <1>4, <3>1, <3>7 DEF OwnInv
      <4>2. Lasting(o)
        BY <1>3, <4>1
      <4> HIDE DEF o
      <4>3. Own(i, o)
        BY <3>2, <3>3, <3>7, <4>1, <4>2 DEF Lasting
      <4> QED
        BY <3>1, <4>3
    <3>8. CASE scene[u].kind # "SERVER" /\ ~Local(u)
      <4>1. o = u /\ Attr(live[u], "aws.local.operation") = InternalOperation
        BY <3>1, <3>4, <3>8 DEF OwnInv
      <4>2. IngressOperation(live[u], env.lambda) = InternalOperation
        BY <3>3, <3>5, <3>8 DEF IngressOperation, UsesInternal, LocalRoot, Counted
      <4> HIDE DEF o
      <4>3. Own(i, u)
        BY <3>1, <3>2, <3>3, <3>8, <4>1, <4>2 DEF Lasting
      <4> QED
        BY <3>1, <4>1, <4>3
    <3> QED
      BY <3>6, <3>7, <3>8
  <2> QED
    BY <2>1, <2>3, <2>4
<1> QED
  BY <1>6, <1>7

-----------------------------------------------------------------------------
(* The operation of a span as it ends, and as it is measured.              *)

(* Exporters change nothing that the operation, or the question whether    *)
(* there is a dependency, is decided by.                                   *)
Reads(s, t) ==
  /\ \A key \in Decisive \ {"aws.local.operation"} : Agree(s, t, key)
  /\ HasDependency(s) /\ ~UsesInternal(s)
     => OrElse(Attr(t, "aws.local.operation"), UnknownOperation) = OrElse(Attr(s, "aws.local.operation"), UnknownOperation)

Kin(s, t) ==
  t.name = s.name /\ t.kind = s.kind /\ t.parent = s.parent /\ t.scope = s.scope /\ Reads(s, t)

LEMMA KinFacts ==
  ASSUME NEW s, NEW t, Kin(s, t)
  PROVE  /\ \A inLambda : IngressOperation(t, inLambda) = IngressOperation(s, inLambda)
         /\ UsesInternal(t) <=> UsesInternal(s)
         /\ HasDependency(t) <=> HasDependency(s)
         /\ HasDependency(s) => EgressOperation(t) = EgressOperation(s)
<1>1. /\ Agree(s, t, "http.method") /\ Agree(s, t, "http.target") /\ Agree(s, t, "http.url")
      /\ Agree(s, t, "messaging.operation") /\ Agree(s, t, "aws.consumer.parent.span.kind")
  BY DEF Kin, Reads, Decisive
<1>2. (LocalRoot(t) <=> LocalRoot(s)) /\ (UsesInternal(t) <=> UsesInternal(s)) /\ (Boto3Sqs(t) <=> Boto3Sqs(s))
  BY DEF Kin, LocalRoot, UsesInternal, Boto3Sqs
<1>3. HttpOperation(t) = HttpOperation(s)
  BY <1>1 DEF Agree, HttpOperation, HttpPath
<1>4. \A inLambda : IngressOperation(t, inLambda) = IngressOperation(s, inLambda)
  BY <1>1, <1>2, <1>3 DEF Kin, IngressOperation, ValidOperation, Agree
<1>5. DependencyConsumer(t) <=> DependencyConsumer(s)
  BY <1>1, <1>2 DEF Kin, Agree, DependencyConsumer, ConsumerProcess
<1>6. HasDependency(t) <=> HasDependency(s)
  BY <1>2, <1>5 DEF Kin, HasDependency
<1>7. HasDependency(s) => EgressOperation(t) = EgressOperation(s)
  BY <1>2 DEF Kin, Reads, EgressOperation
<1> QED
  BY <1>2, <1>4, <1>6, <1>7

LEMMA SameKin ==
  ASSUME NEW s, NEW t, Same5(s, t)
  PROVE  Kin(s, t) /\ Kin(t, s) /\ \A u : (Reads(s, u) => Reads(t, u)) /\ (Reads(u, s) => Reads(u, t))
<1>1. \A key : Agree(s, t, key) /\ Agree(t, s, key)
  BY SameReads DEF Agree
<1>2. Attr(t, "aws.local.operation") = Attr(s, "aws.local.operation")
  BY <1>1 DEF Agree
<1>3. Kin(s, t) /\ Kin(t, s)
  BY <1>1, <1>2 DEF Same5, Kin, Reads
<1>4. (HasDependency(t) <=> HasDependency(s)) /\ (UsesInternal(t) <=> UsesInternal(s))
  BY <1>3, KinFacts
<1>5. ASSUME NEW u, Reads(s, u) PROVE Reads(t, u)
  <2>1. \A key \in Decisive \ {"aws.local.operation"} : Agree(t, u, key)
    BY <1>1, <1>5 DEF Reads, Agree
  <2> QED
    BY <1>2, <1>4, <1>5, <2>1 DEF Reads
<1>6. ASSUME NEW u, Reads(u, s) PROVE Reads(u, t)
  <2>1. \A key \in Decisive \ {"aws.local.operation"} : Agree(u, t, key)
    BY <1>1, <1>6 DEF Reads, Agree
  <2> QED
    BY <1>2, <1>6, <2>1 DEF Reads
<1> QED
  BY <1>3, <1>5, <1>6

LEMMA AttrsRead ==
  ASSUME NEW s, NEW t, NEW u, t.attrs = u.attrs
  PROVE  Reads(s, t) => Reads(s, u)
<1>1. \A key : Agree(s, t, key) <=> Agree(s, u, key)
  BY DEF Agree, Attr, Has
<1>2. \A key : Attr(t, key) = Attr(u, key)
  BY DEF Attr, Has
<1> QED
  BY <1>1, <1>2 DEF Reads

(* What the AwsMetricAttributesSpanExporter derives.                       *)
LEMMA DerivedReads ==
  ASSUME NEW s, NEW t, Kin(s, t), NEW inLambda
  PROVE  Reads(s, [attrs |-> SpanAttributes(t, inLambda) ++ t.attrs])
<1> DEFINE d == SpanAttributes(t, inLambda)
           new == d ++ t.attrs
           u == [attrs |-> new]
<1>1. /\ DOMAIN d \subseteq DerivedKeys
      /\ HasDependency(t) => "aws.local.operation" \in DOMAIN d /\ d["aws.local.operation"] = EgressOperation(t)
  BY SpanKeys
<1> HIDE DEF d
<1>2. /\ DOMAIN new = DOMAIN d \cup DOMAIN t.attrs
      /\ \A key \in DOMAIN d : new[key] = d[key]
      /\ \A key \in DOMAIN t.attrs : key \notin DOMAIN d => new[key] = t.attrs[key]
  BY JoinIs DEF Joined
<1>3. \A key \in Decisive \ {"aws.local.operation"} : key \notin DOMAIN d
  BY <1>1 DEF Decisive, DerivedKeys
<1> HIDE DEF new
<1>4. u.attrs = new
  OBVIOUS
<1> HIDE DEF u
<1>5. \A key \in Decisive \ {"aws.local.operation"} : Agree(s, u, key)
  <2> SUFFICES ASSUME NEW key \in Decisive \ {"aws.local.operation"} PROVE Agree(s, u, key)
    OBVIOUS
  <2>1. Agree(s, t, key) /\ key \notin DOMAIN d
    BY <1>3 DEF Kin, Reads
  <2> QED
    BY <1>2, <1>4, <2>1 DEF Agree, Attr, Has
<1>6. ASSUME HasDependency(s), ~UsesInternal(s)
      PROVE  OrElse(Attr(u, "aws.local.operation"), UnknownOperation) = OrElse(Attr(s, "aws.local.operation"), UnknownOperation)
  <2>1. HasDependency(t) /\ ~UsesInternal(t) /\ EgressOperation(t) = EgressOperation(s)
    BY <1>6, KinFacts
  <2>2. Attr(u, "aws.local.operation") = EgressOperation(s)
    BY <1>1, <1>2, <1>4, <2>1 DEF Attr, Has
  <2> QED
    BY <1>6, <2>2 DEF EgressOperation, OrElse
<1> QED
  BY <1>5, <1>6 DEF Reads, u, new, d

(* What the LLOHandler leaves.                                             *)
LEMMA FilteredReads ==
  ASSUME NEW s, NEW t, Kin(s, t)
  PROVE  Reads(s, [attrs |-> Filtered(t.attrs)])
<1> DEFINE u == [attrs |-> Filtered(t.attrs)]
<1>1. \A key \in Decisive : /\ key \in DOMAIN u.attrs <=> key \in DOMAIN t.attrs
                            /\ key \in DOMAIN t.attrs => u.attrs[key] = t.attrs[key]
  BY KeysAssumption DEF Filtered
<1> HIDE DEF u
<1>2. \A key \in Decisive : Agree(t, u, key)
  BY <1>1 DEF Agree, Attr, Has
<1>3. "aws.local.operation" \in Decisive
  BY DEF Decisive
<1>4. Attr(u, "aws.local.operation") = Attr(t, "aws.local.operation")
  BY <1>2, <1>3 DEF Agree
<1>5. \A key \in Decisive \ {"aws.local.operation"} : Agree(s, u, key)
  BY <1>2 DEF Kin, Reads, Agree
<1> QED
  BY <1>4, <1>5 DEF Kin, Reads, u

ExportInv ==
  /\ \A i \in Over : Kin(live[i], ended[i])
  /\ \A p \in Workers : batch[p].step = "write" => Reads(live[InHand(p)], [attrs |-> batch[p].attrs])

LEMMA NewlyOver ==
  ASSUME TInv, [Next]_vars, NEW i \in Over', i \notin Over
  PROVE  End(i)
<1>1. i \in Spans /\ DOMAIN live = Spans /\ live'[i].state = "over" /\ live[i].state # "over" /\ "state" \in DOMAIN live[i]
  BY SetupKept, Same DEF Over, Phase, TInv, LiveInv
<1>2. ASSUME NEW n \in Spans, Start(n) PROVE FALSE
  <2>1. CASE Unseen(n)
    BY <1>1, <1>2, <2>1 DEF Start, Absent
  <2>2. CASE ~Unseen(n)
    <3> DEFINE own   == Started(n).span
               above == Started(n).up.attrs
    <3>1. live'[i] = IF i = n THEN Recording(n, own)
                     ELSE IF Local(n) /\ i = scene[n].up THEN [live[i] EXCEPT !.attrs = above] ELSE live[i]
      BY <1>1, <1>2, <2>2 DEF Start
    <3> HIDE DEF own, above
    <3>2. Recording(n, own).state = "started"
      BY DEF Recording
    <3>3. [live[i] EXCEPT !.attrs = above].state = live[i].state
      BY <1>1
    <3> QED
      BY <1>1, <3>1, <3>2, <3>3
  <2> QED
    BY <2>1, <2>2
<1>3. ASSUME NEW n \in Spans, Update(n) PROVE FALSE
  BY <1>1, <1>3 DEF Update
<1>4. ASSUME NEW n \in Spans, n # i, End(n) PROVE FALSE
  BY <1>1, <1>4 DEF End
<1>5. ASSUME NEW n \in Spans, OnEnd(n) PROVE live' = live
  BY <1>5 DEF OnEnd, Refuse, Check, Enqueue, Measure
<1>6. ASSUME NEW p \in Workers, Work(p) \/ Shutdown(p) PROVE live' = live
  BY <1>6 DEF Work, Take, Generate, Process, Replace, Deliver, Fail, Exit, Shutdown
<1>7. UNCHANGED vars => live' = live
  BY DEF vars
<1> QED
  BY <1>1, <1>2, <1>3, <1>4, <1>5, <1>6, <1>7 DEF Next

LEMMA ExportStep ==
  ASSUME TInv, AInv, ExportInv, Counted, \A c \in Cases : Unnamed(c.scene), [Next]_vars
  PROVE  ExportInv'
<1>1. /\ Spans' = Spans /\ Workers' = Workers /\ DOMAIN live = Spans /\ DOMAIN ended = Spans /\ Over \subseteq Spans
  BY SetupKept, Same DEF TInv, LiveInv, Over
<1>2. \A i \in Over : i \in Over' /\ Same5(live[i], live'[i])
  BY LiveFrame DEF Lasting, Seen, Over, AInv
<1>3. ASSUME NEW i \in Over' PROVE Kin(live'[i], ended'[i])
  <2>1. CASE End(i)
    <3>1. IsOpen(live[i]) /\ i \in Spans /\ Fields \subseteq DOMAIN live[i]
      BY <1>1, <2>1 DEF End, IsOpen, AInv, FieldsInv, Phase, Over
    <3> DEFINE t == [live[i] EXCEPT !.state = "over"]
    <3>2. live'[i] = t /\ ended'[i] = live[i]
      BY <1>1, <2>1, <3>1 DEF End
    <3>3. Same5(live[i], t)
      BY <3>1 DEF Same5, Fields
    <3> HIDE DEF t
    <3> QED
      BY <3>2, <3>3, SameKin
  <2>2. CASE ~End(i)
    <3>1. i \in Over
      BY <2>2, NewlyOver
    <3>2. Kin(live[i], ended[i]) /\ Same5(live[i], live'[i])
      BY <1>2, <3>1 DEF ExportInv
    <3>3. CASE ended'[i] = ended[i]
      BY <3>2, <3>3, SameKin DEF Kin, Same5
    <3>4. ASSUME NEW p \in Workers, Replace(p), i = InHand(p) PROVE Kin(live'[i], ended'[i])
      <4> DEFINE a == batch[p].attrs
                 t == ended'[i]
      <4>1. /\ t.name = ended[i].name /\ t.kind = ended[i].kind /\ t.parent = ended[i].parent /\ t.scope = ended[i].scope
            /\ t.attrs = a /\ [attrs |-> a].attrs = a
        BY <3>4, ReplaceFacts DEF AInv
      <4>2. Reads(live[i], [attrs |-> a])
        BY <3>4 DEF Replace, ExportInv
      <4> HIDE DEF a, t
      <4>3. Reads(live[i], t)
        BY <4>1, <4>2, AttrsRead
      <4>4. Reads(live'[i], t)
        BY <3>2, <4>3, SameKin
      <4>5. Kin(live'[i], t)
        BY <3>2, <4>1, <4>4 DEF Kin, Same5
      <4> QED
        BY <4>5 DEF t
    <3>5. i \in Spans
      BY <1>1, <3>1
    <3> QED
      BY <2>2, <3>3, <3>4, <3>5, EndedSteps DEF AInv
  <2> QED
    BY <2>1, <2>2
<1>4. ASSUME NEW p \in Workers, batch'[p].step = "write"
      PROVE  Reads(live'[batch'[p].spans[batch'[p].at]], [attrs |-> batch'[p].attrs])
  <2> DEFINE i == InHand(p)
             b == batch[p]
  <2>1. IsBatch(b, Over) /\ DOMAIN batch = Workers /\ Len(b.spans) \in Nat /\ DOMAIN b.spans = 1..Len(b.spans)
    BY LenProperties DEF TInv, WorkInv, IsBatch
  <2>2. b.at \in DOMAIN b.spans => i \in Over /\ Same5(live[i], live'[i])
    BY <1>2, <2>1, ElementOfSeq DEF IsBatch, InHand
  <2>3. CASE batch'[p] = b
    <3>1. b.step = "write" /\ b.at \in DOMAIN b.spans
      BY <1>4, <2>1, <2>3 DEF IsBatch
    <3>2. Reads(live[i], [attrs |-> b.attrs])
      BY <3>1 DEF ExportInv
    <3>3. Reads(live'[i], [attrs |-> b.attrs])
      BY <2>2, <3>1, <3>2, SameKin
    <3> QED
      BY <2>3, <3>3 DEF InHand
  <2>4. ASSUME NEW attrs, b.at \in DOMAIN b.spans, Reads(live[i], [attrs |-> attrs]),
               batch'[p] = [[b EXCEPT !.step = "write"] EXCEPT !.attrs = attrs]
        PROVE  Reads(live'[batch'[p].spans[batch'[p].at]], [attrs |-> batch'[p].attrs])
    <3>1. batch'[p].spans = b.spans /\ batch'[p].at = b.at /\ batch'[p].attrs = attrs
      BY <2>1, <2>4 DEF IsBatch
    <3>2. batch'[p].spans[batch'[p].at] = i
      BY <3>1 DEF InHand
    <3>3. Reads(live'[i], [attrs |-> attrs])
      BY <2>2, <2>4, SameKin
    <3> HIDE DEF i, b
    <3> QED
      BY <3>1, <3>2, <3>3
  <2>5. Generate(p) \/ Process(p) => b.at \in DOMAIN b.spans
    BY <2>1 DEF Generate, Process, Prepared, IsBatch
  <2>6. CASE Generate(p)
    <3>1. Kin(live[i], ended[i])
      BY <2>2, <2>5, <2>6 DEF ExportInv
    <3>2. IF Raises(ended[i]) THEN Lose(p, "raised")
          ELSE batch' = [batch EXCEPT ![p] = IF Derived(i) = None THEN Advance(b)
                                             ELSE [[b EXCEPT !.step = "write"] EXCEPT !.attrs = Derived(i) ++ ended[i].attrs]]
      BY <2>1, <2>6 DEF Generate, Derived
    <3>3. Idle.step = "read" /\ Advance(b).step = "read"
      BY <2>1 DEF Idle, Advance, IsBatch
    <3>4. ~Raises(ended[i]) /\ Derived(i) # None
      <4>1. Raises(ended[i]) => batch'[p] = Idle
        BY <2>1, <3>2 DEF Lose
      <4>2. ~Raises(ended[i]) /\ Derived(i) = None => batch'[p] = Advance(b)
        BY <2>1, <3>2
      <4> QED
        BY <1>4, <3>3, <4>1, <4>2
    <3> DEFINE attrs == Derived(i) ++ ended[i].attrs
    <3>5. batch'[p] = [[b EXCEPT !.step = "write"] EXCEPT !.attrs = attrs]
      BY <2>1, <3>2, <3>4
    <3>6. Reads(live[i], [attrs |-> attrs])
      BY <3>1, DerivedReads DEF Derived
    <3> HIDE DEF attrs, i, b
    <3> QED
      BY <2>4, <2>5, <2>6, <3>5, <3>6
  <2>7. CASE Process(p)
    <3>1. Kin(live[i], ended[i])
      BY <2>2, <2>5, <2>7 DEF ExportInv
    <3> DEFINE attrs == Filtered(ended[i].attrs)
    <3>2. batch'[p] = [[b EXCEPT !.step = "write"] EXCEPT !.attrs = attrs]
      BY <2>1, <2>7 DEF Process
    <3>3. Reads(live[i], [attrs |-> attrs])
      BY <3>1, FilteredReads
    <3> HIDE DEF attrs, i, b
    <3> QED
      BY <2>4, <2>5, <2>7, <3>2, <3>3
  <2> QED
    BY <1>4, <2>3, <2>6, <2>7, Writing
<1> QED
  BY <1>1, <1>3, <1>4 DEF ExportInv, InHand

(* A service metric has the operation of its span, and a dependency metric *)
(* that of the span that made the call, as the application left them.      *)
Meant(m, s) ==
  /\ m.kind = "service" => m.attrs["aws.local.operation"] = IngressOperation(s, env.lambda)
  /\ m.kind = "dependency" => HasDependency(s) /\ m.attrs["aws.local.operation"] = EgressOperation(s)

MetricInv == \A m \in metrics : Meant(m, live[m.span])

LEMMA MeantStep ==
  ASSUME TInv, AInv, ExportInv, MetricInv, Counted, \A c \in Cases : Unnamed(c.scene), [Next]_vars
  PROVE  MetricInv'
<1>1. env' = env
  BY SetupKept
<1>2. SUFFICES ASSUME NEW m \in metrics' PROVE Meant(m, live'[m.span])
  BY <1>1, <1>2 DEF MetricInv, Meant
<1>3. CASE m \in metrics
  <2> DEFINE s == live[m.span]
             t == live'[m.span]
  <2>1. m.span \in Over /\ m.span \in Spans /\ Seen(m.span)
    BY <1>3 DEF AInv, MeasureInv, Over, Seen
  <2>2. Same5(s, t)
    BY <2>1, LiveFrame DEF Lasting, AInv
  <2>3. Meant(m, s)
    BY <1>3 DEF MetricInv, Meant
  <2> HIDE DEF s, t
  <2>4. Kin(s, t)
    BY <2>2, SameKin
  <2>5. Meant(m, t)
    BY <2>3, <2>4, KinFacts DEF Meant
  <2> QED
    BY <2>5 DEF t
<1>4. ASSUME NEW i \in Spans, NEW p \in DOMAIN Pipeline, Measure(i, p), m \notin metrics
      PROVE  Meant(m, live'[m.span])
  <2> DEFINE s == live[i]
             t == ended[i]
  <2>1. i \in Over /\ m.span = i /\ MetricOf(i, m)
    BY <1>4, MeasureFacts
  <2>2. live' = live /\ Kin(s, t)
    BY <1>4, <2>1 DEF Measure, ExportInv
  <2>3. \/ m.kind = "service" /\ m.attrs["aws.local.operation"] = IngressOperation(t, env.lambda)
        \/ m.kind = "dependency" /\ HasDependency(t) /\ m.attrs["aws.local.operation"] = EgressOperation(t)
    BY <2>1, ServiceKeys, DependencyKeys DEF MetricOf
  <2> HIDE DEF s, t
  <2>4. Meant(m, s)
    BY <2>2, <2>3, KinFacts DEF Meant
  <2> QED
    BY <2>1, <2>2, <2>4 DEF s
<1> QED
  BY <1>3, <1>4, MetricsStep

LEMMA IngressNamed == ASSUME NEW s PROVE IngressOperation(s, FALSE) # None
<1>1. \A path : ApiPath(path) # <<>>
  BY DEF ApiPath
<1>2. ASSUME NEW method, NEW path PROVE Prefixed(method, ApiPath(path)) # <<>>
  <2> DEFINE a == ApiPath(path)
             b == <<method[1], " ">>
             T == {"/", path[1], method[1], " "}
  <2>1. a \in Seq(T) /\ b \in Seq(T) /\ Len(b) = 2
    <3>1. <<"/">> \in Seq(T) /\ <<"/", path[1]>> \in Seq(T)
      OBVIOUS
    <3>2. b \in Seq(T) /\ Len(b) = 2
      OBVIOUS
    <3> QED
      BY <3>1, <3>2 DEF ApiPath
  <2> HIDE DEF a, b, T
  <2>2. Len(b \o a) = Len(b) + Len(a) /\ Len(a) \in Nat
    BY <2>1, ConcatProperties, LenProperties
  <2>3. b \o a # <<>>
    <3>1. Len(<<>>) = 0
      OBVIOUS
    <3> QED
      BY <2>1, <2>2, <3>1
  <2> QED
    BY <1>1, <2>3 DEF Prefixed, a, b
<1>3. HttpOperation(s) # <<>>
  BY <1>2 DEF HttpOperation, UnknownOperation
<1> QED
  BY <1>3 DEF IngressOperation, InternalOperation, ValidOperation, None

AgreeInv == Counted => OwnInv /\ ExportInv /\ MetricInv

LEMMA AgreeStep ==
  ASSUME \A c \in Cases : Unnamed(c.scene)
  PROVE  TInv /\ AInv /\ AgreeInv /\ [Next]_vars => AgreeInv'
<1> SUFFICES ASSUME TInv, AInv, AgreeInv, [Next]_vars, Counted' PROVE OwnInv' /\ ExportInv' /\ MetricInv'
  BY DEF AgreeInv
<1>1. Counted
  BY SetupKept DEF Counted
<1>2. OwnInv /\ ExportInv /\ MetricInv
  BY <1>1 DEF AgreeInv
<1> QED
  BY <1>1, <1>2, OwnStep, ExportStep, MeantStep DEF AInv

LEMMA AgreeInit == Init => AgreeInv
<1> SUFFICES ASSUME Init PROVE OwnInv /\ ExportInv /\ MetricInv
  BY DEF AgreeInv
<1>1. metrics = {} /\ (\A i \in Spans : Phase(i) = "none") /\ \A p \in Workers : batch[p].step = "read"
  BY DEF Init, Phase, NoSpan, Idle
<1> QED
  BY <1>1 DEF OwnInv, ExportInv, MetricInv, Seen, Over

LEMMA AgreeMeans == TInv /\ AInv /\ AgreeInv => OperationAgrees
<1> SUFFICES ASSUME TInv, AInv, AgreeInv, NEW d \in metrics, NEW m \in metrics,
                    d.kind = "dependency", m.kind = "service", m.span = Owning[d.span], ~Renamed(m.span)
             PROVE  d.attrs["aws.local.operation"] = m.attrs["aws.local.operation"]
  BY DEF OperationAgrees
<1> DEFINE i == d.span
           o == m.span
<1>1. Counted /\ i \in Over /\ i \in Spans /\ Seen(i) /\ o \in Over
  BY DEF AInv, MeasureInv, Counted, Over, Seen
<1>2. OwnInv /\ MetricInv /\ env.lambda = FALSE
  BY <1>1 DEF AgreeInv, Counted
<1>3. /\ m.attrs["aws.local.operation"] = IngressOperation(live[o], env.lambda)
      /\ HasDependency(live[i]) /\ d.attrs["aws.local.operation"] = EgressOperation(live[i])
  BY <1>2 DEF MetricInv, Meant
<1>4. live[i].kind = scene[i].kind /\ live[i].parent = scene[i].parent
  BY <1>1, <1>2 DEF OwnInv
<1>5. live[i].kind # "SERVER" /\ (LocalRoot(live[i]) <=> ~Local(i))
  <2>1. LocalRoot(scene[i]) <=> ~Local(i)
    BY <1>1, SceneFacts DEF TInv
  <2> QED
    BY <1>3, <1>4, <2>1 DEF HasDependency, DependencyConsumer, LocalRoot
<1>6. o = IF Local(i) THEN Owning[scene[i].up] ELSE i
  BY <1>1, <1>4, <1>5, OwningFacts DEF TInv
<1>7. CASE ~Local(i)
  BY <1>2, <1>3, <1>5, <1>6, <1>7 DEF EgressOperation, IngressOperation, UsesInternal
<1>8. CASE Local(i)
  <2>1. Attr(live[i], "aws.local.operation") = IngressOperation(live[o], env.lambda)
    BY <1>1, <1>2, <1>4, <1>5, <1>8 DEF OwnInv
  <2>2. IngressOperation(live[o], env.lambda) # None
    BY <1>2, IngressNamed
  <2> QED
    BY <1>3, <1>5, <1>8, <2>1, <2>2 DEF EgressOperation, UsesInternal, OrElse
<1> QED
  BY <1>7, <1>8

(* The metrics of a dependency and of the service that calls it name the   *)
(* same operation, whatever the spans between the two, the other spans of  *)
(* the trace and the exporters do meanwhile, unless the span of the        *)
(* service is renamed: its operation is handed down parent by parent as    *)
(* spans start.  The application leaves "aws.local.operation" alone.       *)
THEOREM OperationsAgree ==
  ASSUME \A c \in Cases : Unnamed(c.scene)
  PROVE  Spec => []OperationAgrees
<1>1. AInv /\ TInv /\ AgreeInv => OperationAgrees
  BY AgreeMeans
<1>2. TInv /\ AInv /\ AgreeInv /\ [Next]_vars => AgreeInv'
  BY AgreeStep
<1> QED
  BY <1>1, <1>2, AgreeInit, AInit, AStep, Types, EachSpanOnce, PTL DEF Spec

-----------------------------------------------------------------------------
(* The LLOHandler goes over the events, one after the other.               *)
LEMMA CollectedSteps ==
  ASSUME NEW s, Len(s.events) \in Nat
  PROVE  \E f : /\ f[0] = LloOnly(s.attrs)
                /\ \A n \in 1..Len(s.events) : f[n] = OfEvent(s.events[n]) ++ f[n - 1]
                /\ Collected(s) = f[Len(s.events)]
<1> DEFINE N == Len(s.events)
           Step(f, n) == IF n = 0 THEN LloOnly(s.attrs) ELSE OfEvent(s.events[n]) ++ f[n - 1]
           Upto(m) == \E f : f = [n \in 0..m |-> Step(f, n)]
           found == CHOOSE f : f = [n \in 0..N |-> Step(f, n)]
<1>1. Collected(s) = found[N]
  BY DEF Collected
<1>2. Upto(N)
  <2> DEFINE Bad == { m \in 0..N : ~Upto(m) }
  <2> SUFFICES ASSUME Bad # {} PROVE FALSE
    OBVIOUS
  <2>1. Bad \in SUBSET Nat
    OBVIOUS
  <2>2. PICK m \in Bad : \A r \in Bad : m <= r
    BY <2>1, Least
  <2>3. m \in 0..N /\ ~Upto(m)
    BY <2>2
  <2> HIDE DEF Step
  <2>4. CASE m = 0
    <3> DEFINE g == [n \in 0..0 |-> Step(<<>>, n)]
    <3>1. g = [n \in 0..0 |-> Step(g, n)]
      BY DEF Step
    <3> HIDE DEF g
    <3> QED
      BY <2>3, <2>4, <3>1
  <2>5. CASE m # 0
    <3>1. m - 1 \in 0..N /\ m - 1 \notin Bad
      BY <2>2, <2>5
    <3>2. PICK f : f = [n \in 0..(m - 1) |-> Step(f, n)]
      BY <3>1
    <3> DEFINE g == [n \in 0..m |-> IF n = m THEN Step(f, m) ELSE f[n]]
    <3>3. \A n \in 0..m : Step(g, n) = Step(f, n)
      BY <2>3, <2>5 DEF Step
    <3>4. \A n \in 0..m : g[n] = Step(f, n)
      <4> HIDE DEF Step
      <4> QED
        BY <2>3, <3>2
    <3>5. g = [n \in 0..m |-> Step(g, n)]
      <4>1. DOMAIN g = 0..m /\ g = [n \in 0..m |-> g[n]]
        OBVIOUS
      <4> HIDE DEF g
      <4> QED
        BY <3>3, <3>4, <4>1
    <3> HIDE DEF g
    <3> QED
      BY <2>3, <3>5
  <2> QED
    BY <2>4, <2>5
<1>3. found = [n \in 0..N |-> Step(found, n)]
  <2> HIDE DEF Step
  <2> QED
    BY <1>2, Zenon
<1> HIDE DEF found
<1>4. found[0] = LloOnly(s.attrs) /\ \A n \in 1..N : found[n] = OfEvent(s.events[n]) ++ found[n - 1]
  BY <1>3
<1> QED
  BY <1>1, <1>4

Kept(e) == [name |-> e.name, attrs |-> Filtered(e.attrs)]

LEMMA KeptSteps ==
  ASSUME NEW es, Len(es) \in Nat
  PROVE  \E f : /\ f[0] = <<>>
                /\ \A n \in 1..Len(es) : f[n] = IF IsLlo(es[n].name) THEN f[n - 1] ELSE Append(f[n - 1], Kept(es[n]))
                /\ FilteredEvents(es) = f[Len(es)]
<1> DEFINE N == Len(es)
           Step(f, n) == IF n = 0 THEN <<>>
                         ELSE IF IsLlo(es[n].name) THEN f[n - 1] ELSE Append(f[n - 1], Kept(es[n]))
           Upto(m) == \E f : f = [n \in 0..m |-> Step(f, n)]
           kept == CHOOSE f : f = [n \in 0..N |-> Step(f, n)]
<1>1. FilteredEvents(es) = kept[N]
  BY DEF FilteredEvents, Kept
<1> HIDE DEF Step
<1>2. Upto(N)
  <2> DEFINE Bad == { m \in 0..N : ~Upto(m) }
  <2> SUFFICES ASSUME Bad # {} PROVE FALSE
    OBVIOUS
  <2>1. Bad \in SUBSET Nat
    OBVIOUS
  <2>2. PICK m \in Bad : \A r \in Bad : m <= r
    BY <2>1, Least
  <2>3. m \in 0..N /\ ~Upto(m)
    BY <2>2
  <2>4. CASE m = 0
    <3> DEFINE g == [n \in 0..0 |-> Step(<<>>, n)]
    <3>1. g = [n \in 0..0 |-> Step(g, n)]
      BY DEF Step
    <3> HIDE DEF g
    <3> QED
      BY <2>3, <2>4, <3>1
  <2>5. CASE m # 0
    <3>1. m - 1 \in 0..N /\ m - 1 \notin Bad
      BY <2>2, <2>5
    <3>2. PICK f : f = [n \in 0..(m - 1) |-> Step(f, n)]
      BY <3>1
    <3> DEFINE g == [n \in 0..m |-> IF n = m THEN Step(f, m) ELSE f[n]]
    <3>3. \A n \in 0..m : Step(g, n) = Step(f, n)
      BY <2>3, <2>5 DEF Step
    <3>4. \A n \in 0..m : g[n] = Step(f, n)
      BY <2>3, <3>2
    <3>5. g = [n \in 0..m |-> Step(g, n)]
      <4>1. DOMAIN g = 0..m /\ g = [n \in 0..m |-> g[n]]
        OBVIOUS
      <4> HIDE DEF g
      <4> QED
        BY <3>3, <3>4, <4>1
    <3> HIDE DEF g
    <3> QED
      BY <2>3, <3>5
  <2> QED
    BY <2>4, <2>5
<1>3. kept = [n \in 0..N |-> Step(kept, n)]
  BY <1>2, Zenon
<1> HIDE DEF kept
<1>4. \A n \in 0..N : kept[n] = Step(kept, n)
  BY <1>3
<1> QED
  BY <1>1, <1>4 DEF Step

(* What is kept has no content.                                            *)
IsClean(e) == ~IsLlo(e.name) /\ \A key \in DOMAIN e.attrs : ~IsLlo(key)

LEMMA KeptClean ==
  ASSUME NEW es, Len(es) \in Nat
  PROVE  \A n \in DOMAIN FilteredEvents(es) : IsClean(FilteredEvents(es)[n])
<1> DEFINE N == Len(es)
           T == { Kept(es[m]) : m \in { k \in 1..N : ~IsLlo(es[k].name) } }
<1>1. PICK f : /\ f[0] = <<>>
               /\ \A n \in 1..N : f[n] = IF IsLlo(es[n].name) THEN f[n - 1] ELSE Append(f[n - 1], Kept(es[n]))
               /\ FilteredEvents(es) = f[N]
  BY KeptSteps
<1>2. \A e \in T : IsClean(e)
  <2>1. \A e : ~IsLlo(e.name) => IsClean(Kept(e))
    BY DEF IsClean, Kept, Filtered
  <2> QED
    BY <2>1
<1>3. \A n \in 1..N : ~IsLlo(es[n].name) => Kept(es[n]) \in T
  OBVIOUS
<1> HIDE DEF T
<1> DEFINE Bad == { n \in 0..N : f[n] \notin Seq(T) }
<1>4. Bad = {}
  <2> SUFFICES ASSUME Bad # {} PROVE FALSE
    OBVIOUS
  <2>1. Bad \in SUBSET Nat
    OBVIOUS
  <2>2. PICK m \in Bad : \A r \in Bad : m <= r
    BY <2>1, Least
  <2>3. m # 0
    BY <1>1, <2>2, EmptySeq
  <2>4. m \in 1..N /\ m - 1 \in 0..N /\ m - 1 \notin Bad
    BY <2>2, <2>3
  <2>5. f[m - 1] \in Seq(T)
    BY <2>4
  <2> DEFINE g == f[m - 1]
             e == Kept(es[m])
  <2>6. f[m] = IF IsLlo(es[m].name) THEN g ELSE Append(g, e)
    BY <1>1, <2>4
  <2>7. g \in Seq(T) /\ (~IsLlo(es[m].name) => e \in T)
    BY <1>3, <2>4, <2>5
  <2> HIDE DEF g, e
  <2>8. f[m] \in Seq(T)
    BY <2>6, <2>7, AppendProperties
  <2> QED
    BY <2>2, <2>8
<1>5. f[N] \in Seq(T)
  BY <1>4
<1>6. \A n \in DOMAIN f[N] : f[N][n] \in T
  BY <1>5, ElementOfSeq, LenProperties
<1> QED
  BY <1>1, <1>2, <1>6

(* What is on the span at a place.                                         *)
LEMMA ContentsAre ==
  ASSUME NEW s, s.events \in Seq(Range(s.events))
  PROVE  LET N == Len(s.events)
         IN  /\ N \in Nat /\ DOMAIN s.events = 1..N
             /\ \A k \in DOMAIN s.attrs : IsLlo(k) => <<0, k, s.attrs[k]>> \in Contents(s)
             /\ \A n \in 1..N : IsLlo(s.events[n].name)
                  => <<2 * n - 1, s.events[n].name, EventContent(s.events[n].attrs)>> \in Contents(s)
             /\ \A n \in 1..N : \A k \in DOMAIN s.events[n].attrs : IsLlo(k)
                  => <<2 * n, k, s.events[n].attrs[k]>> \in Contents(s)
             /\ \A c \in Contents(s) :
                  \/ c[1] = 0 /\ IsLlo(c[2]) /\ c[2] \in DOMAIN s.attrs /\ c = <<0, c[2], s.attrs[c[2]]>>
                  \/ \E n \in 1..N : /\ c[1] = 2 * n - 1 /\ IsLlo(c[2]) /\ c[2] = s.events[n].name
                                     /\ c = <<2 * n - 1, c[2], EventContent(s.events[n].attrs)>>
                  \/ \E n \in 1..N : /\ c[1] = 2 * n /\ IsLlo(c[2]) /\ c[2] \in DOMAIN s.events[n].attrs
                                     /\ c = <<2 * n, c[2], s.events[n].attrs[c[2]]>>
<1> DEFINE N == Len(s.events)
<1>1. N \in Nat /\ DOMAIN s.events = 1..N
  <2> DEFINE es == s.events
             S == Range(es)
  <2>1. es \in Seq(S)
    OBVIOUS
  <2> HIDE DEF es, S
  <2>2. Len(es) \in Nat /\ DOMAIN es = 1..Len(es)
    BY <2>1, LenProperties
  <2> QED
    BY <2>2 DEF es
<1>2. \A k \in DOMAIN s.attrs : IsLlo(k) => <<0, k, s.attrs[k]>> \in Contents(s)
  BY DEF Contents
<1>3. \A n \in 1..N : IsLlo(s.events[n].name)
        => <<2 * n - 1, s.events[n].name, EventContent(s.events[n].attrs)>> \in Contents(s)
  BY <1>1 DEF Contents
<1>4. \A n \in 1..N : \A k \in DOMAIN s.events[n].attrs : IsLlo(k)
        => <<2 * n, k, s.events[n].attrs[k]>> \in Contents(s)
  BY <1>1 DEF Contents
<1>5. ASSUME NEW c \in Contents(s)
      PROVE  \/ c[1] = 0 /\ IsLlo(c[2]) /\ c[2] \in DOMAIN s.attrs /\ c = <<0, c[2], s.attrs[c[2]]>>
             \/ \E n \in 1..N : /\ c[1] = 2 * n - 1 /\ IsLlo(c[2]) /\ c[2] = s.events[n].name
                                /\ c = <<2 * n - 1, c[2], EventContent(s.events[n].attrs)>>
             \/ \E n \in 1..N : /\ c[1] = 2 * n /\ IsLlo(c[2]) /\ c[2] \in DOMAIN s.events[n].attrs
                                /\ c = <<2 * n, c[2], s.events[n].attrs[c[2]]>>
  <2>1. CASE \E k \in DOMAIN s.attrs : IsLlo(k) /\ c = <<0, k, s.attrs[k]>>
    BY <2>1
  <2>2. CASE \E n \in 1..N : IsLlo(s.events[n].name) /\ c = <<2 * n - 1, s.events[n].name, EventContent(s.events[n].attrs)>>
    BY <2>2
  <2>3. CASE \E n \in 1..N : \E k \in DOMAIN s.events[n].attrs : IsLlo(k) /\ c = <<2 * n, k, s.events[n].attrs[k]>>
    BY <2>3
  <2> QED
    BY <1>1, <2>1, <2>2, <2>3 DEF Contents
<1> QED
  BY <1>1, <1>2, <1>3, <1>4, <1>5

LEMMA OfEventFacts ==
  ASSUME NEW e
  PROVE  LET o == OfEvent(e)
         IN  /\ DOMAIN o = { k \in DOMAIN e.attrs : IsLlo(k) } \cup (IF IsLlo(e.name) THEN {e.name} ELSE {})
             /\ \A k \in DOMAIN o : o[k] = IF k \in DOMAIN e.attrs THEN e.attrs[k] ELSE EventContent(e.attrs)
<1> DEFINE a == LloOnly(e.attrs)
           b == IF IsLlo(e.name) THEN Entry(e.name, EventContent(e.attrs)) ELSE <<>>
<1>1. DOMAIN a = { k \in DOMAIN e.attrs : IsLlo(k) } /\ \A k \in DOMAIN a : a[k] = e.attrs[k]
  BY DEF LloOnly
<1>2. DOMAIN b = (IF IsLlo(e.name) THEN {e.name} ELSE {}) /\ \A k \in DOMAIN b : b[k] = EventContent(e.attrs)
  <2>1. DOMAIN <<>> = {}
    OBVIOUS
  <2>2. CASE IsLlo(e.name)
    <3>1. b = Entry(e.name, EventContent(e.attrs))
      BY <2>2
    <3> HIDE DEF b
    <3>2. DOMAIN b = {e.name} /\ b[e.name] = EventContent(e.attrs)
      BY <3>1, OneFacts
    <3> QED
      BY <2>2, <3>2
  <2>3. CASE ~IsLlo(e.name)
    BY <2>1, <2>3
  <2> QED
    BY <2>2, <2>3
<1>3. OfEvent(e) = a ++ b
  BY DEF OfEvent
<1> HIDE DEF a, b
<1>4. DOMAIN (a ++ b) = DOMAIN a \cup DOMAIN b /\ \A k \in DOMAIN (a ++ b) : (a ++ b)[k] = IF k \in DOMAIN a THEN a[k] ELSE b[k]
  BY JoinIs DEF Joined
<1>5. \A k \in DOMAIN b : IsLlo(k)
  BY <1>2
<1> QED
  BY <1>1, <1>2, <1>3, <1>4, <1>5

(* Of the content with a key, what comes last is collected.                *)
LEMMA CollectedFacts ==
  ASSUME NEW s, s.events \in Seq(Range(s.events))
  PROVE  /\ \A c \in Latest(Contents(s)) : c[2] \in DOMAIN Collected(s) /\ Collected(s)[c[2]] = c[3] /\ IsLlo(c[2])
         /\ \A k \in DOMAIN Collected(s) : \E c \in Latest(Contents(s)) : c[2] = k /\ c[3] = Collected(s)[k]
<1> DEFINE N == Len(s.events)
           C == Contents(s)
           Top(c, m) == c \in C /\ c[1] <= 2 * m /\ \A d \in C : d[1] <= 2 * m /\ d[2] = c[2] => d[1] <= c[1]
           Good(g, m) == /\ \A c \in C : c[1] <= 2 * m => c[2] \in DOMAIN g
                         /\ \A k \in DOMAIN g : \E c : Top(c, m) /\ c[2] = k /\ c[3] = g[k]
<1>1. N \in Nat
  BY ContentsAre
<1>2. /\ \A k \in DOMAIN s.attrs : IsLlo(k) => <<0, k, s.attrs[k]>> \in C
      /\ \A n \in 1..N : IsLlo(s.events[n].name)
           => <<2 * n - 1, s.events[n].name, EventContent(s.events[n].attrs)>> \in C
      /\ \A n \in 1..N : \A k \in DOMAIN s.events[n].attrs : IsLlo(k)
           => <<2 * n, k, s.events[n].attrs[k]>> \in C
  BY ContentsAre
<1>3. \A c \in C :
        \/ c[1] = 0 /\ IsLlo(c[2]) /\ c[2] \in DOMAIN s.attrs /\ c = <<0, c[2], s.attrs[c[2]]>>
        \/ \E n \in 1..N : /\ c[1] = 2 * n - 1 /\ IsLlo(c[2]) /\ c[2] = s.events[n].name
                           /\ c = <<2 * n - 1, c[2], EventContent(s.events[n].attrs)>>
        \/ \E n \in 1..N : /\ c[1] = 2 * n /\ IsLlo(c[2]) /\ c[2] \in DOMAIN s.events[n].attrs
                           /\ c = <<2 * n, c[2], s.events[n].attrs[c[2]]>>
  BY ContentsAre
<1> HIDE DEF C
<1>4. \A c \in C : c[1] \in 0..(2 * N) /\ IsLlo(c[2])
  BY <1>1, <1>3
<1>5. \A c \in C, d \in C : c[1] = d[1] /\ c[2] = d[2] => c = d
  <2> SUFFICES ASSUME NEW c \in C, NEW d \in C, c[1] = d[1], c[2] = d[2] PROVE c = d
    OBVIOUS
  <2>1. \A x \in C : x[1] = 0 => x = <<0, x[2], s.attrs[x[2]]>>
    <3> SUFFICES ASSUME NEW x \in C, x[1] = 0 PROVE x = <<0, x[2], s.attrs[x[2]]>>
      OBVIOUS
    <3>1. \A m \in 1..N : x[1] # 2 * m - 1 /\ x[1] # 2 * m
      BY <1>1
    <3> QED
      BY <1>3, <3>1
  <2>2. \A n \in 1..N : \A x \in C : x[1] = 2 * n - 1 => x = <<2 * n - 1, x[2], EventContent(s.events[n].attrs)>>
    <3> SUFFICES ASSUME NEW n \in 1..N, NEW x \in C, x[1] = 2 * n - 1
                 PROVE  x = <<2 * n - 1, x[2], EventContent(s.events[n].attrs)>>
      OBVIOUS
    <3>1. x[1] # 0 /\ \A m \in 1..N : x[1] # 2 * m /\ (x[1] = 2 * m - 1 => m = n)
      BY <1>1
    <3> QED
      BY <1>3, <3>1
  <2>3. \A n \in 1..N : \A x \in C : x[1] = 2 * n => x = <<2 * n, x[2], s.events[n].attrs[x[2]]>>
    <3> SUFFICES ASSUME NEW n \in 1..N, NEW x \in C, x[1] = 2 * n
                 PROVE  x = <<2 * n, x[2], s.events[n].attrs[x[2]]>>
      OBVIOUS
    <3>1. x[1] # 0 /\ \A m \in 1..N : x[1] # 2 * m - 1 /\ (x[1] = 2 * m => m = n)
      BY <1>1
    <3> QED
      BY <1>3, <3>1
  <2>4. c[1] = 0 \/ \E n \in 1..N : c[1] = 2 * n - 1 \/ c[1] = 2 * n
    BY <1>3
  <2>5. CASE c[1] = 0
    <3>1. c = <<0, c[2], s.attrs[c[2]]>> /\ d = <<0, d[2], s.attrs[d[2]]>>
      BY <2>1, <2>5
    <3> QED
      BY <3>1
  <2>6. ASSUME NEW n \in 1..N, c[1] = 2 * n - 1 PROVE c = d
    <3>1. /\ c = <<2 * n - 1, c[2], EventContent(s.events[n].attrs)>>
          /\ d = <<2 * n - 1, d[2], EventContent(s.events[n].attrs)>>
      BY <2>2, <2>6
    <3> QED
      BY <3>1
  <2>7. ASSUME NEW n \in 1..N, c[1] = 2 * n PROVE c = d
    <3>1. c = <<2 * n, c[2], s.events[n].attrs[c[2]]>> /\ d = <<2 * n, d[2], s.events[n].attrs[d[2]]>>
      BY <2>3, <2>7
    <3> QED
      BY <3>1
  <2> QED
    BY <2>4, <2>5, <2>6, <2>7
<1>6. PICK f : /\ f[0] = LloOnly(s.attrs)
               /\ \A n \in 1..N : f[n] = OfEvent(s.events[n]) ++ f[n - 1]
               /\ Collected(s) = f[N]
  BY <1>1, CollectedSteps
<1>7. Good(f[0], 0)
  <2>1. DOMAIN f[0] = { k \in DOMAIN s.attrs : IsLlo(k) } /\ \A k \in DOMAIN f[0] : f[0][k] = s.attrs[k]
    BY <1>6 DEF LloOnly
  <2>2. \A c \in C : c[1] <= 0 => c[1] = 0 /\ IsLlo(c[2]) /\ c[2] \in DOMAIN s.attrs
    BY <1>1, <1>3
  <2>3. ASSUME NEW k \in DOMAIN f[0] PROVE \E c : Top(c, 0) /\ c[2] = k /\ c[3] = f[0][k]
    <3> DEFINE c == <<0, k, s.attrs[k]>>
    <3>1. c \in C /\ c[1] = 0 /\ c[2] = k /\ c[3] = f[0][k]
      BY <1>2, <2>1
    <3> HIDE DEF c
    <3>2. Top(c, 0)
      BY <2>2, <3>1
    <3> QED
      BY <3>1, <3>2
  <2> QED
    BY <2>1, <2>2, <2>3
<1>8. ASSUME NEW m \in 1..N, Good(f[m - 1], m - 1) PROVE Good(f[m], m)
  <2> DEFINE e == s.events[m]
             o == OfEvent(e)
             g == f[m - 1]
  <2>1. /\ DOMAIN o = { k \in DOMAIN e.attrs : IsLlo(k) } \cup (IF IsLlo(e.name) THEN {e.name} ELSE {})
        /\ \A k \in DOMAIN o : o[k] = IF k \in DOMAIN e.attrs THEN e.attrs[k] ELSE EventContent(e.attrs)
    BY OfEventFacts
  <2>2. f[m] = o ++ g
    BY <1>6
  <2> HIDE DEF o, g
  <2>3. /\ DOMAIN f[m] = DOMAIN o \cup DOMAIN g
        /\ \A k \in DOMAIN f[m] : f[m][k] = IF k \in DOMAIN o THEN o[k] ELSE g[k]
    BY <2>2, JoinIs DEF Joined
  <2>4. \A c \in C : c[1] <= 2 * m => \/ c[1] <= 2 * (m - 1)
                                      \/ c[1] = 2 * m - 1 /\ c[2] = e.name /\ IsLlo(e.name)
                                      \/ c[1] = 2 * m /\ c[2] \in DOMAIN e.attrs /\ IsLlo(c[2])
    <3> SUFFICES ASSUME NEW c \in C, c[1] <= 2 * m, ~(c[1] <= 2 * (m - 1))
                 PROVE  \/ c[1] = 2 * m - 1 /\ c[2] = e.name /\ IsLlo(e.name)
                        \/ c[1] = 2 * m /\ c[2] \in DOMAIN e.attrs /\ IsLlo(c[2])
      OBVIOUS
    <3>1. c[1] # 0 /\ \A n \in 1..N : c[1] = 2 * n - 1 \/ c[1] = 2 * n => n = m
      BY <1>1, <1>4
    <3> QED
      BY <1>3, <3>1
  <2>5. \A c \in C : c[1] <= 2 * m /\ c[2] \notin DOMAIN o => c[1] <= 2 * (m - 1)
    BY <2>1, <2>4
  <2>6. \A c \in C : c[1] <= 2 * m => c[2] \in DOMAIN f[m]
    BY <1>8, <2>3, <2>5 DEF g
  <2>7. ASSUME NEW k \in DOMAIN o PROVE \E c : Top(c, m) /\ c[2] = k /\ c[3] = f[m][k]
    <3>1. CASE k \in DOMAIN e.attrs /\ IsLlo(k)
      <4> DEFINE c == <<2 * m, k, e.attrs[k]>>
      <4>1. c \in C /\ c[1] = 2 * m /\ c[2] = k /\ c[3] = f[m][k]
        BY <1>2, <2>1, <2>3, <2>7, <3>1
      <4> HIDE DEF c
      <4>2. Top(c, m)
        BY <1>4, <4>1
      <4> QED
        BY <4>1, <4>2
    <3>2. CASE ~(k \in DOMAIN e.attrs /\ IsLlo(k))
      <4> DEFINE c == <<2 * m - 1, e.name, EventContent(e.attrs)>>
      <4>1. k = e.name /\ IsLlo(e.name) /\ k \notin DOMAIN e.attrs
        BY <2>1, <2>7, <3>2
      <4>2. c \in C /\ c[1] = 2 * m - 1 /\ c[2] = k /\ c[3] = f[m][k]
        BY <1>2, <2>1, <2>3, <2>7, <4>1
      <4> HIDE DEF c, e
      <4>3. Top(c, m)
        <5>1. \A d \in C : d[1] <= 2 * m /\ d[2] = k => d[1] <= 2 * m - 1
          BY <1>1, <1>4, <2>4, <4>1
        <5> QED
          BY <4>2, <5>1
      <4> QED
        BY <4>2, <4>3
    <3> QED
      BY <3>1, <3>2
  <2>8. ASSUME NEW k \in DOMAIN g, k \notin DOMAIN o PROVE \E c : Top(c, m) /\ c[2] = k /\ c[3] = f[m][k]
    <3>1. PICK c : Top(c, m - 1) /\ c[2] = k /\ c[3] = g[k]
      BY <1>8, <2>8 DEF g
    <3>2. Top(c, m)
      BY <1>1, <1>4, <2>5, <2>8, <3>1
    <3> QED
      BY <2>3, <2>8, <3>1, <3>2
  <2> HIDE DEF Top
  <2> QED
    BY <2>3, <2>6, <2>7, <2>8
<1> HIDE DEF Good
<1>9. Good(f[N], N)
  <2> DEFINE Bad == { n \in 0..N : ~Good(f[n], n) }
  <2> SUFFICES ASSUME Bad # {} PROVE FALSE
    BY <1>1
  <2>1. Bad \in SUBSET Nat
    BY <1>1
  <2>2. PICK m \in Bad : \A r \in Bad : m <= r
    BY <2>1, Least
  <2>3. m \in 1..N /\ ~Good(f[m], m)
    BY <1>1, <1>7, <2>2
  <2>4. m - 1 \in 0..N /\ m - 1 \notin Bad
    BY <1>1, <2>2, <2>3
  <2> QED
    BY <1>8, <2>3, <2>4
<1>10. \A c : Top(c, N) <=> c \in Latest(C)
  <2>1. \A c, d : c \in C /\ d \in C => c[1] \in Int /\ d[1] \in Int /\ d[1] <= 2 * N
    BY <1>1, <1>4
  <2> QED
    BY <2>1 DEF Latest
<1>11. /\ \A c \in C : c[1] <= 2 * N => c[2] \in DOMAIN f[N]
       /\ \A k \in DOMAIN f[N] : \E c \in Latest(C) : c[2] = k /\ c[3] = f[N][k]
  BY <1>9, <1>10 DEF Good
<1>12. ASSUME NEW c \in Latest(C) PROVE c[2] \in DOMAIN f[N] /\ f[N][c[2]] = c[3] /\ IsLlo(c[2])
  <2>1. c \in C /\ c[2] \in DOMAIN f[N] /\ IsLlo(c[2])
    BY <1>1, <1>4, <1>11 DEF Latest
  <2>2. PICK d \in Latest(C) : d[2] = c[2] /\ d[3] = f[N][c[2]]
    BY <1>11, <2>1
  <2>3. d \in C /\ d[1] \in Int /\ c[1] \in Int /\ ~(d[1] > c[1]) /\ ~(c[1] > d[1])
    BY <1>4, <1>12, <2>1, <2>2 DEF Latest
  <2>4. c = d
    BY <1>5, <2>1, <2>2, <2>3
  <2> QED
    BY <2>1, <2>2, <2>4
<1> QED
  BY <1>6, <1>11, <1>12 DEF C

(* The content of a span depends on its attributes and events only.        *)
Alike(s, t) == s.attrs = t.attrs /\ s.events = t.events
Stripped(s, t) == t.attrs = Filtered(s.attrs) /\ t.events = FilteredEvents(s.events)

CollectedOf(attrs, es) ==
  LET found[n \in 0..Len(es)] == IF n = 0 THEN LloOnly(attrs) ELSE OfEvent(es[n]) ++ found[n - 1]
  IN  found[Len(es)]

LEMMA CollectedIs == \A s : Collected(s) = CollectedOf(s.attrs, s.events)
  BY DEF Collected, CollectedOf

LEMMA AlikeMessages == ASSUME NEW s, NEW t, Alike(s, t) PROVE MessagesOf(s) = MessagesOf(t)
<1>1. Collected(s) = Collected(t)
  <2>1. CollectedOf(s.attrs, s.events) = CollectedOf(t.attrs, t.events)
    BY DEF Alike
  <2> QED
    BY <2>1, CollectedIs
<1> QED
  BY <1>1, Zenon DEF MessagesOf

LEMMA AlikeEvent ==
  ASSUME NEW s, NEW t, Alike(s, t), NEW i, NEW messages
  PROVE  GenAiEvent(i, s, messages) = GenAiEvent(i, t, messages)
  BY DEF Alike, GenAiEvent

LEMMA StrippedClean ==
  ASSUME NEW s, NEW t, Stripped(s, t), s.events \in Seq(Range(s.events))
  PROVE  Contents(t) = {}
<1>1. Len(s.events) \in Nat
  BY ContentsAre
<1>2. \A n \in DOMAIN t.events : ~IsLlo(t.events[n].name) /\ \A key \in DOMAIN t.events[n].attrs : ~IsLlo(key)
  BY <1>1, KeptClean DEF Stripped, IsClean
<1>3. \A key \in DOMAIN t.attrs : ~IsLlo(key)
  BY DEF Stripped, Filtered
<1> DEFINE A == { <<0, key, t.attrs[key]>> : key \in { k \in DOMAIN t.attrs : IsLlo(k) } }
           B == { <<2 * n - 1, t.events[n].name, EventContent(t.events[n].attrs)>> : n \in { m \in DOMAIN t.events : IsLlo(t.events[m].name) } }
           C(n) == { <<2 * n, key, t.events[n].attrs[key]>> : key \in { k \in DOMAIN t.events[n].attrs : IsLlo(k) } }
<1>4. A = {}
  BY <1>3
<1>5. B = {}
  BY <1>2
<1>6. \A n \in DOMAIN t.events : C(n) = {}
  BY <1>2
<1>7. Contents(t) = A \cup B \cup UNION { C(n) : n \in DOMAIN t.events }
  BY DEF Contents
<1> HIDE DEF A, B, C
<1> QED
  BY <1>4, <1>5, <1>6, <1>7

(* The events a span with this content is told in.                         *)
ToldOf(i, s, logging) == IF MessagesOf(s) # {} /\ logging THEN { GenAiEvent(i, s, MessagesOf(s)) } ELSE {}
EventsFor(E, i) == { e \in E : e.span = i }

LEMMA AlikeTold ==
  ASSUME NEW s, NEW t, Alike(s, t), NEW i, NEW logging
  PROVE  ToldOf(i, s, logging) = ToldOf(i, t, logging)
<1>1. MessagesOf(s) = MessagesOf(t)
  BY AlikeMessages
<1>2. GenAiEvent(i, s, MessagesOf(s)) = GenAiEvent(i, t, MessagesOf(s))
  BY AlikeEvent
<1> QED
  BY <1>1, <1>2 DEF ToldOf

(* What is told of a span is the content that comes last.                  *)
THEOREM ToldContent ==
  ASSUME NEW s, s.events \in Seq(Range(s.events)), NEW i
  PROVE  UNION { { m.content : m \in e.input \cup e.output } : e \in ToldOf(i, s, TRUE) } = { c[3] : c \in Latest(Contents(s)) }
<1> DEFINE found == Collected(s)
           M == MessagesOf(s)
           e == GenAiEvent(i, s, M)
           X == { m.content : m \in e.input \cup e.output }
           Y == { c[3] : c \in Latest(Contents(s)) }
<1>1. M = { Message(p, found) : p \in { q \in LloPatterns : q.key \in DOMAIN found } }
  BY DEF MessagesOf, Messages
<1>2. \A p \in LloPatterns : Message(p, found).content = found[p.key]
  BY DEF Message
<1>3. /\ \A c \in Latest(Contents(s)) : c[2] \in DOMAIN found /\ found[c[2]] = c[3] /\ IsLlo(c[2])
      /\ \A k \in DOMAIN found : \E c \in Latest(Contents(s)) : c[2] = k /\ c[3] = found[k]
  BY CollectedFacts
<1> HIDE DEF found
<1>4. \A m \in M : m.content \in Y
  BY <1>1, <1>2, <1>3
<1>5. \A y \in Y : \E m \in M : m.content = y
  <2> SUFFICES ASSUME NEW c \in Latest(Contents(s)) PROVE \E m \in M : m.content = c[3]
    OBVIOUS
  <2>1. PICK p \in LloPatterns : p.key = c[2]
    BY <1>3 DEF IsLlo, LloKeys
  <2>2. Message(p, found) \in M /\ Message(p, found).content = c[3]
    BY <1>1, <1>2, <1>3, <2>1
  <2> QED
    BY <2>2
<1>6. \A x : x \in X <=> \E m \in M : x = m.content
  <2> DEFINE I == { m \in M : IsInput(m) }
             O == { m \in M : ~IsInput(m) }
  <2>1. e.input = Body(I) /\ e.output = Body(O)
    BY DEF GenAiEvent
  <2>2. I \cup O = M
    OBVIOUS
  <2> HIDE DEF I, O
  <2>3. Body(I) \cup Body(O) = { [role |-> m.role, content |-> m.content] : m \in M }
    BY <2>2 DEF Body
  <2> DEFINE T == { [role |-> m.role, content |-> m.content] : m \in M }
  <2>4. \A x : (\E b \in T : x = b.content) <=> \E m \in M : x = m.content
    <3> DEFINE r(m) == [role |-> m.role, content |-> m.content]
    <3>1. \A m : r(m).content = m.content
      OBVIOUS
    <3>2. T = { r(m) : m \in M }
      OBVIOUS
    <3> HIDE DEF M, T, r
    <3> QED
      BY <3>1, <3>2
  <2>5. e.input \cup e.output = T
    BY <2>1, <2>3
  <2> HIDE DEF e, M, T
  <2>6. X = { b.content : b \in T }
    BY <2>5, Zenon
  <2> HIDE DEF X
  <2> QED
    BY <2>4, <2>6
<1> HIDE DEF M, e, X, Y
<1>7. X = Y
  BY <1>4, <1>5, <1>6
<1>8. CASE M = {}
  <2>1. ToldOf(i, s, TRUE) = {} /\ Y = {}
    BY <1>5, <1>8 DEF ToldOf, M
  <2> QED
    BY <2>1 DEF Y
<1>9. CASE M # {}
  <2>1. ToldOf(i, s, TRUE) = {e}
    BY <1>9 DEF ToldOf, M, e
  <2> QED
    BY <1>7, <2>1 DEF X, Y
<1> QED
  BY <1>8, <1>9

(* Processors leave the events of a span that starts alone, and a parent   *)
(* that is over altogether, in a Lambda function as well.                  *)
Bears(s, r) == "events" \in DOMAIN r /\ r.events = s.events

LEMMA BearsAgain == ASSUME NEW s, NEW r, NEW t, Bears(s, r), Bears(r, t) PROVE Bears(s, t)
BY DEF Bears

LEMMA SetBears ==
  ASSUME NEW s, "events" \in DOMAIN s
  PROVE  /\ \A c, key, v : Bears(s, SetIf(c, s, key, v))
         /\ \A up, keys : Bears(s, Inherit(s, up, keys))
         /\ Bears(s, [s EXCEPT !.kind = "SERVER"])
<1>1. \A new : Bears(s, [s EXCEPT !.attrs = new])
  BY DEF Bears
<1>2. \A c, key, v : Bears(s, SetIf(c, s, key, v))
  BY <1>1 DEF SetIf, Set, Bears
<1>3. \A up, keys : Bears(s, Inherit(s, up, keys))
  BY <1>1 DEF Inherit
<1> QED
  BY <1>2, <1>3 DEF Bears

LEMMA PropagatingBears ==
  ASSUME NEW s, "events" \in DOMAIN s, NEW up
  PROVE  Bears(s, PropagatingStart(s, up))
<1> DEFINE sdk      == SetIf(AwsSdk(up), s, "aws.sdk.descendant", <<"true">>)
           internal == IF up.kind = "INTERNAL" THEN Inherit(sdk, up, {"aws.remote.service", "aws.remote.operation"}) ELSE sdk
           consumer == SetIf(s.kind = "CONSUMER" /\ up.kind = "CONSUMER", internal, "aws.consumer.parent.span.kind", <<"CONSUMER">>)
           own      == IF IsSpan(up) THEN Propagated(s, up) ELSE s
<1>1. Propagated(s, up) = IF Has(consumer, "cloud.resource_id") THEN consumer ELSE Inherit(consumer, up, {"cloud.resource_id"})
  BY DEF Propagated
<1>2. Bears(s, sdk)
  BY SetBears
<1> HIDE DEF sdk
<1>3. Bears(s, internal)
  <2>1. "events" \in DOMAIN sdk
    BY <1>2 DEF Bears
  <2>2. Bears(sdk, Inherit(sdk, up, {"aws.remote.service", "aws.remote.operation"}))
    BY <2>1, SetBears
  <2> QED
    BY <1>2, <2>2 DEF Bears
<1> HIDE DEF internal
<1>4. Bears(s, consumer)
  <2>1. "events" \in DOMAIN internal
    BY <1>3 DEF Bears
  <2>2. Bears(internal, consumer)
    BY <2>1, SetBears
  <2> QED
    BY <1>3, <2>2, BearsAgain
<1> HIDE DEF consumer
<1>5. Bears(s, own)
  <2>1. "events" \in DOMAIN consumer
    BY <1>4 DEF Bears
  <2>2. Bears(consumer, Inherit(consumer, up, {"cloud.resource_id"}))
    BY <2>1, SetBears
  <2> QED
    BY <1>1, <1>4, <2>2 DEF Bears
<1>6. \E operation : PropagatingStart(s, up) = SetIf(operation # None, own, "aws.local.operation", operation)
  BY DEF PropagatingStart
<1> HIDE DEF own
<1>7. \A c, v : Bears(own, SetIf(c, own, "aws.local.operation", v))
  BY <1>5, SetBears DEF Bears
<1> QED
  BY <1>5, <1>6, <1>7, BearsAgain

LEMMA OnStartBears ==
  ASSUME NEW s, "events" \in DOMAIN s, NEW up, NEW x
  PROVE  \E r, u : /\ OnStart([span |-> s, up |-> up], x) = [span |-> r, up |-> u]
                   /\ Bears(s, r) /\ (~IsOpen(up) => u = up)
<1> DEFINE both == [span |-> s, up |-> up]
<1>1. both.span = s /\ both.up = up /\ \A r : [both EXCEPT !.span = r] = [span |-> r, up |-> up]
  OBVIOUS
<1>2. Bears(s, s)
  BY DEF Bears
<1>3. CASE x.type = "propagating"
  BY <1>1, <1>3, PropagatingBears DEF OnStart
<1>4. CASE x.type = "code"
  <2>1. Bears(s, CodeStart(s))
    BY SetBears DEF CodeStart
  <2> QED
    BY <1>1, <1>4, <2>1 DEF OnStart
<1>5. CASE x.type = "unsampled"
  <2>1. Bears(s, UnsampledStart(s))
    BY SetBears DEF UnsampledStart
  <2> QED
    BY <1>1, <1>5, <2>1 DEF OnStart
<1>6. CASE x.type = "baggage"
  <2>1. Bears(s, BaggageStart(s))
    BY SetBears DEF BaggageStart
  <2> QED
    BY <1>1, <1>6, <2>1 DEF OnStart
<1>7. CASE x.type = "lambda" /\ UnderLambda(s, up)
  <2> DEFINE r == [s EXCEPT !.kind = "SERVER"]
             u == SetIf(IsOpen(up), up, "aws.trace.lambda.multiple.server", <<"true">>)
  <2>1. OnStart(both, x) = [span |-> r, up |-> u]
    BY <1>1, <1>7 DEF OnStart
  <2>2. Bears(s, r)
    BY SetBears
  <2>3. ~IsOpen(up) => u = up
    BY DEF SetIf
  <2> QED
    BY <2>1, <2>2, <2>3
<1>8. CASE /\ x.type \notin {"code", "unsampled", "baggage", "propagating"}
           /\ ~(x.type = "lambda" /\ UnderLambda(s, up))
  <2>1. OnStart(both, x) = both
    BY <1>1, <1>8 DEF OnStart
  <2> QED
    BY <1>2, <2>1
<1> QED
  BY <1>3, <1>4, <1>5, <1>6, <1>7, <1>8

LEMMA StartedBears ==
  ASSUME SetupInv, NEW n \in Spans
  PROVE  /\ Started(n).span.events = scene[n].events
         /\ ~IsOpen(Parent(n)) => Started(n).up = Parent(n)
<1> DEFINE N == Len(Pipeline)
           up == Parent(n)
           s == scene[n]
           Good(x) == \E r, u : x = [span |-> r, up |-> u] /\ Bears(s, r) /\ (~IsOpen(up) => u = up)
<1>1. N \in Nat /\ DOMAIN Pipeline = 1..N
  BY PipelineFacts
<1>2. "events" \in DOMAIN s
  BY SceneFields DEF Fields
<1>3. PICK f : /\ f[0] = [span |-> s, up |-> up]
               /\ \A p \in 1..N : f[p] = OnStart(f[p - 1], Pipeline[p])
               /\ Started(n) = f[N]
  BY StartedSteps
<1> HIDE DEF up, s
<1>4. Good(f[0])
  BY <1>2, <1>3 DEF Bears
<1>5. ASSUME NEW p \in 1..N, Good(f[p - 1]) PROVE Good(f[p])
  <2>1. PICK r, u : f[p - 1] = [span |-> r, up |-> u] /\ Bears(s, r) /\ (~IsOpen(up) => u = up)
    BY <1>5
  <2> DEFINE x == Pipeline[p]
  <2>2. f[p] = OnStart([span |-> r, up |-> u], x) /\ "events" \in DOMAIN r
    BY <1>3, <2>1 DEF Bears
  <2> HIDE DEF x
  <2>3. PICK t, w : f[p] = [span |-> t, up |-> w] /\ Bears(r, t) /\ (~IsOpen(u) => w = u)
    <3>1. \E t, w : OnStart([span |-> r, up |-> u], x) = [span |-> t, up |-> w] /\ Bears(r, t) /\ (~IsOpen(u) => w = u)
      BY <2>2, OnStartBears
    <3> QED
      BY <2>2, <3>1
  <2>4. Bears(s, t)
    BY <2>1, <2>3, BearsAgain
  <2>5. ~IsOpen(up) => w = up
    BY <2>1, <2>3
  <2> QED
    BY <2>3, <2>4, <2>5
<1>6. Good(f[N])
  <2> HIDE DEF Good
  <2> DEFINE Bad == { p \in 0..N : ~Good(f[p]) }
  <2> SUFFICES ASSUME Bad # {} PROVE FALSE
    BY <1>1
  <2>1. Bad \in SUBSET Nat
    BY <1>1
  <2>2. PICK p \in Bad : \A r \in Bad : p <= r
    BY <2>1, Least
  <2>3. p \in 1..N /\ p - 1 \notin Bad /\ p - 1 \in 0..N
    BY <1>1, <1>4, <2>2
  <2> QED
    BY <1>5, <2>2, <2>3
<1> QED
  BY <1>3, <1>6 DEF Bears, s, up

(* The events of a span that is seen are those of the scene.               *)
BornInv == \A i \in Spans : Seen(i) => live[i].events = scene[i].events

LEMMA BornFacts ==
  ASSUME TInv, BornInv, NEW i \in Spans, Seen(i)
  PROVE  live[i].events \in Seq(Range(live[i].events))
<1> DEFINE c == [env |-> env, scene |-> scene]
<1>1. c \in Cases /\ c.scene = scene
  BY DEF TInv, SetupInv
<1> HIDE DEF c
<1>2. \A n \in DOMAIN c.scene : c.scene[n].events \in Seq(Range(c.scene[n].events))
  BY <1>1, PipelineAssumption
<1>3. scene[i].events \in Seq(Range(scene[i].events))
  BY <1>1, <1>2 DEF Spans
<1> QED
  BY <1>3 DEF BornInv

LEMMA BornStep == TInv /\ FieldsInv /\ BornInv /\ [Next]_vars => BornInv'
<1> SUFFICES ASSUME TInv, FieldsInv, BornInv, [Next]_vars PROVE BornInv'
  OBVIOUS
<1>1. Spans' = Spans /\ DOMAIN live = Spans /\ scene' = scene
  BY SetupKept, Same DEF TInv, LiveInv
<1>2. \A i : (Seen(i)' <=> live'[i].state \in {"started", "updated", "over"}) /\ (Seen(i) <=> live[i].state \in {"started", "updated", "over"})
  BY DEF Seen, Phase
<1>3. \A i \in Spans : "state" \in DOMAIN live[i] /\ (Seen(i) => "events" \in DOMAIN live[i] /\ live[i].events = scene[i].events)
  BY DEF TInv, LiveInv, FieldsInv, Fields, Seen, BornInv
<1>4. SUFFICES ASSUME NEW i \in Spans, live'[i].state \in {"started", "updated", "over"}
               PROVE  live'[i].events = scene[i].events
  BY <1>1, <1>2, <1>4 DEF BornInv
<1>5. ASSUME NEW n \in Spans, Start(n) PROVE live'[i].events = scene[i].events
  <2>1. CASE Unseen(n)
    <3>1. live' = [live EXCEPT ![n] = Absent]
      BY <1>5, <2>1 DEF Start
    <3>2. i # n
      BY <1>1, <1>4, <3>1 DEF Absent
    <3>3. live'[i] = live[i]
      BY <1>1, <3>1, <3>2
    <3> QED
      BY <1>2, <1>3, <1>4, <3>3
  <2>2. CASE ~Unseen(n)
    <3> DEFINE own == Started(n).span
               above == Started(n).up.attrs
    <3>1. live'[i] = IF i = n THEN Recording(n, own)
                     ELSE IF Local(n) /\ i = scene[n].up THEN [live[i] EXCEPT !.attrs = above] ELSE live[i]
      BY <1>1, <1>5, <2>2 DEF Start
    <3>2. own.events = scene[n].events /\ "events" \in DOMAIN scene[n]
      BY StartedBears, SceneFields DEF TInv, Fields
    <3> HIDE DEF own, above
    <3>3. Recording(n, own).events = scene[n].events
      BY <3>2 DEF Recording
    <3>4. CASE i = n
      BY <3>1, <3>3, <3>4
    <3>5. CASE i # n /\ Local(n) /\ i = scene[n].up
      <4>1. live'[i] = [live[i] EXCEPT !.attrs = above]
        BY <3>1, <3>5
      <4>2. live'[i].state = live[i].state
        BY <1>3, <4>1
      <4>3. "events" \in DOMAIN live[i] /\ live[i].events = scene[i].events
        BY <1>2, <1>3, <1>4, <4>2
      <4> QED
        BY <4>1, <4>3
    <3>6. CASE i # n /\ ~(Local(n) /\ i = scene[n].up)
      <4>1. live'[i] = live[i]
        BY <3>1, <3>6
      <4> QED
        BY <1>2, <1>3, <1>4, <4>1
    <3> QED
      BY <3>4, <3>5, <3>6
  <2> QED
    BY <2>1, <2>2
<1>6. ASSUME NEW n \in Spans, Update(n) PROVE live'[i].events = scene[i].events
  <2>1. Seen(n)
    BY <1>6 DEF Update, Seen
  <2>2. \E name, attrs : live' = [live EXCEPT ![n] = [[[live[n] EXCEPT !.state = "updated"] EXCEPT !.name = name] EXCEPT !.attrs = attrs]]
    BY <1>1, <1>6 DEF Update
  <2>3. i # n => live'[i] = live[i]
    BY <1>1, <2>2
  <2>4. live'[n].events = live[n].events
    BY <1>1, <1>3, <2>1, <2>2
  <2> QED
    BY <1>2, <1>3, <1>4, <2>1, <2>3, <2>4
<1>7. ASSUME NEW n \in Spans, End(n) PROVE live'[i].events = scene[i].events
  <2>1. Seen(n)
    BY <1>7 DEF End, IsOpen, Seen, Phase
  <2>2. live' = [live EXCEPT ![n] = [live[n] EXCEPT !.state = "over"]]
    BY <1>7 DEF End
  <2>3. i # n => live'[i] = live[i]
    BY <1>1, <2>2
  <2>4. live'[n].events = live[n].events
    BY <1>1, <1>3, <2>1, <2>2
  <2> QED
    BY <1>2, <1>3, <1>4, <2>1, <2>3, <2>4
<1>8. ASSUME live' = live PROVE live'[i].events = scene[i].events
  BY <1>2, <1>3, <1>4, <1>8
<1>9. ASSUME NEW n \in Spans, OnEnd(n) PROVE live' = live
  BY <1>9 DEF OnEnd, Refuse, Check, Enqueue, Measure
<1>10. ASSUME NEW p \in Workers, Work(p) \/ Shutdown(p) PROVE live' = live
  BY <1>10 DEF Work, Take, Generate, Process, Replace, Deliver, Fail, Exit, Shutdown
<1>11. UNCHANGED vars => live' = live
  BY DEF vars
<1> QED
  BY <1>5, <1>6, <1>7, <1>8, <1>9, <1>10, <1>11 DEF Next

(* A span that is over keeps its attributes and its events.                *)
LEMMA OverKept ==
  ASSUME TInv, FieldsInv, [Next]_vars, NEW i \in Over
  PROVE  i \in Over' /\ Alike(live[i], live'[i])
<1>1. i \in Over' /\ i \in Spans /\ DOMAIN live = Spans /\ live[i].state = "over" /\ Fields \subseteq DOMAIN live[i]
  BY LiveStep DEF Over, TInv, LiveInv, FieldsInv, Phase
<1>2. ASSUME NEW n \in Spans, Start(n) PROVE Alike(live[i], live'[i])
  <2>1. i # n
    BY <1>1, <1>2 DEF Start, Phase
  <2>2. CASE Unseen(n)
    BY <1>1, <1>2, <2>1, <2>2 DEF Start, Alike
  <2>3. CASE ~Unseen(n)
    <3> DEFINE above == Started(n).up.attrs
    <3>1. live'[i] = IF Local(n) /\ i = scene[n].up THEN [live[i] EXCEPT !.attrs = above] ELSE live[i]
      BY <1>1, <1>2, <2>1, <2>3 DEF Start
    <3>2. Local(n) /\ i = scene[n].up => above = live[i].attrs
      <4>1. Local(n) /\ i = scene[n].up => Parent(n) = live[i] /\ ~IsOpen(Parent(n))
        BY <1>1 DEF Parent, IsOpen
      <4> QED
        BY <4>1, StartedBears DEF TInv
    <3> HIDE DEF above
    <3> QED
      BY <1>1, <3>1, <3>2 DEF Alike, Fields
  <2> QED
    BY <2>2, <2>3
<1>3. ASSUME NEW n \in Spans, Update(n) \/ End(n) PROVE Alike(live[i], live'[i])
  <2>1. i # n
    BY <1>1, <1>3 DEF Update, End, IsOpen, Phase
  <2>2. live'[i] = live[i]
    BY <1>1, <1>3, <2>1 DEF Update, End
  <2> QED
    BY <2>2 DEF Alike
<1>4. ASSUME NEW n \in Spans, OnEnd(n) PROVE live' = live
  BY <1>4 DEF OnEnd, Refuse, Check, Enqueue, Measure
<1>5. ASSUME NEW p \in Workers, Work(p) \/ Shutdown(p) PROVE live' = live
  BY <1>5 DEF Work, Take, Generate, Process, Replace, Deliver, Fail, Exit, Shutdown
<1>6. UNCHANGED vars => live' = live
  BY DEF vars
<1>7. live' = live => Alike(live[i], live'[i])
  BY DEF Alike
<1> QED
  BY <1>1, <1>2, <1>3, <1>4, <1>5, <1>6, <1>7 DEF Next

(* A span is in hand once, and is neither waiting nor sent meanwhile.      *)
LEMMA Once ==
  ASSUME TInv, Conserved, NEW p \in Workers, batch[p].at \in DOMAIN batch[p].spans
  PROVE  LET i == InHand(p)
         IN  /\ Takes(p) /\ i \in Over /\ next[i] > p
             /\ \A n \in DOMAIN queue[p] : queue[p][n] # i
             /\ \A n \in DOMAIN batch[p].spans : batch[p].spans[n] = i => n = batch[p].at
             /\ \A n \in DOMAIN sent[p] : sent[p][n].span # i
<1> DEFINE s == batch[p].spans
           at == batch[p].at
           i == InHand(p)
           q == queue[p]
           t == SentSpans(p)
           A == Where(s, i)
<1>1. s \in Seq(Over) /\ q \in Seq(Over) /\ t \in Seq(Over) /\ at \in DOMAIN s /\ s[at] = i
  BY TallyFacts DEF InHand
<1>2. i \in Over /\ i \in Spans
  BY <1>1, ElementOfSeq, LenProperties DEF Over
<1>3. Times(p, i) = Count(q, i) + Count(s, i) + Count(t, i) + Cardinality(Losses(lost, p, i))
  BY TimesTally DEF Tally
<1>4. Times(p, i) = Due(p, i)
  BY <1>2 DEF Conserved, Due
<1>5. /\ Count(q, i) \in Nat /\ Count(s, i) \in Nat /\ Count(t, i) \in Nat
      /\ Cardinality(Losses(lost, p, i)) \in Nat
  BY TallyFacts
<1>6. DOMAIN t = DOMAIN sent[p] /\ \A n \in DOMAIN t : t[n] = sent[p][n].span
  BY DEF SentSpans
<1> HIDE DEF s, at, i, q, t
<1>7. Count(s, i) # 0
  BY <1>1, CountFacts
<1>8. Count(q, i) = 0 /\ Count(s, i) = 1 /\ Count(t, i) = 0 /\ Takes(p) /\ next[i] > p
  BY <1>3, <1>4, <1>5, <1>7 DEF Due
<1>9. (\A n \in DOMAIN q : q[n] # i) /\ \A n \in DOMAIN t : t[n] # i
  BY <1>1, <1>8, CountFacts
<1>10. ASSUME NEW n \in DOMAIN s, s[n] = i, n # at PROVE FALSE
  <2>1. n \in A /\ at \in A
    BY <1>1, <1>10 DEF Where
  <2>2. IsFiniteSet(A) /\ Cardinality(A) = 1
    BY <1>1, <1>8, CountFacts
  <2> HIDE DEF A
  <2>3. IsFiniteSet({n}) /\ Cardinality({n}) = 1
    BY FS_Singleton
  <2>4. Cardinality({n} \cup {at}) = 2
    BY <1>10, <2>3, FS_AddElement
  <2>5. {n} \cup {at} \subseteq A
    BY <2>1
  <2>6. Cardinality({n} \cup {at}) <= Cardinality(A)
    BY <2>2, <2>5, FS_Subset
  <2> QED
    BY <2>2, <2>4, <2>6
<1> QED
  BY <1>2, <1>6, <1>8, <1>9, <1>10 DEF s, at, i, q, t

(* The spans a processor has not handled yet, those in the queue and in    *)
(* the batch, and those whose on_end has still to reach it.                *)
Left(b) == { b.spans[n] : n \in { m \in DOMAIN b.spans : m > b.at \/ (m = b.at /\ b.step = "read") } }
WaitingIn(over, after, p, q, b) == { i \in over : after[i] <= p } \cup { q[n] : n \in DOMAIN q } \cup Left(b)

Told(L, E, logging, i) == EventsFor(E, i) = ToldOf(i, L[i], logging)

(* What the processor with the LLOHandler has made of the spans L, whose   *)
(* ReadableSpans are D: of those in W nothing yet.                         *)
Handles(L, D, E, logging, W, b, s) ==
  /\ \A i \in W : Alike(L[i], D[i]) /\ EventsFor(E, i) = {}
  /\ \A n \in DOMAIN b.spans : n < b.at => Stripped(L[b.spans[n]], D[b.spans[n]]) /\ Told(L, E, logging, b.spans[n])
  /\ b.step = "write" => /\ Alike(L[b.spans[b.at]], D[b.spans[b.at]]) /\ Told(L, E, logging, b.spans[b.at])
                         /\ b.attrs = Filtered(L[b.spans[b.at]].attrs)
  /\ \A n \in DOMAIN s : Stripped(L[s[n].span], s[n]) /\ Told(L, E, logging, s[n].span)

Waiting(p)  == WaitingIn(Over, next, p, queue[p], batch[p])
Handling(p) == Handles(live, ended, events, env.logging, Waiting(p), batch[p], sent[p])

NextWaiting(p)  == WaitingIn(Over', next', p, queue'[p], batch'[p])
NextHandling(p) == Handles(live', ended', events', env.logging, NextWaiting(p), batch'[p], sent'[p])

KeptInv ==
  /\ BornInv /\ \A e \in events : e.span \in Over
  /\ \A p \in Workers : Takes(p) /\ ExporterOf(p).llo => Handling(p)

Stays(L, D, E, L2, D2, E2, S) ==
  \A i \in S : Alike(L[i], L2[i]) /\ Alike(D[i], D2[i]) /\ EventsFor(E2, i) = EventsFor(E, i)
Fresh(L, D, E, W, S, W2) == \A i \in W2 : (i \in W /\ i \in S) \/ (Alike(L[i], D[i]) /\ EventsFor(E, i) = {})
Spared(b, b2, s, S) ==
  /\ \A n \in DOMAIN s : s[n].span \in S
  /\ \/ b2 = b /\ (\A n \in DOMAIN b.spans : b.spans[n] \in S) /\ (b.step = "write" => b.at \in DOMAIN b.spans)
     \/ b2.step = "read" /\ \A n \in DOMAIN b2.spans : ~(n < b2.at)

(* Spans and events that stay, and no more that wait than before but for   *)
(* new ones.                                                               *)
LEMMA HandlesKept ==
  ASSUME NEW L, NEW D, NEW E, NEW W, NEW b, NEW s, NEW S, NEW logging, Handles(L, D, E, logging, W, b, s),
         NEW L2, NEW D2, NEW E2, NEW W2, NEW b2,
         Stays(L, D, E, L2, D2, E2, S), Fresh(L2, D2, E2, W, S, W2), Spared(b, b2, s, S)
  PROVE  Handles(L2, D2, E2, logging, W2, b2, s)
<1>1. \A i \in S : Told(L, E, logging, i) => Told(L2, E2, logging, i)
  BY AlikeTold DEF Told, Stays
<1>2. \A i \in S : Alike(L[i], D[i]) => Alike(L2[i], D2[i])
  BY DEF Alike, Stays
<1>3. \A i \in S : \A t : Stripped(L[i], t) => Stripped(L2[i], t)
  BY DEF Alike, Stripped, Stays
<1>4. \A i \in S : Stripped(L[i], D[i]) => Stripped(L2[i], D2[i])
  BY DEF Alike, Stripped, Stays
<1>5. \A i \in S : L2[i].attrs = L[i].attrs
  BY DEF Alike, Stays
<1>6. \A i \in W2 : Alike(L2[i], D2[i]) /\ EventsFor(E2, i) = {}
  BY <1>2 DEF Handles, Fresh, Stays
<1>7. \A n \in DOMAIN s : Stripped(L2[s[n].span], s[n]) /\ Told(L2, E2, logging, s[n].span)
  BY <1>1, <1>3 DEF Handles, Spared
<1>8. CASE b2 = b /\ (\A n \in DOMAIN b.spans : b.spans[n] \in S) /\ (b.step = "write" => b.at \in DOMAIN b.spans)
  <2>1. \A n \in DOMAIN b.spans : n < b.at => Stripped(L2[b.spans[n]], D2[b.spans[n]]) /\ Told(L2, E2, logging, b.spans[n])
    BY <1>1, <1>4, <1>8 DEF Handles
  <2>2. b.step = "write" => /\ Alike(L2[b.spans[b.at]], D2[b.spans[b.at]]) /\ Told(L2, E2, logging, b.spans[b.at])
                            /\ b.attrs = Filtered(L2[b.spans[b.at]].attrs)
    BY <1>1, <1>2, <1>5, <1>8 DEF Handles
  <2> QED
    BY <1>6, <1>7, <1>8, <2>1, <2>2 DEF Handles
<1>9. CASE b2.step = "read" /\ \A n \in DOMAIN b2.spans : ~(n < b2.at)
  BY <1>6, <1>7, <1>9 DEF Handles
<1> QED
  BY <1>8, <1>9 DEF Spared

Sole(b, W, W2, s, i) ==
  /\ i = b.spans[b.at] /\ b.at \in Nat /\ \A n \in DOMAIN b.spans : b.spans[n] = i => n = b.at
  /\ i \in W /\ W2 \subseteq W /\ i \notin W2
  /\ \A n \in DOMAIN s : s[n].span # i
TellsOf(E, E2, i, d, logging) ==
  /\ \A j : j # i => EventsFor(E2, j) = EventsFor(E, j)
  /\ EventsFor(E, i) = {} => EventsFor(E2, i) = ToldOf(i, d, logging)

(* The exporter has read the span in hand, and told of it.                 *)
LEMMA HandlesRead ==
  ASSUME NEW L, NEW D, NEW E, NEW W, NEW b, NEW s, NEW logging, Handles(L, D, E, logging, W, b, s), b.step = "read",
         NEW E2, NEW W2, NEW b2, NEW i, Sole(b, W, W2, s, i), TellsOf(E, E2, i, D[i], logging),
         b2.spans = b.spans, b2.at = b.at, b2.attrs = Filtered(D[i].attrs)
  PROVE  Handles(L, D, E2, logging, W2, b2, s)
<1>1. Alike(L[i], D[i]) /\ EventsFor(E, i) = {}
  BY DEF Handles, Sole
<1>2. Told(L, E2, logging, i)
  <2>1. ToldOf(i, L[i], logging) = ToldOf(i, D[i], logging)
    BY <1>1, AlikeTold
  <2> QED
    BY <1>1, <2>1 DEF Told, TellsOf
<1>3. b2.attrs = Filtered(L[i].attrs)
  BY <1>1 DEF Alike
<1>4. \A j \in W2 : Alike(L[j], D[j]) /\ EventsFor(E2, j) = {}
  BY DEF Handles, Sole, TellsOf
<1>5. \A n \in DOMAIN b.spans : n < b.at => b.spans[n] # i
  BY DEF Sole
<1>6. \A j : j # i /\ Told(L, E, logging, j) => Told(L, E2, logging, j)
  BY DEF Told, TellsOf
<1>7. \A n \in DOMAIN b.spans : n < b.at => Stripped(L[b.spans[n]], D[b.spans[n]]) /\ Told(L, E2, logging, b.spans[n])
  BY <1>5, <1>6 DEF Handles
<1>8. \A n \in DOMAIN s : Stripped(L[s[n].span], s[n]) /\ Told(L, E2, logging, s[n].span)
  BY <1>6 DEF Handles, Sole
<1> QED
  BY <1>1, <1>2, <1>3, <1>4, <1>7, <1>8 DEF Handles, Sole

(* The exporter has replaced attributes and events of the span in hand.    *)
LEMMA HandlesReplaced ==
  ASSUME NEW L, NEW D, NEW E, NEW W, NEW b, NEW s, NEW logging, Handles(L, D, E, logging, W, b, s), b.step = "write",
         NEW D2, NEW W2, NEW b2, NEW i, i = b.spans[b.at], W2 \subseteq W, i \notin W2,
         \A n \in DOMAIN b.spans : n \in Nat /\ (b.spans[n] = i => n = b.at), b.at \in Nat,
         \A n \in DOMAIN b.spans : n # b.at => D2[b.spans[n]] = D[b.spans[n]],
         \A j \in W2 : D2[j] = D[j],
         D2[i].attrs = b.attrs, D2[i].events = FilteredEvents(D[i].events),
         b2.spans = b.spans, b2.at = b.at + 1, b2.step = "read"
  PROVE  Handles(L, D2, E, logging, W2, b2, s)
<1>1. Alike(L[i], D[i]) /\ Told(L, E, logging, i) /\ b.attrs = Filtered(L[i].attrs)
  BY DEF Handles
<1>2. Stripped(L[i], D2[i])
  BY <1>1 DEF Stripped, Alike
<1>3. \A j \in W2 : Alike(L[j], D2[j]) /\ EventsFor(E, j) = {}
  BY DEF Handles
<1>4. ASSUME NEW n \in DOMAIN b.spans, n < b.at + 1
      PROVE  Stripped(L[b.spans[n]], D2[b.spans[n]]) /\ Told(L, E, logging, b.spans[n])
  <2>1. CASE n = b.at
    BY <1>1, <1>2, <2>1
  <2>2. CASE n # b.at
    <3>1. n < b.at /\ D2[b.spans[n]] = D[b.spans[n]]
      BY <1>4, <2>2
    <3> QED
      BY <3>1 DEF Handles
  <2> QED
    BY <2>1, <2>2
<1>5. \A n \in DOMAIN s : Stripped(L[s[n].span], s[n]) /\ Told(L, E, logging, s[n].span)
  BY DEF Handles
<1> QED
  BY <1>3, <1>4, <1>5 DEF Handles

LEMMA IsSeq ==
  ASSUME NEW n \in Nat, NEW t, DOMAIN t = 1..n, t = [k \in DOMAIN t |-> t[k]]
  PROVE  t \in Seq(Range(t)) /\ Len(t) = n
<1>1. \A k \in 1..n : t[k] \in Range(t)
  BY DEF Range
<1>2. t \in [1..n -> Range(t)]
  BY <1>1
<1> QED
  BY <1>2, SeqDef, LenProperties

(* All spans of the batch have been handled, and are delivered.            *)
LEMMA HandlesDelivered ==
  ASSUME NEW L, NEW D, NEW E, NEW W, NEW b, NEW s, NEW logging, Handles(L, D, E, logging, W, b, s),
         NEW S, b.spans \in Seq(S), b.at \in Nat, b.at > Len(b.spans), s \in Seq(Range(s)),
         NEW t, t = [n \in DOMAIN b.spans |-> [span |-> b.spans[n], attrs |-> D[b.spans[n]].attrs, events |-> D[b.spans[n]].events]],
         NEW W2, W2 \subseteq W
  PROVE  Handles(L, D, E, logging, W2, Idle, s \o t)
<1> DEFINE c == b.spans
           Good(x) == Stripped(L[x.span], x) /\ Told(L, E, logging, x.span)
           T == Range(s) \cup Range(t)
           u == s \o t
<1>1. Len(c) \in Nat /\ DOMAIN c = 1..Len(c) /\ Len(s) \in Nat /\ DOMAIN s = 1..Len(s)
  BY LenProperties
<1>2. \A n \in DOMAIN c : t[n].span = c[n] /\ t[n].attrs = D[c[n]].attrs /\ t[n].events = D[c[n]].events
  OBVIOUS
<1>3. \A n \in DOMAIN c : Good(t[n])
  <2>1. \A n \in DOMAIN c : Stripped(L[c[n]], D[c[n]]) /\ Told(L, E, logging, c[n])
    BY <1>1 DEF Handles
  <2> QED
    BY <1>2, <2>1 DEF Stripped
<1>4. \A n \in DOMAIN s : Good(s[n])
  BY DEF Handles
<1>5. t \in Seq(Range(t)) /\ Len(t) = Len(c)
  BY <1>1, IsSeq
<1>6. s \in Seq(T) /\ t \in Seq(T)
  BY <1>5, SeqMonotonic
<1> HIDE DEF T, c, Good
<1>7. /\ u \in Seq(T) /\ Len(u) = Len(s) + Len(t) /\ DOMAIN u = 1..Len(u)
      /\ \A n \in 1..(Len(s) + Len(t)) : u[n] = IF n <= Len(s) THEN s[n] ELSE t[n - Len(s)]
  <2>1. /\ u \in Seq(T) /\ Len(u) = Len(s) + Len(t)
        /\ \A n \in 1..(Len(s) + Len(t)) : u[n] = IF n <= Len(s) THEN s[n] ELSE t[n - Len(s)]
    BY <1>6, ConcatProperties
  <2> HIDE DEF u
  <2> QED
    BY <2>1, LenProperties
<1> HIDE DEF u
<1>8. \A n \in DOMAIN u : Good(u[n])
  <2> SUFFICES ASSUME NEW n \in DOMAIN u PROVE Good(u[n])
    OBVIOUS
  <2>1. CASE n <= Len(s)
    <3>1. n \in DOMAIN s /\ u[n] = s[n]
      BY <1>1, <1>5, <1>7, <2>1
    <3> QED
      BY <1>4, <3>1
  <2>2. CASE ~(n <= Len(s))
    <3>1. n - Len(s) \in DOMAIN c /\ u[n] = t[n - Len(s)]
      BY <1>1, <1>5, <1>7, <2>2
    <3> QED
      BY <1>3, <3>1
  <2> QED
    BY <2>1, <2>2
<1>9. \A i \in W2 : Alike(L[i], D[i]) /\ EventsFor(E, i) = {}
  BY DEF Handles
<1>10. Idle.step = "read" /\ DOMAIN Idle.spans = {}
  BY DEF Idle
<1> QED
  BY <1>8, <1>9, <1>10 DEF Handles, Good, u

(* Who hands spans of a decision to an LLOHandler does so alone, and does  *)
(* not derive attributes.                                                  *)
LEMMA Alone ==
  ASSUME SetupInv, \A c \in Cases : Unshared(c.env) /\ OneHandler(c.env),
         NEW p \in Workers, Takes(p), ExporterOf(p).llo, NEW q \in Workers, Takes(q)
  PROVE  ~ExporterOf(q).wraps /\ (ExporterOf(q).llo => q = p)
<1>1. Unshared(env) /\ OneHandler(env)
  <2> DEFINE c == [env |-> env, scene |-> scene]
  <2>1. c \in Cases /\ c.env = env
    BY DEF SetupInv
  <2> QED
    BY <2>1
<1>2. Pipeline = Processors(env) /\ p \in DOMAIN Pipeline /\ q \in DOMAIN Pipeline
  BY PipelineFacts DEF Workers
<1>3. Pipeline[p].type \in {"sampled", "unsampled"} /\ Pipeline[q].type \in {"sampled", "unsampled"}
  BY DEF Workers, Batching
<1>4. Pipeline[p].type = Pipeline[q].type
  BY <1>3, Zenon DEF Takes
<1>5. Pipeline[q].exporter.wraps => ~Pipeline[p].exporter.llo
  BY <1>1, <1>2, <1>4 DEF Unshared
<1>6. Pipeline[p].exporter.llo /\ Pipeline[q].exporter.llo => p = q
  BY <1>1, <1>2, <1>4 DEF OneHandler
<1> QED
  BY <1>5, <1>6 DEF ExporterOf

(* What is in a queue was in it before, or is enqueued now.                *)
LEMMA EnqueuedFacts ==
  ASSUME TInv, NEW i \in Spans, NEW p \in Workers, Enqueue(i, p), NEW n \in DOMAIN queue'[p]
  PROVE  (\E m \in DOMAIN queue[p] : queue[p][m] = queue'[p][n]) \/ queue'[p][n] = i
<1>1. queue \in [Workers -> Seq(Over)] /\ queue[p] \in Seq(Over)
  BY DEF TInv, WorkInv
<1>2. CASE queue' = queue
  BY <1>2
<1>3. CASE queue' # queue
  <2> DEFINE full == Len(queue[p]) = QueueSize
             kept == IF full THEN Tail(queue[p]) ELSE queue[p]
  <2>1. queue'[p] = Append(kept, i)
    BY <1>1, <1>3 DEF Enqueue
  <2>2. i \in Over
    BY OnEndFacts, PipelineFacts DEF TInv
  <2>3. full => queue[p] # <<>>
    BY PipelineAssumption
  <2>4. kept \in Seq(Over) /\ \A j : Count(kept, j) <= Count(queue[p], j)
    <3>1. \A j : Count(queue[p], j) \in Nat
      BY <1>1, CountFacts
    <3>2. ASSUME full PROVE Tail(queue[p]) \in Seq(Over) /\ \A j : Count(Tail(queue[p]), j) <= Count(queue[p], j)
      <4>1. Tail(queue[p]) \in Seq(Over)
        BY <1>1, <2>3, <3>2, CountTail
      <4>2. \A j : Count(Tail(queue[p]), j) \in Nat
        BY <4>1, CountFacts
      <4>3. \A j : Count(queue[p], j) = Count(Tail(queue[p]), j) + IF Head(queue[p]) = j THEN 1 ELSE 0
        BY <1>1, <2>3, <3>2, CountTail
      <4> QED
        BY <4>1, <4>2, <4>3
    <3> QED
      BY <1>1, <3>1, <3>2
  <2> HIDE DEF kept
  <2>5. Append(kept, i) \in Seq(Over) /\ \A j : j # i => Count(Append(kept, i), j) <= Count(queue[p], j)
    <3>1. Append(kept, i) \in Seq(Over) /\ \A j : Count(Append(kept, i), j) = Count(kept, j) + IF i = j THEN 1 ELSE 0
      BY <2>2, <2>4, CountAppend
    <3>2. \A j : Count(kept, j) \in Nat /\ Count(queue[p], j) \in Nat
      BY <1>1, <2>4, CountFacts
    <3> QED
      BY <2>4, <3>1, <3>2
  <2> DEFINE t == Append(kept, i)
  <2>6. t = queue'[p]
    BY <2>1
  <2>7. t \in Seq(Over) /\ \A j : j # i => Count(t, j) <= Count(queue[p], j)
    BY <2>5
  <2> HIDE DEF t
  <2>8. \A k \in DOMAIN t : t[k] # i => \E m \in DOMAIN queue[p] : queue[p][m] = t[k]
    <3> SUFFICES ASSUME NEW k \in DOMAIN t, t[k] # i PROVE \E m \in DOMAIN queue[p] : queue[p][m] = t[k]
      OBVIOUS
    <3>1. Count(t, t[k]) # 0 /\ Count(t, t[k]) \in Nat
      BY <2>7, CountFacts
    <3>2. Count(queue[p], t[k]) # 0
      <4>1. Count(queue[p], t[k]) \in Nat
        BY <1>1, CountFacts
      <4>2. Count(t, t[k]) <= Count(queue[p], t[k])
        BY <2>7
      <4> QED
        BY <3>1, <4>1, <4>2
    <3> QED
      BY <1>1, <3>2, CountFacts
  <2> QED
    BY <2>6, <2>8
<1> QED
  BY <1>2, <1>3

LEMMA TakenFacts ==
  ASSUME TInv, NEW p \in Workers, Take(p)
  PROVE  /\ \A n \in DOMAIN queue'[p] : \E m \in DOMAIN queue[p] : queue[p][m] = queue'[p][n]
         /\ \A n \in DOMAIN batch'[p].spans : \E m \in DOMAIN queue[p] : queue[p][m] = batch'[p].spans[n]
         /\ batch'[p].step = "read" /\ batch'[p].at = 1 /\ \A n \in DOMAIN batch'[p].spans : n \in Nat /\ n >= 1
<1> DEFINE q == queue[p]
           n == IF Len(q) < BatchSize THEN Len(q) ELSE BatchSize
           t == SubSeq(q, 1, n)
           r == SubSeq(q, n + 1, Len(q))
<1>1. queue \in [Workers -> Seq(Over)] /\ DOMAIN batch = Workers /\ q \in Seq(Over)
  BY DEF TInv, WorkInv
<1>2. queue'[p] = r /\ batch'[p] = [Idle EXCEPT !.spans = t]
  BY <1>1 DEF Take
<1>3. batch'[p].spans = t /\ batch'[p].at = 1 /\ batch'[p].step = "read"
  BY <1>2 DEF Idle
<1>4. n \in 0..Len(q)
  <2>1. Len(q) \in Nat /\ BatchSize \in Nat
    BY <1>1, LenProperties, PipelineAssumption
  <2> QED
    BY <2>1
<1> HIDE DEF n
<1>5. /\ t \in Seq(Over) /\ r \in Seq(Over)
      /\ \A i : Count(q, i) = Count(t, i) + Count(r, i)
  BY <1>1, <1>4, CountSplit
<1> HIDE DEF q, t, r
<1>6. \A i : Count(q, i) \in Nat /\ Count(t, i) \in Nat /\ Count(r, i) \in Nat
  BY <1>1, <1>5, CountFacts
<1>7. \A i : Count(t, i) <= Count(q, i) /\ Count(r, i) <= Count(q, i)
  BY <1>5, <1>6
<1>8. \A k \in DOMAIN t : \E m \in DOMAIN q : q[m] = t[k]
  <2> SUFFICES ASSUME NEW k \in DOMAIN t PROVE \E m \in DOMAIN q : q[m] = t[k]
    OBVIOUS
  <2>1. Count(t, t[k]) # 0
    BY <1>5, CountFacts
  <2>2. Count(q, t[k]) # 0
    BY <1>6, <1>7, <2>1
  <2> QED
    BY <1>1, <2>2, CountFacts
<1>9. \A k \in DOMAIN r : \E m \in DOMAIN q : q[m] = r[k]
  <2> SUFFICES ASSUME NEW k \in DOMAIN r PROVE \E m \in DOMAIN q : q[m] = r[k]
    OBVIOUS
  <2>1. Count(r, r[k]) # 0
    BY <1>5, CountFacts
  <2>2. Count(q, r[k]) # 0
    BY <1>6, <1>7, <2>1
  <2> QED
    BY <1>1, <2>2, CountFacts
<1>10. \A k \in DOMAIN t : k \in Nat /\ k >= 1
  BY <1>5, LenProperties
<1> QED
  BY <1>2, <1>3, <1>8, <1>9, <1>10 DEF q

(* Only an exporter that reads a span emits events.                        *)
LEMMA EventsFrame == [Next]_vars => events' = events \/ \E q \in Workers : Process(q)
<1>1. ASSUME NEW i \in Spans, Start(i) \/ Update(i) \/ End(i) \/ OnEnd(i) PROVE events' = events
  BY <1>1 DEF Start, Update, End, OnEnd, Refuse, Check, Enqueue, Measure
<1>2. ASSUME NEW q \in Workers, Work(q) \/ Shutdown(q), ~Process(q) PROVE events' = events
  BY <1>2 DEF Work, Take, Generate, Replace, Deliver, Fail, Exit, Shutdown
<1> QED
  BY <1>1, <1>2 DEF Next, vars

LEMMA WorkerFrame ==
  ASSUME TInv, [Next]_vars, NEW p \in Workers
  PROVE  /\ batch'[p] = batch[p] \/ Take(p) \/ Generate(p) \/ Process(p) \/ Replace(p) \/ Deliver(p) \/ Fail(p)
         /\ sent'[p] = sent[p] \/ Deliver(p)
<1>1. DOMAIN batch = Workers
  BY DEF TInv, WorkInv
<1>2. ASSUME NEW i \in Spans, Start(i) \/ Update(i) \/ End(i) \/ OnEnd(i) PROVE UNCHANGED <<batch, sent>>
  BY <1>2 DEF Start, Update, End, OnEnd, Refuse, Check, Enqueue, Measure
<1>3. ASSUME NEW q \in Workers, q # p, Work(q) \/ Shutdown(q) PROVE batch'[p] = batch[p]
  BY <1>1, <1>3 DEF Work, Take, Generate, Process, Replace, Deliver, Fail, Exit, Shutdown, Lose
<1>4. Exit(p) \/ Shutdown(p) \/ UNCHANGED vars => batch'[p] = batch[p]
  BY DEF Exit, Shutdown, vars
<1>5. ASSUME NEW q \in Workers, Work(q) \/ Shutdown(q), ~Deliver(q) PROVE sent' = sent
  BY <1>5 DEF Work, Take, Generate, Process, Replace, Fail, Exit, Shutdown, Lose
<1>6. ASSUME NEW q \in Workers, Deliver(q), q # p PROVE sent'[p] = sent[p]
  BY <1>6, DeliverFacts
<1>7. UNCHANGED vars => UNCHANGED <<batch, sent>>
  BY DEF vars
<1>8. batch'[p] = batch[p] \/ Take(p) \/ Generate(p) \/ Process(p) \/ Replace(p) \/ Deliver(p) \/ Fail(p)
  BY <1>2, <1>3, <1>4 DEF Next, Work
<1>9. sent'[p] = sent[p] \/ Deliver(p)
  BY <1>2, <1>5, <1>6, <1>7 DEF Next
<1> QED
  BY <1>8, <1>9

(* on_end goes forward, and puts a span in the queue as it passes.         *)
LEMMA NextGrows ==
  ASSUME TInv, [Next]_vars, NEW i \in Over, NEW p \in Workers
  PROVE  next'[i] <= p => next[i] <= p
<1>1. i \in Spans /\ next \in [Spans -> 0..(Len(Pipeline) + 1)] /\ Len(Pipeline) \in Nat /\ p \in 1..Len(Pipeline)
  BY PipelineFacts DEF Over, TInv, LiveInv
<1>2. ASSUME NEW n \in Spans, End(n) PROVE next'[i] = next[i]
  <2>1. n # i
    BY <1>2 DEF End, IsOpen, Over, Phase
  <2> QED
    BY <1>1, <1>2, <2>1 DEF End
<1>3. ASSUME NEW n \in Spans, OnEnd(n) PROVE next'[i] <= p => next[i] <= p
  <2>1. PICK q \in DOMAIN Pipeline : Refuse(n, q) \/ Check(n, q) \/ Enqueue(n, q) \/ Measure(n, q)
    BY <1>3 DEF OnEnd
  <2>2. /\ next[n] = q /\ After(q) > q /\ q \in 1..Len(Pipeline) /\ After(q) \in 0..(Len(Pipeline) + 1)
    BY <2>1, OnEndFacts
  <2>3. next' = next \/ next' = [next EXCEPT ![n] = After(q)]
    BY <2>1 DEF Refuse, Check, Enqueue, Measure, At
  <2> QED
    BY <1>1, <2>2, <2>3
<1>4. ASSUME NEW n \in Spans, Start(n) \/ Update(n) PROVE next' = next
  BY <1>4 DEF Start, Update
<1>5. ASSUME NEW q \in Workers, Work(q) \/ Shutdown(q) PROVE next' = next
  BY <1>5 DEF Work, Take, Generate, Process, Replace, Deliver, Fail, Exit, Shutdown
<1>6. UNCHANGED vars => next' = next
  BY DEF vars
<1> QED
  BY <1>2, <1>3, <1>4, <1>5, <1>6 DEF Next

LEMMA QueueFrame ==
  ASSUME TInv, [Next]_vars, NEW p \in Workers, NEW n \in DOMAIN queue'[p]
  PROVE  (\E m \in DOMAIN queue[p] : queue[p][m] = queue'[p][n]) \/ (queue'[p][n] \in Over /\ next[queue'[p][n]] = p)
<1> DEFINE Goal == (\E m \in DOMAIN queue[p] : queue[p][m] = queue'[p][n]) \/ (queue'[p][n] \in Over /\ next[queue'[p][n]] = p)
<1>1. DOMAIN queue = Workers
  BY DEF TInv, WorkInv
<1>2. queue'[p] = queue[p] => Goal
  OBVIOUS
<1>3. ASSUME NEW i \in Spans, OnEnd(i) PROVE Goal
  <2>1. PICK q \in DOMAIN Pipeline : IF q \in Workers THEN Refuse(i, q) \/ Check(i, q) \/ Enqueue(i, q) ELSE Measure(i, q)
    BY <1>3 DEF OnEnd
  <2>2. CASE Refuse(i, q) \/ Check(i, q) \/ Measure(i, q)
    BY <1>2, <2>2 DEF Refuse, Check, Measure
  <2>3. CASE Enqueue(i, q) /\ q \in Workers
    <3>1. CASE q # p
      BY <1>1, <1>2, <2>3, <3>1 DEF Enqueue
    <3>2. CASE q = p
      <4>1. next[i] = p /\ i \in Over
        BY <2>3, <3>2, OnEndFacts
      <4>2. (\E m \in DOMAIN queue[p] : queue[p][m] = queue'[p][n]) \/ queue'[p][n] = i
        BY <2>3, <3>2, EnqueuedFacts
      <4> QED
        BY <4>1, <4>2
    <3> QED
      BY <3>1, <3>2
  <2> QED
    BY <2>1, <2>2, <2>3
<1>4. ASSUME NEW q \in Workers, Take(q) PROVE Goal
  <2>1. CASE q = p
    BY <1>4, <2>1, TakenFacts
  <2>2. CASE q # p
    BY <1>1, <1>2, <1>4, <2>2 DEF Take
  <2> QED
    BY <2>1, <2>2
<1>5. ASSUME NEW i \in Spans, Start(i) \/ Update(i) \/ End(i) PROVE queue' = queue
  BY <1>5 DEF Start, Update, End
<1>6. ASSUME NEW q \in Workers, Generate(q) \/ Process(q) \/ Replace(q) \/ Deliver(q) \/ Fail(q) \/ Exit(q) \/ Shutdown(q)
      PROVE  queue' = queue
  BY <1>6 DEF Generate, Process, Replace, Deliver, Fail, Exit, Shutdown
<1>7. UNCHANGED vars => queue' = queue
  BY DEF vars
<1> HIDE DEF Goal
<1>8. Goal
  BY <1>2, <1>3, <1>4, <1>5, <1>6, <1>7 DEF Next, Work
<1> QED
  BY <1>8 DEF Goal

LEMMA WaitingStep ==
  ASSUME TInv, [Next]_vars, NEW p \in Workers,
         \A i \in Left(batch'[p]) : i \in Left(batch[p]) \/ \E m \in DOMAIN queue[p] : queue[p][m] = i
  PROVE  \A i \in NextWaiting(p) : i \in Waiting(p) \/ (i \in Over' /\ i \notin Over)
<1> SUFFICES ASSUME NEW i \in NextWaiting(p), i \notin Over' \/ i \in Over PROVE i \in Waiting(p)
  OBVIOUS
<1>1. next \in [Spans -> 0..(Len(Pipeline) + 1)] /\ p \in 1..Len(Pipeline) /\ Len(Pipeline) \in Nat
  BY PipelineFacts DEF TInv, LiveInv
<1>2. CASE i \in Over' /\ next'[i] <= p
  <2>1. i \in Over /\ next[i] <= p
    BY <1>2, NextGrows
  <2> QED
    BY <2>1 DEF Waiting, WaitingIn
<1>3. ASSUME NEW n \in DOMAIN queue'[p], i = queue'[p][n] PROVE i \in Waiting(p)
  <2>1. (\E m \in DOMAIN queue[p] : queue[p][m] = i) \/ (i \in Over /\ next[i] = p)
    BY <1>3, QueueFrame
  <2>2. next[i] = p => next[i] <= p
    BY <1>1
  <2> QED
    BY <2>1, <2>2 DEF Waiting, WaitingIn
<1>4. CASE i \in Left(batch'[p])
  BY <1>4 DEF Waiting, WaitingIn
<1>5. i \in { j \in Over' : next'[j] <= p } \cup { queue'[p][n] : n \in DOMAIN queue'[p] } \cup Left(batch'[p])
  BY DEF NextWaiting, WaitingIn
<1> QED
  BY <1>2, <1>3, <1>4, <1>5

LEMMA BatchFacts ==
  ASSUME TInv, NEW p \in Workers
  PROVE  /\ IsBatch(batch[p], Over) /\ DOMAIN batch = Workers
         /\ batch[p].at \in Nat /\ Len(batch[p].spans) \in Nat /\ DOMAIN batch[p].spans = 1..Len(batch[p].spans)
         /\ \A n \in DOMAIN batch[p].spans : batch[p].spans[n] \in Over
         /\ batch[p].step = "write" => batch[p].at \in DOMAIN batch[p].spans
         /\ \A n \in DOMAIN queue[p] : queue[p][n] \in Over
         /\ sent[p] \in Seq(Range(sent[p])) /\ \A n \in DOMAIN sent[p] : sent[p][n].span \in Over
         /\ Waiting(p) \subseteq Over
<1>1. IsBatch(batch[p], Over) /\ DOMAIN batch = Workers /\ queue[p] \in Seq(Over) /\ SentSpans(p) \in Seq(Over)
      /\ sent[p] \in Seq(Range(sent[p]))
  BY DEF TInv, WorkInv
<1>2. /\ batch[p].at \in Nat /\ Len(batch[p].spans) \in Nat /\ DOMAIN batch[p].spans = 1..Len(batch[p].spans)
      /\ batch[p].spans \in Seq(Over) /\ (batch[p].step = "write" => batch[p].at \in DOMAIN batch[p].spans)
  BY <1>1, LenProperties DEF IsBatch
<1>3. \A n \in DOMAIN batch[p].spans : batch[p].spans[n] \in Over
  BY <1>2, ElementOfSeq
<1>4. \A n \in DOMAIN queue[p] : queue[p][n] \in Over
  BY <1>1, ElementOfSeq, LenProperties
<1>5. \A n \in DOMAIN sent[p] : sent[p][n].span \in Over
  <2>1. DOMAIN SentSpans(p) = DOMAIN sent[p] /\ \A n \in DOMAIN sent[p] : SentSpans(p)[n] = sent[p][n].span
    BY DEF SentSpans
  <2>2. \A n \in DOMAIN SentSpans(p) : SentSpans(p)[n] \in Over
    BY <1>1, ElementOfSeq, LenProperties
  <2> QED
    BY <2>1, <2>2
<1>6. Waiting(p) \subseteq Over
  <2>1. Left(batch[p]) \subseteq Over
    BY <1>3 DEF Left
  <2> QED
    BY <1>4, <2>1 DEF Waiting, WaitingIn
<1> QED
  BY <1>1, <1>2, <1>3, <1>4, <1>5, <1>6

(* What others do, and batches that begin or fail.                         *)
LEMMA OthersStep ==
  ASSUME TInv, Conserved, AInv, KeptInv, \A c \in Cases : Unshared(c.env) /\ OneHandler(c.env), [Next]_vars,
         NEW p \in Workers, Takes(p), ExporterOf(p).llo, ~Process(p), ~Replace(p), ~Deliver(p)
  PROVE  NextHandling(p)
<1> DEFINE b == batch[p]
           b2 == batch'[p]
<1>1. \A q \in Workers : Busy(q) => ~ExporterOf(q).wraps /\ (ExporterOf(q).llo => q = p)
  BY Decided, Alone DEF TInv
<1>2. events' = events
  <2>1. ASSUME NEW q \in Workers, Process(q) PROVE FALSE
    <3>1. Busy(q) /\ ExporterOf(q).llo
      BY <2>1 DEF Process
    <3> QED
      BY <1>1, <2>1, <3>1
  <2> QED
    BY <2>1, EventsFrame
<1>3. ASSUME NEW i \in Over PROVE ended'[i] = ended[i]
  <2>1. ~End(i) /\ i \in Spans
    BY DEF End, IsOpen, Over, Phase
  <2>2. ASSUME NEW q \in Workers, Replace(q) PROVE FALSE
    <3>1. Busy(q) /\ (ExporterOf(q).wraps \/ ExporterOf(q).llo)
      BY <2>2 DEF Replace, AInv, WriteInv
    <3> QED
      BY <1>1, <2>2, <3>1
  <2> QED
    BY <2>1, <2>2, EndedSteps DEF AInv
<1>4. sent'[p] = sent[p]
  BY WorkerFrame
<1>5. \/ b2 = b \/ Take(p)
      \/ b2.step = "read" /\ b2.spans = <<>>
  <2>1. ~Generate(p)
    BY <1>1 DEF Generate
  <2>2. Fail(p) => b2 = Idle
    BY BatchFacts DEF Fail, Lose
  <2> QED
    BY <2>1, <2>2, WorkerFrame DEF Idle
<1>6. \A i \in Left(b2) : i \in Left(b) \/ \E m \in DOMAIN queue[p] : queue[p][m] = i
  <2>1. CASE Take(p)
    BY <2>1, TakenFacts DEF Left
  <2>2. CASE b2.spans = <<>>
    BY <2>2 DEF Left
  <2> QED
    BY <1>5, <2>1, <2>2
<1>7. b2 = b \/ (b2.step = "read" /\ \A n \in DOMAIN b2.spans : ~(n < b2.at))
  <2>1. CASE Take(p)
    BY <2>1, TakenFacts
  <2>2. CASE b2.step = "read" /\ b2.spans = <<>>
    BY <2>2
  <2> QED
    BY <1>5, <2>1, <2>2
<1>8. ASSUME NEW i \in NextWaiting(p)
      PROVE  (i \in Waiting(p) /\ i \in Over) \/ (Alike(live'[i], ended'[i]) /\ EventsFor(events', i) = {})
  <2>1. i \in Waiting(p) \/ (i \in Over' /\ i \notin Over)
    BY <1>6, WaitingStep
  <2>2. ASSUME i \in Over', i \notin Over PROVE Alike(live'[i], ended'[i]) /\ EventsFor(events', i) = {}
    <3>1. End(i)
      BY <2>2, NewlyOver
    <3>2. i \in Spans /\ DOMAIN live = Spans /\ DOMAIN ended = Spans
      BY <2>2, SetupKept, Same DEF Over, TInv, LiveInv
    <3>3. Fields \subseteq DOMAIN live[i]
      BY <3>1, <3>2 DEF End, IsOpen, AInv, FieldsInv, Phase
    <3>4. live'[i] = [live[i] EXCEPT !.state = "over"] /\ ended'[i] = live[i]
      BY <3>1, <3>2 DEF End
    <3>5. Alike(live'[i], ended'[i])
      BY <3>3, <3>4 DEF Alike, Fields
    <3>6. EventsFor(events', i) = {}
      BY <1>2, <2>2 DEF KeptInv, EventsFor
    <3> QED
      BY <3>5, <3>6
  <2> QED
    BY <2>1, <2>2, BatchFacts
<1>9. \A i \in Over : Alike(live[i], live'[i]) /\ Alike(ended[i], ended'[i]) /\ EventsFor(events', i) = EventsFor(events, i)
  BY <1>2, <1>3, OverKept DEF Alike, AInv
<1>10. Handles(live, ended, events, env.logging, Waiting(p), b, sent[p])
  BY DEF KeptInv, Handling
<1>11. /\ \A n \in DOMAIN sent[p] : sent[p][n].span \in Over
       /\ \A n \in DOMAIN b.spans : b.spans[n] \in Over
       /\ b.step = "write" => b.at \in DOMAIN b.spans
  BY BatchFacts
<1>12. env' = env
  BY SetupKept
<1> DEFINE W == Waiting(p)
           W2 == NextWaiting(p)
           s == sent[p]
           logging == env.logging
<1> HIDE DEF b, b2, W, W2, s, logging
<1>13. Handles(live, ended, events, logging, W, b, s)
  BY <1>10 DEF b, W, s, logging
<1>14. /\ \A i \in W2 : (i \in W /\ i \in Over) \/ (Alike(live'[i], ended'[i]) /\ EventsFor(events', i) = {})
       /\ \A n \in DOMAIN s : s[n].span \in Over
  BY <1>8, <1>11 DEF W, W2, s
<1>15. \/ b2 = b /\ (\A n \in DOMAIN b.spans : b.spans[n] \in Over) /\ (b.step = "write" => b.at \in DOMAIN b.spans)
       \/ b2.step = "read" /\ \A n \in DOMAIN b2.spans : ~(n < b2.at)
  BY <1>7, <1>11
<1> DEFINE L2 == live'
           D2 == ended'
           E2 == events'
<1>16. Stays(live, ended, events, L2, D2, E2, Over)
  BY <1>9 DEF Stays
<1>17. Fresh(L2, D2, E2, W, Over, W2)
  BY <1>14 DEF Fresh
<1>18. Spared(b, b2, s, Over)
  BY <1>14, <1>15 DEF Spared
<1> HIDE DEF L2, D2, E2
<1>19. Handles(L2, D2, E2, logging, W2, b2, s)
  BY <1>13, <1>16, <1>17, <1>18, HandlesKept
<1> QED
  BY <1>4, <1>12, <1>19 DEF NextHandling, b, b2, W, W2, s, logging, L2, D2, E2

LEMMA ProcessStep ==
  ASSUME TInv, Conserved, AInv, KeptInv, [Next]_vars,
         NEW p \in Workers, Takes(p), ExporterOf(p).llo, Process(p)
  PROVE  NextHandling(p)
<1> DEFINE b == batch[p]
           b2 == batch'[p]
           i == InHand(p)
           s == sent[p]
           W == Waiting(p)
           W2 == NextWaiting(p)
           logging == env.logging
<1>1. /\ UNCHANGED <<env, live, ended, next, queue, sent>> /\ b.step = "read" /\ b.at \in DOMAIN b.spans
      /\ b2 = [[b EXCEPT !.step = "write"] EXCEPT !.attrs = Filtered(ended[i].attrs)]
  <2>1. b.at <= Len(b.spans) /\ b.at > 0
    BY BatchFacts DEF Process, Prepared, IsBatch
  <2>2. b.at \in DOMAIN b.spans
    BY <2>1, BatchFacts
  <2>3. b2 = [[b EXCEPT !.step = "write"] EXCEPT !.attrs = Filtered(ended[i].attrs)]
    BY BatchFacts DEF Process
  <2> QED
    BY <2>2, <2>3 DEF Process
<1>2. b2.spans = b.spans /\ b2.at = b.at /\ b2.step = "write" /\ b2.attrs = Filtered(ended[i].attrs)
  BY <1>1, BatchFacts DEF IsBatch
<1>3. /\ i \in Over /\ next[i] > p
      /\ \A n \in DOMAIN queue[p] : queue[p][n] # i
      /\ \A n \in DOMAIN b.spans : b.spans[n] = i => n = b.at
      /\ \A n \in DOMAIN s : s[n].span # i
  BY <1>1, Once
<1>4. events' = events \cup ToldOf(i, ended[i], logging)
  BY DEF Process, ToldOf
<1>5. i = b.spans[b.at] /\ b.at \in Nat
  BY BatchFacts DEF InHand
<1>6. Over' = Over
  BY <1>1, SetupKept, Same DEF Over, Phase
<1>7. Left(b2) \subseteq Left(b) /\ i \in Left(b) /\ i \notin Left(b2)
  BY <1>1, <1>2, <1>3, <1>5, BatchFacts DEF Left
<1>8. i \in W /\ W2 \subseteq W
  <2>1. \A j \in W2 : j \in W
    BY <1>6, <1>7, WaitingStep
  <2> QED
    BY <1>7, <2>1 DEF Waiting, WaitingIn
<1>9. i \notin W2
  <2>1. next \in [Spans -> 0..(Len(Pipeline) + 1)] /\ p \in 1..Len(Pipeline) /\ Len(Pipeline) \in Nat /\ i \in Spans
    BY <1>3, PipelineFacts DEF TInv, LiveInv, Over
  <2>2. ~(next'[i] <= p)
    BY <1>1, <1>3, <2>1
  <2>3. \A n \in DOMAIN queue'[p] : queue'[p][n] # i
    BY <1>1, <1>3
  <2> QED
    BY <1>7, <2>2, <2>3 DEF NextWaiting, WaitingIn
<1>10. \A e \in ToldOf(i, ended[i], logging) : e.span = i
  BY DEF ToldOf, GenAiEvent
<1>11. /\ \A j : j # i => EventsFor(events', j) = EventsFor(events, j)
       /\ EventsFor(events, i) = {} => EventsFor(events', i) = ToldOf(i, ended[i], logging)
  BY <1>4, <1>10 DEF EventsFor
<1>12. Handles(live, ended, events, logging, W, b, s)
  BY DEF KeptInv, Handling
<1>13. sent'[p] = s
  BY <1>1
<1> DEFINE E2 == events'
<1>14. TellsOf(events, E2, i, ended[i], logging) /\ Sole(b, W, W2, s, i)
  BY <1>3, <1>5, <1>8, <1>9, <1>11 DEF TellsOf, Sole
<1> HIDE DEF b, b2, i, s, W, W2, logging, E2
<1>15. Handles(live, ended, E2, logging, W2, b2, s)
  BY <1>1, <1>2, <1>12, <1>14, HandlesRead
<1> QED
  BY <1>1, <1>13, <1>15 DEF NextHandling, b2, W2, logging, E2

LEMMA ReplaceStep ==
  ASSUME TInv, Conserved, AInv, KeptInv, [Next]_vars,
         NEW p \in Workers, Takes(p), ExporterOf(p).llo, Replace(p)
  PROVE  NextHandling(p)
<1> DEFINE b == batch[p]
           b2 == batch'[p]
           i == InHand(p)
           s == sent[p]
           W == Waiting(p)
           W2 == NextWaiting(p)
           logging == env.logging
<1>1. /\ UNCHANGED <<env, live, next, queue, sent, events>> /\ b.step = "write" /\ b.at \in DOMAIN b.spans
      /\ b2 = Advance(b)
  BY BatchFacts DEF Replace
<1>2. b2.spans = b.spans /\ b2.at = b.at + 1 /\ b2.step = "read"
  BY <1>1, BatchFacts DEF Advance, IsBatch
<1>3. /\ i \in Over /\ next[i] > p
      /\ \A n \in DOMAIN queue[p] : queue[p][n] # i
      /\ \A n \in DOMAIN b.spans : b.spans[n] = i => n = b.at
      /\ \A n \in DOMAIN s : s[n].span # i
  BY <1>1, Once
<1>4. i = b.spans[b.at] /\ b.at \in Nat /\ \A n \in DOMAIN b.spans : n \in Nat
  BY BatchFacts DEF InHand
<1>5. /\ \A j \in Spans : j # i => ended'[j] = ended[j]
      /\ ended'[i].attrs = b.attrs
  BY ReplaceFacts DEF AInv
<1>6. ended'[i].events = FilteredEvents(ended[i].events)
  <2>1. DOMAIN ended = Spans /\ i \in Spans /\ "events" \in DOMAIN ended[i]
    BY <1>3 DEF TInv, LiveInv, AInv, FieldsInv, Fields, Over
  <2>2. ended'[i] = [[ended[i] EXCEPT !.attrs = b.attrs] EXCEPT !.events = FilteredEvents(ended[i].events)]
    BY <2>1 DEF Replace
  <2> QED
    BY <2>1, <2>2
<1>7. Over' = Over /\ Over \subseteq Spans
  BY <1>1, SetupKept, Same DEF Over, Phase
<1>8. Left(b2) \subseteq Left(b) /\ i \notin Left(b2)
  <2>1. \A n \in DOMAIN b.spans : n > b.at + 1 \/ n = b.at + 1 => n > b.at /\ n # b.at
    BY <1>4
  <2> QED
    BY <1>2, <1>3, <2>1 DEF Left
<1>9. W2 \subseteq W
  BY <1>7, <1>8, WaitingStep
<1>10. i \notin W2
  <2>1. next \in [Spans -> 0..(Len(Pipeline) + 1)] /\ p \in 1..Len(Pipeline) /\ Len(Pipeline) \in Nat /\ i \in Spans
    BY <1>3, PipelineFacts DEF TInv, LiveInv, Over
  <2>2. ~(next'[i] <= p)
    BY <1>1, <1>3, <2>1
  <2>3. \A n \in DOMAIN queue'[p] : queue'[p][n] # i
    BY <1>1, <1>3
  <2> QED
    BY <1>8, <2>2, <2>3 DEF NextWaiting, WaitingIn
<1>11. \A j \in W2 : ended'[j] = ended[j]
  BY <1>5, <1>7, <1>9, <1>10, BatchFacts
<1>12. \A n \in DOMAIN b.spans : n # b.at => ended'[b.spans[n]] = ended[b.spans[n]]
  BY <1>3, <1>5, <1>7, BatchFacts
<1>13. Handles(live, ended, events, logging, W, b, s)
  BY DEF KeptInv, Handling
<1>14. sent'[p] = s
  BY <1>1
<1> HIDE DEF b, b2, i, s, W, W2, logging
<1>15. Handles(live, ended', events, logging, W2, b2, s)
  BY <1>1, <1>2, <1>3, <1>4, <1>5, <1>6, <1>9, <1>10, <1>11, <1>12, <1>13, HandlesReplaced
<1> QED
  BY <1>1, <1>14, <1>15 DEF NextHandling, b2, W2, logging

LEMMA DeliverStep ==
  ASSUME TInv, Conserved, AInv, KeptInv, [Next]_vars,
         NEW p \in Workers, Takes(p), ExporterOf(p).llo, Deliver(p)
  PROVE  NextHandling(p)
<1> DEFINE b == batch[p]
           s == sent[p]
           t == [n \in DOMAIN b.spans |-> [span |-> b.spans[n], attrs |-> ended[b.spans[n]].attrs, events |-> ended[b.spans[n]].events]]
           W == Waiting(p)
           W2 == NextWaiting(p)
           logging == env.logging
<1>1. /\ UNCHANGED <<env, live, ended, next, queue, events>> /\ batch'[p] = Idle
      /\ b.at > Len(b.spans) /\ sent'[p] = s \o t
  <2>1. DOMAIN sent = Workers
    BY DEF TInv, WorkInv
  <2>2. sent'[p] = s \o [n \in DOMAIN b.spans |-> Delivery(b.spans[n])]
    BY <2>1 DEF Deliver
  <2>3. t = [n \in DOMAIN b.spans |-> Delivery(b.spans[n])]
    BY DEF Delivery
  <2> QED
    BY <2>2, <2>3, BatchFacts DEF Deliver, Prepared
<1>2. Over' = Over
  BY <1>1, SetupKept, Same DEF Over, Phase
<1>3. W2 \subseteq W
  <2>1. Left(batch'[p]) = {}
    BY <1>1 DEF Left, Idle
  <2> QED
    BY <1>2, <2>1, WaitingStep
<1>4. b.spans \in Seq(Over) /\ b.at \in Nat /\ s \in Seq(Range(s))
  BY BatchFacts DEF IsBatch
<1>5. Handles(live, ended, events, logging, W, b, s)
  BY DEF KeptInv, Handling
<1>6. t = [n \in DOMAIN b.spans |-> [span |-> b.spans[n], attrs |-> ended[b.spans[n]].attrs, events |-> ended[b.spans[n]].events]]
  OBVIOUS
<1> HIDE DEF b, s, t, W, W2, logging
<1>7. Handles(live, ended, events, logging, W2, Idle, s \o t)
  BY <1>1, <1>3, <1>4, <1>5, <1>6, HandlesDelivered
<1> QED
  BY <1>1, <1>7 DEF NextHandling, W2, logging

LEMMA KeptStep ==
  ASSUME \A c \in Cases : Unshared(c.env) /\ OneHandler(c.env)
  PROVE  TInv /\ Conserved /\ AInv /\ KeptInv /\ [Next]_vars => KeptInv'
<1> SUFFICES ASSUME TInv, Conserved, AInv, KeptInv, [Next]_vars PROVE KeptInv'
  OBVIOUS
<1>1. BornInv'
  BY BornStep DEF AInv, KeptInv
<1>2. ASSUME NEW e \in events' PROVE e.span \in Over'
  <2>1. \A i \in Over : i \in Over'
    BY OverKept DEF AInv
  <2>2. CASE e \in events
    BY <2>1, <2>2 DEF KeptInv
  <2>3. CASE e \notin events
    <3>1. PICK q \in Workers : Process(q)
      BY <1>2, <2>3, EventsFrame
    <3>2. batch[q].at <= Len(batch[q].spans) /\ batch[q].at > 0
      BY <3>1, BatchFacts DEF Process, Prepared, IsBatch
    <3>3. InHand(q) \in Over
      BY <3>2, BatchFacts DEF InHand
    <3>4. e.span = InHand(q)
      BY <1>2, <2>3, <3>1 DEF Process, GenAiEvent
    <3> QED
      BY <2>1, <3>3, <3>4
  <2> QED
    BY <2>2, <2>3
<1>3. env' = env /\ Workers' = Workers /\ \A p : (Takes(p)' <=> Takes(p)) /\ (ExporterOf(p)' = ExporterOf(p))
  BY SetupKept, Same
<1>4. ASSUME NEW p \in Workers, Takes(p), ExporterOf(p).llo PROVE NextHandling(p)
  BY <1>4, ProcessStep, ReplaceStep, DeliverStep, OthersStep
<1>5. \A p : NextHandling(p) => Handling(p)'
  BY <1>3 DEF NextHandling, Handling, NextWaiting, Waiting
<1> QED
  BY <1>1, <1>2, <1>3, <1>4, <1>5 DEF KeptInv

LEMMA KeptInit == Init => KeptInv
<1> SUFFICES ASSUME Init PROVE KeptInv
  OBVIOUS
<1>1. /\ events = {} /\ (\A i \in Spans : Phase(i) = "none") /\ Over = {}
      /\ \A p \in Workers : batch[p] = Idle /\ queue[p] = <<>> /\ sent[p] = <<>>
  BY DEF Init, Phase, NoSpan, Over
<1>2. BornInv
  BY <1>1 DEF BornInv, Seen
<1>3. ASSUME NEW p \in Workers PROVE Handling(p)
  <2>1. Waiting(p) = {}
    BY <1>1, <1>3 DEF Waiting, WaitingIn, Left, Idle
  <2>2. batch[p].step = "read" /\ DOMAIN batch[p].spans = {} /\ DOMAIN sent[p] = {}
    BY <1>1, <1>3 DEF Idle
  <2> QED
    BY <2>1, <2>2 DEF Handling, Handles
<1> QED
  BY <1>1, <1>2, <1>3 DEF KeptInv

(* The event of a span, if content is told at all, is one.                 *)
LEMMA OneEvent == ASSUME NEW i, NEW s PROVE Cardinality(ToldOf(i, s, TRUE)) <= 1
<1> DEFINE T == ToldOf(i, s, TRUE)
<1>1. \E e : T = {} \/ T = {e}
  BY DEF ToldOf
<1> HIDE DEF T
<1>2. Cardinality({}) = 0 /\ \A e : Cardinality({e}) = 1
  BY FS_EmptySet, FS_Singleton
<1>3. Cardinality(T) = 0 \/ Cardinality(T) = 1
  BY <1>1, <1>2
<1>4. Cardinality(T) <= 1
  BY <1>3
<1> QED
  BY <1>4 DEF T

LEMMA KeptSent ==
  ASSUME TInv, Conserved, AInv, KeptInv, NEW p \in Workers, ExporterOf(p).llo, NEW n \in DOMAIN sent[p]
  PROVE  LET i == sent[p][n].span
         IN  i \in Over /\ i \in Spans /\ Stripped(live[i], sent[p][n]) /\ Told(live, events, env.logging, i)
<1>1. sent[p][n].span \in Over /\ sent[p][n].span \in Spans
  BY BatchFacts DEF Over
<1>2. Takes(p)
  BY Decided DEF TInv
<1>3. Handling(p)
  BY <1>2 DEF KeptInv
<1> QED
  BY <1>1, <1>3 DEF Handling, Handles

(* Of a span that was sent everything was told, and nothing is left.       *)
LEMMA ToldInFull ==
  ASSUME TInv, Conserved, AInv, KeptInv, NEW p \in Workers, ExporterOf(p).llo, NEW n \in DOMAIN sent[p]
  PROVE  LET i == sent[p][n].span
         IN  /\ Contents(sent[p][n]) = {}
             /\ env.logging => /\ Cardinality({ e \in events : e.span = i }) <= 1
                               /\ Emitted(i) = { c[3] : c \in Latest(Contents(live[i])) }
<1> DEFINE i == sent[p][n].span
<1>1. i \in Over /\ i \in Spans /\ Stripped(live[i], sent[p][n]) /\ Told(live, events, env.logging, i)
  BY KeptSent
<1>2. live[i].events \in Seq(Range(live[i].events))
  BY <1>1, BornFacts DEF KeptInv, Seen, Over
<1>3. Contents(sent[p][n]) = {}
  BY <1>1, <1>2, StrippedClean
<1>4. EventsFor(events, i) = { e \in events : e.span = i }
  BY DEF EventsFor
<1>5. ASSUME env.logging
      PROVE  Cardinality(EventsFor(events, i)) <= 1 /\ Emitted(i) = { c[3] : c \in Latest(Contents(live[i])) }
  <2>1. EventsFor(events, i) = ToldOf(i, live[i], TRUE)
    BY <1>1, <1>5 DEF Told, ToldOf
  <2> HIDE DEF i
  <2>2. UNION { { m.content : m \in e.input \cup e.output } : e \in ToldOf(i, live[i], TRUE) } = { c[3] : c \in Latest(Contents(live[i])) }
    BY <1>2, ToldContent
  <2>3. Emitted(i) = UNION { { m.content : m \in e.input \cup e.output } : e \in EventsFor(events, i) }
    BY <1>4 DEF Emitted
  <2> QED
    BY <2>1, <2>2, <2>3, OneEvent
<1> QED
  BY <1>3, <1>4, <1>5

LEMMA KeptMeans == TInv /\ Conserved /\ AInv /\ KeptInv => LloKept /\ LloFiltered
<1> SUFFICES ASSUME TInv, Conserved, AInv, KeptInv, NEW p \in Workers, ExporterOf(p).llo, NEW n \in DOMAIN sent[p]
             PROVE  LET i    == sent[p][n].span
                        left == { Tail(c) : c \in Contents(sent[p][n]) }
                    IN  /\ Contents(sent[p][n]) = {}
                        /\ env.logging => /\ Cardinality({ e \in events : e.span = i }) <= 1
                                          /\ Emitted(i) = { c[3] : c \in { x \in Latest(Contents(live[i])) : Tail(x) \notin left } }
  BY DEF LloKept, LloFiltered
<1> DEFINE i == sent[p][n].span
           left == { Tail(c) : c \in Contents(sent[p][n]) }
           X == Latest(Contents(live[i]))
<1>1. /\ Contents(sent[p][n]) = {}
      /\ env.logging => /\ Cardinality({ e \in events : e.span = i }) <= 1
                        /\ Emitted(i) = { c[3] : c \in X }
  BY ToldInFull
<1>2. left = {}
  BY <1>1
<1> HIDE DEF left, X
<1>3. { x \in X : Tail(x) \notin left } = X
  BY <1>2
<1> QED
  BY <1>1, <1>3 DEF left, X

(* Of every span that a processor with an LLOHandler has sent, the one     *)
(* event holds, of the content that is no longer on the span, just what    *)
(* came last under its key, told once, whatever spans and exporters do     *)
(* meanwhile.  Content whose key came again is excepted: it is taken off   *)
(* the span and told nowhere.  No exporter that derives attributes and no  *)
(* second LLOHandler is handed the spans.                                  *)
THEOREM ContentKept ==
  ASSUME \A c \in Cases : Unshared(c.env) /\ OneHandler(c.env)
  PROVE  Spec => []LloKept
<1>1. TInv /\ Conserved /\ AInv /\ KeptInv => LloKept
  BY KeptMeans
<1>2. TInv /\ Conserved /\ AInv /\ KeptInv /\ [Next]_vars => KeptInv'
  BY KeptStep
<1> QED
  BY <1>1, <1>2, KeptInit, AInit, AStep, Types, EachSpanOnce, PTL DEF Spec

(* And none of it is on the span that is sent.                             *)
THEOREM ContentRemoved ==
  ASSUME \A c \in Cases : Unshared(c.env) /\ OneHandler(c.env)
  PROVE  Spec => []LloFiltered
<1>1. TInv /\ Conserved /\ AInv /\ KeptInv => LloFiltered
  BY KeptMeans
<1>2. TInv /\ Conserved /\ AInv /\ KeptInv /\ [Next]_vars => KeptInv'
  BY KeptStep
<1> QED
  BY <1>1, <1>2, KeptInit, AInit, AStep, Types, EachSpanOnce, PTL DEF Spec
=============================================================================
