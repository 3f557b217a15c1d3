---------------------- MODULE CloudWatchLogClientProofs ----------------------
(***************************************************************************)
(* The CloudWatch Logs client, for any number of threads, any data, limits *)
(* and clock: what becomes of an event that send_log_event took, and of a  *)
(* point that an export was given.                                         *)
(***************************************************************************)
EXTENDS CloudWatchLogClient, TotalsProofs, SequenceTheorems, WellFoundedInduction

-----------------------------------------------------------------------------
(* The objects: there is always one that nobody refers to.                 *)

LEMMA FreshFree ==
  ASSUME cur \in [Threads -> Batches \cup {None}]
  PROVE  Fresh \in Batches /\ Fresh # batch /\ \A t \in Threads : cur[t] # Fresh
<1> DEFINE Held == {cur[t] : t \in Threads}
           n    == Cardinality(Threads)
<1>1. n \in Nat
  BY ThreadsAssumption, FS_CardinalityType
<1>2. IsFiniteSet(Held) /\ Cardinality(Held) <= n
  <2>1. cur \in Surjection(Threads, Held)
    BY DEF Surjection
  <2> QED
    BY <2>1, ThreadsAssumption, FS_Surjection
<1>3. IsFiniteSet(Held \cup {batch}) /\ Cardinality(Held \cup {batch}) <= n + 1
  <2>1. Cardinality(Held) \in Nat
    BY <1>2, FS_CardinalityType
  <2>2. /\ IsFiniteSet(Held \cup {batch})
        /\ Cardinality(Held \cup {batch}) = IF batch \in Held THEN Cardinality(Held) ELSE Cardinality(Held) + 1
    BY <1>2, FS_AddElement
  <2> QED
    BY <1>1, <1>2, <2>1, <2>2
<1>4. Cardinality(Batches) = n + 2
  <2>1. Cardinality(1..(n + 2)) = n + 2
    BY <1>1, FS_Interval
  <2> QED
    BY <2>1 DEF Batches
<1>5. ~(Batches \subseteq Held \cup {batch})
  <2>1. SUFFICES ASSUME Batches \subseteq Held \cup {batch} PROVE FALSE
    OBVIOUS
  <2>2. Cardinality(Batches) <= Cardinality(Held \cup {batch})
    BY <1>3, <2>1, FS_Subset
  <2>3. Cardinality(Held \cup {batch}) \in Nat
    BY <1>3, FS_CardinalityType
  <2> QED
    BY <1>1, <1>3, <1>4, <2>2, <2>3
<1>6. \E b \in Batches : b # batch /\ \A t \in Threads : cur[t] # b
  BY <1>5
<1> QED
  BY <1>6 DEF Fresh

-----------------------------------------------------------------------------
(* The sorted copy: the events of the list, each in a place of its own.    *)

Injective(q) == \A i, j \in DOMAIN q : q[i] = q[j] => i = j

(* The order on the places of a list, and the new place of each.           *)
Before(q, j, k) ==
  \/ LogOf(q[j]).stamp < LogOf(q[k]).stamp
  \/ LogOf(q[j]).stamp = LogOf(q[k]).stamp /\ j < k
Place(q, k) == 1 + Cardinality({ j \in DOMAIN q : Before(q, j, k) })

LEMMA SortedPlaces ==
  ASSUME NEW q PROVE Sorted(q) = [i \in DOMAIN q |-> q[CHOOSE k \in DOMAIN q : Place(q, k) = i]]
  BY DEF Sorted, Place, Before

(* Places are different, and within the list.                              *)
LEMMA PlaceOrder ==
  ASSUME NEW S, NEW q \in Seq(S), \A i \in DOMAIN q : LogOf(q[i]).stamp \in Nat
  PROVE  /\ \A k \in DOMAIN q : Place(q, k) \in DOMAIN q
         /\ \A j, k \in DOMAIN q : Before(q, j, k) => Place(q, j) < Place(q, k)
         /\ \A j, k \in DOMAIN q : j # k => Place(q, j) # Place(q, k)
<1> DEFINE Sooner(k) == { j \in DOMAIN q : Before(q, j, k) }
<1>1. /\ DOMAIN q = 1..Len(q) /\ Len(q) \in Nat
      /\ IsFiniteSet(DOMAIN q) /\ Cardinality(DOMAIN q) = Len(q)
  <2>1. DOMAIN q = 1..Len(q) /\ Len(q) \in Nat
    BY LenProperties
  <2>2. \A n \in Nat : IsFiniteSet(1..n) /\ Cardinality(1..n) = n
    BY FS_Interval
  <2> QED
    BY <2>1, <2>2, Zenon
<1>2. ASSUME NEW k \in DOMAIN q
      PROVE  /\ IsFiniteSet(Sooner(k)) /\ Cardinality(Sooner(k)) \in Nat
             /\ Cardinality(Sooner(k)) < Len(q)
             /\ k \notin Sooner(k)
  <2>1. k \notin Sooner(k)
    BY <1>1 DEF Before
  <2>2. IsFiniteSet(Sooner(k)) /\ Cardinality(Sooner(k)) <= Len(q) /\ Cardinality(Sooner(k)) # Len(q)
    BY ZenonT(60), <1>1, <2>1, FS_Subset
  <2>3. Cardinality(Sooner(k)) \in Nat
    BY <2>2, FS_CardinalityType
  <2> QED
    BY <1>1, <2>1, <2>2, <2>3
<1>3. ASSUME NEW k \in DOMAIN q PROVE Place(q, k) \in DOMAIN q /\ Place(q, k) = 1 + Cardinality(Sooner(k))
  <2>1. Place(q, k) = 1 + Cardinality(Sooner(k))
    BY DEF Place
  <2> HIDE DEF Sooner
  <2> QED
    BY <1>1, <1>2, <2>1
<1>4. ASSUME NEW j \in DOMAIN q, NEW k \in DOMAIN q, Before(q, j, k) PROVE Place(q, j) < Place(q, k)
  <2>1. Sooner(j) \cup {j} \subseteq Sooner(k)
    <3>1. ASSUME NEW i \in DOMAIN q, Before(q, i, j) PROVE Before(q, i, k)
      BY <1>1, <1>4, <3>1 DEF Before
    <3> QED
      BY <1>4, <3>1
  <2>2. IsFiniteSet(Sooner(j) \cup {j}) /\ Cardinality(Sooner(j) \cup {j}) = Cardinality(Sooner(j)) + 1
    BY <1>2, FS_AddElement
  <2>3. Cardinality(Sooner(j) \cup {j}) <= Cardinality(Sooner(k))
    BY <1>2, <2>1, FS_Subset
  <2>4. Cardinality(Sooner(j)) \in Nat /\ Cardinality(Sooner(k)) \in Nat
    BY <1>2
  <2> HIDE DEF Sooner
  <2> QED
    BY <1>3, <2>2, <2>3, <2>4
<1>5. ASSUME NEW j \in DOMAIN q, NEW k \in DOMAIN q, j # k PROVE Place(q, j) # Place(q, k)
  <2>1. Before(q, j, k) \/ Before(q, k, j)
    BY <1>1, <1>5 DEF Before
  <2>2. Place(q, j) \in DOMAIN q /\ Place(q, k) \in DOMAIN q
    BY <1>3
  <2>3. Place(q, j) \in Int /\ Place(q, k) \in Int
    <3> HIDE DEF Sooner
    <3> QED
      BY <1>1, <2>2
  <2>4. Place(q, j) < Place(q, k) \/ Place(q, k) < Place(q, j)
    BY <1>4, <2>1
  <2> QED
    BY <2>3, <2>4
<1> QED
  BY <1>3, <1>4, <1>5

(* Every place is taken.                                                   *)
LEMMA PlaceTaken ==
  ASSUME NEW S, NEW q \in Seq(S), \A i \in DOMAIN q : LogOf(q[i]).stamp \in Nat, NEW i \in DOMAIN q
  PROVE  \E k \in DOMAIN q : Place(q, k) = i
<1> DEFINE D == DOMAIN q
           f == [k \in D |-> Place(q, k)]
<1>1. IsFiniteSet(D) /\ IsFiniteSet(D \ {i}) /\ Cardinality(D \ {i}) < Cardinality(D)
  <2>1. DOMAIN q = 1..Len(q) /\ Len(q) \in Nat
    BY LenProperties
  <2>2. IsFiniteSet(D)
    BY <2>1, FS_Interval
  <2>3. IsFiniteSet(D \ {i}) /\ Cardinality(D \ {i}) = Cardinality(D) - 1
    BY <2>2, FS_RemoveElement
  <2>4. Cardinality(D) \in Nat
    BY <2>2, FS_CardinalityType
  <2> QED
    BY <2>2, <2>3, <2>4
<1>2. SUFFICES ASSUME \A k \in D : Place(q, k) # i PROVE FALSE
  OBVIOUS
<1>3. f \in [D -> D \ {i}]
  BY <1>2, PlaceOrder
<1>4. \E x, y \in D : x # y /\ f[x] = f[y]
  <2> HIDE DEF D, f
  <2> QED
    BY <1>1, <1>3, FS_PigeonHole
<1> QED
  BY <1>4, PlaceOrder

(* A sorted list has the elements of the list, as often, in order of time. *)
LEMMA SortedFacts ==
  ASSUME NEW S, NEW q \in Seq(S), \A i \in DOMAIN q : LogOf(q[i]).stamp \in Nat
  PROVE  /\ Sorted(q) \in Seq(S) /\ Len(Sorted(q)) = Len(q) /\ DOMAIN Sorted(q) = DOMAIN q
         /\ Range(Sorted(q)) = Range(q)
         /\ Injective(q) => Injective(Sorted(q))
         /\ \A i, j \in DOMAIN q : i < j => LogOf(Sorted(q)[i]).stamp <= LogOf(Sorted(q)[j]).stamp
<1> DEFINE From(i) == CHOOSE k \in DOMAIN q : Place(q, k) = i
<1>1. \A i \in DOMAIN q : From(i) \in DOMAIN q /\ Place(q, From(i)) = i
  BY PlaceTaken
<1>2. DOMAIN q = 1..Len(q) /\ Len(q) \in Nat /\ \A i \in DOMAIN q : q[i] \in S
  BY LenProperties, ElementOfSeq
<1>3. Sorted(q) = [i \in DOMAIN q |-> q[From(i)]]
  BY SortedPlaces
<1>4. \A k \in DOMAIN q : From(Place(q, k)) = k
  BY <1>1, PlaceOrder
<1> HIDE DEF From
<1>5. Sorted(q) \in Seq(S) /\ Len(Sorted(q)) = Len(q) /\ DOMAIN Sorted(q) = DOMAIN q
  BY <1>1, <1>2, <1>3
<1>6. Range(Sorted(q)) = Range(q)
  <2>1. ASSUME NEW i \in DOMAIN q PROVE Sorted(q)[i] \in Range(q)
    BY <1>1, <1>3 DEF Range
  <2>2. ASSUME NEW k \in DOMAIN q PROVE q[k] \in Range(Sorted(q))
    <3>1. Place(q, k) \in DOMAIN q /\ Sorted(q)[Place(q, k)] = q[k]
      BY <1>3, <1>4, PlaceOrder
    <3> QED
      BY <1>5, <3>1 DEF Range
  <2> QED
    BY <1>5, <2>1, <2>2 DEF Range
<1>7. ASSUME Injective(q) PROVE Injective(Sorted(q))
  <2>1. ASSUME NEW i \in DOMAIN q, NEW j \in DOMAIN q, Sorted(q)[i] = Sorted(q)[j] PROVE i = j
    <3>1. From(i) = From(j)
      BY <1>1, <1>3, <1>7, <2>1 DEF Injective
    <3> QED
      BY <1>1, <3>1
  <2> QED
    BY <1>5, <2>1 DEF Injective
<1>8. ASSUME NEW i \in DOMAIN q, NEW j \in DOMAIN q, i < j
      PROVE  LogOf(Sorted(q)[i]).stamp <= LogOf(Sorted(q)[j]).stamp
  <2>1. Place(q, From(i)) < Place(q, From(j)) /\ i \in Int /\ j \in Int
    BY <1>1, <1>2, <1>8
  <2>2. ~Before(q, From(j), From(i))
    <3>1. Before(q, From(j), From(i)) => Place(q, From(j)) < Place(q, From(i))
      BY <1>1, PlaceOrder
    <3>2. Place(q, From(i)) = i /\ Place(q, From(j)) = j
      BY <1>1
    <3> QED
      BY <1>8, <2>1, <3>1, <3>2
  <2>3. LogOf(q[From(i)]).stamp \in Nat /\ LogOf(q[From(j)]).stamp \in Nat
    BY <1>1
  <2> QED
    BY <1>3, <2>2, <2>3 DEF Before
<1> QED
  BY <1>5, <1>6, <1>7, <1>8

-----------------------------------------------------------------------------
(* Types, and where each thread is.                                        *)

BatchType == [events : Seq(Events), byteTotal : Nat, minStamp : Nat, maxStamp : Nat, created : Int]
Places    == {"out", "export", "add", "sort", "sorted", "put", "create", "retry", "renew"}
Fates     == {"new", "invalid", "held", "accepted", "failed"}

ClientType ==
  /\ now \in Start..Horizon
  /\ batch \in Batches \cup {None}
  /\ heap \in [Batches -> BatchType]
  /\ \A b \in Batches : heap[b].created \in Start..now

CallerType ==
  /\ exportLock \in Threads \cup {Free}
  /\ pc \in [Threads -> Places]
  /\ op \in [Threads -> {"send", "flush"}]
  /\ cur \in [Threads -> Batches \cup {None}]
  /\ hand \in [Threads -> Events \cup {None}]
  /\ copy \in [Threads -> Seq(Events)]
  /\ data \in [Threads -> DOMAIN Data \cup {None}]
  /\ next \in [Threads -> Nat]

EventType ==
  /\ exists \in BOOLEAN
  /\ stored \in [Events -> Nat]
  /\ used \in 0..MaxLogs
  /\ info \in [Events -> (DOMAIN Data \cup {None}) \X Nat]
  /\ fate \in [Events -> Fates]
  /\ due \in [Threads -> SUBSET Events]
  /\ overlap \in BOOLEAN /\ doubts \in Nat

Sending(t) == Inside(t) /\ op[t] = "send"

(* The export lock is of the thread that exports, also while it sends; the *)
(* locals of a call are there as long as the call.                         *)
PlaceInv ==
  \A t \in Threads :
    /\ Inside(t) <=> cur[t] # None
    /\ exportLock = t <=> pc[t] = "export" \/ Sending(t)
    /\ hand[t] # None <=> Sending(t)
    /\ pc[t] = "add" => op[t] = "send"
    /\ Inside(t) => batch # None
    /\ Inside(t) /\ op[t] = "flush" => t \in Flushers

(* There is room for what an export still has to send.                     *)
RoomInv ==
  \A t \in Threads :
    IF exportLock = t
      THEN /\ data[t] \in DOMAIN Data
           /\ next[t] \in 1..(Len(LogsOf[data[t]]) + 1)
           /\ used + Len(LogsOf[data[t]]) + 1 - next[t] <= MaxLogs
      ELSE next[t] = 1

(* An event is a log of some export.  It is in lists and in requests only  *)
(* after add_event took it.                                                *)
EventInv ==
  /\ \A e \in Events : e > used <=> fate[e] = "new"
  /\ \A e \in Events : e <= used =>
       info[e][1] \in DOMAIN Data /\ info[e][2] \in DOMAIN LogsOf[info[e][1]]
  /\ \A t \in Threads : hand[t] # None => fate[hand[t]] = "held"
  /\ \A e \in Events : stored[e] > 0 => fate[e] = "accepted"
  /\ \A b \in Batches : \A e \in Range(heap[b].events) : fate[e] = "accepted"
  /\ \A t \in Threads : \A e \in Range(copy[t]) : fate[e] = "accepted"

TInv == ClientType /\ CallerType /\ EventType /\ PlaceInv /\ RoomInv /\ EventInv

-----------------------------------------------------------------------------
(* Lists, batches and logs.                                                *)

LEMMA NoneFacts == None \notin Batches /\ None \notin Events
  BY DEF None, Batches, Events

LEMMA ListFacts ==
  /\ <<>> \in Seq(Events) /\ Range(<<>>) = {} /\ Injective(<<>>)
  /\ \A q \in Seq(Events), e \in Events :
       Append(q, e) \in Seq(Events) /\ Range(Append(q, e)) = Range(q) \cup {e}
  /\ \A q \in Seq(Events) : Range(q) \subseteq Events /\ (q # <<>> => Range(q) # {})
<1>1. <<>> \in Seq(Events) /\ Range(<<>>) = {} /\ Injective(<<>>)
  BY DEF Range, Injective
<1>2. ASSUME NEW q \in Seq(Events), NEW e \in Events
      PROVE  Append(q, e) \in Seq(Events) /\ Range(Append(q, e)) = Range(q) \cup {e}
  <2>1. Len(q) \in Nat /\ DOMAIN q = 1..Len(q)
    BY LenProperties
  <2>2. /\ Append(q, e) \in Seq(Events) /\ DOMAIN Append(q, e) = 1..(Len(q) + 1)
        /\ Append(q, e)[Len(q) + 1] = e
        /\ \A i \in 1..Len(q) : Append(q, e)[i] = q[i]
    BY <2>1, AppendProperties
  <2>3. 1..(Len(q) + 1) = 1..Len(q) \cup {Len(q) + 1}
    BY <2>1
  <2> HIDE <2>1
  <2> QED
    BY <2>1, <2>2, <2>3 DEF Range
<1>3. ASSUME NEW q \in Seq(Events) PROVE Range(q) \subseteq Events /\ (q # <<>> => Range(q) # {})
  <2>1. Len(q) \in Nat /\ DOMAIN q = 1..Len(q) /\ \A i \in DOMAIN q : q[i] \in Events
    BY LenProperties, ElementOfSeq
  <2>2. q # <<>> => Len(q) # 0
    BY EmptySeq
  <2> QED
    BY <2>1, <2>2 DEF Range
<1> QED
  BY <1>1, <1>2, <1>3

LEMMA EmptyBatchFacts ==
  ASSUME NEW time \in Int
  PROVE  /\ EmptyBatch(time) \in BatchType
         /\ EmptyBatch(time).events = <<>> /\ EmptyBatch(time).created = time
  BY DEF EmptyBatch, BatchType

LEMMA WithEvents ==
  ASSUME NEW b \in BatchType, NEW q \in Seq(Events)
  PROVE  /\ [b EXCEPT !.events = q] \in BatchType
         /\ [b EXCEPT !.events = q].events = q /\ [b EXCEPT !.events = q].created = b.created
  BY DEF BatchType

LEMMA AddedFacts ==
  ASSUME NEW b \in BatchType, NEW e \in Events, LogOf(e).stamp \in Nat, SizeOf(LogOf(e)) \in Nat
  PROVE  /\ Added(b, e) \in BatchType
         /\ Added(b, e).events = Append(b.events, e) /\ Added(b, e).created = b.created
         /\ Added(b, e).byteTotal = b.byteTotal + SizeOf(LogOf(e))
         /\ Added(b, e).minStamp = IF b.minStamp = 0 \/ LogOf(e).stamp < b.minStamp THEN LogOf(e).stamp ELSE b.minStamp
         /\ Added(b, e).maxStamp = IF LogOf(e).stamp > b.maxStamp THEN LogOf(e).stamp ELSE b.maxStamp
<1>1. Append(b.events, e) \in Seq(Events)
  BY ListFacts DEF BatchType
<1> DEFINE s == LogOf(e).stamp
           u == b.byteTotal + SizeOf(LogOf(e))
           v == IF b.minStamp = 0 \/ s < b.minStamp THEN s ELSE b.minStamp
           w == IF s > b.maxStamp THEN s ELSE b.maxStamp
           l == Append(b.events, e)
           a == [b EXCEPT !.events = l, !.byteTotal = u, !.minStamp = v, !.maxStamp = w]
<1>2. u \in Nat /\ v \in Nat /\ w \in Nat
  BY DEF BatchType
<1>3. Added(b, e) = a
  BY DEF Added
<1> HIDE DEF l, u, v, w
<1>4. /\ a \in BatchType /\ a.events = l /\ a.created = b.created
      /\ a.byteTotal = u /\ a.minStamp = v /\ a.maxStamp = w
  BY <1>1, <1>2 DEF BatchType, l
<1> HIDE DEF a
<1> QED
  BY <1>3, <1>4 DEF l, u, v, w

LEMMA LogFacts ==
  ASSUME TInv, NEW e \in Events, fate[e] # "new"
  PROVE  LogOf(e).stamp \in Nat /\ SizeOf(LogOf(e)) \in Nat /\ SizeOf(LogOf(e)) <= MaxBytes
<1> DEFINE d == info[e][1]
           l == info[e][2]
<1>1. d \in DOMAIN Data /\ l \in DOMAIN LogsOf[d]
  BY DEF TInv, EventInv, EventType, Events
<1>2. LogsOf[d][l] \in Range(LogsOf[d])
  BY <1>1 DEF Range
<1>3. LogOf(e).stamp \in Nat /\ SizeOf(LogOf(e)) \in 1..MaxBytes
  BY <1>1, <1>2, LogsAssumption, Zenon DEF LogOf
<1> QED
  BY <1>3, LimitsAssumption

(* The list of a batch or of a request, and its sorted copy.               *)
LEMMA SortedEvents ==
  ASSUME TInv, NEW q \in Seq(Events), \A e \in Range(q) : fate[e] = "accepted"
  PROVE  /\ Sorted(q) \in Seq(Events) /\ Range(Sorted(q)) = Range(q)
         /\ Injective(q) => Injective(Sorted(q))
         /\ \A i, j \in DOMAIN q : i < j => LogOf(Sorted(q)[i]).stamp <= LogOf(Sorted(q)[j]).stamp
         /\ DOMAIN Sorted(q) = DOMAIN q /\ Len(Sorted(q)) = Len(q)
<1>1. \A i \in DOMAIN q : LogOf(q[i]).stamp \in Nat
  <2>1. \A i \in DOMAIN q : q[i] \in Range(q) /\ q[i] \in Events
    BY ElementOfSeq DEF Range
  <2> QED
    BY <2>1, LogFacts
<1> QED
  BY <1>1, SortedFacts

LEMMA HeapFacts ==
  ASSUME TInv
  PROVE  /\ \A b \in Batches : /\ heap[b] \in BatchType /\ heap[b].events \in Seq(Events)
                               /\ \A e \in Range(heap[b].events) : fate[e] = "accepted"
         /\ \A t \in Threads : /\ copy[t] \in Seq(Events)
                               /\ \A e \in Range(copy[t]) : fate[e] = "accepted"
         /\ \A t \in Threads : Inside(t) => cur[t] \in Batches
  BY DEF TInv, ClientType, CallerType, EventInv, PlaceInv, BatchType

(* What a request holds was taken by add_event.                            *)
LEMMA RequestFacts ==
  ASSUME TInv, NEW t \in Threads, Inside(t)
  PROVE  Request(t) \in Seq(Events) /\ \A e \in Range(Request(t)) : fate[e] = "accepted"
  BY HeapFacts DEF Request

(* Whoever adds an event holds the export lock and the event.              *)
LEMMA AddFacts ==
  ASSUME TInv, NEW t \in Threads, AddEvent(t)
  PROVE  /\ Sending(t) /\ exportLock = t
         /\ cur[t] \in Batches /\ hand[t] \in Events /\ fate[hand[t]] = "held"
<1>1. Sending(t)
  BY DEF AddEvent, TInv, PlaceInv, Inside, Sending
<1>2. exportLock = t /\ cur[t] # None /\ hand[t] # None
  BY <1>1 DEF TInv, PlaceInv, Sending
<1>3. hand[t] \in Events /\ cur[t] \in Batches
  BY <1>2 DEF TInv, CallerType
<1> QED
  BY <1>1, <1>2, <1>3 DEF TInv, EventInv

(* The service stores the events of a request, each as often as it is in.  *)
LEMMA StoredFacts ==
  ASSUME TInv, NEW q \in Seq(Events), Stored(q)
  PROVE  /\ stored' \in [Events -> Nat]
         /\ \A e \in Events : /\ stored'[e] >= stored[e]
                              /\ e \in Range(q) => stored'[e] > 0
                              /\ e \notin Range(q) => stored'[e] = stored[e]
                              /\ Injective(q) => stored'[e] <= stored[e] + 1
<1> DEFINE In(e) == { i \in DOMAIN q : q[i] = e }
<1>1. IsFiniteSet(DOMAIN q)
  <2>1. DOMAIN q = 1..Len(q) /\ Len(q) \in Nat
    BY LenProperties
  <2>2. \A n \in Nat : IsFiniteSet(1..n)
    BY FS_Interval
  <2> QED
    BY <2>1, <2>2, Zenon
<1>2. ASSUME NEW e \in Events
      PROVE  /\ Cardinality(In(e)) \in Nat
             /\ e \in Range(q) <=> Cardinality(In(e)) # 0
             /\ Injective(q) => Cardinality(In(e)) <= 1
  <2>1. IsFiniteSet(In(e))
    BY <1>1, FS_Subset
  <2>2. Cardinality(In(e)) \in Nat
    BY <2>1, FS_CardinalityType
  <2>3. In(e) = {} <=> Cardinality(In(e)) = 0
    BY <2>1, FS_EmptySet
  <2>4. e \in Range(q) <=> In(e) # {}
    BY DEF Range
  <2>5. ASSUME Injective(q), In(e) # {} PROVE Cardinality(In(e)) = 1
    <3>1. \E i : In(e) = {i}
      BY <2>5 DEF Injective
    <3> QED
      BY <2>1, <3>1, FS_Singleton
  <2> QED
    BY <2>2, <2>3, <2>4, <2>5
<1>3. \A e \in Events : stored[e] \in Nat
  BY DEF TInv, EventType
<1>4. stored' = [e \in Events |-> stored[e] + Cardinality(In(e))]
  BY DEF Stored
<1> HIDE DEF In
<1>5. stored' \in [Events -> Nat]
  BY <1>2, <1>3, <1>4
<1>6. ASSUME NEW e \in Events
      PROVE  /\ stored'[e] >= stored[e]
             /\ e \in Range(q) => stored'[e] > 0
             /\ e \notin Range(q) => stored'[e] = stored[e]
             /\ Injective(q) => stored'[e] <= stored[e] + 1
  BY <1>2, <1>3, <1>4
<1> QED
  BY <1>5, <1>6

-----------------------------------------------------------------------------
(* Every step keeps the types.                                             *)

LEMMA ClientStep == TInv /\ [Next]_vars => ClientType'
<1> SUFFICES ASSUME TInv, [Next]_vars PROVE ClientType'
  OBVIOUS
<1> DEFINE Fine(b) == b \in BatchType /\ b.created \in Start..now
<1>a. /\ now \in Start..Horizon /\ now \in Int /\ batch \in Batches \cup {None}
      /\ heap \in [Batches -> BatchType] /\ \A b \in Batches : Fine(heap[b])
  BY LimitsAssumption DEF TInv, ClientType
<1>b. Fine(EmptyBatch(now))
  BY <1>a, EmptyBatchFacts, LimitsAssumption
<1>c. Fresh \in Batches
  BY FreshFree DEF TInv, CallerType
<1>d. ASSUME UNCHANGED <<now, client>> PROVE ClientType'
  BY <1>d, <1>a DEF client, ClientType
<1>e. ASSUME UNCHANGED <<now, batch>>, NEW b \in Batches, NEW x,
             heap' = [heap EXCEPT ![b] = x], Fine(x)
      PROVE  ClientType'
  BY <1>e, <1>a DEF ClientType
<1>f. ASSUME now' = now, batch' = Fresh, heap' = [heap EXCEPT ![Fresh] = EmptyBatch(now)]
      PROVE  ClientType'
  BY <1>a, <1>b, <1>c, <1>f DEF ClientType
<1>1. CASE Tick
  BY <1>1, <1>a, LimitsAssumption DEF Tick, client, ClientType
<1>2. CASE Vanish
  BY <1>2, <1>d DEF Vanish
<1>3. ASSUME NEW t \in Threads, Call(t) PROVE ClientType'
  <2>1. CASE SendEvent(t)
    BY <2>1, <1>d, <1>f DEF SendEvent
  <2>2. CASE AddEvent(t)
    <3>1. cur[t] \in Batches /\ hand[t] \in Events /\ fate[hand[t]] = "held"
      BY <2>2, AddFacts
    <3>2. LogOf(hand[t]).stamp \in Nat /\ SizeOf(LogOf(hand[t])) \in Nat
      <4>1. fate[hand[t]] # "new"
        BY <3>1
      <4> QED
        BY <3>1, <4>1, LogFacts, Zenon
    <3>3. Fine(Added(heap[cur[t]], hand[t]))
      <4>1. heap[cur[t]] \in BatchType /\ heap[cur[t]].created \in Start..now
        BY <1>a, <3>1
      <4> QED
        BY <3>1, <3>2, <4>1, AddedFacts, Zenon
    <3>4. heap' = [heap EXCEPT ![cur[t]] = Added(heap[cur[t]], hand[t])] /\ UNCHANGED <<now, batch>>
      BY <2>2 DEF AddEvent
    <3> QED
      BY <1>e, <3>1, <3>3, <3>4
  <2>3. CASE StoreSorted(t)
    <3>1. cur[t] \in Batches /\ copy[t] \in Seq(Events)
      BY <2>3, HeapFacts DEF StoreSorted, Inside
    <3>2. Fine([heap[cur[t]] EXCEPT !.events = copy[t]])
      BY <1>a, <3>1, WithEvents
    <3>3. heap' = [heap EXCEPT ![cur[t]] = [heap[cur[t]] EXCEPT !.events = copy[t]]] /\ UNCHANGED <<now, batch>>
      BY <2>3 DEF StoreSorted
    <3> QED
      BY <1>e, <3>1, <3>2, <3>3
  <2>4. CASE Renew(t)
    BY <2>4, <1>f DEF Renew
  <2>5. CASE UNCHANGED <<now, client>>
    BY <2>5, <1>d
  <2> QED
    BY <1>3, <2>1, <2>2, <2>3, <2>4, <2>5
       DEF Call, BeginExport, EndExport, BeginFlush, SendInvalid, Sort, PutOk, PutNotFound, Create, Raise
<1>4. CASE UNCHANGED vars
  BY <1>4, <1>d DEF vars
<1> QED
  BY <1>1, <1>2, <1>3, <1>4 DEF Next

(* There is an event for the next log of an export.                        *)
LEMMA TakeFacts ==
  ASSUME TInv, NEW t \in Threads, TakeLog(t)
  PROVE  /\ exportLock = t /\ pc[t] = "export"
         /\ data[t] \in DOMAIN Data /\ next[t] \in DOMAIN LogsOf[data[t]] /\ next[t] \in Nat
         /\ used \in Nat /\ used + 1 \in Events /\ used' = used + 1
         /\ fate[used + 1] = "new" /\ stored[used + 1] = 0
         /\ \A e \in Events : e <= used + 1 <=> e <= used \/ e = used + 1
<1>1. exportLock = t /\ pc[t] = "export"
  BY DEF TakeLog, TInv, PlaceInv
<1>2. /\ data[t] \in DOMAIN Data /\ next[t] \in 1..(Len(LogsOf[data[t]]) + 1)
      /\ used + Len(LogsOf[data[t]]) + 1 - next[t] <= MaxLogs
  BY <1>1 DEF TInv, RoomInv
<1>3. Len(LogsOf[data[t]]) \in Nat /\ DOMAIN LogsOf[data[t]] = 1..Len(LogsOf[data[t]])
  <2>1. LogsOf[data[t]] \in Seq(Range(LogsOf[data[t]]))
    BY <1>2, LogsAssumption
  <2> QED
    BY <2>1, LenProperties
<1>4. next[t] \in Nat /\ next[t] <= Len(LogsOf[data[t]])
  BY <1>2, <1>3 DEF TakeLog
<1>5. used \in Nat /\ used + 1 <= MaxLogs /\ MaxLogs \in Nat
  BY SMTT(30), <1>2, <1>3, <1>4, LimitsAssumption DEF TInv, EventType
<1>6. used + 1 \in Events
  BY <1>5 DEF Events
<1>7. fate[used + 1] = "new"
  BY <1>5, <1>6 DEF TInv, EventInv
<1>8. stored[used + 1] = 0
  BY <1>6, <1>7 DEF TInv, EventInv, EventType
<1>9. \A e \in Events : e <= used + 1 <=> e <= used \/ e = used + 1
  BY <1>5 DEF Events
<1> QED
  BY <1>1, <1>2, <1>3, <1>4, <1>5, <1>6, <1>7, <1>8, <1>9 DEF TakeLog

LEMMA CallerStep == TInv /\ [Next]_vars => CallerType'
<1> SUFFICES ASSUME TInv, [Next]_vars PROVE CallerType'
  OBVIOUS
<1>a. CallerType
  BY DEF TInv
<1>b. Fresh \in Batches /\ <<>> \in Seq(Events) /\ 1 \in Nat
  BY <1>a, FreshFree, ListFacts DEF CallerType
<1>c. ASSUME UNCHANGED <<exportLock, pc, op, cur, hand, copy, data, next>> PROVE CallerType'
  BY <1>a, <1>c DEF CallerType
<1>d. CASE UNCHANGED callers
  BY <1>c, <1>d DEF callers, exports
<1>1. ASSUME NEW t \in Threads, Call(t) PROVE CallerType'
  <2>1. CASE BeginExport(t)
    BY <2>1, <1>a DEF BeginExport, Go, CallerType, Places
  <2>2. CASE EndExport(t)
    BY <2>2, <1>a DEF EndExport, ExportNothing, Go, CallerType, Places
  <2>3. CASE BeginFlush(t)
    <3>1. batch \in Batches
      BY <2>3 DEF BeginFlush, TInv, ClientType
    <3> QED
      BY <2>3, <3>1, <1>a DEF BeginFlush, Go, exports, CallerType, Places
  <2>4. CASE SendInvalid(t)
    BY <2>4, <1>a DEF SendInvalid, TakeLog, CallerType
  <2>5. CASE SendEvent(t)
    <3>1. used' \in Events /\ next[t] \in Nat
      BY <2>5, TakeFacts DEF SendEvent
    <3>2. batch' \in Batches
      BY <2>5, <1>b DEF SendEvent, client, TInv, ClientType
    <3>3. next' \in [Threads -> Nat] /\ data' = data
      BY <2>5, <3>1, <1>a DEF SendEvent, TakeLog, CallerType
    <3>4. pc' \in [Threads -> Places]
      BY <2>5, <1>a DEF SendEvent, Go, CallerType, Places
    <3>5. /\ exportLock' = exportLock /\ copy' = copy /\ op' = [op EXCEPT ![t] = "send"]
          /\ cur' = [cur EXCEPT ![t] = batch'] /\ hand' = [hand EXCEPT ![t] = used']
      BY <2>5 DEF SendEvent
    <3> QED
      BY <3>1, <3>2, <3>3, <3>4, <3>5, <1>a DEF CallerType
  <2>6. CASE AddEvent(t)
    BY <2>6, <1>a, <1>b DEF AddEvent, Leave, Go, exports, CallerType, Places
  <2>7. CASE Sort(t)
    <3>1. CASE heap[cur[t]].events = <<>>
      BY <2>7, <3>1, <1>a DEF Sort, Go, exports, CallerType, Places
    <3>2. CASE heap[cur[t]].events # <<>>
      <4>1. Sorted(heap[cur[t]].events) \in Seq(Events)
        BY <2>7, HeapFacts, SortedEvents DEF Sort, Inside
      <4> QED
        BY <2>7, <3>2, <4>1, <1>a DEF Sort, Go, exports, CallerType, Places
    <3> QED
      BY <3>1, <3>2
  <2>8. CASE StoreSorted(t)
    <3>1. copy' \in [Threads -> Seq(Events)]
      <4>1. ASSUME NEW u \in Threads PROVE copy'[u] \in Seq(Events)
        <5>1. CASE u # t /\ cur[u] = cur[t] /\ pc[u] \in {"put", "create", "retry"}
          <6>1. Request(u) \in Seq(Events)
            BY <5>1, RequestFacts DEF Inside
          <6> QED
            BY <2>8, <5>1, <6>1 DEF StoreSorted
        <5>2. CASE ~(u # t /\ cur[u] = cur[t] /\ pc[u] \in {"put", "create", "retry"})
          BY <2>8, <5>2, <1>a, <1>b DEF StoreSorted, CallerType
        <5> QED
          BY <5>1, <5>2
      <4> QED
        BY <2>8, <4>1 DEF StoreSorted
    <3> QED
      BY <2>8, <3>1, <1>a DEF StoreSorted, Go, exports, CallerType, Places
  <2>9. CASE PutOk(t)
    BY <2>9, <1>a, <1>b DEF PutOk, Go, exports, CallerType, Places
  <2>10. CASE PutNotFound(t) \/ Create(t)
    BY <2>10, <1>a DEF PutNotFound, Create, Go, exports, CallerType, Places
  <2>11. CASE Raise(t)
    <3>1. /\ exportLock' \in Threads \cup {Free}
          /\ data' \in [Threads -> DOMAIN Data \cup {None}] /\ next' \in [Threads -> Nat]
      <4>1. CASE op[t] = "send"
        <5>1. exportLock' = Free /\ data' = [data EXCEPT ![t] = None] /\ next' = [next EXCEPT ![t] = 1]
          BY <2>11, <4>1 DEF Raise, ExportNothing
        <5> QED
          BY <5>1, <1>a DEF CallerType
      <4>2. CASE op[t] # "send"
        BY <2>11, <4>2, <1>a DEF Raise, exports, CallerType
      <4> QED
        BY <4>1, <4>2
    <3>2. /\ pc' = [pc EXCEPT ![t] = "out"] /\ copy' = [copy EXCEPT ![t] = <<>>]
          /\ cur' = [cur EXCEPT ![t] = None] /\ hand' = [hand EXCEPT ![t] = None] /\ op' = op
      BY <2>11 DEF Raise, Leave, Go
    <3> QED
      BY <3>1, <3>2, <1>a, <1>b DEF CallerType, Places
  <2>12. CASE Renew(t)
    <3>1. UNCHANGED <<exportLock, op, data, next>>
      BY <2>12 DEF Renew, exports
    <3>2. CASE op[t] = "send"
      <4>1. /\ pc' = [pc EXCEPT ![t] = "add"] /\ cur' = [cur EXCEPT ![t] = Fresh]
            /\ UNCHANGED <<hand, copy>>
        BY <2>12, <3>2 DEF Renew, Go
      <4> QED
        BY <3>1, <4>1, <1>a, <1>b DEF CallerType, Places
    <3>3. CASE op[t] # "send"
      <4>1. /\ pc' = [pc EXCEPT ![t] = "out"] /\ copy' = [copy EXCEPT ![t] = <<>>]
            /\ cur' = [cur EXCEPT ![t] = None] /\ hand' = [hand EXCEPT ![t] = None]
        BY <2>12, <3>3 DEF Renew, Leave, Go
      <4> QED
        BY <3>1, <4>1, <1>a, <1>b DEF CallerType, Places
    <3> QED
      BY <3>2, <3>3
  <2> QED
    BY <1>1, <2>1, <2>2, <2>3, <2>4, <2>5, <2>6, <2>7, <2>8, <2>9, <2>10, <2>11, <2>12 DEF Call
<1> QED
  BY <1>1, <1>d DEF Next, Tick, Vanish, vars

LEMMA EventTypeStep == TInv /\ [Next]_vars => EventType'
<1> SUFFICES ASSUME TInv, [Next]_vars PROVE EventType'
  OBVIOUS
<1>a. EventType
  BY DEF TInv
<1>b. ASSUME UNCHANGED <<exists, stored, used, info, fate, due, overlap, doubts>> PROVE EventType'
  BY <1>a, <1>b DEF EventType
<1>c. ASSUME UNCHANGED history, exists' \in BOOLEAN, stored' \in [Events -> Nat] PROVE EventType'
  BY <1>a, <1>c DEF history, EventType
<1>d. exists \in BOOLEAN /\ stored \in [Events -> Nat]
  BY <1>a DEF EventType
<1>1. ASSUME NEW t \in Threads, Call(t) PROVE EventType'
  <2>1. CASE BeginExport(t) \/ EndExport(t)
    BY <2>1, <1>b DEF BeginExport, EndExport, service, history
  <2>2. CASE BeginFlush(t)
    <3>1. heap[batch].events \in Seq(Events)
      BY <2>2, HeapFacts DEF BeginFlush, TInv, ClientType
    <3>2. Range(heap[batch].events) \subseteq Events
      BY <3>1, ListFacts
    <3>3. due' \in [Threads -> SUBSET Events] /\ overlap' \in BOOLEAN
      BY <2>2, <3>2, <1>a DEF BeginFlush, Enter, EventType
    <3> QED
      BY <2>2, <3>3, <1>a DEF BeginFlush, service, EventType
  <2>3. CASE SendInvalid(t) \/ SendEvent(t)
    <3>1. TakeLog(t)
      BY <2>3 DEF SendInvalid, SendEvent
    <3>2. used' \in 0..MaxLogs /\ used' \in Events
      BY <3>1, TakeFacts DEF Events
    <3>3. info' \in [Events -> (DOMAIN Data \cup {None}) \X Nat]
      BY <3>1, <1>a, TakeFacts DEF TakeLog, EventType
    <3>4. fate' \in [Events -> Fates]
      BY <2>3, <1>a DEF SendInvalid, SendEvent, EventType, Fates
    <3>5. overlap' \in BOOLEAN
      BY <2>3, <1>a DEF SendInvalid, SendEvent, Enter, EventType
    <3>6. UNCHANGED <<exists, stored, due, doubts>>
      BY <2>3 DEF SendInvalid, SendEvent, service
    <3> QED
      BY <3>2, <3>3, <3>4, <3>5, <3>6, <1>a DEF EventType
  <2>4. CASE AddEvent(t)
    <3>1. fate' \in [Events -> Fates] /\ due' \in [Threads -> SUBSET Events]
      BY <2>4, <1>a DEF AddEvent, Leave, EventType, Fates
    <3> QED
      BY <2>4, <3>1, <1>a DEF AddEvent, service, EventType
  <2>5. CASE Sort(t) \/ StoreSorted(t) \/ PutNotFound(t)
    BY <2>5, <1>c, <1>d DEF Sort, StoreSorted, PutNotFound, service
  <2>6. CASE PutOk(t)
    <3>1. stored' \in [Events -> Nat]
      BY <2>6, RequestFacts, StoredFacts DEF PutOk, Inside
    <3> QED
      BY <2>6, <3>1, <1>c, <1>d DEF PutOk
  <2>7. CASE Create(t)
    BY <2>7, <1>c, <1>d DEF Create
  <2>8. CASE Raise(t)
    <3>1. stored' \in [Events -> Nat] /\ doubts' \in Nat
      <4>1. CASE UNCHANGED <<stored, doubts>>
        BY <4>1, <1>a DEF EventType
      <4>2. CASE doubts' = doubts + 1 /\ Stored(Request(t))
        <5>1. stored' \in [Events -> Nat]
          BY <2>8, <4>2, RequestFacts, StoredFacts DEF Raise, Inside
        <5> QED
          BY <4>2, <5>1, <1>a DEF EventType
      <4> QED
        BY <2>8, <4>1, <4>2 DEF Raise
    <3>2. fate' \in [Events -> Fates] /\ due' \in [Threads -> SUBSET Events]
      <4>1. due' = [due EXCEPT ![t] = {}] /\ (fate' = fate \/ fate' = [fate EXCEPT ![hand[t]] = "failed"])
        BY <2>8 DEF Raise, Leave
      <4> QED
        BY <4>1, <1>a DEF EventType, Fates
    <3> QED
      BY <2>8, <3>1, <3>2, <1>a DEF Raise, EventType
  <2>9. CASE Renew(t)
    <3>1. due' \in [Threads -> SUBSET Events]
      BY <2>9, <1>a DEF Renew, Leave, EventType
    <3> QED
      BY <2>9, <3>1, <1>a DEF Renew, service, EventType
  <2> QED
    BY <1>1, <2>1, <2>2, <2>3, <2>4, <2>5, <2>6, <2>7, <2>8, <2>9 DEF Call
<1>2. CASE Tick \/ UNCHANGED vars
  BY <1>2, <1>b DEF Tick, vars, service, history
<1>3. CASE Vanish
  BY <1>3, <1>a DEF Vanish, EventType
<1> QED
  BY <1>1, <1>2, <1>3 DEF Next

LEMMA PlaceStep == TInv /\ [Next]_vars => PlaceInv'
<1> SUFFICES ASSUME TInv, [Next]_vars PROVE PlaceInv'
  OBVIOUS
<1>a. PlaceInv /\ CallerType /\ batch \in Batches \cup {None}
  BY DEF TInv, ClientType
<1>b. Fresh \in Batches
  BY FreshFree DEF TInv, CallerType
<1>c. CASE UNCHANGED <<client, callers>>
  BY <1>c, <1>a DEF client, callers, PlaceInv, Inside, Sending
<1>1. ASSUME NEW t \in Threads, Call(t) PROVE PlaceInv'
  <2> DEFINE At(u) ==
               /\ Inside(u) <=> cur[u] # None
               /\ exportLock = u <=> pc[u] = "export" \/ Sending(u)
               /\ hand[u] # None <=> Sending(u)
               /\ pc[u] = "add" => op[u] = "send"
               /\ Inside(u) => batch # None
               /\ Inside(u) /\ op[u] = "flush" => u \in Flushers
  <2>a. \A u \in Threads : At(u)
    BY <1>a DEF PlaceInv
  <2>b. SUFFICES ASSUME NEW u \in Threads PROVE At(u)'
    BY DEF PlaceInv
  <2>c. ASSUME UNCHANGED <<exportLock, op, cur, hand, batch>>,
               pc' = pc \/ \E p \in Places : /\ pc' = [pc EXCEPT ![t] = p]
                                             /\ Inside(t) /\ p \notin {"out", "export", "add"}
        PROVE  At(u)'
    BY <1>a, <2>a, <2>c DEF CallerType, Inside, Sending, Places
  <2> USE NoneFacts, ThreadsAssumption
  <2>1. CASE BeginExport(t)
    BY <2>1, <1>a, <2>a DEF BeginExport, Go, client, CallerType, Inside, Sending
  <2>2. CASE EndExport(t)
    BY <2>2, <1>a, <2>a DEF EndExport, Go, client, CallerType, Inside, Sending
  <2>3. CASE BeginFlush(t)
    BY <2>3, <1>a, <2>a DEF BeginFlush, Go, client, CallerType, Inside, Sending
  <2>4. CASE SendInvalid(t)
    <3>1. UNCHANGED <<exportLock, op, cur, hand, batch>> /\ pc' = pc
      BY <2>4 DEF SendInvalid, client
    <3> QED
      BY <3>1, <2>c
  <2>5. CASE SendEvent(t)
    <3>1. used' \in Events /\ pc[t] = "export" /\ exportLock = t
      BY <2>5, TakeFacts DEF SendEvent
    <3>2. batch' \in Batches /\ (batch # None => batch' = batch)
      BY <2>5, <1>a, <1>b DEF SendEvent, client
    <3>3. /\ exportLock' = exportLock
          /\ op' = [op EXCEPT ![t] = "send"]
          /\ cur' = [cur EXCEPT ![t] = batch'] /\ hand' = [hand EXCEPT ![t] = used']
          /\ \E p \in {"sort", "add"} : pc' = [pc EXCEPT ![t] = p]
      BY <2>5 DEF SendEvent, Go
    <3> QED
      BY <3>1, <3>2, <3>3, <1>a, <2>a DEF CallerType, Inside, Sending
  <2>6. CASE AddEvent(t)
    <3>1. exportLock = t /\ op[t] = "send"
      BY <2>6, AddFacts DEF Sending
    <3> QED
      BY <2>6, <3>1, <1>a, <2>a DEF AddEvent, Leave, Go, CallerType, Inside, Sending
  <2>7. CASE Sort(t)
    <3>1. \E p \in Places : pc' = [pc EXCEPT ![t] = p] /\ Inside(t) /\ p \notin {"out", "export", "add"}
      BY <2>7 DEF Sort, Go, Inside, Places
    <3>2. UNCHANGED <<exportLock, op, cur, hand, batch>>
      BY <2>7 DEF Sort, client
    <3> QED
      BY <3>1, <3>2, <2>c
  <2>8. CASE StoreSorted(t) \/ PutOk(t) \/ PutNotFound(t) \/ Create(t)
    <3>1. \E p \in Places : pc' = [pc EXCEPT ![t] = p] /\ Inside(t) /\ p \notin {"out", "export", "add"}
      BY <2>8 DEF StoreSorted, PutOk, PutNotFound, Create, Go, Inside, Places
    <3>2. UNCHANGED <<exportLock, op, cur, hand, batch>>
      BY <2>8 DEF StoreSorted, PutOk, PutNotFound, Create, client
    <3> QED
      BY <3>1, <3>2, <2>c
  <2>9. CASE Raise(t)
    <3>1. /\ pc' = [pc EXCEPT ![t] = "out"] /\ cur' = [cur EXCEPT ![t] = None]
          /\ hand' = [hand EXCEPT ![t] = None] /\ op' = op /\ batch' = batch
          /\ Inside(t)
      BY <2>9 DEF Raise, Leave, Go, client, Inside
    <3>2. IF op[t] = "send" THEN exportLock' = Free ELSE exportLock' = exportLock
      BY <2>9 DEF Raise
    <3> QED
      BY <3>1, <3>2, <1>a, <2>a DEF CallerType, Inside, Sending
  <2>10. CASE Renew(t)
    <3>1. exportLock' = exportLock /\ op' = op /\ batch' = Fresh /\ pc[t] = "renew"
      BY <2>10 DEF Renew
    <3>2. CASE op[t] = "send"
      <4>1. pc' = [pc EXCEPT ![t] = "add"] /\ cur' = [cur EXCEPT ![t] = Fresh] /\ hand' = hand
        BY <2>10, <3>2 DEF Renew, Go
      <4> QED
        BY <3>1, <3>2, <4>1, <1>a, <1>b, <2>a DEF CallerType, Inside, Sending
    <3>3. CASE op[t] # "send"
      <4>1. pc' = [pc EXCEPT ![t] = "out"] /\ cur' = [cur EXCEPT ![t] = None] /\ hand' = [hand EXCEPT ![t] = None]
        BY <2>10, <3>3 DEF Renew, Leave, Go
      <4> QED
        BY <3>1, <3>3, <4>1, <1>a, <1>b, <2>a DEF CallerType, Inside, Sending
    <3> QED
      BY <3>2, <3>3
  <2> QED
    BY <1>1, <2>1, <2>2, <2>3, <2>4, <2>5, <2>6, <2>7, <2>8, <2>9, <2>10 DEF Call
<1> QED
  BY <1>1, <1>c DEF Next, Tick, Vanish, vars

LEMMA RoomStep == TInv /\ [Next]_vars => RoomInv'
<1> SUFFICES ASSUME TInv, [Next]_vars PROVE RoomInv'
  OBVIOUS
<1>a. RoomInv /\ CallerType /\ Free \notin Threads
  BY ThreadsAssumption DEF TInv
<1>b. ASSUME UNCHANGED <<data, next, used>>, exportLock' = exportLock PROVE RoomInv'
  BY <1>a, <1>b DEF RoomInv
<1>1. ASSUME NEW t \in Threads, Call(t) PROVE RoomInv'
  <2>1. CASE BeginExport(t)
    <3>1. PICK d \in DOMAIN Data : used + Len(LogsOf[d]) <= MaxLogs /\ data' = [data EXCEPT ![t] = d]
      BY <2>1 DEF BeginExport
    <3>2. exportLock' = t /\ next' = next /\ used' = used
      BY <2>1 DEF BeginExport, history
    <3>3. next[t] = 1
      BY <2>1, <1>a DEF BeginExport, RoomInv
    <3>4. Len(LogsOf[d]) \in Nat
      <4>1. LogsOf[d] \in Seq(Range(LogsOf[d]))
        BY LogsAssumption
      <4> QED
        BY <4>1, LenProperties
    <3>5. used \in Nat
      BY DEF TInv, EventType
    <3>6. data'[t] = d /\ \A u \in Threads \ {t} : exportLock' # u /\ next'[u] = 1
      BY <2>1, <3>1, <3>2, <1>a DEF BeginExport, RoomInv, CallerType
    <3>7. /\ next'[t] \in 1..(Len(LogsOf[d]) + 1)
          /\ used' + Len(LogsOf[d]) + 1 - next'[t] <= MaxLogs
      BY <3>1, <3>2, <3>3, <3>4, <3>5, LimitsAssumption
    <3> QED
      BY <3>1, <3>2, <3>6, <3>7 DEF RoomInv
  <2>2. CASE EndExport(t)
    <3>1. exportLock = t
      BY <2>2 DEF EndExport, TInv, PlaceInv
    <3> QED
      BY <2>2, <3>1, <1>a DEF EndExport, ExportNothing, CallerType, RoomInv
  <2>3. CASE SendInvalid(t) \/ SendEvent(t)
    <3>1. TakeLog(t) /\ exportLock' = exportLock
      BY <2>3 DEF SendInvalid, SendEvent
    <3>2. exportLock = t /\ used' = used + 1 /\ next' = [next EXCEPT ![t] = next[t] + 1] /\ data' = data
      BY <3>1, TakeFacts DEF TakeLog
    <3>3. next[t] \in DOMAIN LogsOf[data[t]] /\ data[t] \in DOMAIN Data /\ used \in Nat
      BY <3>1, TakeFacts
    <3>4. Len(LogsOf[data[t]]) \in Nat /\ next[t] \in 1..Len(LogsOf[data[t]])
      <4>1. LogsOf[data[t]] \in Seq(Range(LogsOf[data[t]]))
        BY <3>3, LogsAssumption
      <4> QED
        BY <3>3, <4>1, LenProperties
    <3>5. used + Len(LogsOf[data[t]]) + 1 - next[t] <= MaxLogs
      BY <3>2, <1>a DEF RoomInv
    <3>6. next'[t] = next[t] + 1
      BY <3>2, <1>a DEF CallerType
    <3>7. /\ next'[t] \in 1..(Len(LogsOf[data[t]]) + 1)
          /\ used' + Len(LogsOf[data[t]]) + 1 - next'[t] <= MaxLogs
      <4> DEFINE n == Len(LogsOf[data[t]])
      <4>1. MaxLogs \in Int /\ n \in Nat /\ used \in Nat /\ next[t] \in 1..n /\ used' = used + 1
        BY <3>2, <3>3, <3>4, LimitsAssumption
      <4>2. used + n + 1 - next[t] <= MaxLogs
        BY <3>5
      <4> HIDE DEF n
      <4>3. next'[t] \in 1..(n + 1) /\ used' + n + 1 - next'[t] <= MaxLogs
        BY <3>6, <4>1, <4>2
      <4> QED
        BY <4>3 DEF n
    <3>8. \A u \in Threads \ {t} : exportLock' # u /\ next'[u] = 1
      BY <3>1, <3>2, <1>a DEF RoomInv, CallerType
    <3> QED
      BY <3>1, <3>2, <3>3, <3>7, <3>8 DEF RoomInv
  <2>4. CASE Raise(t)
    <3>1. CASE op[t] = "send"
      <4>1. exportLock = t
        BY <2>4, <3>1 DEF Raise, TInv, PlaceInv, Inside, Sending
      <4>2. exportLock' = Free /\ next' = [next EXCEPT ![t] = 1]
        BY <2>4, <3>1 DEF Raise, ExportNothing
      <4> QED
        BY <4>1, <4>2, <1>a DEF CallerType, RoomInv
    <3>2. CASE op[t] # "send"
      BY <2>4, <3>2, <1>b DEF Raise, exports
    <3> QED
      BY <3>1, <3>2
  <2>5. CASE UNCHANGED <<exportLock, exports, used>>
    BY <2>5, <1>b DEF exports
  <2> QED
    BY <1>1, <2>1, <2>2, <2>3, <2>4, <2>5
       DEF Call, BeginFlush, AddEvent, Sort, StoreSorted, PutOk, PutNotFound, Create, Renew, history
<1> QED
  BY <1>1, <1>b DEF Next, Tick, Vanish, vars, callers, exports, history

(* Two threads never send the same event.                                  *)
LEMMA HandsApart ==
  ASSUME TInv, NEW t \in Threads, Sending(t)
  PROVE  hand[t] \in Events /\ \A u \in Threads \ {t} : hand[u] = None
  BY DEF TInv, PlaceInv, CallerType

(* What becomes of the events, and who holds which.                        *)
LEMMA FateStep ==
  ASSUME TInv, [Next]_vars
  PROVE  /\ \A e \in Events : e > used' <=> fate'[e] = "new"
         /\ \A e \in Events : e <= used' =>
              info'[e][1] \in DOMAIN Data /\ info'[e][2] \in DOMAIN LogsOf[info'[e][1]]
         /\ \A t \in Threads : hand'[t] # None => fate'[hand'[t]] = "held"
         /\ \A e \in Events : fate[e] = "accepted" => fate'[e] = "accepted"
<1> DEFINE Goal == /\ \A e \in Events : e > used' <=> fate'[e] = "new"
                   /\ \A e \in Events : e <= used' =>
                        info'[e][1] \in DOMAIN Data /\ info'[e][2] \in DOMAIN LogsOf[info'[e][1]]
                   /\ \A t \in Threads : hand'[t] # None => fate'[hand'[t]] = "held"
                   /\ \A e \in Events : fate[e] = "accepted" => fate'[e] = "accepted"
<1>a. /\ \A e \in Events : e > used <=> fate[e] = "new"
      /\ \A e \in Events : e <= used =>
           info[e][1] \in DOMAIN Data /\ info[e][2] \in DOMAIN LogsOf[info[e][1]]
      /\ \A t \in Threads : hand[t] # None => fate[hand[t]] = "held"
      /\ used \in Nat
  BY DEF TInv, EventInv, EventType
<1>b. /\ fate \in [Events -> Fates] /\ hand \in [Threads -> Events \cup {None}]
      /\ info \in [Events -> (DOMAIN Data \cup {None}) \X Nat] /\ None \notin Events
  BY NoneFacts DEF TInv, EventType, CallerType
<1>c. ASSUME UNCHANGED <<used, info, fate>>, \A t \in Threads : hand'[t] \in {hand[t], None} PROVE Goal
  BY <1>a, <1>c
<1>1. ASSUME NEW t \in Threads, Call(t) PROVE Goal
  <2>1. CASE BeginExport(t) \/ EndExport(t) \/ BeginFlush(t)
    BY <2>1, <1>c DEF BeginExport, EndExport, BeginFlush, history
  <2>2. CASE SendInvalid(t) \/ SendEvent(t)
    <3>1. TakeLog(t)
      BY <2>2 DEF SendInvalid, SendEvent
    <3>2. /\ used' = used + 1 /\ used + 1 \in Events /\ fate[used + 1] = "new"
          /\ info' = [info EXCEPT ![used + 1] = <<data[t], next[t]>>]
          /\ data[t] \in DOMAIN Data /\ next[t] \in DOMAIN LogsOf[data[t]]
          /\ \A e \in Events : e <= used + 1 <=> e <= used \/ e = used + 1
      BY <3>1, TakeFacts DEF TakeLog
    <3>3. PICK f \in {"invalid", "held"} :
            /\ fate' = [fate EXCEPT ![used + 1] = f]
            /\ IF f = "held" THEN hand' = [hand EXCEPT ![t] = used + 1] ELSE hand' = hand
      BY <2>2, <3>2 DEF SendInvalid, SendEvent
    <3>4. \A e \in Events : e > used + 1 <=> fate'[e] = "new"
      <4>1. \A e \in Events : e \in Int
        BY DEF Events
      <4> QED
        BY <3>2, <3>3, <4>1, <1>a, <1>b
    <3>5. \A e \in Events : e <= used + 1 =>
            info'[e][1] \in DOMAIN Data /\ info'[e][2] \in DOMAIN LogsOf[info'[e][1]]
      BY <3>2, <1>a, <1>b
    <3>6. ASSUME NEW u \in Threads, hand'[u] # None PROVE fate'[hand'[u]] = "held"
      <4>1. CASE f = "held" /\ u = t
        BY <3>2, <3>3, <4>1, <1>b
      <4>2. CASE ~(f = "held" /\ u = t)
        <5>1. hand'[u] = hand[u] /\ hand[u] \in Events /\ hand[u] # used + 1
          BY <3>2, <3>3, <3>6, <4>2, <1>a, <1>b
        <5> QED
          BY <3>3, <3>6, <5>1, <1>a, <1>b
      <4> QED
        BY <4>1, <4>2
    <3>7. \A e \in Events : fate[e] = "accepted" => fate'[e] = "accepted"
      BY <3>2, <3>3, <1>b
    <3> QED
      BY <3>2, <3>4, <3>5, <3>6, <3>7
  <2>3. CASE AddEvent(t) \/ Raise(t)
    <3>1. UNCHANGED <<used, info>> /\ hand' = [hand EXCEPT ![t] = None]
      BY <2>3 DEF AddEvent, Raise, Leave
    <3>2. CASE Sending(t)
      <4>1. hand[t] \in Events /\ fate[hand[t]] = "held" /\ \A u \in Threads \ {t} : hand[u] = None
        <5>1. hand[t] \in Events /\ \A u \in Threads \ {t} : hand[u] = None
          BY <3>2, HandsApart
        <5> QED
          BY <5>1, <1>a, <1>b
      <4>2. PICK f \in {"accepted", "failed"} : fate' = [fate EXCEPT ![hand[t]] = f]
        BY <2>3, <3>2 DEF AddEvent, Raise, Sending
      <4>3. \A e \in Events : fate'[e] = IF e = hand[t] THEN f ELSE fate[e]
        BY <4>1, <4>2, <1>b
      <4>4. \A u \in Threads : hand'[u] = None
        BY <3>1, <4>1, <1>b
      <4>5. \A e \in Events : (fate'[e] = "new" <=> fate[e] = "new") /\ (fate[e] = "accepted" => fate'[e] = "accepted")
        BY <4>1, <4>3
      <4> QED
        BY <3>1, <4>4, <4>5, <1>a
    <3>3. CASE ~Sending(t)
      <4>1. fate' = fate
        BY <2>3, <3>3, AddFacts DEF Raise, Sending, Inside
      <4> QED
        BY <3>1, <4>1, <1>b, <1>c
    <3> QED
      BY <3>2, <3>3
  <2>4. CASE Sort(t) \/ StoreSorted(t) \/ PutOk(t) \/ PutNotFound(t) \/ Create(t)
    BY <2>4, <1>c DEF Sort, StoreSorted, PutOk, PutNotFound, Create, history
  <2>5. CASE Renew(t)
    <3>1. UNCHANGED <<used, info, fate>> /\ (hand' = hand \/ hand' = [hand EXCEPT ![t] = None])
      BY <2>5 DEF Renew, Leave
    <3> QED
      BY <3>1, <1>b, <1>c
  <2> QED
    BY <1>1, <2>1, <2>2, <2>3, <2>4, <2>5 DEF Call
<1>2. CASE Tick \/ Vanish \/ UNCHANGED vars
  BY <1>2, <1>c DEF Tick, Vanish, vars, callers, history
<1> QED
  BY <1>1, <1>2 DEF Next

LEMMA EventStep == TInv /\ [Next]_vars => EventInv'
<1> SUFFICES ASSUME TInv, [Next]_vars PROVE EventInv'
  OBVIOUS
<1> DEFINE Taken(S) == \A e \in S : fate'[e] = "accepted"
<1>a. \A S \in SUBSET Events : (\A e \in S : fate[e] = "accepted") => Taken(S)
  BY FateStep
<1>b. /\ \A b \in Batches : heap[b].events \in Seq(Events) /\ Taken(Range(heap[b].events))
      /\ \A t \in Threads : copy[t] \in Seq(Events) /\ Taken(Range(copy[t]))
      /\ \A t \in Threads : Inside(t) => Request(t) \in Seq(Events) /\ Taken(Range(Request(t)))
  BY <1>a, HeapFacts, RequestFacts, ListFacts
<1>c. Taken(Range(<<>>)) /\ heap \in [Batches -> BatchType] /\ copy \in [Threads -> Seq(Events)]
  BY ListFacts DEF TInv, ClientType, CallerType
<1>d. Fresh \in Batches /\ EmptyBatch(now).events = <<>>
  BY FreshFree, EmptyBatchFacts, LimitsAssumption DEF TInv, CallerType, ClientType
<1>1. \A e \in Events : stored'[e] > 0 => fate'[e] = "accepted"
  <2>a. \A e \in Events : stored[e] > 0 => fate'[e] = "accepted"
    BY FateStep DEF TInv, EventInv
  <2>1. CASE stored' = stored
    BY <2>a, <2>1
  <2>2. ASSUME NEW t \in Threads, Inside(t), Stored(Request(t))
        PROVE  \A e \in Events : stored'[e] > 0 => fate'[e] = "accepted"
    <3>1. Request(t) \in Seq(Events) /\ Taken(Range(Request(t)))
      BY <1>b, <2>2
    <3>2. \A e \in Events : e \notin Range(Request(t)) => stored'[e] = stored[e]
      BY <2>2, <3>1, StoredFacts
    <3> QED
      BY <2>a, <3>1, <3>2
  <2>3. stored' = stored \/ \E t \in Threads : Inside(t) /\ Stored(Request(t))
    BY DEF Next, Call, Tick, Vanish, vars, service, BeginExport, EndExport, BeginFlush, SendInvalid, SendEvent,
           AddEvent, Sort, StoreSorted, PutOk, PutNotFound, Create, Raise, Renew, Inside
  <2> QED
    BY <2>1, <2>2, <2>3
<1>2. \A b \in Batches : Taken(Range(heap'[b].events))
  <2>1. CASE heap' = heap
    BY <1>b, <2>1
  <2>2. CASE heap' = [heap EXCEPT ![Fresh] = EmptyBatch(now)]
    BY <1>b, <1>c, <1>d, <2>2
  <2>3. ASSUME NEW t \in Threads, AddEvent(t) PROVE \A b \in Batches : Taken(Range(heap'[b].events))
    <3>1. cur[t] \in Batches /\ hand[t] \in Events /\ fate'[hand[t]] = "accepted"
      BY <2>3, AddFacts DEF AddEvent, TInv, EventType
    <3>2. heap' = [heap EXCEPT ![cur[t]] = Added(heap[cur[t]], hand[t])]
      BY <2>3 DEF AddEvent
    <3>3. Added(heap[cur[t]], hand[t]).events = Append(heap[cur[t]].events, hand[t])
      <4>1. LogOf(hand[t]).stamp \in Nat /\ SizeOf(LogOf(hand[t])) \in Nat
        <5>1. fate[hand[t]] # "new"
          BY <2>3, AddFacts
        <5> QED
          BY <3>1, <5>1, LogFacts, Zenon
      <4>2. heap[cur[t]] \in BatchType
        BY <1>c, <3>1
      <4> QED
        BY <3>1, <4>1, <4>2, AddedFacts
    <3>4. Range(Append(heap[cur[t]].events, hand[t])) = Range(heap[cur[t]].events) \cup {hand[t]}
      BY <1>b, <3>1, ListFacts
    <3>5. heap'[cur[t]].events = Append(heap[cur[t]].events, hand[t]) /\ \A b \in Batches \ {cur[t]} : heap'[b] = heap[b]
      BY <1>c, <3>1, <3>2, <3>3
    <3> QED
      BY ZenonT(60), <1>b, <3>1, <3>4, <3>5
  <2>4. ASSUME NEW t \in Threads, StoreSorted(t) PROVE \A b \in Batches : Taken(Range(heap'[b].events))
    <3>1. cur[t] \in Batches /\ copy[t] \in Seq(Events)
      BY <2>4, HeapFacts DEF StoreSorted, Inside
    <3>2. heap' = [heap EXCEPT ![cur[t]] = [heap[cur[t]] EXCEPT !.events = copy[t]]]
      BY <2>4 DEF StoreSorted
    <3>3. heap'[cur[t]].events = copy[t] /\ \A b \in Batches \ {cur[t]} : heap'[b] = heap[b]
      BY <1>c, <3>1, <3>2, WithEvents
    <3> QED
      BY <1>b, <3>3
  <2>5. \/ heap' = heap \/ heap' = [heap EXCEPT ![Fresh] = EmptyBatch(now)]
        \/ \E t \in Threads : AddEvent(t) \/ StoreSorted(t)
    BY DEF Next, Call, Tick, Vanish, vars, client, BeginExport, EndExport, BeginFlush, SendInvalid, SendEvent,
           Sort, PutOk, PutNotFound, Create, Raise, Renew
  <2> QED
    BY <2>1, <2>2, <2>3, <2>4, <2>5
<1>3. \A t \in Threads : Taken(Range(copy'[t]))
  <2>1. CASE copy' = copy
    BY <1>b, <2>1
  <2>2. ASSUME NEW t \in Threads, copy' = [copy EXCEPT ![t] = <<>>]
        PROVE  \A u \in Threads : Taken(Range(copy'[u]))
    BY <1>b, <1>c, <2>2
  <2>3. ASSUME NEW t \in Threads, Sort(t) PROVE \A u \in Threads : Taken(Range(copy'[u]))
    <3>1. CASE heap[cur[t]].events = <<>>
      BY <1>b, <2>3, <3>1 DEF Sort
    <3>2. CASE heap[cur[t]].events # <<>>
      <4>1. cur[t] \in Batches /\ copy' = [copy EXCEPT ![t] = Sorted(heap[cur[t]].events)]
        BY <2>3, <3>2, HeapFacts DEF Sort, Inside
      <4>2. Range(Sorted(heap[cur[t]].events)) = Range(heap[cur[t]].events)
        BY <4>1, HeapFacts, SortedEvents
      <4> QED
        BY <1>b, <1>c, <4>1, <4>2
    <3> QED
      BY <3>1, <3>2
  <2>4. ASSUME NEW t \in Threads, StoreSorted(t) PROVE \A u \in Threads : Taken(Range(copy'[u]))
    <3>1. ASSUME NEW u \in Threads PROVE Taken(Range(copy'[u]))
      <4>1. CASE u # t /\ cur[u] = cur[t] /\ pc[u] \in {"put", "create", "retry"}
        BY <1>b, <2>4, <4>1 DEF StoreSorted, Inside
      <4>2. CASE ~(u # t /\ cur[u] = cur[t] /\ pc[u] \in {"put", "create", "retry"})
        BY <1>b, <1>c, <2>4, <4>2 DEF StoreSorted
      <4> QED
        BY <4>1, <4>2
    <3> QED
      BY <3>1
  <2>5. \/ copy' = copy \/ \E t \in Threads : copy' = [copy EXCEPT ![t] = <<>>] \/ Sort(t) \/ StoreSorted(t)
    BY DEF Next, Call, Tick, Vanish, vars, callers, BeginExport, EndExport, BeginFlush, SendInvalid, SendEvent,
           AddEvent, PutOk, PutNotFound, Create, Raise, Renew, Leave
  <2> QED
    BY <2>1, <2>2, <2>3, <2>4, <2>5
<1> QED
  BY <1>1, <1>2, <1>3, FateStep DEF EventInv

LEMMA TInit == Init => TInv
<1> SUFFICES ASSUME Init PROVE TInv
  OBVIOUS
<1> USE NoneFacts, ListFacts
<1>1. ClientType
  <2>1. Start \in Int /\ Start \in Start..Horizon
    BY LimitsAssumption
  <2> QED
    BY <2>1, EmptyBatchFacts DEF Init, ClientType
<1>2. CallerType
  BY DEF Init, CallerType, Places
<1>3. EventType
  <2>1. <<None, None>> \in (DOMAIN Data \cup {None}) \X Nat /\ 0 \in 0..MaxLogs
    BY LimitsAssumption DEF None
  <2> QED
    BY <2>1 DEF Init, EventType, Fates
<1>4. PlaceInv
  BY ThreadsAssumption DEF Init, PlaceInv, Inside, Sending
<1>5. RoomInv
  BY ThreadsAssumption DEF Init, RoomInv
<1>6. EventInv
  <2>1. \A b \in Batches : heap[b].events = <<>>
    BY DEF Init, EmptyBatch
  <2>2. \A t \in Threads : copy[t] = <<>>
    BY DEF Init
  <2> QED
    BY <2>1, <2>2 DEF Init, EventInv, Events, Sending
<1> QED
  BY <1>1, <1>2, <1>3, <1>4, <1>5, <1>6 DEF TInv

LEMMA Inductive == Spec => []TInv
<1>1. TInv /\ [Next]_vars => TInv'
  BY ClientStep, CallerStep, EventTypeStep, PlaceStep, RoomStep, EventStep DEF TInv
<1> QED
  BY <1>1, TInit, PTL DEF Spec

(* The batches, the calls and the records of the events keep their types;  *)
(* a batch was made in the time of the exporter.                           *)
THEOREM TypeCorrect == Spec => []TypeOK
<1>1. TInv => TypeOK
  <2> SUFFICES ASSUME TInv PROVE TypeOK
    OBVIOUS
  <2>1. DOMAIN heap = Batches
    BY DEF TInv, ClientType
  <2>2. ASSUME NEW b \in Batches
        PROVE  /\ heap[b].events \in Seq(Events)
               /\ heap[b].byteTotal \in Nat
               /\ {heap[b].minStamp, heap[b].maxStamp} \subseteq Nat
               /\ heap[b].created \in Start..now
    <3>1. heap[b] \in BatchType /\ heap[b].created \in Start..now
      BY DEF TInv, ClientType
    <3> QED
      BY <3>1 DEF BatchType
  <2> QED
    BY <2>1, <2>2 DEF TInv, ClientType, CallerType, EventType, TypeOK, Places, Fates
<1> QED
  BY <1>1, Inductive, PTL

-----------------------------------------------------------------------------
(* While no two threads are in the client at once: the one that is works   *)
(* on the client's batch, its sorted copy has the events of the batch, and *)
(* before it renews the batch it has stored them.                          *)

Alone == \A t, u \in Threads : Inside(t) /\ Inside(u) => t = u
AtBatch ==
  \A t \in Threads :
    /\ Inside(t) => cur[t] = batch
    /\ IF pc[t] = "sorted" THEN Range(copy[t]) = Range(heap[batch].events) ELSE copy[t] = <<>>
    /\ pc[t] = "renew" => \A e \in Range(heap[batch].events) : stored[e] > 0
Kept == \A e \in Events : fate[e] = "accepted" => stored[e] > 0 \/ Pending(e)

AloneInv == ~overlap => Alone /\ AtBatch /\ Kept

(* A thread in the client, when it is the only one.                        *)
LEMMA AloneFacts ==
  ASSUME TInv, Alone, AtBatch, NEW t \in Threads, Inside(t)
  PROVE  /\ batch # None /\ batch \in Batches /\ cur[t] = batch
         /\ heap[batch].events \in Seq(Events)
         /\ \A u \in Threads \ {t} : ~Inside(u) /\ copy[u] = <<>>
         /\ pc[t] # "sorted" => copy[t] = <<>>
         /\ pc[t] \in {"put", "create", "retry"} => Request(t) = heap[batch].events
<1>1. batch # None /\ cur[t] = batch /\ batch \in Batches
  BY DEF TInv, PlaceInv, ClientType, AtBatch
<1>2. heap[batch].events \in Seq(Events)
  BY <1>1, HeapFacts
<1>3. \A u \in Threads \ {t} : ~Inside(u) /\ copy[u] = <<>>
  BY DEF Alone, AtBatch, Inside
<1>4. pc[t] # "sorted" => copy[t] = <<>>
  BY DEF AtBatch
<1> QED
  BY <1>1, <1>2, <1>3, <1>4 DEF Request

(* The batch with one more event.                                          *)
LEMMA AddEffect ==
  ASSUME TInv, NEW t \in Threads, AddEvent(t)
  PROVE  /\ heap'[cur[t]].events = Append(heap[cur[t]].events, hand[t])
         /\ Range(heap'[cur[t]].events) = Range(heap[cur[t]].events) \cup {hand[t]}
         /\ \A b \in Batches \ {cur[t]} : heap'[b] = heap[b]
<1>1. cur[t] \in Batches /\ hand[t] \in Events /\ fate[hand[t]] # "new"
  BY AddFacts
<1>2. heap \in [Batches -> BatchType] /\ heap[cur[t]] \in BatchType /\ heap[cur[t]].events \in Seq(Events)
  BY <1>1, HeapFacts DEF TInv, ClientType
<1>3. LogOf(hand[t]).stamp \in Nat /\ SizeOf(LogOf(hand[t])) \in Nat
  BY <1>1, LogFacts, Zenon
<1>4. Added(heap[cur[t]], hand[t]).events = Append(heap[cur[t]].events, hand[t])
  BY <1>1, <1>2, <1>3, AddedFacts
<1>5. heap' = [heap EXCEPT ![cur[t]] = Added(heap[cur[t]], hand[t])]
  BY DEF AddEvent
<1>6. /\ heap'[cur[t]].events = Append(heap[cur[t]].events, hand[t])
      /\ \A b \in Batches \ {cur[t]} : heap'[b] = heap[b]
  BY <1>1, <1>2, <1>4, <1>5
<1>7. Range(Append(heap[cur[t]].events, hand[t])) = Range(heap[cur[t]].events) \cup {hand[t]}
  BY <1>1, <1>2, ListFacts
<1> QED
  BY <1>6, <1>7

(* The batch with its events in order.                                     *)
LEMMA StoreSortedEffect ==
  ASSUME TInv, NEW t \in Threads, StoreSorted(t)
  PROVE  /\ heap'[cur[t]].events = copy[t]
         /\ \A b \in Batches \ {cur[t]} : heap'[b] = heap[b]
<1>1. cur[t] \in Batches /\ copy[t] \in Seq(Events) /\ heap \in [Batches -> BatchType]
  BY HeapFacts DEF StoreSorted, Inside, TInv, ClientType
<1>2. heap' = [heap EXCEPT ![cur[t]] = [heap[cur[t]] EXCEPT !.events = copy[t]]]
  BY DEF StoreSorted
<1> QED
  BY <1>1, <1>2, WithEvents

(* The new batch.                                                          *)
LEMMA FreshEffect ==
  ASSUME TInv, heap' = [heap EXCEPT ![Fresh] = EmptyBatch(now)]
  PROVE  /\ Fresh \in Batches /\ Fresh # batch /\ \A t \in Threads : cur[t] # Fresh
         /\ heap'[Fresh].events = <<>> /\ \A b \in Batches \ {Fresh} : heap'[b] = heap[b]
<1>1. Fresh \in Batches /\ Fresh # batch /\ \A t \in Threads : cur[t] # Fresh
  BY FreshFree DEF TInv, CallerType
<1>2. EmptyBatch(now).events = <<>>
  BY EmptyBatchFacts, LimitsAssumption DEF TInv, ClientType
<1> QED
  BY <1>1, <1>2 DEF TInv, ClientType

LEMMA StillAlone ==
  ASSUME TInv, [Next]_vars
  PROVE  (~overlap' => ~overlap) /\ (doubts' = 0 => doubts = 0)
<1>1. overlap \in BOOLEAN /\ doubts \in Nat
  BY DEF TInv, EventType
<1>2. overlap' = overlap \/ \E t \in Threads : Enter(t)
  BY DEF Next, Call, Tick, Vanish, vars, history, BeginExport, EndExport, BeginFlush, SendInvalid, SendEvent,
         AddEvent, Sort, StoreSorted, PutOk, PutNotFound, Create, Raise, Renew
<1>3. doubts' = doubts \/ doubts' = doubts + 1
  BY DEF Next, Call, Tick, Vanish, vars, history, BeginExport, EndExport, BeginFlush, SendInvalid, SendEvent,
         AddEvent, Sort, StoreSorted, PutOk, PutNotFound, Create, Raise, Renew
<1> QED
  BY <1>1, <1>2, <1>3 DEF Enter

LEMMA AloneStep == TInv /\ AloneInv /\ [Next]_vars => AloneInv'
<1> SUFFICES ASSUME TInv, AloneInv, [Next]_vars, ~overlap'
             PROVE  Alone' /\ AtBatch' /\ Kept'
  BY DEF AloneInv
<1> USE ListFacts
<1>a. ~overlap
  BY StillAlone
<1>b. Alone /\ AtBatch /\ Kept
  BY <1>a DEF AloneInv
<1>c. /\ pc \in [Threads -> Places] /\ cur \in [Threads -> Batches \cup {None}]
      /\ copy \in [Threads -> Seq(Events)] /\ fate \in [Events -> Fates]
  BY DEF TInv, CallerType, EventType
<1> DEFINE Same == UNCHANGED <<batch, heap, cur, copy, stored>>
           Rests(t) == pc'[t] = pc[t] \/ (~Inside(t) /\ ~Inside(t)')
           NoneKept == \A e \in Events : fate'[e] = "accepted" => fate[e] = "accepted"
<1>d. Same /\ (\A t \in Threads : Rests(t)) /\ NoneKept => Alone' /\ AtBatch' /\ Kept'
  BY <1>b DEF Alone, AtBatch, Kept, Inside, Pending
<1>1. ASSUME NEW t \in Threads, Call(t) PROVE Alone' /\ AtBatch' /\ Kept'
  <2>1. CASE BeginExport(t) \/ EndExport(t)
    <3>1. Same /\ fate' = fate
      BY <2>1 DEF BeginExport, EndExport, client, service, history
    <3>2. ~Inside(t) /\ \E p \in {"out", "export"} : pc' = [pc EXCEPT ![t] = p]
      BY <2>1 DEF BeginExport, EndExport, Go, Inside
    <3>3. \A u \in Threads : Rests(u)
      BY <3>2, <1>c DEF Inside
    <3> QED
      BY <3>1, <3>3, <1>d
  <2>2. CASE SendInvalid(t)
    <3>1. fate' = [fate EXCEPT ![used'] = "invalid"] /\ Same /\ pc' = pc
      BY <2>2 DEF SendInvalid, client, service
    <3>2. NoneKept /\ \A u \in Threads : Rests(u)
      BY <3>1, <1>c
    <3> QED
      BY <3>1, <3>2, <1>d
  <2>3. CASE SendEvent(t)
    <3>1. /\ fate' = [fate EXCEPT ![used'] = "held"] /\ UNCHANGED <<copy, stored>>
          /\ \E p \in {"sort", "add"} : pc' = [pc EXCEPT ![t] = p]
          /\ cur' = [cur EXCEPT ![t] = batch'] /\ Enter(t)
      BY <2>3 DEF SendEvent, service, Go
    <3>2. \A u \in Threads \ {t} : ~Inside(u) /\ copy[u] = <<>>
      BY <3>1, <1>b DEF Enter, AtBatch, Inside
    <3>3. pc[t] = "export" /\ copy[t] = <<>>
      BY <2>3, <1>b DEF SendEvent, TakeLog, AtBatch
    <3>4. \A u \in Threads \ {t} : ~Inside(u)'
      BY <3>1, <3>2, <1>c DEF Inside
    <3>5. Alone' /\ AtBatch'
      BY <3>1, <3>2, <3>3, <3>4, <1>c DEF Alone, AtBatch, Inside
    <3>6. \A e \in Events : fate'[e] = "accepted" => fate[e] = "accepted"
      BY <3>1, <1>c
    <3>7. Kept'
      <4>1. CASE batch = None
        BY <3>1, <3>6, <4>1, <1>b DEF Kept, Pending
      <4>2. CASE batch # None
        BY <2>3, <3>1, <3>6, <4>2, <1>b DEF SendEvent, client, Kept, Pending
      <4> QED
        BY <4>1, <4>2
    <3> QED
      BY <3>5, <3>7
  <2>4. CASE BeginFlush(t)
    <3>1. /\ UNCHANGED <<client, copy, stored, fate>>
          /\ pc' = [pc EXCEPT ![t] = "sort"] /\ cur' = [cur EXCEPT ![t] = batch] /\ Enter(t)
      BY <2>4 DEF BeginFlush, service, Go
    <3>2. \A u \in Threads : copy[u] = <<>>
      BY <2>4, <3>1, <1>b DEF BeginFlush, Enter, AtBatch, Inside
    <3>3. \A u \in Threads \ {t} : ~Inside(u) /\ ~Inside(u)'
      BY <3>1, <1>c DEF Enter, Inside
    <3> QED
      BY <3>1, <3>2, <3>3, <1>b, <1>c DEF client, Alone, AtBatch, Kept, Inside, Pending
  <2>5. CASE AddEvent(t)
    <3>1. Inside(t) /\ hand[t] \in Events /\ pc[t] = "add"
      BY <2>5, AddFacts DEF Sending, AddEvent
    <3>2. /\ pc' = [pc EXCEPT ![t] = "export"] /\ copy' = [copy EXCEPT ![t] = <<>>]
          /\ cur' = [cur EXCEPT ![t] = None] /\ UNCHANGED <<batch, stored>>
          /\ fate' = [fate EXCEPT ![hand[t]] = "accepted"]
      BY <2>5 DEF AddEvent, Leave, Go, service
    <3>3. /\ batch # None /\ cur[t] = batch /\ \A u \in Threads \ {t} : ~Inside(u) /\ copy[u] = <<>>
      BY <3>1, <1>b, AloneFacts
    <3>4. \A u \in Threads : ~Inside(u)' /\ copy'[u] = <<>>
      BY <3>2, <3>3, <1>c DEF Inside
    <3>5. Alone' /\ AtBatch'
      BY <3>4 DEF Alone, AtBatch, Inside
    <3>6. Range(heap'[batch].events) = Range(heap[batch].events) \cup {hand[t]}
      BY <2>5, <3>3, AddEffect
    <3>7. Kept'
      BY <3>2, <3>3, <3>6, <1>b, <1>c DEF Kept, Pending
    <3> QED
      BY <3>5, <3>7
  <2>6. CASE Sort(t)
    <3>1. Inside(t) /\ pc[t] = "sort" /\ UNCHANGED <<client, cur, stored, fate>>
      BY <2>6 DEF Sort, Inside, service, history
    <3>2. /\ cur[t] = batch /\ heap[batch].events \in Seq(Events) /\ batch \in Batches
          /\ \A u \in Threads \ {t} : ~Inside(u) /\ copy[u] = <<>>
          /\ copy[t] = <<>>
      BY <3>1, <1>b, AloneFacts
    <3>3. CASE heap[batch].events = <<>>
      <4>1. pc' = [pc EXCEPT ![t] = "renew"] /\ copy' = copy
        BY <2>6, <3>2, <3>3 DEF Sort, Go
      <4> QED
        BY <3>1, <3>2, <3>3, <4>1, <1>b, <1>c DEF client, Alone, AtBatch, Kept, Inside, Pending
    <3>4. CASE heap[batch].events # <<>>
      <4>1. pc' = [pc EXCEPT ![t] = "sorted"] /\ copy' = [copy EXCEPT ![t] = Sorted(heap[batch].events)]
        BY <2>6, <3>2, <3>4 DEF Sort, Go
      <4>2. Range(Sorted(heap[batch].events)) = Range(heap[batch].events)
        BY <3>2, HeapFacts, SortedEvents
      <4> QED
        BY <3>1, <3>2, <4>1, <4>2, <1>b, <1>c DEF client, Alone, AtBatch, Kept, Inside, Pending
    <3> QED
      BY <3>3, <3>4
  <2>7. CASE StoreSorted(t)
    <3>1. Inside(t) /\ pc[t] = "sorted" /\ UNCHANGED <<batch, cur, stored, fate>> /\ pc' = [pc EXCEPT ![t] = "put"]
      BY <2>7 DEF StoreSorted, Inside, service, history, Go
    <3>2. /\ cur[t] = batch /\ batch \in Batches
          /\ \A u \in Threads \ {t} : ~Inside(u) /\ copy[u] = <<>>
      BY <3>1, <1>b, AloneFacts
    <3>3. Range(heap'[batch].events) = Range(heap[batch].events)
      BY <2>7, <3>1, <3>2, <1>b, StoreSortedEffect DEF AtBatch
    <3>4. \A u \in Threads : copy'[u] = <<>>
      BY <2>7, <3>2 DEF StoreSorted, Inside
    <3> QED
      BY <3>1, <3>2, <3>3, <3>4, <1>b, <1>c DEF Alone, AtBatch, Kept, Inside, Pending
  <2>8. CASE PutOk(t)
    <3>1. /\ Inside(t) /\ pc[t] \in {"put", "retry"} /\ UNCHANGED <<client, cur, fate>>
          /\ pc' = [pc EXCEPT ![t] = "renew"] /\ copy' = [copy EXCEPT ![t] = <<>>] /\ Stored(Request(t))
      BY <2>8 DEF PutOk, Inside, service, history, Go
    <3>2. /\ cur[t] = batch /\ heap[batch].events \in Seq(Events)
          /\ \A u \in Threads \ {t} : ~Inside(u) /\ copy[u] = <<>>
          /\ Request(t) = heap[batch].events
      BY <3>1, <1>b, AloneFacts
    <3>3. \A e \in Events : stored'[e] >= stored[e] /\ (e \in Range(heap[batch].events) => stored'[e] > 0)
      BY <3>1, <3>2, StoredFacts
    <3>4. /\ \A e \in Events : stored[e] > 0 => stored'[e] > 0
          /\ \A e \in Range(heap[batch].events) : stored'[e] > 0
      <4>1. stored \in [Events -> Nat] /\ stored' \in [Events -> Nat]
        BY <3>1, <3>2, StoredFacts DEF TInv, EventType
      <4> QED
        BY <3>2, <3>3, <4>1
    <3> QED
      BY <3>1, <3>2, <3>4, <1>b, <1>c DEF client, Alone, AtBatch, Kept, Inside, Pending
  <2>9. CASE PutNotFound(t) \/ Create(t)
    <3>1. /\ Inside(t) /\ pc[t] # "sorted" /\ UNCHANGED <<client, cur, copy, stored, fate>>
          /\ \E p \in {"create", "retry"} : pc' = [pc EXCEPT ![t] = p]
      BY <2>9 DEF PutNotFound, Create, Inside, service, history, Go
    <3> QED
      BY <3>1, <1>b, <1>c DEF client, Alone, AtBatch, Kept, Inside, Pending
  <2>10. CASE Raise(t)
    <3>1. /\ Inside(t) /\ UNCHANGED client
          /\ pc' = [pc EXCEPT ![t] = "out"] /\ copy' = [copy EXCEPT ![t] = <<>>]
          /\ cur' = [cur EXCEPT ![t] = None]
          /\ fate' = fate \/ fate' = [fate EXCEPT ![hand[t]] = "failed"]
      BY <2>10 DEF Raise, Leave, Inside, Go
    <3>2. \A u \in Threads \ {t} : ~Inside(u) /\ copy[u] = <<>>
      BY <3>1, <1>b, AloneFacts
    <3>3. \A u \in Threads : ~Inside(u)' /\ copy'[u] = <<>>
      BY <3>1, <3>2, <1>c DEF Inside
    <3>4. \A e \in Events : stored[e] > 0 => stored'[e] > 0
      <4>1. CASE stored' = stored
        BY <4>1
      <4>2. CASE Stored(Request(t))
        <5>1. \A e \in Events : stored'[e] >= stored[e]
          BY <3>1, <4>2, RequestFacts, StoredFacts
        <5>2. stored \in [Events -> Nat] /\ stored' \in [Events -> Nat]
          BY <3>1, <4>2, RequestFacts, StoredFacts DEF TInv, EventType
        <5> QED
          BY <5>1, <5>2
      <4> QED
        BY <2>10, <4>1, <4>2 DEF Raise
    <3>5. \A e \in Events : fate'[e] = "accepted" => fate[e] = "accepted"
      BY <3>1, <1>c
    <3>6. Alone' /\ AtBatch'
      BY <3>3 DEF Alone, AtBatch, Inside
    <3>7. Kept'
      BY <3>1, <3>4, <3>5, <1>b DEF client, Kept, Pending
    <3> QED
      BY <3>6, <3>7
  <2>11. CASE Renew(t)
    <3>1. /\ Inside(t) /\ pc[t] = "renew" /\ batch' = Fresh /\ heap' = [heap EXCEPT ![Fresh] = EmptyBatch(now)]
          /\ UNCHANGED <<stored, fate>>
      BY <2>11 DEF Renew, Inside, service
    <3>2. /\ batch # None /\ copy[t] = <<>>
          /\ \A u \in Threads \ {t} : ~Inside(u) /\ copy[u] = <<>>
      BY <3>1, <1>b, AloneFacts
    <3>3. \A e \in Events : fate[e] = "accepted" => stored[e] > 0
      BY <3>1, <1>b DEF Kept, AtBatch, Pending
    <3>4. Kept'
      BY <3>1, <3>3 DEF Kept
    <3>5. \/ pc' = [pc EXCEPT ![t] = "add"] /\ cur' = [cur EXCEPT ![t] = Fresh] /\ copy' = copy
          \/ pc' = [pc EXCEPT ![t] = "out"] /\ cur' = [cur EXCEPT ![t] = None] /\ copy' = [copy EXCEPT ![t] = <<>>]
      BY <2>11 DEF Renew, Leave, Go
    <3>6. Alone' /\ AtBatch'
      BY <3>1, <3>2, <3>5, <1>c DEF Alone, AtBatch, Inside
    <3> QED
      BY <3>4, <3>6
  <2> QED
    BY <1>1, <2>1, <2>2, <2>3, <2>4, <2>5, <2>6, <2>7, <2>8, <2>9, <2>10, <2>11 DEF Call
<1>2. CASE Tick \/ Vanish \/ UNCHANGED vars
  <2>1. Same /\ fate' = fate /\ pc' = pc
    BY <1>2 DEF Tick, Vanish, vars, client, callers, service, history
  <2> QED
    BY <2>1, <1>d
<1> QED
  BY <1>1, <1>2 DEF Next

(* An event that send_log_event took is stored, or in the batch that will  *)
(* be sent, through failed, repeated and doubtful calls and deletions of   *)
(* the log group, as long as no two threads are in the client at once.     *)
THEOREM NothingLost == Spec => []NoLoss
<1>1. Init => AloneInv
  BY ListFacts, NoneFacts DEF Init, AloneInv, Alone, AtBatch, Kept, Inside
<1>2. AloneInv => NoLoss
  BY DEF AloneInv, Kept, NoLoss
<1> QED
  BY <1>1, <1>2, AloneStep, Inductive, PTL DEF Spec

-----------------------------------------------------------------------------
(* While besides no call fails that the service served: no event is twice  *)
(* in a list, and what is stored is in the client's batch only until the   *)
(* batch is renewed.                                                       *)

ListedOnce ==
  /\ batch # None => Injective(heap[batch].events)
  /\ \A t \in Threads : pc[t] = "sorted" => Injective(copy[t])
StoredOnce == \A e \in Events : stored[e] <= 1
DoneOnly   == \A e \in Events : Pending(e) /\ stored[e] > 0 => \E t \in Threads : pc[t] = "renew"

OnceInv == ~overlap /\ doubts = 0 => ListedOnce /\ StoredOnce /\ DoneOnly

LEMMA AppendOnce ==
  ASSUME NEW q \in Seq(Events), NEW e \in Events, Injective(q), e \notin Range(q)
  PROVE  Injective(Append(q, e))
<1>1. Len(q) \in Nat /\ DOMAIN q = 1..Len(q)
  BY LenProperties
<1>2. /\ DOMAIN Append(q, e) = 1..(Len(q) + 1) /\ Append(q, e)[Len(q) + 1] = e
      /\ \A i \in 1..Len(q) : Append(q, e)[i] = q[i]
  BY <1>1, AppendProperties
<1>3. \A i \in 1..Len(q) : q[i] # e
  BY <1>1 DEF Range
<1>4. \A i \in DOMAIN Append(q, e) : i \in 1..Len(q) \/ i = Len(q) + 1
  BY <1>1, <1>2
<1> QED
  BY <1>1, <1>2, <1>3, <1>4 DEF Injective

LEMMA OnceStep == TInv /\ AloneInv /\ OnceInv /\ [Next]_vars => OnceInv'
<1> SUFFICES ASSUME TInv, AloneInv, OnceInv, [Next]_vars, ~overlap', doubts' = 0
             PROVE  ListedOnce' /\ StoredOnce' /\ DoneOnly'
  BY DEF OnceInv
<1> USE ListFacts
<1>a. ~overlap /\ doubts = 0
  BY StillAlone
<1>b. Alone /\ AtBatch /\ ListedOnce /\ StoredOnce /\ DoneOnly
  BY <1>a DEF AloneInv, OnceInv
<1>c. /\ pc \in [Threads -> Places] /\ copy \in [Threads -> Seq(Events)] /\ stored \in [Events -> Nat]
  BY DEF TInv, CallerType, EventType
<1> DEFINE Same == UNCHANGED <<batch, heap, copy, stored>>
           Rests(t) == pc'[t] = pc[t] \/ (pc[t] # "renew" /\ pc'[t] # "sorted")
<1>d. Same /\ (\A t \in Threads : Rests(t)) => ListedOnce' /\ StoredOnce' /\ DoneOnly'
  <2>1. SUFFICES ASSUME Same, \A t \in Threads : Rests(t) PROVE ListedOnce' /\ StoredOnce' /\ DoneOnly'
    OBVIOUS
  <2>2. ListedOnce' /\ StoredOnce'
    BY <1>b, <2>1 DEF ListedOnce, StoredOnce
  <2>3. DoneOnly'
    BY <1>b, <2>1 DEF DoneOnly, Pending
  <2> QED
    BY <2>2, <2>3
<1>1. ASSUME NEW t \in Threads, Call(t) PROVE ListedOnce' /\ StoredOnce' /\ DoneOnly'
  <2>1. CASE BeginExport(t) \/ EndExport(t)
    <3>1. Same
      BY <2>1 DEF BeginExport, EndExport, client, service, history
    <3>2. pc[t] \in {"out", "export"} /\ \E p \in {"out", "export"} : pc' = [pc EXCEPT ![t] = p]
      BY <2>1 DEF BeginExport, EndExport, Go
    <3>3. \A u \in Threads : Rests(u)
      BY <3>2, <1>c
    <3> QED
      BY <3>1, <3>3, <1>d
  <2>2. CASE SendInvalid(t)
    <3>1. Same /\ pc' = pc
      BY <2>2 DEF SendInvalid, client, service
    <3> QED
      BY <3>1, <1>d
  <2>3. CASE SendEvent(t)
    <3>1. /\ pc[t] = "export" /\ UNCHANGED <<copy, stored>>
          /\ \E p \in {"sort", "add"} : pc' = [pc EXCEPT ![t] = p]
      BY <2>3 DEF SendEvent, TakeLog, service, Go
    <3>2. \A u \in Threads : Rests(u)
      BY <3>1, <1>c
    <3>3. CASE batch = None
      <4>1. batch' = Fresh /\ heap' = [heap EXCEPT ![Fresh] = EmptyBatch(now)]
        BY <2>3, <3>3 DEF SendEvent
      <4>2. heap'[batch'].events = <<>>
        BY <4>1, FreshEffect
      <4> QED
        BY <3>1, <3>2, <4>2, <1>b, <1>c DEF ListedOnce, StoredOnce, DoneOnly, Pending
    <3>4. CASE batch # None
      <4>1. Same
        BY <2>3, <3>1, <3>4 DEF SendEvent, client
      <4> QED
        BY <3>2, <4>1, <1>d
    <3> QED
      BY <3>3, <3>4
  <2>4. CASE BeginFlush(t)
    <3>1. pc[t] = "out" /\ Same /\ pc' = [pc EXCEPT ![t] = "sort"]
      BY <2>4 DEF BeginFlush, client, service, Go
    <3>2. \A u \in Threads : Rests(u)
      BY <3>1, <1>c
    <3> QED
      BY <3>1, <3>2, <1>d
  <2>5. CASE AddEvent(t)
    <3>1. Inside(t) /\ hand[t] \in Events /\ pc[t] = "add"
      BY <2>5, AddFacts DEF Sending, AddEvent
    <3>2. /\ pc' = [pc EXCEPT ![t] = "export"] /\ copy' = [copy EXCEPT ![t] = <<>>] /\ UNCHANGED <<batch, stored>>
      BY <2>5 DEF AddEvent, Leave, Go, service
    <3>3. /\ batch # None /\ batch \in Batches /\ cur[t] = batch /\ heap[batch].events \in Seq(Events)
          /\ \A u \in Threads \ {t} : ~Inside(u)
      BY <3>1, <1>b, AloneFacts
    <3>4. fate[hand[t]] = "held" /\ stored[hand[t]] = 0
      <4>1. fate[hand[t]] = "held"
        BY <3>1, NoneFacts DEF TInv, EventInv
      <4>2. ~(stored[hand[t]] > 0) /\ stored[hand[t]] \in Nat
        BY <3>1, <4>1, <1>c DEF TInv, EventInv
      <4> QED
        BY <4>1, <4>2
    <3>5. hand[t] \notin Range(heap[batch].events)
      BY <3>3, <3>4 DEF TInv, EventInv
    <3>6. heap'[batch].events = Append(heap[batch].events, hand[t])
      BY <2>5, <3>3, AddEffect
    <3>7. Injective(heap'[batch].events)
      BY <3>1, <3>3, <3>5, <3>6, <1>b, AppendOnce DEF ListedOnce
    <3>8. \A u \in Threads : pc[u] # "renew" /\ pc'[u] # "sorted"
      BY <3>1, <3>2, <3>3, <1>c DEF Inside
    <3>9. \A e \in Events : Pending(e)' => Pending(e) \/ e = hand[t]
      BY <3>1, <3>2, <3>3, <3>6 DEF Pending
    <3>10. DoneOnly'
      BY <3>2, <3>4, <3>8, <3>9, <1>b DEF DoneOnly
    <3> QED
      BY <3>2, <3>7, <3>8, <3>10, <1>b DEF ListedOnce, StoredOnce
  <2>6. CASE Sort(t)
    <3>1. Inside(t) /\ pc[t] = "sort" /\ UNCHANGED <<batch, heap, stored>>
      BY <2>6 DEF Sort, Inside, client, service, history
    <3>2. cur[t] = batch /\ batch # None /\ heap[batch].events \in Seq(Events) /\ batch \in Batches
      BY <3>1, <1>b, AloneFacts
    <3>3. CASE heap[batch].events = <<>>
      <4>1. pc' = [pc EXCEPT ![t] = "renew"] /\ copy' = copy
        BY <2>6, <3>2, <3>3 DEF Sort, Go
      <4>2. \A u \in Threads : Rests(u)
        BY <3>1, <4>1, <1>c
      <4> QED
        BY <3>1, <4>1, <4>2, <1>d
    <3>4. CASE heap[batch].events # <<>>
      <4>1. pc' = [pc EXCEPT ![t] = "sorted"] /\ copy' = [copy EXCEPT ![t] = Sorted(heap[batch].events)]
        BY <2>6, <3>2, <3>4 DEF Sort, Go
      <4>2. Injective(Sorted(heap[batch].events))
        BY <3>2, HeapFacts, SortedEvents, <1>b DEF ListedOnce
      <4>3. ListedOnce' /\ StoredOnce'
        BY <3>1, <4>1, <4>2, <1>b, <1>c DEF ListedOnce, StoredOnce
      <4>4. DoneOnly'
        BY <3>1, <4>1, <1>b, <1>c DEF DoneOnly, Pending
      <4> QED
        BY <4>3, <4>4
    <3> QED
      BY <3>3, <3>4
  <2>7. CASE StoreSorted(t)
    <3>1. Inside(t) /\ pc[t] = "sorted" /\ UNCHANGED <<batch, stored>> /\ pc' = [pc EXCEPT ![t] = "put"]
      BY <2>7 DEF StoreSorted, Inside, service, history, Go
    <3>2. /\ cur[t] = batch /\ batch \in Batches
          /\ \A u \in Threads \ {t} : ~Inside(u)
      BY <3>1, <1>b, AloneFacts
    <3>3. heap'[batch].events = copy[t] /\ Range(copy[t]) = Range(heap[batch].events)
      BY <2>7, <3>1, <3>2, <1>b, StoreSortedEffect DEF AtBatch
    <3>4. \A u \in Threads : pc[u] # "renew" /\ pc'[u] # "sorted"
      BY <3>1, <3>2, <1>c DEF Inside
    <3>5. ListedOnce' /\ StoredOnce'
      BY <3>1, <3>3, <3>4, <1>b DEF ListedOnce, StoredOnce
    <3>6. DoneOnly'
      BY <3>1, <3>3, <3>4, <1>b DEF DoneOnly, Pending
    <3> QED
      BY <3>5, <3>6
  <2>8. CASE PutOk(t)
    <3>1. /\ Inside(t) /\ pc[t] \in {"put", "retry"} /\ UNCHANGED <<batch, heap>>
          /\ pc' = [pc EXCEPT ![t] = "renew"] /\ copy' = [copy EXCEPT ![t] = <<>>] /\ Stored(Request(t))
      BY <2>8 DEF PutOk, Inside, client, Go
    <3>2. /\ batch # None /\ heap[batch].events \in Seq(Events) /\ Request(t) = heap[batch].events
          /\ \A u \in Threads \ {t} : ~Inside(u)
      BY <3>1, <1>b, AloneFacts
    <3>3. \A e \in Events : Pending(e) => stored[e] = 0
      <4>1. \A u \in Threads : pc[u] # "renew"
        BY <3>1, <3>2 DEF Inside
      <4> QED
        BY SMTT(30), <4>1, <1>b, <1>c DEF DoneOnly
    <3>4. \A e \in Events : /\ stored'[e] <= stored[e] + 1
                            /\ ~Pending(e) => stored'[e] = stored[e]
      BY <3>1, <3>2, <1>b, StoredFacts DEF Pending, ListedOnce
    <3>5. StoredOnce'
      <4>1. ASSUME NEW e \in Events PROVE stored'[e] <= 1
        <5>1. stored[e] \in Nat /\ stored'[e] \in Nat
          BY <3>1, <3>2, StoredFacts, <1>c
        <5> QED
          BY <3>3, <3>4, <5>1, <1>b DEF StoredOnce
      <4> QED
        BY <4>1 DEF StoredOnce
    <3>6. ListedOnce' /\ DoneOnly'
      BY <3>1, <1>b, <1>c DEF ListedOnce, DoneOnly
    <3> QED
      BY <3>5, <3>6
  <2>9. CASE PutNotFound(t) \/ Create(t)
    <3>1. /\ pc[t] \in {"put", "create"} /\ Same
          /\ \E p \in {"create", "retry"} : pc' = [pc EXCEPT ![t] = p]
      BY <2>9 DEF PutNotFound, Create, client, service, history, Go
    <3>2. \A u \in Threads : Rests(u)
      BY <3>1, <1>c
    <3> QED
      BY <3>1, <3>2, <1>d
  <2>10. CASE Raise(t)
    <3>1. /\ pc[t] \in {"put", "create", "retry"} /\ UNCHANGED <<batch, heap>>
          /\ pc' = [pc EXCEPT ![t] = "out"] /\ copy' = [copy EXCEPT ![t] = <<>>]
      BY <2>10 DEF Raise, Leave, client, Go
    <3>2. stored' = stored
      BY <2>10, <1>a DEF Raise
    <3>3. ListedOnce' /\ StoredOnce'
      BY <3>1, <3>2, <1>b, <1>c DEF ListedOnce, StoredOnce
    <3>4. DoneOnly'
      BY <3>1, <3>2, <1>b, <1>c DEF DoneOnly, Pending
    <3> QED
      BY <3>3, <3>4
  <2>11. CASE Renew(t)
    <3>1. /\ Inside(t) /\ pc[t] = "renew" /\ batch' = Fresh /\ heap' = [heap EXCEPT ![Fresh] = EmptyBatch(now)]
          /\ stored' = stored
      BY <2>11 DEF Renew, Inside, service
    <3>2. heap'[batch'].events = <<>>
      BY <3>1, FreshEffect
    <3>3. \A u \in Threads \ {t} : ~Inside(u)
      BY <3>1, <1>b, AloneFacts
    <3>4. \E p \in {"add", "out"} : pc' = [pc EXCEPT ![t] = p]
      BY <2>11 DEF Renew, Leave, Go
    <3>5. \A u \in Threads : pc'[u] # "sorted"
      BY <3>3, <3>4, <1>c DEF Inside
    <3> QED
      BY <3>1, <3>2, <3>5, <1>b DEF ListedOnce, StoredOnce, DoneOnly, Pending
  <2> QED
    BY <1>1, <2>1, <2>2, <2>3, <2>4, <2>5, <2>6, <2>7, <2>8, <2>9, <2>10, <2>11 DEF Call
<1>2. CASE Tick \/ Vanish \/ UNCHANGED vars
  <2>1. Same /\ pc' = pc
    BY <1>2 DEF Tick, Vanish, vars, client, callers, service, history
  <2> QED
    BY <2>1, <1>d
<1> QED
  BY <1>1, <1>2 DEF Next

(* No event is stored twice, as long as no two threads are in the client   *)
(* at once and the service serves no call that fails for the client.       *)
THEOREM StoredAtMostOnce == Spec => []AtMostOnce
<1>1. Init => AloneInv
  BY ListFacts, NoneFacts DEF Init, AloneInv, Alone, AtBatch, Kept, Inside
<1>2. Init => OnceInv
  BY DEF Init, OnceInv, ListedOnce, StoredOnce, DoneOnly, Pending
<1>3. OnceInv => AtMostOnce
  BY DEF OnceInv, StoredOnce, AtMostOnce
<1> QED
  BY <1>1, <1>2, <1>3, AloneStep, OnceStep, Inductive, PTL DEF Spec

-----------------------------------------------------------------------------
(* Whatever overlaps, with one thread that flushes: until it has stored    *)
(* them, the events that its call found are in the list that it works on,  *)
(* and a sorted copy never loses an event of its batch to an export.       *)

OneFlusher == \A f, g \in Flushers : f = g

DueAt(t) ==
  Inside(t) /\ op[t] = "flush" =>
    /\ pc[t] = "sort"   => due[t] \subseteq Range(heap[cur[t]].events)
    /\ pc[t] = "sorted" => due[t] \subseteq Range(copy[t]) /\ Range(copy[t]) \subseteq Range(heap[cur[t]].events)
    /\ pc[t] \in {"put", "create", "retry"} => due[t] \subseteq Range(Request(t))
    /\ pc[t] = "renew"  => \A e \in due[t] : stored[e] > 0
CopyAt(t) ==
  Sending(t) /\ pc[t] = "sorted" => Range(heap[cur[t]].events) \subseteq Range(copy[t])

DueInv == \A t \in Threads : DueAt(t) /\ CopyAt(t)

(* What is stored stays stored.                                            *)
LEMMA StoredKept ==
  ASSUME TInv, [Next]_vars
  PROVE  \A e \in Events : stored[e] > 0 => stored'[e] > 0
<1>1. ASSUME NEW t \in Threads, Inside(t), Stored(Request(t))
      PROVE  \A e \in Events : stored[e] > 0 => stored'[e] > 0
  <2>1. /\ stored \in [Events -> Nat] /\ stored' \in [Events -> Nat]
        /\ \A e \in Events : stored'[e] >= stored[e]
    BY <1>1, RequestFacts, StoredFacts DEF TInv, EventType
  <2> QED
    BY <2>1
<1>2. stored' = stored \/ \E t \in Threads : Inside(t) /\ Stored(Request(t))
  BY DEF Next, Call, Tick, Vanish, vars, service, BeginExport, EndExport, BeginFlush, SendInvalid, SendEvent,
         AddEvent, Sort, StoreSorted, PutOk, PutNotFound, Create, Raise, Renew, Inside
<1> QED
  BY <1>1, <1>2

(* A thread that another one's step leaves alone.                          *)
LEMMA DueKept ==
  ASSUME TInv, [Next]_vars, NEW u \in Threads, DueAt(u), CopyAt(u),
         pc'[u] = pc[u], op'[u] = op[u], cur'[u] = cur[u], copy'[u] = copy[u], due'[u] = due[u],
         Inside(u) => Range(heap[cur[u]].events) \subseteq Range(heap'[cur[u]].events),
         Sending(u) => heap'[cur[u]] = heap[cur[u]]
  PROVE  DueAt(u)' /\ CopyAt(u)'
<1>1. Inside(u)' = Inside(u) /\ Sending(u)' = Sending(u)
  BY DEF Inside, Sending
<1>2. \A e \in due[u] : stored[e] > 0 => stored'[e] > 0
  BY StoredKept DEF TInv, EventType
<1>3. Inside(u) => Range(Request(u)) \subseteq Range(Request(u)')
  BY DEF Request
<1>4. DueAt(u)'
  BY <1>1, <1>2, <1>3 DEF DueAt
<1>5. CopyAt(u)'
  BY <1>1 DEF CopyAt, Sending
<1> QED
  BY <1>4, <1>5

LEMMA DueStep ==
  ASSUME OneFlusher, TInv, DueInv, [Next]_vars
  PROVE  DueInv'
<1> USE ListFacts
<1>a. /\ pc \in [Threads -> Places] /\ op \in [Threads -> {"send", "flush"}]
      /\ cur \in [Threads -> Batches \cup {None}] /\ copy \in [Threads -> Seq(Events)]
      /\ due \in [Threads -> SUBSET Events] /\ heap \in [Batches -> BatchType]
  BY DEF TInv, ClientType, CallerType, EventType
<1>b. \A u \in Threads : DueAt(u) /\ CopyAt(u)
  BY DEF DueInv
<1>c. \A u, v \in Threads : Sending(u) /\ Sending(v) => u = v
  BY DEF TInv, PlaceInv
<1>d. \A u, v \in Threads : Inside(u) /\ op[u] = "flush" /\ Inside(v) /\ op[v] = "flush" => u = v
  BY DEF TInv, PlaceInv, OneFlusher
<1> DEFINE Left(u) == /\ pc'[u] = pc[u] /\ op'[u] = op[u] /\ cur'[u] = cur[u]
                      /\ copy'[u] = copy[u] /\ due'[u] = due[u]
           Grown(u) == /\ Inside(u) => Range(heap[cur[u]].events) \subseteq Range(heap'[cur[u]].events)
                       /\ Sending(u) => heap'[cur[u]] = heap[cur[u]]
           Done(u) == DueAt(u)' /\ CopyAt(u)'
<1>e. ASSUME NEW u \in Threads, Left(u), Grown(u) PROVE Done(u)
  BY <1>b, <1>e, DueKept
<1>f. heap' = heap => \A u \in Threads : Grown(u)
  OBVIOUS
<1>g. ASSUME heap' = [heap EXCEPT ![Fresh] = EmptyBatch(now)] PROVE \A u \in Threads : Grown(u)
  <2>1. \A u \in Threads : Inside(u) => cur[u] \in Batches \ {Fresh}
    BY FreshFree, HeapFacts, <1>a
  <2>2. \A u \in Threads : Inside(u) => heap'[cur[u]] = heap[cur[u]]
    BY <1>a, <1>g, <2>1
  <2> QED
    BY <2>2 DEF Sending
<1> HIDE DEF Left, Grown
<1>1. ASSUME NEW t \in Threads, Call(t) PROVE \A u \in Threads : Done(u)
  <2>1. CASE BeginExport(t) \/ EndExport(t)
    <3>1. heap' = heap /\ UNCHANGED <<op, cur, copy, due>>
      BY <2>1 DEF BeginExport, EndExport, client, history
    <3>2. \E p \in {"out", "export"} : pc' = [pc EXCEPT ![t] = p]
      BY <2>1 DEF BeginExport, EndExport, Go
    <3>3. \A u \in Threads \ {t} : Left(u)
      BY <3>1, <3>2, <1>a DEF Left
    <3>4. Done(t)
      BY <3>2, <1>a DEF DueAt, CopyAt, Sending, Inside
    <3> QED
      BY <3>1, <3>3, <3>4, <1>e, <1>f
  <2>2. CASE SendInvalid(t)
    <3>1. heap' = heap /\ UNCHANGED <<pc, op, cur, copy, due>>
      BY <2>2 DEF SendInvalid, client
    <3>2. \A u \in Threads : Left(u)
      BY <3>1 DEF Left
    <3> QED
      BY <3>1, <3>2, <1>e, <1>f
  <2>3. CASE SendEvent(t)
    <3>1. /\ \E p \in {"sort", "add"} : pc' = [pc EXCEPT ![t] = p]
          /\ op' = [op EXCEPT ![t] = "send"] /\ cur' = [cur EXCEPT ![t] = batch'] /\ UNCHANGED <<copy, due>>
      BY <2>3 DEF SendEvent, Go
    <3>2. heap' = heap \/ heap' = [heap EXCEPT ![Fresh] = EmptyBatch(now)]
      BY <2>3 DEF SendEvent, client
    <3>3. \A u \in Threads \ {t} : Left(u)
      BY <3>1, <1>a DEF Left
    <3>4. Done(t)
      BY <3>1, <1>a DEF DueAt, CopyAt
    <3> QED
      BY <3>2, <3>3, <3>4, <1>e, <1>f, <1>g
  <2>4. CASE BeginFlush(t)
    <3>1. /\ heap' = heap /\ copy' = copy
          /\ pc' = [pc EXCEPT ![t] = "sort"] /\ op' = [op EXCEPT ![t] = "flush"]
          /\ cur' = [cur EXCEPT ![t] = batch] /\ due' = [due EXCEPT ![t] = Range(heap[batch].events)]
      BY <2>4 DEF BeginFlush, client, Go
    <3>2. \A u \in Threads \ {t} : Left(u)
      BY <3>1, <1>a DEF Left
    <3>3. Done(t)
      BY <3>1, <1>a DEF DueAt, CopyAt
    <3> QED
      BY <3>1, <3>2, <3>3, <1>e, <1>f
  <2>5. CASE AddEvent(t)
    <3>1. Sending(t) /\ cur[t] \in Batches /\ hand[t] \in Events
      BY <2>5, AddFacts
    <3>2. /\ pc' = [pc EXCEPT ![t] = "export"] /\ copy' = [copy EXCEPT ![t] = <<>>]
          /\ cur' = [cur EXCEPT ![t] = None] /\ due' = [due EXCEPT ![t] = {}] /\ op' = op
      BY <2>5 DEF AddEvent, Leave, Go
    <3>3. /\ Range(heap'[cur[t]].events) = Range(heap[cur[t]].events) \cup {hand[t]}
          /\ \A b \in Batches \ {cur[t]} : heap'[b] = heap[b]
      BY <2>5, AddEffect
    <3>4. \A u \in Threads \ {t} : Left(u)
      BY <3>2, <1>a DEF Left
    <3>5. \A u \in Threads \ {t} : Grown(u)
      BY <3>1, <3>3, <1>c, HeapFacts DEF Grown
    <3>6. Done(t)
      BY <3>2, <1>a DEF DueAt, CopyAt, Sending, Inside
    <3> QED
      BY <3>4, <3>5, <3>6, <1>e
  <2>6. CASE Sort(t)
    <3>1. Inside(t) /\ pc[t] = "sort" /\ UNCHANGED <<heap, op, cur, due>>
      BY <2>6 DEF Sort, Inside, client, history
    <3>2. heap[cur[t]].events \in Seq(Events)
      BY <3>1, HeapFacts
    <3>3. \E p \in {"renew", "sorted"} : pc' = [pc EXCEPT ![t] = p]
      BY <2>6 DEF Sort, Go
    <3>4. \A u \in Threads \ {t} : Left(u)
      BY <2>6, <3>1, <3>3, <1>a DEF Left, Sort
    <3>5. op[t] = "flush" => due[t] \subseteq Range(heap[cur[t]].events)
      BY <3>1, <1>b DEF DueAt
    <3>6. Done(t)
      <4>1. CASE heap[cur[t]].events = <<>>
        <5>1. pc' = [pc EXCEPT ![t] = "renew"] /\ copy' = copy
          BY <2>6, <4>1 DEF Sort, Go
        <5> QED
          BY <3>1, <3>5, <4>1, <5>1, <1>a DEF DueAt, CopyAt
      <4>2. CASE heap[cur[t]].events # <<>>
        <5>1. pc' = [pc EXCEPT ![t] = "sorted"] /\ copy' = [copy EXCEPT ![t] = Sorted(heap[cur[t]].events)]
          BY <2>6, <4>2 DEF Sort, Go
        <5>2. Range(Sorted(heap[cur[t]].events)) = Range(heap[cur[t]].events)
          BY <3>1, HeapFacts, SortedEvents
        <5> QED
          BY <3>1, <3>5, <5>1, <5>2, <1>a DEF DueAt, CopyAt
      <4> QED
        BY <4>1, <4>2
    <3> QED
      BY <3>1, <3>4, <3>6, <1>e, <1>f
  <2>7. CASE StoreSorted(t)
    <3>1. /\ Inside(t) /\ pc[t] = "sorted" /\ UNCHANGED <<op, cur, due>>
          /\ pc' = [pc EXCEPT ![t] = "put"]
          /\ copy' = [u \in Threads |->
                        IF u = t THEN <<>>
                        ELSE IF cur[u] = cur[t] /\ pc[u] \in {"put", "create", "retry"} THEN Request(u)
                        ELSE copy[u]]
      BY <2>7 DEF StoreSorted, Inside, history, Go
    <3>2. cur[t] \in Batches
      BY <3>1, HeapFacts
    <3>3. heap'[cur[t]].events = copy[t] /\ \A b \in Batches \ {cur[t]} : heap'[b] = heap[b]
      BY <2>7, StoreSortedEffect
    <3>4. Done(t)
      <4>1. Request(t)' = copy[t]
        BY <3>1, <3>3 DEF Request
      <4> QED
        BY <3>1, <4>1, <1>a, <1>b DEF DueAt, CopyAt, Inside
    <3>5. ASSUME NEW u \in Threads \ {t} PROVE Done(u)
      <4>1. pc'[u] = pc[u] /\ op'[u] = op[u] /\ cur'[u] = cur[u] /\ due'[u] = due[u]
        BY <3>1, <1>a
      <4>2. CASE ~Inside(u)
        BY <4>1, <4>2 DEF DueAt, CopyAt, Sending, Inside
      <4>3. CASE Inside(u) /\ cur[u] # cur[t]
        <5>1. Left(u)
          BY <3>1, <4>1, <4>3 DEF Left
        <5>2. Grown(u)
          BY <3>3, <4>3, HeapFacts DEF Grown
        <5> QED
          BY <5>1, <5>2, <1>e
      <4>4. CASE Inside(u) /\ cur[u] = cur[t] /\ op[u] = "flush"
        <5>1. Sending(t) /\ Range(heap[cur[t]].events) \subseteq Range(copy[t])
          BY <3>1, <4>4, <1>a, <1>b, <1>d DEF Sending, CopyAt
        <5>2. CASE pc[u] \in {"put", "create", "retry"}
          <6>1. due[u] \subseteq Range(Request(u)) /\ copy'[u] = Request(u)
            BY <3>1, <4>4, <5>2, <1>b DEF DueAt
          <6>2. due[u] \subseteq Range(Request(u)')
            BY <6>1 DEF Request
          <6> QED
            BY <4>1, <4>4, <5>2, <6>2 DEF DueAt, CopyAt
        <5>3. CASE pc[u] \notin {"put", "create", "retry"}
          <6>1. copy'[u] = copy[u]
            BY <3>1, <5>3
          <6>2. \A e \in due[u] : stored[e] > 0 => stored'[e] > 0
            BY StoredKept, <1>a
          <6> QED
            BY <3>3, <4>1, <4>4, <5>1, <5>3, <6>1, <6>2, <1>b DEF DueAt, CopyAt, Sending, Inside
        <5> QED
          BY <5>2, <5>3
      <4>5. CASE Inside(u) /\ cur[u] = cur[t] /\ op[u] = "send"
        <5>1. op[t] = "flush" /\ Range(copy[t]) \subseteq Range(heap[cur[t]].events)
          BY <3>1, <4>5, <1>a, <1>b, <1>c DEF Sending, DueAt
        <5>2. pc[u] = "sorted" => copy'[u] = copy[u]
          BY <3>1
        <5> QED
          BY <3>3, <4>1, <4>5, <5>1, <5>2, <1>b DEF DueAt, CopyAt, Sending, Inside
      <4> QED
        BY <4>2, <4>3, <4>4, <4>5, <1>a
    <3> QED
      BY <3>4, <3>5
  <2>8. CASE PutOk(t)
    <3>1. /\ Inside(t) /\ pc[t] \in {"put", "retry"} /\ UNCHANGED <<heap, op, cur, due>>
          /\ pc' = [pc EXCEPT ![t] = "renew"] /\ copy' = [copy EXCEPT ![t] = <<>>] /\ Stored(Request(t))
      BY <2>8 DEF PutOk, Inside, client, history, Go
    <3>2. \A u \in Threads \ {t} : Left(u)
      BY <3>1, <1>a DEF Left
    <3>3. \A e \in Range(Request(t)) : stored'[e] > 0
      BY <3>1, RequestFacts, StoredFacts
    <3>4. Done(t)
      BY <3>1, <3>3, <1>a, <1>b DEF DueAt, CopyAt
    <3> QED
      BY <3>1, <3>2, <3>4, <1>e, <1>f
  <2>9. CASE PutNotFound(t) \/ Create(t)
    <3>1. /\ Inside(t) /\ pc[t] \in {"put", "create"} /\ UNCHANGED <<heap, op, cur, copy, due>>
          /\ \E p \in {"create", "retry"} : pc' = [pc EXCEPT ![t] = p]
      BY <2>9 DEF PutNotFound, Create, Inside, client, history, Go
    <3>2. \A u \in Threads \ {t} : Left(u)
      BY <3>1, <1>a DEF Left
    <3>3. Request(t)' = Request(t)
      BY <3>1 DEF Request
    <3>4. Done(t)
      BY <3>1, <3>3, <1>a, <1>b DEF DueAt, CopyAt
    <3> QED
      BY <3>1, <3>2, <3>4, <1>e, <1>f
  <2>10. CASE Raise(t)
    <3>1. /\ UNCHANGED <<heap, op>>
          /\ pc' = [pc EXCEPT ![t] = "out"] /\ copy' = [copy EXCEPT ![t] = <<>>]
          /\ cur' = [cur EXCEPT ![t] = None] /\ due' = [due EXCEPT ![t] = {}]
      BY <2>10 DEF Raise, Leave, client, Go
    <3>2. \A u \in Threads \ {t} : Left(u)
      BY <3>1, <1>a DEF Left
    <3>3. Done(t)
      BY <3>1, <1>a DEF DueAt, CopyAt, Sending, Inside
    <3> QED
      BY <3>1, <3>2, <3>3, <1>e, <1>f
  <2>11. CASE Renew(t)
    <3>1. heap' = [heap EXCEPT ![Fresh] = EmptyBatch(now)] /\ op' = op
      BY <2>11 DEF Renew
    <3>2. \/ /\ pc' = [pc EXCEPT ![t] = "add"] /\ cur' = [cur EXCEPT ![t] = Fresh]
             /\ copy' = copy /\ due' = due /\ op[t] = "send"
          \/ /\ pc' = [pc EXCEPT ![t] = "out"] /\ cur' = [cur EXCEPT ![t] = None]
             /\ copy' = [copy EXCEPT ![t] = <<>>] /\ due' = [due EXCEPT ![t] = {}]
      BY <2>11 DEF Renew, Leave, Go
    <3>3. \A u \in Threads \ {t} : Left(u)
      BY <3>1, <3>2, <1>a DEF Left
    <3>4. Done(t)
      BY <3>1, <3>2, <1>a DEF DueAt, CopyAt, Sending, Inside
    <3> QED
      BY <3>1, <3>3, <3>4, <1>e, <1>g
  <2> QED
    BY <1>1, <2>1, <2>2, <2>3, <2>4, <2>5, <2>6, <2>7, <2>8, <2>9, <2>10, <2>11 DEF Call
<1>2. CASE Tick \/ Vanish \/ UNCHANGED vars
  <2>1. heap' = heap /\ UNCHANGED <<pc, op, cur, copy, due>>
    BY <1>2 DEF Tick, Vanish, vars, client, callers, history
  <2>2. \A u \in Threads : Left(u)
    BY <2>1 DEF Left
  <2> QED
    BY <2>1, <2>2, <1>e, <1>f DEF DueInv
<1> QED
  BY <1>1, <1>2 DEF Next, DueInv

(* When a force_flush is about to return, all that was in the batch when   *)
(* it began is stored, also if an export adds to that batch, sorts it or   *)
(* sends it meanwhile.  With a second thread that flushes the sorted copy  *)
(* of the one may drop what the other is to store.                         *)
THEOREM FlushComplete ==
  ASSUME OneFlusher
  PROVE  Spec => []FlushStores
<1>1. Init => DueInv
  BY DEF Init, DueInv, DueAt, CopyAt, Sending, Inside
<1>2. TInv /\ DueInv /\ [Next]_vars => DueInv'
  BY DueStep
<1>3. DueInv => FlushStores
  BY DEF DueInv, DueAt, FlushStores, Inside
<1> QED
  BY <1>1, <1>2, <1>3, Inductive, PTL DEF Spec

-----------------------------------------------------------------------------
(* The limits of PutLogEvents: the batch keeps to them with what its       *)
(* fields say of its events, an event is added only if it still does, and  *)
(* a request has what the batch has, in order.                             *)

Stamp(e) == LogOf(e).stamp

Fits(b) ==
  /\ Len(b.events) <= MaxEvents
  /\ b.byteTotal = Sum(b.events) /\ b.byteTotal <= MaxBytes
  /\ b.events = <<>> => b.minStamp = 0 /\ b.maxStamp = 0
  /\ b.events # <<>> => b.minStamp > 0 /\ b.minStamp <= b.maxStamp /\ b.maxStamp - b.minStamp <= Day
  /\ \A e \in Range(b.events) : b.minStamp <= Stamp(e) /\ Stamp(e) <= b.maxStamp

RoomFor(b, log) ==
  /\ ~ExceedsLimit(b, log)
  /\ b.events # <<>> => log.stamp - b.minStamp <= Day /\ b.maxStamp - log.stamp <= Day

InOrder(q) == q # <<>> /\ \A i, j \in DOMAIN q : i < j => Stamp(q[i]) <= Stamp(q[j])

CallFits(t) ==
  /\ Sending(t) => Stamp(hand[t]) > 0
  /\ pc[t] = "add" => RoomFor(heap[batch], LogOf(hand[t]))
  /\ pc[t] = "sorted" => /\ InOrder(copy[t]) /\ Sum(copy[t]) = Sum(heap[batch].events)
                         /\ Len(copy[t]) = Len(heap[batch].events)
  /\ pc[t] \in {"put", "create", "retry"} => InOrder(heap[batch].events)

LimitInv == ~overlap => (batch # None => Fits(heap[batch])) /\ \A t \in Threads : CallFits(t)

(* Sums of sizes.                                                          *)
LEMMA SizesFinite == ASSUME NEW q \in Seq(Events) PROVE IsFiniteSet(DOMAIN q)
<1>1. DOMAIN q = 1..Len(q) /\ Len(q) \in Nat
  BY LenProperties
<1>2. \A n \in Nat : IsFiniteSet(1..n)
  BY FS_Interval
<1> QED
  BY <1>1, <1>2, Zenon

Sizes(q) == [i \in DOMAIN q |-> SizeOf(LogOf(q[i]))]

LEMMA SumFacts ==
  ASSUME NEW q \in Seq(Events), \A e \in Range(q) : SizeOf(LogOf(e)) \in Nat
  PROVE  /\ Sum(q) = Total(Sizes(q), DOMAIN q) /\ Sum(q) \in Nat
         /\ \A i \in DOMAIN q : Sizes(q)[i] \in Nat /\ Sizes(q)[i] = SizeOf(LogOf(q[i]))
<1>1. \A i \in DOMAIN q : Sizes(q)[i] \in Nat /\ Sizes(q)[i] = SizeOf(LogOf(q[i]))
  BY DEF Sizes, Range
<1>2. Sum(q) = Total(Sizes(q), DOMAIN q)
  BY DEF Sum, Sizes
<1>3. Total(Sizes(q), DOMAIN q) \in Nat
  BY <1>1, SizesFinite, TotalType
<1> QED
  BY <1>1, <1>2, <1>3

LEMMA SumEmpty == Sum(<<>>) = 0
<1>1. DOMAIN <<>> = {}
  OBVIOUS
<1> QED
  BY <1>1, TotalEmpty DEF Sum

LEMMA SumAppend ==
  ASSUME NEW q \in Seq(Events), NEW e \in Events, \A d \in Range(q) \cup {e} : SizeOf(LogOf(d)) \in Nat
  PROVE  Sum(Append(q, e)) = Sum(q) + SizeOf(LogOf(e))
<1> DEFINE r == Append(q, e)
           n == Len(q) + 1
<1>1. Len(q) \in Nat /\ DOMAIN q = 1..Len(q)
  BY LenProperties
<1>2. /\ r \in Seq(Events) /\ DOMAIN r = 1..n /\ r[n] = e /\ n \in Nat
      /\ \A i \in DOMAIN q : r[i] = q[i]
  BY <1>1, AppendProperties
<1>3. DOMAIN r = DOMAIN q \cup {n} /\ n \notin DOMAIN q
  BY <1>1, <1>2
<1>4. Range(r) = Range(q) \cup {e}
  BY ListFacts
<1> HIDE DEF r, n
<1>5. /\ Sum(r) = Total(Sizes(r), DOMAIN r) /\ Sum(r) \in Nat
      /\ \A i \in DOMAIN r : Sizes(r)[i] \in Nat /\ Sizes(r)[i] = SizeOf(LogOf(r[i]))
  BY <1>2, <1>4, SumFacts
<1>6. /\ Sum(q) = Total(Sizes(q), DOMAIN q) /\ Sum(q) \in Nat
      /\ \A i \in DOMAIN q : Sizes(q)[i] \in Nat /\ Sizes(q)[i] = SizeOf(LogOf(q[i]))
  BY SumFacts
<1>7. Total(Sizes(r), DOMAIN q \cup {n}) = Total(Sizes(r), DOMAIN q) + Sizes(r)[n]
  BY <1>3, <1>5, SizesFinite, TotalAdd
<1>8. Total(Sizes(r), DOMAIN q) = Total(Sizes(q), DOMAIN q)
  <2>1. \A i \in DOMAIN q : Sizes(r)[i] = Sizes(q)[i]
    BY <1>2, <1>3, <1>5, <1>6
  <2> QED
    BY <2>1, TotalSame
<1>9. Sizes(r)[n] = SizeOf(LogOf(e))
  BY <1>2, <1>3, <1>5
<1>10. Sum(r) = Sum(q) + SizeOf(LogOf(e))
  BY <1>3, <1>5, <1>6, <1>7, <1>8, <1>9
<1> QED
  BY <1>10 DEF r

LEMMA SumSorted ==
  ASSUME TInv, NEW q \in Seq(Events), \A e \in Range(q) : fate[e] = "accepted"
  PROVE  Sum(Sorted(q)) = Sum(q)
<1>1. \A e \in Range(q) : e \in Events /\ LogOf(e).stamp \in Nat /\ SizeOf(LogOf(e)) \in Nat
  BY ListFacts, LogFacts
<1>2. \A i \in DOMAIN q : LogOf(q[i]).stamp \in Nat
  BY <1>1 DEF Range
<1>3. Sorted(q) \in Seq(Events) /\ Range(Sorted(q)) = Range(q) /\ DOMAIN Sorted(q) = DOMAIN q
  BY SortedEvents
<1> DEFINE move == [k \in DOMAIN q |-> Place(q, k)]
<1>4. /\ \A k \in DOMAIN q : Place(q, k) \in DOMAIN q
      /\ \A j, k \in DOMAIN q : j # k => Place(q, j) # Place(q, k)
      /\ \A i \in DOMAIN q : \E k \in DOMAIN q : Place(q, k) = i
  BY <1>2, PlaceOrder, PlaceTaken
<1>5. move \in Bijection(DOMAIN q, DOMAIN q)
  BY <1>4 DEF Bijection, Injection, IsInjective, Surjection
<1>6. \A k \in DOMAIN q : Sorted(q)[Place(q, k)] = q[k]
  <2>1. \A k \in DOMAIN q : (CHOOSE j \in DOMAIN q : Place(q, j) = Place(q, k)) = k
    BY <1>4
  <2> QED
    BY <1>4, <2>1, SortedPlaces
<1>7. /\ \A k \in DOMAIN q : Sizes(q)[k] \in Nat /\ Sizes(q)[k] = SizeOf(LogOf(q[k]))
      /\ \A k \in DOMAIN q : Sizes(Sorted(q))[k] = SizeOf(LogOf(Sorted(q)[k]))
      /\ Sum(q) = Total(Sizes(q), DOMAIN q)
      /\ Sum(Sorted(q)) = Total(Sizes(Sorted(q)), DOMAIN q)
  BY <1>1, <1>3, SumFacts
<1>8. \A k \in DOMAIN q : Sizes(Sorted(q))[move[k]] = Sizes(q)[k]
  BY SMTT(30), <1>4, <1>6, <1>7
<1> HIDE DEF move
<1>9. Total(Sizes(Sorted(q)), DOMAIN q) = Total(Sizes(q), DOMAIN q)
  BY <1>5, <1>7, <1>8, SizesFinite, TotalMoved
<1> QED
  BY <1>7, <1>9

(* What an event is, it stays.                                             *)
LEMMA LogsKept ==
  ASSUME TInv, [Next]_vars
  PROVE  \A e \in Events : fate[e] # "new" => LogOf(e)' = LogOf(e)
<1>1. ASSUME NEW t \in Threads, TakeLog(t), NEW e \in Events, fate[e] # "new" PROVE info'[e] = info[e]
  BY <1>1, TakeFacts DEF TakeLog, TInv, EventType
<1>2. info' = info \/ \E t \in Threads : TakeLog(t)
  BY DEF Next, Call, Tick, Vanish, vars, history, BeginExport, EndExport, BeginFlush, SendInvalid, SendEvent,
         AddEvent, Sort, StoreSorted, PutOk, PutNotFound, Create, Raise, Renew
<1> QED
  BY <1>1, <1>2 DEF LogOf

LEMMA SumKept ==
  ASSUME NEW q, \A i \in DOMAIN q : LogOf(q[i])' = LogOf(q[i])
  PROVE  Sum(q)' = Sum(q)
<1>1. [i \in DOMAIN q |-> SizeOf(LogOf(q[i]))]' = [i \in DOMAIN q |-> SizeOf(LogOf(q[i]))]
  BY DEF SizeOf
<1> QED
  BY <1>1 DEF Sum

LEMMA FitsKept ==
  ASSUME NEW b, \A e \in Range(b.events) : LogOf(e)' = LogOf(e), Fits(b)
  PROVE  Fits(b)'
<1>1. Sum(b.events)' = Sum(b.events)
  BY SumKept DEF Range
<1> QED
  BY <1>1 DEF Fits, Stamp

LEMMA OrderKept ==
  ASSUME NEW q, \A e \in Range(q) : LogOf(e)' = LogOf(e), InOrder(q) PROVE InOrder(q)'
  BY DEF InOrder, Stamp, Range

(* An empty batch fits, and any event fits into it.                        *)
LEMMA EmptyFits ==
  ASSUME NEW time \in Int
  PROVE  /\ Fits(EmptyBatch(time))
         /\ \A log : SizeOf(log) \in Nat /\ SizeOf(log) <= MaxBytes => RoomFor(EmptyBatch(time), log)
<1>1. /\ EmptyBatch(time).events = <<>> /\ EmptyBatch(time).byteTotal = 0
      /\ EmptyBatch(time).minStamp = 0 /\ EmptyBatch(time).maxStamp = 0
  BY DEF EmptyBatch
<1>2. Len(<<>>) = 0 /\ Range(<<>>) = {} /\ Sum(<<>>) = 0 /\ MaxEvents > 0 /\ MaxBytes \in Nat /\ MaxEvents \in Nat
  BY ListFacts, SumEmpty, LimitsAssumption
<1> QED
  BY <1>1, <1>2 DEF Fits, RoomFor, ExceedsLimit

(* The check of the limits and of the time span is what an event needs.    *)
LEMMA ActiveRoom ==
  ASSUME NEW b \in BatchType, b.events # <<>> => b.minStamp > 0 /\ b.minStamp <= b.maxStamp,
         NEW log, ~ExceedsLimit(b, log), IsActive(b, log)
  PROVE  RoomFor(b, log)
<1>1. b.minStamp \in Nat /\ b.maxStamp \in Nat
  BY DEF BatchType
<1> QED
  BY <1>1 DEF RoomFor, IsActive

LEMMA AddFits ==
  ASSUME TInv, NEW b \in BatchType, \A d \in Range(b.events) : fate[d] = "accepted",
         NEW e \in Events, fate[e] # "new", Stamp(e) > 0, Fits(b), RoomFor(b, LogOf(e))
  PROVE  Fits(Added(b, e))
<1>1. /\ b.events \in Seq(Events) /\ b.byteTotal \in Nat /\ b.minStamp \in Nat /\ b.maxStamp \in Nat
      /\ Len(b.events) \in Nat
  BY LenProperties DEF BatchType
<1>2. Stamp(e) \in Nat /\ SizeOf(LogOf(e)) \in Nat
  BY LogFacts DEF Stamp
<1>3. /\ Added(b, e).events = Append(b.events, e)
      /\ Added(b, e).byteTotal = b.byteTotal + SizeOf(LogOf(e))
      /\ Added(b, e).minStamp = IF b.minStamp = 0 \/ Stamp(e) < b.minStamp THEN Stamp(e) ELSE b.minStamp
      /\ Added(b, e).maxStamp = IF Stamp(e) > b.maxStamp THEN Stamp(e) ELSE b.maxStamp
  BY <1>2, AddedFacts DEF Stamp
<1>4. Sum(Append(b.events, e)) = Sum(b.events) + SizeOf(LogOf(e))
  <2>1. \A d \in Range(b.events) \cup {e} : SizeOf(LogOf(d)) \in Nat
    BY <1>1, <1>2, ListFacts, LogFacts
  <2> QED
    BY <1>1, <2>1, SumAppend
<1>5. /\ Len(Append(b.events, e)) = Len(b.events) + 1 /\ Append(b.events, e) # <<>>
      /\ Range(Append(b.events, e)) = Range(b.events) \cup {e}
  BY <1>1, ListFacts
<1>6. /\ Len(b.events) + 1 <= MaxEvents /\ b.byteTotal + SizeOf(LogOf(e)) <= MaxBytes /\ Day \in Nat
  BY SMTT(30), <1>1, <1>2, LimitsAssumption DEF RoomFor, ExceedsLimit
<1>7. \A d \in Range(b.events) : Stamp(d) \in Nat /\ b.minStamp <= Stamp(d) /\ Stamp(d) <= b.maxStamp
  BY <1>1, ListFacts, LogFacts DEF Fits, Stamp
<1>8. CASE b.events = <<>>
  <2>1. b.minStamp = 0 /\ b.maxStamp = 0 /\ Range(b.events) = {}
    BY <1>8, ListFacts DEF Fits
  <2>2. Added(b, e).minStamp = Stamp(e) /\ Added(b, e).maxStamp = Stamp(e)
    BY <1>2, <1>3, <2>1
  <2> QED
    BY <1>2, <1>3, <1>4, <1>5, <1>6, <2>1, <2>2 DEF Fits
<1>9. CASE b.events # <<>>
  <2>1. /\ b.minStamp > 0 /\ b.minStamp <= b.maxStamp /\ b.maxStamp - b.minStamp <= Day
        /\ Stamp(e) - b.minStamp <= Day /\ b.maxStamp - Stamp(e) <= Day
    BY <1>9 DEF Fits, RoomFor, Stamp
  <2> DEFINE m == Added(b, e).minStamp
             w == Added(b, e).maxStamp
  <2>2. /\ m > 0 /\ m <= w /\ w - m <= Day /\ m <= b.minStamp /\ b.maxStamp <= w
        /\ m <= Stamp(e) /\ Stamp(e) <= w /\ m \in Nat /\ w \in Nat
    BY SMTT(30), <1>1, <1>2, <1>3, <1>6, <2>1
  <2>3. \A d \in Range(b.events) \cup {e} : m <= Stamp(d) /\ Stamp(d) <= w
    <3> HIDE DEF m, w
    <3> QED
      BY <1>1, <1>7, <2>2
  <2> QED
    BY <1>1, <1>2, <1>3, <1>4, <1>5, <1>6, <2>2, <2>3 DEF Fits
<1> QED
  BY <1>8, <1>9

(* A call that rests, and one that is over.                                *)
LEMMA CallKept ==
  ASSUME TInv, [Next]_vars, NEW t \in Threads, CallFits(t), UNCHANGED <<batch, heap>>,
         pc'[t] = pc[t], op'[t] = op[t], hand'[t] = hand[t], copy'[t] = copy[t]
  PROVE  CallFits(t)'
<1>a. pc[t] \in Places
  BY DEF TInv, CallerType
<1>b. \A e \in Events : fate[e] # "new" => LogOf(e)' = LogOf(e)
  BY LogsKept
<1>c. Inside(t) => batch \in Batches
  BY DEF TInv, PlaceInv, ClientType
<1>d. Inside(t) => \A e \in Range(heap[batch].events) : LogOf(e)' = LogOf(e)
  BY <1>b, <1>c, HeapFacts, ListFacts
<1>e. Inside(t) => \A e \in Range(copy[t]) : LogOf(e)' = LogOf(e)
  BY <1>b, HeapFacts, ListFacts
<1>f. Sending(t) => LogOf(hand[t])' = LogOf(hand[t])
  <2>1. Sending(t) => hand[t] \in Events /\ fate[hand[t]] = "held"
    BY DEF TInv, PlaceInv, EventInv, CallerType
  <2> QED
    BY <1>b, <2>1
<1>1. (Sending(t) => Stamp(hand[t]) > 0)'
  BY <1>f DEF CallFits, Sending, Inside, Stamp
<1>2. (pc[t] = "add" => RoomFor(heap[batch], LogOf(hand[t])))'
  <2>1. pc[t] = "add" => Sending(t)
    BY DEF TInv, PlaceInv, Sending, Inside
  <2> QED
    BY <1>f, <2>1 DEF CallFits
<1>3. (pc[t] = "sorted" => /\ InOrder(copy[t]) /\ Sum(copy[t]) = Sum(heap[batch].events)
                           /\ Len(copy[t]) = Len(heap[batch].events))'
  <2>1. pc[t] = "sorted" => Inside(t)
    BY DEF Inside
  <2>2. Inside(t) => Sum(copy[t])' = Sum(copy[t]) /\ Sum(heap[batch].events)' = Sum(heap[batch].events)
    BY <1>d, <1>e, SumKept DEF Range
  <2> QED
    BY <1>e, <2>1, <2>2, OrderKept DEF CallFits
<1>4. (pc[t] \in {"put", "create", "retry"} => InOrder(heap[batch].events))'
  <2>1. pc[t] \in {"put", "create", "retry"} => Inside(t)
    BY DEF Inside
  <2> QED
    BY <1>d, <2>1, OrderKept DEF CallFits
<1> QED
  BY <1>1, <1>2, <1>3, <1>4 DEF CallFits

LEMMA CallOver == ASSUME NEW t \in Threads, ~Inside(t)' PROVE CallFits(t)'
  BY DEF CallFits, Sending, Inside

(* One thread is in the client: the others have nothing to keep to.        *)
LEMMA LimitStep ==
  TInv /\ TInv' /\ AloneInv /\ AloneInv' /\ LimitInv /\ [Next]_vars => LimitInv'
<1> SUFFICES ASSUME TInv, TInv', AloneInv, AloneInv', LimitInv, [Next]_vars, ~overlap'
             PROVE  (batch' # None => Fits(heap[batch])') /\ \A t \in Threads : CallFits(t)'
  BY DEF LimitInv
<1>a. ~overlap
  BY StillAlone
<1>b. Alone /\ AtBatch /\ Alone' /\ AtBatch' /\ (batch # None => Fits(heap[batch])) /\ \A t \in Threads : CallFits(t)
  BY <1>a DEF AloneInv, LimitInv
<1>c. /\ pc \in [Threads -> Places] /\ cur \in [Threads -> Batches \cup {None}]
      /\ op \in [Threads -> {"send", "flush"}] /\ hand \in [Threads -> Events \cup {None}]
      /\ copy \in [Threads -> Seq(Events)] /\ heap \in [Batches -> BatchType] /\ now \in Int
      /\ batch \in Batches \cup {None} /\ None \notin Batches
  <2>1. now \in Int
    BY LimitsAssumption DEF TInv, ClientType
  <2> QED
    BY <2>1, NoneFacts DEF TInv, ClientType, CallerType
<1>e. \A e \in Events : fate[e] # "new" => LogOf(e)' = LogOf(e)
  BY LogsKept
<1>f. /\ \A b \in Batches : \A e \in Range(heap[b].events) : e \in Events /\ fate[e] = "accepted" /\ LogOf(e)' = LogOf(e)
      /\ \A t \in Threads : \A e \in Range(copy[t]) : e \in Events /\ fate[e] = "accepted" /\ LogOf(e)' = LogOf(e)
  <2>1. \A q \in Seq(Events) : \A e \in Range(q) : e \in Events
    BY ListFacts
  <2> QED
    BY <1>e, <2>1, HeapFacts
<1>g. batch # None => Fits(heap[batch])' \/ heap'[batch] # heap[batch] \/ batch' # batch
  <2>1. ASSUME batch # None, heap'[batch] = heap[batch], batch' = batch PROVE Fits(heap[batch])'
    BY <1>b, <1>c, <1>f, <2>1, FitsKept
  <2> QED
    BY <2>1
<1>h. \A t \in Threads : Sending(t) /\ hand'[t] = hand[t] => LogOf(hand[t])' = LogOf(hand[t])
  <2>1. \A t \in Threads : Sending(t) => hand[t] \in Events /\ fate[hand[t]] = "held"
    BY DEF TInv, PlaceInv, EventInv, CallerType
  <2> QED
    BY <1>e, <2>1
<1> DEFINE Rests(t) == pc'[t] = pc[t] /\ op'[t] = op[t] /\ hand'[t] = hand[t] /\ copy'[t] = copy[t]
<1>d. UNCHANGED client /\ (\A t \in Threads : Rests(t) \/ ~Inside(t)')
        => (batch' # None => Fits(heap[batch])') /\ \A t \in Threads : CallFits(t)'
  <2> SUFFICES ASSUME UNCHANGED client, \A t \in Threads : Rests(t) \/ ~Inside(t)'
               PROVE  (batch' # None => Fits(heap[batch])') /\ \A t \in Threads : CallFits(t)'
    OBVIOUS
  <2>1. ASSUME NEW t \in Threads PROVE CallFits(t)'
    BY <1>b, CallKept, CallOver DEF client
  <2> QED
    BY <1>g, <2>1 DEF client
<1>1. ASSUME NEW t \in Threads, Call(t)
      PROVE  (batch' # None => Fits(heap[batch])') /\ \A u \in Threads : CallFits(u)'
  <2>a. Inside(t)' => \A u \in Threads \ {t} : CallFits(u)'
    <3>1. Inside(t)' => \A u \in Threads \ {t} : ~Inside(u)'
      BY <1>b DEF Alone
    <3> QED
      BY <3>1, CallOver
  <2>1. CASE BeginExport(t) \/ EndExport(t)
    <3>1. /\ UNCHANGED <<client, op, hand, copy>>
          /\ \E p \in {"out", "export"} : pc' = [pc EXCEPT ![t] = p]
      BY <2>1 DEF BeginExport, EndExport, Go
    <3> QED
      BY <3>1, <1>c, <1>d DEF Inside
  <2>2. CASE SendInvalid(t)
    BY <2>2, <1>d DEF SendInvalid
  <2>3. CASE SendEvent(t)
    <3> DEFINE log == LogsOf[data[t]][next[t]]
    <3>0. PICK e \in Events : e = used + 1
      BY <2>3, TakeFacts DEF SendEvent
    <3>1. /\ Valid(log) /\ TakeLog(t) /\ used' = e /\ e \in Events /\ info' = [info EXCEPT ![e] = <<data[t], next[t]>>]
          /\ hand' = [hand EXCEPT ![t] = e] /\ op' = [op EXCEPT ![t] = "send"]
      BY <2>3, <3>0, TakeFacts DEF SendEvent, TakeLog
    <3>2. LogOf(e)' = log
      <4>1. info'[e] = <<data[t], next[t]>>
        BY <3>1 DEF TInv, EventType
      <4> QED
        BY <4>1 DEF LogOf
    <3>3. log \in Range(LogsOf[data[t]]) /\ data[t] \in DOMAIN Data
      BY <3>1, TakeFacts DEF Range
    <3>4. log.stamp \in Nat /\ SizeOf(log) \in Nat /\ SizeOf(log) <= MaxBytes
      <4>1. log.stamp \in Nat /\ SizeOf(log) \in 1..MaxBytes
        BY <3>3, LogsAssumption, Zenon
      <4> QED
        BY <4>1, LimitsAssumption
    <3>5. log.stamp > 0
      <4>1. now - log.stamp <= Past /\ now >= Start /\ Start > Past /\ Start \in Int /\ Past \in Int
        BY <3>1, LimitsAssumption DEF Valid, TInv, ClientType
      <4> QED
        BY <1>c, <3>4, <4>1
    <3>6. /\ pc' = [pc EXCEPT ![t] = IF ExceedsLimit(heap'[batch'], log) \/ ~IsActive(heap'[batch'], log) THEN "sort" ELSE "add"]
          /\ batch' # None /\ batch' \in Batches /\ Fits(heap[batch])'
      <4>1. CASE batch = None
        <5>1. batch' = Fresh /\ heap' = [heap EXCEPT ![Fresh] = EmptyBatch(now)]
          BY <2>3, <4>1 DEF SendEvent
        <5>2. Fresh \in Batches /\ heap'[Fresh] = EmptyBatch(now)
          BY <5>1, <1>c, FreshEffect
        <5>3. ASSUME NEW b, b = EmptyBatch(now) PROVE Fits(b)'
          BY <1>c, <5>3, ListFacts, EmptyFits, EmptyBatchFacts, FitsKept
        <5> QED
          BY <2>3, <1>c, <5>1, <5>2, <5>3 DEF SendEvent, Go
      <4>2. CASE batch # None
        <5>1. UNCHANGED client
          BY <2>3, <4>2 DEF SendEvent
        <5> QED
          BY <2>3, <1>c, <1>g, <4>2, <5>1 DEF SendEvent, Go, client
      <4> QED
        BY <4>1, <4>2
    <3>7. heap'[batch'] \in BatchType /\ (heap'[batch'].events # <<>> => heap'[batch'].minStamp > 0 /\ heap'[batch'].minStamp <= heap'[batch'].maxStamp)
      BY <3>6 DEF Fits, TInv, ClientType
    <3>8. pc'[t] \in {"sort", "add"} /\ (pc'[t] = "add" => RoomFor(heap'[batch'], log))
      <4>1. pc'[t] = IF ExceedsLimit(heap'[batch'], log) \/ ~IsActive(heap'[batch'], log) THEN "sort" ELSE "add"
        BY <1>c, <3>6
      <4> HIDE DEF log
      <4> QED
        BY <3>7, <4>1, ActiveRoom
    <3>9. hand'[t] = e /\ Stamp(hand[t])' > 0 /\ LogOf(hand[t])' = log
      BY <1>c, <3>1, <3>2, <3>5 DEF Stamp
    <3>10. CallFits(t)'
      <4> HIDE DEF log
      <4> QED
        BY <3>8, <3>9 DEF CallFits
    <3>11. Inside(t)'
      BY <3>8 DEF Inside
    <3> QED
      BY <2>a, <3>6, <3>10, <3>11
  <2>4. CASE BeginFlush(t)
    <3>1. /\ UNCHANGED client /\ op' = [op EXCEPT ![t] = "flush"] /\ pc' = [pc EXCEPT ![t] = "sort"]
          /\ batch # None
      BY <2>4 DEF BeginFlush, Go
    <3>2. Inside(t)' /\ CallFits(t)'
      BY <1>c, <3>1 DEF CallFits, Sending, Inside
    <3>3. Fits(heap[batch])'
      BY <1>g, <3>1 DEF client
    <3> QED
      BY <2>a, <3>2, <3>3
  <2>5. CASE AddEvent(t)
    <3>1. /\ Sending(t) /\ Inside(t) /\ pc[t] = "add" /\ hand[t] \in Events /\ fate[hand[t]] = "held"
          /\ pc' = [pc EXCEPT ![t] = "export"] /\ UNCHANGED batch
          /\ heap' = [heap EXCEPT ![cur[t]] = Added(heap[cur[t]], hand[t])]
      BY <2>5, AddFacts DEF AddEvent, Leave, Go, Inside, Sending
    <3>2. batch # None /\ batch \in Batches /\ cur[t] = batch /\ \A u \in Threads \ {t} : ~Inside(u)
      BY <3>1, <1>b, AloneFacts
    <3>3. Fits(Added(heap[batch], hand[t]))
      BY <3>1, <3>2, <1>b, <1>c, <1>f, AddFits DEF CallFits
    <3>4. heap'[batch] = Added(heap[batch], hand[t])
      BY <3>1, <3>2, <1>c
    <3>5. \A e \in Range(heap'[batch].events) : LogOf(e)' = LogOf(e)
      BY <2>5, <3>1, <3>2, <1>e, <1>f, AddEffect
    <3>6. Fits(heap[batch])'
      BY <3>1, <3>3, <3>4, <3>5, FitsKept
    <3>7. \A u \in Threads : ~Inside(u)'
      BY <3>1, <3>2, <1>c DEF Inside
    <3> QED
      BY <3>6, <3>7, CallOver
  <2>6. CASE Sort(t)
    <3>1. /\ Inside(t) /\ pc[t] = "sort" /\ UNCHANGED <<batch, heap, op, hand>> /\ cur[t] = batch
      BY <2>6, <1>b DEF Sort, Inside, AtBatch, client
    <3>2. /\ batch # None /\ batch \in Batches /\ heap[batch].events \in Seq(Events)
      BY <3>1, <1>b, AloneFacts
    <3>3. Fits(heap[batch])'
      BY <1>g, <3>1, <3>2
    <3>4. Sending(t) => Stamp(hand[t]) > 0 /\ LogOf(hand[t])' = LogOf(hand[t])
      BY <3>1, <1>b, <1>h DEF CallFits
    <3>5. CASE heap[batch].events = <<>>
      <4>1. pc'[t] = "renew"
        BY <2>6, <3>1, <3>5, <1>c DEF Sort, Go
      <4>2. CallFits(t)' /\ Inside(t)'
        BY <3>1, <3>4, <4>1 DEF CallFits, Sending, Inside, Stamp
      <4> QED
        BY <2>a, <3>3, <4>2
    <3>6. CASE heap[batch].events # <<>>
      <4> DEFINE q == heap[batch].events
      <4>1. pc'[t] = "sorted" /\ copy'[t] = Sorted(q)
        BY <2>6, <3>1, <3>6, <1>c DEF Sort, Go
      <4>2. /\ Sum(Sorted(q)) = Sum(q) /\ Len(Sorted(q)) = Len(q) /\ Range(Sorted(q)) = Range(q)
            /\ Sorted(q) \in Seq(Events)
        BY <3>2, <1>f, SumSorted, SortedEvents
      <4>3. InOrder(Sorted(q))
        <5>1. Sorted(q) # <<>>
          BY <3>2, <3>6, <4>2, ListFacts
        <5> QED
          BY <3>2, <1>f, <5>1, SortedEvents DEF InOrder, Stamp
      <4>4. \A e \in Range(q) : LogOf(e)' = LogOf(e)
        BY <3>2, <1>f
      <4>5. Sum(copy[t])' = Sum(Sorted(q)) /\ Sum(heap[batch].events)' = Sum(q) /\ InOrder(copy[t])'
        BY <3>1, <4>1, <4>2, <4>3, <4>4, SumKept, OrderKept DEF Range
      <4>6. CallFits(t)' /\ Inside(t)'
        BY <3>1, <3>4, <4>1, <4>2, <4>5 DEF CallFits, Sending, Inside, Stamp
      <4> QED
        BY <2>a, <3>3, <4>6
    <3> QED
      BY <3>5, <3>6
  <2>7. CASE StoreSorted(t)
    <3>1. /\ Inside(t) /\ pc[t] = "sorted" /\ UNCHANGED <<batch, op, hand>> /\ pc' = [pc EXCEPT ![t] = "put"]
          /\ heap' = [heap EXCEPT ![cur[t]] = [heap[cur[t]] EXCEPT !.events = copy[t]]]
      BY <2>7 DEF StoreSorted, Inside, Go
    <3>2. batch # None /\ batch \in Batches /\ cur[t] = batch /\ Range(copy[t]) = Range(heap[batch].events)
      BY <3>1, <1>b, AloneFacts DEF AtBatch
    <3>3. /\ InOrder(copy[t]) /\ Sum(copy[t]) = Sum(heap[batch].events) /\ Len(copy[t]) = Len(heap[batch].events)
          /\ copy[t] # <<>> /\ copy[t] \in Seq(Events) /\ heap[batch].events # <<>>
      BY <3>1, <3>2, <1>b, <1>c, ListFacts DEF CallFits, InOrder
    <3>4. /\ heap'[batch].events = copy[t] /\ heap'[batch].byteTotal = heap[batch].byteTotal
          /\ heap'[batch].minStamp = heap[batch].minStamp /\ heap'[batch].maxStamp = heap[batch].maxStamp
      <4>1. heap'[batch] = [heap[batch] EXCEPT !.events = copy[t]] /\ heap[batch] \in BatchType
        BY <3>1, <3>2, <1>c
      <4> QED
        BY <4>1 DEF BatchType
    <3>5. Fits(heap'[batch])
      BY <3>2, <3>3, <3>4, <1>b DEF Fits
    <3>6. \A e \in Range(heap'[batch].events) : LogOf(e)' = LogOf(e)
      BY <3>4, <1>f
    <3>7. Fits(heap[batch])' /\ InOrder(heap[batch].events)'
      BY <3>1, <3>3, <3>4, <3>5, <3>6, FitsKept, OrderKept
    <3>8. CallFits(t)' /\ Inside(t)'
      <4>1. pc'[t] = "put" /\ (Sending(t) => LogOf(hand[t])' = LogOf(hand[t]) /\ Stamp(hand[t]) > 0)
        BY <3>1, <1>b, <1>c, <1>h DEF CallFits
      <4> QED
        BY <3>1, <3>7, <4>1 DEF CallFits, Sending, Inside, Stamp
    <3> QED
      BY <2>a, <3>7, <3>8
  <2>8. CASE PutOk(t) \/ PutNotFound(t) \/ Create(t)
    <3>1. /\ Inside(t) /\ UNCHANGED <<batch, heap, op, hand>>
          /\ \/ pc' = [pc EXCEPT ![t] = "renew"]
             \/ pc[t] \in {"put", "create"} /\ \E p \in {"create", "retry"} : pc' = [pc EXCEPT ![t] = p]
      BY <2>8 DEF PutOk, PutNotFound, Create, Inside, Go, client
    <3>2. batch # None /\ batch \in Batches
      BY <3>1, <1>b, AloneFacts
    <3>3. Fits(heap[batch])'
      BY <1>g, <3>1, <3>2
    <3>4. Sending(t) => Stamp(hand[t]) > 0 /\ LogOf(hand[t])' = LogOf(hand[t])
      BY <3>1, <1>b, <1>h DEF CallFits
    <3>5. pc[t] \in {"put", "create"} => InOrder(heap[batch].events)'
      BY <3>1, <3>2, <1>b, <1>f, OrderKept DEF CallFits
    <3>6. CallFits(t)' /\ Inside(t)'
      <4>1. pc'[t] = "renew" \/ (pc[t] \in {"put", "create"} /\ pc'[t] \in {"create", "retry"})
        BY <3>1, <1>c
      <4> QED
        BY <3>1, <3>4, <3>5, <4>1 DEF CallFits, Sending, Inside, Stamp
    <3> QED
      BY <2>a, <3>3, <3>6
  <2>9. CASE Raise(t)
    <3>1. Inside(t) /\ UNCHANGED client /\ pc' = [pc EXCEPT ![t] = "out"]
      BY <2>9 DEF Raise, Leave, Inside, Go
    <3>2. \A u \in Threads \ {t} : ~Inside(u)
      BY <3>1, <1>b, AloneFacts
    <3>3. \A u \in Threads : ~Inside(u)'
      BY <3>1, <3>2, <1>c DEF Inside
    <3> QED
      BY <3>1, <3>3, <1>d
  <2>10. CASE Renew(t)
    <3>1. /\ Inside(t) /\ batch' = Fresh /\ heap' = [heap EXCEPT ![Fresh] = EmptyBatch(now)]
          /\ \/ op[t] = "send" /\ pc' = [pc EXCEPT ![t] = "add"] /\ UNCHANGED <<op, hand>>
             \/ pc' = [pc EXCEPT ![t] = "out"]
      BY <2>10 DEF Renew, Inside, Leave, Go
    <3>2. Fresh \in Batches /\ heap'[Fresh] = EmptyBatch(now)
      BY <3>1, <1>c, FreshEffect
    <3>3. Fits(heap[batch])'
      <4>1. ASSUME NEW b, b = EmptyBatch(now) PROVE Fits(b)'
        BY <1>c, <4>1, ListFacts, EmptyFits, EmptyBatchFacts, FitsKept
      <4> QED
        BY <3>1, <3>2, <4>1
    <3>4. CASE op[t] = "send" /\ pc' = [pc EXCEPT ![t] = "add"] /\ UNCHANGED <<op, hand>>
      <4>1. Sending(t) /\ hand[t] \in Events /\ fate[hand[t]] = "held"
        BY <3>1, <3>4, HandsApart DEF Sending, TInv, EventInv, PlaceInv
      <4>2. SizeOf(LogOf(hand[t])) \in Nat /\ SizeOf(LogOf(hand[t])) <= MaxBytes
        BY <4>1, LogFacts
      <4>3. RoomFor(EmptyBatch(now), LogOf(hand[t]))
        BY <1>c, <4>2, EmptyFits
      <4>4. LogOf(hand[t])' = LogOf(hand[t]) /\ Stamp(hand[t]) > 0
        BY <3>4, <4>1, <1>b, <1>h DEF CallFits
      <4>5. pc'[t] = "add"
        BY <3>4, <1>c
      <4>6. CallFits(t)' /\ Inside(t)'
        BY <3>1, <3>2, <3>4, <4>3, <4>4, <4>5 DEF CallFits, Inside, Stamp
      <4> QED
        BY <2>a, <3>3, <4>6
    <3>5. CASE pc' = [pc EXCEPT ![t] = "out"]
      <4>1. \A u \in Threads \ {t} : ~Inside(u)
        BY <3>1, <1>b, AloneFacts
      <4>2. \A u \in Threads : ~Inside(u)'
        BY <3>5, <4>1, <1>c DEF Inside
      <4> QED
        BY <3>3, <4>2, CallOver
    <3> QED
      BY <3>1, <3>4, <3>5
  <2> QED
    BY <1>1, <2>1, <2>2, <2>3, <2>4, <2>5, <2>6, <2>7, <2>8, <2>9, <2>10 DEF Call
<1>2. CASE Tick \/ Vanish \/ UNCHANGED vars
  <2>1. UNCHANGED <<client, pc, op, hand, copy>>
    BY <1>2 DEF Tick, Vanish, vars, callers
  <2> QED
    BY <2>1, <1>d
<1> QED
  BY <1>1, <1>2 DEF Next

(* Every request keeps to the limits of PutLogEvents on events and bytes,  *)
(* spans at most 24 hours and is in order of time, while no two threads    *)
(* are in the client at once.                                              *)
THEOREM RequestsWithinLimits == Spec => []RequestOK
<1>1. Init => AloneInv
  BY ListFacts, NoneFacts DEF Init, AloneInv, Alone, AtBatch, Kept, Inside
<1>2. Init => LimitInv
  BY DEF Init, LimitInv, CallFits, Sending, Inside
<1>3. TInv /\ AloneInv /\ LimitInv => RequestOK
  <2> SUFFICES ASSUME TInv, AloneInv, LimitInv, NEW t \in Threads, pc[t] \in {"put", "retry"}, ~overlap
               PROVE  LET q == Request(t) IN
                        /\ Len(q) \in 1..MaxEvents
                        /\ Sum(q) <= MaxBytes
                        /\ \A i, j \in DOMAIN q : i < j => /\ LogOf(q[i]).stamp <= LogOf(q[j]).stamp
                                                        /\ LogOf(q[j]).stamp - LogOf(q[i]).stamp <= Day
    BY DEF RequestOK
  <2> DEFINE b == heap[batch]
             q == b.events
  <2>1. Inside(t) /\ Alone /\ AtBatch /\ Fits(b) /\ InOrder(q) /\ batch # None
    BY DEF AloneInv, LimitInv, CallFits, Inside, TInv, PlaceInv
  <2>2. Request(t) = q /\ q \in Seq(Events) /\ batch \in Batches
    BY <2>1, AloneFacts
  <2>3. b \in BatchType /\ \A e \in Range(q) : Stamp(e) \in Nat /\ b.minStamp <= Stamp(e) /\ Stamp(e) <= b.maxStamp
    BY <2>1, <2>2, HeapFacts, ListFacts, LogFacts DEF Fits, Stamp
  <2>4. b.maxStamp - b.minStamp <= Day /\ b.minStamp \in Nat /\ b.maxStamp \in Nat /\ Day \in Nat
    BY <2>1, <2>3, LimitsAssumption DEF Fits, InOrder, BatchType
  <2>5. Len(q) \in 1..MaxEvents
    <3>1. Len(q) \in Nat /\ Len(q) # 0 /\ Len(q) <= MaxEvents
      BY <2>1, <2>2, LenProperties, EmptySeq DEF InOrder, Fits
    <3> QED
      BY <3>1, LimitsAssumption
  <2>6. Sum(q) <= MaxBytes
    BY <2>1 DEF Fits
  <2>7. ASSUME NEW i \in DOMAIN q, NEW j \in DOMAIN q, i < j
        PROVE  Stamp(q[i]) <= Stamp(q[j]) /\ Stamp(q[j]) - Stamp(q[i]) <= Day
    <3>1. q[i] \in Range(q) /\ q[j] \in Range(q)
      BY DEF Range
    <3> HIDE DEF q, b
    <3>2. Stamp(q[i]) <= Stamp(q[j])
      BY <2>1, <2>7 DEF InOrder
    <3> QED
      BY <2>3, <2>4, <3>1, <3>2
  <2> HIDE DEF q, b
  <2> QED
    BY <2>2, <2>5, <2>6, <2>7 DEF Stamp
<1> QED
  BY <1>1, <1>2, <1>3, AloneStep, LimitStep, Inductive, PTL DEF Spec

-----------------------------------------------------------------------------
(* What an export was given: it has an event for each log it has taken,    *)
(* and each of them is decided, but for the one it is sending.             *)

Settled(e) == fate[e] \in {"invalid", "accepted"}

TakenInv ==
  /\ taken \in [Threads -> SUBSET Events]
  /\ \A t \in Threads : exportLock = t =>
       \A l \in Nat : l > 0 /\ l < next[t] =>
         \E e \in taken[t] : info[e] = <<data[t], l>> /\ (Settled(e) \/ e = hand[t])
ToldInv ==
  \A x \in told : /\ x.data \in DOMAIN Data
                  /\ \A l \in DOMAIN LogsOf[x.data] :
                       \E e \in x.events : e \in Events /\ info[e] = <<x.data, l>> /\ Settled(e)

LEMMA SettledKept ==
  ASSUME TInv, [Next]_vars, NEW e \in Events, Settled(e)
  PROVE  Settled(e)' /\ info'[e] = info[e]
<1>1. fate \in [Events -> Fates] /\ info \in [Events -> (DOMAIN Data \cup {None}) \X Nat]
  BY DEF TInv, EventType
<1>2. CASE UNCHANGED <<fate, info>>
  BY <1>2 DEF Settled
<1>3. ASSUME NEW t \in Threads, SendInvalid(t) \/ SendEvent(t) PROVE Settled(e)' /\ info'[e] = info[e]
  <2>1. TakeLog(t) /\ \E f \in {"invalid", "held"} : fate' = [fate EXCEPT ![used'] = f]
    BY <1>3 DEF SendInvalid, SendEvent
  <2>2. fate[used'] = "new" /\ info' = [info EXCEPT ![used'] = <<data[t], next[t]>>]
    BY <2>1, TakeFacts DEF TakeLog
  <2> QED
    BY <1>1, <2>1, <2>2 DEF Settled
<1>4. ASSUME NEW t \in Threads, AddEvent(t) \/ Raise(t) PROVE Settled(e)' /\ info'[e] = info[e]
  <2>1. info' = info /\ (fate' = fate \/ \E f \in {"failed", "accepted"} : fate' = [fate EXCEPT ![hand[t]] = f])
    BY <1>4 DEF AddEvent, Raise
  <2>2. fate' # fate => hand[t] # e
    <3>1. fate' # fate => Sending(t)
      BY <1>4, AddFacts DEF AddEvent, Raise, Sending, Inside
    <3>2. Sending(t) => fate[hand[t]] = "held"
      BY DEF TInv, PlaceInv, EventInv
    <3> QED
      BY <3>1, <3>2 DEF Settled
  <2> QED
    BY <1>1, <2>1, <2>2 DEF Settled
<1> QED
  BY <1>2, <1>3, <1>4
  DEF Next, Call, Tick, Vanish, vars, history, BeginExport, EndExport, BeginFlush,
      Sort, StoreSorted, PutOk, PutNotFound, Create, Renew

(* The next log of an export is an event of it.                            *)
LEMMA TakeTaken ==
  ASSUME TInv, [Next]_vars, TakenInv, NEW t \in Threads, SendInvalid(t) \/ SendEvent(t)
  PROVE  TakenInv'
<1>1. /\ TakeLog(t) /\ exportLock = t /\ exportLock' = exportLock /\ used' = used + 1 /\ used + 1 \in Events
      /\ next[t] \in Nat /\ pc[t] = "export" /\ UNCHANGED data
  BY TakeFacts DEF SendInvalid, SendEvent, TakeLog
<1>2. /\ info' = [info EXCEPT ![used + 1] = <<data[t], next[t]>>] /\ next' = [next EXCEPT ![t] = @ + 1]
      /\ taken' = [taken EXCEPT ![t] = @ \cup {used + 1}]
  BY <1>1 DEF TakeLog
<1>3. hand[t] = None /\ None \notin Events
  BY <1>1, NoneFacts DEF TInv, PlaceInv, Sending, Inside
<1>4. taken \in [Threads -> SUBSET Events] /\ taken' \in [Threads -> SUBSET Events]
  BY <1>1, <1>2 DEF TakenInv
<1>5. info'[used + 1] = <<data[t], next[t]>> /\ next'[t] = next[t] + 1 /\ taken'[t] = taken[t] \cup {used + 1}
  BY <1>1, <1>2, <1>4 DEF TInv, EventType, CallerType
<1>6. \A e \in Events : e = used + 1 => Settled(e)' \/ e = hand'[t]
  <2>1. CASE SendInvalid(t)
    BY <1>1, <2>1 DEF SendInvalid, Settled, TInv, EventType
  <2>2. CASE SendEvent(t)
    BY <1>1, <2>2 DEF SendEvent, TInv, CallerType
  <2> QED
    BY <2>1, <2>2
<1>7. ASSUME NEW l \in Nat, l > 0, l < next[t] + 1
      PROVE  \E e \in taken'[t] : info'[e] = <<data[t], l>> /\ (Settled(e)' \/ e = hand'[t])
  <2>1. CASE l = next[t]
    BY <1>1, <1>5, <1>6, <2>1
  <2>2. CASE l # next[t]
    <3>1. l < next[t]
      BY <1>1, <1>7, <2>2
    <3>2. PICK e \in taken[t] : info[e] = <<data[t], l>> /\ (Settled(e) \/ e = hand[t])
      BY <1>1, <1>7, <3>1 DEF TakenInv
    <3>3. e \in Events /\ Settled(e)
      BY <1>3, <1>4, <3>2
    <3>4. Settled(e)' /\ info'[e] = info[e]
      BY <3>3, SettledKept
    <3> QED
      BY <1>5, <3>2, <3>4
  <2> QED
    BY <2>1, <2>2
<1>8. ASSUME NEW u \in Threads, exportLock' = u, NEW l \in Nat, l > 0, l < next'[u]
      PROVE  \E e \in taken'[u] : info'[e] = <<data'[u], l>> /\ (Settled(e)' \/ e = hand'[u])
  <2>1. u = t /\ data' = data
    BY <1>1, <1>8
  <2>2. l < next[t] + 1
    BY <1>5, <1>8, <2>1
  <2> QED
    BY <1>7, <1>8, <2>1, <2>2
<1> QED
  BY <1>4, <1>8 DEF TakenInv

LEMMA TakenStep == TInv /\ TakenInv /\ [Next]_vars => TakenInv'
<1> SUFFICES ASSUME TInv, TakenInv, [Next]_vars PROVE TakenInv'
  OBVIOUS
<1>a. /\ taken \in [Threads -> SUBSET Events] /\ hand \in [Threads -> Events \cup {None}]
      /\ next \in [Threads -> Nat] /\ fate \in [Events -> Fates] /\ None \notin Events
  BY NoneFacts DEF TakenInv, TInv, CallerType, EventType
<1>b. \A e \in Events : Settled(e) => Settled(e)' /\ info'[e] = info[e]
  BY SettledKept
<1>c. ASSUME taken' \in [Threads -> SUBSET Events],
             \A u \in Threads : exportLock' = u =>
               /\ exportLock = u /\ taken'[u] = taken[u] /\ data'[u] = data[u] /\ next'[u] = next[u]
               /\ \A e \in Events : e = hand[u] => Settled(e)' \/ e = hand'[u],
             info' = info
      PROVE  TakenInv'
  <2>1. ASSUME NEW u \in Threads, exportLock' = u, NEW l \in Nat, l > 0, l < next'[u]
        PROVE  \E e \in taken'[u] : info'[e] = <<data'[u], l>> /\ (Settled(e)' \/ e = hand'[u])
    <3>1. /\ exportLock = u /\ taken'[u] = taken[u] /\ data'[u] = data[u] /\ next'[u] = next[u]
          /\ \A e \in Events : e = hand[u] => Settled(e)' \/ e = hand'[u]
      BY <1>c, <2>1
    <3>2. PICK e \in taken[u] : info[e] = <<data[u], l>> /\ (Settled(e) \/ e = hand[u])
      BY <2>1, <3>1 DEF TakenInv
    <3>3. e \in Events
      BY <1>a, <3>2
    <3> QED
      BY <1>a, <1>b, <1>c, <3>1, <3>2, <3>3
  <2> QED
    BY <1>c, <2>1 DEF TakenInv
<1>1. ASSUME NEW t \in Threads, Call(t) PROVE TakenInv'
  <2>1. CASE BeginExport(t)
    <3>1. exportLock' = t /\ UNCHANGED <<taken, next>> /\ exportLock = Free /\ Free \notin Threads
      BY <2>1, ThreadsAssumption DEF BeginExport, history
    <3>2. next'[t] = 1
      BY <3>1 DEF TInv, RoomInv
    <3> QED
      BY <1>a, <3>1, <3>2 DEF TakenInv
  <2>2. CASE EndExport(t)
    <3>1. exportLock' = Free /\ Free \notin Threads /\ taken' = [taken EXCEPT ![t] = {}]
      BY <2>2, ThreadsAssumption DEF EndExport
    <3> QED
      BY <1>a, <3>1 DEF TakenInv
  <2>3. CASE SendInvalid(t) \/ SendEvent(t)
    BY <2>3, TakeTaken
  <2>4. CASE AddEvent(t)
    <3>1. /\ UNCHANGED <<taken, data, next, exportLock, info>> /\ fate' = [fate EXCEPT ![hand[t]] = "accepted"]
          /\ hand' = [hand EXCEPT ![t] = None] /\ hand[t] \in Events
      BY <2>4, AddFacts DEF AddEvent, Leave, exports
    <3>2. fate'[hand[t]] = "accepted" /\ \A u \in Threads : u # t => hand'[u] = hand[u]
      BY <1>a, <3>1
    <3>3. \A u \in Threads : \A e \in Events : e = hand[u] => Settled(e)' \/ e = hand'[u]
      BY <3>2 DEF Settled
    <3> QED
      BY <1>a, <1>c, <3>1, <3>3
  <2>5. CASE BeginFlush(t) \/ Sort(t) \/ StoreSorted(t) \/ PutOk(t) \/ PutNotFound(t) \/ Create(t)
    <3>1. UNCHANGED <<taken, data, next, hand, exportLock, info>>
      BY <2>5 DEF BeginFlush, Sort, StoreSorted, PutOk, PutNotFound, Create, exports, history
    <3> QED
      BY <1>a, <1>c, <3>1
  <2>6. CASE Raise(t)
    <3>1. CASE op[t] = "send"
      <4>1. exportLock' = Free /\ Free \notin Threads /\ taken' = [taken EXCEPT ![t] = {}]
        BY <2>6, <3>1, ThreadsAssumption DEF Raise
      <4> QED
        BY <1>a, <4>1 DEF TakenInv
    <3>2. CASE op[t] # "send"
      <4>1. /\ UNCHANGED <<taken, data, next, exportLock, info>> /\ hand' = [hand EXCEPT ![t] = None]
        BY <2>6, <3>2 DEF Raise, exports, Leave
      <4>2. hand[t] = None
        BY <3>2 DEF TInv, PlaceInv, Sending
      <4> QED
        BY <1>a, <1>c, <4>1, <4>2
    <3> QED
      BY <3>1, <3>2
  <2>7. CASE Renew(t)
    <3>1. /\ UNCHANGED <<taken, data, next, exportLock, info>>
          /\ hand' = hand \/ (op[t] # "send" /\ hand' = [hand EXCEPT ![t] = None])
      BY <2>7 DEF Renew, exports, Leave
    <3>2. op[t] # "send" => hand[t] = None
      BY DEF TInv, PlaceInv, Sending
    <3> QED
      BY <1>a, <1>c, <3>1, <3>2
  <2> QED
    BY <1>1, <2>1, <2>2, <2>3, <2>4, <2>5, <2>6, <2>7 DEF Call
<1>2. CASE Tick \/ Vanish \/ UNCHANGED vars
  <2>1. UNCHANGED <<taken, data, next, hand, exportLock, info>>
    BY <1>2 DEF Tick, Vanish, vars, callers, exports, history
  <2> QED
    BY <1>a, <1>c, <2>1
<1> QED
  BY <1>1, <1>2 DEF Next

(* An export is told when it has taken all its logs and sends none.        *)
LEMMA ToldStep == TInv /\ TakenInv /\ ToldInv /\ [Next]_vars => ToldInv'
<1> SUFFICES ASSUME TInv, TakenInv, ToldInv, [Next]_vars PROVE ToldInv'
  OBVIOUS
<1>1. ASSUME NEW x \in told
      PROVE  /\ x.data \in DOMAIN Data
             /\ \A l \in DOMAIN LogsOf[x.data] :
                  \E e \in x.events : e \in Events /\ info'[e] = <<x.data, l>> /\ Settled(e)'
  BY SettledKept DEF ToldInv
<1>2. CASE told' = told
  BY <1>1, <1>2 DEF ToldInv
<1>3. ASSUME NEW t \in Threads, EndExport(t) PROVE ToldInv'
  <2>1. /\ pc[t] = "export" /\ next[t] > Len(LogsOf[data[t]]) /\ UNCHANGED <<info, fate>>
        /\ told' = told \cup {[data |-> data[t], events |-> taken[t]]}
    BY <1>3 DEF EndExport
  <2>2. exportLock = t /\ data[t] \in DOMAIN Data /\ hand[t] = None /\ None \notin Events
    BY <2>1, NoneFacts DEF TInv, PlaceInv, RoomInv, Sending, Inside
  <2>3. DOMAIN LogsOf[data[t]] = 1..Len(LogsOf[data[t]]) /\ Len(LogsOf[data[t]]) \in Nat /\ next[t] \in Nat
    <3>1. LogsOf[data[t]] \in Seq(Range(LogsOf[data[t]]))
      BY <2>2, LogsAssumption
    <3>2. next[t] \in Nat
      BY DEF TInv, CallerType
    <3> QED
      BY <3>1, <3>2, LenProperties
  <2>4. ASSUME NEW l \in DOMAIN LogsOf[data[t]]
        PROVE  \E e \in taken[t] : e \in Events /\ info'[e] = <<data[t], l>> /\ Settled(e)'
    <3>1. l \in Nat /\ l > 0 /\ l < next[t]
      BY <2>1, <2>3, <2>4
    <3>2. PICK e \in taken[t] : info[e] = <<data[t], l>> /\ (Settled(e) \/ e = hand[t])
      BY <2>2, <3>1 DEF TakenInv
    <3>3. e \in Events
      BY <3>2 DEF TakenInv
    <3>4. Settled(e)'
      BY <2>1, <2>2, <3>2, <3>3 DEF Settled
    <3> QED
      BY <2>1, <3>2, <3>3, <3>4
  <2>5. ASSUME NEW x \in told'
        PROVE  /\ x.data \in DOMAIN Data
               /\ \A l \in DOMAIN LogsOf[x.data] :
                    \E e \in x.events : e \in Events /\ info'[e] = <<x.data, l>> /\ Settled(e)'
    <3>1. CASE x \in told
      BY <1>1, <3>1
    <3>2. CASE x.data = data[t] /\ x.events = taken[t]
      BY <2>2, <2>4, <3>2
    <3>3. x \in told \/ x = [data |-> data[t], events |-> taken[t]]
      BY <2>1, <2>5
    <3>4. x \in told \/ (x.data = data[t] /\ x.events = taken[t])
      BY <3>3
    <3> QED
      BY <3>1, <3>2, <3>4
  <2> QED
    BY <2>5 DEF ToldInv
<1>4. told' = told \/ \E t \in Threads : EndExport(t)
  BY DEF Next, Call, Tick, Vanish, vars, history, BeginExport, BeginFlush, SendInvalid, SendEvent, TakeLog,
         AddEvent, Sort, StoreSorted, PutOk, PutNotFound, Create, Raise, Renew
<1> QED
  BY <1>2, <1>3, <1>4

-----------------------------------------------------------------------------
(* The conversion: what a log tells.                                       *)

(* A set of naturals that is not empty has a least.                        *)
LEMMA Least == ASSUME NEW S \in SUBSET Nat, S # {} PROVE \E q \in S : \A r \in S : q <= r
<1> DEFINE R == OpToRel(<, Nat)
<1>1. IsWellFoundedOn(R, Nat)
  BY NatLessThanWellFounded
<1>2. \A r \in Nat, n \in Nat : r < n => <<r, n>> \in R
  BY Zenon DEF OpToRel
<1> HIDE DEF R
<1>3. PICK q \in S : \A r \in S : ~(<<r, q>> \in R)
  BY <1>1, WFMin
<1>4. \A r \in S : ~(r < q)
  BY <1>2, <1>3, Zenon
<1> QED
  BY <1>4

(* Those goes over the sequence, one element after the other.              *)
LEMMA ThoseSteps ==
  ASSUME NEW s, NEW set, Len(s) \in Nat
  PROVE  \E f : /\ f[0] = <<>>
                /\ \A n \in 1..Len(s) : f[n] = IF s[n] \in set THEN Append(f[n - 1], s[n]) ELSE f[n - 1]
                /\ Those(s, set) = f[Len(s)]
<1> DEFINE N == Len(s)
           Step(f, n) == IF n = 0 THEN <<>>
                         ELSE IF s[n] \in set THEN Append(f[n - 1], s[n]) ELSE f[n - 1]
           Upto(m) == \E f : f = [n \in 0..m |-> Step(f, n)]
           kept == CHOOSE f : f = [n \in 0..N |-> Step(f, n)]
<1>1. Those(s, set) = kept[N]
  BY DEF Those
<1> HIDE DEF Step
<1>2. Upto(N)
  <2> DEFINE Bad == { m \in 0..N : ~Upto(m) }
  <2> SUFFICES ASSUME Bad # {} PROVE FALSE
    OBVIOUS
  <2>1. Bad \in SUBSET Nat
    OBVIOUS
  <2>2. PICK m \in Bad : \A r \in Bad : m <= r
    BY <2>1, Least
  <2>3. m \in 0..N /\ ~Upto(m)
    BY <2>2
  <2>4. CASE m = 0
    <3> DEFINE g == [n \in 0..0 |-> Step(<<>>, n)]
    <3>1. g = [n \in 0..0 |-> Step(g, n)]
      BY DEF Step
    <3> HIDE DEF g
    <3> QED
      BY <2>3, <2>4, <3>1
  <2>5. CASE m # 0
    <3>1. m - 1 \in 0..N /\ m - 1 \notin Bad
      BY <2>2, <2>5
    <3>2. PICK f : f = [n \in 0..(m - 1) |-> Step(f, n)]
      BY <3>1
    <3> DEFINE g == [n \in 0..m |-> IF n = m THEN Step(f, m) ELSE f[n]]
    <3>3. \A n \in 0..m : Step(g, n) = Step(f, n)
      BY <2>3, <2>5 DEF Step
    <3>4. \A n \in 0..m : g[n] = Step(f, n)
      BY <2>3, <3>2
    <3>5. g = [n \in 0..m |-> Step(g, n)]
      <4>1. DOMAIN g = 0..m /\ g = [n \in 0..m |-> g[n]]
        OBVIOUS
      <4> HIDE DEF g
      <4> QED
        BY <3>3, <3>4, <4>1
    <3> HIDE DEF g
    <3> QED
      BY <2>3, <3>5
  <2> QED
    BY <2>4, <2>5
<1>3. kept = [n \in 0..N |-> Step(kept, n)]
  BY <1>2, Zenon
<1> HIDE DEF kept
<1>4. \A n \in 0..N : kept[n] = Step(kept, n)
  BY <1>3
<1> QED
  BY <1>1, <1>4 DEF Step

LEMMA ThoseFacts ==
  ASSUME NEW S, NEW s \in Seq(S), NEW set
  PROVE  /\ Those(s, set) \in Seq(S) /\ Len(Those(s, set)) \in Nat /\ DOMAIN Those(s, set) = 1..Len(Those(s, set))
         /\ Range(Those(s, set)) = Range(s) \cap set
<1> DEFINE N == Len(s)
           Upto(n) == { s[i] : i \in 1..n } \cap set
<1>1. N \in Nat /\ DOMAIN s = 1..N
  BY LenProperties
<1>2. PICK f : /\ f[0] = <<>>
               /\ \A n \in 1..N : f[n] = IF s[n] \in set THEN Append(f[n - 1], s[n]) ELSE f[n - 1]
               /\ Those(s, set) = f[N]
  BY <1>1, ThoseSteps
<1> DEFINE Good(n) == f[n] \in Seq(S) /\ Range(f[n]) = Upto(n)
           Bad == { n \in 0..N : ~Good(n) }
<1>3. Good(0)
  <2>1. Upto(0) = {}
    OBVIOUS
  <2>2. <<>> \in Seq(S) /\ Range(<<>>) = {}
    BY DEF Range
  <2> HIDE DEF Upto
  <2> QED
    BY <1>2, <2>1, <2>2
<1>4. ASSUME NEW m \in 1..N, Good(m - 1) PROVE Good(m)
  <2> DEFINE g == f[m - 1]
             e == s[m]
  <2>1. g \in Seq(S) /\ Range(g) = Upto(m - 1) /\ e \in S
    BY <1>1, <1>4, ElementOfSeq
  <2>2. f[m] = IF e \in set THEN Append(g, e) ELSE g
    BY <1>2
  <2>3. Upto(m) = Upto(m - 1) \cup ({e} \cap set)
    <3>1. 1..m = 1..(m - 1) \cup {m}
      BY <1>1
    <3> QED
      BY <3>1
  <2> HIDE DEF Upto, g, e
  <2>4. Append(g, e) \in Seq(S) /\ Range(Append(g, e)) = Range(g) \cup {e}
    <3>1. /\ Append(g, e) \in Seq(S) /\ Len(Append(g, e)) = Len(g) + 1 /\ Append(g, e)[Len(g) + 1] = e
          /\ \A i \in 1..Len(g) : Append(g, e)[i] = g[i]
      BY <2>1, AppendProperties
    <3>2. Len(g) \in Nat /\ DOMAIN g = 1..Len(g) /\ DOMAIN Append(g, e) = 1..Len(Append(g, e))
      BY <2>1, <3>1, LenProperties
    <3> DEFINE t == Append(g, e)
    <3> HIDE DEF t
    <3>3. \A i \in DOMAIN t : t[i] \in Range(g) \cup {e}
      BY <3>1, <3>2 DEF t, Range
    <3>4. (\A i \in DOMAIN g : g[i] \in Range(t)) /\ e \in Range(t)
      BY <3>1, <3>2 DEF t, Range
    <3>5. Range(t) = Range(g) \cup {e}
      BY <3>3, <3>4 DEF Range
    <3> QED
      BY <3>1, <3>5 DEF t
  <2>5. f[m] \in Seq(S) /\ Range(f[m]) = Upto(m)
    BY <2>1, <2>2, <2>3, <2>4
  <2> QED
    BY <2>5
<1>5. Good(N)
  <2> HIDE DEF Good
  <2> SUFFICES ASSUME Bad # {} PROVE FALSE
    BY <1>1
  <2>1. Bad \in SUBSET Nat
    BY <1>1
  <2>2. PICK n \in Bad : \A r \in Bad : n <= r
    BY <2>1, Least
  <2>3. n \in 1..N /\ n - 1 \notin Bad /\ n - 1 \in 0..N
    BY <1>1, <1>3, <2>2
  <2> QED
    BY <1>4, <2>2, <2>3
<1>6. Upto(N) = Range(s) \cap set
  BY <1>1 DEF Range
<1>7. f[N] \in Seq(S) /\ Range(f[N]) = Range(s) \cap set
  BY <1>5, <1>6
<1> QED
  BY <1>2, <1>7, LenProperties

(* export goes over the scopes.                                            *)
LEMMA LogsSteps ==
  ASSUME NEW s, Len(s) \in Nat
  PROVE  \E f : /\ f[0] = <<>>
                /\ \A n \in 1..Len(s) : f[n] = f[n - 1] \o ScopeLogs(s[n])
                /\ EmfLogs(s) = f[Len(s)]
<1> DEFINE N == Len(s)
           Step(f, n) == IF n = 0 THEN <<>>
                         ELSE f[n - 1] \o ScopeLogs(s[n])
           Upto(m) == \E f : f = [n \in 0..m |-> Step(f, n)]
           logs == CHOOSE f : f = [n \in 0..N |-> Step(f, n)]
<1>1. EmfLogs(s) = logs[N]
  BY DEF EmfLogs
<1> HIDE DEF Step
<1>2. Upto(N)
  <2> DEFINE Bad == { m \in 0..N : ~Upto(m) }
  <2> SUFFICES ASSUME Bad # {} PROVE FALSE
    OBVIOUS
  <2>1. Bad \in SUBSET Nat
    OBVIOUS
  <2>2. PICK m \in Bad : \A r \in Bad : m <= r
    BY <2>1, Least
  <2>3. m \in 0..N /\ ~Upto(m)
    BY <2>2
  <2>4. CASE m = 0
    <3> DEFINE g == [n \in 0..0 |-> Step(<<>>, n)]
    <3>1. g = [n \in 0..0 |-> Step(g, n)]
      BY DEF Step
    <3> HIDE DEF g
    <3> QED
      BY <2>3, <2>4, <3>1
  <2>5. CASE m # 0
    <3>1. m - 1 \in 0..N /\ m - 1 \notin Bad
      BY <2>2, <2>5
    <3>2. PICK f : f = [n \in 0..(m - 1) |-> Step(f, n)]
      BY <3>1
    <3> DEFINE g == [n \in 0..m |-> IF n = m THEN Step(f, m) ELSE f[n]]
    <3>3. \A n \in 0..m : Step(g, n) = Step(f, n)
      BY <2>3, <2>5 DEF Step
    <3>4. \A n \in 0..m : g[n] = Step(f, n)
      BY <2>3, <3>2
    <3>5. g = [n \in 0..m |-> Step(g, n)]
      <4>1. DOMAIN g = 0..m /\ g = [n \in 0..m |-> g[n]]
        OBVIOUS
      <4> HIDE DEF g
      <4> QED
        BY <3>3, <3>4, <4>1
    <3> HIDE DEF g
    <3> QED
      BY <2>3, <3>5
  <2> QED
    BY <2>4, <2>5
<1>3. logs = [n \in 0..N |-> Step(logs, n)]
  BY <1>2, Zenon
<1> HIDE DEF logs
<1>4. \A n \in 0..N : logs[n] = Step(logs, n)
  BY <1>3
<1>5. logs[0] = <<>>
  BY <1>4 DEF Step
<1>6. ASSUME NEW n \in 1..N PROVE logs[n] = logs[n - 1] \o ScopeLogs(s[n])
  <2>1. n # 0 /\ n \in 0..N
    OBVIOUS
  <2>2. n # 0 => Step(logs, n) = logs[n - 1] \o ScopeLogs(s[n])
    BY Zenon DEF Step
  <2> QED
    BY <1>4, <2>1, <2>2
<1> QED
  BY <1>1, <1>5, <1>6

(* The buckets of an exponential histogram that are told are those that    *)
(* have a count.                                                           *)
LEMMA BucketsFacts ==
  ASSUME NEW sign, NEW side, side.counts \in Seq(Nat)
  PROVE  LET all == { <<sign, side.offset + i - 1, side.counts[i]>> : i \in DOMAIN side.counts }
         IN  Buckets(sign, side) \in Seq(all) /\ Range(Buckets(sign, side)) = { b \in all : b[3] > 0 }
<1> DEFINE all == { <<sign, side.offset + i - 1, side.counts[i]>> : i \in DOMAIN side.counts }
           s == [i \in DOMAIN side.counts |-> <<sign, side.offset + i - 1, side.counts[i]>>]
           some == { b \in Range(s) : b[3] > 0 }
<1>1. Len(side.counts) \in Nat /\ DOMAIN side.counts = 1..Len(side.counts)
  BY LenProperties
<1>2. Range(s) = all
  BY DEF Range
<1>3. s \in Seq(all)
  <2>1. s \in [1..Len(side.counts) -> all]
    BY <1>1
  <2> QED
    BY <1>1, <2>1, SeqDef
<1>4. Buckets(sign, side) = Those(s, some)
  BY DEF Buckets
<1> HIDE DEF all, s
<1>5. Those(s, some) \in Seq(all) /\ Range(Those(s, some)) = Range(s) \cap some
  BY <1>3, ThoseFacts
<1>6. Range(s) \cap some = { b \in all : b[3] > 0 }
  BY <1>2
<1> QED
  BY <1>4, <1>5, <1>6 DEF all

LEMMA HistogramFacts ==
  ASSUME NEW p, p.zero \in Nat, p.positive.counts \in Seq(Nat), p.negative.counts \in Seq(Nat), p.kind = "exponential"
  PROVE  Range(ExpHistogram(p)) = { b \in Measured(p) : b[3] > 0 }
<1> DEFINE P == { <<1, p.positive.offset + i - 1, p.positive.counts[i]>> : i \in DOMAIN p.positive.counts }
           N == { <<-1, p.negative.offset + i - 1, p.negative.counts[i]>> : i \in DOMAIN p.negative.counts }
           z == <<0, 0, p.zero>>
           zero == IF p.zero > 0 THEN <<z>> ELSE <<>>
           pos == Buckets(1, p.positive)
           neg == Buckets(-1, p.negative)
           T == P \cup N \cup {z}
<1>1. pos \in Seq(P) /\ Range(pos) = { b \in P : b[3] > 0 }
  BY BucketsFacts
<1>2. neg \in Seq(N) /\ Range(neg) = { b \in N : b[3] > 0 }
  BY BucketsFacts
<1>3. Measured(p) = T
  BY DEF Measured
<1>4. z[3] = p.zero
  OBVIOUS
<1>5. ExpHistogram(p) = (pos \o zero) \o neg
  BY DEF ExpHistogram
<1> HIDE DEF z, P, N, pos, neg
<1>6. zero \in Seq({z}) /\ Range(zero) = { b \in {z} : b[3] > 0 }
  <2>1. <<z>> \in Seq({z}) /\ Range(<<z>>) = {z} /\ <<>> \in Seq({z}) /\ Range(<<>>) = {}
    BY DEF Range
  <2>2. CASE p.zero > 0
    <3>1. zero = <<z>> /\ { b \in {z} : b[3] > 0 } = {z}
      BY <1>4, <2>2
    <3> QED
      BY <2>1, <3>1
  <2>3. CASE ~(p.zero > 0)
    <3>1. zero = <<>> /\ { b \in {z} : b[3] > 0 } = {}
      BY <1>4, <2>3
    <3> QED
      BY <2>1, <3>1
  <2> QED
    BY <2>2, <2>3
<1> HIDE DEF zero
<1>7. pos \in Seq(T) /\ neg \in Seq(T) /\ zero \in Seq(T)
  BY <1>1, <1>2, <1>6, SeqMonotonic
<1> HIDE DEF T
<1>8. pos \o zero \in Seq(T)
  BY <1>7, ConcatProperties
<1>9. Range((pos \o zero) \o neg) = Range(pos) \cup Range(zero) \cup Range(neg)
  <2>1. Range(pos \o zero) = Range(pos) \cup Range(zero)
    BY <1>7, RangeConcatenation
  <2> DEFINE both == pos \o zero
  <2>2. both \in Seq(T)
    BY <1>8
  <2> HIDE DEF both
  <2>3. Range(both \o neg) = Range(both) \cup Range(neg)
    BY <1>7, <2>2, RangeConcatenation
  <2> QED
    BY <2>1, <2>3 DEF both
<1>10. Range(pos) \cup Range(zero) \cup Range(neg) = { b \in T : b[3] > 0 }
  BY <1>1, <1>2, <1>6 DEF T
<1> QED
  BY <1>3, <1>5, <1>9, <1>10

LEMMA SameGroupFacts ==
  /\ \A r : SameGroup(r, r)
  /\ \A r, s : SameGroup(r, s) => SameGroup(s, r)
  /\ \A r, s, t : SameGroup(r, s) /\ SameGroup(s, t) => SameGroup(r, t)
BY DEF SameGroup

(* Each record is in the group of the first that is like it.               *)
LEMMA GroupFacts ==
  ASSUME NEW R, NEW records \in Seq(R), NEW i \in DOMAIN records
  PROVE  \E g \in DOMAIN Groups(records), j \in DOMAIN records :
           /\ Groups(records)[g] = Those(records, { r \in Range(records) : SameGroup(records[j], r) })
           /\ SameGroup(records[j], records[i])
<1> DEFINE N == Len(records)
           index == [k \in DOMAIN records |-> k]
           new == { k \in DOMAIN records : \A j \in 1..(k - 1) : ~SameGroup(records[j], records[k]) }
           first == Those(index, new)
           Like == { j \in DOMAIN records : SameGroup(records[j], records[i]) }
<1>1. N \in Nat /\ DOMAIN records = 1..N
  BY LenProperties
<1>2. PICK j \in Like : \A k \in Like : j <= k
  <2>1. i \in Like /\ Like \in SUBSET Nat
    BY <1>1, SameGroupFacts
  <2> QED
    BY <2>1, Least
<1>3. j \in DOMAIN records /\ SameGroup(records[j], records[i])
  BY <1>2
<1>4. j \in new
  <2> SUFFICES ASSUME NEW k \in 1..(j - 1), SameGroup(records[k], records[j]) PROVE FALSE
    BY <1>3
  <2>1. k \in DOMAIN records /\ k < j
    BY <1>1, <1>3
  <2>2. SameGroup(records[k], records[i])
    BY <1>3, SameGroupFacts
  <2> QED
    BY <1>1, <1>2, <1>3, <2>1, <2>2
<1>5. index \in Seq(1..N) /\ Range(index) = 1..N
  <2>1. index \in [1..N -> 1..N]
    BY <1>1
  <2>2. Range(index) = 1..N
    BY <1>1 DEF Range
  <2> QED
    BY <1>1, <2>1, <2>2, SeqDef
<1>6. Groups(records) = [g \in DOMAIN first |-> Those(records, { r \in Range(records) : SameGroup(records[first[g]], r) })]
  BY DEF Groups
<1> HIDE DEF index, new
<1>7. Range(first) = (1..N) \cap new
  BY <1>5, ThoseFacts
<1> HIDE DEF first
<1>8. PICK g \in DOMAIN first : first[g] = j
  BY <1>1, <1>3, <1>4, <1>7 DEF Range
<1> QED
  BY <1>3, <1>6, <1>8

(* Of records of one name there is a last one.                             *)
LEMMA LastFacts ==
  ASSUME NEW R, NEW records \in Seq(R), NEW i \in DOMAIN records
  PROVE  LastOf(records, records[i].name) \in DOMAIN records /\ records[LastOf(records, records[i].name)].name = records[i].name
<1> DEFINE N == Len(records)
           name == records[i].name
           S == { n \in 0..N : (N - n) \in DOMAIN records /\ records[N - n].name = name }
<1>1. N \in Nat /\ DOMAIN records = 1..N
  BY LenProperties
<1>2. PICK n \in S : \A m \in S : n <= m
  <2>1. N - i \in S /\ S \in SUBSET Nat
    BY <1>1
  <2> QED
    BY <2>1, Least
<1> DEFINE k == N - n
<1>3. k \in DOMAIN records /\ records[k].name = name
  BY <1>2
<1>4. ASSUME NEW j \in DOMAIN records, records[j].name = name PROVE j <= k
  <2>1. N - (N - j) = j /\ N - j \in 0..N
    BY <1>1
  <2>2. N - j \in S
    BY <1>4, <2>1
  <2>3. n <= N - j
    BY <1>2, <2>2
  <2> QED
    BY <1>1, <1>2, <2>3
<1> HIDE DEF k
<1> QED
  BY <1>3, <1>4 DEF LastOf

LEMMA JoinFacts ==
  ASSUME NEW f, NEW g
  PROVE  /\ \A k \in DOMAIN f : k \in DOMAIN (f ++ g) /\ (f ++ g)[k] = f[k]
         /\ \A k \in DOMAIN g : k \notin DOMAIN f => k \in DOMAIN (f ++ g) /\ (f ++ g)[k] = g[k]
<1>1. f ++ g = Joined(f, g)
  <2> DEFINE S == { Joined(a, b) : a \in {f}, b \in {g} }
  <2>1. S = {Joined(f, g)}
    OBVIOUS
  <2>2. f ++ g = CHOOSE h \in S : TRUE
    BY DEF ++
  <2> HIDE DEF S
  <2> QED
    BY <2>1, <2>2
<1> QED
  BY <1>1 DEF Joined

LEMMA ExtraFacts ==
  ASSUME NEW attributes
  PROVE  /\ DOMAIN Extra(attributes) \subseteq {"Service", "Environment"}
         /\ \A k \in DOMAIN attributes : k \notin DOMAIN Extra(attributes)
BY DEF Extra

(* What the log of a group has under the name of one of its metrics, and   *)
(* under its attributes.                                                   *)
LEMMA EmfLogFacts ==
  ASSUME NEW R, NEW records \in Seq(R), NEW r \in Range(records), IsWritten(r),
         \A s \in Range(records) : s.name = r.name /\ IsWritten(s) => s.value = r.value,
         r.name \notin DOMAIN records[1].attributes, r.name \notin DOMAIN Extra(records[1].attributes)
  PROVE  LET log == EmfLog(records)
             own == records[1].attributes
         IN  /\ log.stamp = records[1].stamp /\ log.dimensions = DOMAIN own \cup DOMAIN Extra(own)
             /\ \E i \in DOMAIN log.metrics : log.metrics[i] = r.name
             /\ log.fields[r.name] = r.value
             /\ \A k \in DOMAIN own : log.fields[k] = own[k]
<1> DEFINE some   == { s \in Range(records) : IsWritten(s) }
           written   == Those(records, some)
           names  == { written[i].name : i \in DOMAIN written }
           values == [name \in names |-> written[LastOf(written, name)].value]
           fields == values ++ Entry("Version", <<"text", "1">>)
           own    == records[1].attributes
           added  == Extra(own)
           log    == EmfLog(records)
<1>1. log = [stamp |-> records[1].stamp, metrics |-> [i \in DOMAIN written |-> written[i].name],
             fields |-> added ++ (own ++ fields), dimensions |-> DOMAIN own \cup DOMAIN added]
  BY DEF EmfLog
<1>2. written \in Seq(R) /\ Range(written) = Range(records) \cap some
  BY ThoseFacts
<1> HIDE DEF written
<1>3. PICK i \in DOMAIN written : written[i] = r
  <2>1. r \in Range(written)
    BY <1>2
  <2> QED
    BY <2>1 DEF Range
<1>4. LastOf(written, r.name) \in DOMAIN written /\ written[LastOf(written, r.name)].name = r.name
  BY <1>2, <1>3, LastFacts
<1> DEFINE last == written[LastOf(written, r.name)]
<1>5. last.value = r.value
  <2>1. last \in Range(written) /\ last.name = r.name
    BY <1>4 DEF Range
  <2> HIDE DEF last
  <2>2. last \in Range(records) /\ IsWritten(last)
    BY <1>2, <2>1
  <2> QED
    BY <2>1, <2>2
<1>6. r.name \in DOMAIN values /\ values[r.name] = r.value
  <2>1. r.name \in names
    BY <1>3
  <2> HIDE DEF names
  <2> QED
    BY <1>5, <2>1
<1> HIDE DEF values
<1>7. r.name \in DOMAIN fields /\ fields[r.name] = r.value
  <2> DEFINE e == Entry("Version", <<"text", "1">>)
  <2> HIDE DEF e
  <2>1. r.name \in DOMAIN (values ++ e) /\ (values ++ e)[r.name] = values[r.name]
    BY <1>6, JoinFacts
  <2> QED
    BY <1>6, <2>1 DEF e
<1> HIDE DEF fields
<1>8. r.name \notin DOMAIN own /\ r.name \notin DOMAIN added /\ \A k \in DOMAIN own : k \notin DOMAIN added
  BY ExtraFacts
<1> HIDE DEF own, added
<1> DEFINE both == own ++ fields
<1>9. r.name \in DOMAIN both /\ both[r.name] = r.value
  BY <1>7, <1>8, JoinFacts
<1>10. \A k \in DOMAIN own : k \in DOMAIN both /\ both[k] = own[k]
  BY JoinFacts
<1> HIDE DEF both
<1>11. (added ++ both)[r.name] = r.value
  BY <1>8, <1>9, JoinFacts
<1>12. \A k \in DOMAIN own : (added ++ both)[k] = own[k]
  BY <1>8, <1>10, JoinFacts
<1>13. log.fields = added ++ both
  BY <1>1 DEF both
<1>14. log.metrics = [n \in DOMAIN written |-> written[n].name] /\ log.stamp = records[1].stamp /\ log.dimensions = DOMAIN own \cup DOMAIN added
  BY <1>1
<1> HIDE DEF log
<1>15. \E n \in DOMAIN log.metrics : log.metrics[n] = r.name
  BY <1>3, <1>14
<1> QED
  BY <1>11, <1>12, <1>13, <1>14, <1>15 DEF log, own, added

(* The value of a record is what was measured.                             *)
LEMMA ValueFacts ==
  ASSUME NEW p, Tellable(p), IsPoint(p)
  PROVE  /\ Value(p) # <<>>
         /\ p.kind = "exponential" => Range(Value(p)[2]) = { b \in Measured(p) : b[3] > 0 }
         /\ p.kind # "exponential" => Value(p) = Measured(p)
<1>1. CASE p.kind = "exponential"
  <2>1. Range(ExpHistogram(p)) = { b \in Measured(p) : b[3] > 0 }
    BY <1>1, HistogramFacts DEF IsPoint
  <2>2. Value(p) = <<"buckets", ExpHistogram(p)>>
    BY <1>1 DEF Value
  <2> QED
    BY <1>1, <2>1, <2>2
<1>2. CASE p.kind \in {"gauge", "sum"}
  BY <1>2 DEF Value, Measured, Tellable
<1>3. CASE p.kind = "histogram"
  BY <1>3 DEF Value, Measured, IsPoint
<1> QED
  BY <1>1, <1>2, <1>3 DEF Tellable, Supported

LEMMA StampFacts ==
  ASSUME NEW t \in Nat
  PROVE  t \in (Milli * (t \div Milli))..(Milli * (t \div Milli) + Milli - 1)
BY MilliAssumption

(* Of the logs of a scope there is one that tells a point.                 *)
LEMMA ScopeTells ==
  ASSUME NEW points, points \in Seq(Range(points)), \A q \in Range(points) : Tellable(q) => IsPoint(q),
         \A q, s \in { x \in Range(points) : Tellable(x) } :
            q.name = s.name /\ q.attributes = s.attributes /\ q.time \div Milli = s.time \div Milli => q = s,
         NEW p \in Range(points), Tellable(p)
  PROVE  \E g \in DOMAIN ScopeLogs(points) : Tells(ScopeLogs(points)[g], p)
<1> DEFINE S == Range(points)
           known == Those(points, { x \in S : Supported(x) })
           records == [i \in DOMAIN known |-> Record(known[i])]
           groups == Groups(records)
           r == Record(p)
<1>1. ScopeLogs(points) = [g \in DOMAIN groups |-> EmfLog(groups[g])]
  BY DEF ScopeLogs
<1>2. /\ known \in Seq(S) /\ Len(known) \in Nat /\ DOMAIN known = 1..Len(known)
      /\ Range(known) = S \cap { x \in S : Supported(x) }
  BY ThoseFacts
<1>3. Range(known) = { x \in S : Supported(x) }
  BY <1>2
<1> HIDE DEF known
<1>4. PICK i \in DOMAIN known : known[i] = p
  <2>1. p \in Range(known)
    BY <1>3 DEF Tellable
  <2> QED
    BY <2>1 DEF Range
<1> DEFINE R == Range(records)
<1>5. records \in Seq(R) /\ i \in DOMAIN records /\ records[i] = r
  <2>1. records \in [1..Len(known) -> R]
    BY <1>2 DEF Range
  <2> QED
    BY <1>2, <1>4, <2>1, SeqDef
<1>6. \A x \in R : \E q \in S : Supported(q) /\ x = Record(q)
  <2>1. \A n \in DOMAIN known : known[n] \in S /\ Supported(known[n])
    BY <1>3 DEF Range
  <2> QED
    BY <2>1 DEF Range
<1> HIDE DEF records, r
<1>7. PICK g \in DOMAIN groups, j \in DOMAIN records :
        /\ groups[g] = Those(records, { x \in R : SameGroup(records[j], x) })
        /\ SameGroup(records[j], r)
  BY <1>5, GroupFacts
<1> DEFINE like == { x \in R : SameGroup(records[j], x) }
           own == groups[g]
<1>8. own \in Seq(R) /\ Len(own) \in Nat /\ DOMAIN own = 1..Len(own) /\ Range(own) = R \cap like
  BY <1>5, <1>7, ThoseFacts
<1>9. r \in Range(own)
  <2>1. r \in R
    BY <1>5 DEF Range
  <2> QED
    BY <1>7, <1>8, <2>1
<1>10. \A x \in Range(own) : x \in R /\ SameGroup(r, x)
  BY <1>7, <1>8, SameGroupFacts
<1> HIDE DEF own
<1>11. own[1] \in Range(own)
  <2>1. 1 \in DOMAIN own
    BY <1>8, <1>9 DEF Range
  <2> QED
    BY <2>1 DEF Range
<1>12. r.name = p.name /\ r.attributes = p.attributes /\ r.stamp = p.time \div Milli /\ r.value = Value(p)
  BY DEF r, Record
<1>13. own[1].attributes = p.attributes /\ own[1].stamp = p.time \div Milli
  BY <1>10, <1>11, <1>12 DEF SameGroup
<1>14. IsPoint(p) /\ Value(p) # <<>>
  BY ValueFacts
<1>15. ASSUME NEW x \in Range(own), x.name = r.name, IsWritten(x) PROVE x.value = r.value
  <2>1. PICK q \in S : Supported(q) /\ x = Record(q)
    BY <1>6, <1>10
  <2>2. x.name = q.name /\ x.attributes = q.attributes /\ x.stamp = q.time \div Milli /\ x.value = Value(q)
    BY <2>1 DEF Record
  <2>3. Tellable(q)
    BY <1>12, <1>15, <2>1, <2>2 DEF Tellable, Value, IsWritten
  <2>4. q.attributes = p.attributes /\ q.time \div Milli = p.time \div Milli
    BY <1>10, <1>12, <2>2 DEF SameGroup
  <2>5. q = p
    BY <1>12, <1>15, <2>2, <2>3, <2>4
  <2> QED
    BY <1>12, <2>2, <2>5
<1> DEFINE log == EmfLog(own)
<1>16. /\ log.stamp = own[1].stamp /\ log.dimensions = DOMAIN own[1].attributes \cup DOMAIN Extra(own[1].attributes)
       /\ \E n \in DOMAIN log.metrics : log.metrics[n] = r.name
       /\ log.fields[r.name] = r.value
       /\ \A k \in DOMAIN own[1].attributes : log.fields[k] = own[1].attributes[k]
  <2>1. IsWritten(r)
    BY <1>12, <1>14 DEF Tellable, IsWritten
  <2>2. r.name \notin DOMAIN own[1].attributes /\ r.name \notin DOMAIN Extra(own[1].attributes)
    BY <1>12, <1>13, <1>14 DEF IsPoint
  <2> QED
    BY <1>8, <1>9, <1>15, <2>1, <2>2, EmfLogFacts
<1> HIDE DEF log
<1>17. p.time \in (Milli * log.stamp)..(Milli * log.stamp + Milli - 1)
  <2>1. p.time \in Nat /\ log.stamp = p.time \div Milli
    BY <1>13, <1>14, <1>16 DEF IsPoint
  <2> QED
    BY <2>1, StampFacts
<1>18. /\ p.kind = "exponential" => Range(log.fields[p.name][2]) = { b \in Measured(p) : b[3] > 0 }
       /\ p.kind # "exponential" => log.fields[p.name] = Measured(p)
  <2>1. log.fields[p.name] = Value(p)
    BY <1>12, <1>16
  <2> QED
    BY <1>14, <2>1, ValueFacts
<1>19. /\ \A k \in DOMAIN p.attributes : k \in log.dimensions /\ log.fields[k] = p.attributes[k]
       /\ log.dimensions \subseteq DOMAIN p.attributes \cup {"Service", "Environment"}
  BY <1>13, <1>16, ExtraFacts
<1>20. Tells(log, p)
  BY <1>12, <1>16, <1>17, <1>18, <1>19 DEF Tells
<1> HIDE DEF groups
<1> QED
  BY <1>1, <1>7, <1>20 DEF log, own

LEMMA IsSeq ==
  ASSUME NEW n \in Nat, NEW t, DOMAIN t = 1..n, t = [k \in DOMAIN t |-> t[k]]
  PROVE  t \in Seq(Range(t))
<1>1. \A k \in 1..n : t[k] \in Range(t)
  BY DEF Range
<1>2. t \in [1..n -> Range(t)]
  BY <1>1
<1> QED
  BY <1>2, SeqDef

LEMMA ScopeLogsSeq ==
  ASSUME NEW points, points \in Seq(Range(points))
  PROVE  ScopeLogs(points) \in Seq(Range(ScopeLogs(points)))
<1> DEFINE known == Those(points, { x \in Range(points) : Supported(x) })
           records == [i \in DOMAIN known |-> Record(known[i])]
           groups == Groups(records)
           index == [i \in DOMAIN records |-> i]
           first == Those(index, { i \in DOMAIN records : \A j \in 1..(i - 1) : ~SameGroup(records[j], records[i]) })
           logs == [g \in DOMAIN groups |-> EmfLog(groups[g])]
<1>1. Len(known) \in Nat /\ DOMAIN known = 1..Len(known)
  BY ThoseFacts
<1>2. index \in Seq(1..Len(known))
  <2>1. index \in [1..Len(known) -> 1..Len(known)]
    BY <1>1
  <2> HIDE DEF index, known, records
  <2> QED
    BY <1>1, <2>1, SeqDef
<1>3. DOMAIN groups = DOMAIN first
  BY DEF Groups
<1> HIDE DEF index, known, records, groups
<1>4. Len(first) \in Nat /\ DOMAIN first = 1..Len(first)
  BY <1>2, ThoseFacts
<1>5. ScopeLogs(points) = logs
  BY DEF ScopeLogs, known, records, groups
<1> HIDE DEF first
<1>6. DOMAIN logs = 1..Len(first) /\ logs = [g \in DOMAIN logs |-> logs[g]]
  BY <1>3, <1>4
<1> HIDE DEF logs
<1> QED
  BY <1>4, <1>5, <1>6, IsSeq

(* The logs of each scope are among those of the export.                   *)
LEMMA LogsFacts ==
  ASSUME NEW scopes, scopes \in Seq(Range(scopes)), \A points \in Range(scopes) : points \in Seq(Range(points)),
         NEW i \in DOMAIN scopes, NEW g \in DOMAIN ScopeLogs(scopes[i])
  PROVE  \E l \in DOMAIN EmfLogs(scopes) : EmfLogs(scopes)[l] = ScopeLogs(scopes[i])[g]
<1> DEFINE N == Len(scopes)
           T == UNION { Range(ScopeLogs(points)) : points \in Range(scopes) }
           log == ScopeLogs(scopes[i])[g]
<1>1. N \in Nat /\ DOMAIN scopes = 1..N
  BY LenProperties
<1>2. PICK f : /\ f[0] = <<>>
               /\ \A n \in 1..N : f[n] = f[n - 1] \o ScopeLogs(scopes[n])
               /\ EmfLogs(scopes) = f[N]
  BY <1>1, LogsSteps
<1>3. ASSUME NEW n \in 1..N PROVE ScopeLogs(scopes[n]) \in Seq(T)
  <2> DEFINE own == ScopeLogs(scopes[n])
  <2>1. scopes[n] \in Range(scopes)
    BY <1>1 DEF Range
  <2>2. own \in Seq(Range(own))
    BY <2>1, ScopeLogsSeq
  <2>3. Range(own) \subseteq T
    BY <2>1
  <2> HIDE DEF own, T
  <2>4. own \in Seq(T)
    BY <2>2, <2>3, SeqMonotonic
  <2> QED
    BY <2>4 DEF own
<1>4. log \in Range(ScopeLogs(scopes[i]))
  BY DEF Range
<1> HIDE DEF T, log
<1> DEFINE Good(n) == f[n] \in Seq(T) /\ (i <= n => log \in Range(f[n]))
           Bad == { n \in 0..N : ~Good(n) }
<1>5. Good(0)
  BY <1>1, <1>2, EmptySeq
<1>6. ASSUME NEW n \in 1..N, Good(n - 1) PROVE Good(n)
  <2> DEFINE a == f[n - 1]
             b == ScopeLogs(scopes[n])
  <2>1. a \in Seq(T) /\ b \in Seq(T) /\ f[n] = a \o b
    BY <1>2, <1>3, <1>6
  <2>2. i <= n => i <= n - 1 \/ i = n
    BY <1>1
  <2>3. i <= n => log \in Range(a) \cup Range(b)
    BY <1>4, <1>6, <2>2
  <2> HIDE DEF a, b
  <2>4. a \o b \in Seq(T)
    BY <2>1, ConcatProperties
  <2>5. Range(a \o b) = Range(a) \cup Range(b)
    BY <2>1, RangeConcatenation
  <2> QED
    BY <2>1, <2>3, <2>4, <2>5
<1>7. Good(N)
  <2> HIDE DEF Good
  <2> SUFFICES ASSUME Bad # {} PROVE FALSE
    BY <1>1
  <2>1. Bad \in SUBSET Nat
    BY <1>1
  <2>2. PICK n \in Bad : \A r \in Bad : n <= r
    BY <2>1, Least
  <2>3. n \in 1..N /\ n - 1 \notin Bad /\ n - 1 \in 0..N
    BY <1>1, <1>5, <2>2
  <2> QED
    BY <1>6, <2>2, <2>3
<1>8. log \in Range(f[N])
  BY <1>1, <1>7
<1> QED
  BY <1>2, <1>8 DEF Range, log

(* The conversion of an export makes a log that tells each of its points,  *)
(* whatever scopes, groups and kinds of points there are.                  *)
THEOREM ExportTells ==
  ASSUME NEW scopes, IsExport(scopes), NEW p \in UNION { Range(points) : points \in Range(scopes) }, Tellable(p)
  PROVE  \E l \in DOMAIN EmfLogs(scopes) : Tells(EmfLogs(scopes)[l], p)
<1>1. PICK i \in DOMAIN scopes : p \in Range(scopes[i])
  BY DEF Range
<1> DEFINE points == scopes[i]
<1>2. points \in Range(scopes)
  BY DEF Range
<1>3. /\ points \in Seq(Range(points)) /\ \A q \in Range(points) : Tellable(q) => IsPoint(q)
      /\ \A q, s \in { x \in Range(points) : Tellable(x) } :
            q.name = s.name /\ q.attributes = s.attributes /\ q.time \div Milli = s.time \div Milli => q = s
  BY <1>2 DEF IsExport
<1> HIDE DEF points
<1>4. PICK g \in DOMAIN ScopeLogs(points) : Tells(ScopeLogs(points)[g], p)
  <2>1. p \in Range(points)
    BY <1>1 DEF points
  <2>2. \E g \in DOMAIN ScopeLogs(points) : Tells(ScopeLogs(points)[g], p)
    BY <1>3, <2>1, ScopeTells
  <2> QED
    BY <2>2
<1>5. PICK l \in DOMAIN EmfLogs(scopes) : EmfLogs(scopes)[l] = ScopeLogs(points)[g]
  <2>1. \E l \in DOMAIN EmfLogs(scopes) : EmfLogs(scopes)[l] = ScopeLogs(points)[g]
    BY LogsFacts DEF IsExport, points
  <2> QED
    BY <2>1
<1> QED
  BY <1>4, <1>5

LEMMA ConversionTells ==
  ASSUME NEW d \in DOMAIN Data, IsExport(Data[d]), NEW p \in PointsOf(d)
  PROVE  \E l \in DOMAIN LogsOf[d] : Tells(LogsOf[d][l], p)
BY ExportTells DEF PointsOf, LogsOf

(* Every point of an export that returned SUCCESS is told by one of the    *)
(* logs that are stored, pending, or were turned down for their age, while *)
(* no two threads are in the client at once: for any points that metrics   *)
(* of different names and attributes are.                                  *)
THEOREM PointsReported ==
  ASSUME \A d \in DOMAIN Data : IsExport(Data[d])
  PROVE  Spec => []PointsTold
<1>1. Init => AloneInv /\ TakenInv /\ ToldInv
  <2>1. Init => AloneInv
    BY ListFacts, NoneFacts DEF Init, AloneInv, Alone, AtBatch, Kept, Inside
  <2>2. Init => TakenInv /\ ToldInv
    BY ThreadsAssumption DEF Init, TakenInv, ToldInv
  <2> QED
    BY <2>1, <2>2
<1>2. AloneInv /\ ToldInv => PointsTold
  <2> SUFFICES ASSUME AloneInv, ToldInv, ~overlap, NEW x \in told, NEW p \in PointsOf(x.data)
               PROVE  \E e \in x.events :
                        /\ Tells(LogOf(e), p)
                        /\ fate[e] = "invalid" \/ stored[e] > 0 \/ Pending(e)
    BY DEF PointsTold
  <2>1. x.data \in DOMAIN Data
    BY DEF ToldInv
  <2>2. PICK l \in DOMAIN LogsOf[x.data] : Tells(LogsOf[x.data][l], p)
    BY <2>1, ConversionTells
  <2>3. PICK e \in x.events : e \in Events /\ info[e] = <<x.data, l>> /\ Settled(e)
    BY DEF ToldInv
  <2>4. LogOf(e) = LogsOf[x.data][l]
    BY <2>3 DEF LogOf
  <2>5. fate[e] = "invalid" \/ stored[e] > 0 \/ Pending(e)
    BY <2>3 DEF AloneInv, Kept, Settled
  <2> QED
    BY <2>2, <2>3, <2>4, <2>5
<1> QED
  BY <1>1, <1>2, AloneStep, TakenStep, ToldStep, Inductive, PTL DEF Spec
=============================================================================
