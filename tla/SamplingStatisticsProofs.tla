---------------------- MODULE SamplingStatisticsProofs ----------------------
(***************************************************************************)
(* The statistics of a sampling rule, for any number of threads, appliers, *)
(* documents and requests: no report counts more than was counted on its   *)
(* document, no document is reported twice, the reports together tell of   *)
(* no more than was sampled; and, while no applier is replaced under a     *)
(* request, a report is consistent and no increment is lost.               *)
(***************************************************************************)
EXTENDS SamplingStatistics, TotalsProofs

USE AppliersAssumption, DocsAssumption, RequestsAssumption, FreeAssumption

CounterDefs == RequestCount = 1 /\ BorrowCount = 2 /\ SampleCount = 3 /\ Counters = 1..3

(* The three counters, as the provers need them.                           *)
LEMMA CounterFacts == CounterDefs
  BY DEF CounterDefs, RequestCount, BorrowCount, SampleCount, Counters

LEMMA CounterRange ==
  /\ RequestCount \in Counters
  /\ \A c \in Counters : c # SampleCount => c + 1 \in Counters
  BY CounterFacts DEF CounterDefs

(* Three counters stay three counters when one of them is set.             *)
LEMMA CountsRules ==
  /\ Zero \in CountsType
  /\ \A f \in CountsType, c \in Counters : f[c] \in Nat
  /\ \A f \in CountsType, c \in Counters, n \in Nat : [f EXCEPT ![c] = n] \in CountsType
  BY DEF Zero, CountsType

(* The variables keep their types.                                         *)
LEMMA TypeStep == TypeOK /\ CountingInv /\ DocInv /\ [Next]_vars => TypeOK'
<1> SUFFICES ASSUME TypeOK, CountingInv, DocInv, [Next]_vars PROVE TypeOK'
  OBVIOUS
<1> USE CounterRange, CountsRules
<1>0. ObjectsType /\ ThreadsType /\ PollerType /\ HistoryType
  BY DEF TypeOK
<1>1. ASSUME NEW t \in Threads, Decide(t) PROVE TypeOK'
  <2>1. ObjectsType'
    BY <1>1, <1>0 DEF Decide, objects, threads, poller, history, ObjectsType
  <2>2. ThreadsType'
    <3>1. ASSUME NEW b \in {0, 1}, NEW s \in {0, 1}
          PROVE  [Zero EXCEPT ![RequestCount] = 1, ![BorrowCount] = b, ![SampleCount] = s] \in CountsType
      BY CounterFacts DEF CounterDefs, CountsType, Zero
    <3>a. PICK b \in {0, 1}, s \in {0, 1} :
            amount' = [amount EXCEPT ![t] =
                         [Zero EXCEPT ![RequestCount] = 1, ![BorrowCount] = b, ![SampleCount] = s]]
      BY <1>1 DEF Decide
    <3>2. amount' \in [Threads -> CountsType]
      BY <1>0, <3>a, <3>1 DEF ThreadsType
    <3> QED
      BY <1>1, <1>0, <3>2 DEF Decide, ThreadsType, ObjectsType
  <2>3. PollerType'
    BY <1>1, <1>0 DEF Decide, objects, threads, poller, history, PollerType
  <2>4. HistoryType'
    BY <1>1, <1>0 DEF Decide, objects, threads, poller, history, HistoryType
  <2> QED
    BY <2>1, <2>2, <2>3, <2>4 DEF TypeOK
<1>2. ASSUME NEW t \in Threads, Lock(t) PROVE TypeOK'
  <2>1. ObjectsType'
    BY <1>2, <1>0 DEF Lock, objects, threads, poller, history, ObjectsType
  <2>2. ThreadsType'
    BY <1>2, <1>0 DEF Lock, ThreadsType
  <2>3. PollerType'
    BY <1>2, <1>0 DEF Lock, objects, threads, poller, history, PollerType
  <2>4. HistoryType'
    BY <1>2, <1>0 DEF Lock, objects, threads, poller, history, HistoryType
  <2> QED
    BY <2>1, <2>2, <2>3, <2>4 DEF TypeOK
<1>3. ASSUME NEW t \in Threads, Load(t) PROVE TypeOK'
  <2>1. ObjectsType'
    BY <1>3, <1>0 DEF Load, objects, threads, poller, history, ObjectsType
  <2>2. ThreadsType'
    <3>1. mine[t] \in Appliers
      BY <1>3 DEF Load, CountingInv, InFlight, Created
    <3>2. counts[docOf[mine[t]]] \in CountsType /\ at[t] \in Counters
      BY <1>0, <3>1 DEF ObjectsType, ThreadsType
    <3>3. counts[docOf[mine[t]]][at[t]] \in Nat
      BY <3>2
    <3> QED
      BY <1>3, <1>0, <3>3 DEF Load, ThreadsType
  <2>3. PollerType'
    BY <1>3, <1>0 DEF Load, objects, threads, poller, history, PollerType
  <2>4. HistoryType'
    BY <1>3, <1>0 DEF Load, objects, threads, poller, history, HistoryType
  <2> QED
    BY <2>1, <2>2, <2>3, <2>4 DEF TypeOK
<1>4. ASSUME NEW t \in Threads, Store(t) PROVE TypeOK'
  <2>a. /\ mine[t] \in Appliers /\ docOf[mine[t]] \in Docs /\ at[t] \in Counters
        /\ loaded[t] + amount[t][at[t]] \in Nat
        /\ \A d \in Docs : writes[d] \in CountsType /\ counts[d] \in CountsType
        /\ [counts[docOf[mine[t]]] EXCEPT ![at[t]] = loaded[t] + amount[t][at[t]]] \in CountsType
        /\ [writes[docOf[mine[t]]] EXCEPT ![at[t]] = @ + amount[t][at[t]]] \in CountsType
    <3>1. mine[t] \in Appliers
      BY <1>4 DEF Store, CountingInv, InFlight, Created
    <3>2. docOf[mine[t]] \in Docs /\ at[t] \in Counters
      BY <1>0, <3>1 DEF ObjectsType, ThreadsType
    <3>3. \A d \in Docs : writes[d] \in CountsType /\ counts[d] \in CountsType
      BY <1>0 DEF ObjectsType, HistoryType
    <3>4. loaded[t] \in Nat /\ amount[t] \in CountsType
      BY <1>0 DEF ThreadsType
    <3>5. amount[t][at[t]] \in Nat /\ writes[docOf[mine[t]]][at[t]] \in Nat
      BY <3>2, <3>3, <3>4
    <3>6. loaded[t] + amount[t][at[t]] \in Nat /\ writes[docOf[mine[t]]][at[t]] + amount[t][at[t]] \in Nat
      BY <3>4, <3>5
    <3> QED
      BY <3>1, <3>2, <3>3, <3>6
  <2>1. ObjectsType'
    BY <1>4, <1>0, <2>a DEF Store, ObjectsType
  <2>2. ThreadsType'
    <3>1. /\ pc \in [Threads -> {"idle", "lock", "load", "store"}]
          /\ mine \in [Threads -> Appliers \cup {None}]
          /\ amount \in [Threads -> CountsType]
          /\ at \in [Threads -> Counters]
          /\ loaded \in [Threads -> Nat]
      BY <1>0 DEF ThreadsType
    <3>2. loaded' = loaded
      BY <1>4 DEF Store
    <3>3. CASE at[t] = SampleCount
      <4>1. /\ pc' = [pc EXCEPT ![t] = "idle"]
            /\ mine' = [mine EXCEPT ![t] = None]
            /\ amount' = [amount EXCEPT ![t] = Zero]
            /\ at' = at
        BY <1>4, <3>3 DEF Store
      <4>2. amount' \in [Threads -> CountsType]
        BY <3>1, <4>1
      <4>3. pc' \in [Threads -> {"idle", "lock", "load", "store"}] /\ mine' \in [Threads -> Appliers \cup {None}]
        BY <3>1, <4>1
      <4> QED
        BY <3>1, <3>2, <4>1, <4>2, <4>3 DEF ThreadsType
    <3>4. CASE at[t] # SampleCount
      <4>1. at[t] + 1 \in Counters
        BY <2>a, <3>4
      <4>2. /\ pc' = [pc EXCEPT ![t] = "load"]
            /\ at' = [at EXCEPT ![t] = at[t] + 1]
            /\ mine' = mine /\ amount' = amount
        BY <1>4, <3>4 DEF Store
      <4>3. at' \in [Threads -> Counters]
        BY <3>1, <4>1, <4>2
      <4>4. pc' \in [Threads -> {"idle", "lock", "load", "store"}]
        BY <3>1, <4>2
      <4> QED
        BY <3>1, <3>2, <4>2, <4>3, <4>4 DEF ThreadsType
    <3> QED
      BY <3>3, <3>4
  <2>3. PollerType'
    BY <1>4, <1>0 DEF Store, PollerType, poller
  <2>4. HistoryType'
    BY <1>4, <1>0, <2>a DEF Store, HistoryType
  <2> QED
    BY <2>1, <2>2, <2>3, <2>4 DEF TypeOK
<1>5. CASE PollStart
  <2>1. ObjectsType'
    BY <1>5, <1>0 DEF PollStart, objects, threads, poller, history, ObjectsType
  <2>2. ThreadsType'
    BY <1>5, <1>0 DEF PollStart, objects, threads, poller, history, ThreadsType
  <2>3. PollerType'
    BY <1>5, <1>0 DEF PollStart, PollerType, ObjectsType
  <2>4. HistoryType'
    BY <1>5, <1>0 DEF PollStart, objects, threads, poller, history, HistoryType
  <2> QED
    BY <2>1, <2>2, <2>3, <2>4 DEF TypeOK
<1>6. CASE PollSwap
  <2>1. ObjectsType'
    <3>0. nextD <= MaxDocs
      BY <1>6 DEF PollSwap, DocInv
    <3>1. nextD \in Docs /\ nextD + 1 \in 1..(MaxDocs + 1)
      BY <1>0, <3>0 DEF ObjectsType, Docs
    <3> QED
      BY <1>6, <1>0, <3>1 DEF PollSwap, ObjectsType
  <2>2. ThreadsType'
    BY <1>6, <1>0 DEF PollSwap, objects, threads, poller, history, ThreadsType
  <2>3. PollerType'
    BY <1>6, <1>0 DEF PollSwap, DocInv, Created, ObjectsType, PollerType
  <2>4. HistoryType'
    BY <1>6, <1>0 DEF PollSwap, objects, threads, poller, history, HistoryType
  <2> QED
    BY <2>1, <2>2, <2>3, <2>4 DEF TypeOK
<1>7. CASE PollRead
  <2>1. ObjectsType'
    BY <1>7, <1>0 DEF PollRead, objects, threads, poller, history, ObjectsType
  <2>2. ThreadsType'
    BY <1>7, <1>0 DEF PollRead, objects, threads, poller, history, ThreadsType
  <2>3. PollerType'
    <3>1. counts[pDoc] \in CountsType
      BY <1>0 DEF ObjectsType, PollerType
    <3>2. counts[pDoc][pAt] \in Nat
      BY <1>0, <3>1 DEF PollerType
    <3>3. snap' \in CountsType
      BY <1>7, <1>0, <3>2 DEF PollRead, PollerType
    <3> QED
      BY <1>7, <1>0, <3>3 DEF PollRead, PollerType
  <2>4. HistoryType'
    BY <1>7, <1>0 DEF PollRead, HistoryType, PollerType
  <2> QED
    BY <2>1, <2>2, <2>3, <2>4 DEF TypeOK
<1>8. CASE PollSend
  <2>1. ObjectsType'
    BY <1>8, <1>0 DEF PollSend, objects, threads, poller, history, ObjectsType
  <2>2. ThreadsType'
    BY <1>8, <1>0 DEF PollSend, objects, threads, poller, history, ThreadsType
  <2>3. PollerType'
    BY <1>8, <1>0 DEF PollSend, objects, threads, poller, history, PollerType
  <2>4. HistoryType'
    BY <1>8, <1>0 DEF PollSend, objects, threads, poller, history, HistoryType
  <2> QED
    BY <2>1, <2>2, <2>3, <2>4 DEF TypeOK
<1>9. CASE PollUpdate
  <2>1. ObjectsType'
    <3>1. CASE UNCHANGED <<cached, nextA, docOf, borrowing, overlap>>
      BY <1>9, <1>0, <3>1 DEF PollUpdate, ObjectsType
    <3>2. CASE cached # None /\ nextA <= MaxAppliers
      <4>1. nextA \in Appliers /\ nextA + 1 \in 1..(MaxAppliers + 1) /\ docOf[cached] \in Docs
        BY <1>0, <3>2 DEF ObjectsType, Appliers
      <4> QED
        BY <1>9, <1>0, <4>1 DEF PollUpdate, ObjectsType
    <3> QED
      BY <1>9, <3>1, <3>2 DEF PollUpdate
  <2>2. ThreadsType'
    BY <1>9, <1>0 DEF PollUpdate, objects, threads, poller, history, ThreadsType
  <2>3. PollerType'
    BY <1>9, <1>0 DEF PollUpdate, objects, threads, poller, history, PollerType
  <2>4. HistoryType'
    BY <1>9, <1>0 DEF PollUpdate, objects, threads, poller, history, HistoryType, Replaced
  <2> QED
    BY <2>1, <2>2, <2>3, <2>4 DEF TypeOK
<1>10. CASE RuleRemoved
  <2>1. ObjectsType'
    BY <1>10, <1>0 DEF RuleRemoved, objects, threads, poller, history, ObjectsType
  <2>2. ThreadsType'
    BY <1>10, <1>0 DEF RuleRemoved, objects, threads, poller, history, ThreadsType
  <2>3. PollerType'
    BY <1>10, <1>0 DEF RuleRemoved, objects, threads, poller, history, PollerType
  <2>4. HistoryType'
    BY <1>10, <1>0 DEF RuleRemoved, objects, threads, poller, history, HistoryType, Replaced
  <2> QED
    BY <2>1, <2>2, <2>3, <2>4 DEF TypeOK
<1>11. CASE RuleChanged
  <2>1. ObjectsType'
    <3>1. /\ nextA \in Appliers /\ nextA + 1 \in 1..(MaxAppliers + 1)
          /\ nextD \in Docs /\ nextD + 1 \in 1..(MaxDocs + 1)
      BY <1>11, <1>0 DEF RuleChanged, ObjectsType, Appliers, Docs
    <3> QED
      BY <1>11, <1>0, <3>1 DEF RuleChanged, ObjectsType
  <2>2. ThreadsType'
    BY <1>11, <1>0 DEF RuleChanged, objects, threads, poller, history, ThreadsType
  <2>3. PollerType'
    BY <1>11, <1>0 DEF RuleChanged, objects, threads, poller, history, PollerType
  <2>4. HistoryType'
    BY <1>11, <1>0 DEF RuleChanged, objects, threads, poller, history, HistoryType, Replaced
  <2> QED
    BY <2>1, <2>2, <2>3, <2>4 DEF TypeOK
<1>12. CASE UNCHANGED vars
  <2>1. ObjectsType'
    BY <1>12, <1>0 DEF vars, objects, threads, poller, history, ObjectsType
  <2>2. ThreadsType'
    BY <1>12, <1>0 DEF vars, objects, threads, poller, history, ThreadsType
  <2>3. PollerType'
    BY <1>12, <1>0 DEF vars, objects, threads, poller, history, PollerType
  <2>4. HistoryType'
    BY <1>12, <1>0 DEF vars, objects, threads, poller, history, HistoryType
  <2> QED
    BY <2>1, <2>2, <2>3, <2>4 DEF TypeOK
<1> QED
  BY <1>1, <1>2, <1>3, <1>4, <1>5, <1>6, <1>7, <1>8, <1>9, <1>10, <1>11, <1>12 DEF Next, Request, Poll

(* The increments made to a document are only added to.                    *)
LEMMA WritesGrow ==
  ASSUME TypeOK, NEW t \in Threads, Store(t), NEW d \in Docs, NEW c \in Counters
  PROVE  writes[d][c] \in Nat /\ writes'[d][c] \in Nat /\ writes[d][c] <= writes'[d][c]
<1>1. writes[d] \in CountsType /\ at[t] \in Counters /\ amount[t] \in CountsType
  BY DEF TypeOK, HistoryType, ThreadsType
<1>2. writes[d][c] \in Nat /\ amount[t][at[t]] \in Nat
  BY <1>1, CountsRules
<1>3. CASE d = docOf[mine[t]] /\ c = at[t]
  <2>1. writes'[d][c] = writes[d][c] + amount[t][at[t]]
    BY <1>1, <1>3 DEF Store, TypeOK, HistoryType, CountsType
  <2> QED
    BY <2>1, <1>2
<1>4. CASE ~(d = docOf[mine[t]] /\ c = at[t])
  <2>1. writes'[d][c] = writes[d][c]
    BY <1>1, <1>4 DEF Store, TypeOK, HistoryType, CountsType
  <2> QED
    BY <2>1, <1>2
<1> QED
  BY <1>3, <1>4

(* Whoever counts keeps its lock, and its document under it.               *)
LEMMA CountingStep ==
  TypeOK /\ WithinWrites /\ CountingInv /\ DocInv /\ [Next]_vars => CountingInv'
<1> SUFFICES ASSUME TypeOK, WithinWrites, CountingInv, DocInv, [Next]_vars PROVE CountingInv'
  OBVIOUS
<1> USE CounterFacts DEF TypeOK, ObjectsType, ThreadsType, PollerType,
             HistoryType, CountsType, CountingInv, WithinWrites, InFlight,
             Created, CounterDefs
<1>4. ASSUME NEW t \in Threads, Store(t) PROVE CountingInv'
  <2>1. ASSUME NEW d \in Docs, NEW c \in Counters
        PROVE  writes[d][c] \in Nat /\ writes'[d][c] \in Nat /\ writes[d][c] <= writes'[d][c]
    BY <1>4, WritesGrow
  <2>2. UNCHANGED <<ppc, pDoc, pAt, snap, docOf, loaded, nextA>>
    BY <1>4 DEF Store, poller
  <2> SUFFICES ASSUME NEW u \in Threads
               PROVE  /\ InFlight(u)' => Created(mine[u])'
                      /\ pc'[u] \in {"load", "store"} => lockOf'[mine'[u]] = u
                      /\ pc'[u] = "store" => loaded'[u] <= writes'[docOf'[mine'[u]]][at'[u]]
    BY DEF CountingInv
  <2>3. CASE u = t
    BY <1>4, <2>2, <2>3 DEF Store, CountingInv, InFlight, Created, ObjectsType, ThreadsType
  <2>4. CASE u # t
    <3>1. pc'[u] = pc[u] /\ mine'[u] = mine[u] /\ at'[u] = at[u]
      BY <1>4, <2>4 DEF Store, ThreadsType
    <3>2. InFlight(u) => mine[u] \in Appliers /\ docOf[mine[u]] \in Docs /\ at[u] \in Counters
      BY DEF CountingInv, Created, ObjectsType, ThreadsType
    <3>3. pc[u] \in {"load", "store"} => lockOf'[mine[u]] = u
      BY <1>4, <2>4, <3>2 DEF Store, CountingInv, InFlight, ObjectsType
    <3>4. ASSUME pc[u] = "store" PROVE loaded[u] <= writes'[docOf[mine[u]]][at[u]]
      <4>1. mine[u] \in Appliers /\ docOf[mine[u]] \in Docs /\ at[u] \in Counters /\ loaded[u] \in Nat
        BY <3>2, <3>4 DEF InFlight, ThreadsType
      <4>2. loaded[u] <= writes[docOf[mine[u]]][at[u]]
        BY <3>4 DEF CountingInv
      <4> QED
        BY <4>1, <4>2, <2>1
    <3> QED
      BY <3>1, <3>3, <3>4, <2>2 DEF CountingInv, InFlight, Created
  <2> QED
    BY <2>3, <2>4
<1>9. CASE PollUpdate
  <2>1. ASSUME NEW x \in Appliers, Created(x)
        PROVE  Created(x)' /\ docOf'[x] = docOf[x]
    <3>1. x # nextA /\ x < nextA + 1
      BY <2>1 DEF Created, Appliers, ObjectsType
    <3>2. docOf'[x] = docOf[x] /\ (nextA' = nextA \/ nextA' = nextA + 1)
      BY <1>9, <3>1 DEF PollUpdate, ObjectsType
    <3> QED
      BY <2>1, <3>1, <3>2 DEF Created
  <2>2. UNCHANGED <<pc, mine, at, loaded, lockOf, writes>>
    BY <1>9 DEF PollUpdate, threads
  <2>3. \A t \in Threads : InFlight(t) => Created(mine[t]) /\ mine[t] \in Appliers
    BY DEF CountingInv, Created
  <2> QED
    BY <2>1, <2>2, <2>3 DEF CountingInv, InFlight
<1>11. CASE RuleChanged
  <2>1. ASSUME NEW x \in Appliers, Created(x)
        PROVE  Created(x)' /\ docOf'[x] = docOf[x]
    <3>1. x # nextA /\ x < nextA + 1
      BY <2>1 DEF Created, Appliers, ObjectsType
    <3>2. docOf'[x] = docOf[x] /\ (nextA' = nextA \/ nextA' = nextA + 1)
      BY <1>11, <3>1 DEF RuleChanged, ObjectsType
    <3> QED
      BY <2>1, <3>1, <3>2 DEF Created
  <2>2. UNCHANGED <<pc, mine, at, loaded, lockOf, writes>>
    BY <1>11 DEF RuleChanged, threads
  <2>3. \A t \in Threads : InFlight(t) => Created(mine[t]) /\ mine[t] \in Appliers
    BY DEF CountingInv, Created
  <2> QED
    BY <2>1, <2>2, <2>3 DEF CountingInv, InFlight
<1>3. ASSUME NEW t \in Threads, Load(t) PROVE CountingInv'
  <2>1. UNCHANGED <<docOf, nextA, lockOf, counts, mine, at, writes>>
    BY <1>3 DEF Load, objects, history
  <2> SUFFICES ASSUME NEW u \in Threads
               PROVE  /\ InFlight(u)' => Created(mine[u])'
                      /\ pc'[u] \in {"load", "store"} => lockOf[mine[u]] = u
                      /\ pc'[u] = "store" => loaded'[u] <= writes[docOf[mine[u]]][at[u]]
    BY <2>1 DEF CountingInv
  <2>2. CASE u # t
    BY <1>3, <2>1, <2>2 DEF Load
  <2>3. CASE u = t
    <3>1. mine[t] \in Appliers /\ Created(mine[t]) /\ lockOf[mine[t]] = t
      BY <1>3 DEF Load
    <3>2. docOf[mine[t]] \in Docs /\ at[t] \in Counters
      BY <3>1
    <3>3. loaded'[t] = counts[docOf[mine[t]]][at[t]]
      BY <1>3 DEF Load
    <3>4. counts[docOf[mine[t]]][at[t]] <= writes[docOf[mine[t]]][at[t]]
      BY <3>2
    <3> QED
      BY <2>1, <2>3, <3>1, <3>3, <3>4
  <2> QED
    BY <2>2, <2>3
<1>6. CASE PollSwap
  <2>1. UNCHANGED <<nextA, lockOf, pc, mine, at, loaded, writes>>
    BY <1>6 DEF PollSwap, threads, history
  <2>2. \A a \in Appliers : a # pApplier => docOf'[a] = docOf[a]
    BY <1>6 DEF PollSwap
  <2>3. \A t \in Threads : pc[t] = "store" => mine[t] # pApplier /\ mine[t] \in Appliers
    BY <1>6, FreeAssumption DEF PollSwap
  <2>4. \A t \in Threads : pc[t] = "store" => docOf'[mine[t]] = docOf[mine[t]]
    BY <2>2, <2>3
  <2> QED
    BY <2>1, <2>4
<1>2. ASSUME NEW t \in Threads, Lock(t) PROVE CountingInv'
  <2>1. UNCHANGED <<docOf, nextA, mine, loaded, writes>>
    BY <1>2 DEF Lock, history
  <2>2. /\ lockOf[mine[t]] = Free /\ mine[t] \in Appliers
        /\ pc'[t] = "load" /\ lockOf'[mine[t]] = t /\ Created(mine[t])
    BY <1>2 DEF Lock
  <2>3. ASSUME NEW u \in Threads, u # t
        PROVE  /\ pc'[u] = pc[u] /\ at'[u] = at[u]
               /\ pc[u] \in {"load", "store"} => lockOf'[mine[u]] = u
    <3>1. pc'[u] = pc[u] /\ at'[u] = at[u]
      BY <1>2, <2>3 DEF Lock
    <3>2. ASSUME pc[u] \in {"load", "store"} PROVE lockOf'[mine[u]] = u
      <4>1. mine[u] \in Appliers /\ lockOf[mine[u]] = u
        BY <3>2
      <4>2. mine[u] # mine[t]
        BY <4>1, <2>2, FreeAssumption
      <4> QED
        BY <1>2, <4>1, <4>2 DEF Lock
    <3> QED
      BY <3>1, <3>2
  <2> QED
    BY <2>1, <2>2, <2>3
<1>a. ASSUME UNCHANGED <<docOf, nextA, lockOf, pc, mine, at, loaded, writes>> PROVE CountingInv'
  BY <1>a
<1> HIDE DEF TypeOK, CountingInv, WithinWrites, CountsType
<1>5. CASE PollStart
  BY <1>5, <1>a DEF PollStart, objects, threads, history
<1>7. CASE PollRead
  BY <1>7, <1>a DEF PollRead, objects, threads, history
<1>8. CASE PollSend
  BY <1>8, <1>a DEF PollSend, objects, threads, history
<1>10. CASE RuleRemoved
  BY <1>10, <1>a DEF RuleRemoved, objects, threads, history
<1>12. CASE UNCHANGED vars
  BY <1>12, <1>a DEF vars, objects, threads, history
<1>1. ASSUME NEW t \in Threads, Decide(t) PROVE CountingInv'
  <2>1. UNCHANGED <<docOf, nextA, lockOf, at, loaded, writes>>
    BY <1>1 DEF Decide, objects
  <2>2. pc'[t] = "lock" /\ mine'[t] = cached /\ Created(cached)
    BY <1>1 DEF Decide, DocInv, TypeOK
  <2>3. \A u \in Threads : u # t => pc'[u] = pc[u] /\ mine'[u] = mine[u]
    BY <1>1 DEF Decide, TypeOK
  <2> QED
    BY <2>1, <2>2, <2>3 DEF CountingInv
<1> QED BY <1>1, <1>2, <1>3, <1>4, <1>5, <1>6, <1>7, <1>8, <1>9, <1>10, <1>11,
             <1>12 DEF Next, Request, Poll

(* The poller and the cache keep away from documents that have left.       *)
LEMMA DocStep ==
  TypeOK /\ ReportedOnce /\ DocInv /\ [Next]_vars => DocInv'
<1> SUFFICES ASSUME TypeOK, ReportedOnce, DocInv, [Next]_vars PROVE DocInv'
  OBVIOUS
<1> USE CounterFacts DEF TypeOK, ObjectsType, PollerType, DocInv,
             ReportedOnce, Created, Made, CounterDefs
<1> USE DEF objects, threads, poller, history, Replaced, Forget, Appliers,
             Docs, None
<1>1. ASSUME NEW t \in Threads, Decide(t) PROVE DocInv'
  BY <1>1 DEF Decide
<1>2. ASSUME NEW t \in Threads, Lock(t) PROVE DocInv'
  BY <1>2 DEF Lock
<1>3. ASSUME NEW t \in Threads, Load(t) PROVE DocInv'
  BY <1>3 DEF Load
<1>4. ASSUME NEW t \in Threads, Store(t) PROVE DocInv'
  BY <1>4 DEF Store
<1>5. CASE PollStart
  BY <1>5 DEF PollStart
<1>6. CASE PollSwap
  BY <1>6 DEF PollSwap
<1>7. CASE PollRead
  BY <1>7 DEF PollRead
<1>8. CASE PollSend
  BY <1>8 DEF PollSend
<1>9. CASE PollUpdate
  BY <1>9 DEF PollUpdate
<1>10. CASE RuleRemoved
  BY <1>10 DEF RuleRemoved
<1>11. CASE RuleChanged
  BY <1>11 DEF RuleChanged
<1>12. CASE UNCHANGED vars
  BY <1>12 DEF vars
<1> QED BY <1>1, <1>2, <1>3, <1>4, <1>5, <1>6, <1>7, <1>8, <1>9, <1>10, <1>11,
             <1>12 DEF Next, Request, Poll

(* No document is reported twice.                                          *)
LEMMA OnceStep ==
  TypeOK /\ ReportedOnce /\ DocInv /\ [Next]_vars => ReportedOnce'
<1> SUFFICES ASSUME TypeOK, ReportedOnce, DocInv, [Next]_vars PROVE ReportedOnce'
  OBVIOUS
<1> USE CounterFacts DEF TypeOK, ObjectsType, PollerType, DocInv,
             ReportedOnce, Created, Made, CounterDefs
<1> USE DEF objects, threads, poller, history, Replaced, Forget, Appliers,
             Docs, None
<1>1. ASSUME NEW t \in Threads, Decide(t) PROVE ReportedOnce'
  BY <1>1 DEF Decide
<1>2. ASSUME NEW t \in Threads, Lock(t) PROVE ReportedOnce'
  BY <1>2 DEF Lock
<1>3. ASSUME NEW t \in Threads, Load(t) PROVE ReportedOnce'
  BY <1>3 DEF Load
<1>4. ASSUME NEW t \in Threads, Store(t) PROVE ReportedOnce'
  BY <1>4 DEF Store
<1>5. CASE PollStart
  BY <1>5 DEF PollStart
<1>6. CASE PollSwap
  BY <1>6 DEF PollSwap
<1>7. CASE PollRead
  BY <1>7 DEF PollRead
<1>8. CASE PollSend
  BY <1>8 DEF PollSend
<1>9. CASE PollUpdate
  BY <1>9 DEF PollUpdate
<1>10. CASE RuleRemoved
  BY <1>10 DEF RuleRemoved
<1>11. CASE RuleChanged
  BY <1>11 DEF RuleChanged
<1>12. CASE UNCHANGED vars
  BY <1>12 DEF vars
<1> QED BY <1>1, <1>2, <1>3, <1>4, <1>5, <1>6, <1>7, <1>8, <1>9, <1>10, <1>11,
             <1>12 DEF Next, Request, Poll

(* A snapshot under way stays within the writes.                           *)
LEMMA SnapStep ==
  TypeOK /\ WithinWrites /\ SnapInv /\ [Next]_vars => SnapInv'
<1> SUFFICES ASSUME TypeOK, WithinWrites, SnapInv, [Next]_vars PROVE SnapInv'
  OBVIOUS
<1> USE CounterFacts DEF TypeOK, ObjectsType, ThreadsType, PollerType,
             HistoryType, SnapInv, WithinWrites, CountsType, CounterDefs
<1>4. ASSUME NEW t \in Threads, Store(t) PROVE SnapInv'
  <2>1. ASSUME NEW d \in Docs, NEW c \in Counters
        PROVE  writes[d][c] \in Nat /\ writes'[d][c] \in Nat /\ writes[d][c] <= writes'[d][c]
    BY <1>4, WritesGrow
  <2>2. UNCHANGED <<ppc, pDoc, pAt, snap, docOf, loaded, nextA>>
    BY <1>4 DEF Store, poller
  <2>3. pDoc \in Docs /\ \A c \in Counters : snap[c] \in Nat
    BY CountsRules DEF PollerType
  <2> QED
    BY <2>1, <2>2, <2>3 DEF SnapInv
<1>7. CASE PollRead
  <2>1. ppc = "read" /\ UNCHANGED <<pDoc, writes, counts>> /\ snap' = [snap EXCEPT ![pAt] = counts[pDoc][pAt]]
    BY <1>7 DEF PollRead, objects
  <2>2. pDoc \in Docs /\ pAt \in Counters /\ snap \in CountsType
    BY DEF PollerType
  <2>3. ASSUME NEW c \in Counters, c <= pAt PROVE snap'[c] <= writes[pDoc][c]
    <3>1. CASE c = pAt
      <4>1. snap'[c] = counts[pDoc][pAt]
        BY <2>1, <2>2, <3>1 DEF CountsType
      <4> QED
        BY <4>1, <2>2, <3>1 DEF WithinWrites
    <3>2. CASE c # pAt
      <4>1. c < pAt
        BY <2>2, <2>3, <3>2, CounterFacts DEF CounterDefs
      <4>2. snap'[c] = snap[c]
        BY <2>1, <2>2, <3>2 DEF CountsType
      <4> QED
        BY <4>1, <4>2, <2>1 DEF SnapInv
    <3> QED
      BY <3>1, <3>2
  <2>4. CASE pAt = SampleCount
    BY <1>7, <2>4 DEF PollRead, SnapInv
  <2>5. CASE pAt # SampleCount
    <3>1. pAt' = pAt + 1 /\ ppc' = "read"
      BY <1>7, <2>1, <2>5 DEF PollRead
    <3>2. \A c \in Counters : c < pAt + 1 => c <= pAt
      BY <2>2, CounterFacts DEF CounterDefs
    <3> QED
      BY <2>1, <2>3, <3>1, <3>2 DEF SnapInv
  <2> QED
    BY <2>4, <2>5
<1> USE DEF objects, threads, poller, history, Replaced, Forget, Docs, Zero
<1>1. ASSUME NEW t \in Threads, Decide(t) PROVE SnapInv'
  BY <1>1 DEF Decide
<1>2. ASSUME NEW t \in Threads, Lock(t) PROVE SnapInv'
  BY <1>2 DEF Lock
<1>3. ASSUME NEW t \in Threads, Load(t) PROVE SnapInv'
  BY <1>3 DEF Load
<1>5. CASE PollStart
  BY <1>5 DEF PollStart
<1>6. CASE PollSwap
  BY <1>6 DEF PollSwap
<1>8. CASE PollSend
  BY <1>8 DEF PollSend
<1>9. CASE PollUpdate
  BY <1>9 DEF PollUpdate
<1>10. CASE RuleRemoved
  BY <1>10 DEF RuleRemoved
<1>11. CASE RuleChanged
  BY <1>11 DEF RuleChanged
<1>12. CASE UNCHANGED vars
  BY <1>12 DEF vars
<1> QED BY <1>1, <1>2, <1>3, <1>4, <1>5, <1>6, <1>7, <1>8, <1>9, <1>10, <1>11,
             <1>12 DEF Next, Request, Poll

(* No counter of a document exceeds the increments made to it.             *)
LEMMA WritesStep ==
  TypeOK /\ WithinWrites /\ CountingInv /\ SnapInv /\ [Next]_vars => WithinWrites'
<1> SUFFICES ASSUME TypeOK, WithinWrites, CountingInv, SnapInv, [Next]_vars PROVE WithinWrites'
  OBVIOUS
<1> USE CounterFacts DEF TypeOK, ObjectsType, ThreadsType, PollerType,
             HistoryType, SnapInv, WithinWrites, CountingInv, CountsType,
             CounterDefs
<1>4. ASSUME NEW t \in Threads, Store(t) PROVE WithinWrites'
  <2>1. ASSUME NEW d \in Docs, NEW c \in Counters
        PROVE  writes[d][c] \in Nat /\ writes'[d][c] \in Nat /\ writes[d][c] <= writes'[d][c]
    BY <1>4, WritesGrow
  <2>2. UNCHANGED <<ppc, pDoc, pAt, snap, docOf, loaded, nextA>>
    BY <1>4 DEF Store, poller
  <2>3. ASSUME NEW d \in Docs, NEW c \in Counters PROVE counts'[d][c] <= writes'[d][c]
    <3>1. counts[d] \in CountsType /\ writes[d] \in CountsType /\ at[t] \in Counters
      BY DEF ObjectsType, HistoryType, ThreadsType
    <3>2. counts[d][c] \in Nat /\ counts[d][c] <= writes[d][c]
      BY <3>1, CountsRules DEF WithinWrites
    <3>3. CASE d = docOf[mine[t]] /\ c = at[t]
      <4>1. /\ counts'[d][c] = loaded[t] + amount[t][c]
            /\ writes'[d][c] = writes[d][c] + amount[t][c]
        BY <1>4, <3>1, <3>3 DEF Store, ObjectsType, HistoryType, CountsType
      <4>2. loaded[t] <= writes[d][c] /\ loaded[t] \in Nat /\ amount[t] \in CountsType
        BY <1>4, <3>3 DEF Store, CountingInv, ThreadsType
      <4>3. amount[t][c] \in Nat
        BY <4>2, CountsRules
      <4> QED
        BY <4>1, <4>2, <4>3, <2>1
    <3>4. CASE ~(d = docOf[mine[t]] /\ c = at[t])
      <4>1. counts'[d][c] = counts[d][c]
        BY <1>4, <3>1, <3>4 DEF Store, ObjectsType, CountsType
      <4> QED
        BY <4>1, <3>2, <2>1
    <3> QED
      BY <3>3, <3>4
  <2>4. \A c \in Counters : snap[c] \in Nat /\ pDoc \in Docs
    BY CountsRules DEF PollerType
  <2> QED
    BY <2>1, <2>2, <2>3, <2>4 DEF WithinWrites
<1>7. CASE PollRead
  <2>1. ppc = "read" /\ UNCHANGED <<pDoc, writes, counts>> /\ snap' = [snap EXCEPT ![pAt] = counts[pDoc][pAt]]
    BY <1>7 DEF PollRead, objects
  <2>2. pDoc \in Docs /\ pAt \in Counters /\ snap \in CountsType
    BY DEF PollerType
  <2>3. ASSUME NEW c \in Counters, c <= pAt PROVE snap'[c] <= writes[pDoc][c]
    <3>1. CASE c = pAt
      <4>1. snap'[c] = counts[pDoc][pAt]
        BY <2>1, <2>2, <3>1 DEF CountsType
      <4> QED
        BY <4>1, <2>2, <3>1 DEF WithinWrites
    <3>2. CASE c # pAt
      <4>1. c < pAt
        BY <2>2, <2>3, <3>2, CounterFacts DEF CounterDefs
      <4>2. snap'[c] = snap[c]
        BY <2>1, <2>2, <3>2 DEF CountsType
      <4> QED
        BY <4>1, <4>2, <2>1 DEF SnapInv
    <3> QED
      BY <3>1, <3>2
  <2>4. ASSUME ppc' = "send" PROVE \A c \in Counters : snap'[c] <= writes'[pDoc'][c]
    <3>1. pAt = SampleCount
      BY <1>7, <2>1, <2>4 DEF PollRead
    <3>2. \A c \in Counters : c <= pAt
      BY <3>1, CounterFacts DEF CounterDefs
    <3> QED
      BY <2>1, <2>3, <3>2
  <2> QED
    BY <2>1, <2>4 DEF WithinWrites
<1> USE DEF objects, threads, poller, history, Replaced, Forget, Docs, Zero,
             InFlight, Created
<1>1. ASSUME NEW t \in Threads, Decide(t) PROVE WithinWrites'
  BY <1>1 DEF Decide
<1>2. ASSUME NEW t \in Threads, Lock(t) PROVE WithinWrites'
  BY <1>2 DEF Lock
<1>3. ASSUME NEW t \in Threads, Load(t) PROVE WithinWrites'
  BY <1>3 DEF Load
<1>5. CASE PollStart
  BY <1>5 DEF PollStart
<1>6. CASE PollSwap
  BY <1>6 DEF PollSwap
<1>8. CASE PollSend
  BY <1>8 DEF PollSend
<1>9. CASE PollUpdate
  BY <1>9 DEF PollUpdate
<1>10. CASE RuleRemoved
  BY <1>10 DEF RuleRemoved
<1>11. CASE RuleChanged
  BY <1>11 DEF RuleChanged
<1>12. CASE UNCHANGED vars
  BY <1>12 DEF vars
<1> QED BY <1>1, <1>2, <1>3, <1>4, <1>5, <1>6, <1>7, <1>8, <1>9, <1>10, <1>11,
             <1>12 DEF Next, Request, Poll

(* The inductive invariant holds at the start and is kept.                 *)
LEMMA InitIInv == Init => IInv
<1> SUFFICES ASSUME Init PROVE IInv
  OBVIOUS
<1>1. 1 \in Docs /\ 1 \in 1..(MaxAppliers + 1) /\ 1 \in 1..(MaxDocs + 1)
  BY DEF Docs
<1>2. TypeOK
  <2>1. ObjectsType
    BY <1>1, CountsRules DEF Init, ObjectsType
  <2>2. ThreadsType
    BY CounterRange, CountsRules DEF Init, ThreadsType
  <2>3. PollerType
    BY <1>1, CounterRange, CountsRules DEF Init, PollerType
  <2>4. HistoryType
    BY CountsRules DEF Init, HistoryType
  <2> QED
    BY <2>1, <2>2, <2>3, <2>4 DEF TypeOK
<1>3. ReportSound
  BY DEF Init, ReportSound, ReportedOnce, WithinWrites, Zero
<1>4. CountingInv /\ SnapInv
  BY DEF Init, CountingInv, SnapInv, InFlight
<1>5. DocInv
  <2>1. \A a \in Appliers : ~Created(a)
    BY DEF Init, Created, Appliers
  <2> QED
    BY <2>1 DEF Init, DocInv
<1> QED
  BY <1>2, <1>3, <1>4, <1>5 DEF IInv

(* Sampling, polling and updating keep the inductive invariant.            *)
THEOREM Inductive == Spec => []IInv
<1>1. IInv /\ [Next]_vars => IInv'
  BY TypeStep, CountingStep, DocStep, OnceStep, SnapStep, WritesStep DEF IInv, ReportSound
<1> QED
  BY <1>1, InitIInv, PTL DEF Spec

(* The counters, documents and appliers keep their types and bounds.       *)
THEOREM TypeCorrect == Spec => []TypeOK
<1>1. IInv => TypeOK
  BY DEF IInv
<1> QED
  BY <1>1, Inductive, PTL

(* No report counts a request that was not counted on its document, and no *)
(* document is in two reports, although two appliers may increment one     *)
(* document under two locks while it is being taken away.                  *)
THEOREM SoundReports == Spec => []ReportSound
<1>1. IInv => ReportSound
  BY DEF IInv
<1> QED
  BY <1>1, Inductive, PTL

-----------------------------------------------------------------------------
(* Reports are consistent while no applier is replaced under a request:    *)
(* then all requests in flight count on the cached applier, one at a time. *)

Orderly(f)  == f[BorrowCount] <= f[SampleCount] /\ f[SampleCount] <= f[RequestCount]
Counting(t) == pc[t] \in {"load", "store"}

(* The document of a counting thread, once it will have counted.           *)
Due(t) ==
  [c \in Counters |-> counts[docOf[mine[t]]][c] + (IF c >= at[t] THEN amount[t][c] ELSE 0)]

MatchInv == \A t \in Threads : InFlight(t) => mine[t] = cached /\ Orderly(amount[t])

DueInv ==
  \A t \in Threads : Counting(t) =>
    /\ Orderly(Due(t))
    /\ pc[t] = "store" => loaded[t] = counts[docOf[mine[t]]][at[t]]

(* Only the document being counted on may be between two of its counters.  *)
RestInv ==
  \A d \in Docs :
    \/ Orderly(counts[d])
    \/ cached # None /\ d = docOf[cached] /\ \E t \in Threads : Counting(t)

CopyInv ==
  /\ ppc = "read" => \A c \in Counters : c < pAt => snap[c] = counts[pDoc][c]
  /\ ppc = "send" => Orderly(snap)

OrderInv == ~overlap => MatchInv /\ DueInv /\ RestInv /\ CopyInv

(* Under the lock of the cached applier one thread counts at a time.       *)
LEMMA OneCounts ==
  ASSUME TypeOK, CountingInv, MatchInv, NEW t \in Threads, NEW u \in Threads,
         Counting(t), InFlight(u), u # t
  PROVE  pc[u] = "lock" /\ mine[u] = mine[t] /\ lockOf[mine[u]] = t
<1>1. mine[u] = cached /\ mine[t] = cached
  BY DEF MatchInv, InFlight, Counting
<1>2. lockOf[mine[t]] = t
  BY DEF CountingInv, Counting
<1>3. pc[u] \notin {"load", "store"}
  BY <1>1, <1>2 DEF CountingInv
<1> QED
  BY <1>1, <1>2, <1>3 DEF TypeOK, ThreadsType, InFlight

(* A thread at its counter, its applier and its document.                  *)
LEMMA ThreadFacts ==
  ASSUME TypeOK, CountingInv, NEW t \in Threads
  PROVE  /\ InFlight(t) => mine[t] \in Appliers /\ docOf[mine[t]] \in Docs
         /\ at[t] \in Counters /\ amount[t] \in CountsType /\ loaded[t] \in Nat
         /\ \A d \in Docs : counts[d] \in CountsType
  BY DEF TypeOK, ThreadsType, ObjectsType, CountingInv, Created

(* What a store makes of the document, and of every other one.             *)
LEMMA StoreEffect ==
  ASSUME TypeOK, CountingInv, DueInv, NEW t \in Threads, Store(t)
  PROVE  LET d == docOf[mine[t]]
         IN  /\ d \in Docs
             /\ \A e \in Docs : e # d => counts'[e] = counts[e]
             /\ \A c \in Counters :
                  counts'[d][c] = counts[d][c] + (IF c = at[t] THEN amount[t][c] ELSE 0)
<1> DEFINE d == docOf[mine[t]]
<1>1. d \in Docs /\ at[t] \in Counters /\ counts[d] \in CountsType /\ amount[t] \in CountsType
  BY ThreadFacts DEF Store, InFlight
<1>2. loaded[t] = counts[d][at[t]]
  BY DEF Store, DueInv, Counting
<1>3. counts \in [Docs -> CountsType]
  BY DEF TypeOK, ObjectsType
<1>4. counts' = [counts EXCEPT ![d] = [counts[d] EXCEPT ![at[t]] = loaded[t] + amount[t][at[t]]]]
  BY DEF Store
<1>5. \A e \in Docs : e # d => counts'[e] = counts[e]
  BY <1>3, <1>4
<1>6. counts'[d] = [counts[d] EXCEPT ![at[t]] = loaded[t] + amount[t][at[t]]]
  BY <1>1, <1>3, <1>4
<1>7. ASSUME NEW c \in Counters
      PROVE  counts'[d][c] = counts[d][c] + (IF c = at[t] THEN amount[t][c] ELSE 0)
  <2>1. counts[d][c] \in Nat
    BY <1>1, CountsRules
  <2>2. CASE c = at[t]
    BY <1>1, <1>2, <1>6, <2>2 DEF CountsType
  <2>3. CASE c # at[t]
    BY <1>1, <1>6, <2>1, <2>3 DEF CountsType
  <2> QED
    BY <2>2, <2>3
<1> QED
  BY <1>1, <1>5, <1>7

(* A request counts: what the document is due does not change on the way,  *)
(* and at the end the document is what it was due to be.                   *)
LEMMA StoreOrder ==
  ASSUME TypeOK, CountingInv, DocInv, MatchInv, DueInv, RestInv, CopyInv,
         NEW t \in Threads, Store(t)
  PROVE  MatchInv' /\ DueInv' /\ RestInv' /\ CopyInv'
<1> DEFINE d == docOf[mine[t]]
<1>1. /\ d \in Docs /\ Counting(t) /\ pc[t] = "store" /\ InFlight(t)
      /\ mine[t] = cached /\ at[t] \in Counters /\ amount[t] \in CountsType
      /\ \A e \in Docs : e # d => counts'[e] = counts[e]
  BY StoreEffect, ThreadFacts DEF Store, Counting, InFlight, MatchInv
<1>2. \A c \in Counters :
        counts'[d][c] = counts[d][c] + (IF c = at[t] THEN amount[t][c] ELSE 0)
  BY StoreEffect
<1>3. /\ UNCHANGED <<cached, docOf, loaded, ppc, pDoc, pAt, snap>>
      /\ pc \in [Threads -> {"idle", "lock", "load", "store"}]
      /\ mine \in [Threads -> Appliers \cup {None}]
      /\ amount \in [Threads -> CountsType]
      /\ at \in [Threads -> Counters]
  BY DEF Store, poller, TypeOK, ThreadsType
<1>4. \A u \in Threads : u # t =>
        /\ pc'[u] = pc[u] /\ mine'[u] = mine[u] /\ amount'[u] = amount[u] /\ at'[u] = at[u]
        /\ InFlight(u) => pc[u] = "lock"
  BY <1>1, <1>3, OneCounts DEF Store
<1>5. CopyInv'
  <2>1. ASSUME ppc = "read" PROVE counts'[pDoc] = counts[pDoc]
    <3>1. pDoc # d /\ pDoc \in Docs
      BY <1>1, <2>1 DEF DocInv, CountingInv, Created, None, Appliers, TypeOK, PollerType
    <3> QED
      BY <3>1, <1>1
  <2> QED
    BY <2>1, <1>3 DEF CopyInv, Orderly
<1>6. CASE at[t] = SampleCount
  <2>1. pc'[t] = "idle" /\ \A u \in Threads : ~Counting(u)'
    BY <1>1, <1>3, <1>4, <1>6 DEF Store, Counting, InFlight
  <2>2. MatchInv'
    BY <1>3, <1>4, <2>1 DEF MatchInv, InFlight, Orderly
  <2>3. Orderly(counts'[d])
    <3>1. Orderly(Due(t))
      BY <1>1 DEF DueInv
    <3>2. \A c \in Counters : Due(t)[c] = counts'[d][c]
      <4>1. \A c \in Counters : c >= at[t] <=> c = at[t]
        BY <1>6, CounterFacts DEF CounterDefs
      <4> QED
        BY <1>2, <4>1 DEF Due
    <3> QED
      BY <3>1, <3>2, CounterFacts DEF Orderly, CounterDefs
  <2>4. \A e \in Docs : e # d => Orderly(counts[e])
    BY <1>1 DEF RestInv
  <2>5. RestInv'
    BY <1>1, <2>3, <2>4 DEF RestInv, Orderly
  <2> QED
    BY <1>5, <2>1, <2>2, <2>5 DEF DueInv
<1>7. CASE at[t] # SampleCount
  <2>1. /\ pc'[t] = "load" /\ at'[t] = at[t] + 1 /\ mine'[t] = mine[t] /\ amount'[t] = amount[t]
    BY <1>3, <1>7 DEF Store
  <2>2. MatchInv'
    BY <1>1, <1>3, <1>4, <2>1 DEF MatchInv, InFlight, Orderly
  <2>3. Orderly(Due(t))'
    <3>1. Orderly(Due(t))
      BY <1>1 DEF DueInv
    <3>2. ASSUME NEW c \in Counters PROVE Due(t)[c] = Due(t)'[c]
      <4>1. Due(t)[c] = counts[d][c] + (IF c >= at[t] THEN amount[t][c] ELSE 0)
        BY DEF Due
      <4>2. Due(t)'[c] = counts'[d][c] + (IF c >= at[t] + 1 THEN amount[t][c] ELSE 0)
        BY <1>3, <2>1 DEF Due
      <4>3. counts[d][c] \in Nat /\ amount[t][c] \in Nat /\ c \in Int /\ at[t] \in Int
        BY <1>1, ThreadFacts, CountsRules, CounterFacts DEF CounterDefs
      <4>4. counts'[d][c] = counts[d][c] + (IF c = at[t] THEN amount[t][c] ELSE 0)
        BY <1>2
      <4> QED
        BY <4>1, <4>2, <4>3, <4>4
    <3> QED
      BY <3>1, <3>2, CounterFacts DEF Orderly, CounterDefs
  <2>4. DueInv'
    <3>1. \A u \in Threads : u # t => ~Counting(u)'
      BY <1>4 DEF Counting, InFlight
    <3> QED
      BY <2>1, <2>3, <3>1 DEF DueInv
  <2>5. Counting(t)'
    BY <2>1 DEF Counting
  <2>6. RestInv'
    BY <1>1, <1>3, <2>5 DEF RestInv, Orderly, DocInv, CountingInv, Created, None, Appliers
  <2> QED
    BY <1>5, <2>2, <2>4, <2>6
<1> QED
  BY <1>6, <1>7

(* Under the lock a request begins with a document at rest.                *)
LEMMA LockOrder ==
  ASSUME TypeOK, CountingInv, MatchInv, DueInv, RestInv, CopyInv, NEW t \in Threads, Lock(t)
  PROVE  MatchInv' /\ DueInv' /\ RestInv' /\ CopyInv'
<1> DEFINE d == docOf[mine[t]]
<1>1. /\ pc[t] = "lock" /\ InFlight(t) /\ mine[t] = cached /\ Orderly(amount[t])
      /\ mine[t] \in Appliers /\ d \in Docs /\ lockOf[mine[t]] = Free
  BY ThreadFacts DEF Lock, InFlight, MatchInv
<1>2. \A u \in Threads : ~Counting(u)
  BY <1>1, FreeAssumption DEF CountingInv, MatchInv, Counting, InFlight
<1>3. UNCHANGED <<cached, docOf, counts, mine, amount, loaded, ppc, pDoc, pAt, snap>>
  BY DEF Lock, poller
<1>4. /\ pc'[t] = "load" /\ at'[t] = RequestCount
      /\ \A u \in Threads : u # t => pc'[u] = pc[u] /\ at'[u] = at[u]
  BY DEF Lock, TypeOK, ThreadsType
<1>5. MatchInv'
  BY <1>1, <1>3, <1>4 DEF MatchInv, InFlight, Orderly
<1>6. Orderly(counts[d])
  BY <1>1, <1>2 DEF RestInv
<1>7. Orderly(Due(t))'
  <2>1. ASSUME NEW c \in Counters PROVE Due(t)'[c] = counts[d][c] + amount[t][c]
    <3>1. c >= RequestCount
      BY CounterFacts DEF CounterDefs
    <3> QED
      BY <1>3, <1>4, <3>1 DEF Due
  <2>2. counts[d] \in CountsType /\ amount[t] \in CountsType
    BY <1>1, ThreadFacts
  <2>3. \A c \in Counters : counts[d][c] \in Nat /\ amount[t][c] \in Nat
    BY <2>2, CountsRules
  <2> QED
    BY <1>1, <1>6, <2>1, <2>3, CounterFacts DEF Orderly, CounterDefs
<1>8. DueInv'
  BY <1>2, <1>4, <1>7 DEF DueInv, Counting
<1>9. RestInv' /\ CopyInv'
  BY <1>2, <1>3 DEF RestInv, CopyInv, Orderly
<1> QED
  BY <1>5, <1>8, <1>9

(* A request is matched to the cached applier and counts its three parts.  *)
LEMMA DecideOrder ==
  ASSUME TypeOK, MatchInv, DueInv, RestInv, CopyInv, NEW t \in Threads, Decide(t)
  PROVE  MatchInv' /\ DueInv' /\ RestInv' /\ CopyInv'
<1>1. UNCHANGED <<cached, docOf, counts, at, loaded, ppc, pDoc, pAt, snap>>
  BY DEF Decide, objects, poller
<1>2. /\ pc[t] = "idle" /\ pc'[t] = "lock" /\ mine'[t] = cached
      /\ \A u \in Threads : u # t => /\ pc'[u] = pc[u] /\ mine'[u] = mine[u]
                                     /\ amount'[u] = amount[u]
  BY DEF Decide, TypeOK, ThreadsType
<1>3. Orderly(amount'[t])
  <2>1. PICK b \in {0, 1}, s \in {0, 1} :
          /\ b = 1 => s = 1
          /\ amount' = [amount EXCEPT ![t] =
                          [Zero EXCEPT ![RequestCount] = 1, ![BorrowCount] = b, ![SampleCount] = s]]
    BY DEF Decide
  <2>2. amount'[t] = [Zero EXCEPT ![RequestCount] = 1, ![BorrowCount] = b, ![SampleCount] = s]
    BY <2>1 DEF TypeOK, ThreadsType
  <2>3. amount'[t][RequestCount] = 1 /\ amount'[t][BorrowCount] = b /\ amount'[t][SampleCount] = s
    BY <2>2, CounterFacts DEF CounterDefs, Zero
  <2> QED
    BY <2>1, <2>3 DEF Orderly
<1>4. MatchInv'
  BY <1>1, <1>2, <1>3 DEF MatchInv, InFlight, Orderly
<1>5. \A u \in Threads : Counting(u)' <=> Counting(u)
  BY <1>2 DEF Counting
<1>6. \A u \in Threads : Counting(u) => u # t
  BY <1>2 DEF Counting
<1>7. DueInv'
  BY <1>1, <1>2, <1>5, <1>6 DEF DueInv, Due, Orderly
<1>8. RestInv' /\ CopyInv'
  BY <1>1, <1>5 DEF RestInv, CopyInv, Orderly
<1> QED
  BY <1>4, <1>7, <1>8

(* A load remembers what it must find again at the store.                  *)
LEMMA LoadOrder ==
  ASSUME TypeOK, MatchInv, DueInv, RestInv, CopyInv, NEW t \in Threads, Load(t)
  PROVE  MatchInv' /\ DueInv' /\ RestInv' /\ CopyInv'
<1>1. UNCHANGED <<cached, docOf, counts, mine, amount, at, ppc, pDoc, pAt, snap>>
  BY DEF Load, objects, poller
<1>2. /\ pc[t] = "load" /\ pc'[t] = "store"
      /\ loaded'[t] = counts[docOf[mine[t]]][at[t]]
      /\ \A u \in Threads : u # t => pc'[u] = pc[u] /\ loaded'[u] = loaded[u]
  BY DEF Load, TypeOK, ThreadsType
<1>3. \A u \in Threads : (Counting(u)' <=> Counting(u)) /\ (InFlight(u)' <=> InFlight(u))
  BY <1>2 DEF Counting, InFlight
<1>4. MatchInv' /\ RestInv' /\ CopyInv'
  BY <1>1, <1>3 DEF MatchInv, RestInv, CopyInv, Orderly
<1>5. DueInv'
  BY <1>1, <1>2, <1>3 DEF DueInv, Due, Orderly
<1> QED
  BY <1>4, <1>5

(* The poller takes the document of an applier nobody is counting on: it   *)
(* is at rest, and nobody will count on it any more.                       *)
LEMMA SwapOrder ==
  ASSUME TypeOK, CountingInv, DocInv, MatchInv, DueInv, RestInv, CopyInv, PollSwap
  PROVE  MatchInv' /\ DueInv' /\ RestInv' /\ CopyInv'
<1>1. /\ UNCHANGED <<cached, counts, pc, mine, amount, at, loaded, snap>>
      /\ ppc' = "read" /\ pAt' = RequestCount
      /\ docOf' = [docOf EXCEPT ![pApplier] = nextD]
      /\ pApplier \in Appliers /\ lockOf[pApplier] = Free
  BY DEF PollSwap, threads, DocInv, Created
<1>2. \A u \in Threads : Counting(u) => mine[u] # pApplier /\ docOf'[mine[u]] = docOf[mine[u]]
  BY <1>1, ThreadFacts, FreeAssumption DEF CountingInv, Counting, InFlight, TypeOK, ObjectsType
<1>3. MatchInv'
  BY <1>1 DEF MatchInv, InFlight, Orderly
<1>4. DueInv'
  BY <1>1, <1>2 DEF DueInv, Due, Orderly, Counting
<1>5. RestInv'
  BY <1>1, <1>2 DEF RestInv, Orderly, Counting, MatchInv, InFlight
<1>6. CopyInv'
  BY <1>1, CounterFacts DEF CopyInv, CounterDefs
<1> QED
  BY <1>3, <1>4, <1>5, <1>6

(* The snapshot is of a document at rest.                                  *)
LEMMA ReadOrder ==
  ASSUME TypeOK, DocInv, MatchInv, DueInv, RestInv, CopyInv, PollRead
  PROVE  MatchInv' /\ DueInv' /\ RestInv' /\ CopyInv'
<1>1. /\ UNCHANGED <<cached, docOf, counts, pc, mine, amount, at, loaded, pDoc>>
      /\ ppc = "read" /\ snap' = [snap EXCEPT ![pAt] = counts[pDoc][pAt]]
      /\ pDoc \in Docs /\ pAt \in Counters /\ snap \in CountsType
  BY DEF PollRead, objects, threads, TypeOK, PollerType
<1>2. MatchInv' /\ DueInv' /\ RestInv'
  BY <1>1 DEF MatchInv, DueInv, RestInv, InFlight, Counting, Due, Orderly
<1>3. Orderly(counts[pDoc])
  BY <1>1 DEF RestInv, DocInv
<1>4. ASSUME NEW c \in Counters, c <= pAt PROVE snap'[c] = counts[pDoc][c]
  <2>1. CASE c = pAt
    BY <1>1, <2>1 DEF CountsType
  <2>2. CASE c # pAt
    <3>1. c < pAt
      BY <1>1, <1>4, <2>2, CounterFacts DEF CounterDefs
    <3> QED
      BY <1>1, <2>2, <3>1 DEF CopyInv, CountsType
  <2> QED
    BY <2>1, <2>2
<1>5. CASE pAt = SampleCount
  <2>1. ppc' = "send" /\ \A c \in Counters : snap'[c] = counts[pDoc][c]
    <3>1. \A c \in Counters : c <= pAt
      BY <1>5, CounterFacts DEF CounterDefs
    <3> QED
      BY <1>4, <1>5, <3>1 DEF PollRead
  <2>2. Orderly(snap')
    BY <1>3, <2>1, CounterFacts DEF Orderly, CounterDefs
  <2> QED
    BY <1>2, <2>1, <2>2 DEF CopyInv, Orderly
<1>6. CASE pAt # SampleCount
  <2>1. ppc' = "read" /\ pAt' = pAt + 1
    BY <1>1, <1>6 DEF PollRead
  <2>2. \A c \in Counters : c < pAt + 1 => c <= pAt
    BY <1>1, CounterFacts DEF CounterDefs
  <2> QED
    BY <1>1, <1>2, <1>4, <2>1, <2>2 DEF CopyInv
<1> QED
  BY <1>5, <1>6

(* The cached applier is replaced, under no request.                       *)
LEMMA ReplaceOrder ==
  ASSUME TypeOK, CountingInv, DocInv, ~overlap', MatchInv, DueInv, RestInv, CopyInv,
         Replaced(cached), UNCHANGED <<counts, threads, poller>>
  PROVE  MatchInv' /\ DueInv' /\ RestInv' /\ CopyInv'
<1>1. \A t \in Threads : ~InFlight(t)
  BY DEF Replaced, MatchInv
<1>2. UNCHANGED <<pc, snap, ppc, pDoc, pAt>>
  BY DEF threads, poller
<1>3. \A t \in Threads : ~Counting(t) /\ ~Counting(t)' /\ ~InFlight(t)'
  BY <1>1, <1>2 DEF Counting, InFlight
<1>4. \A d \in Docs : Orderly(counts[d])
  BY <1>3 DEF RestInv
<1>5. MatchInv' /\ DueInv' /\ RestInv' /\ CopyInv'
  BY <1>2, <1>3, <1>4 DEF MatchInv, DueInv, RestInv, CopyInv, Orderly
<1> QED
  BY <1>5

(* Once an applier was replaced under a request, it was.                   *)
LEMMA OverlapStays == TypeOK /\ [Next]_vars /\ ~overlap' => ~overlap
<1> SUFFICES ASSUME TypeOK, [Next]_vars, ~overlap' PROVE ~overlap
  OBVIOUS
<1>1. overlap \in BOOLEAN
  BY DEF TypeOK, HistoryType
<1>2. \/ overlap' = overlap
      \/ Replaced(cached)
  BY DEF Next, vars, Poll, Request, Decide, Lock, Load, Store, PollStart, PollSwap,
         PollRead, PollSend, PollUpdate, RuleRemoved, RuleChanged, history
<1> QED
  BY <1>1, <1>2 DEF Replaced

(* All steps keep the order of the counters.                               *)
LEMMA OrderStep == IInv /\ OrderInv /\ [Next]_vars => OrderInv'
<1> SUFFICES ASSUME IInv, OrderInv, [Next]_vars, ~overlap'
             PROVE  MatchInv' /\ DueInv' /\ RestInv' /\ CopyInv'
  BY DEF OrderInv
<1>a. TypeOK /\ CountingInv /\ DocInv
  BY DEF IInv
<1>b. ~overlap
  BY <1>a, OverlapStays
<1>c. MatchInv /\ DueInv /\ RestInv /\ CopyInv
  BY <1>b DEF OrderInv
<1>d. ASSUME UNCHANGED <<cached, docOf, counts, pc, mine, amount, at, loaded>>, CopyInv'
      PROVE  MatchInv' /\ DueInv' /\ RestInv' /\ CopyInv'
  BY <1>c, <1>d DEF MatchInv, DueInv, RestInv, InFlight, Counting, Due, Orderly
<1>1. ASSUME NEW t \in Threads, Request(t) PROVE MatchInv' /\ DueInv' /\ RestInv' /\ CopyInv'
  BY <1>a, <1>c, <1>1, DecideOrder, LockOrder, LoadOrder, StoreOrder DEF Request
<1>2. CASE PollStart
  <2>1. UNCHANGED <<cached, docOf, counts, pc, mine, amount, at, loaded, snap>> /\ ppc' \in {"send", "swap"} /\ snap = Zero
    BY <1>2 DEF PollStart, objects, threads, IInv, SnapInv
  <2>2. Orderly(Zero)
    BY CounterFacts DEF Orderly, Zero, CounterDefs
  <2> QED
    BY <1>d, <2>1, <2>2 DEF CopyInv, Orderly
<1>3. CASE PollSwap
  BY <1>a, <1>c, <1>3, SwapOrder
<1>4. CASE PollRead
  BY <1>a, <1>c, <1>4, ReadOrder
<1>5. CASE PollSend
  <2>1. UNCHANGED <<cached, docOf, counts, pc, mine, amount, at, loaded>> /\ ppc' = "update"
    BY <1>5 DEF PollSend, objects, threads
  <2> QED
    BY <1>d, <2>1 DEF CopyInv
<1>6. CASE PollUpdate
  <2>1. UNCHANGED <<counts, pc, mine, amount, at, loaded, pDoc, pAt, snap>> /\ ppc' = "idle"
    BY <1>6 DEF PollUpdate, threads
  <2>2. CopyInv'
    BY <2>1 DEF CopyInv
  <2>3. CASE UNCHANGED <<cached, nextA, docOf, borrowing, overlap>>
    BY <1>d, <2>1, <2>2, <2>3
  <2>4. CASE Replaced(cached)
    <3>1. \A t \in Threads : ~InFlight(t)
      BY <1>c, <2>4 DEF Replaced, MatchInv
    <3>2. \A t \in Threads : ~Counting(t) /\ ~Counting(t)' /\ ~InFlight(t)'
      BY <3>1, <2>1 DEF Counting, InFlight
    <3>3. \A d \in Docs : Orderly(counts[d])
      BY <1>c, <3>2 DEF RestInv
    <3> QED
      BY <2>1, <2>2, <3>2, <3>3 DEF MatchInv, DueInv, RestInv, Orderly
  <2> QED
    BY <1>6, <2>3, <2>4 DEF PollUpdate
<1>7. CASE RuleRemoved
  BY <1>a, <1>c, <1>7, ReplaceOrder DEF RuleRemoved
<1>8. CASE RuleChanged
  BY <1>a, <1>c, <1>8, ReplaceOrder DEF RuleChanged
<1>9. CASE UNCHANGED vars
  <2>1. UNCHANGED <<cached, docOf, counts, pc, mine, amount, at, loaded, ppc, pDoc, pAt, snap>>
    BY <1>9 DEF vars, objects, threads, poller
  <2> QED
    BY <1>c, <1>d, <2>1 DEF CopyInv, Orderly
<1> QED
  BY <1>1, <1>2, <1>3, <1>4, <1>5, <1>6, <1>7, <1>8, <1>9 DEF Next, Poll

LEMMA OrderInit == Init => OrderInv
<1>1. Orderly(Zero)
  BY CounterFacts DEF Orderly, Zero, CounterDefs
<1> QED
  BY <1>1 DEF Init, OrderInv, MatchInv, DueInv, RestInv, CopyInv, InFlight, Counting

(* While no applier is replaced under a request, a report has no more      *)
(* borrowed requests than sampled ones and no more of those than requests, *)
(* although snapshot reads the document outside of the lock.               *)
THEOREM OrderlyReports == Spec => []ConsistentReport
<1>1. Init => OrderInv
  BY OrderInit
<1>2. IInv /\ OrderInv => ConsistentReport
  BY DEF OrderInv, CopyInv, ConsistentReport, Orderly
<1> QED
  BY <1>1, <1>2, OrderStep, Inductive, PTL DEF Spec

-----------------------------------------------------------------------------
(* No report, and not all of them together, say more than there was: what  *)
(* is sampled is written or still to be written by a request in flight,    *)
(* and what is reported was written on documents that have left.           *)

(* What each request has still to write to a counter.                      *)
Owed(c) == [t \in Threads |-> IF pc[t] = "lock" \/ (Counting(t) /\ c >= at[t]) THEN amount[t][c] ELSE 0]

SumsType   == {sampled, reported, lost, dropped} \subseteq CountsType
SampledAll == \A c \in Counters : sampled[c] = Total(Column(writes, c), Docs) + Total(Owed(c), Threads)
TakenOnly  == \A c \in Counters : reported[c] + lost[c] + Leaving(c) <= Total(Column(writes, c), taken)

SumInv == SumsType /\ SampledAll /\ TakenOnly

LEMMA PlusFacts ==
  ASSUME NEW f \in CountsType, NEW g \in CountsType
  PROVE  Plus(f, g) \in CountsType /\ \A c \in Counters : Plus(f, g)[c] = f[c] + g[c]
<1>1. \A c \in Counters : f[c] \in Nat /\ g[c] \in Nat
  BY CountsRules
<1> QED
  BY <1>1 DEF Plus, CountsType

LEMMA DocsFinite == IsFiniteSet(Docs) /\ \A S \in SUBSET Docs : IsFiniteSet(S)
<1>1. IsFiniteSet(Docs)
  BY FS_Interval DEF Docs
<1> QED
  BY <1>1, FS_Subset

(* One counter of some documents has a total.                              *)
LEMMA ColumnFacts ==
  ASSUME NEW table \in [Docs -> CountsType], NEW c \in Counters
  PROVE  /\ \A d \in Docs : Column(table, c)[d] = table[d][c] /\ Column(table, c)[d] \in Nat
         /\ \A S \in SUBSET Docs : Total(Column(table, c), S) \in Nat
<1>1. \A d \in Docs : Column(table, c)[d] = table[d][c] /\ Column(table, c)[d] \in Nat
  BY CountsRules DEF Column
<1>2. ASSUME NEW S \in SUBSET Docs PROVE Total(Column(table, c), S) \in Nat
  <2>1. \A d \in S : Column(table, c)[d] \in Nat
    BY <1>1
  <2> QED
    BY <2>1, DocsFinite, TotalType
<1> QED
  BY <1>1, <1>2

LEMMA OwedFacts ==
  ASSUME TypeOK, NEW c \in Counters
  PROVE  /\ \A t \in Threads : Owed(c)[t] \in Nat
         /\ Total(Owed(c), Threads) \in Nat
<1>1. \A t \in Threads : amount[t][c] \in Nat
  BY CountsRules DEF TypeOK, ThreadsType
<1>2. \A t \in Threads : Owed(c)[t] \in Nat
  BY <1>1 DEF Owed
<1> QED
  BY <1>2, ThreadsAssumption, TotalType

(* A step that changes what one request owes.                              *)
LEMMA OwedChange ==
  ASSUME TypeOK, TypeOK', NEW c \in Counters, NEW t \in Threads,
         \A u \in Threads : u # t => pc'[u] = pc[u] /\ at'[u] = at[u] /\ amount'[u] = amount[u]
  PROVE  /\ Total(Owed(c)', Threads) + Owed(c)[t] = Total(Owed(c), Threads) + Owed(c)'[t]
         /\ Total(Owed(c)', Threads) \in Nat /\ Owed(c)'[t] \in Nat
<1> DEFINE new == Owed(c)'
<1>1. \A u \in Threads : Owed(c)[u] \in Nat
  BY OwedFacts
<1>2. \A u \in Threads : new[u] \in Nat
  <2>1. \A u \in Threads : amount'[u][c] \in Nat
    BY CountsRules DEF TypeOK, ThreadsType
  <2> QED
    BY <2>1 DEF Owed
<1>3. \A u \in Threads \ {t} : new[u] = Owed(c)[u]
  BY DEF Owed, Counting
<1> HIDE DEF new
<1>4. Total(new, Threads) \in Nat
  BY <1>2, ThreadsAssumption, TotalType
<1>5. Total(new, Threads) + Owed(c)[t] = Total(Owed(c), Threads) + new[t]
  BY <1>1, <1>2, <1>3, ThreadsAssumption, TotalChange
<1> QED
  BY <1>2, <1>4, <1>5 DEF new

(* The increments of a store.                                              *)
LEMMA StoreWrites ==
  ASSUME TypeOK, CountingInv, NEW t \in Threads, Store(t)
  PROVE  LET d == docOf[mine[t]]
         IN  /\ d \in Docs /\ writes' \in [Docs -> CountsType]
             /\ \A e \in Docs : e # d => writes'[e] = writes[e]
             /\ \A c \in Counters : writes'[d][c] = writes[d][c] + (IF c = at[t] THEN amount[t][c] ELSE 0)
<1> DEFINE d == docOf[mine[t]]
<1>1. d \in Docs /\ at[t] \in Counters /\ amount[t] \in CountsType /\ writes[d] \in CountsType
      /\ writes \in [Docs -> CountsType]
  BY ThreadFacts DEF Store, InFlight, TypeOK, HistoryType
<1> DEFINE n == writes[d][at[t]] + amount[t][at[t]]
<1>2. n \in Nat
  BY <1>1, CountsRules
<1>3. writes' = [writes EXCEPT ![d] = [writes[d] EXCEPT ![at[t]] = n]]
  BY DEF Store
<1>4. [writes[d] EXCEPT ![at[t]] = n] \in CountsType
  BY <1>1, <1>2, CountsRules
<1> HIDE DEF n
<1>5. /\ writes' \in [Docs -> CountsType] /\ \A e \in Docs : e # d => writes'[e] = writes[e]
      /\ writes'[d] = [writes[d] EXCEPT ![at[t]] = n]
  BY <1>1, <1>3, <1>4
<1>6. ASSUME NEW c \in Counters PROVE writes'[d][c] = writes[d][c] + (IF c = at[t] THEN amount[t][c] ELSE 0)
  <2>1. CASE c = at[t]
    BY <1>1, <1>5, <2>1 DEF CountsType, n
  <2>2. CASE c # at[t]
    <3>1. writes'[d][c] = writes[d][c] /\ writes[d][c] \in Nat
      BY <1>1, <1>5, <2>2 DEF CountsType
    <3> QED
      BY <2>2, <3>1
  <2> QED
    BY <2>1, <2>2
<1> QED
  BY <1>1, <1>5, <1>6

LEMMA StoreSum ==
  ASSUME TypeOK, TypeOK', CountingInv, SumInv, NEW t \in Threads, Store(t)
  PROVE  SampledAll' /\ TakenOnly'
<1> DEFINE d == docOf[mine[t]]
<1>1. /\ d \in Docs /\ writes' \in [Docs -> CountsType] /\ writes \in [Docs -> CountsType]
      /\ \A e \in Docs : e # d => writes'[e] = writes[e]
      /\ \A c \in Counters : writes'[d][c] = writes[d][c] + (IF c = at[t] THEN amount[t][c] ELSE 0)
      /\ at[t] \in Counters /\ amount[t] \in CountsType
  BY StoreWrites, ThreadFacts DEF TypeOK, HistoryType
<1>2. UNCHANGED <<sampled, reported, lost, ppc, snap, taken>> /\ taken \in SUBSET Docs
  BY DEF Store, poller, TypeOK, HistoryType
<1>3. ASSUME NEW c \in Counters PROVE sampled'[c] = Total(Column(writes', c), Docs) + Total(Owed(c)', Threads)
  <2> DEFINE old == Column(writes, c)
             new == Column(writes', c)
             n   == IF c = at[t] THEN amount[t][c] ELSE 0
  <2>1. /\ \A e \in Docs : old[e] \in Nat /\ new[e] \in Nat
        /\ \A e \in Docs \ {d} : new[e] = old[e]
        /\ new[d] = old[d] + n /\ amount[t][c] \in Nat
    BY <1>1, ColumnFacts, CountsRules
  <2>2. Owed(c)[t] = Owed(c)'[t] + n /\ Owed(c)[t] \in Nat /\ Owed(c)'[t] \in Nat
    <3>1. pc[t] = "store" /\ pc \in [Threads -> {"idle", "lock", "load", "store"}] /\ at \in [Threads -> Counters]
          /\ amount \in [Threads -> CountsType]
      BY DEF Store, TypeOK, ThreadsType
    <3>2. c \in Int /\ at[t] \in Int /\ c <= SampleCount
      BY <1>1, CounterFacts DEF CounterDefs
    <3>3. Owed(c)[t] = IF c >= at[t] THEN amount[t][c] ELSE 0
      BY <3>1 DEF Owed, Counting
    <3>4. CASE at[t] = SampleCount
      <4>1. pc'[t] = "idle"
        BY <3>1, <3>4 DEF Store
      <4>2. Owed(c)'[t] = 0
        BY <4>1 DEF Owed, Counting
      <4>3. c >= at[t] <=> c = at[t]
        BY <3>2, <3>4, CounterFacts DEF CounterDefs
      <4> QED
        BY <2>1, <3>3, <4>2, <4>3
    <3>5. CASE at[t] # SampleCount
      <4>1. pc'[t] = "load" /\ at'[t] = at[t] + 1 /\ amount'[t] = amount[t]
        BY <3>1, <3>5 DEF Store
      <4>2. Owed(c)'[t] = IF c >= at[t] + 1 THEN amount[t][c] ELSE 0
        BY <4>1 DEF Owed, Counting
      <4>3. c >= at[t] <=> c = at[t] \/ c >= at[t] + 1
        BY <3>2
      <4>4. c = at[t] => ~(c >= at[t] + 1)
        BY <3>2
      <4> QED
        BY <2>1, <3>3, <4>2, <4>3, <4>4
    <3> QED
      BY <3>4, <3>5
  <2>3. Total(new, Docs) + old[d] = Total(old, Docs) + new[d]
    <3> HIDE DEF old, new
    <3> QED
      BY <1>1, <2>1, DocsFinite, TotalChange
  <2>4. /\ Total(Owed(c)', Threads) + Owed(c)[t] = Total(Owed(c), Threads) + Owed(c)'[t]
        /\ Total(Owed(c)', Threads) \in Nat
    <3>1. \A u \in Threads : u # t => pc'[u] = pc[u] /\ at'[u] = at[u] /\ amount'[u] = amount[u]
      BY DEF Store, TypeOK, ThreadsType
    <3> QED
      BY <3>1, OwedChange
  <2>5. /\ Total(old, Docs) \in Nat /\ Total(new, Docs) \in Nat
        /\ Total(Owed(c), Threads) \in Nat /\ Total(Owed(c)', Threads) \in Nat
    <3>1. Total(Owed(c), Threads) \in Nat
      BY OwedFacts
    <3> QED
      BY <1>1, <2>4, <3>1, ColumnFacts
  <2>6. sampled[c] = Total(old, Docs) + Total(Owed(c), Threads)
    BY DEF SumInv, SampledAll
  <2>7. old[d] \in Nat /\ n \in Nat /\ new[d] = old[d] + n
    BY <1>1, <2>1
  <2> HIDE DEF old, new, n
  <2>8. sampled[c] = Total(new, Docs) + Total(Owed(c)', Threads)
    BY <2>2, <2>3, <2>4, <2>5, <2>6, <2>7
  <2> QED
    BY <1>2, <2>8 DEF new
<1>4. SampledAll'
  BY <1>3 DEF SampledAll
<1>5. TakenOnly'
  <2>1. ASSUME NEW c \in Counters PROVE Total(Column(writes, c), taken) <= Total(Column(writes', c), taken)
    <3>1. \A e \in taken : /\ Column(writes, c)[e] \in Nat /\ Column(writes', c)[e] \in Nat
                           /\ Column(writes, c)[e] <= Column(writes', c)[e]
      <4>1. \A e \in Docs : writes[e][c] \in Nat /\ writes'[e][c] \in Nat /\ writes[e][c] <= writes'[e][c]
        BY WritesGrow
      <4> QED
        BY <1>1, <1>2, <4>1, ColumnFacts
    <3> QED
      BY <1>2, <3>1, DocsFinite, TotalOrder
  <2>2. ASSUME NEW c \in Counters PROVE reported[c] + lost[c] + Leaving(c) <= Total(Column(writes', c), taken)
    <3>1. reported[c] + lost[c] + Leaving(c) <= Total(Column(writes, c), taken)
      BY DEF SumInv, TakenOnly
    <3>2. reported[c] \in Nat /\ lost[c] \in Nat /\ Leaving(c) \in Nat
      BY CountsRules DEF SumInv, SumsType, Leaving, TypeOK, PollerType
    <3>3. Total(Column(writes, c), taken) \in Nat /\ Total(Column(writes', c), taken) \in Nat
      BY <1>1, <1>2, ColumnFacts
    <3> QED
      BY <2>1, <3>1, <3>2, <3>3
  <2> QED
    BY <1>2, <2>2 DEF TakenOnly, Leaving, Column
<1> QED
  BY <1>4, <1>5

(* A request begins: it owes what it is sampled as.                        *)
LEMMA DecideSum ==
  ASSUME TypeOK, TypeOK', SumInv, NEW t \in Threads, Decide(t)
  PROVE  SumInv'
<1>1. /\ pc[t] = "idle" /\ pc'[t] = "lock" /\ sampled' = Plus(sampled, amount'[t])
      /\ UNCHANGED <<writes, taken, reported, lost, dropped, ppc, snap, at>>
      /\ \A u \in Threads : u # t => pc'[u] = pc[u] /\ at'[u] = at[u] /\ amount'[u] = amount[u]
  BY DEF Decide, poller, TypeOK, ThreadsType
<1>2. amount'[t] \in CountsType /\ sampled \in CountsType
  BY DEF TypeOK, ThreadsType, SumInv, SumsType
<1>3. sampled' \in CountsType /\ \A c \in Counters : sampled'[c] = sampled[c] + amount'[t][c]
  BY <1>1, <1>2, PlusFacts, Zenon
<1>4. ASSUME NEW c \in Counters PROVE sampled'[c] = Total(Column(writes, c), Docs) + Total(Owed(c)', Threads)
  <2>1. Owed(c)[t] = 0 /\ Owed(c)'[t] = amount'[t][c]
    BY <1>1 DEF Owed, Counting
  <2>2. /\ Total(Owed(c)', Threads) + Owed(c)[t] = Total(Owed(c), Threads) + Owed(c)'[t]
        /\ Total(Owed(c)', Threads) \in Nat /\ Owed(c)'[t] \in Nat
    BY <1>1, OwedChange
  <2>3. Total(Owed(c), Threads) \in Nat /\ Total(Column(writes, c), Docs) \in Nat /\ sampled[c] \in Nat
    BY <1>2, OwedFacts, ColumnFacts, CountsRules DEF TypeOK, HistoryType
  <2>4. sampled[c] = Total(Column(writes, c), Docs) + Total(Owed(c), Threads)
    BY DEF SumInv, SampledAll
  <2> QED
    BY <1>3, <2>1, <2>2, <2>3, <2>4
<1> QED
  BY <1>1, <1>3, <1>4 DEF SumInv, SumsType, SampledAll, TakenOnly, Leaving, Column

(* The snapshot is complete: its document leaves, with at most what was    *)
(* written to it.                                                          *)
LEMMA ReadSum ==
  ASSUME TypeOK, ReportedOnce, WithinWrites', SumInv, PollRead
  PROVE  TakenOnly'
<1>1. /\ ppc = "read" /\ pDoc \in Docs /\ pDoc \notin taken /\ taken \in SUBSET Docs
      /\ UNCHANGED <<writes, reported, lost, pDoc>> /\ writes \in [Docs -> CountsType]
  BY DEF PollRead, ReportedOnce, TypeOK, PollerType, HistoryType
<1>2. ASSUME NEW c \in Counters PROVE reported[c] + lost[c] <= Total(Column(writes, c), taken)
  <2>1. reported[c] + lost[c] + Leaving(c) <= Total(Column(writes, c), taken) /\ Leaving(c) = 0
    BY <1>1 DEF SumInv, TakenOnly, Leaving
  <2>2. reported[c] \in Nat /\ lost[c] \in Nat
    BY CountsRules DEF SumInv, SumsType
  <2> QED
    BY <2>1, <2>2
<1>3. CASE pAt = SampleCount
  <2>1. ppc' = "send" /\ taken' = taken \cup {pDoc}
    BY <1>3 DEF PollRead
  <2>2. ASSUME NEW c \in Counters
        PROVE  reported'[c] + lost'[c] + Leaving(c)' <= Total(Column(writes', c), taken')
    <3>1. Leaving(c)' <= writes[pDoc][c]
      BY <1>1, <2>1 DEF WithinWrites, Leaving
    <3>2. Total(Column(writes, c), taken \cup {pDoc}) = Total(Column(writes, c), taken) + Column(writes, c)[pDoc]
      <4>1. \A d \in taken \cup {pDoc} : Column(writes, c)[d] \in Nat
        BY <1>1, ColumnFacts
      <4> QED
        BY <1>1, <4>1, DocsFinite, TotalAdd
    <3>3. Column(writes, c)[pDoc] = writes[pDoc][c]
      BY <1>1, ColumnFacts
    <3>4. reported[c] \in Nat /\ lost[c] \in Nat /\ Total(Column(writes, c), taken) \in Nat /\ writes[pDoc][c] \in Nat
      BY <1>1, ColumnFacts, CountsRules DEF SumInv, SumsType
    <3>5. Leaving(c)' \in Int
      BY <1>1, CounterFacts DEF CounterDefs, PollRead, Leaving, TypeOK, PollerType, ObjectsType, CountsType
    <3> QED
      BY <1>1, <1>2, <2>1, <3>1, <3>2, <3>3, <3>4, <3>5
  <2> QED
    BY <2>2 DEF TakenOnly
<1>4. CASE pAt # SampleCount
  <2>1. ppc' = "read" /\ taken' = taken
    BY <1>1, <1>4 DEF PollRead
  <2> QED
    BY <1>1, <1>2, <2>1, CountsRules DEF TakenOnly, Leaving, SumInv, SumsType
<1> QED
  BY <1>3, <1>4

(* The report is told, or lost: what was leaving has left.                 *)
LEMMA SendSum ==
  ASSUME TypeOK, SumInv, PollSend
  PROVE  TakenOnly' /\ {reported, lost}' \subseteq CountsType
<1>1. /\ ppc = "send" /\ ppc' = "update" /\ UNCHANGED <<writes, taken>>
      /\ snap \in CountsType /\ reported \in CountsType /\ lost \in CountsType
      /\ taken \in SUBSET Docs /\ writes \in [Docs -> CountsType]
  BY DEF PollSend, TypeOK, PollerType, HistoryType, SumInv, SumsType
<1>2. /\ {reported, lost}' \subseteq CountsType
      /\ \A c \in Counters : reported'[c] + lost'[c] = reported[c] + lost[c] + snap[c]
  <2>1. \A c \in Counters : reported[c] \in Nat /\ lost[c] \in Nat /\ snap[c] \in Nat
    BY <1>1, CountsRules
  <2>2. CASE reported' = Plus(reported, snap) /\ UNCHANGED lost
    <3>1. reported' \in CountsType /\ \A c \in Counters : reported'[c] = reported[c] + snap[c]
      BY <1>1, <2>2, PlusFacts, Zenon
    <3> QED
      BY <1>1, <2>1, <2>2, <3>1
  <2>3. CASE lost' = Plus(lost, snap) /\ UNCHANGED reported
    <3>1. lost' \in CountsType /\ \A c \in Counters : lost'[c] = lost[c] + snap[c]
      BY <1>1, <2>3, PlusFacts, Zenon
    <3> QED
      BY <1>1, <2>1, <2>3, <3>1
  <2> QED
    BY <2>2, <2>3 DEF PollSend
<1>3. ASSUME NEW c \in Counters
      PROVE  reported'[c] + lost'[c] + Leaving(c)' <= Total(Column(writes', c), taken')
  <2>1. Leaving(c)' = 0 /\ Leaving(c) = snap[c]
    BY <1>1 DEF Leaving
  <2>2. reported[c] + lost[c] + snap[c] <= Total(Column(writes, c), taken)
    BY <2>1 DEF SumInv, TakenOnly
  <2>3. reported[c] \in Nat /\ lost[c] \in Nat /\ snap[c] \in Nat
    BY <1>1, CountsRules
  <2> QED
    BY <1>1, <1>2, <2>1, <2>2, <2>3
<1> QED
  BY <1>2, <1>3 DEF TakenOnly

(* A changed or removed rule drops what its document holds.                *)
LEMMA ForgetType ==
  ASSUME TypeOK, SumsType, Forget
  PROVE  dropped' \in CountsType
<1>1. dropped \in CountsType /\ counts \in [Docs -> CountsType] /\ docOf \in [Appliers -> Docs]
  BY DEF SumsType, TypeOK, ObjectsType
<1>2. cached # None => counts[docOf[cached]] \in CountsType
  BY <1>1 DEF TypeOK, ObjectsType
<1> QED
  BY <1>1, <1>2, PlusFacts, Zenon DEF Forget

LEMMA SumStep == IInv /\ SumInv /\ [Next]_vars => SumInv'
<1> SUFFICES ASSUME IInv, SumInv, [Next]_vars PROVE SumInv'
  OBVIOUS
<1>a. TypeOK /\ CountingInv /\ DocInv /\ SnapInv /\ ReportedOnce /\ WithinWrites
  BY DEF IInv, ReportSound
<1>b. TypeOK' /\ WithinWrites'
  BY <1>a, TypeStep, WritesStep
<1>c. SumsType /\ SampledAll /\ TakenOnly
  BY DEF SumInv
<1>d. ASSUME UNCHANGED <<sampled, writes, pc, at, amount>> PROVE SampledAll'
  BY <1>c, <1>d DEF SampledAll, Column, Owed, Counting
<1>e. ASSUME UNCHANGED <<reported, lost, writes, taken>>, \A c \in Counters : Leaving(c)' = Leaving(c)
      PROVE  TakenOnly'
  BY <1>c, <1>e DEF TakenOnly, Column
<1>1. ASSUME NEW t \in Threads, Request(t) PROVE SumInv'
  <2>1. CASE Decide(t)
    BY <1>a, <1>b, <2>1, DecideSum
  <2>2. CASE Store(t)
    <3>1. UNCHANGED <<sampled, reported, lost, dropped>>
      BY <2>2 DEF Store
    <3> QED
      BY <1>a, <1>b, <1>c, <2>2, <3>1, StoreSum DEF SumInv, SumsType
  <2>3. CASE Lock(t) \/ Load(t)
    <3>1. UNCHANGED <<sampled, writes, taken, reported, lost, dropped, amount, ppc, snap>>
      BY <2>3 DEF Lock, Load, poller, history
    <3>2. ASSUME NEW c \in Counters, NEW u \in Threads
          PROVE  (pc'[u] = "lock" \/ (Counting(u)' /\ c >= at'[u])) <=> (pc[u] = "lock" \/ (Counting(u) /\ c >= at[u]))
      <4>1. c >= RequestCount
        BY CounterFacts DEF CounterDefs
      <4>2. u # t => pc'[u] = pc[u] /\ at'[u] = at[u]
        BY <1>a, <2>3 DEF Lock, Load, TypeOK, ThreadsType
      <4>3. \/ pc[t] = "lock" /\ pc'[t] = "load" /\ at'[t] = RequestCount
            \/ pc[t] = "load" /\ pc'[t] = "store" /\ at'[t] = at[t]
        BY <1>a, <2>3 DEF Lock, Load, TypeOK, ThreadsType
      <4> QED
        BY <4>1, <4>2, <4>3 DEF Counting
    <3>3. \A c \in Counters : Owed(c)' = Owed(c)
      BY <3>1, <3>2, Zenon DEF Owed
    <3>4. SampledAll'
      BY <1>c, <3>1, <3>3 DEF SampledAll, Column
    <3> QED
      BY <1>c, <1>e, <3>1, <3>4 DEF SumInv, SumsType, Leaving
  <2> QED
    BY <1>1, <2>1, <2>2, <2>3 DEF Request
<1>2. CASE PollStart
  <2>1. UNCHANGED <<sampled, writes, taken, reported, lost, dropped, pc, at, amount, snap>> /\ ppc = "idle"
    BY <1>2 DEF PollStart, threads, history
  <2>2. \A c \in Counters : Leaving(c)' = 0 /\ Leaving(c) = 0
    BY <1>a, <2>1 DEF SnapInv, Zero, Leaving
  <2> QED
    BY <1>c, <1>d, <1>e, <2>1, <2>2 DEF SumInv, SumsType
<1>3. CASE PollSwap
  <2>1. UNCHANGED <<sampled, writes, taken, reported, lost, dropped, pc, at, amount>> /\ ppc = "swap" /\ ppc' = "read"
    BY <1>3 DEF PollSwap, threads, history
  <2> QED
    BY <1>c, <1>d, <1>e, <2>1 DEF SumInv, SumsType, Leaving
<1>4. CASE PollRead
  <2>1. UNCHANGED <<sampled, writes, reported, lost, dropped, pc, at, amount>>
    BY <1>4 DEF PollRead, threads
  <2> QED
    BY <1>4, <1>a, <1>b, <1>c, <1>d, <2>1, ReadSum DEF SumInv, SumsType
<1>5. CASE PollSend
  <2>1. UNCHANGED <<sampled, writes, dropped, pc, at, amount>>
    BY <1>5 DEF PollSend, threads
  <2> QED
    BY <1>5, <1>a, <1>c, <1>d, <2>1, SendSum DEF SumInv, SumsType
<1>6. CASE PollUpdate
  <2>1. /\ UNCHANGED <<sampled, writes, taken, reported, lost, dropped, pc, at, amount>>
        /\ ppc = "update" /\ ppc' = "idle"
    BY <1>6 DEF PollUpdate, threads
  <2> QED
    BY <1>c, <1>d, <1>e, <2>1 DEF SumInv, SumsType, Leaving
<1>7. CASE RuleRemoved \/ RuleChanged
  <2>1. UNCHANGED <<sampled, writes, taken, reported, lost, pc, at, amount, ppc, snap>> /\ Forget
    BY <1>7 DEF RuleRemoved, RuleChanged, threads, poller
  <2> QED
    BY <1>a, <1>c, <1>d, <1>e, <2>1, ForgetType DEF SumInv, SumsType, Leaving
<1>8. CASE UNCHANGED vars
  <2>1. UNCHANGED <<sampled, writes, taken, reported, lost, dropped, pc, at, amount, ppc, snap>>
    BY <1>8 DEF vars, threads, poller, history
  <2> QED
    BY <1>c, <1>d, <1>e, <2>1 DEF SumInv, SumsType, Leaving
<1> QED
  BY <1>1, <1>2, <1>3, <1>4, <1>5, <1>6, <1>7, <1>8 DEF Next, Poll

LEMMA SumInit == Init => SumInv
<1> SUFFICES ASSUME Init PROVE SumInv
  OBVIOUS
<1>1. SumsType
  BY CountsRules DEF Init, SumsType
<1>2. ASSUME NEW c \in Counters PROVE Total(Column(writes, c), Docs) = 0 /\ Total(Owed(c), Threads) = 0
  <2>1. \A d \in Docs : Column(writes, c)[d] = 0
    BY DEF Init, Column, Zero
  <2>2. \A t \in Threads : Owed(c)[t] = 0
    BY DEF Init, Owed, Counting
  <2> QED
    BY <2>1, <2>2, TotalZero
<1>3. SampledAll
  BY <1>2 DEF SampledAll, Init, Zero
<1>4. TakenOnly
  BY TotalEmpty DEF TakenOnly, Init, Zero, Leaving
<1> QED
  BY <1>1, <1>3, <1>4 DEF SumInv

(* The service is never told of more requests, borrowed or sampled ones    *)
(* than there were: over all reports, sent or lost, and all appliers the   *)
(* poller and the rule updates ever put into the cache.                    *)
THEOREM ReportsWithinSampled == Spec => []NoOverReport
<1>1. Init => SumInv
  BY SumInit
<1>2. IInv /\ SumInv => NoOverReport
  <2> SUFFICES ASSUME IInv, SumInv, NEW c \in Counters PROVE reported[c] + lost[c] <= sampled[c]
    BY DEF NoOverReport
  <2>1. TypeOK /\ writes \in [Docs -> CountsType] /\ taken \in SUBSET Docs
    BY DEF IInv, TypeOK, HistoryType
  <2>2. \A d \in Docs : Column(writes, c)[d] \in Nat
    BY <2>1, ColumnFacts
  <2> DEFINE col == Column(writes, c)
  <2>3. Total(col, taken) <= Total(col, Docs)
    <3>1. \A d \in Docs : col[d] \in Nat
      BY <2>2
    <3>2. \A d \in taken : col[d] \in Nat /\ col[d] <= col[d]
      BY <2>1, <3>1
    <3> HIDE DEF col
    <3> QED
      BY <2>1, <3>1, <3>2, DocsFinite, TotalOrder
  <2>4. /\ Total(col, taken) \in Nat /\ Total(col, Docs) \in Nat /\ Total(Owed(c), Threads) \in Nat
        /\ reported[c] \in Nat /\ lost[c] \in Nat /\ Leaving(c) \in Nat
    BY <2>1, ColumnFacts, OwedFacts, CountsRules DEF SumInv, SumsType, Leaving, TypeOK, PollerType
  <2>5. /\ sampled[c] = Total(col, Docs) + Total(Owed(c), Threads)
        /\ reported[c] + lost[c] + Leaving(c) <= Total(col, taken)
    BY DEF SumInv, SampledAll, TakenOnly
  <2> HIDE DEF col
  <2> QED
    BY <2>3, <2>4, <2>5
<1> QED
  BY <1>1, <1>2, SumStep, Inductive, PTL DEF Spec

-----------------------------------------------------------------------------
(* Nothing is lost on the way while no applier is replaced under a         *)
(* request: a document that is not made yet is empty, and every increment  *)
(* is on a document the cache or the poller still holds, or has left it.   *)

FreshInv == \A d \in Docs : d >= nextD => counts[d] = Zero

Away(c) == reported[c] + lost[c] + dropped[c] + Leaving(c)
Held(c) == Total(Column(counts, c), Unreported)
Balance == \A c \in Counters : Total(Column(writes, c), Docs) = Away(c) + Held(c)

(* The documents the poller has in hand.                                   *)
Taking == (IF ppc = "swap" THEN {docOf[pApplier]} ELSE {}) \cup (IF ppc = "read" THEN {pDoc} ELSE {})

LEMMA HeldFacts ==
  ASSUME TypeOK, CountingInv, DocInv
  PROVE  /\ Unreported = Taking \cup (IF cached # None THEN {docOf[cached]} ELSE {})
         /\ Taking \in SUBSET Docs /\ Unreported \in SUBSET Docs
         /\ \A d \in Unreported : Made(d)
         /\ \A c \in Counters : /\ Held(c) \in Nat
                                /\ \A d \in Docs : Column(counts, c)[d] = counts[d][c] /\ counts[d][c] \in Nat
<1>1. Unreported = Taking \cup (IF cached # None THEN {docOf[cached]} ELSE {})
  <2> DEFINE A == IF cached # None THEN {docOf[cached]} ELSE {}
             B == IF ppc = "swap" THEN {docOf[pApplier]} ELSE {}
             C == IF ppc = "read" THEN {pDoc} ELSE {}
  <2>1. Unreported = A \cup B \cup C /\ Taking = B \cup C
    BY DEF Unreported, Taking
  <2> HIDE DEF A, B, C
  <2>2. Unreported = Taking \cup A
    BY <2>1
  <2> QED
    BY <2>2 DEF A
<1>2. \A d \in Unreported : Made(d)
  <2>1. ASSUME NEW d \in Unreported
        PROVE  \/ cached # None /\ d = docOf[cached]
               \/ ppc = "swap" /\ d = docOf[pApplier]
               \/ ppc = "read" /\ d = pDoc
    BY DEF Unreported
  <2>2. \A a : Created(a) => Made(docOf[a])
    BY DEF DocInv, Created
  <2> QED
    BY <2>1, <2>2 DEF DocInv
<1>3. Taking \in SUBSET Docs /\ Unreported \in SUBSET Docs
  BY <1>1, <1>2 DEF Made
<1>4. counts \in [Docs -> CountsType]
  BY DEF TypeOK, ObjectsType
<1> QED
  BY <1>1, <1>2, <1>3, <1>4, ColumnFacts DEF Held

LEMMA AwayFacts ==
  ASSUME TypeOK, SumsType, NEW c \in Counters
  PROVE  /\ reported[c] \in Nat /\ lost[c] \in Nat /\ dropped[c] \in Nat /\ snap[c] \in Nat
         /\ Leaving(c) \in Nat /\ Away(c) \in Nat
<1>1. reported[c] \in Nat /\ lost[c] \in Nat /\ dropped[c] \in Nat /\ snap[c] \in Nat
  BY CountsRules DEF SumsType, TypeOK, PollerType
<1> QED
  BY <1>1 DEF Away, Leaving

LEMMA FreshStep == IInv /\ FreshInv /\ [Next]_vars => FreshInv'
<1> SUFFICES ASSUME IInv, FreshInv, [Next]_vars PROVE FreshInv'
  OBVIOUS
<1>a. TypeOK /\ CountingInv /\ DocInv /\ nextD \in Int
  BY DEF IInv, TypeOK, ObjectsType
<1>1. ASSUME NEW t \in Threads, Store(t) PROVE FreshInv'
  <2>1. Made(docOf[mine[t]]) /\ nextD' = nextD
    BY <1>a, <1>1 DEF Store, CountingInv, DocInv, InFlight, Created
  <2>2. \A e \in Docs : e # docOf[mine[t]] => counts'[e] = counts[e]
    BY <1>a, <1>1 DEF Store, TypeOK, ObjectsType
  <2> QED
    BY <1>a, <2>1, <2>2 DEF FreshInv, Made, Docs
<1>2. CASE counts' = counts /\ nextD' \in {nextD, nextD + 1}
  BY <1>a, <1>2 DEF FreshInv, Docs
<1>3. \/ \E t \in Threads : Store(t)
      \/ counts' = counts /\ nextD' \in {nextD, nextD + 1}
  BY DEF Next, vars, Poll, Request, Decide, Lock, Load, PollStart, PollSwap,
         PollRead, PollSend, PollUpdate, RuleRemoved, RuleChanged, objects
<1> QED
  BY <1>1, <1>2, <1>3

(* A store on the cached document: one increment more, written and held.   *)
LEMMA StoreBalance ==
  ASSUME TypeOK, TypeOK', CountingInv, CountingInv', DocInv, DocInv', MatchInv, DueInv, SumsType, Balance,
         NEW t \in Threads, Store(t)
  PROVE  Balance'
<1> DEFINE d == docOf[mine[t]]
<1>1. /\ d \in Docs /\ mine[t] = cached /\ cached # None
      /\ at[t] \in Counters /\ amount[t] \in CountsType
  BY ThreadFacts DEF Store, InFlight, MatchInv, DocInv, CountingInv, Created, Appliers, None
<1>2. /\ UNCHANGED <<cached, docOf, ppc, pApplier, pDoc, snap, reported, lost, dropped>>
      /\ d \in Unreported /\ Unreported' = Unreported /\ Unreported \in SUBSET Docs
  BY <1>1, HeldFacts DEF Store, poller, Unreported
<1>3. SUFFICES ASSUME NEW c \in Counters
               PROVE  Total(Column(writes', c), Docs) = Away(c)' + Held(c)'
  BY DEF Balance
<1> DEFINE n == IF c = at[t] THEN amount[t][c] ELSE 0
           oldW == Column(writes, c)
           newW == Column(writes', c)
           oldC == Column(counts, c)
           newC == Column(counts', c)
<1>4. /\ \A e \in Docs : oldW[e] \in Nat /\ newW[e] \in Nat
      /\ \A e \in Docs : e # d => newW[e] = oldW[e]
      /\ newW[d] = oldW[d] + n
  BY StoreWrites, ColumnFacts DEF TypeOK, HistoryType
<1>5. /\ \A e \in Docs : oldC[e] \in Nat /\ newC[e] \in Nat
      /\ \A e \in Docs : e # d => newC[e] = oldC[e]
      /\ newC[d] = oldC[d] + n
  BY StoreEffect, ColumnFacts DEF TypeOK, ObjectsType
<1>6. n \in Nat
  BY <1>1, CountsRules
<1>7. Total(oldW, Docs) = Away(c) + Total(oldC, Unreported)
  BY DEF Balance, Held
<1>8. Away(c)' = Away(c)
  BY <1>2 DEF Away, Leaving
<1>9. Held(c)' = Total(newC, Unreported)
  BY <1>2 DEF Held
<1>x. newW = Column(writes', c)
  OBVIOUS
<1> HIDE DEF n, oldW, newW, oldC, newC
<1>10. Total(newW, Docs) + oldW[d] = Total(oldW, Docs) + newW[d]
  BY <1>1, <1>4, DocsFinite, TotalChange
<1>11. Total(newC, Unreported) + oldC[d] = Total(oldC, Unreported) + newC[d]
  BY <1>1, <1>2, <1>5, DocsFinite, TotalChange
<1>12. /\ Total(newW, Docs) \in Nat /\ Total(oldW, Docs) \in Nat
       /\ Total(newC, Unreported) \in Nat /\ Total(oldC, Unreported) \in Nat
  BY <1>2, <1>4, <1>5, DocsFinite, TotalType
<1>13. Total(newW, Docs) = Total(oldW, Docs) + n
  BY <1>1, <1>4, <1>6, <1>10, <1>12
<1>14. Total(newC, Unreported) = Total(oldC, Unreported) + n
  BY <1>1, <1>5, <1>6, <1>11, <1>12
<1>15. Away(c) \in Nat
  BY AwayFacts
<1> QED
  BY <1>7, <1>8, <1>9, <1>x, <1>6, <1>12, <1>13, <1>14, <1>15

(* A document without counts makes no difference, wherever it is held.     *)
LEMMA EmptyHeld ==
  ASSUME TypeOK, NEW c \in Counters, NEW S \in SUBSET Docs, NEW d \in Docs, counts[d] = Zero
  PROVE  Total(Column(counts, c), S \cup {d}) = Total(Column(counts, c), S)
<1>1. counts \in [Docs -> CountsType] /\ IsFiniteSet(S)
  BY DocsFinite DEF TypeOK, ObjectsType
<1> DEFINE col == Column(counts, c)
<1>2. /\ \A e \in Docs : col[e] \in Nat
      /\ Total(col, S) \in Nat
  BY <1>1, ColumnFacts
<1>3. col[d] = 0
  BY <1>1, ColumnFacts DEF Zero
<1> HIDE DEF col
<1>4. CASE d \in S
  <2>1. S \cup {d} = S
    BY <1>4
  <2> QED
    BY <2>1
<1>5. CASE d \notin S
  <2>1. Total(col, S \cup {d}) = Total(col, S) + col[d]
    BY <1>1, <1>2, <1>5, TotalAdd
  <2> QED
    BY <1>2, <1>3, <2>1 DEF col
<1> QED
  BY <1>4, <1>5 DEF col

(* A document that is held on top of others.                               *)
LEMMA OneHeld ==
  ASSUME TypeOK, NEW c \in Counters, NEW S \in SUBSET Docs, NEW d \in Docs, d \notin S
  PROVE  /\ Total(Column(counts, c), S \cup {d}) = Total(Column(counts, c), S) + counts[d][c]
         /\ Total(Column(counts, c), S) \in Nat /\ counts[d][c] \in Nat
<1>1. counts \in [Docs -> CountsType] /\ IsFiniteSet(S)
  BY DocsFinite DEF TypeOK, ObjectsType
<1> DEFINE col == Column(counts, c)
<1>2. /\ \A e \in Docs : col[e] \in Nat
      /\ Total(col, S) \in Nat
      /\ col[d] = counts[d][c]
  BY <1>1, ColumnFacts
<1> HIDE DEF col
<1>3. Total(col, S \cup {d}) = Total(col, S) + col[d]
  BY <1>1, <1>2, TotalAdd
<1> QED
  BY <1>2, <1>3 DEF col

(* The poller takes the document; the new one is empty.                    *)
LEMMA SwapBalance ==
  ASSUME TypeOK, CountingInv, DocInv, FreshInv, Balance, PollSwap
  PROVE  Balance'
<1>1. /\ UNCHANGED <<cached, counts, pApplier, writes, reported, lost, dropped>>
      /\ ppc = "swap" /\ ppc' = "read" /\ pDoc' = docOf[pApplier]
      /\ docOf' = [docOf EXCEPT ![pApplier] = nextD]
      /\ Created(pApplier) /\ nextD \in Docs /\ counts[nextD] = Zero
      /\ docOf \in [Appliers -> Docs]
  BY DEF PollSwap, history, DocInv, FreshInv, TypeOK, ObjectsType, Docs
<1>2. Taking = {docOf[pApplier]} /\ Taking' = {docOf[pApplier]}
  BY <1>1 DEF Taking
<1>3. Unreported' = Unreported \/ Unreported' = Unreported \cup {nextD}
  <2>1. /\ Unreported = Taking \cup (IF cached # None THEN {docOf[cached]} ELSE {})
        /\ Unreported' = Taking' \cup (IF cached # None THEN {docOf'[cached]} ELSE {})
    <3>1. Unreported = Taking \cup (IF cached # None THEN {docOf[cached]} ELSE {})
      BY HeldFacts
    <3>2. Unreported' = Taking' \cup (IF cached # None THEN {docOf'[cached]} ELSE {})
      BY <1>1 DEF Unreported, Taking
    <3> QED
      BY <3>1, <3>2
  <2>2. CASE cached = pApplier
    <3>1. docOf'[cached] = nextD /\ docOf[cached] = docOf[pApplier] /\ cached # None
      BY <1>1, <2>2 DEF Created, Appliers, None
    <3> QED
      BY <1>2, <2>1, <3>1
  <2>3. CASE cached # pApplier
    <3>1. cached # None => docOf'[cached] = docOf[cached]
      BY <1>1, <2>3 DEF DocInv, Created
    <3> QED
      BY <1>2, <2>1, <3>1
  <2> QED
    BY <2>2, <2>3
<1>4. ASSUME NEW c \in Counters PROVE Held(c)' = Held(c) /\ Away(c)' = Away(c)
  <2>1. Held(c)' = Total(Column(counts, c), Unreported') /\ Away(c)' = Away(c)
    BY <1>1 DEF Held, Away, Leaving
  <2>2. Total(Column(counts, c), Unreported \cup {nextD}) = Held(c)
    BY <1>1, HeldFacts, EmptyHeld DEF Held
  <2> QED
    BY <1>3, <2>1, <2>2 DEF Held
<1> QED
  BY <1>1, <1>4 DEF Balance

(* The snapshot has what its document counts.                              *)
LEMMA ReadBalance ==
  ASSUME TypeOK, CountingInv, DocInv, SumsType, CopyInv, Balance, PollRead
  PROVE  Balance'
<1>1. /\ UNCHANGED <<cached, docOf, counts, pApplier, pDoc, writes, reported, lost, dropped>>
      /\ ppc = "read" /\ snap' = [snap EXCEPT ![pAt] = counts[pDoc][pAt]]
      /\ pDoc \in Docs /\ pAt \in Counters /\ snap \in CountsType
  BY DEF PollRead, objects, TypeOK, PollerType
<1>2. CASE pAt # SampleCount
  <2>1. ppc' = "read"
    BY <1>1, <1>2 DEF PollRead
  <2>2. Unreported' = Unreported
    BY <1>1, <2>1 DEF Unreported
  <2> QED
    BY <1>1, <2>1, <2>2 DEF Balance, Away, Held, Leaving
<1>3. CASE pAt = SampleCount
  <2>1. ppc' = "send"
    BY <1>3 DEF PollRead
  <2> DEFINE C == IF cached # None THEN {docOf[cached]} ELSE {}
  <2>2. Unreported = C \cup {pDoc} /\ Unreported' = C /\ pDoc \notin C /\ C \in SUBSET Docs
    <3>1. Unreported = Taking \cup C /\ Taking = {pDoc}
      BY <1>1, HeldFacts DEF Taking
    <3>2. Unreported' = C
      BY <1>1, <2>1 DEF Unreported
    <3>3. pDoc \notin C /\ C \in SUBSET Docs
      BY <1>1, HeldFacts DEF DocInv, Unreported
    <3> HIDE DEF C
    <3> QED
      BY <3>1, <3>2, <3>3
  <2> HIDE DEF C
  <2>3. ASSUME NEW c \in Counters PROVE Total(Column(writes', c), Docs) = Away(c)' + Held(c)'
    <3>1. snap'[c] = counts[pDoc][c]
      <4>1. c = pAt \/ c < pAt
        BY <1>3, CounterFacts DEF CounterDefs
      <4> QED
        BY <1>1, <4>1, CounterFacts DEF CopyInv, CountsType, CounterDefs
    <3>2. /\ Held(c) = Total(Column(counts, c), C) + counts[pDoc][c]
          /\ Total(Column(counts, c), C) \in Nat /\ counts[pDoc][c] \in Nat
      BY <1>1, <2>2, OneHeld DEF Held
    <3>3. Held(c)' = Total(Column(counts, c), C)
      BY <1>1, <2>2 DEF Held
    <3>4. Away(c) = reported[c] + lost[c] + dropped[c] /\ Away(c)' = reported[c] + lost[c] + dropped[c] + snap'[c]
      BY <1>1, <2>1, AwayFacts DEF Away, Leaving
    <3>5. Total(Column(writes', c), Docs) = Away(c) + Held(c)
      BY <1>1 DEF Balance
    <3>6. Away(c) \in Nat
      BY AwayFacts
    <3> QED
      BY <3>1, <3>2, <3>3, <3>4, <3>5, <3>6
  <2> QED
    BY <2>3 DEF Balance
<1> QED
  BY <1>2, <1>3

(* The report goes, told or lost.                                          *)
LEMMA SendBalance ==
  ASSUME TypeOK, SumsType, Balance, PollSend
  PROVE  Balance'
<1>1. /\ UNCHANGED <<cached, docOf, counts, pDoc, writes, dropped>>
      /\ ppc = "send" /\ ppc' = "update"
      /\ snap \in CountsType /\ reported \in CountsType /\ lost \in CountsType
  BY DEF PollSend, objects, TypeOK, PollerType, SumsType
<1>2. Unreported' = Unreported
  BY <1>1 DEF Unreported
<1>3. ASSUME NEW c \in Counters PROVE Away(c)' = Away(c) /\ Held(c)' = Held(c)
  <2>1. /\ reported[c] \in Nat /\ lost[c] \in Nat /\ dropped[c] \in Nat /\ snap[c] \in Nat
    BY AwayFacts
  <2>2. reported'[c] + lost'[c] = reported[c] + lost[c] + snap[c]
        /\ reported'[c] \in Nat /\ lost'[c] \in Nat
    <3>1. CASE reported' = Plus(reported, snap) /\ UNCHANGED lost
      <4>1. reported'[c] = reported[c] + snap[c]
        BY <1>1, <3>1, PlusFacts, Zenon
      <4> QED
        BY <2>1, <3>1, <4>1
    <3>2. CASE lost' = Plus(lost, snap) /\ UNCHANGED reported
      <4>1. lost'[c] = lost[c] + snap[c]
        BY <1>1, <3>2, PlusFacts, Zenon
      <4> QED
        BY <2>1, <3>2, <4>1
    <3> QED
      BY <3>1, <3>2 DEF PollSend
  <2>3. Away(c) = reported[c] + lost[c] + dropped[c] + snap[c]
    BY <1>1 DEF Away, Leaving
  <2>4. Away(c)' = reported'[c] + lost'[c] + dropped[c] + 0
    BY <1>1 DEF Away, Leaving
  <2>5. Held(c)' = Held(c)
    BY <1>1, <1>2 DEF Held
  <2> QED
    BY <2>1, <2>2, <2>3, <2>4, <2>5
<1> QED
  BY <1>1, <1>3 DEF Balance

(* An applier goes, under no request: its counts are dropped with its      *)
(* document, unless the poller has that one in hand.                       *)
LEMMA ForgetBalance ==
  ASSUME TypeOK, CountingInv, DocInv, SumsType, Balance, Forget, NEW c \in Counters
  PROVE  Total(Column(writes, c), Docs)
           = reported[c] + lost[c] + dropped'[c] + Leaving(c) + Total(Column(counts, c), Taking)
<1>1. Total(Column(writes, c), Docs) = Away(c) + Held(c)
  BY DEF Balance
<1>2. Unreported = Taking \cup (IF cached # None THEN {docOf[cached]} ELSE {}) /\ Taking \in SUBSET Docs
  BY HeldFacts
<1>3. /\ reported[c] \in Nat /\ lost[c] \in Nat /\ dropped[c] \in Nat /\ Leaving(c) \in Nat
      /\ Away(c) = reported[c] + lost[c] + dropped[c] + Leaving(c)
  BY AwayFacts DEF Away
<1>4. CASE cached # None /\ ~(ppc = "swap" /\ pApplier = cached)
  <2>1. docOf[cached] \notin Taking /\ docOf[cached] \in Docs /\ counts[docOf[cached]] \in CountsType
    BY <1>4, HeldFacts DEF Taking, DocInv, Created, TypeOK, ObjectsType
  <2>2. dropped'[c] = dropped[c] + counts[docOf[cached]][c]
    <3>1. dropped' = Plus(dropped, counts[docOf[cached]]) /\ dropped \in CountsType
      BY <1>4 DEF Forget, SumsType
    <3> QED
      BY <2>1, <3>1, PlusFacts, Zenon
  <2>3. /\ Held(c) = Total(Column(counts, c), Taking) + counts[docOf[cached]][c]
        /\ Total(Column(counts, c), Taking) \in Nat /\ counts[docOf[cached]][c] \in Nat
    BY <1>2, <1>4, <2>1, OneHeld DEF Held
  <2> QED
    BY <1>1, <1>3, <2>2, <2>3
<1>5. CASE ~(cached # None /\ ~(ppc = "swap" /\ pApplier = cached))
  <2>1. dropped' = dropped
    BY <1>5 DEF Forget
  <2>2. Unreported = Taking
    BY <1>2, <1>5 DEF Taking
  <2>3. Held(c) = Total(Column(counts, c), Taking)
    BY <2>2 DEF Held
  <2> QED
    BY <1>1, <1>3, <2>1, <2>3
<1> QED
  BY <1>4, <1>5

LEMMA ReplaceBalance ==
  ASSUME TypeOK, CountingInv, DocInv, FreshInv, SumsType, Balance, RuleRemoved \/ RuleChanged
  PROVE  Balance'
<1>1. /\ UNCHANGED <<counts, writes, reported, lost, ppc, pApplier, pDoc, snap>> /\ Forget
  BY DEF RuleRemoved, RuleChanged, poller
<1>2. ASSUME NEW c \in Counters
      PROVE  Total(Column(writes', c), Docs)
               = reported'[c] + lost'[c] + dropped'[c] + Leaving(c)' + Total(Column(counts, c), Taking)
  BY <1>1, ForgetBalance DEF Leaving
<1>3. CASE RuleRemoved
  <2>1. Unreported' = Taking
    BY <1>1, <1>3 DEF RuleRemoved, Unreported, Taking
  <2>2. \A c \in Counters : Held(c)' = Total(Column(counts, c), Taking)
    BY <1>1, <2>1 DEF Held
  <2> QED
    BY <1>2, <2>2 DEF Balance, Away
<1>4. CASE RuleChanged
  <2>1. /\ cached' = nextA /\ docOf' = [docOf EXCEPT ![nextA] = nextD]
        /\ nextA \in Appliers /\ docOf \in [Appliers -> Docs] /\ nextD \in Docs /\ nextA # None
    <3>1. nextD <= MaxDocs /\ nextD \in 1..(MaxDocs + 1) /\ nextA \in 1..(MaxAppliers + 1) /\ nextA <= MaxAppliers
      BY <1>4 DEF RuleChanged, TypeOK, ObjectsType
    <3> QED
      BY <1>4, <3>1 DEF RuleChanged, TypeOK, ObjectsType, Docs, Appliers, None
  <2>2. docOf'[nextA] = nextD
    BY <2>1
  <2>3. ppc = "swap" => docOf'[pApplier] = docOf[pApplier]
    <3>1. ppc = "swap" => pApplier # nextA /\ pApplier \in Appliers
      BY <2>1 DEF DocInv, Created, Appliers
    <3> QED
      BY <2>1, <3>1
  <2>4. Unreported' = Taking \cup {nextD}
    <3>1. Taking' = Taking
      BY <1>1, <2>3 DEF Taking
    <3>2. Unreported' = Taking' \cup {nextD}
      BY <2>1, <2>2 DEF Unreported, Taking
    <3> QED
      BY <3>1, <3>2
  <2>5. counts[nextD] = Zero
    BY <2>1 DEF FreshInv, Docs
  <2>6. ASSUME NEW c \in Counters PROVE Held(c)' = Total(Column(counts, c), Taking)
    <3>1. Held(c)' = Total(Column(counts, c), Taking \cup {nextD})
      BY <1>1, <2>4 DEF Held
    <3> QED
      BY <2>1, <2>5, <3>1, HeldFacts, EmptyHeld
  <2> QED
    BY <1>2, <2>6 DEF Balance, Away
<1> QED
  BY <1>3, <1>4

ConsInv == FreshInv /\ (~overlap => Balance)

LEMMA ConsStep ==
  IInv /\ IInv' /\ SumInv /\ OrderInv /\ ConsInv /\ [Next]_vars => ConsInv'
<1> SUFFICES ASSUME IInv, IInv', SumInv, OrderInv, ConsInv, [Next]_vars, ~overlap' PROVE Balance'
  BY FreshStep DEF ConsInv
<1>a. TypeOK /\ CountingInv /\ DocInv /\ SnapInv /\ TypeOK' /\ CountingInv' /\ DocInv' /\ SumsType
  BY DEF IInv, SumInv
<1>b. ~overlap
  BY <1>a, OverlapStays
<1>c. MatchInv /\ DueInv /\ CopyInv /\ Balance /\ FreshInv
  BY <1>b DEF OrderInv, ConsInv
<1>d. ASSUME UNCHANGED <<counts, writes, reported, lost, dropped>>,
             Unreported' = Unreported, \A c \in Counters : Leaving(c)' = Leaving(c)
      PROVE  Balance'
  BY <1>c, <1>d DEF Balance, Away, Held
<1>1. ASSUME NEW t \in Threads, Request(t) PROVE Balance'
  <2>1. CASE Store(t)
    BY <1>a, <1>c, <2>1, StoreBalance
  <2>2. CASE Decide(t) \/ Lock(t) \/ Load(t)
    <3>1. UNCHANGED <<cached, docOf, counts, writes, reported, lost, dropped, ppc, pApplier, pDoc, snap>>
      BY <2>2 DEF Decide, Lock, Load, objects, poller, history
    <3> QED
      BY <1>d, <3>1 DEF Unreported, Leaving
  <2> QED
    BY <1>1, <2>1, <2>2 DEF Request
<1>2. CASE PollStart
  <2>1. /\ UNCHANGED <<cached, docOf, counts, writes, reported, lost, dropped, pDoc, snap>>
        /\ ppc = "idle" /\ pApplier' = cached
        /\ IF cached = None THEN ppc' = "send" ELSE ppc' = "swap"
    BY <1>2 DEF PollStart, objects, history
  <2>2. \A c \in Counters : Leaving(c)' = 0 /\ Leaving(c) = 0
    BY <1>a, <2>1 DEF SnapInv, Zero, Leaving
  <2>3. Unreported' = Unreported
    BY <2>1 DEF Unreported
  <2> QED
    BY <1>d, <2>1, <2>2, <2>3
<1>3. CASE PollSwap
  BY <1>a, <1>c, <1>3, SwapBalance
<1>4. CASE PollRead
  BY <1>a, <1>c, <1>4, ReadBalance
<1>5. CASE PollSend
  BY <1>a, <1>c, <1>5, SendBalance
<1>6. CASE PollUpdate
  <2>1. UNCHANGED <<counts, writes, reported, lost, dropped>> /\ ppc = "update" /\ ppc' = "idle"
    BY <1>6 DEF PollUpdate
  <2>2. Unreported' = Unreported
    <3>1. CASE UNCHANGED <<cached, docOf>>
      BY <2>1, <3>1 DEF Unreported
    <3>2. CASE /\ cached # None /\ nextA <= MaxAppliers /\ cached' = nextA
               /\ docOf' = [docOf EXCEPT ![nextA] = docOf[cached]]
      <4>1. nextA \in Appliers /\ docOf \in [Appliers -> Docs] /\ nextA # None
        BY <1>a, <3>2 DEF TypeOK, ObjectsType, Appliers, None
      <4>2. docOf'[cached'] = docOf[cached]
        BY <3>2, <4>1
      <4> QED
        BY <2>1, <3>2, <4>1, <4>2 DEF Unreported
    <3> QED
      BY <1>6, <3>1, <3>2 DEF PollUpdate
  <2> QED
    BY <1>d, <2>1, <2>2 DEF Leaving
<1>7. CASE RuleRemoved \/ RuleChanged
  BY <1>a, <1>c, <1>7, ReplaceBalance
<1>8. CASE UNCHANGED vars
  <2>1. UNCHANGED <<cached, docOf, counts, writes, reported, lost, dropped, ppc, pApplier, pDoc, snap>>
    BY <1>8 DEF vars, objects, poller, history
  <2> QED
    BY <1>d, <2>1 DEF Unreported, Leaving
<1> QED
  BY <1>1, <1>2, <1>3, <1>4, <1>5, <1>6, <1>7, <1>8 DEF Next, Poll

(* Every increment is reported, waits to be, left in a report that failed, *)
(* or was on a rule that an update changed or removed, as long as no       *)
(* applier is replaced under a request in flight.                          *)
THEOREM CountsConserved == Spec => []Conservation
<1>1. Init => ConsInv
  <2> SUFFICES ASSUME Init PROVE FreshInv /\ Balance
    BY DEF ConsInv
  <2>1. FreshInv
    BY DEF Init, FreshInv
  <2>2. ASSUME NEW c \in Counters PROVE Total(Column(writes, c), Docs) = 0 /\ Held(c) = 0 /\ Away(c) = 0
    <3>1. \A d \in Docs : Column(writes, c)[d] = 0
      BY DEF Init, Column, Zero
    <3>2. Unreported = {}
      BY DEF Init, Unreported
    <3>3. Held(c) = 0
      BY <3>2, TotalEmpty DEF Held
    <3>4. Away(c) = 0
      BY DEF Init, Away, Leaving, Zero
    <3> QED
      BY <3>1, <3>3, <3>4, TotalZero
  <2> QED
    BY <2>1, <2>2 DEF Balance
<1>2. ConsInv => Conservation
  BY DEF ConsInv, Balance, Away, Held, Conservation
<1>3. Init => OrderInv
  BY OrderInit
<1>4. Init => SumInv
  BY SumInit
<1> QED
  BY <1>1, <1>2, <1>3, <1>4, ConsStep, OrderStep, SumStep, Inductive, PTL DEF Spec
=============================================================================
