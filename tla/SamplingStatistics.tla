------------------------- MODULE SamplingStatistics -------------------------
(***************************************************************************)
(* The statistics of one X-Ray sampling rule: counted by the application   *)
(* threads (_SamplingRuleApplier.should_sample), taken away and reported   *)
(* by the target poller (get_all_statistics, get_sampling_targets), while  *)
(* target and rule updates replace the applier under both of them          *)
(* (_RuleCache.update_sampling_targets, update_sampling_rules).            *)
(*                                                                         *)
(* Appliers and statistics documents are objects: with_target makes a new  *)
(* applier with a lock of its own that shares the document of the old one, *)
(* so that a request in flight on the old applier and a request on the new *)
(* one count on one document under two locks.  `count += 1` is a load and  *)
(* a store: CPython 3.9, which the distribution supports, may switch       *)
(* threads between them.                                                   *)
(***************************************************************************)
EXTENDS Totals

CONSTANTS Threads,      \* application threads
          Free,         \* a lock nobody holds
          MaxAppliers,  \* bound on the appliers created
          MaxDocs,      \* bound on the documents created
          MaxRequests   \* bound on the requests sampled

ASSUME AppliersAssumption == MaxAppliers \in Nat \ {0}
ASSUME DocsAssumption     == MaxDocs \in Nat \ {0}
ASSUME RequestsAssumption == MaxRequests \in Nat
ASSUME FreeAssumption     == Free \notin Threads
ASSUME ThreadsAssumption  == IsFiniteSet(Threads)

(* The counters of a document, in the order should_sample increments them  *)
(* and snapshot reads them.                                                *)
RequestCount == 1
BorrowCount  == 2
SampleCount  == 3
Counters     == RequestCount..SampleCount
Zero         == [c \in Counters |-> 0]

Appliers == 1..MaxAppliers
Docs     == 1..MaxDocs
None     == 0      \* no applier is cached: the rule list is empty

VARIABLES
  \* objects
  cached,     \* the applier of the rule in __rule_appliers, or None
  nextA,      \* the next applier to be created
  nextD,      \* the next document to be created
  docOf,      \* __statistics of each applier
  lockOf,     \* __statistics_lock of each applier
  borrowing,  \* __borrowing of each applier
  counts,     \* the counters of each document
  \* application threads
  pc,         \* "idle", "lock", "load" or "store"
  mine,       \* the applier the request was matched to
  amount,     \* what the request adds to each counter
  at,         \* the counter being incremented
  loaded,     \* the value loaded from it
  \* target poller
  ppc,        \* "idle", "swap", "read", "send" or "update"
  pApplier,   \* the applier whose statistics it takes
  pDoc,       \* the document it took, old_stats
  pAt,        \* the counter snapshot reads next
  snap        \* the snapshot it sends

(* History variables.                                                      *)
VARIABLES
  sampled,    \* requests sampled so far, and what they should have added
  writes,     \* stores made to each counter of each document
  taken,      \* the documents snapshot has read
  reported,   \* counts the service accepted
  lost,       \* counts that left in a report that failed
  dropped,    \* counts on documents of appliers removed by a rule update
  overlap     \* some applier was replaced under a request in flight

objects == <<cached, nextA, nextD, docOf, lockOf, borrowing, counts>>
threads == <<pc, mine, amount, at, loaded>>
poller  == <<ppc, pApplier, pDoc, pAt, snap>>
history == <<sampled, writes, taken, reported, lost, dropped, overlap>>
vars    == <<objects, threads, poller, history>>

Plus(f, g)  == [c \in Counters |-> f[c] + g[c]]

InFlight(t) == pc[t] # "idle"

Init ==
  /\ cached = None /\ nextA = 1 /\ nextD = 1
  /\ docOf = [a \in Appliers |-> 1]
  /\ lockOf = [a \in Appliers |-> Free]
  /\ borrowing = [a \in Appliers |-> FALSE]
  /\ counts = [d \in Docs |-> Zero]
  /\ pc = [t \in Threads |-> "idle"]
  /\ mine = [t \in Threads |-> None]
  /\ amount = [t \in Threads |-> Zero]
  /\ at = [t \in Threads |-> RequestCount]
  /\ loaded = [t \in Threads |-> 0]
  /\ ppc = "idle" /\ pApplier = None /\ pDoc = 1 /\ pAt = RequestCount /\ snap = Zero
  /\ sampled = Zero
  /\ writes = [d \in Docs |-> Zero]
  /\ taken = {}
  /\ reported = Zero /\ lost = Zero /\ dropped = Zero
  /\ overlap = FALSE

-----------------------------------------------------------------------------
(* Application threads.                                                    *)

(* _RuleCache.should_sample finds the applier, which decides: drop, sample *)
(* at the fixed rate, or sample from the reservoir, borrowed or not.  A    *)
(* request that finds no applier goes to the fallback sampler, uncounted.  *)
Decide(t) ==
  /\ pc[t] = "idle"
  /\ cached # None
  /\ sampled[RequestCount] < MaxRequests
  /\ \E borrow, sample \in {0, 1} :
       /\ borrow = 1 => sample = 1 /\ borrowing[cached]
       /\ amount' = [amount EXCEPT ![t] =
                       [Zero EXCEPT ![RequestCount] = 1, ![BorrowCount] = borrow, ![SampleCount] = sample]]
  /\ mine' = [mine EXCEPT ![t] = cached]
  /\ pc' = [pc EXCEPT ![t] = "lock"]
  /\ sampled' = Plus(sampled, amount'[t])
  /\ UNCHANGED <<objects, at, loaded, poller, writes, taken, reported, lost, dropped, overlap>>

Lock(t) ==
  /\ pc[t] = "lock"
  /\ lockOf[mine[t]] = Free
  /\ lockOf' = [lockOf EXCEPT ![mine[t]] = t]
  /\ pc' = [pc EXCEPT ![t] = "load"]
  /\ at' = [at EXCEPT ![t] = RequestCount]
  /\ UNCHANGED <<cached, nextA, nextD, docOf, borrowing, counts, mine, amount, loaded, poller, history>>

Load(t) ==
  /\ pc[t] = "load"
  /\ loaded' = [loaded EXCEPT ![t] = counts[docOf[mine[t]]][at[t]]]
  /\ pc' = [pc EXCEPT ![t] = "store"]
  /\ UNCHANGED <<objects, mine, amount, at, poller, history>>

(* The store, and after the last counter the end of the critical section.  *)
Store(t) ==
  LET d == docOf[mine[t]]
      c == at[t]
  IN
  /\ pc[t] = "store"
  /\ counts' = [counts EXCEPT ![d][c] = loaded[t] + amount[t][c]]
  /\ writes' = [writes EXCEPT ![d][c] = @ + amount[t][c]]
  /\ IF c = SampleCount
       THEN /\ pc' = [pc EXCEPT ![t] = "idle"]
            /\ lockOf' = [lockOf EXCEPT ![mine[t]] = Free]
            /\ mine' = [mine EXCEPT ![t] = None]
            /\ amount' = [amount EXCEPT ![t] = Zero]
            /\ UNCHANGED at
       ELSE /\ pc' = [pc EXCEPT ![t] = "load"]
            /\ at' = [at EXCEPT ![t] = c + 1]
            /\ UNCHANGED <<lockOf, mine, amount>>
  /\ UNCHANGED <<cached, nextA, nextD, docOf, borrowing, loaded, poller,
                 sampled, taken, reported, lost, dropped, overlap>>

-----------------------------------------------------------------------------
(* The target poller, one call of __get_and_update_sampling_targets.       *)

(* get_all_statistics reads the list of appliers, without the cache lock;  *)
(* with no applier it reports nothing.                                     *)
PollStart ==
  /\ ppc = "idle"
  /\ IF cached = None
       THEN ppc' = "send"
       ELSE nextD <= MaxDocs /\ ppc' = "swap"
  /\ pApplier' = cached
  /\ UNCHANGED <<objects, threads, pDoc, pAt, snap, history>>

(* Mutants: the document is reported and kept; and it is swapped without   *)
(* the lock.                                                               *)
PollSwapNoReset ==
  /\ ppc = "swap"
  /\ lockOf[pApplier] = Free
  /\ pDoc' = docOf[pApplier]
  /\ ppc' = "read"
  /\ pAt' = RequestCount
  /\ UNCHANGED <<cached, nextA, nextD, docOf, lockOf, borrowing, counts, threads, pApplier, snap, history>>

PollSwapUnlocked ==
  /\ ppc = "swap"
  /\ pDoc' = docOf[pApplier]
  /\ docOf' = [docOf EXCEPT ![pApplier] = nextD]
  /\ nextD' = nextD + 1
  /\ ppc' = "read"
  /\ pAt' = RequestCount
  /\ UNCHANGED <<cached, nextA, lockOf, borrowing, counts, threads, pApplier, snap, history>>

(* get_then_reset_statistics, its critical section.                        *)
PollSwap ==
  /\ ppc = "swap"
  /\ lockOf[pApplier] = Free
  /\ pDoc' = docOf[pApplier]
  /\ docOf' = [docOf EXCEPT ![pApplier] = nextD]
  /\ nextD' = nextD + 1
  /\ ppc' = "read"
  /\ pAt' = RequestCount
  /\ UNCHANGED <<cached, nextA, lockOf, borrowing, counts, threads, pApplier, snap, history>>

(* Mutant: one counter too many.                                           *)
PollReadPastEnd ==
  /\ ppc = "read"
  /\ snap' = [snap EXCEPT ![pAt] = counts[pDoc][pAt]]
  /\ IF pAt > SampleCount
       THEN ppc' = "send" /\ taken' = taken \cup {pDoc} /\ UNCHANGED pAt
       ELSE pAt' = pAt + 1 /\ UNCHANGED <<ppc, taken>>
  /\ UNCHANGED <<objects, threads, pApplier, pDoc, sampled, writes, reported, lost, dropped, overlap>>

(* snapshot, outside of the lock, one counter after the other.             *)
PollRead ==
  /\ ppc = "read"
  /\ snap' = [snap EXCEPT ![pAt] = counts[pDoc][pAt]]
  /\ IF pAt = SampleCount
       THEN ppc' = "send" /\ taken' = taken \cup {pDoc} /\ UNCHANGED pAt
       ELSE pAt' = pAt + 1 /\ UNCHANGED <<ppc, taken>>
  /\ UNCHANGED <<objects, threads, pApplier, pDoc, sampled, writes, reported, lost, dropped, overlap>>

(* get_sampling_targets: the service takes the report or not.  A failed    *)
(* call is answered like a response without targets, and never repeated.   *)
PollSend ==
  /\ ppc = "send"
  /\ \/ /\ reported' = Plus(reported, snap)
        /\ UNCHANGED lost
     \/ /\ lost' = Plus(lost, snap)
        /\ UNCHANGED reported
  /\ ppc' = "update"
  /\ snap' = Zero
  /\ pApplier' = None
  /\ UNCHANGED <<objects, threads, pDoc, pAt, sampled, writes, taken, dropped, overlap>>

Replaced(a) == overlap' = (overlap \/ \E t \in Threads : InFlight(t) /\ mine[t] = a)

(* Mutant: with_target does not hand the document on.                      *)
PollUpdateFresh ==
  /\ ppc = "update"
  /\ ppc' = "idle"
  /\ \/ UNCHANGED <<cached, nextA, nextD, docOf, borrowing, overlap>>
     \/ /\ cached # None /\ nextA <= MaxAppliers /\ nextD <= MaxDocs
        /\ docOf' = [docOf EXCEPT ![nextA] = nextD]
        /\ nextD' = nextD + 1
        /\ borrowing' = [borrowing EXCEPT ![nextA] = FALSE]
        /\ cached' = nextA
        /\ nextA' = nextA + 1
        /\ Replaced(cached)
  /\ UNCHANGED <<lockOf, counts, threads, pApplier, pDoc, pAt, snap,
                 sampled, writes, taken, reported, lost, dropped>>

(* update_sampling_targets: with a target for the rule, the applier in the *)
(* cache is replaced by its with_target.                                   *)
PollUpdate ==
  /\ ppc = "update"
  /\ ppc' = "idle"
  /\ \/ UNCHANGED <<cached, nextA, docOf, borrowing, overlap>>
     \/ /\ cached # None
        /\ nextA <= MaxAppliers
        /\ docOf' = [docOf EXCEPT ![nextA] = docOf[cached]]
        /\ borrowing' = [borrowing EXCEPT ![nextA] = FALSE]
        /\ cached' = nextA
        /\ nextA' = nextA + 1
        /\ Replaced(cached)
  /\ UNCHANGED <<nextD, lockOf, counts, threads, pApplier, pDoc, pAt, snap,
                 sampled, writes, taken, reported, lost, dropped>>

-----------------------------------------------------------------------------
(* update_sampling_rules, of either poller, when it changes the rule: the  *)
(* applier in the cache goes, with the document it holds.                  *)

Forget ==
  IF cached # None /\ ~(ppc = "swap" /\ pApplier = cached)
    THEN dropped' = Plus(dropped, counts[docOf[cached]])
    ELSE UNCHANGED dropped

(* The response has no such rule any more, or is empty after an error.     *)
RuleRemoved ==
  /\ cached # None
  /\ Forget
  /\ Replaced(cached)
  /\ cached' = None
  /\ UNCHANGED <<nextA, nextD, docOf, lockOf, borrowing, counts, threads, poller,
                 sampled, writes, taken, reported, lost>>

(* The rule differs in some field, or is back: an applier of its own, with *)
(* an empty document, that borrows if the rule has a reservoir.            *)
RuleChanged ==
  /\ nextA <= MaxAppliers
  /\ nextD + (IF ppc = "swap" THEN 1 ELSE 0) <= MaxDocs
  /\ Forget
  /\ Replaced(cached)
  /\ cached' = nextA
  /\ nextA' = nextA + 1
  /\ docOf' = [docOf EXCEPT ![nextA] = nextD]
  /\ nextD' = nextD + 1
  /\ \E b \in BOOLEAN : borrowing' = [borrowing EXCEPT ![nextA] = b]
  /\ UNCHANGED <<lockOf, counts, threads, poller, sampled, writes, taken, reported, lost>>

-----------------------------------------------------------------------------

Request(t) == Decide(t) \/ Lock(t) \/ Load(t) \/ Store(t)
Poll       == PollStart \/ PollSwap \/ PollRead \/ PollSend \/ PollUpdate

Next == Poll \/ RuleRemoved \/ RuleChanged \/ \E t \in Threads : Request(t)

Spec == Init /\ [][Next]_vars

-----------------------------------------------------------------------------

CountsType == [Counters -> Nat]

ObjectsType ==
  /\ cached \in Appliers \cup {None}
  /\ nextA \in 1..(MaxAppliers + 1)
  /\ nextD \in 1..(MaxDocs + 1)
  /\ docOf \in [Appliers -> Docs]
  /\ lockOf \in [Appliers -> Threads \cup {Free}]
  /\ borrowing \in [Appliers -> BOOLEAN]
  /\ counts \in [Docs -> CountsType]

ThreadsType ==
  /\ pc \in [Threads -> {"idle", "lock", "load", "store"}]
  /\ mine \in [Threads -> Appliers \cup {None}]
  /\ amount \in [Threads -> CountsType]
  /\ at \in [Threads -> Counters]
  /\ loaded \in [Threads -> Nat]

PollerType ==
  /\ ppc \in {"idle", "swap", "read", "send", "update"}
  /\ pApplier \in Appliers \cup {None}
  /\ pDoc \in Docs
  /\ pAt \in Counters
  /\ snap \in CountsType

HistoryType ==
  /\ writes \in [Docs -> CountsType]
  /\ taken \subseteq Docs
  /\ overlap \in BOOLEAN

TypeOK == ObjectsType /\ ThreadsType /\ PollerType /\ HistoryType

(* A document leaves in at most one report, and neither the cache nor the  *)
(* poller comes back to one that has left: get_then_reset_statistics swaps *)
(* the document, it does not zero it.                                      *)
ReportedOnce ==
  /\ ppc = "read" => pDoc \notin taken
  /\ cached # None => docOf[cached] \notin taken

(* A report counts at most the increments made to its document, whatever   *)
(* two appliers with two locks do to it at the same time.                  *)
WithinWrites ==
  /\ \A d \in Docs, c \in Counters : counts[d][c] <= writes[d][c]
  /\ ppc = "send" => \A c \in Counters : snap[c] <= writes[pDoc][c]

(* Together: no request is in the service's statistics twice.              *)
ReportSound == ReportedOnce /\ WithinWrites

(* The same over all reports: the service is never told of more requests,  *)
(* borrowed or sampled ones than there were.                               *)
NoOverReport == \A c \in Counters : reported[c] + lost[c] <= sampled[c]

(* Documents whose counts are still to be reported.                        *)
Unreported ==
  (IF cached # None THEN {docOf[cached]} ELSE {})
    \cup (IF ppc = "swap" THEN {docOf[pApplier]} ELSE {})
    \cup (IF ppc = "read" THEN {pDoc} ELSE {})

(* One counter of all documents, and of the report that is being sent.     *)
Column(table, c) == [d \in Docs |-> table[d][c]]
Leaving(c)       == IF ppc = "send" THEN snap[c] ELSE 0

(* As long as no applier is replaced under a request, every increment is   *)
(* reported, waits to be, left in a report that failed, or was on a rule   *)
(* that an update changed or removed.                                      *)
Conservation ==
  ~overlap => \A c \in Counters :
    Total(Column(writes, c), Docs)
      = reported[c] + lost[c] + dropped[c] + Leaving(c) + Total(Column(counts, c), Unreported)

(* Under the same condition a report is consistent: a borrowed request is  *)
(* a sampled one and a sampled request is a request, although snapshot     *)
(* reads the counters outside of the lock.                                 *)
ConsistentReport ==
  ppc = "send" /\ ~overlap =>
    snap[BorrowCount] <= snap[SampleCount] /\ snap[SampleCount] <= snap[RequestCount]

-----------------------------------------------------------------------------
(* The inductive invariant behind ReportSound.                             *)

Created(a) == a \in Appliers /\ a < nextA
Made(d)    == d \in Docs /\ d < nextD

(* Whoever counts holds the lock of the applier it was matched to.         *)
CountingInv ==
  \A t \in Threads :
    /\ InFlight(t) => Created(mine[t])
    /\ pc[t] \in {"load", "store"} => lockOf[mine[t]] = t
    /\ pc[t] = "store" => loaded[t] <= writes[docOf[mine[t]]][at[t]]

(* The poller, the cache and the documents that have left.                 *)
DocInv ==
  /\ \A a \in Appliers : Created(a) => Made(docOf[a])
  /\ \A d \in taken : Made(d)
  /\ cached # None => Created(cached)
  /\ ppc = "swap" => /\ nextD <= MaxDocs
                     /\ Created(pApplier)
                     /\ docOf[pApplier] \notin taken
                     /\ cached \notin {None, pApplier} => docOf[cached] # docOf[pApplier]
  /\ ppc = "read" => /\ Made(pDoc)
                     /\ cached # None => docOf[cached] # pDoc

SnapInv ==
  /\ ppc \notin {"read", "send"} => snap = Zero
  /\ ppc = "read" => \A c \in Counters : c < pAt => snap[c] <= writes[pDoc][c]

IInv == TypeOK /\ ReportSound /\ CountingInv /\ DocInv /\ SnapInv
=============================================================================
