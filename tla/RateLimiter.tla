---------------------------- MODULE RateLimiter ----------------------------
(***************************************************************************)
(* sampler/_rate_limiter.py: the wallet behind every reservoir (the one of *)
(* a sampling rule, _sampling_rule_applier.py:48,51,57, and the one of the *)
(* fallback sampler, _fallback_sampler.py:16), called by every application *)
(* thread that starts a root span.                                         *)
(*                                                                         *)
(* Time is scaled by the quota.  The code divides the cost of a request by *)
(* quota/1000 to price it in milliseconds; here one unit of the clock is   *)
(* the time in which the wallet earns one unit of credit, a request costs  *)
(* UnitsPerRequest of them and a second is Quota * UnitsPerRequest of      *)
(* them, so that every number is an integer.  Decimal's 28 digits are      *)
(* taken as exact.                                                         *)
(***************************************************************************)
EXTENDS Integers

CONSTANTS Threads,            \* application threads that call try_spend
          Free,               \* the lock's value when nobody holds it
          Quota,              \* requests per second
          MaxBalanceSeconds,  \* max_balance_in_seconds, 1 in the code
          UnitsPerRequest,    \* scaled price of one request
          Horizon             \* bound on the clock

ASSUME QuotaAssumption   == Quota \in Nat
ASSUME SecondsAssumption == MaxBalanceSeconds \in Nat
ASSUME CostAssumption    == UnitsPerRequest \in Nat \ {0}
ASSUME HorizonAssumption == Horizon \in Nat
ASSUME FreeAssumption    == Free \notin Threads

VARIABLES
  now,       \* the wall clock
  floor,     \* __wallet_floor_millis
  lock,      \* __lock: Free or its holder
  pc,        \* where each thread is in try_spend
  ceiling,   \* local wallet_ceiling_millis of each thread
  result     \* what try_spend returned to each thread, "pending" during a call

(* History variables: an observer opens a window at a moment of its choice *)
(* and adds up the requests granted on a clock reading in the window.      *)
VARIABLES
  wOpen,     \* the observer is counting
  wStart,    \* the reading at which it began
  wSpent,    \* credit spent since then on readings >= wStart
  wLast      \* the reading of the last request it counted

wallet  == <<floor, lock, pc, ceiling, result>>
window  == <<wOpen, wStart, wSpent, wLast>>
vars    == <<now, wallet, window>>

MaxBalance == MaxBalanceSeconds * (Quota * UnitsPerRequest)

Smaller(a, b) == IF a <= b THEN a ELSE b

(* Mutant: the balance without its cap.                                    *)
BalanceUncapped(t) == ceiling[t] - floor

(* current_balance_millis, as the thread in the critical section computes  *)
(* it from its own clock reading.                                          *)
Balance(t) == Smaller(ceiling[t] - floor, MaxBalance)

(* pending_remaining_balance_millis                                        *)
Remaining(t) == Balance(t) - UnitsPerRequest

-----------------------------------------------------------------------------

(* __init__: the wallet starts empty, its floor at the current time.       *)
Init ==
  /\ now = 0
  /\ floor = now
  /\ lock = Free
  /\ pc = [t \in Threads |-> "idle"]
  /\ ceiling = [t \in Threads |-> 0]
  /\ result = [t \in Threads |-> "none"]
  /\ wOpen = FALSE /\ wStart = 0 /\ wSpent = 0 /\ wLast = 0

(* try_spend up to the lock: without a quota the answer is no at once.     *)
Call(t) ==
  /\ pc[t] = "idle"
  /\ pc' = [pc EXCEPT ![t] = IF Quota = 0 THEN "idle" ELSE "enter"]
  /\ result' = [result EXCEPT ![t] = IF Quota = 0 THEN "no" ELSE "pending"]
  /\ UNCHANGED <<now, floor, lock, ceiling, window>>

Acquire(t) ==
  /\ pc[t] = "enter"
  /\ lock = Free
  /\ lock' = t
  /\ pc' = [pc EXCEPT ![t] = "read"]
  /\ UNCHANGED <<now, floor, ceiling, result, window>>

ReadClock(t) ==
  /\ pc[t] = "read"
  /\ ceiling' = [ceiling EXCEPT ![t] = now]
  /\ pc' = [pc EXCEPT ![t] = "decide"]
  /\ UNCHANGED <<now, floor, lock, result, window>>

(* The observer counts a grant when its clock reading falls in the window. *)
Observe(t) ==
  IF wOpen /\ ceiling[t] >= wStart
    THEN /\ wSpent' = wSpent + UnitsPerRequest
         /\ wLast' = ceiling[t]
         /\ UNCHANGED <<wOpen, wStart>>
    ELSE UNCHANGED window

(* Mutant: the balance is not looked at.                                   *)
GrantUnchecked(t) ==
  /\ pc[t] = "decide"
  /\ floor' = ceiling[t] - Remaining(t)
  /\ lock' = Free
  /\ pc' = [pc EXCEPT ![t] = "idle"]
  /\ result' = [result EXCEPT ![t] = "yes"]
  /\ Observe(t)
  /\ UNCHANGED <<now, ceiling>>

Grant(t) ==
  /\ pc[t] = "decide"
  /\ Remaining(t) >= 0
  /\ floor' = ceiling[t] - Remaining(t)
  /\ lock' = Free
  /\ pc' = [pc EXCEPT ![t] = "idle"]
  /\ result' = [result EXCEPT ![t] = "yes"]
  /\ Observe(t)
  /\ UNCHANGED <<now, ceiling>>

(* Mutant: a refused request takes what is left in the wallet.             *)
RefuseAndTake(t) ==
  /\ pc[t] = "decide"
  /\ Remaining(t) < 0
  /\ floor' = ceiling[t]
  /\ lock' = Free
  /\ pc' = [pc EXCEPT ![t] = "idle"]
  /\ result' = [result EXCEPT ![t] = "no"]
  /\ UNCHANGED <<now, ceiling, window>>

Refuse(t) ==
  /\ pc[t] = "decide"
  /\ Remaining(t) < 0
  /\ lock' = Free
  /\ pc' = [pc EXCEPT ![t] = "idle"]
  /\ result' = [result EXCEPT ![t] = "no"]
  /\ UNCHANGED <<now, floor, ceiling, window>>

(* _Clock.now is datetime.now(): the wall clock runs forward ...           *)
Tick ==
  \E d \in 1..Horizon :
    /\ now + d <= Horizon
    /\ now' = now + d
    /\ UNCHANGED <<wallet, window>>

(* ... and may be set back.                                                *)
StepBack ==
  \E d \in 1..Horizon :
    /\ now - d >= 0
    /\ now' = now - d
    /\ UNCHANGED <<wallet, window>>

OpenWindow ==
  /\ ~wOpen
  /\ wOpen' = TRUE
  /\ wStart' = now
  /\ wLast' = now
  /\ UNCHANGED <<now, wallet, wSpent>>

TrySpend(t) ==
  \/ Call(t) \/ Acquire(t) \/ ReadClock(t) \/ Grant(t) \/ Refuse(t)

Next == Tick \/ StepBack \/ OpenWindow \/ \E t \in Threads : TrySpend(t)

Spec == Init /\ [][Next]_vars

-----------------------------------------------------------------------------

(* The wallet's floor is a time the clock has shown or will show: it is    *)
(* never moved past the horizon nor before the wallet's creation.          *)
TypeOK ==
  /\ now \in 0..Horizon
  /\ floor \in 0..Horizon
  /\ lock \in Threads \cup {Free}
  /\ pc \in [Threads -> {"idle", "enter", "read", "decide"}]
  /\ ceiling \in [Threads -> 0..Horizon]
  /\ result \in [Threads -> {"none", "pending", "yes", "no"}]
  /\ wOpen \in BOOLEAN
  /\ wStart \in 0..Horizon
  /\ wSpent \in Nat
  /\ wLast \in 0..Horizon

(* The rate the limiter exists for: whatever the interleaving of the       *)
(* threads, and even if the wall clock is set back, the requests granted   *)
(* on clock readings in a window cost no more than one full wallet and     *)
(* what the window earns (try_spend, _rate_limiter.py:31-40).              *)
WindowBound == wSpent > 0 => wSpent <= MaxBalance + (wLast - wStart)

(* A thread is in the critical section exactly when it holds the lock.     *)
LockHeld == \A t \in Threads : pc[t] \in {"read", "decide"} <=> lock = t

(* The lower end of the wallet only rises, and by the price of a request   *)
(* at least: this is what a grant leaves behind for the window.            *)
WindowFloor == wSpent > 0 => /\ wOpen
                             /\ wSpent + wStart <= MaxBalance + floor
                             /\ floor <= wLast
                             /\ wStart <= wLast

(* The inductive invariant behind WindowBound.                             *)
IInv == TypeOK /\ LockHeld /\ WindowFloor

-----------------------------------------------------------------------------

(* Refinement.  A call takes effect at its clock reading: from there on    *)
(* the lock is held and the thread's decision is a function of values      *)
(* nobody else can change.                                                 *)
Decided(t) == pc[t] = "decide"

FloorBar ==
  IF \E t \in Threads : Decided(t) /\ Remaining(t) >= 0
    THEN ceiling[lock] - Remaining(lock)
    ELSE floor

VerdictBar ==
  [t \in Threads |-> IF Decided(t) THEN IF Remaining(t) >= 0 THEN "yes" ELSE "no"
                     ELSE result[t]]

Bucket == INSTANCE TokenBucket
            WITH Capacity <- MaxBalance,
                 Cost     <- UnitsPerRequest,
                 tokens   <- Smaller(now - FloorBar, MaxBalance),
                 verdict  <- VerdictBar

(* The wallet of two timestamps behaves as a token bucket: while the clock *)
(* runs forward no credit is lost and none is invented, a caller is turned *)
(* down only when the bucket lacks the price, and a clock set back costs   *)
(* no more credit than it was set back by (try_spend, 22-40).              *)
BucketSpec == Bucket!Spec
=============================================================================
