------------------------- MODULE RateLimiterProofs -------------------------
(***************************************************************************)
(* What RateLimiter promises, for any number of threads, any quota, any    *)
(* wallet and any run of the clock.                                        *)
(***************************************************************************)
EXTENDS RateLimiter, TLAPS

USE QuotaAssumption, SecondsAssumption, CostAssumption, HorizonAssumption, FreeAssumption

(* A full wallet is a natural number of units.                             *)
LEMMA MaxBalanceNat == MaxBalance \in Nat
<1>1. Quota * UnitsPerRequest \in Nat
  BY SMT
<1>2. \A a, b \in Nat : a * b \in Nat
  BY SMT
<1> QED
  BY <1>1, <1>2 DEF MaxBalance

(* try_spend takes no more than the wallet holds and leaves the floor      *)
(* between its old value plus the price and the clock reading.             *)
LEMMA GrantFloor ==
  ASSUME TypeOK, NEW t \in Threads, Remaining(t) >= 0
  PROVE  /\ ceiling[t] - Remaining(t) >= floor + UnitsPerRequest
         /\ ceiling[t] - Remaining(t) <= ceiling[t]
         /\ ceiling[t] - Remaining(t) >= ceiling[t] - MaxBalance + UnitsPerRequest
         /\ ceiling[t] - Remaining(t) \in 0..Horizon
<1>1. floor \in 0..Horizon /\ ceiling[t] \in 0..Horizon
  BY DEF TypeOK
<1> QED
  BY <1>1, MaxBalanceNat DEF Remaining, Balance, Smaller

(* The wallet, the lock and the locals keep their types and ranges.        *)
LEMMA TypeStep == TypeOK /\ [Next]_vars => TypeOK'
<1> SUFFICES ASSUME TypeOK, [Next]_vars PROVE TypeOK'
  OBVIOUS
<1> USE DEF TypeOK
<1>1. CASE Tick
  BY <1>1 DEF Tick, wallet, window
<1>2. CASE StepBack
  BY <1>2 DEF StepBack, wallet, window
<1>3. CASE OpenWindow
  BY <1>3 DEF OpenWindow, wallet
<1>4. ASSUME NEW t \in Threads, TrySpend(t) PROVE TypeOK'
  <2>1. CASE Call(t)
    BY <2>1 DEF Call, window
  <2>3. CASE Acquire(t)
    BY <2>3 DEF Acquire, window
  <2>4. CASE ReadClock(t)
    BY <2>4 DEF ReadClock, window
  <2>5. CASE Grant(t)
    <3>1. floor' \in 0..Horizon
      BY <2>5, GrantFloor DEF Grant
    <3>2. wSpent' \in Nat /\ wLast' \in 0..Horizon /\ wOpen' \in BOOLEAN /\ wStart' \in 0..Horizon
      BY <2>5 DEF Grant, Observe, window
    <3> QED
      BY <2>5, <3>1, <3>2 DEF Grant
  <2>6. CASE Refuse(t)
    BY <2>6 DEF Refuse, window
  <2> QED
    BY <1>4, <2>1, <2>3, <2>4, <2>5, <2>6 DEF TrySpend
<1>5. CASE UNCHANGED vars
  BY <1>5 DEF vars, wallet, window
<1> QED
  BY <1>1, <1>2, <1>3, <1>4, <1>5 DEF Next

(* Only the holder of the lock is in the critical section.                 *)
LEMMA LockStep == TypeOK /\ LockHeld /\ [Next]_vars => LockHeld'
<1> SUFFICES ASSUME TypeOK, LockHeld, [Next]_vars PROVE LockHeld'
  OBVIOUS
<1> USE DEF TypeOK, LockHeld
<1>1. CASE Tick
  BY <1>1 DEF Tick, wallet
<1>2. CASE StepBack
  BY <1>2 DEF StepBack, wallet
<1>3. CASE OpenWindow
  BY <1>3 DEF OpenWindow, wallet
<1>4. ASSUME NEW t \in Threads, TrySpend(t) PROVE LockHeld'
  <2>1. CASE Call(t)
    BY <2>1 DEF Call
  <2>3. CASE Acquire(t)
    BY <2>3 DEF Acquire
  <2>4. CASE ReadClock(t)
    BY <2>4 DEF ReadClock
  <2>5. CASE Grant(t)
    BY <2>5 DEF Grant
  <2>6. CASE Refuse(t)
    BY <2>6 DEF Refuse
  <2> QED
    BY <1>4, <2>1, <2>3, <2>4, <2>5, <2>6 DEF TrySpend
<1>5. CASE UNCHANGED vars
  BY <1>5 DEF vars, wallet
<1> QED
  BY <1>1, <1>2, <1>3, <1>4, <1>5 DEF Next

(* What a grant leaves behind for the window of the observer.              *)
LEMMA WindowStep == TypeOK /\ WindowFloor /\ [Next]_vars => WindowFloor'
<1> SUFFICES ASSUME TypeOK, WindowFloor, [Next]_vars PROVE WindowFloor'
  OBVIOUS
<1> USE DEF WindowFloor
<1>1. CASE Tick \/ StepBack \/ UNCHANGED vars
  BY <1>1 DEF Tick, StepBack, vars, wallet, window
<1>2. CASE OpenWindow
  <2>1. wSpent = 0 /\ wSpent' = 0
    BY <1>2 DEF OpenWindow, TypeOK
  <2> QED
    BY <2>1
<1>3. ASSUME NEW t \in Threads, TrySpend(t), ~Grant(t) PROVE WindowFloor'
  BY <1>3 DEF TrySpend, Call, Acquire, ReadClock, Refuse, window
<1>4. ASSUME NEW t \in Threads, Grant(t) PROVE WindowFloor'
  <2>1. PICK lower \in Int : lower = ceiling[t] - Remaining(t)
    BY <1>4, GrantFloor DEF Grant
  <2>2. /\ lower >= floor + UnitsPerRequest
        /\ lower <= ceiling[t]
        /\ lower >= ceiling[t] - MaxBalance + UnitsPerRequest
        /\ floor' = lower
    BY <1>4, <2>1, GrantFloor DEF Grant
  <2>3. floor \in Nat /\ ceiling[t] \in Nat /\ wSpent \in Nat /\ wStart \in Nat /\ wLast \in Nat
    BY DEF TypeOK
  <2>4. CASE wOpen /\ ceiling[t] >= wStart
    <3>1. /\ wSpent' = wSpent + UnitsPerRequest
          /\ wLast' = ceiling[t]
          /\ wOpen' /\ wStart' = wStart
      BY <1>4, <2>4 DEF Grant, Observe
    <3>2. (wSpent + UnitsPerRequest) + wStart <= MaxBalance + lower
      <4>1. CASE wSpent = 0
        BY <4>1, <2>2, <2>3, <2>4, MaxBalanceNat
      <4>2. CASE wSpent > 0
        BY <4>2, <2>2, <2>3, MaxBalanceNat
      <4> QED
        BY <4>1, <4>2, <2>3
    <3> QED
      BY <3>1, <3>2, <2>2, <2>3, <2>4
  <2>5. CASE ~(wOpen /\ ceiling[t] >= wStart)
    <3>1. UNCHANGED window
      BY <1>4, <2>5 DEF Grant, Observe
    <3>2. CASE wSpent = 0
      BY <3>1, <3>2 DEF window
    <3>3. CASE wSpent > 0
      <4>1. ceiling[t] < wStart
        BY <3>3, <2>5, <2>3
      <4>2. wSpent + wStart <= MaxBalance + lower /\ lower <= wLast
        BY <3>3, <4>1, <2>2, <2>3, MaxBalanceNat
      <4> QED
        BY <3>1, <3>3, <4>2, <2>2 DEF window
    <3> QED
      BY <3>2, <3>3, <2>3
  <2> QED
    BY <2>4, <2>5
<1> QED
  BY <1>1, <1>2, <1>3, <1>4 DEF Next

-----------------------------------------------------------------------------

(* The inductive invariant: what the steps above need of one another.      *)
LEMMA InitIInv == Init => IInv
<1> SUFFICES ASSUME Init PROVE IInv
  OBVIOUS
<1>1. TypeOK
  <2>1. 0 \in 0..Horizon /\ 0 \in Nat
    OBVIOUS
  <2>2. "idle" \in {"idle", "enter", "read", "decide"}
    OBVIOUS
  <2>3. "none" \in {"none", "pending", "yes", "no"}
    OBVIOUS
  <2> QED
    BY <2>1, <2>2, <2>3 DEF Init, TypeOK
<1>2. LockHeld
  BY DEF Init, LockHeld
<1>3. WindowFloor
  BY DEF Init, WindowFloor
<1> QED
  BY <1>1, <1>2, <1>3 DEF IInv

(* try_spend keeps the inductive invariant, whatever the clock does.       *)
THEOREM Inductive == Spec => []IInv
<1>1. Init => IInv
  BY InitIInv
<1>2. IInv /\ [Next]_vars => IInv'
  BY TypeStep, LockStep, WindowStep DEF IInv
<1> QED
  BY <1>1, <1>2, PTL DEF Spec

(* try_spend keeps every variable in its type and the floor of the wallet  *)
(* between its creation and the latest time the clock can show.            *)
THEOREM TypeCorrect == Spec => []TypeOK
<1>1. IInv => TypeOK
  BY DEF IInv
<1> QED
  BY <1>1, Inductive, PTL

(* The limiter's promise, on any clock: what is granted in a window costs  *)
(* at most a full wallet and what the window earns.                        *)
THEOREM RateBound == Spec => []WindowBound
<1>1. IInv => WindowBound
  BY MaxBalanceNat DEF IInv, TypeOK, WindowFloor, WindowBound
<1> QED
  BY <1>1, Inductive, PTL

-----------------------------------------------------------------------------

(* A thread is in a call exactly when its result is pending.               *)
CallState == \A t \in Threads : pc[t] = "idle" <=> result[t] # "pending"

LEMMA CallStep == TypeOK /\ CallState /\ [Next]_vars => CallState'
<1> SUFFICES ASSUME TypeOK, CallState, [Next]_vars PROVE CallState'
  OBVIOUS
<1> USE DEF TypeOK, CallState
<1>1. CASE Tick \/ StepBack \/ OpenWindow \/ UNCHANGED vars
  BY <1>1 DEF Tick, StepBack, OpenWindow, vars, wallet
<1>2. ASSUME NEW t \in Threads, TrySpend(t) PROVE CallState'
  BY <1>2 DEF TrySpend, Call, Acquire, ReadClock, Grant, Refuse
<1> QED
  BY <1>1, <1>2 DEF Next

(* The credit of the bucket that the wallet stands for.                    *)
TokensBar == Smaller(now - FloorBar, MaxBalance)

(* With nobody at its decision the wallet's floor is the bucket's.         *)
LEMMA FloorIdle ==
  ASSUME \A u \in Threads : pc[u] # "decide"
  PROVE  FloorBar = floor
BY DEF FloorBar, Decided

(* With a thread at its decision, it is the floor that decision leaves.    *)
LEMMA FloorDecided ==
  ASSUME LockHeld, NEW t \in Threads, pc[t] = "decide"
  PROVE  FloorBar = IF Remaining(t) >= 0 THEN ceiling[t] - Remaining(t) ELSE floor
<1>1. lock = t
  BY DEF LockHeld
<1>2. \A u \in Threads : pc[u] = "decide" => u = t
  BY <1>1 DEF LockHeld
<1> QED
  BY <1>1, <1>2 DEF FloorBar, Decided

(* Either way it is a number.                                              *)
LEMMA FloorBarInt == ASSUME TypeOK, LockHeld PROVE FloorBar \in Int
<1>1. CASE \A u \in Threads : pc[u] # "decide"
  BY <1>1, FloorIdle DEF TypeOK
<1>2. ASSUME NEW t \in Threads, pc[t] = "decide" PROVE FloorBar \in Int
  BY <1>2, FloorDecided, GrantFloor DEF TypeOK
<1> QED
  BY <1>1, <1>2

(* Every step of the limiter is a step of the bucket or changes nothing    *)
(* the bucket shows.                                                       *)
LEMMA BucketStep ==
  TypeOK /\ LockHeld /\ CallState /\ [Next]_vars => [Bucket!Next]_(Bucket!vars)
<1> SUFFICES ASSUME TypeOK, LockHeld, CallState, [Next]_vars
             PROVE  Bucket!Next \/ UNCHANGED Bucket!vars
  OBVIOUS
<1>t. TypeOK' /\ LockHeld'
  BY TypeStep, LockStep DEF Next
<1>f. FloorBar \in Int
  BY FloorBarInt
<1>1. CASE Tick
  <2>1. PICK d \in 1..Horizon : now + d <= Horizon /\ now' = now + d /\ UNCHANGED <<wallet, window>>
    BY <1>1 DEF Tick
  <2>2. FloorBar' = FloorBar /\ VerdictBar' = VerdictBar
    BY <2>1 DEF FloorBar, VerdictBar, Decided, Remaining, Balance, wallet
  <2>3. TokensBar' = Smaller((now + d) - FloorBar, MaxBalance)
    <3>1. now' - FloorBar' = (now + d) - FloorBar
      BY <2>1, <2>2
    <3>2. TokensBar' = Smaller(now' - FloorBar', MaxBalance)
      BY DEF TokensBar, Smaller, MaxBalance
    <3> QED
      BY <3>1, <3>2
  <2>4. Smaller((now + d) - FloorBar, MaxBalance) = Smaller(TokensBar + d, MaxBalance)
    BY <1>f, MaxBalanceNat DEF TokensBar, Smaller, TypeOK
  <2>5. Bucket!Tick
    BY <2>1, <2>2, <2>3, <2>4 DEF Bucket!Tick, Bucket!Smaller, Smaller, TokensBar
  <2> QED
    BY <2>5 DEF Bucket!Next
<1>b. CASE StepBack
  <2>1. PICK d \in 1..Horizon : now - d >= 0 /\ now' = now - d /\ UNCHANGED <<wallet, window>>
    BY <1>b DEF StepBack
  <2>2. FloorBar' = FloorBar /\ VerdictBar' = VerdictBar
    BY <2>1 DEF FloorBar, VerdictBar, Decided, Remaining, Balance, wallet
  <2>3. TokensBar' = Smaller((now - d) - FloorBar, MaxBalance)
    <3>1. now' - FloorBar' = (now - d) - FloorBar
      BY <2>1, <2>2
    <3>2. TokensBar' = Smaller(now' - FloorBar', MaxBalance)
      BY DEF TokensBar, Smaller, MaxBalance
    <3> QED
      BY <3>1, <3>2
  <2>4. Smaller((now - d) - FloorBar, MaxBalance) \in (TokensBar - d)..TokensBar
    BY <1>f, MaxBalanceNat DEF TokensBar, Smaller, TypeOK
  <2>5. Bucket!StepBack
    BY <2>1, <2>2, <2>3, <2>4 DEF Bucket!StepBack, TokensBar
  <2> QED
    BY <2>5 DEF Bucket!Next
<1>2. CASE OpenWindow \/ UNCHANGED vars
  <2>1. UNCHANGED <<now, wallet>>
    BY <1>2 DEF OpenWindow, vars
  <2> QED
    BY <2>1 DEF Bucket!vars, FloorBar, VerdictBar, Decided, Remaining, Balance, wallet
<1>3. ASSUME NEW t \in Threads, TrySpend(t) PROVE Bucket!Next \/ UNCHANGED Bucket!vars
  <2>1. CASE Call(t)
    <3>1. FloorBar' = FloorBar
      BY <2>1 DEF Call, TypeOK, FloorBar, Decided, Remaining, Balance
    <3>2. VerdictBar' = [VerdictBar EXCEPT ![t] = IF Quota = 0 THEN "no" ELSE "pending"]
      BY <2>1 DEF Call, TypeOK, VerdictBar, Decided, Remaining, Balance
    <3>3. CASE Quota = 0
      <4>1. MaxBalance = 0
        BY <3>3 DEF MaxBalance
      <4>2. TokensBar < UnitsPerRequest
        BY <4>1, <1>f DEF TokensBar, Smaller, TypeOK
      <4>3. Bucket!Refuse(t)
        BY <2>1, <3>1, <3>2, <3>3, <4>2 DEF Bucket!Refuse, Call, TokensBar
      <4> QED
        BY <4>3 DEF Bucket!Next
    <3>4. CASE Quota # 0
      <4>1. VerdictBar[t] # "pending"
        BY <2>1 DEF Call, VerdictBar, Decided, CallState
      <4>2. Bucket!Ask(t)
        BY <2>1, <3>1, <3>2, <3>4, <4>1 DEF Bucket!Ask, Call
      <4> QED
        BY <4>2 DEF Bucket!Next
    <3> QED
      BY <3>3, <3>4
  <2>3. CASE Acquire(t)
    <3>1. \A u \in Threads : pc[u] # "decide" /\ pc'[u] # "decide"
      BY <2>3 DEF Acquire, LockHeld, TypeOK
    <3>2. FloorBar' = FloorBar
      BY <2>3, <3>1 DEF Acquire, FloorBar, Decided
    <3>3. VerdictBar' = VerdictBar
      BY <2>3, <3>1 DEF Acquire, VerdictBar, Decided
    <3> QED
      BY <2>3, <3>2, <3>3 DEF Bucket!vars, Acquire
  <2>4. CASE ReadClock(t)
    <3>1. /\ \A u \in Threads : pc[u] # "decide"
          /\ lock = t /\ lock' = t /\ pc'[t] = "decide" /\ ceiling'[t] = now
          /\ \A u \in Threads \ {t} : pc'[u] # "decide"
      BY <2>4 DEF ReadClock, LockHeld, TypeOK
    <3>2. FloorBar = floor
      BY <3>1, FloorIdle
    <3>3. PICK rest \in Int : rest = TokensBar - UnitsPerRequest
      BY <1>f, MaxBalanceNat DEF TokensBar, Smaller, TypeOK
    <3>4. Remaining(t)' = rest
      BY <2>4, <3>1, <3>2, <3>3 DEF ReadClock, Remaining, Balance, TokensBar, Smaller, MaxBalance
    <3>5. VerdictBar[t] = "pending"
      BY <2>4, <3>1 DEF ReadClock, VerdictBar, Decided, CallState, TypeOK
    <3>6. VerdictBar' = [VerdictBar EXCEPT ![t] = IF rest >= 0 THEN "yes" ELSE "no"]
      BY <2>4, <3>1, <3>4 DEF ReadClock, VerdictBar, Decided
    <3>7. CASE rest >= 0
      <4>1. FloorBar' = now - rest
        BY <3>7, <3>1, <3>4, <2>4 DEF FloorBar, Decided, ReadClock
      <4>2. TokensBar' = Smaller(now - (now - rest), MaxBalance)
        BY <4>1, <2>4 DEF ReadClock, TokensBar, Smaller, MaxBalance
      <4>3. Smaller(now - (now - rest), MaxBalance) = rest
        BY <3>3, <1>f, MaxBalanceNat DEF TokensBar, Smaller, TypeOK
      <4>4. TokensBar >= UnitsPerRequest /\ TokensBar' = TokensBar - UnitsPerRequest
        BY <3>3, <3>7, <4>2, <4>3, <1>f, MaxBalanceNat DEF TokensBar, Smaller, TypeOK
      <4>5. Bucket!Grant(t)
        BY <2>4, <3>5, <3>6, <3>7, <4>4 DEF Bucket!Grant, ReadClock, TokensBar
      <4> QED
        BY <4>5 DEF Bucket!Next
    <3>8. CASE rest < 0
      <4>1. FloorBar' = FloorBar
        BY <3>8, <3>1, <3>2, <3>4, <2>4 DEF FloorBar, Decided, ReadClock
      <4>2. TokensBar < UnitsPerRequest
        BY <3>3, <3>8, <1>f, MaxBalanceNat DEF TokensBar, Smaller, TypeOK
      <4>3. VerdictBar' = [VerdictBar EXCEPT ![t] = "no"]
        <5>1. ~(rest >= 0)
          BY <3>3, <3>8
        <5> QED
          BY <5>1, <3>6
      <4>4. UNCHANGED <<now, TokensBar>>
        BY <2>4, <4>1 DEF ReadClock, TokensBar, Smaller, MaxBalance
      <4>5. Bucket!Refuse(t)
        BY <3>5, <4>2, <4>3, <4>4 DEF Bucket!Refuse, TokensBar
      <4> QED
        BY <4>5 DEF Bucket!Next
    <3> QED
      BY <3>3, <3>7, <3>8
  <2>5. CASE Grant(t)
    <3>1. \A u \in Threads : pc'[u] # "decide"
      BY <2>5 DEF Grant, LockHeld, TypeOK
    <3>2. FloorBar' = FloorBar
      <4>1. FloorBar' = floor'
        BY <3>1 DEF FloorBar, Decided
      <4>2. FloorBar = ceiling[t] - Remaining(t)
        BY <2>5, FloorDecided DEF Grant
      <4> QED
        BY <2>5, <4>1, <4>2 DEF Grant
    <3>3. VerdictBar' = VerdictBar
      <4>1. \A u \in Threads \ {t} : pc[u] # "decide"
        BY <2>5 DEF Grant, LockHeld
      <4>2. VerdictBar' = result'
        BY <3>1, <1>t DEF VerdictBar, Decided, TypeOK
      <4>3. VerdictBar = [result EXCEPT ![t] = "yes"]
        BY <2>5, <4>1 DEF Grant, VerdictBar, Decided, TypeOK
      <4> QED
        BY <2>5, <4>2, <4>3 DEF Grant
    <3> QED
      BY <2>5, <3>2, <3>3 DEF Bucket!vars, Grant
  <2>6. CASE Refuse(t)
    <3>0. ~(Remaining(t) >= 0)
      BY <2>6, MaxBalanceNat DEF Refuse, Remaining, Balance, Smaller, TypeOK
    <3>1. \A u \in Threads : pc'[u] # "decide"
      BY <2>6 DEF Refuse, LockHeld, TypeOK
    <3>2. FloorBar' = FloorBar
      <4>1. FloorBar' = floor'
        BY <3>1 DEF FloorBar, Decided
      <4>2. FloorBar = floor
        BY <2>6, <3>0, FloorDecided DEF Refuse
      <4> QED
        BY <2>6, <4>1, <4>2 DEF Refuse
    <3>3. VerdictBar' = VerdictBar
      <4>1. \A u \in Threads \ {t} : pc[u] # "decide"
        BY <2>6 DEF Refuse, LockHeld
      <4>2. VerdictBar' = result'
        BY <3>1, <1>t DEF VerdictBar, Decided, TypeOK
      <4>3. VerdictBar = [result EXCEPT ![t] = "no"]
        BY <2>6, <3>0, <4>1 DEF Refuse, VerdictBar, Decided, TypeOK
      <4> QED
        BY <2>6, <4>2, <4>3 DEF Refuse
    <3> QED
      BY <2>6, <3>2, <3>3 DEF Bucket!vars, Refuse
  <2> QED
    BY <1>3, <2>1, <2>3, <2>4, <2>5, <2>6 DEF TrySpend
<1> QED
  BY <1>1, <1>b, <1>2, <1>3 DEF Next

(* The limiter implements the bucket on any clock.                          *)
THEOREM Refinement == Spec => BucketSpec
<1>1. Init => IInv /\ CallState
  BY InitIInv DEF Init, CallState
<1>2. Init => Bucket!Init
  <2> SUFFICES ASSUME Init PROVE Bucket!Init
    OBVIOUS
  <2>1. FloorBar = 0 /\ VerdictBar = [t \in Threads |-> "none"]
    BY DEF Init, FloorBar, VerdictBar, Decided
  <2>2. Smaller(now - FloorBar, MaxBalance) = 0
    BY <2>1, MaxBalanceNat DEF Init, Smaller
  <2> QED
    BY <2>1, <2>2 DEF Init, Bucket!Init
<1>3. IInv /\ CallState /\ [Next]_vars => (IInv /\ CallState)'
  BY TypeStep, LockStep, WindowStep, CallStep DEF IInv, Next
<1>4. IInv /\ CallState /\ [Next]_vars => [Bucket!Next]_(Bucket!vars)
  BY BucketStep DEF IInv
<1> QED
  BY <1>1, <1>2, <1>3, <1>4, PTL DEF Spec, BucketSpec, Bucket!Spec
=============================================================================
