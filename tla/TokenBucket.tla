---------------------------- MODULE TokenBucket ----------------------------
(***************************************************************************)
(* What a reservoir of the X-Ray sampler promises, with no wallet, no lock *)
(* and no program counter: a bucket that earns one unit of credit per unit *)
(* of time up to Capacity, and a request that takes Cost units in one      *)
(* atomic step when the bucket holds them and is turned down otherwise.    *)
(*                                                                         *)
(* It is the specification RateLimiter implements; nothing in the source   *)
(* corresponds to it line by line.                                         *)
(***************************************************************************)
EXTENDS Integers

CONSTANTS Threads,    \* the callers
          Capacity,   \* the largest credit the bucket can hold
          Cost,       \* the credit one request takes
          Horizon     \* bound on the clock

VARIABLES now,        \* the clock
          tokens,     \* the credit in the bucket
          verdict     \* the last answer each caller got, or "pending"

vars == <<now, tokens, verdict>>

Smaller(a, b) == IF a <= b THEN a ELSE b

Init ==
  /\ now = 0
  /\ tokens = 0
  /\ verdict = [t \in Threads |-> "none"]

(* Time passes and the bucket fills.                                       *)
Tick ==
  \E d \in 1..Horizon :
    /\ now + d <= Horizon
    /\ now' = now + d
    /\ tokens' = Smaller(tokens + d, Capacity)
    /\ UNCHANGED verdict

(* A clock set back by d takes away up to d of the credit and adds none.   *)
StepBack ==
  \E d \in 1..Horizon :
    /\ now - d >= 0
    /\ now' = now - d
    /\ tokens' \in (tokens - d)..tokens
    /\ UNCHANGED verdict

Ask(t) ==
  /\ verdict[t] # "pending"
  /\ verdict' = [verdict EXCEPT ![t] = "pending"]
  /\ UNCHANGED <<now, tokens>>

Grant(t) ==
  /\ verdict[t] = "pending"
  /\ tokens >= Cost
  /\ tokens' = tokens - Cost
  /\ verdict' = [verdict EXCEPT ![t] = "yes"]
  /\ UNCHANGED now

(* A caller may also be turned down as it asks.                            *)
Refuse(t) ==
  /\ tokens < Cost
  /\ verdict' = [verdict EXCEPT ![t] = "no"]
  /\ UNCHANGED <<now, tokens>>

Next == Tick \/ StepBack \/ \E t \in Threads : Ask(t) \/ Grant(t) \/ Refuse(t)

Spec == Init /\ [][Next]_vars
=============================================================================
