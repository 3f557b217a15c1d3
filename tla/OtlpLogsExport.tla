--------------------------- MODULE OtlpLogsExport ---------------------------
(***************************************************************************)
(* OTLPAwsLogExporter.export: one request after the other until the        *)
(* service answers for good, the attempts are used up, the deadline leaves *)
(* no room for the next wait, or shutdown interrupts it.                   *)
(*                                                                         *)
(* Time passes while a request is under way and while the exporter waits.  *)
(* Nothing bounds a request, which is signed outside of any timeout: the   *)
(* timeout_sec it is given is that of each wait on its socket (to connect, *)
(* for the next piece of the answer).                                      *)
(* The deadline is read off time(), the wall clock, which may be set back  *)
(* under it: `remaining` falls by the time that passes, and rises by as    *)
(* much as the clock is set back.                                          *)
(***************************************************************************)
EXTENDS Integers

CONSTANTS Timeout,        \* _timeout, in seconds
          MaxRetries,     \* _MAX_RETRYS
          MaxRetryAfter,  \* bound on the Retry-After of an answer
          MaxRequest,     \* bound on how long a request takes
          MaxBack         \* bound on how far a clock set back puts the deadline off

ASSUME ExportAssumption ==
  /\ Timeout \in Nat \ {0} /\ MaxRetries \in Nat \ {0}
  /\ MaxRetryAfter \in Nat /\ MaxRequest \in Nat /\ MaxBack \in Nat

VARIABLES
  xpc,       \* "idle", "called", "attempt", "post", "repost", "answer", "wait" or "returned"
  answer,    \* the last answer: "ok", "transient" (408, 429, 5xx) or "permanent"
  retry,     \* retry_num
  delay,     \* backoff_seconds, until they are over
  result,    \* "success", "failure" or "raised", what the call returned
  stop,      \* _shutdown_event
  down,      \* _shutdown of the base exporter
  remaining  \* deadline_sec - time()

(* History, of the call.                                                   *)
VARIABLES
  late,      \* its requests that began after the event was set
  spent      \* what the requests of the attempt under way took

call       == <<xpc, answer, retry, delay, result, remaining, late, spent>>
exportVars == <<call, stop, down>>

ExportInit ==
  /\ xpc = "idle" /\ answer = "ok" /\ retry = 0 /\ delay = 0 /\ result = "success"
  /\ remaining = Timeout /\ late = 0 /\ spent = 0
  /\ stop = FALSE /\ down = FALSE

Returned(r) == xpc' = "returned" /\ result' = r

Export ==
  /\ xpc = "idle"
  /\ xpc' = "called"
  /\ UNCHANGED <<answer, retry, delay, result, remaining, late, spent, stop, down>>

(* The check of _shutdown, before the batch is serialized.                 *)
CheckShutdown ==
  /\ xpc = "called"
  /\ IF down THEN Returned("failure") ELSE xpc' = "attempt" /\ UNCHANGED result
  /\ UNCHANGED <<answer, retry, delay, remaining, late, spent, stop, down>>

Attempt ==
  /\ xpc = "attempt"
  /\ IF remaining <= 0
       THEN Returned("failure")
       ELSE xpc' = "post" /\ UNCHANGED result
  /\ UNCHANGED <<answer, retry, delay, remaining, late, spent, stop, down>>

(* session.post.  A connection error is answered by a second post; any     *)
(* other exception, and a second connection error, leaves export.          *)
Post ==
  /\ xpc \in {"post", "repost"}
  /\ \E d \in 0..MaxRequest : remaining' = remaining - d /\ spent' = spent + d
  /\ late' = late + (IF stop THEN 1 ELSE 0)
  /\ \/ /\ xpc' = "answer"
        /\ answer' \in {"ok", "transient", "permanent"}
        /\ UNCHANGED result
     \/ /\ IF xpc = "post"
             THEN xpc' = "repost" /\ UNCHANGED result
             ELSE Returned("raised")
        /\ UNCHANGED answer
     \/ Returned("raised") /\ UNCHANGED answer
  /\ UNCHANGED <<retry, delay, stop, down>>

(* _get_retry_delay_sec: a Retry-After that parses, or 2**retry_num with   *)
(* 20 percent of jitter, in whole seconds.                                 *)
Delays ==
  (0..MaxRetryAfter) \cup { b \in 0..(2 * 2^retry) : 4 * 2^retry <= 5 * b /\ 5 * b <= 6 * 2^retry }

(* Mutant: the wait is not held against the deadline.                      *)
DecideUnbounded ==
  /\ xpc = "answer"
  /\ IF answer = "ok"
       THEN Returned("success") /\ UNCHANGED delay
       ELSE \E b \in Delays :
              IF answer = "permanent" \/ retry + 1 = MaxRetries
                THEN Returned("failure") /\ UNCHANGED delay
                ELSE xpc' = "wait" /\ delay' = b /\ UNCHANGED result
  /\ UNCHANGED <<answer, retry, remaining, late, spent, stop, down>>

Decide ==
  /\ xpc = "answer"
  /\ IF answer = "ok"
       THEN Returned("success") /\ UNCHANGED delay
       ELSE \E b \in Delays :
              IF answer = "permanent" \/ retry + 1 = MaxRetries \/ b > remaining
                THEN Returned("failure") /\ UNCHANGED delay
                ELSE xpc' = "wait" /\ delay' = b /\ UNCHANGED result
  /\ UNCHANGED <<answer, retry, remaining, late, spent, stop, down>>

(* Mutant: a plain sleep.                                                  *)
WaitUninterrupted ==
  /\ xpc = "wait"
  /\ remaining' = remaining - delay
  /\ xpc' = "attempt" /\ retry' = retry + 1
  /\ delay' = 0 /\ spent' = 0
  /\ UNCHANGED <<answer, result, late, stop, down>>

(* _shutdown_event.wait: the delay passes, or the event ends it.           *)
Wait ==
  /\ xpc = "wait"
  /\ IF stop
       THEN /\ \E d \in 0..delay : remaining' = remaining - d
            /\ Returned("failure")
            /\ UNCHANGED retry
       ELSE /\ remaining' = remaining - delay
            /\ xpc' = "attempt" /\ retry' = retry + 1
            /\ UNCHANGED result
  /\ delay' = 0 /\ spent' = 0
  /\ UNCHANGED <<answer, late, stop, down>>

Running == CheckShutdown \/ Attempt \/ Post \/ Decide \/ Wait

(* The caller has the result, and the locals of the call are gone.         *)
Return ==
  /\ xpc = "returned"
  /\ xpc' = "idle" /\ answer' = "ok" /\ retry' = 0 /\ delay' = 0 /\ result' = "success"
  /\ remaining' = Timeout /\ late' = 0 /\ spent' = 0
  /\ UNCHANGED <<stop, down>>

(* shutdown sets the event and then the flag.                              *)
SetEvent == ~stop /\ stop' = TRUE /\ UNCHANGED <<call, down>>
SetDown  == stop /\ ~down /\ down' = TRUE /\ UNCHANGED <<call, stop>>

(* The wall clock is set back during a call.                               *)
StepBack ==
  /\ xpc \notin {"idle", "called", "returned"}
  /\ remaining + spent < Timeout + MaxBack
  /\ remaining' = remaining + 1
  /\ UNCHANGED <<xpc, answer, retry, delay, result, late, spent, stop, down>>

ExportNext == Export \/ Running \/ Return \/ SetEvent \/ SetDown \/ StepBack
ExportSpec == ExportInit /\ [][ExportNext]_exportVars

-----------------------------------------------------------------------------

ExportTypeOK ==
  /\ xpc \in {"idle", "called", "attempt", "post", "repost", "answer", "wait", "returned"}
  /\ answer \in {"ok", "transient", "permanent"}
  /\ result \in {"success", "failure", "raised"}
  /\ retry \in 0..(MaxRetries - 1) /\ delay \in Nat
  /\ remaining \in Int /\ late \in Nat /\ spent \in Nat
  /\ stop \in BOOLEAN /\ down \in BOOLEAN

(* A call outlasts its deadline by what the requests of its last attempt   *)
(* take, and by nothing else: no attempt begins after the deadline, no     *)
(* wait goes beyond it, and all that the attempts before took is within    *)
(* it.  A clock that is set back puts the deadline off by as much.         *)
TimeBound == remaining + spent >= 0

(* Once shutdown has set the event, a call begins at most one more attempt *)
(* of two requests: the wait that follows is interrupted.                  *)
ShutdownBound == late <= 2

-----------------------------------------------------------------------------
(* The inductive invariant behind both: how much of the deadline each      *)
(* place of the loop may have used, and how often it may have posted late. *)

DeadlineInv ==
  /\ xpc \in {"idle", "called"} => remaining = Timeout
  /\ xpc \in {"attempt", "post"} => remaining >= 0
  /\ xpc = "wait" => remaining >= delay /\ retry + 1 < MaxRetries

LateInv ==
  /\ ~stop => late = 0
  /\ xpc \in {"idle", "called", "attempt", "post"} => late = 0
  /\ xpc = "repost" => late <= 1

ExportInv == ExportTypeOK /\ TimeBound /\ ShutdownBound /\ DeadlineInv /\ LateInv
=============================================================================
