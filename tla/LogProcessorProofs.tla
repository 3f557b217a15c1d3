------------------------- MODULE LogProcessorProofs -------------------------
(***************************************************************************)
(* The log processor and its exporter for any queue, batch and request     *)
(* size, any timeout, any heap of values and any number of records: what a *)
(* call does at its deadline, what the processor asks of the exporter, who may     *)
(* touch the batch, what is left after shutdown, and where each record is. *)
(***************************************************************************)
EXTENDS LogProcessor, TotalsProofs, SequenceTheorems, TLAPS

USE ExportAssumption, QueueAssumption

-----------------------------------------------------------------------------
(* The retry loop of OTLPAwsLogExporter, for any timeout and any number of *)
(* retries, however long a request takes, whatever the service answers and *)
(* however the clock is set back: what a call does at its deadline, and    *)
(* how it ends after shutdown.                                             *)

(* A wait is a whole number of seconds.                                    *)
LEMMA DelaysNat == Delays \subseteq Nat
  BY DEF Delays

LEMMA ExportInitInv == ExportInit => ExportInv
<1> SUFFICES ASSUME ExportInit PROVE ExportInv
  OBVIOUS
<1>1. ExportTypeOK
  <2>1. MaxRetries - 1 \in Nat
    OBVIOUS
  <2>2. stop \in BOOLEAN /\ down \in BOOLEAN
    BY Zenon DEF ExportInit
  <2> QED
    BY <2>1, <2>2 DEF ExportInit, ExportTypeOK
<1>2. TimeBound
  BY DEF ExportInit, TimeBound
<1>3. ShutdownBound /\ DeadlineInv /\ LateInv
  BY DEF ExportInit, ShutdownBound, DeadlineInv, LateInv
<1> QED
  BY <1>1, <1>2, <1>3 DEF ExportInv

LEMMA ExportStepInv == ExportInv /\ [ExportNext]_exportVars => ExportInv'
<1> SUFFICES ASSUME ExportInv, [ExportNext]_exportVars PROVE ExportInv'
  OBVIOUS
<1> USE DEF ExportInv, ExportTypeOK, TimeBound, ShutdownBound, DeadlineInv, LateInv, Returned
<1>1. CASE Export
  BY <1>1 DEF Export
<1>2. CASE CheckShutdown
  BY <1>2 DEF CheckShutdown
<1>3. CASE Attempt
  BY <1>3 DEF Attempt
<1>4. CASE Post
  <2> PICK d \in 0..MaxRequest : remaining' = remaining - d /\ spent' = spent + d
    BY <1>4 DEF Post
  <2>1. CASE xpc = "post"
    BY <1>4, <2>1 DEF Post
  <2>2. CASE xpc = "repost"
    BY <1>4, <2>2 DEF Post
  <2> QED
    BY <1>4, <2>1, <2>2 DEF Post
<1>5. CASE Decide
  <2>1. CASE xpc' = "returned"
    BY <1>5, <2>1 DEF Decide
  <2>2. CASE xpc' # "returned"
    <3>1. PICK b \in Delays : xpc' = "wait" /\ delay' = b /\ b <= remaining /\ retry + 1 # MaxRetries
      BY <1>5, <2>2, DelaysNat DEF Decide
    <3>2. b \in Nat
      BY DelaysNat
    <3> QED
      BY <1>5, <3>1, <3>2 DEF Decide
  <2> QED
    BY <2>1, <2>2
<1>6. CASE Wait
  <2>1. CASE stop
    <3> PICK d \in 0..delay : remaining' = remaining - d
      BY <1>6, <2>1 DEF Wait
    <3> QED
      BY <1>6, <2>1 DEF Wait
  <2>2. CASE ~stop
    BY <1>6, <2>2 DEF Wait
  <2> QED
    BY <2>1, <2>2
<1>7. CASE Return
  BY <1>7 DEF Return
<1>8. CASE SetEvent \/ SetDown
  BY <1>8 DEF SetEvent, SetDown, call
<1>9. CASE StepBack
  BY <1>9 DEF StepBack
<1>10. CASE UNCHANGED exportVars
  BY <1>10 DEF exportVars, call
<1> QED
  BY <1>1, <1>2, <1>3, <1>4, <1>5, <1>6, <1>7, <1>8, <1>9, <1>10 DEF ExportNext, Running

(* The loop keeps to its invariant.                                        *)
THEOREM ExportInductive == ExportSpec => []ExportInv
  BY ExportInitInv, ExportStepInv, PTL DEF ExportSpec

(* A call outlasts its deadline by what the requests of its last attempt   *)
(* take and by nothing else, for any timeout and any number of retries,    *)
(* however long a request takes and however the clock is set back.  That   *)
(* is no bound on the call: nothing bounds its requests.                   *)
THEOREM TimeBounded == ExportSpec => []TimeBound
<1>1. ExportInv => TimeBound
  BY DEF ExportInv
<1> QED
  BY <1>1, ExportInductive, PTL

(* After shutdown has set its event, a call posts at most twice more.      *)
THEOREM ShutdownBounded == ExportSpec => []ShutdownBound
<1>1. ExportInv => ShutdownBound
  BY DEF ExportInv
<1> QED
  BY <1>1, ExportInductive, PTL

-----------------------------------------------------------------------------
(* The exporter in the processor's hands is the exporter by itself.        *)

LEMMA ExporterInit == Init => ExportInit
  BY DEF Init

LEMMA ExporterSteps == [Next]_vars => [ExportNext]_exportVars
<1> SUFFICES ASSUME [Next]_vars PROVE [ExportNext]_exportVars
  OBVIOUS
<1>1. CASE Emit \/ AppendLeft \/ ForceFlush
  BY <1>1 DEF Emit, AppendLeft, ForceFlush
<1>2. CASE Worker
  BY <1>2 DEF Worker, Wake, Clear
<1>3. CASE Closing
  BY <1>3 DEF Closing, Shutdown, Joined, Closed, ExportNext
<1>4. CASE ExporterStep \/ ClockStep
  BY <1>4 DEF ExporterStep, ClockStep, ExportNext
<1>5. ASSUME NEW c \in Callers, Caller(c) PROVE [ExportNext]_exportVars
  <2>1. CASE Acquire(c) \/ BeginBatch(c) \/ Release(c)
    BY <2>1 DEF Acquire, BeginBatch, Release
  <2>2. CASE Pop(c)
    BY <2>2 DEF Pop, ExportNext
  <2>3. CASE ExportRest(c)
    BY <2>3 DEF ExportRest, ExportNext
  <2>4. CASE ExportReturned(c)
    BY <2>4 DEF ExportReturned, ExportNext
  <2> QED
    BY <1>5, <2>1, <2>2, <2>3, <2>4 DEF Caller, Exporting
<1>6. CASE UNCHANGED vars
  BY <1>6 DEF vars
<1> QED
  BY <1>1, <1>2, <1>3, <1>4, <1>5, <1>6 DEF Next

(* The calls of the worker and of force_flush never overlap in the         *)
(* exporter, which is never called again before it returned, and what      *)
(* shutdown does to it is its own shutdown: the processor implements the   *)
(* exporter's specification.                                               *)
THEOREM Refinement == Spec => Exporter
<1>1. Spec => ExportSpec
  BY ExporterInit, ExporterSteps, PTL DEF Spec, ExportSpec
<1> QED
  BY <1>1 DEF Exporter

(* So its bounds hold of the calls that the processor makes.               *)
LEMMA ExporterInv == Spec => []ExportInv
<1>1. Spec => ExportSpec
  BY ExporterInit, ExporterSteps, PTL DEF Spec, ExportSpec
<1> QED
  BY <1>1, ExportInductive, PTL

(* A call of the worker or of force_flush outlasts its deadline only by    *)
(* the requests of its last attempt, whatever the other threads do.        *)
THEOREM CallsEnd == Spec => []TimeBound
<1>1. ExportInv => TimeBound
  BY DEF ExportInv
<1> QED
  BY <1>1, ExporterInv, PTL

(* A call under way when the processor is shut down posts at most twice    *)
(* more.                                                                   *)
THEOREM CallsStop == Spec => []ShutdownBound
<1>1. ExportInv => ShutdownBound
  BY DEF ExportInv
<1> QED
  BY <1>1, ExporterInv, PTL

-----------------------------------------------------------------------------
(* Types, the lock, and the end of the worker.                             *)

QueueType ==
  /\ queue \in Seq(Records) /\ Len(queue) <= MaxQueue
  /\ logOf \in Seq(Logs)
  /\ emitting \in Nat /\ Len(logOf) + emitting <= MaxRecords

CallerType ==
  /\ cpc \in [Callers -> {"idle", "lock", "batch", "clear", "done"}]
  /\ strategy \in [Callers -> {"one", "full", "all"}]
  /\ awaken \in BOOLEAN
  /\ closing \in {"no", "join", "exporter", "closed"}
  /\ holder \in Callers \cup {Nobody}

BatchType ==
  /\ popped \in Records \cup {NoRecord}
  /\ left \in 0..MaxBatch /\ iteration \in 0..1
  /\ batch \in Seq(Records) /\ batchSize \in Nat
  /\ sent \in Seq(Records)

(* The lock is of the caller that is in _export; the locals belong to it,  *)
(* and the exporter works for it.  It counts on `left` records, and finds  *)
(* them: a full queue drops the oldest only to append another.             *)
LockInv ==
  /\ \A c \in Callers : cpc[c] = "batch" <=> holder = c
  /\ holder = Nobody => left = 0 /\ batch = <<>> /\ popped = NoRecord /\ xpc = "idle"
  /\ xpc # "idle" => batch # <<>>
  /\ popped # NoRecord => xpc # "idle"
  /\ left <= Len(queue)

(* After shutdown was called only the stragglers are still appended; the   *)
(* worker's last export ends with an empty queue, and the exporter is shut *)
(* down after it.                                                          *)
ShutdownInv ==
  /\ stop <=> closing \in {"exporter", "closed"}
  /\ stop => cpc["worker"] = "done"
  /\ strategy["worker"] = "all" => shutdownCalled
  /\ before \in Nat /\ stragglers \in Nat /\ before <= Len(logOf)
  /\ shutdownCalled => Len(logOf) + emitting = before + stragglers
  /\ cpc["worker"] = "done" => strategy["worker"] = "all"
  /\ strategy["worker"] = "all" /\ cpc["worker"] \in {"clear", "done"}
       => \A i \in DOMAIN queue : queue[i] > before

(* What is waiting was appended.                                           *)
KnownInv ==
  /\ \A i \in DOMAIN queue : queue[i] <= Len(logOf)
  /\ popped <= Len(logOf)

TInv == QueueType /\ CallerType /\ BatchType /\ LockInv /\ ShutdownInv /\ KnownInv

LEMMA TInit == Init => TInv
<1> SUFFICES ASSUME Init PROVE TInv
  OBVIOUS
<1> USE DEF Init, ExportInit, Callers, Nobody, NoRecord
<1>1. QueueType
  BY DEF QueueType, Records
<1>2. CallerType
  BY Zenon DEF CallerType
<1>3. BatchType
  BY DEF BatchType, Records
<1>4. LockInv
  BY DEF LockInv
<1>5. ShutdownInv
  BY DEF ShutdownInv, shutdownCalled
<1>6. KnownInv
  BY DEF KnownInv
<1> QED
  BY <1>1, <1>2, <1>3, <1>4, <1>5, <1>6 DEF TInv

(* The steps of the application.                                           *)
LEMMA EmitStep == TInv /\ Emit => TInv'
<1> SUFFICES ASSUME TInv, Emit PROVE TInv'
  OBVIOUS
<1>0. Len(logOf) \in Nat
  BY LenProperties DEF TInv, QueueType
<1>1. QueueType'
  BY <1>0 DEF TInv, QueueType, Emit
<1>2. CallerType' /\ BatchType' /\ LockInv'
  BY DEF TInv, CallerType, BatchType, LockInv, Emit, exportVars, call, locals, history
<1>3. ShutdownInv'
  BY DEF TInv, ShutdownInv, shutdownCalled, Emit, exportVars, history
<1>4. KnownInv'
  BY DEF TInv, KnownInv, Emit, locals
<1> QED
  BY <1>1, <1>2, <1>3, <1>4 DEF TInv

(* What appending to the deque makes of it, and of the records.            *)
LEMMA Appended ==
  ASSUME QueueType, AppendLeft
  PROVE  /\ logOf' \in Seq(Logs) /\ Len(logOf) \in Nat /\ Len(logOf') = Len(logOf) + 1
         /\ Len(logOf') \in Records /\ emitting' \in Nat /\ Len(logOf') + emitting' = Len(logOf) + emitting
         /\ queue' \in Seq(Records) /\ Len(queue') <= MaxQueue /\ Len(queue') >= Len(queue)
         /\ \A i \in DOMAIN queue' : queue'[i] = Len(logOf') \/ \E j \in DOMAIN queue : queue'[i] = queue[j]
<1> DEFINE e == Len(logOf')
<1>1. PICK l \in Logs : logOf' = Append(logOf, l)
  BY DEF AppendLeft
<1>2. logOf' \in Seq(Logs) /\ Len(logOf) \in Nat /\ e = Len(logOf) + 1
  BY <1>1, LenProperties, AppendProperties DEF QueueType
<1>3. emitting' \in Nat /\ e + emitting' = Len(logOf) + emitting /\ e \in Records
  BY <1>2 DEF QueueType, AppendLeft, Records
<1>4. queue \in Seq(Records)
  BY DEF QueueType
<1> HIDE DEF e
<1>5. CASE Len(queue) = MaxQueue
  <2>1. queue # <<>>
    BY <1>5, EmptySeq
  <2>2. Tail(queue) \in Seq(Records) /\ Len(Tail(queue)) = Len(queue) - 1
        /\ \A i \in 1..Len(Tail(queue)) : Tail(queue)[i] = queue[i + 1]
    BY <1>4, <2>1, HeadTailProperties
  <2>3. queue' = Append(Tail(queue), e)
    BY <1>5 DEF AppendLeft, e
  <2> QED
    BY <1>2, <1>3, <1>4, <1>5, <2>2, <2>3, AppendProperties DEF e
<1>6. CASE Len(queue) # MaxQueue
  <2>1. queue' = Append(queue, e)
    BY <1>6 DEF AppendLeft, e
  <2> QED
    BY <1>2, <1>3, <1>4, <1>6, <2>1, AppendProperties DEF QueueType, e
<1> QED
  BY <1>5, <1>6

LEMMA AppendStep == TInv /\ AppendLeft => TInv'
<1> SUFFICES ASSUME TInv, AppendLeft PROVE TInv'
  OBVIOUS
<1>1. QueueType'
  BY Appended DEF TInv, QueueType
<1>2. CallerType'
  <2>1. awaken' \in BOOLEAN
    BY Zenon DEF AppendLeft, TInv, CallerType
  <2> QED
    BY <2>1 DEF TInv, CallerType, AppendLeft
<1>3. BatchType'
  BY DEF TInv, BatchType, AppendLeft, locals
<1>4. LockInv'
  BY Appended DEF TInv, BatchType, QueueType, LockInv, AppendLeft, exportVars, call, locals
<1>5. ShutdownInv'
  <2>1. /\ UNCHANGED <<cpc, strategy, closing, stop, before, stragglers>> /\ shutdownCalled' = shutdownCalled
    BY DEF AppendLeft, shutdownCalled, exportVars
  <2>2. before <= Len(logOf') /\ before < Len(logOf')
    BY Appended DEF TInv, ShutdownInv
  <2>3. shutdownCalled => Len(logOf') + emitting' = before + stragglers
    BY Appended DEF TInv, ShutdownInv
  <2>4. strategy["worker"] = "all" /\ cpc["worker"] \in {"clear", "done"} => \A i \in DOMAIN queue' : queue'[i] > before
    BY <2>2, Appended DEF TInv, ShutdownInv
  <2> QED
    BY <2>1, <2>2, <2>3, <2>4 DEF TInv, ShutdownInv
<1>6. KnownInv'
  <2>1. popped' = popped
    BY DEF AppendLeft, locals
  <2>2. popped \in Nat /\ \A i \in DOMAIN queue : queue[i] \in Nat
    BY DEF TInv, QueueType, BatchType, Records, NoRecord
  <2> QED
    BY <2>1, <2>2, Appended DEF TInv, KnownInv
<1> QED
  BY <1>1, <1>2, <1>3, <1>4, <1>5, <1>6 DEF TInv

(* The steps of the callers outside of the lock, and of shutdown.          *)
LEMMA OutsideStep == TInv /\ (ForceFlush \/ Worker \/ Closing) => TInv'
<1> SUFFICES ASSUME TInv, ForceFlush \/ Worker \/ Closing PROVE TInv'
  OBVIOUS
<1> USE DEF Callers
<1>0. KnownInv'
  <2>1. UNCHANGED <<queue, logOf, popped>>
    BY DEF ForceFlush, Worker, Wake, Clear, Closing, Shutdown, Joined, Closed, locals
  <2> QED
    BY <2>1 DEF TInv, KnownInv
<1>1. CASE ForceFlush
  <2>1. QueueType' /\ BatchType' /\ LockInv'
    BY <1>1 DEF TInv, QueueType, BatchType, CallerType, LockInv, ForceFlush, exportVars, call, locals, history
  <2>2. CallerType'
    BY <1>1 DEF TInv, CallerType, ForceFlush
  <2>3. ShutdownInv'
    BY <1>1 DEF TInv, CallerType, ShutdownInv, shutdownCalled, ForceFlush, exportVars, history
  <2> QED
    BY <1>0, <2>1, <2>2, <2>3 DEF TInv
<1>2. CASE Wake
  <2>1. QueueType' /\ BatchType' /\ LockInv'
    BY <1>2 DEF TInv, QueueType, BatchType, CallerType, LockInv, Wake, exportVars, call, locals, history
  <2>2. CallerType'
    BY <1>2 DEF TInv, CallerType, Wake
  <2>3. ShutdownInv'
    BY <1>2 DEF TInv, CallerType, ShutdownInv, shutdownCalled, Wake, exportVars, history
  <2> QED
    BY <1>0, <2>1, <2>2, <2>3 DEF TInv
<1>3. CASE Clear
  <2>1. QueueType' /\ BatchType' /\ LockInv'
    BY <1>3 DEF TInv, QueueType, BatchType, CallerType, LockInv, Clear, exportVars, call, locals, history
  <2>2. CallerType'
    BY <1>3 DEF TInv, CallerType, Clear
  <2>3. ShutdownInv'
    BY <1>3 DEF TInv, CallerType, ShutdownInv, shutdownCalled, Clear, exportVars, history
  <2> QED
    BY <1>0, <2>1, <2>2, <2>3 DEF TInv
<1>4. CASE Closing
  <2>1. QueueType'
    BY <1>4 DEF TInv, QueueType, Closing, Shutdown, Joined, Closed, history
  <2>2. CallerType'
    BY <1>4 DEF TInv, CallerType, Closing, Shutdown, Joined, Closed
  <2>3. BatchType' /\ LockInv'
    BY <1>4 DEF TInv, BatchType, LockInv, Closing, Shutdown, Joined, Closed, SetEvent, SetDown, exportVars, call, locals, history
  <2>4. ShutdownInv'
    <3>1. CASE Shutdown
      <4>1. Len(logOf) \in Nat /\ emitting \in Nat
        BY LenProperties DEF TInv, QueueType
      <4> QED
        BY <3>1, <4>1 DEF TInv, ShutdownInv, shutdownCalled, Shutdown, exportVars
    <3>2. CASE Joined \/ Closed
      BY <3>2 DEF TInv, CallerType, ShutdownInv, shutdownCalled, Joined, Closed, SetEvent, SetDown, history
    <3> QED
      BY <1>4, <3>1, <3>2 DEF Closing
  <2> QED
    BY <1>0, <2>1, <2>2, <2>3, <2>4 DEF TInv
<1> QED
  BY <1>1, <1>2, <1>3, <1>4 DEF Worker

(* The exporter's own steps: the call goes on.                             *)
LEMMA ExporterKeeps == TInv /\ (ExporterStep \/ ClockStep) => TInv'
<1> SUFFICES ASSUME TInv, ExporterStep \/ ClockStep PROVE TInv'
  OBVIOUS
<1>1. UNCHANGED processor /\ UNCHANGED <<stop, down>>
  BY DEF ExporterStep, ClockStep, Running, CheckShutdown, Attempt, Post, Decide, Wait, StepBack
<1>2. xpc # "idle" /\ xpc' # "idle"
  BY DEF ExporterStep, ClockStep, Running, CheckShutdown, Attempt, Post, Decide, Wait, StepBack, Returned
<1>3. QueueType' /\ CallerType' /\ BatchType' /\ ShutdownInv' /\ KnownInv'
  BY <1>1 DEF TInv, QueueType, CallerType, BatchType, ShutdownInv, KnownInv, shutdownCalled, processor, locals, history
<1>4. LockInv'
  BY <1>1, <1>2 DEF TInv, LockInv, processor, locals
<1> QED
  BY <1>3, <1>4 DEF TInv

(* The steps of the caller that has the lock, or takes it.                 *)
LEMMA AcquireStep == ASSUME TInv, NEW c \in Callers, Acquire(c) PROVE TInv'
<1> USE DEF Callers, Nobody
<1>1. QueueType' /\ BatchType'
  BY DEF TInv, QueueType, BatchType, Acquire, history
<1>2. CallerType'
  BY DEF TInv, CallerType, Acquire
<1>3. LockInv'
  BY DEF TInv, CallerType, LockInv, Acquire, exportVars, call
<1>4. ShutdownInv'
  BY DEF TInv, CallerType, ShutdownInv, shutdownCalled, Acquire, exportVars, history
<1>5. KnownInv'
  BY DEF TInv, KnownInv, Acquire
<1> QED
  BY <1>1, <1>2, <1>3, <1>4, <1>5 DEF TInv

LEMMA BeginStep == ASSUME TInv, NEW c \in Callers, BeginBatch(c) PROVE TInv'
<1>1. left' \in 0..MaxBatch /\ left' <= Len(queue)
  BY LenProperties DEF TInv, QueueType, BeginBatch
<1>2. QueueType' /\ CallerType'
  BY DEF TInv, QueueType, CallerType, BeginBatch, history
<1>3. BatchType'
  BY <1>1 DEF TInv, BatchType, BeginBatch, history
<1>4. LockInv'
  BY <1>1 DEF TInv, CallerType, LockInv, AtLoop, BeginBatch, Nobody, Callers, exportVars, call
<1>5. ShutdownInv'
  BY DEF TInv, ShutdownInv, shutdownCalled, BeginBatch, exportVars, history
<1>6. KnownInv'
  BY DEF TInv, KnownInv, BeginBatch
<1> QED
  BY <1>2, <1>3, <1>4, <1>5, <1>6 DEF TInv

(* A worker that releases the lock in its last export leaves no record.    *)
LEMMA ReleaseStep == ASSUME TInv, NEW c \in Callers, Release(c) PROVE TInv'
<1> USE DEF Callers, Nobody
<1>1. QueueType' /\ BatchType'
  BY DEF TInv, QueueType, BatchType, Release, locals, history
<1>2. CallerType'
  BY DEF TInv, CallerType, Release
<1>3. LockInv'
  BY DEF TInv, CallerType, LockInv, Release, AtLoop, exportVars, call, locals
<1>4. ShutdownInv'
  BY DEF TInv, CallerType, ShutdownInv, shutdownCalled, Release, AtLoop, ShouldExport, exportVars, history
<1>5. KnownInv'
  BY DEF TInv, KnownInv, Release, locals
<1> QED
  BY <1>1, <1>2, <1>3, <1>4, <1>5 DEF TInv

(* There is a record to pop, and it has a size.                            *)
LEMMA Poppable ==
  ASSUME TInv, NEW c \in Callers, Pop(c)
  PROVE  /\ queue # <<>> /\ Head(queue) \in Records /\ \E j \in DOMAIN queue : Head(queue) = queue[j]
         /\ Tail(queue) \in Seq(Records) /\ Len(Tail(queue)) = Len(queue) - 1
         /\ \A i \in DOMAIN Tail(queue) : \E j \in DOMAIN queue : Tail(queue)[i] = queue[j]
<1>1. queue \in Seq(Records) /\ queue # <<>>
  BY DEF TInv, QueueType, BatchType, LockInv, Pop
<1>2. /\ Head(queue) \in Records /\ Tail(queue) \in Seq(Records) /\ Len(Tail(queue)) = Len(queue) - 1
      /\ \A i \in 1..Len(Tail(queue)) : Tail(queue)[i] = queue[i + 1]
  BY <1>1, HeadTailProperties
<1>3. Head(queue) = queue[1] /\ 1 \in DOMAIN queue
  BY <1>1, EmptySeq
<1> QED
  BY <1>1, <1>2, <1>3

LEMMA PopStep == ASSUME TInv, NEW c \in Callers, Pop(c) PROVE TInv'
<1> DEFINE r == Head(queue)
<1>1. SizeOf(r) \in Nat
  <2>1. r \in DOMAIN logOf
    BY Poppable, HeadTailProperties DEF TInv, QueueType, KnownInv, Records
  <2>2. logOf[r] \in Logs
    BY <2>1 DEF TInv, QueueType
  <2> QED
    BY <2>2, SizesAssumption DEF SizeOf
<1>2. QueueType' /\ CallerType'
  BY Poppable DEF TInv, QueueType, CallerType, Pop, history
<1>3. BatchType'
  <2>1. CASE UNCHANGED <<batch, batchSize>> /\ popped' = r
    BY <2>1, Poppable DEF TInv, BatchType, Pop, history
  <2>2. CASE batch' = Append(batch, r) /\ batchSize' = batchSize + SizeOf(r) /\ UNCHANGED popped
    BY <2>2, <1>1, Poppable DEF TInv, BatchType, Pop, history
  <2> QED
    BY <2>1, <2>2 DEF Pop
<1>4. LockInv'
  <2>1. CASE UNCHANGED <<batch, batchSize>> /\ popped' = r
    BY <2>1, Poppable DEF TInv, BatchType, LockInv, Pop, Export, Callers, Nobody
  <2>2. CASE batch' = Append(batch, r) /\ UNCHANGED <<exportVars, popped>>
    BY <2>2, Poppable DEF TInv, BatchType, LockInv, Pop, exportVars, call, Callers, Nobody
  <2> QED
    BY <2>1, <2>2 DEF Pop
<1>5. ShutdownInv'
  BY Poppable DEF TInv, ShutdownInv, shutdownCalled, Pop, Export, exportVars, history
<1>6. KnownInv'
  <2>1. UNCHANGED logOf /\ queue' = Tail(queue) /\ (UNCHANGED popped \/ popped' = Head(queue))
    BY DEF Pop
  <2> QED
    BY <2>1, Poppable DEF TInv, KnownInv
<1> QED
  BY <1>2, <1>3, <1>4, <1>5, <1>6 DEF TInv

LEMMA RestStep == ASSUME TInv, NEW c \in Callers, ExportRest(c) PROVE TInv'
<1>1. QueueType' /\ CallerType' /\ BatchType' /\ KnownInv'
  BY DEF TInv, QueueType, CallerType, BatchType, KnownInv, ExportRest, processor, locals, history
<1>2. LockInv'
  BY DEF TInv, LockInv, Callers, Nobody, ExportRest, Export, processor, locals
<1>3. ShutdownInv'
  BY DEF TInv, ShutdownInv, shutdownCalled, ExportRest, Export, processor, history
<1> QED
  BY <1>1, <1>2, <1>3 DEF TInv

LEMMA ReturnedStep == ASSUME TInv, NEW c \in Callers, ExportReturned(c) PROVE TInv'
<1>1. QueueType' /\ CallerType'
  BY DEF TInv, QueueType, CallerType, ExportReturned
<1>2. popped # NoRecord => SizeOf(popped) \in Nat
  <2> SUFFICES ASSUME popped # NoRecord PROVE SizeOf(popped) \in Nat
    OBVIOUS
  <2>1. popped \in DOMAIN logOf
    BY DEF TInv, QueueType, BatchType, KnownInv, Records
  <2>2. logOf[popped] \in Logs
    BY <2>1 DEF TInv, QueueType
  <2> QED
    BY <2>2, SizesAssumption DEF SizeOf
<1>3. sent' \in Seq(Records)
  BY DEF TInv, BatchType, ExportReturned
<1>4. BatchType'
  <2>1. CASE result = "raised"
    BY <1>3, <2>1 DEF TInv, BatchType, ExportReturned, NoRecord
  <2>2. CASE result # "raised" /\ popped = NoRecord
    BY <1>3, <2>2 DEF TInv, BatchType, ExportReturned
  <2>3. CASE result # "raised" /\ popped # NoRecord
    <3>1. batch' = <<popped>> /\ popped \in Records
      BY <2>3 DEF TInv, BatchType, ExportReturned
    <3>2. batch' \in Seq(Records)
      BY <3>1
    <3> QED
      BY <1>2, <1>3, <2>3, <3>2 DEF TInv, BatchType, ExportReturned, NoRecord
  <2> QED
    BY <2>1, <2>2, <2>3
<1>5. LockInv'
  <2>1. xpc' = "idle" /\ popped' = NoRecord /\ UNCHANGED <<cpc, holder, queue>>
    BY DEF ExportReturned, Return
  <2>2. holder # Nobody
    BY DEF TInv, CallerType, LockInv, ExportReturned, Callers, Nobody
  <2>3. left' <= Len(queue)
    <3>1. Len(queue) >= 0
      BY LenProperties DEF TInv, QueueType
    <3>2. left' = left \/ left' = 0
      BY DEF ExportReturned
    <3> QED
      BY <3>1, <3>2 DEF TInv, LockInv
  <2> QED
    BY <2>1, <2>2, <2>3 DEF TInv, LockInv
<1>6. ShutdownInv'
  BY DEF TInv, ShutdownInv, shutdownCalled, ExportReturned, Return
<1>7. KnownInv'
  BY LenProperties DEF TInv, QueueType, KnownInv, ExportReturned, NoRecord
<1> QED
  BY <1>1, <1>4, <1>5, <1>6, <1>7 DEF TInv

LEMMA TStep == TInv /\ [Next]_vars => TInv'
<1> SUFFICES ASSUME TInv, [Next]_vars PROVE TInv'
  OBVIOUS
<1>1. CASE Emit \/ AppendLeft
  BY <1>1, EmitStep, AppendStep
<1>2. CASE ForceFlush \/ Worker \/ Closing
  BY <1>2, OutsideStep
<1>3. CASE ExporterStep \/ ClockStep
  BY <1>3, ExporterKeeps
<1>4. ASSUME NEW c \in Callers, Caller(c) PROVE TInv'
  BY <1>4, AcquireStep, BeginStep, ReleaseStep, PopStep, RestStep, ReturnedStep DEF Caller, Exporting
<1>5. CASE UNCHANGED vars
  BY <1>5 DEF vars, processor, locals, history, exportVars, call, TInv, QueueType, CallerType, BatchType, LockInv,
              ShutdownInv, shutdownCalled, KnownInv
<1> QED
  BY <1>1, <1>2, <1>3, <1>4, <1>5 DEF Next

LEMMA TInductive == Spec => []TInv
  BY TInit, TStep, PTL DEF Spec

(* The deque never outgrows max_queue_size, and every local of _export     *)
(* keeps its type, whoever is in it.                                       *)
THEOREM TypeCorrect == Spec => []TypeOK
<1>1. TInv /\ ExportInv => TypeOK
  BY DEF TInv, QueueType, CallerType, BatchType, ExportInv, TypeOK
<1> QED
  BY <1>1, TInductive, ExporterInv, PTL

(* When the worker has gone, after shutdown, no record is left but those   *)
(* of the threads that were in emit, past the check of the flag, when it   *)
(* was called; and the exporter is not shut down before the worker's last  *)
(* export is over.                                                         *)
THEOREM ShutdownDrains == Spec => []Drained
<1>1. TInv => Drained
  <2> SUFFICES ASSUME TInv PROVE Drained
    OBVIOUS
  <2>1. emitting \in Nat /\ Len(logOf) \in Nat /\ \A i \in DOMAIN queue : queue[i] \in Nat
    BY LenProperties DEF TInv, QueueType, Records
  <2> QED
    BY <2>1 DEF TInv, ShutdownInv, KnownInv, Drained
<1> QED
  BY <1>1, TInductive, PTL

-----------------------------------------------------------------------------
(* Where each record is.                                                   *)

Increasing(s) == \A i, j \in DOMAIN s : i < j => s[i] < s[j]

(* A concatenation is increasing when its parts are, one below the other.  *)
LEMMA IncreasingConcat ==
  ASSUME NEW s \in Seq(Records), NEW t \in Seq(Records)
  PROVE  Increasing(s \o t) <=>
           /\ Increasing(s) /\ Increasing(t)
           /\ \A a \in Range(s), b \in Range(t) : a < b
<1>1. /\ s \o t \in Seq(Records) /\ Len(s \o t) = Len(s) + Len(t)
      /\ \A i \in 1..(Len(s) + Len(t)) : (s \o t)[i] = IF i <= Len(s) THEN s[i] ELSE t[i - Len(s)]
  BY ConcatProperties
<1>2. /\ Len(s) \in Nat /\ DOMAIN s = 1..Len(s) /\ \A i \in DOMAIN s : s[i] \in Int
      /\ Len(t) \in Nat /\ DOMAIN t = 1..Len(t) /\ \A i \in DOMAIN t : t[i] \in Int
      /\ DOMAIN (s \o t) = 1..(Len(s) + Len(t))
  BY <1>1, LenProperties DEF Records
<1>3. ASSUME Increasing(s \o t)
      PROVE  Increasing(s) /\ Increasing(t) /\ \A a \in Range(s), b \in Range(t) : a < b
  <2>1. Increasing(s)
    <3> SUFFICES ASSUME NEW i \in DOMAIN s, NEW j \in DOMAIN s, i < j PROVE s[i] < s[j]
      BY DEF Increasing
    <3>1. (s \o t)[i] = s[i] /\ (s \o t)[j] = s[j] /\ i \in DOMAIN (s \o t) /\ j \in DOMAIN (s \o t)
      BY <1>1, <1>2
    <3> QED
      BY <1>3, <3>1 DEF Increasing
  <2>2. Increasing(t)
    <3> SUFFICES ASSUME NEW i \in DOMAIN t, NEW j \in DOMAIN t, i < j PROVE t[i] < t[j]
      BY DEF Increasing
    <3>1. /\ (s \o t)[i + Len(s)] = t[i] /\ (s \o t)[j + Len(s)] = t[j]
          /\ i + Len(s) \in DOMAIN (s \o t) /\ j + Len(s) \in DOMAIN (s \o t) /\ i + Len(s) < j + Len(s)
      BY <1>1, <1>2
    <3> QED
      BY <1>3, <3>1 DEF Increasing
  <2>3. ASSUME NEW a \in Range(s), NEW b \in Range(t) PROVE a < b
    <3>1. PICK i \in DOMAIN s : a = s[i]
      BY DEF Range
    <3>2. PICK j \in DOMAIN t : b = t[j]
      BY DEF Range
    <3>3. /\ (s \o t)[i] = a /\ (s \o t)[j + Len(s)] = b
          /\ i \in DOMAIN (s \o t) /\ j + Len(s) \in DOMAIN (s \o t) /\ i < j + Len(s)
      BY <1>1, <1>2, <3>1, <3>2
    <3> QED
      BY <1>3, <3>3 DEF Increasing
  <2> QED
    BY <2>1, <2>2, <2>3
<1>4. ASSUME Increasing(s), Increasing(t), \A a \in Range(s), b \in Range(t) : a < b
      PROVE  Increasing(s \o t)
  <2> SUFFICES ASSUME NEW i \in DOMAIN (s \o t), NEW j \in DOMAIN (s \o t), i < j
               PROVE  (s \o t)[i] < (s \o t)[j]
    BY DEF Increasing
  <2>1. CASE j <= Len(s)
    <3>1. i \in DOMAIN s /\ j \in DOMAIN s /\ (s \o t)[i] = s[i] /\ (s \o t)[j] = s[j]
      BY <1>1, <1>2, <2>1
    <3> QED
      BY <1>4, <3>1 DEF Increasing
  <2>2. CASE i <= Len(s) /\ ~(j <= Len(s))
    <3>1. i \in DOMAIN s /\ j - Len(s) \in DOMAIN t /\ (s \o t)[i] = s[i] /\ (s \o t)[j] = t[j - Len(s)]
      BY <1>1, <1>2, <2>2
    <3> QED
      BY <1>4, <3>1 DEF Range
  <2>3. CASE ~(i <= Len(s))
    <3>1. /\ i - Len(s) \in DOMAIN t /\ j - Len(s) \in DOMAIN t /\ i - Len(s) < j - Len(s)
          /\ (s \o t)[i] = t[i - Len(s)] /\ (s \o t)[j] = t[j - Len(s)]
      BY <1>1, <1>2, <2>3
    <3> QED
      BY <1>4, <3>1 DEF Increasing
  <2> QED
    BY <1>2, <2>1, <2>2, <2>3
<1> QED
  BY <1>3, <1>4

LEMMA Concat ==
  ASSUME NEW s \in Seq(Records), NEW t \in Seq(Records)
  PROVE  s \o t \in Seq(Records) /\ Range(s \o t) = Range(s) \cup Range(t)
  BY ConcatProperties, RangeConcatenation

(* A single record, and a sequence taken apart at its head.                *)
LEMMA Single == ASSUME NEW r \in Records
                PROVE  <<r>> \in Seq(Records) /\ Increasing(<<r>>) /\ Range(<<r>>) = {r}
  BY DEF Increasing, Range

LEMMA Empty == <<>> \in Seq(Records) /\ Increasing(<<>>) /\ Range(<<>>) = {}
  BY DEF Increasing, Range

LEMMA HeadOn ==
  ASSUME NEW s \in Seq(Records), s # <<>>
  PROVE  Head(s) \in Records /\ Tail(s) \in Seq(Records) /\ <<Head(s)>> \o Tail(s) = s
<1>1. /\ Head(s) \in Records /\ Tail(s) \in Seq(Records) /\ Len(Tail(s)) = Len(s) - 1
      /\ \A i \in 1..Len(Tail(s)) : Tail(s)[i] = s[i + 1]
  BY HeadTailProperties
<1>2. Head(s) = s[1] /\ Len(s) \in Nat \ {0}
  BY EmptySeq
<1>3. <<Head(s)>> \in Seq(Records) /\ Len(<<Head(s)>>) = 1 /\ <<Head(s)>>[1] = Head(s)
  BY <1>1
<1>4. /\ <<Head(s)>> \o Tail(s) \in Seq(Records) /\ Len(<<Head(s)>> \o Tail(s)) = Len(s)
      /\ \A i \in 1..Len(s) : (<<Head(s)>> \o Tail(s))[i] = IF i <= 1 THEN Head(s) ELSE Tail(s)[i - 1]
  BY <1>1, <1>2, <1>3, ConcatProperties
<1>5. \A i \in 1..Len(s) : (<<Head(s)>> \o Tail(s))[i] = s[i]
  BY <1>1, <1>2, <1>4
<1> QED
  BY <1>1, <1>4, <1>5, SeqEqual

(* The records that left the queue, and those still in it.                 *)
Ahead == (sent \o batch) \o Waiting
Line  == Ahead \o queue

LineInv ==
  /\ Increasing(Line)
  /\ 1..Len(logOf) = Range(Line) \cup overflown \cup spilled
  /\ IsFiniteSet(spilled) /\ raises \in Nat /\ Cardinality(spilled) <= raises

LEMMA LineInit == Init => LineInv
<1> SUFFICES ASSUME Init PROVE LineInv
  OBVIOUS
<1>1. sent = <<>> /\ batch = <<>> /\ Waiting = <<>> /\ queue = <<>>
  BY DEF Init, Waiting
<1>2. Line = <<>>
  BY <1>1, Empty, ConcatEmptySeq DEF Line, Ahead
<1>3. 1..Len(logOf) = {} /\ overflown = {} /\ spilled = {} /\ raises = 0
  BY DEF Init
<1>4. Range(Line) = {} /\ Increasing(Line)
  BY <1>2, Empty
<1>5. IsFiniteSet(spilled) /\ Cardinality(spilled) = 0
  BY <1>3, FS_EmptySet, Zenon
<1> QED
  BY <1>3, <1>4, <1>5 DEF LineInv

(* Waiting and the front are sequences of records.                         *)
LEMMA LineType ==
  ASSUME TInv
  PROVE  /\ Waiting \in Seq(Records) /\ Range(Waiting) = {popped} \ {NoRecord}
         /\ sent \o batch \in Seq(Records) /\ Ahead \in Seq(Records)
<1>1. sent \in Seq(Records) /\ batch \in Seq(Records) /\ popped \in Records \cup {NoRecord}
  BY DEF TInv, BatchType
<1>2. Waiting \in Seq(Records) /\ Range(Waiting) = {popped} \ {NoRecord}
  <2>1. CASE popped = NoRecord
    BY <2>1, Empty DEF Waiting
  <2>2. CASE popped # NoRecord
    BY <1>1, <2>2, Single DEF Waiting
  <2> QED
    BY <2>1, <2>2
<1>3. sent \o batch \in Seq(Records)
  BY <1>1, ConcatProperties
<1> QED
  BY <1>2, <1>3, ConcatProperties DEF Ahead

(* The record is the last of the line; if the queue was full, its oldest   *)
(* has left the line.                                                      *)
LEMMA AppendLine == TInv /\ LineInv /\ AppendLeft => LineInv'
<1> SUFFICES ASSUME TInv, LineInv, AppendLeft PROVE LineInv'
  OBVIOUS
<1> DEFINE e == Len(logOf')
<1>1. e \in Records /\ queue \in Seq(Records) /\ Ahead \in Seq(Records)
  BY LineType, Appended DEF TInv, QueueType
<1>2. /\ Ahead' = Ahead /\ UNCHANGED <<spilled, raises>>
      /\ 1..e = 1..Len(logOf) \cup {e} /\ \A r \in Range(Line) : r < e
  <2>1. Len(logOf) \in Nat /\ e = Len(logOf) + 1
    BY Appended DEF TInv
  <2>2. Range(Line) \subseteq 1..Len(logOf)
    BY DEF LineInv
  <2>3. Ahead' = Ahead /\ UNCHANGED <<spilled, raises>>
    BY DEF AppendLeft, Ahead, Waiting, locals
  <2> QED
    BY <2>1, <2>2, <2>3
<1> HIDE DEF e
<1>3. /\ Increasing(Ahead) /\ Increasing(queue) /\ \A a \in Range(Ahead), b \in Range(queue) : a < b
      /\ Range(Line) = Range(Ahead) \cup Range(queue)
  BY <1>1, IncreasingConcat, Concat DEF LineInv, Line
<1>4. ASSUME NEW q \in Seq(Records), Increasing(q), Range(q) \subseteq Range(queue), queue' = Append(q, e)
      PROVE  Increasing(Line') /\ Range(Line') = Range(Ahead) \cup Range(q) \cup {e}
  <2>1. queue' = q \o <<e>>
    BY <1>1, <1>4, AppendIsConcat
  <2>2. \A a \in Range(q), b \in Range(<<e>>) : a < b
    BY <1>1, <1>2, <1>3, <1>4, Single
  <2>3. queue' \in Seq(Records) /\ Increasing(queue') /\ Range(queue') = Range(q) \cup {e}
    <3>1. <<e>> \in Seq(Records) /\ Increasing(<<e>>) /\ Range(<<e>>) = {e}
      BY <1>1, Single
    <3>2. q \o <<e>> \in Seq(Records) /\ Range(q \o <<e>>) = Range(q) \cup Range(<<e>>)
      BY <3>1, Concat
    <3>3. Increasing(q \o <<e>>)
      BY <1>4, <2>2, <3>1, IncreasingConcat
    <3> QED
      BY <2>1, <3>1, <3>2, <3>3
  <2>4. \A a \in Range(Ahead), b \in Range(queue') : a < b
    BY <1>2, <1>3, <1>4, <2>3
  <2> QED
    BY <1>1, <1>2, <1>3, <2>3, <2>4, IncreasingConcat, Concat DEF Line
<1>5. CASE Len(queue) = MaxQueue
  <2>1. queue # <<>>
    BY <1>5, EmptySeq
  <2>2. /\ queue' = Append(Tail(queue), e) /\ overflown' = overflown \cup {Head(queue)}
        /\ Head(queue) \in Records /\ Tail(queue) \in Seq(Records) /\ <<Head(queue)>> \o Tail(queue) = queue
    BY <1>1, <1>5, <2>1, HeadOn DEF AppendLeft, e
  <2>3. Increasing(Tail(queue)) /\ Range(queue) = {Head(queue)} \cup Range(Tail(queue))
    <3>1. <<Head(queue)>> \in Seq(Records) /\ Range(<<Head(queue)>>) = {Head(queue)}
      BY <2>2, Single
    <3>2. Range(<<Head(queue)>> \o Tail(queue)) = {Head(queue)} \cup Range(Tail(queue))
      BY <2>2, <3>1, Concat
    <3>3. Increasing(Tail(queue))
      BY ZenonT(60), <1>3, <2>2, <3>1, IncreasingConcat
    <3> QED
      BY <2>2, <3>2, <3>3
  <2>4. Increasing(Line') /\ Range(Line') = Range(Ahead) \cup Range(Tail(queue)) \cup {e}
    BY <1>4, <2>2, <2>3
  <2> QED
    BY <1>2, <1>3, <2>2, <2>3, <2>4 DEF LineInv, e
<1>6. CASE Len(queue) # MaxQueue
  <2>1. queue' = Append(queue, e) /\ overflown' = overflown
    BY <1>6 DEF AppendLeft, e
  <2>2. Increasing(Line') /\ Range(Line') = Range(Ahead) \cup Range(queue) \cup {e}
    BY <1>1, <1>3, <1>4, <2>1
  <2> QED
    BY <1>2, <1>3, <2>1, <2>2 DEF LineInv, e
<1> QED
  BY <1>5, <1>6

(* The popped record joins the batch or waits: the line is the same.       *)
LEMMA PopLine == ASSUME TInv, LineInv, NEW c \in Callers, Pop(c) PROVE LineInv'
<1> DEFINE r == Head(queue)
<1>1. /\ queue \in Seq(Records) /\ sent \in Seq(Records) /\ batch \in Seq(Records) /\ r \in Records
      /\ sent \o batch \in Seq(Records)
      /\ Tail(queue) \in Seq(Records) /\ <<r>> \in Seq(Records) /\ queue = <<r>> \o Tail(queue)
  BY Poppable, LineType, HeadOn, Single DEF TInv, QueueType, BatchType
<1>2. popped = NoRecord /\ queue' = Tail(queue) /\ UNCHANGED <<logOf, history>>
  BY DEF Pop
<1>3. Ahead = sent \o batch
  BY <1>1, <1>2, ConcatEmptySeq DEF Ahead, Waiting
<1>4. Ahead' = Ahead \o <<r>>
  <2>1. CASE popped' = r /\ UNCHANGED batch
    <3>1. Waiting' = <<r>> /\ sent' = sent
      BY <1>1, <1>2, <2>1 DEF Waiting, NoRecord, Records, history
    <3> QED
      BY <1>3, <2>1, <3>1 DEF Ahead
  <2>2. CASE batch' = Append(batch, r) /\ UNCHANGED popped
    <3>1. Waiting' = <<>> /\ sent' = sent /\ batch' = batch \o <<r>>
      BY <1>1, <1>2, <2>2, AppendIsConcat DEF Waiting, history
    <3>2. sent \o (batch \o <<r>>) = (sent \o batch) \o <<r>>
      BY <1>1, ConcatAssociative
    <3>3. ((sent \o batch) \o <<r>>) \o <<>> = (sent \o batch) \o <<r>>
      BY <1>1, ConcatProperties, ConcatEmptySeq
    <3> QED
      BY <1>3, <3>1, <3>2, <3>3 DEF Ahead
  <2> QED
    BY <2>1, <2>2 DEF Pop
<1>5. Line' = Line
  BY SMTT(30), <1>1, <1>2, <1>3, <1>4, ConcatAssociative DEF Line
<1> QED
  BY <1>2, <1>5 DEF LineInv, history

(* The batch has left; the record that waited begins the next, or left the *)
(* line with the exception.                                                *)
LEMMA ReturnedLine == ASSUME TInv, LineInv, NEW c \in Callers, ExportReturned(c) PROVE LineInv'
<1>1. /\ queue \in Seq(Records) /\ sent \o batch \in Seq(Records) /\ Ahead \in Seq(Records)
      /\ Waiting \in Seq(Records) /\ Range(Waiting) = {popped} \ {NoRecord}
  BY LineType DEF TInv, QueueType
<1>2. /\ sent' = sent \o batch /\ popped' = NoRecord /\ Waiting' = <<>>
      /\ UNCHANGED <<queue, logOf, overflown>>
  BY DEF ExportReturned, Waiting
<1>3. CASE result = "raised"
  <2>1. /\ batch' = <<>> /\ raises' = raises + 1 /\ spilled' = spilled \cup ({popped} \ {NoRecord})
    BY <1>3 DEF ExportReturned
  <2>2. Ahead' = sent \o batch
    BY <1>1, <1>2, <2>1, ConcatEmptySeq DEF Ahead
  <2>3. /\ Increasing(sent \o batch) /\ Increasing(queue)
        /\ Range(Ahead) = Range(sent \o batch) \cup ({popped} \ {NoRecord})
        /\ \A a \in Range(Ahead), b \in Range(queue) : a < b
        /\ Range(Line) = Range(Ahead) \cup Range(queue)
    <3>1. /\ Increasing(Ahead) /\ Increasing(queue) /\ \A a \in Range(Ahead), b \in Range(queue) : a < b
          /\ Range(Line) = Range(Ahead) \cup Range(queue)
      <4>1. Increasing(Ahead \o queue) /\ Line = Ahead \o queue
        BY DEF LineInv, Line
      <4> QED
        BY <1>1, <4>1, IncreasingConcat, Concat
    <3>2. Increasing(sent \o batch) /\ Range(Ahead) = Range(sent \o batch) \cup ({popped} \ {NoRecord})
      <4>1. Increasing((sent \o batch) \o Waiting) /\ Ahead = (sent \o batch) \o Waiting
        BY <3>1 DEF Ahead
      <4>2. Range(Ahead) = Range(sent \o batch) \cup Range(Waiting)
        BY <1>1, <4>1, Concat
      <4> QED
        BY <1>1, <4>1, <4>2, IncreasingConcat
    <3> QED
      BY <3>1, <3>2
  <2>4. Increasing(Line') /\ Range(Line') = Range(sent \o batch) \cup Range(queue)
    BY <1>1, <1>2, <2>2, <2>3, IncreasingConcat, Concat DEF Line
  <2>5. IsFiniteSet(spilled') /\ raises' \in Nat /\ Cardinality(spilled') <= raises'
    <3>1. IsFiniteSet(spilled) /\ raises \in Nat /\ Cardinality(spilled) \in Nat /\ Cardinality(spilled) <= raises
      BY FS_CardinalityType DEF LineInv
    <3>2. CASE popped = NoRecord
      <4>1. spilled' = spilled
        BY <2>1, <3>2
      <4>2. IsFiniteSet(spilled') /\ Cardinality(spilled') = Cardinality(spilled)
        BY <3>1, <4>1, Zenon
      <4> QED
        BY <2>1, <3>1, <4>2
    <3>3. CASE popped # NoRecord
      <4>1. spilled' = spilled \cup {popped}
        BY <2>1, <3>3
      <4>2. /\ IsFiniteSet(spilled')
            /\ Cardinality(spilled') = IF popped \in spilled THEN Cardinality(spilled) ELSE Cardinality(spilled) + 1
        BY <3>1, <4>1, FS_AddElement, Zenon
      <4> QED
        BY <2>1, <3>1, <4>2
    <3> QED
      BY <3>2, <3>3
  <2> QED
    BY <1>2, <2>1, <2>3, <2>4, <2>5 DEF LineInv
<1>4. CASE result # "raised"
  <2>1. batch' = Waiting /\ UNCHANGED <<raises, spilled>>
    BY <1>4 DEF ExportReturned, Waiting
  <2>2. Ahead' = Ahead
    BY <1>1, <1>2, <2>1, ConcatEmptySeq DEF Ahead
  <2> QED
    BY <1>2, <2>1, <2>2 DEF LineInv, Line
<1> QED
  BY <1>3, <1>4

LEMMA LineStep == TInv /\ LineInv /\ [Next]_vars => LineInv'
<1> SUFFICES ASSUME TInv, LineInv, [Next]_vars PROVE LineInv'
  OBVIOUS
<1>1. CASE AppendLeft
  BY <1>1, AppendLine
<1>2. ASSUME NEW c \in Callers, Pop(c) \/ ExportReturned(c) PROVE LineInv'
  BY <1>2, PopLine, ReturnedLine
<1>3. CASE UNCHANGED <<queue, logOf, batch, popped, sent, overflown, spilled, raises>>
  BY <1>3 DEF LineInv, Line, Ahead, Waiting
<1>4. CASE Emit \/ ForceFlush \/ Worker \/ Closing
  BY <1>3, <1>4 DEF Emit, ForceFlush, Worker, Wake, Clear, Closing, Shutdown, Joined, Closed, locals, history
<1>5. CASE ExporterStep \/ ClockStep \/ UNCHANGED vars
  BY <1>3, <1>5 DEF ExporterStep, ClockStep, vars, processor, locals, history
<1>6. ASSUME NEW c \in Callers, Acquire(c) \/ BeginBatch(c) \/ Release(c) \/ ExportRest(c) PROVE LineInv'
  BY <1>3, <1>6 DEF Acquire, BeginBatch, Release, ExportRest, processor, locals, history
<1> QED
  BY <1>1, <1>2, <1>4, <1>5, <1>6 DEF Next, Caller, Exporting

(* Every record that emit appended is sent, in the batch, about to be or   *)
(* waiting, once and in the order of the appending; or it was dropped by   *)
(* the full queue, or lost with an exception, which takes one at most.     *)
THEOREM RecordLineage == Spec => []Lineage
<1>1. Spec => []LineInv
  BY LineInit, LineStep, TInductive, PTL DEF Spec
<1>2. TInv /\ LineInv => Lineage
  <2> SUFFICES ASSUME TInv, LineInv PROVE Lineage
    OBVIOUS
  <2>1. Line = sent \o batch \o Waiting \o queue
    BY DEF Line, Ahead
  <2>2. \A i, j \in DOMAIN Line : i < j => Line[i] < Line[j]
    BY DEF LineInv, Increasing
  <2>3. 1..Len(logOf) = {Line[i] : i \in DOMAIN Line} \cup overflown \cup spilled
    BY DEF LineInv, Range
  <2> QED
    BY <2>1, <2>2, <2>3 DEF LineInv, Lineage
<1> QED
  BY <1>1, <1>2, TInductive, PTL

-----------------------------------------------------------------------------
(* The size of a request.                                                  *)

(* The running size is the sum of the estimates of the batch, and only a   *)
(* batch of one record may exceed the limit.                               *)
FitInv ==
  /\ \A i \in DOMAIN batch : batch[i] \in DOMAIN logOf
  /\ batchSize = Bytes(EstimateOf)
  /\ Len(batch) > 1 => batchSize <= MaxBytes

Sizes(size, b) == [i \in DOMAIN b |-> size[logOf[b[i]]]]

(* A batch has finitely many records, each of a size.                      *)
LEMMA SizesFacts ==
  ASSUME TInv, NEW b \in Seq(Records), \A i \in DOMAIN b : b[i] \in DOMAIN logOf
  PROVE  /\ IsFiniteSet(DOMAIN b) /\ DOMAIN b = 1..Len(b) /\ Len(b) \in Nat
         /\ \A i \in DOMAIN b : /\ logOf[b[i]] \in Logs
                               /\ Sizes(EstimateOf, b)[i] = SizeOf(b[i]) /\ Sizes(EstimateOf, b)[i] \in Nat
                               /\ Sizes(WrittenOf, b)[i] = WrittenOf[logOf[b[i]]] /\ Sizes(WrittenOf, b)[i] \in Nat
<1>1. DOMAIN b = 1..Len(b) /\ Len(b) \in Nat
  BY LenProperties
<1>2. IsFiniteSet(DOMAIN b)
  <2>1. 1 \in Int /\ Len(b) \in Int
    BY <1>1
  <2>2. IsFiniteSet(1..Len(b))
    BY <2>1, FS_Interval, Zenon
  <2> QED
    BY <1>1, <2>2
<1>3. ASSUME NEW i \in DOMAIN b
      PROVE  /\ logOf[b[i]] \in Logs
             /\ Sizes(EstimateOf, b)[i] = SizeOf(b[i]) /\ Sizes(EstimateOf, b)[i] \in Nat
             /\ Sizes(WrittenOf, b)[i] = WrittenOf[logOf[b[i]]] /\ Sizes(WrittenOf, b)[i] \in Nat
  <2>1. logOf[b[i]] \in Logs
    BY <1>3 DEF TInv, QueueType
  <2> QED
    BY <1>3, <2>1, SizesAssumption DEF Sizes, SizeOf
<1> QED
  BY <1>1, <1>2, <1>3

(* One record more adds its estimate.                                      *)
LEMMA SizesAppend ==
  ASSUME TInv, NEW b \in Seq(Records), \A i \in DOMAIN b : b[i] \in DOMAIN logOf,
         NEW r \in Records, r \in DOMAIN logOf
  PROVE  /\ Append(b, r) \in Seq(Records) /\ \A i \in DOMAIN Append(b, r) : Append(b, r)[i] \in DOMAIN logOf
         /\ Total(Sizes(EstimateOf, Append(b, r)), DOMAIN Append(b, r))
              = Total(Sizes(EstimateOf, b), DOMAIN b) + SizeOf(r)
<1> DEFINE a == Append(b, r)
           n == Len(b) + 1
<1>1. IsFiniteSet(DOMAIN b) /\ DOMAIN b = 1..Len(b) /\ Len(b) \in Nat
  BY SizesFacts
<1>2. /\ a \in Seq(Records) /\ DOMAIN a = 1..n /\ a[n] = r /\ n \in Nat /\ \A i \in DOMAIN b : a[i] = b[i]
  BY <1>1, AppendProperties
<1>3. DOMAIN a = DOMAIN b \cup {n} /\ n \notin DOMAIN b
  BY <1>1, <1>2
<1> HIDE DEF a, n
<1>4. \A i \in DOMAIN a : a[i] \in DOMAIN logOf
  BY <1>2, <1>3
<1>5. \A i \in DOMAIN a : Sizes(EstimateOf, a)[i] = SizeOf(a[i]) /\ Sizes(EstimateOf, a)[i] \in Nat
  BY <1>2, <1>4, SizesFacts
<1>6. \A i \in DOMAIN b : Sizes(EstimateOf, b)[i] = SizeOf(b[i])
  BY SizesFacts
<1>7. Total(Sizes(EstimateOf, a), DOMAIN b \cup {n}) = Total(Sizes(EstimateOf, a), DOMAIN b) + Sizes(EstimateOf, a)[n]
  BY <1>1, <1>3, <1>5, TotalAdd
<1>8. Total(Sizes(EstimateOf, a), DOMAIN b) = Total(Sizes(EstimateOf, b), DOMAIN b)
  <2>1. \A i \in DOMAIN b : Sizes(EstimateOf, a)[i] = Sizes(EstimateOf, b)[i]
    BY <1>2, <1>3, <1>5, <1>6
  <2> QED
    BY <2>1, TotalSame
<1>9. Sizes(EstimateOf, a)[n] = SizeOf(r)
  BY <1>2, <1>3, <1>5
<1>10. Total(Sizes(EstimateOf, a), DOMAIN a) = Total(Sizes(EstimateOf, b), DOMAIN b) + SizeOf(r)
  BY <1>3, <1>7, <1>8, <1>9
<1> QED
  BY <1>2, <1>4, <1>10 DEF a

(* An empty batch, and a batch of one.                                     *)
LEMMA SizesFew ==
  ASSUME TInv
  PROVE  /\ Total(Sizes(EstimateOf, <<>>), DOMAIN <<>>) = 0
         /\ \A r \in DOMAIN logOf : Total(Sizes(EstimateOf, <<r>>), DOMAIN <<r>>) = SizeOf(r)
<1>1. DOMAIN <<>> = {}
  OBVIOUS
<1>2. Total(Sizes(EstimateOf, <<>>), DOMAIN <<>>) = 0
  BY <1>1, TotalEmpty
<1>3. ASSUME NEW r \in DOMAIN logOf PROVE Total(Sizes(EstimateOf, <<r>>), DOMAIN <<r>>) = SizeOf(r)
  <2>1. r \in Records /\ <<>> \in Seq(Records) /\ Append(<<>>, r) = <<r>>
    <3>1. r \in 1..Len(logOf) /\ Len(logOf) \in Nat /\ Len(logOf) <= MaxRecords
      BY LenProperties DEF TInv, QueueType
    <3> QED
      BY <3>1 DEF Records
  <2>2. SizeOf(r) \in Nat
    BY SizesAssumption DEF SizeOf, TInv, QueueType
  <2>3. \A i \in DOMAIN <<>> : <<>>[i] \in DOMAIN logOf
    BY <1>1
  <2>4. Total(Sizes(EstimateOf, Append(<<>>, r)), DOMAIN Append(<<>>, r))
          = Total(Sizes(EstimateOf, <<>>), DOMAIN <<>>) + SizeOf(r)
    BY <2>1, <2>3, SizesAppend
  <2>5. Total(Sizes(EstimateOf, <<r>>), DOMAIN <<r>>) = 0 + SizeOf(r)
    BY <1>2, <2>1, <2>4, Zenon
  <2> QED
    BY <2>2, <2>5
<1> QED
  BY <1>2, <1>3

(* What leaves the batch alone, whatever records are emitted.              *)
LEMMA FitKept ==
  ASSUME TInv, FitInv, UNCHANGED <<batch, batchSize>>,
         \A r \in DOMAIN logOf : r \in DOMAIN logOf' /\ logOf'[r] = logOf[r]
  PROVE  FitInv'
<1>1. \A i \in DOMAIN batch : EstimateOf[logOf'[batch[i]]] = EstimateOf[logOf[batch[i]]]
  BY DEF FitInv
<1>2. Bytes(EstimateOf)' = Bytes(EstimateOf)
  <2> DEFINE f == [i \in DOMAIN batch |-> EstimateOf[logOf[batch[i]]]]
             g == [i \in DOMAIN batch |-> EstimateOf[logOf'[batch[i]]]]
  <2>1. f = g
    BY <1>1
  <2>2. Bytes(EstimateOf) = Total(f, DOMAIN batch) /\ Bytes(EstimateOf)' = Total(g, DOMAIN batch)
    BY DEF Bytes
  <2> QED
    BY <2>1, <2>2
<1> QED
  BY <1>2 DEF FitInv

LEMMA FitStep == TInv /\ FitInv /\ [Next]_vars => FitInv'
<1> SUFFICES ASSUME TInv, FitInv, [Next]_vars PROVE FitInv'
  OBVIOUS
<1>0. batch \in Seq(Records) /\ logOf \in Seq(Logs) /\ (\A i \in DOMAIN batch : batch[i] \in DOMAIN logOf)
      /\ Len(batch) \in Nat /\ batchSize \in Nat /\ MaxBytes \in Nat
  BY LenProperties, SizesAssumption DEF TInv, QueueType, BatchType, FitInv
<1>a. \A size : Bytes(size) = Total(Sizes(size, batch), DOMAIN batch)
  BY DEF Bytes, Sizes
<1>b. logOf' = logOf => \A size : Bytes(size)' = Total(Sizes(size, batch'), DOMAIN batch')
  BY DEF Bytes, Sizes
<1>1. CASE AppendLeft
  <2>1. PICK l \in Logs : logOf' = Append(logOf, l)
    BY <1>1 DEF AppendLeft
  <2>2. \A r \in DOMAIN logOf : r \in DOMAIN logOf' /\ logOf'[r] = logOf[r]
    BY <1>0, <2>1, AppendProperties
  <2> QED
    BY <1>1, <2>2, FitKept DEF AppendLeft, locals
<1>2. CASE Emit \/ ForceFlush \/ Worker \/ Closing \/ ExporterStep \/ ClockStep \/ UNCHANGED vars
  <2>1. UNCHANGED <<batch, batchSize, logOf>>
    BY <1>2 DEF Emit, ForceFlush, Worker, Wake, Clear, Closing, Shutdown, Joined, Closed, ExporterStep,
                ClockStep, vars, processor, locals
  <2> QED
    BY <2>1, FitKept
<1>3. ASSUME NEW c \in Callers, Acquire(c) \/ Release(c) \/ ExportRest(c) PROVE FitInv'
  <2>1. UNCHANGED <<batch, batchSize, logOf>>
    BY <1>3 DEF Acquire, Release, ExportRest, processor, locals
  <2> QED
    BY <2>1, FitKept
<1>4. ASSUME NEW c \in Callers, BeginBatch(c) PROVE FitInv'
  <2>1. batch = <<>> /\ batch' = <<>> /\ batchSize' = 0 /\ logOf' = logOf
    BY <1>4 DEF BeginBatch, AtLoop
  <2>2. Bytes(EstimateOf)' = 0
    BY <1>b, <2>1, SizesFew
  <2> QED
    BY <1>0, <2>1, <2>2 DEF FitInv
<1>5. ASSUME NEW c \in Callers, Pop(c) PROVE FitInv'
  <2> DEFINE r == Head(queue)
  <2>1. logOf' = logOf /\ r \in Records /\ r \in DOMAIN logOf
    BY <1>5, Poppable DEF Pop, TInv, QueueType, KnownInv, Records
  <2>2. SizeOf(r) \in Nat
    BY <2>1, SizesAssumption DEF SizeOf, TInv, QueueType
  <2> HIDE DEF r
  <2>3. CASE UNCHANGED <<batch, batchSize>>
    BY <2>1, <2>3, FitKept
  <2>4. CASE batch' = Append(batch, r) /\ batchSize' = batchSize + SizeOf(r)
             /\ ~(batch # <<>> /\ batchSize + SizeOf(r) > MaxBytes)
    <3>1. /\ \A i \in DOMAIN batch' : batch'[i] \in DOMAIN logOf'
          /\ Bytes(EstimateOf)' = Bytes(EstimateOf) + SizeOf(r)
      BY <1>0, <1>a, <1>b, <2>1, <2>4, SizesAppend
    <3>2. Len(batch') > 1 => batchSize' <= MaxBytes
      <4>1. Len(batch') = Len(batch) + 1
        BY <1>0, <2>1, <2>4, AppendProperties
      <4>2. Len(batch') > 1 => batch # <<>>
        BY <1>0, <4>1, EmptySeq
      <4> QED
        BY <1>0, <2>2, <2>4, <4>2
    <3> QED
      BY <2>4, <3>1, <3>2 DEF FitInv
  <2> QED
    BY <1>5, <2>3, <2>4 DEF Pop, r
<1>6. ASSUME NEW c \in Callers, ExportReturned(c) PROVE FitInv'
  <2>1. logOf' = logOf
    BY <1>6 DEF ExportReturned
  <2>2. CASE batch' = <<>> /\ batchSize' = 0
    <3>1. Bytes(EstimateOf)' = 0
      BY <1>b, <2>1, <2>2, SizesFew
    <3> QED
      BY <1>0, <2>2, <3>1 DEF FitInv
  <2>3. CASE popped # NoRecord /\ batch' = <<popped>> /\ batchSize' = SizeOf(popped)
    <3>1. popped \in DOMAIN logOf
      BY <1>0, <2>3, LenProperties DEF TInv, BatchType, KnownInv, Records, NoRecord
    <3>2. Bytes(EstimateOf)' = SizeOf(popped)
      BY <1>b, <2>1, <2>3, <3>1, SizesFew
    <3>3. Len(batch') = 1 /\ \A i \in DOMAIN batch' : batch'[i] = popped
      BY <2>3
    <3> QED
      BY <2>1, <2>3, <3>1, <3>2, <3>3 DEF FitInv
  <2> QED
    BY <1>6, <2>2, <2>3 DEF ExportReturned
<1> QED
  BY <1>1, <1>2, <1>3, <1>4, <1>5, <1>6 DEF Next, Caller, Exporting

(* A request of several plain records is no larger than the limit of a     *)
(* request, whatever the records, their number and their sizes.            *)
THEOREM RequestsFit == Spec => []RequestFits
<1>1. Init => FitInv
  <2> SUFFICES ASSUME Init PROVE FitInv
    OBVIOUS
  <2>1. batch = <<>> /\ batchSize = 0 /\ DOMAIN <<>> = {} /\ Len(<<>>) = 0
    BY DEF Init
  <2>2. Bytes(EstimateOf) = 0
    BY <2>1, TotalEmpty DEF Bytes
  <2> QED
    BY <2>1, <2>2 DEF FitInv
<1>2. TInv /\ FitInv => RequestFits
  <2> SUFFICES ASSUME TInv, FitInv, Len(batch) > 1, \A i \in DOMAIN batch : Plain(logOf[batch[i]])
               PROVE  Bytes(WrittenOf) <= MaxBytes
    BY DEF RequestFits
  <2>1. batch \in Seq(Records) /\ batchSize <= MaxBytes /\ batchSize \in Nat /\ MaxBytes \in Nat
    BY SizesAssumption DEF TInv, BatchType, FitInv
  <2>2. \A size : Bytes(size) = Total(Sizes(size, batch), DOMAIN batch)
    BY DEF Bytes, Sizes
  <2>3. /\ IsFiniteSet(DOMAIN batch)
        /\ \A i \in DOMAIN batch : /\ Sizes(EstimateOf, batch)[i] \in Nat /\ Sizes(WrittenOf, batch)[i] \in Nat
                                  /\ Sizes(WrittenOf, batch)[i] <= Sizes(EstimateOf, batch)[i]
    BY <2>1, SizesFacts DEF FitInv, Plain, SizeOf
  <2>4. Bytes(WrittenOf) <= Bytes(EstimateOf)
    BY <2>2, <2>3, TotalOrder
  <2>5. Bytes(WrittenOf) \in Nat
    BY <2>2, <2>3, TotalType
  <2> QED
    BY <2>1, <2>4, <2>5 DEF FitInv
<1> QED
  BY <1>1, <1>2, FitStep, TInductive, PTL DEF Spec
=============================================================================
