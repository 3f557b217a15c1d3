---------------------------- MODULE LogProcessor ----------------------------
(***************************************************************************)
(* AwsCloudWatchOtlpBatchLogRecordProcessor over OTLPAwsLogExporter: the   *)
(* queue that applications fill, the worker and a caller of force_flush    *)
(* that empty it under the export lock, in requests cut by size, and the   *)
(* shutdown of both.  emit, worker and shutdown are those of the SDK's     *)
(* BatchLogRecordProcessor.                                                *)
(***************************************************************************)
EXTENDS OtlpLogsExport, LogSize, Totals

CONSTANTS MaxRecords,  \* bound on the records emitted
          MaxQueue,    \* max_queue_size
          MaxBatch     \* max_export_batch_size

ASSUME QueueAssumption ==
  MaxBatch \in Nat \ {0} /\ MaxQueue \in Nat /\ MaxQueue >= MaxBatch /\ MaxRecords \in Nat

Callers  == {"worker", "flush"}
Nobody   == "nobody"
NoRecord == 0

VARIABLES
  queue,      \* the deque, oldest first
  logOf,      \* the log of each record, numbered as emit appended them
  emitting,   \* how many threads are between emit's check of the flag and its append
  cpc,        \* of each caller: "idle" ("sleep" of the worker), "lock", "batch", "clear", "done"
  strategy,   \* batch_strategy of each caller
  awaken,     \* _worker_awaken
  closing,    \* shutdown: "no", "join", "exporter" or "closed"
  holder,     \* _export_lock
  \* locals of _export, of the holder
  iteration, left, batch, batchSize, popped

(* History: how records left.                                              *)
VARIABLES sent, overflown, spilled, raises,
          before, stragglers  \* when shutdown was called: the records there were, and `emitting`

locals    == <<iteration, left, batch, batchSize, popped>>
history   == <<sent, overflown, spilled, raises, before, stragglers>>
processor == <<queue, logOf, emitting, cpc, strategy, awaken, closing, holder, locals, history>>
vars      == <<exportVars, processor>>

shutdownCalled == closing # "no"   \* _shutdown

Init ==
  /\ ExportInit
  /\ queue = <<>> /\ logOf = <<>> /\ emitting = 0
  /\ cpc = [c \in Callers |-> "idle"]
  /\ strategy = [c \in Callers |-> "one"]
  /\ awaken = FALSE /\ closing = "no" /\ holder = Nobody
  /\ iteration = 0 /\ left = 0 /\ batch = <<>> /\ batchSize = 0 /\ popped = NoRecord
  /\ sent = <<>> /\ overflown = {} /\ spilled = {} /\ raises = 0 /\ before = 0 /\ stragglers = 0

-----------------------------------------------------------------------------
(* The application.                                                        *)

Emit ==
  /\ ~shutdownCalled
  /\ Len(logOf) + emitting < MaxRecords
  /\ emitting' = emitting + 1
  /\ UNCHANGED <<exportVars, queue, logOf, cpc, strategy, awaken, closing, holder, locals, history>>

(* Mutant: a deque without maxlen.                                         *)
AppendUnbounded ==
  /\ emitting > 0
  /\ emitting' = emitting - 1
  /\ \E l \in Logs : logOf' = Append(logOf, l)
  /\ queue' = Append(queue, Len(logOf'))
  /\ awaken' = (awaken \/ Len(queue') >= MaxBatch)
  /\ UNCHANGED <<exportVars, cpc, strategy, closing, holder, locals, history>>

(* One of the threads in emit appends; a full deque drops its oldest.      *)
AppendLeft ==
  /\ emitting > 0
  /\ emitting' = emitting - 1
  /\ \E l \in Logs : logOf' = Append(logOf, l)
  /\ IF Len(queue) = MaxQueue
       THEN queue' = Append(Tail(queue), Len(logOf')) /\ overflown' = overflown \cup {Head(queue)}
       ELSE queue' = Append(queue, Len(logOf')) /\ UNCHANGED overflown
  /\ awaken' = (awaken \/ Len(queue') >= MaxBatch)
  /\ UNCHANGED <<exportVars, cpc, strategy, closing, holder, locals, sent, spilled, raises, before, stragglers>>

-----------------------------------------------------------------------------
(* Who wants to export.                                                    *)

ForceFlush ==
  /\ cpc["flush"] = "idle"
  /\ ~shutdownCalled
  /\ cpc' = [cpc EXCEPT !["flush"] = "lock"]
  /\ strategy' = [strategy EXCEPT !["flush"] = "one"]
  /\ UNCHANGED <<exportVars, queue, logOf, emitting, awaken, closing, holder, locals, history>>

(* The worker wakes up, by the event or after the schedule delay.          *)
Wake ==
  /\ cpc["worker"] = "idle"
  /\ cpc' = [cpc EXCEPT !["worker"] = "lock"]
  /\ strategy' = [strategy EXCEPT !["worker"] =
                    IF shutdownCalled THEN "all" ELSE IF awaken THEN "full" ELSE "one"]
  /\ UNCHANGED <<exportVars, queue, logOf, emitting, awaken, closing, holder, locals, history>>

(* After an export the worker clears the event; told to stop, it exports   *)
(* a last time.                                                            *)
Clear ==
  /\ cpc["worker"] = "clear"
  /\ IF strategy["worker"] = "all"
       THEN cpc' = [cpc EXCEPT !["worker"] = "done"] /\ UNCHANGED <<awaken, strategy>>
       ELSE /\ awaken' = FALSE
            /\ cpc' = [cpc EXCEPT !["worker"] = IF shutdownCalled THEN "lock" ELSE "idle"]
            /\ strategy' = [strategy EXCEPT !["worker"] = IF shutdownCalled THEN "all" ELSE "one"]
  /\ UNCHANGED <<exportVars, queue, logOf, emitting, closing, holder, locals, history>>

-----------------------------------------------------------------------------
(* _export                                                                 *)

Acquire(c) ==
  /\ cpc[c] = "lock"
  /\ holder = Nobody
  /\ holder' = c
  /\ cpc' = [cpc EXCEPT ![c] = "batch"]
  /\ iteration' = 0
  /\ UNCHANGED <<exportVars, queue, logOf, emitting, strategy, awaken, closing,
                 left, batch, batchSize, popped, history>>

(* _should_export_batch                                                    *)
ShouldExport(c) ==
  /\ queue # <<>>
  /\ \/ Len(queue) >= MaxBatch
     \/ strategy[c] = "all"
     \/ strategy[c] = "one" /\ iteration = 0

AtLoop(c) == cpc[c] = "batch" /\ left = 0 /\ batch = <<>>

BeginBatch(c) ==
  /\ AtLoop(c)
  /\ ShouldExport(c)
  /\ iteration' = IF iteration = 0 THEN 1 ELSE iteration
  /\ left' = IF Len(queue) < MaxBatch THEN Len(queue) ELSE MaxBatch
  /\ batchSize' = 0
  /\ UNCHANGED <<exportVars, queue, logOf, emitting, cpc, strategy, awaken, closing, holder,
                 batch, popped, history>>

(* Mutant: an exception leaves the lock taken.                             *)
ReleaseUnlessRaised(c) ==
  /\ AtLoop(c)
  /\ ~ShouldExport(c)
  /\ holder' = IF raises > 0 THEN holder ELSE Nobody
  /\ cpc' = [cpc EXCEPT ![c] = IF c = "worker" THEN "clear" ELSE "idle"]
  /\ UNCHANGED <<exportVars, queue, logOf, emitting, strategy, awaken, closing, locals, history>>

Release(c) ==
  /\ AtLoop(c)
  /\ ~ShouldExport(c)
  /\ holder' = Nobody
  /\ cpc' = [cpc EXCEPT ![c] = IF c = "worker" THEN "clear" ELSE "idle"]
  /\ UNCHANGED <<exportVars, queue, logOf, emitting, strategy, awaken, closing, locals, history>>

SizeOf(r) == EstimateOf[logOf[r]]

(* Mutant: the size is compared before the record is added to it.          *)
PopLate(c) ==
  LET r == Head(queue) IN
  /\ cpc[c] = "batch" /\ left > 0 /\ popped = NoRecord /\ xpc = "idle"
  /\ queue' = Tail(queue)
  /\ left' = left - 1
  /\ IF batch # <<>> /\ batchSize > MaxBytes
       THEN popped' = r /\ Export /\ UNCHANGED <<batch, batchSize>>
       ELSE batch' = Append(batch, r) /\ batchSize' = batchSize + SizeOf(r) /\ UNCHANGED <<exportVars, popped>>
  /\ UNCHANGED <<logOf, emitting, cpc, strategy, awaken, closing, holder, iteration, history>>

(* The next record joins the batch, or waits while the batch is exported.  *)
Pop(c) ==
  LET r == Head(queue) IN
  /\ cpc[c] = "batch" /\ left > 0 /\ popped = NoRecord /\ xpc = "idle"
  /\ queue' = Tail(queue)
  /\ left' = left - 1
  /\ IF batch # <<>> /\ batchSize + SizeOf(r) > MaxBytes
       THEN popped' = r /\ Export /\ UNCHANGED <<batch, batchSize>>
       ELSE batch' = Append(batch, r) /\ batchSize' = batchSize + SizeOf(r) /\ UNCHANGED <<exportVars, popped>>
  /\ UNCHANGED <<logOf, emitting, cpc, strategy, awaken, closing, holder, iteration, history>>

(* The last batch of the iteration.                                        *)
ExportRest(c) ==
  /\ cpc[c] = "batch" /\ left = 0 /\ batch # <<>>
  /\ Export
  /\ UNCHANGED processor

(* Mutant: the batch is not emptied after it was exported for its size.    *)
ReturnedKeep(c) ==
  /\ cpc[c] = "batch"
  /\ Return
  /\ sent' = sent \o batch
  /\ IF result = "raised"
       THEN /\ batch' = <<>> /\ batchSize' = 0 /\ left' = 0 /\ popped' = NoRecord
            /\ raises' = raises + 1
            /\ spilled' = spilled \cup ({popped} \ {NoRecord})
       ELSE /\ batch' = IF popped = NoRecord THEN <<>> ELSE Append(batch, popped)
            /\ batchSize' = IF popped = NoRecord THEN 0 ELSE SizeOf(popped)
            /\ popped' = NoRecord
            /\ UNCHANGED <<left, raises, spilled>>
  /\ UNCHANGED <<queue, logOf, emitting, cpc, strategy, awaken, closing, holder, iteration, overflown, before, stragglers>>

(* export is back: the record that waited begins the next batch.  An       *)
(* exception ends the iteration, and takes that record with it.            *)
ExportReturned(c) ==
  /\ cpc[c] = "batch"
  /\ Return
  /\ sent' = sent \o batch
  /\ IF result = "raised"
       THEN /\ batch' = <<>> /\ batchSize' = 0 /\ left' = 0 /\ popped' = NoRecord
            /\ raises' = raises + 1
            /\ spilled' = spilled \cup ({popped} \ {NoRecord})
       ELSE /\ batch' = IF popped = NoRecord THEN <<>> ELSE <<popped>>
            /\ batchSize' = IF popped = NoRecord THEN 0 ELSE SizeOf(popped)
            /\ popped' = NoRecord
            /\ UNCHANGED <<left, raises, spilled>>
  /\ UNCHANGED <<queue, logOf, emitting, cpc, strategy, awaken, closing, holder, iteration, overflown, before, stragglers>>

Exporting(c) == BeginBatch(c) \/ Release(c) \/ Pop(c) \/ ExportRest(c) \/ ExportReturned(c)

(* The exporter at work on a batch.                                        *)
ExporterStep == Running /\ UNCHANGED processor
ClockStep    == StepBack /\ UNCHANGED processor

-----------------------------------------------------------------------------
(* shutdown: the worker is joined before the exporter is shut down.        *)

Shutdown ==
  /\ closing = "no"
  /\ closing' = "join"
  /\ awaken' = TRUE
  /\ before' = Len(logOf) /\ stragglers' = emitting
  /\ UNCHANGED <<exportVars, queue, logOf, emitting, cpc, strategy, holder, locals,
                 sent, overflown, spilled, raises>>

(* Mutant: the exporter is shut down at once.                              *)
JoinedAtOnce ==
  /\ closing = "join"
  /\ closing' = "exporter"
  /\ SetEvent
  /\ UNCHANGED <<queue, logOf, emitting, cpc, strategy, awaken, holder, locals, history>>

(* Mutant: the base class's shutdown, which only sets the flag.            *)
JoinedFlagOnly ==
  /\ closing = "join"
  /\ cpc["worker"] = "done"
  /\ closing' = "closed"
  /\ down' = TRUE
  /\ UNCHANGED <<call, stop, queue, logOf, emitting, cpc, strategy, awaken, holder, locals, history>>

Joined ==
  /\ closing = "join"
  /\ cpc["worker"] = "done"
  /\ closing' = "exporter"
  /\ SetEvent
  /\ UNCHANGED <<queue, logOf, emitting, cpc, strategy, awaken, holder, locals, history>>

Closed ==
  /\ closing = "exporter"
  /\ closing' = "closed"
  /\ SetDown
  /\ UNCHANGED <<queue, logOf, emitting, cpc, strategy, awaken, holder, locals, history>>

-----------------------------------------------------------------------------

Caller(c) == Acquire(c) \/ Exporting(c)
Worker    == Wake \/ Clear
Closing   == Shutdown \/ Joined \/ Closed

Next ==
  \/ Emit \/ AppendLeft \/ ForceFlush \/ Worker \/ Closing \/ ExporterStep \/ ClockStep
  \/ \E c \in Callers : Caller(c)

(* The worker's thread runs and its waits end; every request ends; a lock  *)
(* is handed on; shutdown goes on once its thread may.                     *)
Fairness ==
  /\ WF_vars(Worker) /\ WF_vars(ExporterStep) /\ WF_vars(Joined) /\ WF_vars(Closed)
  /\ WF_vars(AppendLeft)
  /\ \A c \in Callers : WF_vars(Caller(c))

Spec == Init /\ [][Next]_vars /\ Fairness

-----------------------------------------------------------------------------

Records == 1..MaxRecords

TypeOK ==
  /\ ExportTypeOK
  /\ queue \in Seq(Records) /\ Len(queue) <= MaxQueue
  /\ logOf \in Seq(Logs)
  /\ emitting \in 0..MaxRecords /\ popped \in Records \cup {NoRecord}
  /\ cpc \in [Callers -> {"idle", "lock", "batch", "clear", "done"}]
  /\ strategy \in [Callers -> {"one", "full", "all"}]
  /\ awaken \in BOOLEAN
  /\ closing \in {"no", "join", "exporter", "closed"}
  /\ holder \in Callers \cup {Nobody}
  /\ left \in 0..MaxBatch /\ iteration \in 0..1 /\ batch \in Seq(Records) /\ batchSize \in Nat

(* What the exporter does here is what it does on its own: calls of the    *)
(* worker and of force_flush never overlap, and shutdown is its shutdown.  *)
Exporter == ExportSpec

Waiting == IF popped = NoRecord THEN <<>> ELSE <<popped>>

(* The records that left and those that will, in the order of their        *)
(* leaving: it is the order in which emit appended them, and no record is  *)
(* in it twice.  One that is not in it was dropped by the full queue, or was  *)
(* the one record popped beyond a batch whose export raised.               *)
Lineage ==
  LET line == sent \o batch \o Waiting \o queue IN
  /\ \A i, j \in DOMAIN line : i < j => line[i] < line[j]
  /\ 1..Len(logOf) = { line[i] : i \in DOMAIN line } \cup overflown \cup spilled
  /\ Cardinality(spilled) <= raises

(* A request of several plain records is no larger than the limit, as it   *)
(* is written and not only as it is estimated.                             *)
Plain(log) == WrittenOf[log] <= EstimateOf[log]

Bytes(size) == Total([i \in DOMAIN batch |-> size[logOf[batch[i]]]], DOMAIN batch)

RequestFits ==
  xpc # "idle" /\ Len(batch) > 1 /\ (\A i \in DOMAIN batch : Plain(logOf[batch[i]])) => Bytes(WrittenOf) <= MaxBytes

(* The worker's last export is not cut short by the shutdown it belongs    *)
(* to, and leaves nothing in the queue but what was in emit when shutdown  *)
(* was called, past the check of the flag, and was appended after.         *)
Drained ==
  /\ stop => cpc["worker"] = "done"
  /\ cpc["worker"] = "done" => \A i \in DOMAIN queue : queue[i] \in (before + 1)..(before + stragglers)

(* shutdown returns, although it waits for the worker, the worker for the  *)
(* lock, and the holder of the lock for the service.                       *)
ShutdownReturns == closing = "join" ~> closing = "closed"
=============================================================================
