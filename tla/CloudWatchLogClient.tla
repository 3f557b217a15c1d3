------------------------ MODULE CloudWatchLogClient ------------------------
(***************************************************************************)
(* exporter/aws/metrics/_cloudwatch_log_client.py: the batch of EMF log    *)
(* events and the PutLogEvents calls that send it, called by the two       *)
(* threads that reach AwsCloudWatchEmfExporter through the SDK's periodic  *)
(* metric reader: the reader's own thread, which exports, and a thread of  *)
(* the application, which exports and flushes (force_flush, shutdown).     *)
(*                                                                         *)
(* The reader serialises exports with a lock of its own, and calls the     *)
(* exporter's force_flush outside of it.  The client has no lock.          *)
(*                                                                         *)
(* An export turns the points that it is given into log events             *)
(* (EmfConversion) and sends one after the other.  Events are numbered as  *)
(* they are sent; the size of one is what its metrics need, and the five   *)
(* limits of the code are constants in the same order of size.             *)
(***************************************************************************)
EXTENDS EmfConversion, Totals

CONSTANTS Threads,      \* the reader's thread and the application's
          Flushers,     \* the threads that call force_flush
          Free,         \* the reader's export lock when nobody holds it
          Data,         \* what the reader may hand to an export: scopes of points
          MaxLogs,      \* bound on the log events
          MaxEvents,    \* CW_MAX_REQUEST_EVENT_COUNT
          MaxBytes,     \* CW_MAX_REQUEST_PAYLOAD_BYTES
          Interval,     \* BATCH_FLUSH_INTERVAL
          Day,          \* the 24 hours a request may span
          Past, Future, \* CW_EVENT_TIMESTAMP_LIMIT_PAST, _FUTURE
          Start,        \* the clock when the exporter is made
          MaxDoubts,    \* bound on the calls that fail after they were served
          MaxVanish,    \* bound on the deletions of the log group
          Horizon       \* bound on the clock

ASSUME LimitsAssumption == /\ {MaxLogs, MaxEvents, MaxBytes, Day} \subseteq Nat /\ MaxEvents > 0
                           /\ {Start, Horizon, Past} \subseteq Int
                           /\ Start > Past /\ Horizon >= Start
ASSUME ThreadsAssumption == Flushers \subseteq Threads /\ Free \notin Threads /\ IsFiniteSet(Threads)

(* LogEventBatch objects: one in the client, one in the hands of each      *)
(* thread, and one to make the next from.                                  *)
None    == 0            \* _event_batch before the first event, no data, no event
Events  == 1..MaxLogs

(* The logs of each export, and their sizes.                               *)
LogsOf == [d \in DOMAIN Data |-> EmfLogs(Data[d])]
SizeOf(log) == 1 + Len(log.metrics)

(* An export makes a list of logs, with whole timestamps; each log alone   *)
(* is within the limit of a request.                                       *)
ASSUME LogsAssumption ==
  \A d \in DOMAIN Data : /\ d # None
                        /\ LogsOf[d] \in Seq(Range(LogsOf[d]))
                        /\ \A log \in Range(LogsOf[d]) : log.stamp \in Nat /\ SizeOf(log) \in 1..MaxBytes

Batches == 1..(Cardinality(Threads) + 2)

VARIABLES
  now,        \* the clock
  \* the client
  batch,      \* _event_batch
  heap,       \* the fields of each batch object
  \* callers
  exportLock, \* the reader's lock
  pc,         \* where each thread is
  op,         \* "send" or "flush", the client call it is in
  cur,        \* its local current_batch
  hand,       \* the event it is sending
  data,       \* what its export was given
  next,       \* the log that its export is to send next
  copy,       \* a list it alone holds: the sorted copy it is about to store,
              \* or a request's list that is no longer the batch's
  \* the service
  exists,     \* the log group and stream are there
  stored,     \* how often each event was stored
  \* history
  used,       \* how many events there are
  info,       \* the log that each event is, of which data
  taken,      \* the events of the export of each thread
  told,       \* the exports that returned SUCCESS
  fate,       \* what became of each event in the client
  overlap,    \* two threads were inside the client at once
  doubts,     \* how many requests were stored although their call failed
  vanished,   \* how often the log group was deleted
  due         \* what was in the batch when each thread began its flush

client  == <<batch, heap>>
exports == <<data, next>>
callers == <<exportLock, pc, op, cur, hand, copy, exports>>
service == <<exists, stored>>
history == <<used, info, taken, told, fate, overlap, doubts, vanished, due>>
vars    == <<now, client, callers, service, history>>

(* Mutant: a batch that does not know when it was made.                    *)
EmptyBatchUndated(time) ==
  [events |-> <<>>, byteTotal |-> 0, minStamp |-> 0, maxStamp |-> 0, created |-> 0]

(* LogEventBatch.__init__ ; a timestamp of 0 stands for none.              *)
EmptyBatch(time) ==
  [events |-> <<>>, byteTotal |-> 0, minStamp |-> 0, maxStamp |-> 0, created |-> time]

(* An object nobody refers to.                                             *)
Fresh == CHOOSE b \in Batches : b # batch /\ \A t \in Threads : cur[t] # b

Init ==
  /\ now = Start
  /\ batch = None
  /\ heap = [b \in Batches |-> EmptyBatch(Start)]
  /\ exportLock = Free
  /\ pc = [t \in Threads |-> "out"]
  /\ op = [t \in Threads |-> "send"]
  /\ cur = [t \in Threads |-> None]
  /\ hand = [t \in Threads |-> None]
  /\ copy = [t \in Threads |-> <<>>]
  /\ exists = FALSE
  /\ stored = [e \in Events |-> 0]
  /\ data = [t \in Threads |-> None] /\ next = [t \in Threads |-> 1]
  /\ used = 0
  /\ info = [e \in Events |-> <<None, None>>]
  /\ taken = [t \in Threads |-> {}] /\ told = {}
  /\ fate = [e \in Events |-> "new"]
  /\ overlap = FALSE /\ doubts = 0 /\ vanished = 0
  /\ due = [t \in Threads |-> {}]

Go(t, where) == pc' = [pc EXCEPT ![t] = where]

(* The end of a call: its locals are gone.                                 *)
Leave(t, where) ==
  /\ Go(t, where)
  /\ copy' = [copy EXCEPT ![t] = <<>>]
  /\ due' = [due EXCEPT ![t] = {}]
  /\ cur' = [cur EXCEPT ![t] = None]
  /\ hand' = [hand EXCEPT ![t] = None]

Inside(t)  == pc[t] \notin {"out", "export"}
Enter(t)   == overlap' = (overlap \/ \E u \in Threads \ {t} : Inside(u))

-----------------------------------------------------------------------------
(* The SDK's reader: an export makes the logs and is a loop over           *)
(* send_log_event under the export lock (base_emf_exporter.export), left   *)
(* early when one raises.                                                  *)

ExportNothing(t) == data' = [data EXCEPT ![t] = None] /\ next' = [next EXCEPT ![t] = 1]

BeginExport(t) ==
  /\ pc[t] = "out" /\ exportLock = Free
  /\ \E d \in DOMAIN Data :
       /\ used + Len(LogsOf[d]) <= MaxLogs
       /\ data' = [data EXCEPT ![t] = d]
  /\ exportLock' = t
  /\ Go(t, "export")
  /\ UNCHANGED <<now, client, op, cur, hand, copy, next, service, history>>

EndExport(t) ==
  /\ pc[t] = "export" /\ next[t] > Len(LogsOf[data[t]])
  /\ exportLock' = Free
  /\ told' = told \cup {[data |-> data[t], events |-> taken[t]]}
  /\ taken' = [taken EXCEPT ![t] = {}]
  /\ ExportNothing(t)
  /\ Go(t, "out")
  /\ UNCHANGED <<now, client, op, cur, hand, copy, service, used, info, fate, overlap, doubts, vanished, due>>

-----------------------------------------------------------------------------
(* send_log_event                                                          *)

LogOf(e) == LogsOf[info[e][1]][info[e][2]]

(* The next log of the export is the next event.                           *)
TakeLog(t) ==
  /\ pc[t] = "export" /\ next[t] <= Len(LogsOf[data[t]])
  /\ next' = [next EXCEPT ![t] = @ + 1]
  /\ used' = used + 1
  /\ info' = [info EXCEPT ![used'] = <<data[t], next[t]>>]
  /\ taken' = [taken EXCEPT ![t] = @ \cup {used'}]
  /\ UNCHANGED <<data, told>>

(* _validate_log_event                                                     *)
Valid(i) == now - i.stamp <= Past /\ now - i.stamp >= -Future

(* Mutant: one event too many.                                             *)
ExceedsLimitLate(b, i) ==
  Len(b.events) > MaxEvents \/ b.byteTotal + SizeOf(i) > MaxBytes

(* _event_batch_exceeds_limit                                              *)
ExceedsLimit(b, i) ==
  Len(b.events) >= MaxEvents \/ b.byteTotal + SizeOf(i) > MaxBytes

(* _is_batch_active                                                        *)
IsActive(b, i) ==
  \/ b.minStamp = 0 \/ b.maxStamp = 0
  \/ /\ i.stamp - b.minStamp <= Day
     /\ b.maxStamp - i.stamp <= Day
     /\ now - b.created < Interval

(* The event is turned down.                                               *)
SendInvalid(t) ==
  /\ TakeLog(t)
  /\ ~Valid(LogsOf[data[t]][next[t]])
  /\ fate' = [fate EXCEPT ![used'] = "invalid"]
  /\ UNCHANGED <<now, client, exportLock, pc, op, cur, hand, copy, service, overlap, doubts, vanished, due>>

(* A valid event: the first one makes the batch.  If the batch is full or  *)
(* no longer active it is sent first.                                      *)
SendEvent(t) ==
  LET log == LogsOf[data[t]][next[t]] IN
  /\ TakeLog(t)
  /\ Valid(log)
  /\ IF batch = None
       THEN /\ batch' = Fresh
            /\ heap' = [heap EXCEPT ![Fresh] = EmptyBatch(now)]
       ELSE UNCHANGED client
  /\ LET b == heap'[batch'] IN
       Go(t, IF ExceedsLimit(b, log) \/ ~IsActive(b, log) THEN "sort" ELSE "add")
  /\ cur' = [cur EXCEPT ![t] = batch']
  /\ op' = [op EXCEPT ![t] = "send"]
  /\ hand' = [hand EXCEPT ![t] = used']
  /\ fate' = [fate EXCEPT ![used'] = "held"]
  /\ Enter(t)
  /\ UNCHANGED <<now, exportLock, copy, service, doubts, vanished, due>>

(* LogEventBatch.add_event                                                 *)
Added(b, e) ==
  LET s == LogOf(e).stamp IN
  [b EXCEPT !.events    = Append(@, e),
            !.byteTotal = @ + SizeOf(LogOf(e)),
            !.minStamp  = IF @ = 0 \/ s < @ THEN s ELSE @,
            !.maxStamp  = IF s > @ THEN s ELSE @]

AddEvent(t) ==
  /\ pc[t] = "add"
  /\ heap' = [heap EXCEPT ![cur[t]] = Added(@, hand[t])]
  /\ fate' = [fate EXCEPT ![hand[t]] = "accepted"]
  /\ Leave(t, "export")
  /\ UNCHANGED <<now, batch, exportLock, op, exports, service, used, info, taken, told, overlap, doubts, vanished>>

-----------------------------------------------------------------------------
(* flush_pending_events, called by force_flush outside of the export lock. *)

BeginFlush(t) ==
  /\ t \in Flushers
  /\ pc[t] = "out"
  /\ batch # None /\ heap[batch].events # <<>>
  /\ op' = [op EXCEPT ![t] = "flush"]
  /\ cur' = [cur EXCEPT ![t] = batch]
  /\ due' = [due EXCEPT ![t] = Range(heap[batch].events)]
  /\ Go(t, "sort")
  /\ Enter(t)
  /\ UNCHANGED <<now, client, exportLock, hand, copy, exports, service, used, info, taken, told, fate, doubts, vanished>>

-----------------------------------------------------------------------------
(* _send_log_batch                                                         *)

(* An event comes after those of earlier timestamps, and after those of    *)
(* its own before it in the list.                                          *)
Sorted(q) ==
  LET Before(j, k) == LET s == LogOf(q[j]).stamp
                          z == LogOf(q[k]).stamp
                      IN  s < z \/ (s = z /\ j < k)
      Place(k)     == 1 + Cardinality({ j \in DOMAIN q : Before(j, k) })
  IN  [i \in DOMAIN q |-> q[CHOOSE k \in DOMAIN q : Place(k) = i]]

(* _sort_log_events reads the list, and stores a sorted copy of it.  An    *)
(* empty batch is not sent.                                                *)
Sort(t) ==
  LET q == heap[cur[t]].events IN
  /\ pc[t] = "sort"
  /\ IF q = <<>>
       THEN Go(t, "renew") /\ UNCHANGED copy
       ELSE /\ Go(t, "sorted")
            /\ copy' = [copy EXCEPT ![t] = Sorted(q)]
  /\ UNCHANGED <<now, client, exportLock, op, cur, hand, exports, service, history>>

(* The request holds the list of the batch itself, and still does when     *)
(* another thread gives the batch a new one.                               *)
Request(t) == IF copy[t] = <<>> THEN heap[cur[t]].events ELSE copy[t]

StoreSorted(t) ==
  /\ pc[t] = "sorted"
  /\ heap' = [heap EXCEPT ![cur[t]].events = copy[t]]
  /\ copy' = [u \in Threads |->
                IF u = t THEN <<>>
                ELSE IF cur[u] = cur[t] /\ pc[u] \in {"put", "create", "retry"} THEN Request(u)
                ELSE copy[u]]
  /\ Go(t, "put")
  /\ UNCHANGED <<now, batch, exportLock, op, cur, hand, exports, service, history>>

(* The service stores the events of the request.                           *)
Stored(q) == stored' = [e \in Events |-> stored[e] + Cardinality({i \in DOMAIN q : q[i] = e})]

PutOk(t) ==
  /\ pc[t] \in {"put", "retry"}
  /\ exists
  /\ Stored(Request(t))
  /\ copy' = [copy EXCEPT ![t] = <<>>]
  /\ Go(t, "renew")
  /\ UNCHANGED <<now, client, exportLock, op, cur, hand, exports, exists, history>>

(* ResourceNotFoundException: the group and stream are created, existing   *)
(* ones are no error, and the request is repeated, once.                   *)
PutNotFound(t) ==
  /\ pc[t] = "put"
  /\ ~exists
  /\ Go(t, "create")
  /\ UNCHANGED <<now, client, exportLock, op, cur, hand, copy, exports, service, history>>

(* Mutant: the group is created and the request not repeated.              *)
CreateOnly(t) ==
  /\ pc[t] = "create"
  /\ exists' = TRUE
  /\ Go(t, "renew")
  /\ UNCHANGED <<now, client, exportLock, op, cur, hand, copy, exports, stored, history>>

Create(t) ==
  /\ pc[t] = "create"
  /\ exists' = TRUE
  /\ Go(t, "retry")
  /\ UNCHANGED <<now, client, exportLock, op, cur, hand, copy, exports, stored, history>>

(* Mutant: the error is swallowed, and the caller goes on.                 *)
RaiseNothing(t) ==
  /\ pc[t] \in {"put", "create", "retry"}
  /\ Go(t, "renew")
  /\ copy' = [copy EXCEPT ![t] = <<>>]
  /\ UNCHANGED <<now, client, exportLock, op, cur, hand, exports, service, history>>

(* Anything else is raised out of the call, and the batch stays: an error  *)
(* of the service, or one after which nobody knows what the service did.   *)
(* An exception in send_log_event also ends the export and loses the event *)
(* it was called with.                                                     *)
Raise(t) ==
  /\ pc[t] \in {"put", "create", "retry"}
  /\ \/ UNCHANGED <<stored, doubts>>
     \/ /\ pc[t] # "create" /\ exists
        /\ doubts < MaxDoubts /\ doubts' = doubts + 1
        /\ Stored(Request(t))
  /\ IF op[t] = "send"
       THEN /\ exportLock' = Free /\ fate' = [fate EXCEPT ![hand[t]] = "failed"]
            /\ taken' = [taken EXCEPT ![t] = {}] /\ ExportNothing(t)
       ELSE UNCHANGED <<exportLock, fate, taken, exports>>
  /\ Leave(t, "out")
  /\ UNCHANGED <<now, client, op, exists, used, info, told, overlap, vanished>>

(* Mutant: a flush leaves the batch it sent in the client.                 *)
RenewForSendOnly(t) ==
  /\ pc[t] = "renew"
  /\ IF op[t] = "send"
       THEN /\ batch' = Fresh
            /\ heap' = [heap EXCEPT ![Fresh] = EmptyBatch(now)]
            /\ Go(t, "add")
            /\ cur' = [cur EXCEPT ![t] = Fresh]
            /\ UNCHANGED <<hand, copy, due>>
       ELSE Leave(t, "out") /\ UNCHANGED client
  /\ UNCHANGED <<now, exportLock, op, exports, service, used, info, taken, told, fate, overlap, doubts, vanished>>

(* The batch was sent: both callers put a new one in its place, and        *)
(* send_log_event goes on with it.                                         *)
Renew(t) ==
  /\ pc[t] = "renew"
  /\ batch' = Fresh
  /\ heap' = [heap EXCEPT ![Fresh] = EmptyBatch(now)]
  /\ IF op[t] = "send"
       THEN /\ Go(t, "add")
            /\ cur' = [cur EXCEPT ![t] = Fresh]
            /\ UNCHANGED <<hand, copy, due>>
       ELSE Leave(t, "out")
  /\ UNCHANGED <<now, exportLock, op, exports, service, used, info, taken, told, fate, overlap, doubts, vanished>>

-----------------------------------------------------------------------------

Tick ==
  /\ now < Horizon
  /\ now' = now + 1
  /\ UNCHANGED <<client, callers, service, history>>

(* Somebody deletes the log group.                                         *)
Vanish ==
  /\ exists /\ vanished < MaxVanish
  /\ exists' = FALSE
  /\ vanished' = vanished + 1
  /\ UNCHANGED <<now, client, callers, stored, used, info, taken, told, fate, overlap, doubts, due>>

Call(t) ==
  \/ BeginExport(t) \/ EndExport(t) \/ BeginFlush(t) \/ SendInvalid(t) \/ SendEvent(t)
  \/ AddEvent(t) \/ Sort(t) \/ StoreSorted(t)
  \/ PutOk(t) \/ PutNotFound(t) \/ Create(t) \/ Raise(t) \/ Renew(t)

Next == Tick \/ Vanish \/ \E t \in Threads : Call(t)

Spec == Init /\ [][Next]_vars

-----------------------------------------------------------------------------

TypeOK ==
  /\ now \in Start..Horizon
  /\ batch \in Batches \cup {None}
  /\ DOMAIN heap = Batches
  /\ \A b \in Batches : /\ heap[b].events \in Seq(Events)
                        /\ heap[b].byteTotal \in Nat
                        /\ {heap[b].minStamp, heap[b].maxStamp} \subseteq Nat
                        /\ heap[b].created \in Start..now
  /\ exportLock \in Threads \cup {Free}
  /\ pc \in [Threads -> {"out", "export", "add", "sort", "sorted", "put", "create", "retry", "renew"}]
  /\ op \in [Threads -> {"send", "flush"}]
  /\ cur \in [Threads -> Batches \cup {None}]
  /\ hand \in [Threads -> Events \cup {None}]
  /\ exists \in BOOLEAN
  /\ stored \in [Events -> Nat]
  /\ fate \in [Events -> {"new", "invalid", "held", "accepted", "failed"}]

Pending(e)   == batch # None /\ e \in Range(heap[batch].events)
PointsOf(d)  == { p \in UNION { Range(b) : b \in Range(Data[d]) } : Tellable(p) }
Sum(q)       == Total([i \in DOMAIN q |-> SizeOf(LogOf(q[i]))], DOMAIN q)

(* An event that send_log_event took is stored or in the batch that will   *)
(* be sent: through failed, repeated and doubtful calls, and as long as no *)
(* flush runs at the same time as an export (send_log_event, 331-370).     *)
NoLoss ==
  ~overlap => \A e \in Events : fate[e] = "accepted" => stored[e] > 0 \/ Pending(e)

(* What an export that returned SUCCESS was given is told: each point, by  *)
(* one of the logs that are stored, pending, or were turned down for their *)
(* age, with its own value, time and attributes.  (Metrics of one scope    *)
(* have different names, and none is named like an attribute.)             *)
PointsTold ==
  ~overlap =>
    \A x \in told : \A p \in PointsOf(x.data) :
      \E e \in x.events :
        /\ Tells(LogOf(e), p)
        /\ fate[e] = "invalid" \/ stored[e] > 0 \/ Pending(e)

(* ... and is stored once, unless the service took a request whose call    *)
(* failed for the client.                                                  *)
AtMostOnce ==
  ~overlap /\ doubts = 0 => \A e \in Events : stored[e] <= 1

(* Every request keeps to the limits of PutLogEvents: some events, not too *)
(* many or too large together, within 24 hours, in order of time.          *)
RequestOK ==
  \A t \in Threads : pc[t] \in {"put", "retry"} /\ ~overlap =>
    LET q == Request(t) IN
      /\ Len(q) \in 1..MaxEvents
      /\ Sum(q) <= MaxBytes
      /\ \A i, j \in DOMAIN q : i < j => /\ LogOf(q[i]).stamp <= LogOf(q[j]).stamp
                                      /\ LogOf(q[j]).stamp - LogOf(q[i]).stamp <= Day

(* A force_flush that returns has stored all that was in the batch when it *)
(* was called, even if an export adds to that batch or sends it meanwhile. *)
FlushStores ==
  \A t \in Threads : pc[t] = "renew" /\ op[t] = "flush" => \A e \in due[t] : stored[e] > 0

(* What send_log_event's documentation says without NoLoss's condition: it *)
(* "batches log events ... and sends them" (335-337).                      *)
AcceptedIsSent ==
  \A e \in Events : fate[e] = "accepted" => stored[e] > 0 \/ Pending(e)
=============================================================================
