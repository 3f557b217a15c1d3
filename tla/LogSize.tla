------------------------------ MODULE LogSize ------------------------------
(***************************************************************************)
(* The size of a log record as AwsCloudWatchOtlpBatchLogRecordProcessor    *)
(* estimates it (_estimate_log_size): level by level through the objects   *)
(* of its body and attributes, each object once, down to a depth, and no   *)
(* further than the limit of a request.                                    *)
(*                                                                         *)
(* Values are nodes of a heap of objects; a node may be reached twice, or  *)
(* from itself.                                                            *)
(***************************************************************************)
EXTENDS Integers, SequencesExt

CONSTANTS Heap,      \* the objects: [kind, size, items] of each node
          Logs,      \* the logs there are: nodes of body and attributes
          BaseSize,  \* _BASE_LOG_BUFFER_BYTE_SIZE
          MaxBytes,  \* _MAX_LOG_REQUEST_BYTE_SIZE
          MaxDepth,  \* the default of the parameter depth, 3
          MaxFuel    \* bound on the depth of the reference

ASSUME HeapAssumption ==
  \A n \in DOMAIN Heap :
    /\ Heap[n].kind \in {"none", "leaf", "sequence", "mapping"}
    /\ Heap[n].size \in Nat   \* bytes of a leaf, or of the keys of a mapping
    /\ Heap[n].items \in Seq(DOMAIN Heap)

Entry(node, depth) == [node |-> node, depth |-> depth]

(* One value of the level: its size is added, or its parts join the next   *)
(* level.                                                                  *)
Visit(entry, acc) ==
  LET v    == Heap[entry.node]
      skip == \/ acc.size >= MaxBytes
              \/ v.kind = "none"
              \/ v.kind \in {"sequence", "mapping"} /\ (entry.depth > MaxDepth \/ entry.node \in acc.visited)
  IN  CASE skip -> acc
        [] ~skip /\ v.kind = "leaf" -> [acc EXCEPT !.size = @ + v.size]
        [] OTHER ->
             [size    |-> acc.size + v.size,
              visited |-> acc.visited \cup {entry.node},
              queue   |-> acc.queue \o [i \in DOMAIN v.items |-> Entry(v.items[i], entry.depth + 1)]]

NextLevel(acc) == FoldLeft(LAMBDA a, e : Visit(e, a), [acc EXCEPT !.queue = <<>>], acc.queue)

(* The body is at level 0, the attributes are one above it.                *)
Estimate(log) ==
  LET start == [size    |-> BaseSize,
                visited |-> {},
                queue   |-> <<Entry(log.body, 0), Entry(log.attributes, -1)>>]
  IN  FoldLeft(LAMBDA acc, n : NextLevel(acc), start, [n \in 1..(MaxDepth + 3) |-> n]).size

(* Reference: the bytes of a value as it is written, where a shared object *)
(* is written each time it is met.  Fuel runs out in a cycle.              *)
WrittenSize(log) ==
  LET Size[n \in DOMAIN Heap, fuel \in 0..MaxFuel] ==
        IF fuel = 0 THEN MaxBytes
        ELSE FoldLeft(LAMBDA total, m : total + Size[m, fuel - 1], Heap[n].size, Heap[n].items)
  IN  BaseSize + Size[log.body, MaxFuel] + Size[log.attributes, MaxFuel]

EstimateOf == [l \in Logs |-> Estimate(l)]
WrittenOf  == [l \in Logs |-> WrittenSize(l)]

(* Both are sums of sizes: what HeapAssumption makes of the folds.         *)
ASSUME SizesAssumption == MaxBytes \in Nat /\ \A l \in Logs : EstimateOf[l] \in Nat /\ WrittenOf[l] \in Nat
=============================================================================
