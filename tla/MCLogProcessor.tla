--------------------------- MODULE MCLogProcessor ---------------------------
(* Two logs: a request has room for one of each, to the byte, and not for  *)
(* two of the larger.                                                      *)
EXTENDS LogProcessor

MCHeap == <<
  [kind |-> "none",     size |-> 0, items |-> <<>>],
  [kind |-> "leaf",     size |-> 2, items |-> <<>>],
  [kind |-> "sequence", size |-> 0, items |-> <<1, 2>>],
  [kind |-> "mapping",  size |-> 1, items |-> <<3>>],
  [kind |-> "mapping",  size |-> 1, items |-> <<5, 4>>]
>>
MCLogs == {
  [body |-> 2, attributes |-> 1],
  [body |-> 4, attributes |-> 1]
}

(* A log that holds itself is given a size, which is less than any text of *)
(* it: a request that is cut by estimates may exceed the limit.            *)
Knot == [body |-> 5, attributes |-> 1]
ASSUME KnotIsSized == Estimate(Knot) = 5 /\ WrittenSize(Knot) > MaxBytes
=============================================================================
