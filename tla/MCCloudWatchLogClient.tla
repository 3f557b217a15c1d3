----------------------- MODULE MCCloudWatchLogClient -----------------------
(* CloudWatchLogClient for TLC: one thread of the reader, one of the       *)
(* application that flushes, and a few things to export.                   *)
EXTENDS CloudWatchLogClient

MCLower(key) == IF key = "SERVICE" \/ key = "Service" THEN "service" ELSE key

MCResource == [k \in {"service.name", "cloud.platform"} |-> IF k = "service.name" THEN "unknown_service:python" ELSE "aws_ecs"]

Keys(route) == "route" :> <<"text", route>>

Gauge(name, route, time) == [kind |-> "gauge", name |-> name, attributes |-> Keys(route), time |-> time, value |-> <<"number", time>>]

Exponential(time) ==
  [kind |-> "exponential", name |-> "latency", attributes |-> "SERVICE" :> <<"text", "mine">>, time |-> time,
   positive |-> [offset |-> -1, counts |-> <<2, 0, 1>>], zero |-> 1, negative |-> [offset |-> 0, counts |-> <<0, 3>>]]

Histogram(time) ==
  [kind |-> "histogram", name |-> "size", attributes |-> Keys("/a"), time |-> time, summary |-> <<"histogram", 2, 9, 4, 5>>]

(* Nothing; one gauge at two times more than a day apart; three metrics of *)
(* one group, measured within a millisecond; two groups and points that    *)
(* are not told; two scopes.                                               *)
MCData ==
  << <<>>,
     << <<Gauge("load", "/a", 2), Gauge("load", "/a", 6)>> >>,
     << <<Gauge("load", "/a", 4), Histogram(5), Gauge("rate", "/a", 5)>> >>,
     << <<Gauge("load", "/a", 4), [Gauge("idle", "/a", 4) EXCEPT !.value = <<>>], Gauge("load", "/b", 4),
          [Gauge("", "/b", 4) EXCEPT !.kind = "sum"], [Gauge("odd", "/c", 4) EXCEPT !.kind = "unknown"]>> >>,
     << <<Exponential(3)>>, <<>> >> >>

ASSUME DataExported == \A d \in DOMAIN Data : IsExport(Data[d])

(* The contents of an object nobody refers to make no difference.          *)
View ==
  LET Live == {batch} \cup {cur[t] : t \in Threads} IN
  <<now, batch, [b \in Live \ {None} |-> heap[b]], callers, service, history>>
=============================================================================
