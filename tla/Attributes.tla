----------------------------- MODULE Attributes -----------------------------
(* Attributes of spans, events and measurements: a function over the keys  *)
(* that are present.                                                       *)

(* One attribute, and those of f before those of g, which TLC evaluates    *)
(* once each because they are bound.                                       *)
Entry(key, value) == [k \in {key} |-> value]
Joined(f, g) == [k \in DOMAIN f \cup DOMAIN g |-> IF k \in DOMAIN f THEN f[k] ELSE g[k]]
f ++ g == CHOOSE h \in { Joined(a, b) : a \in {f}, b \in {g} } : TRUE
=============================================================================
