---------------------------- MODULE KeylessDiffMC ----------------------------
EXTENDS KeylessDiff

(* Contents a and b are rows under key 1, c under key 3, d under no key.   *)
MCKey == [c \in Contents |-> CASE c \in {"a", "b"} -> 1 [] c = "c" -> 3 [] c = "d" -> Null]
MCHash == [c \in Contents |-> IF c \in {"a", "c"} THEN 0 ELSE 1]

Holding(rows) == [c \in Contents |-> IF c \in DOMAIN rows THEN rows[c] ELSE 0]
Tables ==
  {[left |-> Holding(l), right |-> Holding(r)] :
     l \in {[a |-> 1], [a |-> 2, c |-> 2], <<>>},
     r \in {[a |-> 1], [b |-> 1, c |-> 1], [a |-> 1, d |-> 1]}}

(* An error aborts a transaction only where there is one.                  *)
MCModes ==
  {m \in ModeType : /\ m.aborts => m.snapshot
                    /\ m.oneServer => m.summary
                    /\ ~m.aligned => m.summary}
==============================================================================
