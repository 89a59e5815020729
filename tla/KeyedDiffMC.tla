----------------------------- MODULE KeyedDiffMC -----------------------------
EXTENDS KeyedDiff

Holding(rows) == [k \in Keys |-> IF k \in DOMAIN rows THEN rows[k] ELSE Absent]

(* Sides that agree, differ in one row, are skewed both ways, or are empty.*)
SmallTables ==
  {[left |-> Holding(l), right |-> Holding(r)] :
     l \in {<<>>, <<1, 1, 1, 1>>, <<1, 2, 1>>}, r \in {<<>>, <<1>>, <<1, 1>>, <<1, 1, 1, 1>>}}

AllModes == {m \in ModeType : m.way = "join" => ~m.unique /\ ~m.summary}
==============================================================================
