----------------------------- MODULE BulkLoadMC -----------------------------
(* Three tables with files and a lookup table without one.                 *)
EXTENDS BulkLoad

MCTables == 1 .. 4
MCFiles == {1, 2, 3}
MCRows == [t \in MCTables |-> IF t \in {2, 3} THEN 2 ELSE 1]

(* Two files refer to themselves: one lists a row before the row it refers *)
(* to, the other after it.                                                 *)
MCSelfRefs == [t \in MCTables |-> CASE t = 2 -> {<<1, 2>>} [] t = 3 -> {<<2, 1>>} [] OTHER -> {}]

(* All sets of files, and names given twice.  build_plan sorts them.       *)
MCRequests == {<<1>>, <<2>>, <<3>>, <<1, 2>>, <<1, 3>>, <<2, 3>>, <<1, 2, 3>>,
               <<1, 1>>, <<1, 2, 2>>}

(* The lookup table refers to nothing.                                     *)
MCKeys == {k \in MCTables \X MCFiles : k[1] # k[2] \/ k[1] # 1}

(* What the query returns for keys: two rows where a composite key or two  *)
(* keys lead from one table to its neighbour.                              *)
RowsOf(ks) ==
  {<<k[1], k[2], 1>> : k \in ks} \cup
  {<<k[1], k[2], 2>> : k \in {j \in ks : j[1] - j[2] \in {-1, 1}}}

(* Every foreign key relation, cyclic or not, all of it known; and those   *)
(* of at most two keys where the query returns any part.                   *)
MCForeignKeys ==
  {[enforced |-> ks, queried |-> RowsOf(ks)] : ks \in SUBSET MCKeys} \cup
  UNION {{[enforced |-> ks, queried |-> RowsOf(js)] : js \in SUBSET ks} :
           ks \in {j \in SUBSET MCKeys : Cardinality(j) <= 2}}
=============================================================================
