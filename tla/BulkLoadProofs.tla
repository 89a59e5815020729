--------------------------- MODULE BulkLoadProofs ---------------------------
(***************************************************************************)
(* The load order and the all-or-nothing tables of BulkLoad, for every     *)
(* schema, every set of files and every number of runs and failures.       *)
(***************************************************************************)
EXTENDS BulkLoad, FiniteSetTheorems, FunctionTheorems, SequenceTheorems, TLAPS

(* A set of natural numbers has a smallest member. *)
LEMMA LeastNat ==
  ASSUME NEW T, T \subseteq Nat, T # {}
  PROVE  \E m \in T : \A y \in T : m <= y
<1>1. PICK m \in T : \A y \in T : ~ (<<y, m>> \in OpToRel(<, Nat))
  BY WFMin, NatLessThanWellFounded
<1>2. ASSUME NEW y \in T PROVE m <= y
  <2>1. <<y, m>> \notin OpToRel(<, Nat)
    BY <1>1
  <2>2. y \in Nat /\ m \in Nat
    OBVIOUS
  <2>3. ~ (y < m)
    BY <2>1, <2>2 DEF OpToRel
  <2> QED
    BY <2>2, <2>3
<1> QED
  BY <1>2

(* Min of a set of natural numbers is a member of it. *)
LEMMA MinOfNats ==
  ASSUME NEW T, T \subseteq Nat, T # {}
  PROVE  Min(T) \in T
<1>1. \E m \in T : \A y \in T : m =< y
  BY LeastNat
<1> QED
  BY <1>1 DEF Min

(* A table is placed once, after all the tables it refers to: no table is  *)
(* placed whose parents are not in the plan.                               *)
Ordered ==
  \A i \in 1 .. Len(order) :
    /\ \A j \in 1 .. Len(order) : i # j => order[i] # order[j]
    /\ \A p \in Tables \ {order[i]} :
         Known(p, order[i]) => \E j \in 1 .. i - 1 : order[j] = p

(* No more tables are planned than names were given.                       *)
NamesCounted == Cardinality(plan) <= named

(* The rows of the query into c whose parent has not been placed yet.           *)
Unplaced(c) == {e \in Edges : e[2] = c /\ e[1] \notin ListOf(order)}

(* While the order grows, the degree of a table counts exactly those, and  *)
(* the ready tables are the unplaced tables that have none.                *)
DegreesCount ==
  /\ phase = "graph" => order = <<>>
  /\ phase = "order" =>
       /\ \A c \in plan : degree[c] = Cardinality(Unplaced(c))
       /\ ready = {t \in plan \ ListOf(order) : Unplaced(t) = {}}

(* Rows are in the open transaction only when the table had none.          *)
OpenTransaction ==
  phase = "rows" =>
    /\ at \in 1 .. Len(order)
    /\ tx <= RowsIn[Table]
    /\ tx > 0 => durable[Table] = 0

(* The tables completed are the first ones of the order, without a gap.    *)
CompletedSoFar ==
  /\ phase \in {"graph", "order"} => completed = <<>>
  /\ phase \in {"table", "rows"} => Len(completed) = at - 1 /\ at >= 1
  /\ Len(completed) <= Len(order)
  /\ \A i \in 1 .. Len(completed) :
       completed[i] = order[i] /\ durable[order[i]] = RowsIn[order[i]]

IInv ==
  /\ TypeOK
  /\ NamesCounted
  /\ Ordered
  /\ DegreesCount
  /\ AllOrNothing
  /\ OpenTransaction
  /\ CompletedSoFar

USE DEF keys, asked

-----------------------------------------------------------------------------
(* Facts about one state. *)

(* The foreign key query returns finitely many rows about pairs of tables. *)
LEMMA EdgesFinite ==
  ASSUME TypeOK
  PROVE  /\ queried \subseteq Tables \X Tables \X Nat
         /\ \A S \in SUBSET Edges : IsFiniteSet(S) /\ Cardinality(S) \in Nat
<1> DEFINE k == [enforced |-> enforced, queried |-> queried]
<1>1. k \in ForeignKeys /\ k.queried = queried
  BY DEF TypeOK
<1>2. queried \subseteq Tables \X Tables \X Nat /\ IsFiniteSet(queried)
  <2>1. /\ k \in [enforced : SUBSET (Tables \X Tables), queried : SUBSET (Tables \X Tables \X Nat)]
        /\ IsFiniteSet(k.queried)
    BY <1>1, BulkLoadAssumption
  <2> QED
    BY <1>1, <2>1
<1>3. ASSUME NEW S \in SUBSET Edges PROVE IsFiniteSet(S) /\ Cardinality(S) \in Nat
  <2>1. S \in SUBSET queried
    BY DEF Edges
  <2> QED
    BY <1>2, <2>1, FS_Subset, FS_CardinalityType
<1> QED
  BY <1>2, <1>3

(* The tables of the plan, and the one being loaded, are tables.           *)
LEMMA PlacedTables ==
  ASSUME TypeOK
  PROVE  /\ plan \subseteq Tables /\ Len(order) \in Nat
         /\ \A i \in 1 .. Len(order) : order[i] \in plan /\ order[i] \in Tables
         /\ at \in 1 .. Len(order) => Table \in Tables
         /\ RowsIn \in [Tables -> Nat]
<1>1. plan \subseteq Tables /\ order \in Seq(plan) /\ RowsIn \in [Tables -> Nat]
  BY BulkLoadAssumption DEF TypeOK
<1> QED
  BY <1>1 DEF Table

(* The invariant at the start. *)
LEMMA InitInvariant ==
  ASSUME Init
  PROVE  IInv
<1> USE BulkLoadAssumption
<1>1. order = <<>> /\ Len(order) = 0 /\ Len(completed) = 0 /\ phase = "idle"
  BY DEF Init
<1>2. TypeOK
  BY <1>1, EmptySeq DEF Init, TypeOK
<1>3. AllOrNothing
  BY DEF Init, AllOrNothing
<1>4. Ordered /\ DegreesCount /\ OpenTransaction /\ CompletedSoFar
  BY <1>1 DEF Ordered, DegreesCount, OpenTransaction, CompletedSoFar
<1>5. NamesCounted
  BY FS_EmptySet DEF Init, NamesCounted
<1> QED
  BY <1>2, <1>3, <1>4, <1>5 DEF IInv

-----------------------------------------------------------------------------
(* The steps that build the load order. *)

(* Counting: no table is placed yet, every parent counts.                  *)
LEMMA CountDegreesKeeps ==
  ASSUME IInv, CountDegrees
  PROVE  IInv'
<1> USE DEF IInv
<1>1. order = <<>> /\ order' = <<>> /\ UNCHANGED <<keys, asked>> /\ phase' = "order"
  BY DEF CountDegrees, DegreesCount
<1>2. ListOf(order') = {} /\ Len(order') = 0
  BY <1>1 DEF ListOf
<1>3. ASSUME NEW c
      PROVE  /\ Unplaced(c)' = {e \in Edges : e[2] = c}
             /\ IsFiniteSet({e \in Edges : e[2] = c})
             /\ InDegree(c) = Cardinality(Unplaced(c)') /\ InDegree(c) \in Nat
  <2>1. Unplaced(c)' = {e \in Edges : e[2] = c}
    BY <1>1, <1>2 DEF Unplaced, Edges
  <2>2. {e \in Edges : e[2] = c} \in SUBSET Edges
    OBVIOUS
  <2> QED
    BY <2>1, <2>2, EdgesFinite DEF InDegree
<1>4. TypeOK'
  BY <1>1, <1>3 DEF CountDegrees, TypeOK, bounds
<1>5. DegreesCount'
  <2>1. ASSUME NEW c \in plan PROVE degree'[c] = Cardinality(Unplaced(c)')
    BY <1>3, PlacedTables DEF CountDegrees
  <2>2. \A t : InDegree(t) = 0 <=> Unplaced(t)' = {}
    BY <1>3, FS_EmptySet
  <2>3. ready' = {t \in plan : InDegree(t) = 0}
    BY DEF CountDegrees, IsReady
  <2>4. ready' = {t \in plan' \ ListOf(order') : Unplaced(t)' = {}}
    BY <1>1, <1>2, <2>2, <2>3
  <2> QED
    BY <1>1, <2>1, <2>4 DEF DegreesCount
<1>6. NamesCounted' /\ Ordered' /\ AllOrNothing' /\ OpenTransaction' /\ CompletedSoFar'
  BY <1>1, <1>2 DEF CountDegrees, NamesCounted, Ordered, AllOrNothing, OpenTransaction, CompletedSoFar
<1> QED
  BY <1>4, <1>5, <1>6

(* Placing a ready table takes it out of the count of each of its children. *)
LEMMA PopReadyKeeps ==
  ASSUME IInv, PopReady
  PROVE  IInv'
<1> USE DEF IInv
<1> DEFINE t == Min(ready)
           children == {c \in plan : Entries(t, c) > 0}
           rows(c) == {e \in Edges : e[1] = t /\ e[2] = c}
<1>1. /\ phase = "order" /\ phase' = "order" /\ UNCHANGED <<keys, asked>>
      /\ order' = Append(order, t)
      /\ degree' = [c \in Tables |-> degree[c] - Entries(t, c)]
      /\ ready' = (ready \ {t}) \cup {c \in children : degree[c] - Entries(t, c) = 0}
      /\ UNCHANGED <<at, tx, completed, durable, exit, runs, faults>>
  BY DEF PopReady, IsReady, bounds
<1>2. t \in ready
  <2>1. ready \subseteq Nat /\ ready # {}
    BY BulkLoadAssumption DEF TypeOK, PopReady
  <2> QED
    BY <2>1, MinOfNats
<1>3. t \in plan /\ t \in Tables /\ t \notin ListOf(order) /\ Unplaced(t) = {}
  BY <1>1, <1>2, PlacedTables DEF DegreesCount, TypeOK
<1> HIDE DEF t
<1>4. /\ Len(order') = Len(order) + 1 /\ Len(order) \in Nat /\ order' \in Seq(plan)
      /\ \A i \in 1 .. Len(order) : order'[i] = order[i]
      /\ order'[Len(order) + 1] = t
  BY <1>1, <1>3 DEF TypeOK
<1>5. ListOf(order') = ListOf(order) \cup {t}
  <2>1. ListOf(order') \subseteq ListOf(order) \cup {t}
    BY <1>4 DEF ListOf
  <2>2. ListOf(order) \cup {t} \subseteq ListOf(order')
    BY <1>4 DEF ListOf
  <2> QED
    BY <2>1, <2>2
<1>6. ASSUME NEW c
      PROVE  /\ Unplaced(c)' = Unplaced(c) \ rows(c)
             /\ Entries(t, c) \in Nat /\ (Entries(t, c) = 0 <=> rows(c) = {})
             /\ Cardinality(Unplaced(c)) \in Nat
             /\ IsFiniteSet(Unplaced(c)') /\ Cardinality(Unplaced(c)') \in Nat
             /\ Cardinality(Unplaced(c)') = Cardinality(Unplaced(c)) - Entries(t, c)
  <2>1. Unplaced(c)' = {e \in Edges : e[2] = c /\ e[1] \notin ListOf(order) \cup {t}}
    BY <1>1, <1>5 DEF Unplaced, Edges
  <2>2. Unplaced(c)' = Unplaced(c) \ rows(c)
    BY <2>1 DEF Unplaced
  <2>3. rows(c) \in SUBSET Edges /\ Unplaced(c) \in SUBSET Edges
    BY DEF Unplaced
  <2>4. Unplaced(c) \cap rows(c) = rows(c)
    BY <1>3 DEF Unplaced
  <2>5. /\ IsFiniteSet(rows(c)) /\ Cardinality(rows(c)) \in Nat
        /\ IsFiniteSet(Unplaced(c)) /\ Cardinality(Unplaced(c)) \in Nat
    BY <2>3, EdgesFinite
  <2>6. Unplaced(c)' \in SUBSET Edges
    BY <2>2, <2>3
  <2>7. IsFiniteSet(Unplaced(c)') /\ Cardinality(Unplaced(c)') \in Nat
    BY <2>6, EdgesFinite
  <2>8. Entries(t, c) = Cardinality(rows(c))
    BY DEF Entries
  <2>9. Cardinality(Unplaced(c) \ rows(c)) = Cardinality(Unplaced(c)) - Cardinality(rows(c))
    BY <2>4, <2>5, FS_Difference
  <2>10. Entries(t, c) = 0 <=> rows(c) = {}
    BY <2>5, <2>8, FS_EmptySet
  <2> QED
    BY <2>2, <2>5, <2>7, <2>8, <2>9, <2>10
<1>7. ASSUME NEW c \in plan
      PROVE  degree'[c] = Cardinality(Unplaced(c)') /\ degree'[c] \in Nat
  <2>1. degree[c] = Cardinality(Unplaced(c))
    BY <1>1 DEF DegreesCount
  <2>2. degree'[c] = degree[c] - Entries(t, c)
    BY <1>1, PlacedTables
  <2> QED
    BY <2>1, <2>2, <1>6
<1>8. TypeOK'
  <2>1. degree' \in [Tables -> Nat]
    <3>1. ASSUME NEW c \in Tables \ plan PROVE degree'[c] \in Nat
      <4>1. rows(c) = {}
        BY DEF Edges
      <4>2. Entries(t, c) = 0
        BY <4>1, <1>6
      <4> QED
        BY <4>2, <1>1 DEF TypeOK
    <3> QED
      BY <1>1, <1>7, <3>1
  <2>2. ready' \subseteq plan'
    BY <1>1 DEF TypeOK
  <2> QED
    BY <1>1, <1>4, <2>1, <2>2 DEF TypeOK
<1>9. Ordered'
  <2>1. ASSUME NEW p \in Tables \ {t}, Known(p, t)
        PROVE  p \in ListOf(order)
    <3>1. PICK e \in queried : e[1] = p /\ e[2] = t
      BY <2>1 DEF Known
    <3>2. e \in Edges
      BY <2>1, <3>1, <1>3 DEF Edges
    <3> QED
      BY <3>1, <3>2, <1>3 DEF Unplaced
  <2>2. \A i \in 1 .. Len(order) : order[i] # t
    BY <1>3 DEF ListOf
  <2>3. ASSUME NEW i \in 1 .. Len(order'), NEW j \in 1 .. Len(order'), i # j
        PROVE  order'[i] # order'[j]
    BY <2>2, <2>3, <1>4 DEF Ordered
  <2>4. ASSUME NEW i \in 1 .. Len(order'), NEW p \in Tables \ {order'[i]},
               Known(p, order'[i])
        PROVE  \E j \in 1 .. i - 1 : order'[j] = p
    <3>1. CASE i = Len(order) + 1
      <4>1. p \in ListOf(order)
        BY <2>1, <2>4, <3>1, <1>4
      <4>2. PICK j \in 1 .. Len(order) : order[j] = p
        BY <4>1 DEF ListOf
      <4> QED
        BY <4>2, <3>1, <1>4
    <3>2. CASE i # Len(order) + 1
      <4>1. i \in 1 .. Len(order) /\ order'[i] = order[i]
        BY <3>2, <1>4
      <4>2. PICK j \in 1 .. i - 1 : order[j] = p
        BY <4>1, <2>4 DEF Ordered
      <4> QED
        BY <4>1, <4>2, <1>4
    <3> QED
      BY <3>1, <3>2
  <2> QED
    BY <1>1, <2>3, <2>4 DEF Ordered, Known
<1>10. DegreesCount'
  <2>1. ASSUME NEW c \in children, degree[c] - Entries(t, c) = 0
        PROVE  c \notin ListOf(order') /\ Unplaced(c)' = {}
    <3>1. Known(t, c) /\ c # t /\ c \in plan
      <4>1. rows(c) # {}
        BY <1>6
      <4> QED
        BY <4>1 DEF Edges, Known
    <3>2. c \notin ListOf(order)
      <4>1. SUFFICES ASSUME c \in ListOf(order) PROVE FALSE
        OBVIOUS
      <4>2. PICK i \in 1 .. Len(order) : order[i] = c
        BY <4>1 DEF ListOf
      <4>3. PICK j \in 1 .. i - 1 : order[j] = t
        BY <4>2, <3>1, <1>3 DEF Ordered
      <4> QED
        BY <4>2, <4>3, <1>3, <1>4 DEF ListOf
    <3>3. Cardinality(Unplaced(c)') = 0
      BY <2>1, <3>1, <1>1, <1>7, PlacedTables
    <3> QED
      BY <3>1, <3>2, <3>3, <1>5, <1>6, FS_EmptySet
  <2>2. ASSUME NEW c \in ready' PROVE c \in plan \ ListOf(order') /\ Unplaced(c)' = {}
    <3>1. CASE c \in ready \ {t}
      BY <3>1, <1>1, <1>5, <1>6 DEF DegreesCount
    <3>2. CASE c \in children /\ degree[c] - Entries(t, c) = 0
      BY <3>2, <2>1
    <3> QED
      BY <1>1, <3>1, <3>2
  <2>3. ASSUME NEW c \in plan \ ListOf(order'), Unplaced(c)' = {} PROVE c \in ready'
    <3>1. c \notin ListOf(order) /\ c # t
      BY <1>5
    <3>2. CASE Entries(t, c) > 0
      <4>1. Cardinality(Unplaced(c)') = 0
        BY <2>3, FS_EmptySet
      <4>2. degree[c] - Entries(t, c) = 0
        BY <4>1, <1>1, <1>6 DEF DegreesCount
      <4> QED
        BY <4>2, <3>2, <1>1
    <3>3. CASE ~ (Entries(t, c) > 0)
      <4>1. Unplaced(c) = {}
        BY <2>3, <3>3, <1>6
      <4> QED
        BY <4>1, <3>1, <1>1 DEF DegreesCount
    <3> QED
      BY <3>2, <3>3
  <2> QED
    BY <1>1, <1>7, <2>2, <2>3 DEF DegreesCount
<1>11. AllOrNothing' /\ OpenTransaction' /\ CompletedSoFar'
  <2>1. completed' = <<>> /\ Len(completed') = 0
    BY <1>1 DEF CompletedSoFar
  <2> QED
    BY <1>1, <1>4, <2>1 DEF AllOrNothing, OpenTransaction, CompletedSoFar
<1> QED
  BY <1>1, <1>8, <1>9, <1>10, <1>11 DEF NamesCounted

-----------------------------------------------------------------------------
(* The steps that leave the order alone. *)

(* Nothing but the order and the loaded tables is looked at any more.      *)
LEMMA OrderKept ==
  ASSUME IInv, UNCHANGED <<keys, asked, order>>
  PROVE  Ordered'
BY DEF IInv, Ordered, Known

(* The names given are tables with a file, and no fewer than the tables.   *)
LEMMA NamesOf ==
  ASSUME NEW names \in Requests
  PROVE  /\ ListOf(names) \subseteq Files /\ Len(names) \in Nat
         /\ Cardinality(ListOf(names)) <= Len(names)
<1>1. names \in Seq(Files) /\ Len(names) \in Nat
  BY BulkLoadAssumption
<1>2. names \in [1 .. Len(names) -> ListOf(names)]
  BY <1>1 DEF ListOf
<1>3. names \in Surjection(1 .. Len(names), ListOf(names))
  BY <1>2 DEF Surjection, ListOf
<1>4. Cardinality(ListOf(names)) <= Len(names)
  BY <1>1, <1>3, FS_SurjCardinalityBound DEF ExistsSurjection
<1> QED
  BY <1>1, <1>4 DEF ListOf

(* A new run begins with nothing placed and nothing completed.             *)
LEMMA StartKeeps ==
  ASSUME IInv, NEW names \in Requests, Start(names)
  PROVE  IInv'
<1> USE DEF IInv
<1>1. order' = <<>> /\ completed' = <<>> /\ phase' = "graph" /\ durable' = durable
  BY DEF Start
<1>2. Len(order') = 0 /\ Len(completed') = 0
  BY <1>1
<1>3. TypeOK'
  <2>1. plan' \subseteq Files /\ named' \in Nat
    BY NamesOf DEF Start
  <2> QED
    BY <1>1, <1>2, <2>1, EmptySeq, BulkLoadAssumption DEF Start, TypeOK
<1>4. Ordered' /\ DegreesCount' /\ AllOrNothing' /\ OpenTransaction' /\ CompletedSoFar'
  BY <1>1, <1>2 DEF Ordered, DegreesCount, AllOrNothing, OpenTransaction, CompletedSoFar
<1>5. NamesCounted'
  BY NamesOf DEF Start, NamesCounted
<1> QED
  BY <1>3, <1>4, <1>5

(* A step that ends a run, or goes on to load, with every table as it was. *)
LEMMA DurableKept ==
  ASSUME IInv, UNCHANGED <<keys, asked, graph, completed, durable>>,
         phase' \notin {"graph", "order"}, TypeOK', OpenTransaction',
         phase' \in {"table", "rows"} => Len(completed) = at' - 1 /\ at' >= 1
  PROVE  IInv'
<1>1. Ordered'
  BY OrderKept DEF graph
<1>2. NamesCounted' /\ DegreesCount' /\ AllOrNothing' /\ CompletedSoFar'
  BY DEF IInv, graph, NamesCounted, DegreesCount, AllOrNothing, CompletedSoFar
<1> QED
  BY <1>1, <1>2 DEF IInv

(* A row goes into the transaction only if its table is empty.             *)
LEMMA InsertRowKeeps ==
  ASSUME IInv, InsertRow
  PROVE  IInv'
<1> USE DEF IInv
<1>1. /\ phase = "rows" /\ phase' = "rows" /\ tx' = tx + 1 /\ tx < RowsIn[Table]
      /\ ~ (durable[Table] > 0)
      /\ UNCHANGED <<keys, asked, graph, at, completed, durable, exit, runs, faults>>
  BY DEF InsertRow, Insert, Duplicate, bounds
<1>2. at \in 1 .. Len(order) /\ Table \in Tables /\ Table' = Table
  BY <1>1, PlacedTables DEF OpenTransaction, Table, graph
<1>3. durable[Table] \in Nat /\ RowsIn[Table] \in Nat /\ tx \in Nat
  BY <1>2, PlacedTables DEF TypeOK
<1>4. OpenTransaction'
  BY <1>1, <1>2, <1>3 DEF OpenTransaction, graph
<1>5. TypeOK'
  BY <1>1, <1>3 DEF TypeOK, graph
<1> QED
  BY <1>1, <1>4, <1>5, DurableKept DEF CompletedSoFar

(* What COMMIT makes durable is a whole table that had no row before.      *)
LEMMA CommittedWhole ==
  ASSUME IInv, phase = "rows", tx = RowsIn[Table]
  PROVE  /\ Table \in Tables /\ at \in 1 .. Len(order)
         /\ durable[Table] + tx = RowsIn[Table]
         /\ [durable EXCEPT ![Table] = @ + tx] = [durable EXCEPT ![Table] = RowsIn[Table]]
<1>1. Table \in Tables /\ at \in 1 .. Len(order)
  BY PlacedTables DEF IInv, OpenTransaction
<1>2. /\ durable \in [Tables -> Nat] /\ durable[Table] \in Nat /\ RowsIn[Table] \in Nat
      /\ durable[Table] \in {0, RowsIn[Table]}
  BY <1>1, PlacedTables DEF IInv, TypeOK, AllOrNothing
<1>3. tx > 0 => durable[Table] = 0
  BY DEF IInv, OpenTransaction
<1>4. durable[Table] + tx = RowsIn[Table]
  BY <1>2, <1>3
<1> QED
  BY <1>1, <1>2, <1>4

(* The table committed is the next one of the order.                       *)
LEMMA CommitTableKeeps ==
  ASSUME IInv, CommitTable
  PROVE  IInv'
<1> USE DEF IInv
<1>1. /\ phase = "rows" /\ phase' = "table" /\ tx = RowsIn[Table]
      /\ tx' = 0 /\ at' = at + 1
      /\ completed' = Append(completed, Table)
      /\ UNCHANGED <<keys, asked, graph, exit, runs, faults>>
  BY DEF CommitTable, bounds
<1>2. /\ Table \in Tables /\ at \in 1 .. Len(order)
      /\ durable' = [durable EXCEPT ![Table] = RowsIn[Table]]
  BY <1>1, CommittedWhole DEF CommitTable
<1>3. RowsIn[Table] \in Nat /\ durable \in [Tables -> Nat] /\ completed \in Seq(Tables)
      /\ Len(order) \in Nat
  BY <1>2, PlacedTables DEF TypeOK
<1>4. /\ Len(completed) = at - 1 /\ Len(completed') = at /\ completed' \in Seq(Tables)
      /\ \A i \in 1 .. at - 1 : completed'[i] = completed[i]
      /\ completed'[at] = order[at]
  BY <1>1, <1>2, <1>3 DEF CompletedSoFar, Table
<1>5. TypeOK'
  BY <1>1, <1>2, <1>3, <1>4 DEF TypeOK, graph
<1>6. AllOrNothing'
  BY <1>2, <1>3 DEF AllOrNothing
<1>7. CompletedSoFar'
  <2>1. ASSUME NEW i \in 1 .. at
        PROVE  completed'[i] = order[i] /\ durable'[order[i]] = RowsIn[order[i]]
    <3>1. order[i] \in Tables
      BY <1>2, PlacedTables
    <3>2. CASE i = at
      BY <3>2, <1>2, <1>3, <1>4 DEF Table
    <3>3. CASE i # at
      <4>1. i \in 1 .. at - 1 /\ i \in 1 .. Len(completed)
        BY <3>3, <1>2, <1>4
      <4>2. completed[i] = order[i] /\ durable[order[i]] = RowsIn[order[i]]
        BY <4>1 DEF CompletedSoFar
      <4> QED
        BY <4>1, <4>2, <3>1, <1>2, <1>3, <1>4
    <3> QED
      BY <3>2, <3>3
  <2> QED
    BY <1>1, <1>2, <1>4, <2>1 DEF CompletedSoFar, graph
<1>8. NamesCounted' /\ Ordered' /\ DegreesCount' /\ OpenTransaction'
  BY <1>1, OrderKept DEF graph, NamesCounted, DegreesCount, OpenTransaction
<1> QED
  BY <1>5, <1>6, <1>7, <1>8

(* A COMMIT whose answer is lost ends the load with or without the table.  *)
LEMMA CommitFailsKeeps ==
  ASSUME IInv, CommitFails
  PROVE  IInv'
<1> USE DEF IInv
<1>1. /\ phase = "rows" /\ phase' = "idle" /\ tx = RowsIn[Table] /\ tx' = 0
      /\ UNCHANGED <<keys, asked, graph, at, completed, runs>>
      /\ durable' \in {durable, [durable EXCEPT ![Table] = RowsIn[Table]]}
  BY CommittedWhole DEF CommitFails, Ended
<1>2. Table \in Tables /\ RowsIn[Table] \in Nat /\ durable \in [Tables -> Nat]
  BY <1>1, CommittedWhole, PlacedTables DEF TypeOK
<1>3. TypeOK'
  <2>1. exit' = "error" /\ faults' \in 0 .. MaxFaults
    BY BulkLoadAssumption DEF CommitFails, Fail, Ended, TypeOK
  <2>2. durable' \in [Tables -> Nat]
    BY <1>1, <1>2
  <2> QED
    BY <1>1, <2>1, <2>2 DEF TypeOK, Endings, graph
<1>4. AllOrNothing'
  BY <1>1, <1>2 DEF AllOrNothing
<1>5. CompletedSoFar'
  <2>1. ASSUME NEW i \in 1 .. Len(completed)
        PROVE  completed[i] = order[i] /\ durable'[order[i]] = RowsIn[order[i]]
    <3>1. i \in 1 .. Len(order)
      BY PlacedTables DEF CompletedSoFar, TypeOK
    <3> QED
      BY <3>1, <1>1, <1>2, PlacedTables DEF CompletedSoFar
  <2> QED
    BY <1>1, <2>1 DEF CompletedSoFar, graph
<1>6. NamesCounted' /\ Ordered' /\ DegreesCount' /\ OpenTransaction'
  BY <1>1, OrderKept DEF graph, NamesCounted, DegreesCount, OpenTransaction
<1> QED
  BY <1>3, <1>4, <1>5, <1>6

(* A run that ends, however it ends, leaves what was committed.            *)
LEMMA EndKeeps ==
  ASSUME IInv, UNCHANGED <<keys, asked, graph, at, completed, durable, runs>>,
         phase' = "idle", exit' \in Endings, tx' \in {0, tx},
         UNCHANGED faults \/ Fail
  PROVE  IInv'
<1>1. faults' \in 0 .. MaxFaults
  BY BulkLoadAssumption DEF IInv, TypeOK, Fail
<1>2. TypeOK'
  BY <1>1 DEF IInv, TypeOK, graph
<1>3. OpenTransaction'
  BY DEF OpenTransaction
<1> QED
  BY <1>2, <1>3, DurableKept

(* The first table follows the record of intent, the rows follow BEGIN.    *)
LEMMA RecordIntentKeeps ==
  ASSUME IInv, RecordIntent
  PROVE  IInv'
<1>1. /\ phase = "order" /\ phase' = "table" /\ at' = 1
      /\ UNCHANGED <<keys, asked, graph, tx, completed, durable, exit, runs, faults>>
  BY DEF RecordIntent, Planned, bounds
<1>2. TypeOK'
  BY <1>1, PlacedTables DEF IInv, TypeOK, graph
<1>3. OpenTransaction' /\ Len(completed) = 0
  BY <1>1 DEF IInv, OpenTransaction, CompletedSoFar
<1> QED
  BY <1>1, <1>2, <1>3, DurableKept

LEMMA BeginTableKeeps ==
  ASSUME IInv, BeginTable
  PROVE  IInv'
<1>1. /\ phase = "table" /\ phase' = "rows" /\ tx' = 0 /\ at <= Len(order)
      /\ UNCHANGED <<keys, asked, graph, at, completed, durable, exit, runs, faults>>
  BY DEF BeginTable, bounds
<1>2. TypeOK'
  BY <1>1 DEF IInv, TypeOK, graph
<1>3. at \in 1 .. Len(order) /\ Len(completed) = at - 1
  BY <1>1, PlacedTables DEF IInv, TypeOK, CompletedSoFar
<1>4. Table \in Tables /\ RowsIn[Table] \in Nat
  BY <1>3, PlacedTables DEF IInv
<1>5. OpenTransaction'
  BY <1>1, <1>3, <1>4 DEF OpenTransaction, Table, graph
<1> QED
  BY <1>1, <1>2, <1>3, <1>5, DurableKept

(* --allow-write missing: no run, nothing moves but the exit code.         *)
LEMMA RefuseKeeps ==
  ASSUME IInv, Refuse
  PROVE  IInv'
<1>1. /\ phase = "idle" /\ phase' = "idle" /\ exit' = "refused" /\ runs' = runs + 1
      /\ runs < MaxRuns
      /\ UNCHANGED <<keys, asked, graph, at, tx, completed, durable, faults>>
  BY DEF Refuse
<1>2. TypeOK'
  BY <1>1, BulkLoadAssumption DEF IInv, TypeOK, Endings, graph
<1>3. OpenTransaction'
  BY <1>1 DEF OpenTransaction
<1> QED
  BY <1>1, <1>2, <1>3, DurableKept

-----------------------------------------------------------------------------
(* The invariant, and what follows from it. *)

LEMMA NextKeeps ==
  ASSUME IInv, Next
  PROVE  IInv'
<1>1. CASE \E names \in Requests : Start(names)
  BY <1>1, StartKeeps
<1>2. CASE Refuse
  BY <1>2, RefuseKeeps
<1>3. CASE CountDegrees
  BY <1>3, CountDegreesKeeps
<1>4. CASE PopReady
  BY <1>4, PopReadyKeeps
<1>5. CASE CycleError
  BY <1>5, EndKeeps DEF CycleError, Ended, Endings, bounds
<1>6. CASE DryRun
  BY <1>6, EndKeeps DEF DryRun, Ended, Endings, bounds
<1>7. CASE RecordIntent
  BY <1>7, RecordIntentKeeps
<1>8. CASE BeginTable
  BY <1>8, BeginTableKeeps
<1>9. CASE InsertRow
  BY <1>9, InsertRowKeeps
<1>10. CASE RowRejected
  BY <1>10, EndKeeps DEF RowRejected, RolledBack, Ended, Endings
<1>11. CASE CommitTable
  BY <1>11, CommitTableKeeps
<1>12. CASE Loaded
  BY <1>12, EndKeeps DEF Loaded, Ended, Endings, bounds
<1>13. CASE PlanFails
  BY <1>13, EndKeeps DEF PlanFails, Ended, Endings
<1>14. CASE BeginFails
  BY <1>14, EndKeeps DEF BeginFails, Ended, Endings
<1>15. CASE RowFails
  BY <1>15, EndKeeps DEF RowFails, RolledBack, Ended, Endings
<1>16. CASE CommitFails
  BY <1>16, CommitFailsKeeps
<1>17. CASE Kill
  BY <1>17, EndKeeps DEF Kill, Ended, Endings
<1> QED
  BY <1>1, <1>2, <1>3, <1>4, <1>5, <1>6, <1>7, <1>8, <1>9, <1>10, <1>11, <1>12,
     <1>13, <1>14, <1>15, <1>16, <1>17 DEF Next, Proceed

LEMMA StutterKeeps ==
  ASSUME IInv, UNCHANGED vars
  PROVE  IInv'
<1>1. TypeOK'
  BY DEF vars, graph, bounds, IInv, TypeOK
<1>2. NamesCounted' /\ Ordered' /\ AllOrNothing' /\ CompletedSoFar'
  BY OrderKept DEF vars, graph, IInv, NamesCounted, AllOrNothing, CompletedSoFar
<1>3. OpenTransaction'
  BY DEF vars, graph, IInv, OpenTransaction, Table
<1>4. DegreesCount'
  <2>1. \A c : Unplaced(c)' = Unplaced(c)
    BY DEF vars, graph, Unplaced, Edges, ListOf
  <2> QED
    BY <2>1 DEF vars, graph, IInv, DegreesCount, ListOf
<1> QED
  BY <1>1, <1>2, <1>3, <1>4 DEF IInv

(* The inductive invariant of the load command.                            *)
THEOREM Invariant == Spec => []IInv
<1>1. Init => IInv
  BY InitInvariant
<1>2. IInv /\ [Next]_vars => IInv'
  BY NextKeeps, StutterKeeps
<1> QED
  BY <1>1, <1>2, PTL DEF Spec

(* Type correctness; the degree of a table never goes below zero, which    *)
(* the code's unsigned in_degree could not represent (plan.rs:384-426).    *)
THEOREM TypeCorrect == Spec => []TypeOK
<1>1. IInv => TypeOK
  BY DEF IInv
<1> QED
  BY <1>1, Invariant, PTL

(* stable_topo_order places each table once and after its parents, in      *)
(* whatever order the schema names them (plan.rs:384-426).                 *)
THEOREM LoadOrder == Spec => []ParentsFirst
<1>1. IInv => ParentsFirst
  BY PlacedTables DEF IInv, Ordered, ParentsFirst
<1> QED
  BY <1>1, Invariant, PTL

(* No failure, lost answer or repeated run leaves a table half loaded      *)
(* (loader.rs:229-321).                                                    *)
THEOREM WholeTables == Spec => []AllOrNothing
<1>1. IInv => AllOrNothing
  BY DEF IInv
<1> QED
  BY <1>1, Invariant, PTL

(* The tables an error reports as completed are a prefix of the load order *)
(* and all of their rows are durable (loader.rs:147-222).                  *)
THEOREM CompletedReported == Spec => []CompletedIsPrefix
<1>1. ASSUME IInv PROVE CompletedIsPrefix
  <2>1. /\ completed \in Seq(Tables) /\ order \in Seq(Tables)
        /\ Len(completed) \in Nat /\ Len(completed) <= Len(order)
    <3>1. order \in Seq(plan) /\ plan \subseteq Tables /\ completed \in Seq(Tables)
      BY <1>1, PlacedTables DEF IInv, TypeOK
    <3> QED
      BY <3>1, <1>1, SeqMonotonic DEF IInv, CompletedSoFar
  <2>2. completed = SubSeq(order, 1, Len(completed))
    <3> DEFINE first == SubSeq(order, 1, Len(completed))
    <3>1. /\ first \in Seq(Tables) /\ Len(first) = Len(completed)
          /\ \A i \in 1 .. Len(completed) : first[i] = order[i]
      BY <2>1
    <3> HIDE DEF first
    <3>2. \A i \in 1 .. Len(completed) : completed[i] = first[i]
      BY <1>1, <3>1 DEF IInv, CompletedSoFar
    <3>3. completed = first
      BY <2>1, <3>1, <3>2, SeqEqual
    <3> QED
      BY <3>3 DEF first
  <2>3. \A t \in ListOf(completed) : durable[t] = RowsIn[t]
    BY <1>1 DEF IInv, CompletedSoFar, ListOf
  <2> QED
    BY <2>2, <2>3 DEF CompletedIsPrefix
<1> QED
  BY <1>1, Invariant, PTL

-----------------------------------------------------------------------------
(* Cycles. *)

(* The order has as many tables as it is long.                             *)
LEMMA PlacedCount ==
  ASSUME IInv
  PROVE  /\ ListOf(order) \in SUBSET plan
         /\ IsFiniteSet(plan) /\ Cardinality(ListOf(order)) = Len(order)
<1>1. /\ order \in [1 .. Len(order) -> ListOf(order)] /\ Len(order) \in Nat
      /\ ListOf(order) \in SUBSET plan /\ plan \in SUBSET Tables
  BY PlacedTables DEF IInv, TypeOK, ListOf
<1>2. IsFiniteSet(plan)
  BY <1>1, FS_Subset, BulkLoadAssumption
<1>3. order \in Bijection(1 .. Len(order), ListOf(order))
  <2>1. \A i, j \in 1 .. Len(order) : order[i] = order[j] => i = j
    BY DEF IInv, Ordered
  <2>2. \A t \in ListOf(order) : \E i \in 1 .. Len(order) : order[i] = t
    BY DEF ListOf
  <2> QED
    BY <1>1, <2>1, <2>2, Fun_IsBij
<1>4. ExistsBijection(1 .. Len(order), ListOf(order))
  BY <1>3 DEF ExistsBijection
<1> QED
  BY <1>1, <1>2, <1>4, FS_CountingElements

(* When no table is ready, those left over refer to each other.            *)
LEMMA LeftOverIsCycle ==
  ASSUME IInv, phase = "order", ready = {}, Len(order) # named
  PROVE  HasCycle(plan) \/ ~Closed(plan) \/ Repeated
<1> SUFFICES ASSUME Closed(plan), named = Cardinality(plan)
             PROVE  HasCycle(plan)
  BY DEF Repeated
<1> DEFINE c == plan \ ListOf(order)
<1>1. c \in (SUBSET plan) \ {{}}
  <2>1. c = {} => ListOf(order) = plan
    BY PlacedCount
  <2> QED
    BY <2>1, PlacedCount
<1>2. ASSUME NEW t \in c PROVE \E p \in c \ {t} : Known(p, t)
  <2>1. Unplaced(t) # {}
    BY DEF IInv, DegreesCount
  <2>2. PICK e \in Edges : e[2] = t /\ e[1] \notin ListOf(order)
    BY <2>1 DEF Unplaced
  <2>3. e \in queried /\ e[1] # t /\ Known(e[1], t)
    BY <2>2 DEF Edges, Known
  <2>4. e[1] \in plan
    BY <2>2, <2>3 DEF Closed
  <2> QED
    BY <2>2, <2>3, <2>4
<1> QED
  BY <1>1, <1>2 DEF HasCycle

(* A complete order has placed every table, and each name was given once.  *)
LEMMA CompleteOrder ==
  ASSUME IInv, Len(order) = named
  PROVE  ListOf(order) = plan /\ ~Repeated
<1>1. /\ Cardinality(ListOf(order)) = named
      /\ Cardinality(ListOf(order)) <= Cardinality(plan)
      /\ Cardinality(plan) <= named
      /\ Cardinality(plan) \in Nat /\ named \in Nat
  BY PlacedCount, FS_Subset, FS_CardinalityType DEF IInv, TypeOK, NamesCounted
<1>2. Cardinality(plan) = named
  BY <1>1
<1> QED
  BY <1>1, <1>2, PlacedCount, FS_Subset DEF Repeated

(* It leaves no table out that a placed one refers to.                     *)
LEMMA CompleteOrderClosed ==
  ASSUME IInv, Len(order) = named
  PROVE  Closed(plan)
<1>1. SUFFICES ASSUME NEW e \in queried, e[2] \in plan
               PROVE  e[1] \in plan
  BY DEF Closed
<1>2. PICK i \in 1 .. Len(order) : order[i] = e[2]
  BY <1>1, CompleteOrder DEF ListOf
<1>3. CASE e[1] = e[2]
  BY <1>1, <1>3
<1>4. CASE e[1] # e[2]
  <2>1. e[1] \in Tables
    BY EdgesFinite DEF IInv
  <2>2. Known(e[1], order[i])
    BY <1>2 DEF Known
  <2>3. PICK j \in 1 .. i - 1 : order[j] = e[1]
    BY <1>2, <1>4, <2>1, <2>2 DEF IInv, Ordered
  <2> QED
    BY <2>3, PlacedTables DEF IInv
<1> QED
  BY <1>3, <1>4

(* It leaves no cycle: its first table would come after another one of     *)
(* them.                                                                   *)
LEMMA CompleteOrderNoCycle ==
  ASSUME IInv, Len(order) = named
  PROVE  ~HasCycle(plan)
<1>1. ListOf(order) = plan
  BY CompleteOrder
<1>2. SUFFICES ASSUME NEW c \in (SUBSET plan) \ {{}},
                      \A t \in c : \E p \in c \ {t} : Known(p, t)
               PROVE  FALSE
  BY DEF HasCycle
<1> DEFINE placedAt == {i \in 1 .. Len(order) : order[i] \in c}
<1>3. placedAt # {} /\ placedAt \subseteq Nat
  BY <1>1 DEF ListOf
<1>4. PICK i \in placedAt : \A j \in placedAt : i <= j
  BY <1>3, LeastNat
<1>5. PICK p \in c \ {order[i]} : Known(p, order[i])
  BY <1>2
<1>6. p \in Tables
  BY PlacedTables DEF IInv
<1>7. PICK j \in 1 .. i - 1 : order[j] = p
  BY <1>5, <1>6 DEF IInv, Ordered
<1>8. j \in placedAt /\ j < i
  BY <1>5, <1>7, PlacedTables DEF IInv
<1> QED
  BY <1>4, <1>8

LEMMA NextRefusesCycles ==
  ASSUME IInv, CyclesRefused, [Next]_vars
  PROVE  CyclesRefused'
<1>0. ASSUME UNCHANGED <<keys, asked>>
      PROVE  /\ HasCycle(plan)' = HasCycle(plan) /\ Closed(plan)' = Closed(plan)
             /\ Repeated' = Repeated
  BY <1>0 DEF HasCycle, Known, Closed, Repeated
<1>1. CASE CycleError
  <2>1. HasCycle(plan) \/ ~Closed(plan) \/ Repeated
    BY <1>1, LeftOverIsCycle DEF CycleError
  <2> QED
    BY <1>0, <1>1, <2>1 DEF CycleError, Ended, CyclesRefused
<1>2. CASE RecordIntent
  <2>1. ~HasCycle(plan) /\ Closed(plan) /\ ~Repeated
    BY <1>2, CompleteOrder, CompleteOrderClosed, CompleteOrderNoCycle DEF RecordIntent, Planned
  <2>2. exit' = "cycle" => exit = "cycle"
    BY <1>2 DEF RecordIntent
  <2> QED
    BY <1>0, <1>2, <2>1, <2>2 DEF RecordIntent, CyclesRefused
<1>3. CASE \E names \in Requests : Start(names)
  BY <1>3 DEF Start, CyclesRefused
<1>4. ASSUME UNCHANGED <<keys, asked>>, exit' = "cycle" => exit = "cycle",
             phase' \in {"table", "rows"} => phase \in {"table", "rows"}
      PROVE  CyclesRefused'
  BY <1>0, <1>4 DEF CyclesRefused
<1>5. CASE Refuse \/ CountDegrees \/ PopReady \/ DryRun \/ BeginTable
  BY <1>4, <1>5 DEF Refuse, CountDegrees, PopReady, DryRun, Ended, BeginTable
<1>6. CASE InsertRow \/ RowRejected \/ CommitTable \/ Loaded
  BY <1>4, <1>6 DEF InsertRow, RowRejected, RolledBack, CommitTable, Loaded, Ended
<1>7. CASE PlanFails \/ BeginFails \/ RowFails \/ CommitFails \/ Kill
  BY <1>4, <1>7 DEF PlanFails, BeginFails, RowFails, RolledBack, CommitFails, Kill, Ended
<1>8. CASE UNCHANGED vars
  BY <1>4, <1>8 DEF vars
<1> QED
  BY <1>1, <1>2, <1>3, <1>5, <1>6, <1>7, <1>8 DEF Next, Proceed

(* A run ends with "foreign key cycle" only for a cycle of the keys it     *)
(* knows, a referenced table outside the plan or a name given twice, and   *)
(* never loads with any of them; rows of the query that repeat a pair of   *)
(* tables make no difference (plan.rs:107, 266-278, 389-424).              *)
THEOREM CycleDetection == Spec => []CyclesRefused
<1>1. Init => CyclesRefused
  BY DEF Init, CyclesRefused
<1> QED
  BY <1>1, Invariant, NextRefusesCycles, PTL DEF Spec

-----------------------------------------------------------------------------
(* What the order is for. *)

(* While a table is loaded, all tables it is known to refer to are there.  *)
LEMMA NoOrphan ==
  ASSUME IInv, phase = "rows", NEW p \in Tables, Known(p, Table)
  PROVE  ~MissingParent(p)
<1>1. at \in 1 .. Len(order) /\ Len(completed) = at - 1
  BY DEF IInv, OpenTransaction, CompletedSoFar
<1>2. SUFFICES ASSUME p # order[at]
               PROVE  ~ (durable[p] < RowsIn[p])
  BY DEF MissingParent, Table
<1>3. PICK j \in 1 .. at - 1 : order[j] = p
  BY <1>1, <1>2 DEF IInv, Ordered, Table
<1>4. durable[p] = RowsIn[p]
  BY <1>1, <1>3 DEF IInv, CompletedSoFar
<1>5. RowsIn[p] \in Nat
  BY PlacedTables DEF IInv
<1> QED
  BY <1>4, <1>5

(* A run that goes on has no exit code yet.                                *)
RejectedForCause ==
  /\ exit = "foreign_key" => phase = "idle"
  /\ ForeignKeysHold

(* The row that ends a run was rejected under such a key, or in such a     *)
(* file.                                                                   *)
LEMMA RejectedRow ==
  ASSUME IInv, RowRejected, exit' = "foreign_key"
  PROVE  Unforeseen'
<1>1. Orphan /\ phase = "rows"
  BY DEF RowRejected, RolledBack, Ended
<1>2. \A p \in Tables : Known(p, Table) => ~MissingParent(p)
  BY <1>1, NoOrphan
<1>3. Unforeseen
  <2>1. CASE \E p \in Tables : MissingParent(p)
    BY <1>2, <2>1 DEF Unforeseen
  <2>2. CASE \E r \in SelfRefs[Table] : MissingRow(r)
    BY <1>2, <2>2 DEF Unforeseen, MissingRow
  <2> QED
    BY <1>1, <2>1, <2>2 DEF Orphan
<1>4. UNCHANGED <<keys, asked, graph, at, durable>>
  BY DEF RowRejected, RolledBack
<1> QED
  BY <1>3, <1>4 DEF Unforeseen, Known, MissingParent, Table, graph

LEMMA NextRejectsForCause ==
  ASSUME IInv, RejectedForCause, [Next]_vars
  PROVE  RejectedForCause'
<1>1. CASE RowRejected
  <2>1. phase' = "idle"
    BY <1>1 DEF RowRejected, RolledBack, Ended
  <2>2. ForeignKeysHold'
    BY <1>1, RejectedRow DEF ForeignKeysHold
  <2> QED
    BY <2>1, <2>2 DEF RejectedForCause
<1>2. ASSUME exit' # "foreign_key"
      PROVE  RejectedForCause'
  BY <1>2 DEF RejectedForCause, ForeignKeysHold
<1>3. CASE (\E names \in Requests : Start(names)) \/ Refuse
  BY <1>2, <1>3 DEF Start, Refuse
<1>4. CASE CycleError \/ DryRun \/ Loaded
  BY <1>2, <1>4 DEF CycleError, DryRun, Loaded, Ended
<1>5. CASE PlanFails \/ BeginFails \/ RowFails \/ CommitFails \/ Kill
  BY <1>2, <1>5 DEF PlanFails, BeginFails, RowFails, RolledBack, CommitFails, Kill, Ended
<1>6. ASSUME phase # "idle", exit' = exit
      PROVE  RejectedForCause'
  BY <1>2, <1>6 DEF RejectedForCause
<1>7. CASE CountDegrees \/ PopReady \/ RecordIntent \/ BeginTable \/ InsertRow \/ CommitTable
  BY <1>6, <1>7 DEF CountDegrees, PopReady, RecordIntent, Planned, BeginTable, InsertRow,
     CommitTable
<1>8. CASE UNCHANGED vars
  BY <1>8 DEF vars, graph, RejectedForCause, ForeignKeysHold, Unforeseen, Known, MissingParent, Table
<1> QED
  BY <1>1, <1>3, <1>4, <1>5, <1>7, <1>8 DEF Next, Proceed

(* A row is rejected for a missing parent only under a key that was not    *)
(* queried, or in a file that lists a row before the one it refers to;     *)
(* never under a key of the load order, whatever was asked for and         *)
(* whatever the runs before did (plan.rs:159-176, 384-426;                 *)
(* loader.rs:272-296).                                                     *)
THEOREM NoForeignKeyError == Spec => []ForeignKeysHold
<1>1. Init => RejectedForCause
  BY DEF Init, RejectedForCause, ForeignKeysHold
<1>2. IInv /\ RejectedForCause /\ [Next]_vars => RejectedForCause'
  BY NextRejectsForCause
<1>3. RejectedForCause => ForeignKeysHold
  BY DEF RejectedForCause
<1> QED
  BY <1>1, <1>2, <1>3, Invariant, PTL DEF Spec
=============================================================================
