------------------------------ MODULE BulkLoad ------------------------------
(***************************************************************************)
(* `hepta_dbcli load': runs of the command that insert data files into a   *)
(* database whose tables reference each other, failing and being retried.  *)
(*                                                                         *)
(* Follows load::run (mod.rs), load::plan::build_plan with its load order  *)
(* (plan.rs) and load::loader::execute / load_table (loader.rs).  The      *)
(* database is external: it keeps rows by transaction and enforces primary *)
(* and foreign keys.                                                       *)
(*                                                                         *)
(* Abstractions.  A table is the rank of its name in the alphabet; a file  *)
(* is a number of rows, whose references to another table resolve when the *)
(* whole file of that table is in the database, and whose references to    *)
(* the table itself are given row by row.  Everything that can go wrong    *)
(* between two statements (file, conversion, server, an Oracle backend     *)
(* that cannot commit) is one fault.                                       *)
(***************************************************************************)
EXTENDS Integers, Sequences, FiniteSets, FiniteSetsExt

CONSTANTS
  Tables,      \* tables of the schema, ranked by name
  Files,       \* those that have a data file; the others hold data already
  RowsIn,      \* table -> rows of its file
  SelfRefs,    \* table -> <<row, row of the same file it refers to>>
  Requests,    \* lists of names that --tables or the directory may give
  ForeignKeys, \* [enforced, queried]: the foreign keys the schema may have
  MaxRuns,     \* bound: runs of the command
  MaxFaults    \* bound: failures

ASSUME BulkLoadAssumption ==
  /\ Tables \subseteq Nat /\ IsFiniteSet(Tables)
  /\ Files \subseteq Tables
  /\ RowsIn \in [Tables -> Nat]
  /\ SelfRefs \in [Tables -> SUBSET (Nat \X Nat)]
  /\ Requests \subseteq Seq(Files)
  /\ ForeignKeys \subseteq [enforced : SUBSET (Tables \X Tables),
                          queried : SUBSET (Tables \X Tables \X Nat)]
  /\ \A k \in ForeignKeys : IsFiniteSet(k.queried)
  /\ {MaxRuns, MaxFaults} \subseteq Nat

VARIABLES
  enforced,   \* <<parent, child>>: foreign keys the database enforces
  queried,    \* <<parent, child, n>>: rows of foreign_keys_sql for one schema
  plan,       \* tables this run loads: the keys of in_degree
  named,      \* nodes.len(): their names as given, repetitions included
  degree,     \* in_degree of stable_topo_order
  ready,      \* its ready set
  order,      \* LoadPlan.entries, as they are put in order
  phase,      \* what the run does next
  at,         \* position in order of the table being loaded
  tx,         \* rows of that table inserted by the open transaction
  completed,  \* tables execute() has committed, in order
  durable,    \* table -> committed rows
  exit,       \* "none" | "ok" | "refused" | "cycle" | "foreign_key" | "duplicate" | "error"
  runs, faults

keys == <<enforced, queried>>
asked == <<plan, named>>
graph == <<degree, ready, order>>
bounds == <<runs, faults>>
vars == <<keys, asked, graph, phase, at, tx, completed, durable, exit,
          bounds>>

Fail == faults < MaxFaults /\ faults' = faults + 1
ListOf(s) == {s[i] : i \in 1 .. Len(s)}

-----------------------------------------------------------------------------
(***************************************************************************)
(* The load order: plan::fk_edges and plan::stable_topo_order.             *)
(***************************************************************************)
(* One edge for each row of the query, several where two tables have       *)
(* several keys or one of several columns.  Self-references are dropped,   *)
(* edges to tables outside the plan ignored.                               *)
Edges == {e \in queried : e[1] # e[2] /\ e[2] \in plan}

(* in_degree counts a parent whether or not it is in the plan.             *)
InDegree(t) == Cardinality({e \in Edges : e[2] = t})

(* How often c stands in children[p].                                      *)
EntriesOnce(p, c) == IF \E e \in Edges : e[1] = p /\ e[2] = c THEN 1 ELSE 0
Entries(p, c) == Cardinality({e \in Edges : e[1] = p /\ e[2] = c})

IsReadyEarly(d) == d <= 1
IsReady(d) == d = 0

(* load::run up to the plan.  A name that --tables repeats is read twice   *)
(* and counted twice, but is one key of in_degree and of by_table.         *)
Start(names) ==
  /\ phase = "idle" /\ runs < MaxRuns
  /\ plan' = ListOf(names) /\ named' = Len(names)
  /\ runs' = runs + 1
  /\ degree' = [t \in Tables |-> 0] /\ ready' = {} /\ order' = <<>>
  /\ at' = 0 /\ tx' = 0 /\ completed' = <<>> /\ exit' = "none"
  /\ phase' = "graph"
  /\ UNCHANGED <<keys, durable, faults>>

(* Without --allow-write nothing is even connected.                        *)
Refuse ==
  /\ phase = "idle" /\ runs < MaxRuns
  /\ exit' = "refused"
  /\ runs' = runs + 1
  /\ UNCHANGED <<keys, asked, graph, phase, at, tx, completed, durable,
                 faults>>

CountDegrees ==
  /\ phase = "graph"
  /\ degree' = [t \in Tables |-> InDegree(t)]
  /\ ready' = {t \in plan : IsReady(InDegree(t))}
  /\ phase' = "order"
  /\ UNCHANGED <<keys, asked, order, at, tx, completed, durable, exit,
                 bounds>>

(* pop_first: the alphabetically first ready table goes next.              *)
PopReady ==
  /\ phase = "order" /\ ready # {}
  /\ LET t == Min(ready)
         children == {c \in plan : Entries(t, c) > 0}
     IN  /\ order' = Append(order, t)
         /\ degree' = [c \in Tables |-> degree[c] - Entries(t, c)]
         /\ ready' = (ready \ {t}) \cup {c \in children : IsReady(degree[c] - Entries(t, c))}
  /\ UNCHANGED <<keys, asked, phase, at, tx, completed, durable, exit,
                 bounds>>

Ended(how) == exit' = how /\ phase' = "idle"

(* order.len() != nodes.len(): tables are left whose degree never came     *)
(* down to zero, or a name was given more than once.                       *)
CycleError ==
  /\ phase = "order" /\ ready = {}
  /\ Len(order) # named
  /\ Ended("cycle")
  /\ UNCHANGED <<keys, asked, graph, at, tx, completed, durable, bounds>>

Planned == phase = "order" /\ ready = {} /\ Len(order) = named

(* --dry-run prints the plan and stops.                                    *)
DryRun ==
  /\ Planned
  /\ Ended("ok")
  /\ UNCHANGED <<keys, asked, graph, at, tx, completed, durable, bounds>>

(* Fail-closed: the load begins only once its intent has been recorded.    *)
RecordIntent ==
  /\ Planned
  /\ at' = 1
  /\ phase' = "table"
  /\ UNCHANGED <<keys, asked, graph, tx, completed, durable, exit, bounds>>

(* Any query of the planning phase, or the audit record, fails.            *)
PlanFails ==
  /\ phase = "graph" \/ Planned
  /\ Fail
  /\ Ended("error")
  /\ UNCHANGED <<keys, asked, graph, at, tx, completed, durable, runs>>

-----------------------------------------------------------------------------
(***************************************************************************)
(* loader::execute, one table after the other; loader::load_table.         *)
(***************************************************************************)
Table == order[at]

(* Column types, the file read again, BEGIN.                               *)
BeginTable ==
  /\ phase = "table" /\ at <= Len(order)
  /\ tx' = 0
  /\ phase' = "rows"
  /\ UNCHANGED <<keys, asked, graph, at, completed, durable, exit, bounds>>

BeginFails ==
  /\ phase = "table" /\ at <= Len(order)
  /\ Fail
  /\ Ended("error")
  /\ UNCHANGED <<keys, asked, graph, at, tx, completed, durable, runs>>

(* The database checks each row as it is inserted: it needs a key of its   *)
(* own, the rows of other tables it refers to, and those of its own table, *)
(* which are there if they come before it in the file.                     *)
MissingParent(p) == p # Table /\ <<p, Table>> \in enforced /\ durable[p] < RowsIn[p]
MissingRow(r) == <<Table, Table>> \in enforced /\ r[1] = tx + 1 /\ r[2] > r[1]
Orphan ==
  \/ \E p \in Tables : MissingParent(p)
  \/ \E r \in SelfRefs[Table] : MissingRow(r)
Duplicate == durable[Table] > 0

(* Where an inserted row goes: into the transaction BEGIN opened.          *)
InsertAutocommit ==
  durable' = [durable EXCEPT ![Table] = @ + 1] /\ tx' = tx + 1
Insert == tx' = tx + 1 /\ UNCHANGED durable

InsertRow ==
  /\ phase = "rows" /\ tx < RowsIn[Table]
  /\ ~Orphan /\ ~Duplicate
  /\ Insert
  /\ UNCHANGED <<keys, asked, graph, phase, at, completed, exit, bounds>>

(* The first failing row: ROLLBACK, and the whole load ends.  A ROLLBACK   *)
(* that fails is ignored; the session ends with the process.               *)
RolledBack(how) ==
  /\ tx' = 0
  /\ Ended(how)
  /\ UNCHANGED <<keys, asked, graph, at, completed, durable, runs>>

RowRejected ==
  /\ phase = "rows" /\ tx < RowsIn[Table]
  /\ Orphan \/ Duplicate
  /\ RolledBack(IF Duplicate THEN "duplicate" ELSE "foreign_key")
  /\ UNCHANGED faults

(* A row that cannot be aligned, converted or inserted.                    *)
RowFails ==
  /\ phase = "rows" /\ tx < RowsIn[Table]
  /\ Fail
  /\ RolledBack("error")

CommitTableUnsent ==
  /\ phase = "rows" /\ tx = RowsIn[Table]
  /\ completed' = Append(completed, Table)
  /\ tx' = 0 /\ at' = at + 1
  /\ phase' = "table"
  /\ UNCHANGED <<keys, asked, graph, durable, exit, bounds>>

CommitTable ==
  /\ phase = "rows" /\ tx = RowsIn[Table]
  /\ durable' = [durable EXCEPT ![Table] = @ + tx]
  /\ completed' = Append(completed, Table)
  /\ tx' = 0 /\ at' = at + 1
  /\ phase' = "table"
  /\ UNCHANGED <<keys, asked, graph, exit, bounds>>

(* COMMIT fails and is followed by ROLLBACK.  When the connection is lost  *)
(* before the answer arrives, the server may have committed all the same.  *)
CommitFails ==
  /\ phase = "rows" /\ tx = RowsIn[Table]
  /\ Fail
  /\ durable' \in {durable, [durable EXCEPT ![Table] = @ + tx]}
  /\ tx' = 0
  /\ Ended("error")
  /\ UNCHANGED <<keys, asked, graph, at, completed, runs>>

Loaded ==
  /\ phase = "table" /\ at > Len(order)
  /\ Ended("ok")
  /\ UNCHANGED <<keys, asked, graph, at, tx, completed, durable, bounds>>

(* The process is killed: the server rolls the open transaction back.      *)
Kill ==
  /\ phase \in {"table", "rows"}
  /\ Fail
  /\ tx' = 0
  /\ Ended("error")
  /\ UNCHANGED <<keys, asked, graph, at, completed, durable, runs>>

Init ==
  /\ \E k \in ForeignKeys : enforced = k.enforced /\ queried = k.queried
  /\ plan = {} /\ named = 0
  /\ degree = [t \in Tables |-> 0] /\ ready = {} /\ order = <<>>
  /\ phase = "idle" /\ at = 0 /\ tx = 0
  /\ completed = <<>>
  /\ durable = [t \in Tables |-> IF t \in Files THEN 0 ELSE RowsIn[t]]
  /\ exit = "none"
  /\ runs = 0 /\ faults = 0

(* What a run does of its own accord. *)
Proceed ==
  \/ CountDegrees
  \/ PopReady
  \/ CycleError
  \/ DryRun
  \/ RecordIntent
  \/ BeginTable
  \/ InsertRow
  \/ RowRejected
  \/ CommitTable
  \/ Loaded

Next ==
  \/ \E names \in Requests : Start(names)
  \/ Refuse
  \/ Proceed
  \/ PlanFails
  \/ BeginFails
  \/ RowFails
  \/ CommitFails
  \/ Kill

Spec == Init /\ [][Next]_vars

-----------------------------------------------------------------------------
Endings == {"ok", "refused", "cycle", "foreign_key", "duplicate", "error"}

TypeOK ==
  /\ [enforced |-> enforced, queried |-> queried] \in ForeignKeys
  /\ plan \subseteq Files /\ named \in Nat
  /\ degree \in [Tables -> Nat]
  /\ ready \subseteq plan
  /\ order \in Seq(plan)
  /\ phase \in {"idle", "graph", "order", "table", "rows"}
  /\ at \in 0 .. Len(order) + 1
  /\ tx \in Nat
  /\ completed \in Seq(Tables)
  /\ durable \in [Tables -> Nat]
  /\ exit \in Endings \cup {"none"}
  /\ runs \in 0 .. MaxRuns /\ faults \in 0 .. MaxFaults

Known(p, c) == \E e \in queried : e[1] = p /\ e[2] = c

(* A table is placed after every table of the plan it is known to refer    *)
(* to, and only once (plan.rs:384-426).                                    *)
ParentsFirst ==
  \A i \in 1 .. Len(order) :
    /\ \A j \in 1 .. Len(order) : i # j => order[i] # order[j]
    /\ \A p \in plan \ {order[i]} :
         Known(p, order[i]) => \E j \in 1 .. i - 1 : order[j] = p

(* Tables that lie on a foreign key cycle within the plan, or below one.   *)
HasCycle(ts) ==
  \E c \in (SUBSET ts) \ {{}} : \A t \in c : \E p \in c \ {t} : Known(p, t)

Closed(ts) == \A e \in queried : e[2] \in ts => e[1] \in ts

Repeated == named # Cardinality(plan)

(* What the code calls a foreign key cycle is a cycle of the known keys, a *)
(* referenced table outside the plan, or a name given twice: a run ends    *)
(* with that error only for one of the three, and loads only without all   *)
(* of them, however many rows the query has for two tables                 *)
(* (plan.rs:107, 266-278, 389-424).                                        *)
CyclesRefused ==
  /\ exit = "cycle" => HasCycle(plan) \/ ~Closed(plan) \/ Repeated
  /\ phase \in {"table", "rows"} => ~HasCycle(plan) /\ Closed(plan) /\ ~Repeated

(* A table is loaded whole or not at all, whatever fails and however often *)
(* the command is run again (loader.rs:229-321).                           *)
AllOrNothing == \A t \in Tables : durable[t] \in {0, RowsIn[t]}

(* What the load order cannot foresee: a key that was not among the rows   *)
(* queried, which are those of one schema, and a file that lists a row     *)
(* before the row of the same file it refers to.                           *)
Unforeseen ==
  /\ \A p \in Tables : Known(p, Table) => ~MissingParent(p)
  /\ \/ \E p \in Tables : MissingParent(p)
     \/ <<Table, Table>> \in enforced /\ \E r \in SelfRefs[Table] : r[2] > r[1]

(* The order does its job: the database rejects a row for a missing parent *)
(* only where the order could not foresee it, and never under a key it was *)
(* built from, no matter which tables earlier runs loaded, lost or left    *)
(* out (plan.rs:159-176, 384-426; loader.rs:160-168, 272-296).             *)
ForeignKeysHold == exit = "foreign_key" => Unforeseen

(* The `completed' list of an error tells the user what not to load again: *)
(* those tables are durable, and are the first ones of the order without   *)
(* a gap (loader.rs:147-222).                                              *)
CompletedIsPrefix ==
  (phase \in {"table", "rows"} \/ (phase = "idle" /\ exit = "error")) =>
    /\ completed = SubSeq(order, 1, Len(completed))
    /\ \A t \in ListOf(completed) : durable[t] = RowsIn[t]

(* plan.rs:390-391: "Edges between tables outside the plan (e.g.           *)
(* referencing a lookup table with no file) do not constrain the order."   *)
(* They do, as a cycle no such table is part of; so does a repeated name.  *)
CycleMeansCycle == exit = "cycle" => HasCycle(plan)
=============================================================================
