------------------------------ MODULE HashDiff ------------------------------
(***************************************************************************)
(* One `delta-diff --strategy hashdiff' job: the runs of the command over  *)
(* one checkpoint file, while applications write to the two tables.        *)
(*                                                                         *)
(* Follows delta_diff::hash_diff (key domain, full-range checksum, segment *)
(* checksums, bisection), delta_diff::rowdiff (keyset paged merge),        *)
(* delta_diff::recheck, delta_diff::progress (checkpoint file) and the     *)
(* exit code of delta_diff::execute_diff.  Every query is one step, so     *)
(* that writes fall between any two of them.                               *)
(*                                                                         *)
(* Abstractions.  A checksum tuple is the set of rows it covers (the MD5   *)
(* sums are taken to be collision free); its `count' is the size of that   *)
(* set.  A row is its key and one value.  Row filters are already applied  *)
(* to the tables.  Verbose output, timing and the report's wording are     *)
(* left out.                                                               *)
(***************************************************************************)
EXTENDS KeyRange

CONSTANTS
  Keys,            \* key values applications may use
  Values,          \* row contents
  Absent,          \* no row under this key
  InitialTables,   \* the tables a job may start from
  Modes,           \* the option sets a job may be given, see ModeType
  Segments,        \* threads * 8
  Branches,        \* UNION_BRANCHES: segments per aggregate statement
  Factor,          \* bisection_factor
  Threshold,       \* bisection_threshold
  MaxDepth,        \* 16 in the code
  PageSize,        \* rowdiff::PAGE_SIZE
  RecheckBatch,    \* RECHECK_IN_BATCH
  MaxWrites,       \* bound: writes by applications
  MaxAborts        \* bound: runs that fail or are killed

Side == {"left", "right"}
RowImage == Values \cup {Absent}
Table == [Keys -> RowImage]

(* The options of a job that change its steps: --consistency snapshot (else *)
(* none), DiffContext.recheck, which a snapshot always turns on, and       *)
(* --checkpoint.                                                           *)
ModeType ==
  {m \in [snapshot : BOOLEAN, recheck : BOOLEAN, checkpoint : BOOLEAN] :
     m.snapshot => m.recheck}

ASSUME HashDiffAssumption ==
  /\ Keys \subseteq Int64 /\ IsFiniteSet(Keys)
  /\ Absent \notin Values
  /\ InitialTables \subseteq [Side -> Table]
  /\ Modes \subseteq ModeType
  /\ {Segments, Branches, PageSize, RecheckBatch} \subseteq Nat \ {0}
  /\ Factor \in Nat \ {0, 1}
  /\ {Threshold, MaxDepth, MaxWrites, MaxAborts} \subseteq Nat

VARIABLES
  mode,       \* the options of the job
  tab,        \* the two tables as committed by the applications
  touched,    \* history: keys written since the job's first run began
  late,       \* history: keys written since the run committed its snapshots
  pc,         \* what the run does next
  snap,       \* side -> the session snapshot, {} when there is none
  ends,       \* side -> {MIN(key), MAX(key)}, {} for an empty table
  sums,       \* side -> {the checksum}, {} while it is not known
  agg,        \* side -> segment checksums that have arrived
  todo,       \* segments still to be compared
  cur,        \* the segment being compared
  buf, pos, exhausted,  \* the two PageCursors and their page buffers
  found,      \* RangeDiff.rows of the segment being merged
  shards,     \* shard results of the report
  diffs,      \* differing rows found by the run
  rest, batch, now,  \* recheck: keys to query, keys in hand, rows seen
  exit,       \* exit code of the last run
  file,       \* the checkpoint file
  completed,  \* CheckpointManager.completed
  writes, aborts  \* bounds

env == <<mode, tab, touched, late, writes>>
cursors == <<buf, pos, exhausted>>
work == <<agg, todo, cur, sums, cursors, found>>
recheck == <<rest, batch, now>>
result == <<shards, diffs, recheck>>
disk == <<file, completed>>
vars == <<env, pc, snap, ends, work, result, exit, disk, aborts>>

Snapshot == mode.snapshot
Recheck == mode.recheck
Checkpoint == mode.checkpoint

(***************************************************************************)
(* Rows and checksums.                                                     *)
(***************************************************************************)
Row == Keys \X Values

Both(x) == [s \in Side |-> x]

(* What a query on side s sees: the session snapshot, else the table.      *)
View(s) == IF snap[s] = {} THEN tab[s] ELSE CHOOSE t \in snap[s] : TRUE

RowsOf(t, ks) == {<<k, t[k]>> : k \in {i \in ks : t[i] # Absent}}

KeysOf(rows) == {r[1] : r \in rows}

(* The range predicate `key >= lo AND key < hi'.                           *)
InRangeClosed(seg) == {k \in Keys : seg.lo <= k /\ k <= seg.hi}
InRangeOpen(seg) == {k \in Keys : seg.lo < k /\ k < seg.hi}
InRange(seg) == {k \in Keys : seg.lo <= k /\ k < seg.hi}

(* Rows of one side against rows of the other: DiffStatus by key.          *)
DiffRows(l, r) ==
  [key : KeysOf(l) \ KeysOf(r), status : {"missing_right"}]
    \cup [key : KeysOf(r) \ KeysOf(l), status : {"missing_left"}]
    \cup [key : KeysOf(l \ r) \cap KeysOf(r), status : {"modified"}]

(* The n smallest members of ks: ORDER BY key LIMIT n, chunks(n).          *)
IsFirst(page, ks, n) ==
  /\ page \subseteq ks
  /\ Cardinality(page) = Min({n, Cardinality(ks)})
  /\ \A i \in page, j \in ks \ page : i < j

(***************************************************************************)
(* Segments, shards and the checkpoint file.                               *)
(***************************************************************************)
Item(p, d) == [lo |-> p[1], hi |-> p[2], depth |-> d]
NoItem == [lo |-> 0, hi |-> 0, depth |-> 0]

Domain ==
  LET all == ends["left"] \cup ends["right"]
  IN  Item(<<Min(all), Wrap(Max(all) + 1)>>, 0)

FirstSegments == SplitRange(Domain.lo, Domain.hi, Segments)

(* Segment seg's place in the UNION ALL statements of the first pass.      *)
ChunkOf(seg) ==
  Cardinality({t \in FirstSegments : t[1] < seg[1]}) \div Branches

Shard(seg, lc, rc, dc, status) ==
  [lo |-> seg.lo, hi |-> seg.hi, lc |-> lc, rc |-> rc, dc |-> dc,
   status |-> status]

EntryNoDiffs(seg, lc, rc, dc) ==
  [lo |-> seg.lo, hi |-> seg.hi, lc |-> lc, rc |-> rc, dc |-> 0]
Entry(seg, lc, rc, dc) ==
  [lo |-> seg.lo, hi |-> seg.hi, lc |-> lc, rc |-> rc, dc |-> dc]

(* HashMap::insert, and what a replay makes of an appended line: the last  *)
(* entry for a shard id stands.                                            *)
Put(entries, e) == {x \in entries : x.lo # e.lo \/ x.hi # e.hi} \cup {e}

NoFile == [header |-> "none", recs |-> {}, torn |-> FALSE]

(* Append one complete line: after an unterminated fragment it only        *)
(* completes a corrupted line.                                             *)
Appended(f, e) ==
  [f EXCEPT !.recs = IF f.torn THEN @ ELSE Put(@, e), !.torn = FALSE]

(* CheckpointManager::record, when a checkpoint is in use.                 *)
RecordCheckpoint(e) ==
  /\ file' = IF Checkpoint THEN Appended(file, e) ELSE file
  /\ completed' = IF Checkpoint THEN Put(completed, e) ELSE completed

Idle == {"idle", "done"}
Committed == {"recheckLeft", "recheckRight", "report", "emit", "done"}
Querying == {"snapLeft", "snapRight", "rangeLeft", "rangeRight", "full",
             "aggregate", "segment", "sum", "merge", "commit",
             "recheckLeft", "recheckRight", "report", "emit"}

(***************************************************************************)
(* The applications.                                                       *)
(***************************************************************************)
Write(s, k, r) ==
  /\ writes < MaxWrites
  /\ tab[s][k] # r
  /\ tab' = [tab EXCEPT ![s][k] = r]
  /\ touched' = touched \cup {k}
  /\ late' = IF pc \in Committed THEN late \cup {k} ELSE late
  /\ writes' = writes + 1
  /\ UNCHANGED <<mode, pc, snap, ends, work, result, exit, disk, aborts>>

(***************************************************************************)
(* Start of a run: CheckpointManager::open.                                *)
(***************************************************************************)
Restarted ==
  /\ snap' = Both({}) /\ ends' = Both({}) /\ sums' = Both({}) /\ agg' = Both({})
  /\ todo' = {} /\ cur' = NoItem
  /\ buf' = Both({}) /\ pos' = Both(0) /\ exhausted' = Both(FALSE)
  /\ found' = {} /\ shards' = {} /\ diffs' = {}
  /\ rest' = {} /\ batch' = {} /\ now' = Both({})
  /\ late' = {}
  /\ UNCHANGED <<mode, tab, writes>>

(* A missing or empty file starts afresh; otherwise the lines are replayed.*)
Start ==
  /\ pc \in Idle
  /\ file.header # "bad"
  /\ Restarted
  /\ pc' = IF Snapshot THEN "snapLeft" ELSE "rangeLeft"
  /\ exit' = "none"
  /\ touched' = IF file.header = "none" THEN {} ELSE touched
  /\ completed' = file.recs
  /\ file' = IF Checkpoint THEN [file EXCEPT !.header = "ok"] ELSE file
  /\ UNCHANGED aborts

(* The first line is not a version 2 header: the run is refused.           *)
StartRefused ==
  /\ pc \in Idle
  /\ file.header = "bad"
  /\ Restarted
  /\ pc' = "done"
  /\ exit' = "error"
  /\ completed' = {}
  /\ UNCHANGED <<touched, file, aborts>>

(* The write of the header line itself fails part way (disk full).         *)
StartTornHeader ==
  /\ pc \in Idle /\ Checkpoint
  /\ file.header = "none"
  /\ aborts < MaxAborts
  /\ Restarted
  /\ pc' = "done"
  /\ exit' = "error"
  /\ completed' = {}
  /\ touched' = {}
  /\ file' = [file EXCEPT !.header = "bad"]
  /\ aborts' = aborts + 1

(* START TRANSACTION ... WITH CONSISTENT SNAPSHOT on one session.          *)
OpenSnapshot(s) ==
  /\ pc = IF s = "left" THEN "snapLeft" ELSE "snapRight"
  /\ snap' = [snap EXCEPT ![s] = {tab[s]}]
  /\ pc' = IF s = "left" THEN "snapRight" ELSE "rangeLeft"
  /\ UNCHANGED <<env, ends, work, result, exit, disk, aborts>>

(***************************************************************************)
(* HashDiffer::diff_inner.                                                 *)
(***************************************************************************)
(* SELECT MIN(k), MAX(k); two empty sides leave nothing to compare.        *)
EndsOf(ks) == IF ks = {} THEN {} ELSE {Min(ks), Max(ks)}

KeyRange(s) ==
  LET e == EndsOf(KeysOf(RowsOf(View(s), Keys)))
  IN
  /\ pc = IF s = "left" THEN "rangeLeft" ELSE "rangeRight"
  /\ ends' = [ends EXCEPT ![s] = e]
  /\ pc' = IF s = "left" THEN "rangeRight"
           ELSE IF ends["left"] \cup e = {} THEN "commit" ELSE "full"
  /\ UNCHANGED <<env, snap, work, result, exit, disk, aborts>>

(* One side of a checksum pair; tokio::join! leaves their order open.      *)
Checksum(s, seg) ==
  /\ sums[s] = {}
  /\ sums' = [sums EXCEPT ![s] = {RowsOf(View(s), InRange(seg))}]
  /\ UNCHANGED <<env, pc, snap, ends, agg, todo, cur, cursors, found,
                 result, exit, disk, aborts>>

FullChecksum(s) == pc = "full" /\ Checksum(s, Domain)
SegmentChecksum(s) == pc = "sum" /\ Checksum(s, cur)

Known == sums["left"] # {} /\ sums["right"] # {}
Agree == Known /\ sums["left"] = sums["right"]
Sum(s) == CHOOSE x \in sums[s] : TRUE
Count(s) == Cardinality(Sum(s))

(* Both checksums are equal: the segment is a Match shard.                 *)
Match(seg, next) ==
  /\ Agree
  /\ shards' = shards \cup {Shard(seg, Count("left"), Count("right"), 0, "Match")}
  /\ RecordCheckpoint(Entry(seg, Count("left"), Count("right"), 0))
  /\ pc' = next
  /\ sums' = Both({}) /\ cur' = NoItem
  /\ UNCHANGED <<env, snap, ends, agg, todo, cursors, found, diffs, recheck,
                 exit, aborts>>

FullMatch == pc = "full" /\ Match(Domain, "commit")
SegmentMatch == pc = "sum" /\ Match(cur, "segment")

(* Not equal: cut the domain; without a snapshot, aggregate it first.      *)
FullMismatch ==
  /\ pc = "full" /\ Known /\ ~Agree
  /\ sums' = Both({})
  /\ IF Snapshot
     THEN /\ todo' = {Item(p, 0) : p \in FirstSegments}
          /\ pc' = "segment"
     ELSE /\ pc' = "aggregate"
          /\ UNCHANGED todo
  /\ UNCHANGED <<env, snap, ends, agg, cur, cursors, found, result, exit, disk,
                 aborts>>

(* One UNION ALL statement of first_pass_aggregate on a pooled connection: *)
(* the statements of both sides run concurrently.                          *)
AggregateChunk(s, c) ==
  LET chunk == {p \in FirstSegments : ChunkOf(p) = c}
  IN
  /\ pc = "aggregate"
  /\ \A a \in agg[s] : <<a.lo, a.hi>> \notin chunk
  /\ agg' = [agg EXCEPT ![s] = @ \cup
       {[lo |-> p[1], hi |-> p[2],
         rows |-> RowsOf(tab[s], InRange(Item(p, 0)))] : p \in chunk}]
  /\ UNCHANGED <<env, pc, snap, ends, todo, cur, sums, cursors, found, result,
                 exit, disk, aborts>>

AllAggregated ==
  /\ pc = "aggregate"
  /\ \A s \in Side, p \in FirstSegments :
       \E a \in agg[s] : a.lo = p[1] /\ a.hi = p[2]
  /\ todo' = {Item(p, 0) : p \in FirstSegments}
  /\ pc' = "segment"
  /\ UNCHANGED <<env, snap, ends, agg, cur, sums, cursors, found, result, exit,
                 disk, aborts>>

(***************************************************************************)
(* compare_segment and handle_segment, in segment order.                   *)
(***************************************************************************)
FromFirstPass(seg) == ~Snapshot /\ seg.depth = 0

IsNext(seg) == seg \in todo /\ \A other \in todo : seg.lo <= other.lo

Completed(seg) == {e \in completed : e.lo = seg.lo /\ e.hi = seg.hi}

(* A segment the checkpoint has is not compared again: its stored counts   *)
(* go into the shard, and nothing into the differences.  First-pass        *)
(* segments are handled without looking at the checkpoint.                 *)
SkipSegment(seg) ==
  /\ pc = "segment" /\ IsNext(seg)
  /\ ~FromFirstPass(seg)
  /\ \E e \in Completed(seg) :
       shards' = shards \cup {Shard(seg, e.lc, e.rc, e.dc, "Skipped")}
  /\ todo' = todo \ {seg}
  /\ UNCHANGED <<env, pc, snap, ends, agg, cur, sums, cursors, found, diffs,
                 recheck, exit, disk, aborts>>

TakeSegment(seg) ==
  /\ pc = "segment" /\ IsNext(seg)
  /\ FromFirstPass(seg) \/ Completed(seg) = {}
  /\ cur' = seg
  /\ todo' = todo \ {seg}
  /\ sums' = IF FromFirstPass(seg)
             THEN [s \in Side |-> {a.rows : a \in
                     {x \in agg[s] : x.lo = seg.lo /\ x.hi = seg.hi}}]
             ELSE Both({})
  /\ pc' = "sum"
  /\ UNCHANGED <<env, snap, ends, agg, cursors, found, result, exit, disk,
                 aborts>>

SmallEnough ==
  \/ Max({Count("left"), Count("right")}) <= Threshold
  \/ Wrap(cur.hi - cur.lo) <= 1

Mismatch == pc = "sum" /\ Known /\ ~Agree

(* Few enough rows: merge them.  `last_key = None' with the range predicate *)
(* reads from cur.lo, hence the cursors start just below it.               *)
StartMerge ==
  /\ Mismatch /\ SmallEnough
  /\ buf' = Both({}) /\ pos' = Both(cur.lo - 1) /\ exhausted' = Both(FALSE)
  /\ found' = {}
  /\ pc' = "merge"
  /\ UNCHANGED <<env, snap, ends, agg, todo, cur, sums, result, exit, disk,
                 aborts>>

Split ==
  /\ Mismatch /\ ~SmallEnough
  /\ cur.depth <= MaxDepth
  /\ todo' = todo \cup {Item(p, cur.depth + 1) : p \in SplitRange(cur.lo, cur.hi, Factor)}
  /\ cur' = NoItem /\ sums' = Both({})
  /\ pc' = "segment"
  /\ UNCHANGED <<env, snap, ends, agg, cursors, found, result, exit, disk,
                 aborts>>

(***************************************************************************)
(* rowdiff::row_level_diff: two page cursors merged by key.                *)
(***************************************************************************)
Starved(s) == buf[s] = {} /\ ~exhausted[s]

(* A page that is not full is the last one.                                *)
LastPageFull(page) == Cardinality(page) <= PageSize
LastPage(page) == Cardinality(page) < PageSize

(* last_key after a page.                                                  *)
AdvancedNot(last, page) == last
Advanced(last, page) == IF page = {} THEN last ELSE Max(page)

(* PageCursor::next_page.  The left cursor is served first.                *)
FetchPage(s) ==
  LET ahead == {k \in InRange(cur) : k > pos[s] /\ View(s)[k] # Absent}
  IN
  /\ pc = "merge"
  /\ Starved(s)
  /\ s = "right" => ~Starved("left")
  /\ \E page \in SUBSET ahead :
       /\ IsFirst(page, ahead, PageSize)
       /\ buf' = [buf EXCEPT ![s] = RowsOf(View(s), page)]
       /\ pos' = [pos EXCEPT ![s] = Advanced(@, page)]
       /\ exhausted' = [exhausted EXCEPT ![s] = LastPage(page)]
  /\ UNCHANGED <<env, pc, snap, ends, agg, todo, cur, sums, found, result,
                 exit, disk, aborts>>

(* The merge consumes both buffers up to the end of the one that runs dry  *)
(* first; a side that has no row left leaves the other to be drained.      *)
MergeLimitFar == Max(KeysOf(buf["left"] \cup buf["right"]))
MergeLimit ==
  IF buf["left"] = {} THEN Max(KeysOf(buf["right"]))
  ELSE IF buf["right"] = {} THEN Max(KeysOf(buf["left"]))
  ELSE Min({Max(KeysOf(buf["left"])), Max(KeysOf(buf["right"]))})

MergeRows ==
  LET ready == [s \in Side |-> {r \in buf[s] : r[1] <= MergeLimit}]
  IN
  /\ pc = "merge"
  /\ ~Starved("left") /\ ~Starved("right")
  /\ buf # Both({})
  /\ found' = found \cup DiffRows(ready["left"], ready["right"])
  /\ buf' = [s \in Side |-> buf[s] \ ready[s]]
  /\ UNCHANGED <<env, pc, snap, ends, agg, todo, cur, sums, pos, exhausted,
                 result, exit, disk, aborts>>

Merged == pc = "merge" /\ buf = Both({}) /\ exhausted = Both(TRUE)

(* Both sides drained: a Diff shard, its rows joining the differences.     *)
FinishMerge ==
  LET n == Cardinality(found)
  IN
  /\ Merged
  /\ diffs' = diffs \cup found
  /\ shards' = shards \cup {Shard(cur, Count("left"), Count("right"), n, "Diff")}
  /\ RecordCheckpoint(Entry(cur, Count("left"), Count("right"), n))
  /\ pc' = "segment"
  /\ cur' = NoItem /\ sums' = Both({}) /\ found' = {}
  /\ pos' = Both(0) /\ exhausted' = Both(FALSE)
  /\ UNCHANGED <<env, snap, ends, agg, todo, buf, recheck, exit, aborts>>

SegmentsDone ==
  /\ pc = "segment" /\ todo = {}
  /\ pc' = "commit"
  /\ UNCHANGED <<env, snap, ends, work, result, exit, disk, aborts>>

(***************************************************************************)
(* HashDiffer::diff after diff_inner; recheck::recheck_diffs.              *)
(***************************************************************************)
(* COMMIT ends both snapshots: what follows reads the current tables.      *)
Commit ==
  /\ pc = "commit"
  /\ snap' = Both({})
  /\ late' = {}
  /\ rest' = IF Recheck THEN {d.key : d \in diffs} ELSE {}
  /\ pc' = IF Recheck /\ diffs # {} THEN "recheckLeft" ELSE "report"
  /\ UNCHANGED <<mode, tab, touched, writes, ends, work, shards, diffs, batch, now, exit,
                 disk, aborts>>

(* One IN (...) statement per side and batch, the left side first.         *)
RecheckLeft ==
  /\ pc = "recheckLeft"
  /\ \E ks \in SUBSET rest :
       /\ IsFirst(ks, rest, RecheckBatch)
       /\ batch' = ks
       /\ now' = [now EXCEPT !["left"] = @ \cup RowsOf(tab["left"], ks)]
  /\ pc' = "recheckRight"
  /\ UNCHANGED <<env, snap, ends, work, shards, diffs, rest, exit, disk, aborts>>

RecheckRight ==
  /\ pc = "recheckRight"
  /\ now' = [now EXCEPT !["right"] = @ \cup RowsOf(tab["right"], batch)]
  /\ rest' = rest \ batch
  /\ batch' = {}
  /\ pc' = IF rest' = {} THEN "report" ELSE "recheckLeft"
  /\ UNCHANGED <<env, snap, ends, work, shards, diffs, exit, disk, aborts>>

(* DiffRow.confirmed; the summary counts these rows only.                  *)
StillDiffers(k) ==
  {r \in now["left"] : r[1] = k} # {r \in now["right"] : r[1] = k}
ConfirmedAll == diffs
Confirmed == {d \in diffs : Recheck => StillDiffers(d.key)}

(* progress::finalize_path renames the checkpoint away.                    *)
Finalize ==
  /\ pc = "report"
  /\ file' = NoFile
  /\ pc' = "emit"
  /\ UNCHANGED <<env, snap, ends, work, result, exit, completed, aborts>>

HasDiffAny == diffs # {}
HasDiff == Confirmed # {}

(* execute_diff: the exit code follows DiffReport::has_diff.               *)
Emit ==
  /\ pc = "emit"
  /\ exit' = IF HasDiff THEN "diff" ELSE "identical"
  /\ pc' = "done"
  /\ UNCHANGED <<env, snap, ends, work, result, disk, aborts>>

(***************************************************************************)
(* Ways for a run to end early.                                            *)
(***************************************************************************)
Stopped(how) ==
  /\ Restarted
  /\ UNCHANGED touched
  /\ completed' = {}
  /\ pc' = "done"
  /\ exit' = how

(* Any statement may fail, and the process may be killed at any point.     *)
Abort ==
  /\ pc \in Querying
  /\ aborts < MaxAborts
  /\ \E how \in {"error", "killed"} : Stopped(how)
  /\ aborts' = aborts + 1
  /\ UNCHANGED file

(* `bisection depth limit exceeded'.                                       *)
DepthExceeded ==
  /\ Mismatch /\ ~SmallEnough
  /\ cur.depth > MaxDepth
  /\ Stopped("error")
  /\ UNCHANGED <<file, aborts>>

(* Recording a shard fails part way through the line (disk full): the file *)
(* keeps an unterminated fragment.                                         *)
TornRecord ==
  /\ Checkpoint
  /\ (pc \in {"full", "sum"} /\ Agree) \/ Merged
  /\ aborts < MaxAborts
  /\ Stopped("error")
  /\ file' = [file EXCEPT !.torn = TRUE]
  /\ aborts' = aborts + 1

-----------------------------------------------------------------------------
Init ==
  /\ mode \in Modes
  /\ tab \in InitialTables
  /\ touched = {} /\ late = {}
  /\ pc = "idle" /\ exit = "none"
  /\ snap = Both({}) /\ ends = Both({}) /\ sums = Both({}) /\ agg = Both({})
  /\ todo = {} /\ cur = NoItem
  /\ buf = Both({}) /\ pos = Both(0) /\ exhausted = Both(FALSE)
  /\ found = {} /\ shards = {} /\ diffs = {}
  /\ rest = {} /\ batch = {} /\ now = Both({})
  /\ file = NoFile /\ completed = {}
  /\ writes = 0 /\ aborts = 0

Compare ==
  \/ \E s \in Side : OpenSnapshot(s)
  \/ \E s \in Side : KeyRange(s)
  \/ \E s \in Side : FullChecksum(s)
  \/ FullMatch
  \/ FullMismatch
  \/ \E s \in Side, c \in 0 .. Segments : AggregateChunk(s, c)
  \/ AllAggregated
  \/ \E seg \in todo : SkipSegment(seg)
  \/ \E seg \in todo : TakeSegment(seg)
  \/ \E s \in Side : SegmentChecksum(s)
  \/ SegmentMatch
  \/ StartMerge
  \/ Split
  \/ DepthExceeded
  \/ \E s \in Side : FetchPage(s)
  \/ MergeRows
  \/ FinishMerge
  \/ SegmentsDone
  \/ Commit
  \/ RecheckLeft
  \/ RecheckRight
  \/ Finalize
  \/ Emit

Next ==
  \/ \E s \in Side, k \in Keys, r \in RowImage : Write(s, k, r)
  \/ Start
  \/ StartRefused
  \/ StartTornHeader
  \/ Compare
  \/ Abort
  \/ TornRecord

Spec == Init /\ [][Next]_vars

(* The run is one task that awaits one answer after the other, and a       *)
(* database answers or fails every statement (--statement-timeout).        *)
FairSpec == Spec /\ WF_vars(Compare)

(***************************************************************************)
(* Types.                                                                  *)
(***************************************************************************)
Segment == [lo : Int64, hi : Int64, depth : Nat]
EntryType == [lo : Int64, hi : Int64, lc : Nat, rc : Nat, dc : Nat]
ShardType == [lo : Int64, hi : Int64, lc : Nat, rc : Nat, dc : Nat,
              status : {"Match", "Diff", "Skipped"}]
DiffType ==
  [key : Keys, status : {"missing_left", "missing_right", "modified"}]

TypeOK ==
  /\ mode \in ModeType
  /\ tab \in [Side -> Table]
  /\ touched \subseteq Keys /\ late \subseteq Keys
  /\ pc \in Idle \cup Querying
  /\ exit \in {"none", "identical", "diff", "error", "killed"}
  /\ snap \in [Side -> SUBSET Table]
  /\ ends \in [Side -> SUBSET Keys]
  /\ sums \in [Side -> SUBSET SUBSET Row]
  /\ agg \in [Side -> SUBSET [lo : Int64, hi : Int64, rows : SUBSET Row]]
  /\ todo \subseteq Segment /\ cur \in Segment
  /\ buf \in [Side -> SUBSET Row]
  /\ pos \in [Side -> Int] /\ exhausted \in [Side -> BOOLEAN]
  /\ found \subseteq DiffType /\ diffs \subseteq DiffType
  /\ shards \subseteq ShardType
  /\ rest \subseteq Keys /\ batch \subseteq Keys /\ now \in [Side -> SUBSET Row]
  /\ file \in [header : {"none", "ok", "bad"}, recs : SUBSET EntryType,
               torn : BOOLEAN]
  /\ completed \subseteq EntryType
  /\ writes \in 0 .. MaxWrites /\ aborts \in 0 .. MaxAborts

(***************************************************************************)
(* What a finished run has told its caller.                                *)
(***************************************************************************)
Finished == exit \in {"identical", "diff"}
Reported == IF Finished THEN {d.key : d \in Confirmed} ELSE {}

StableDiff == {k \in Keys \ touched : tab["left"][k] # tab["right"][k]}
StableSame == {k \in Keys \ touched : tab["left"][k] = tab["right"][k]}

SkippedDiffs == {sh \in shards : sh.status = "Skipped" /\ sh.dc > 0}

(* No difference is lost: a key on which the sides differ, and which       *)
(* nobody wrote since the job began, is counted by the report, whatever    *)
(* was written next to it; only a segment skipped on the word of the       *)
(* checkpoint may withhold it (hash_diff.rs:108-211, 372-508).             *)
StableDifferenceFound ==
  Finished => \A k \in StableDiff :
    k \in Reported \/ \E sh \in SkippedDiffs : k \in InRange(sh)

(* No difference is invented: a key on which the sides agreed throughout   *)
(* is never reported, although both sides are read at different instants   *)
(* and page by page (rowdiff.rs:26-142).                                   *)
NoFalseAlarm == StableSame \cap Reported = {}

(* The recheck drops what only the comparison window made differ: a key    *)
(* the sides agree on, unwritten since the snapshots were committed, is    *)
(* not reported (recheck.rs:27-88).                                        *)
TransientDropped ==
  Recheck => \A k \in Reported \ late : tab["left"][k] # tab["right"][k]

(* Under a snapshot the pieces add up: when the comparison ends, its rows  *)
(* and their statuses are exactly the differences of the two snapshots,    *)
(* and the row counts of the shards, of which the report's totals are      *)
(* made, add up to the sizes of the snapshots; unless a shard was skipped  *)
(* (hash_diff.rs:418-508, 853-862).                                        *)
SnapshotExact ==
  (pc = "commit" /\ Snapshot /\ \A sh \in shards : sh.status # "Skipped") =>
    LET rows == [s \in Side |-> RowsOf(View(s), Keys)]
    IN
    /\ diffs = DiffRows(rows["left"], rows["right"])
    /\ MapThenSumSet(LAMBDA sh : sh.lc, shards) = Cardinality(rows["left"])
    /\ MapThenSumSet(LAMBDA sh : sh.rc, shards) = Cardinality(rows["right"])

(* The checkpoint vouches only for what was seen: where it records a       *)
(* segment without differences, the keys nobody wrote since are equal, so  *)
(* skipping it in a later run hides nothing (progress.rs:101-124).         *)
CheckpointSound ==
  \A e \in file.recs : e.dc = 0 =>
    \A k \in InRange(e) \ touched : tab["left"][k] = tab["right"][k]

(* A run always ends: with a verdict, or with an error.                    *)
Terminates == (pc \in Querying) ~> (pc = "done")

(* The promise made to the caller.  What the checkpoint withholds is the   *)
(* keys of the segments that an interrupted run recorded as differing.     *)
InheritedDiffs ==
  {e \in completed : e.dc > 0 /\ \A sh \in shards :
     sh.status = "Diff" => <<sh.lo, sh.hi>> # <<e.lo, e.hi>>}

Contract == INSTANCE DiffContract WITH
  Rows <- RowImage,
  phase <- IF pc \in Idle THEN pc ELSE "running",
  reported <- Reported,
  withheld <- IF pc \in Idle THEN {} ELSE UNION {InRange(e) : e \in InheritedDiffs}

(* Every behaviour of a hashdiff job, seen through the exit code and the   *)
(* reported keys, is one the contract allows (mod.rs:481-504).             *)
ContractSpec == Contract!Spec

(* README.md:349: exit code 0 means identical.  Stated for a job that is   *)
(* resumed from its checkpoint as for any other.                           *)
IdenticalMeansIdentical == exit = "identical" => StableDiff = {}
=============================================================================
