------------------------------ MODULE KeyedDiff ------------------------------
(***************************************************************************)
(* One comparison by keyeddiff (any key), by minusdiff, which falls back   *)
(* to it, or by joindiff, while applications write to the two tables.      *)
(* None of the three looks at a difference twice, so what they report      *)
(* depends on which statements see which tables.                           *)
(*                                                                         *)
(* Every statement is one step.  A checksum tuple is the set of rows it    *)
(* covers; keys are unique and not NULL; row filters are applied already.  *)
(***************************************************************************)
EXTENDS Naturals, FiniteSetsExt

CONSTANTS
  Keys, Values, Absent,
  InitialTables,   \* the tables a comparison may start from
  Modes,           \* what the command line asks for, see ModeType
  FetchAll,        \* fetch_all_threshold
  PerBucket,       \* bisection_threshold: rows of a MOD bucket
  MaxBuckets,      \* 1024 in the code
  Skew,            \* 8 in the code
  PointMax,        \* POINT_QUERY_MAX_KEYS
  Chunk,           \* point_query_chunk_rows
  PageSize,        \* PAGE_SIZE
  MaxCells,        \* minus_max_cells, 0 for no budget
  MaxWrites        \* bound: writes by applications

Side == {"left", "right"}
Other(s) == IF s = "left" THEN "right" ELSE "left"
RowImage == Values \cup {Absent}
Table == [Keys -> RowImage]

(* way: the strategy routed to; summary: --summary-only; unique: both      *)
(* plans have key_unique.                                                  *)
ModeType == [way : {"keyed", "minus", "join"}, snapshot : BOOLEAN,
             summary : BOOLEAN, unique : BOOLEAN]

ASSUME KeyedAssumption ==
  /\ Keys \subseteq Nat \ {0} /\ IsFiniteSet(Keys) /\ Absent \notin Values
  /\ InitialTables \subseteq [Side -> Table] /\ Modes \subseteq ModeType
  /\ {PerBucket, MaxBuckets, Chunk, PageSize} \subseteq Nat \ {0}
  /\ Skew \in Nat \ {0, 1}
  /\ {FetchAll, PointMax, MaxCells, MaxWrites} \subseteq Nat

VARIABLES
  mode,       \* the options
  tab,        \* the two tables as committed by the applications
  touched,    \* history: keys written since the comparison began
  pc,         \* what the comparison does next
  snap,       \* side -> the snapshot its statements read, {} for none
  base,       \* history: side -> the last snapshot opened
  total,      \* side -> {COUNT(*)}, {} while it is not known
  sums,       \* side -> {rows under the batch checksum}, {} while not known
  path,       \* "none", "all", "point", "shared", "bucket"
  todo,       \* buckets still to be merged
  scope,      \* keys selected by the predicate of the merge under way
  expected,   \* side -> rows the merge should fetch
  seen,       \* side -> rows fetched by the merge under way
  pos,        \* side -> last_key of its cursor
  exhausted,  \* side -> its last page was short
  asked,      \* keys of the small side already looked up in the big one
  found,      \* DiffRows
  missingBig, \* differences counted but not fetched
  warned,     \* the report warns that its counts may not fit
  exit, writes

env == <<mode, tab, touched, writes>>
view == <<snap, base>>
cursors == <<seen, pos, exhausted>>
merge == <<scope, expected, cursors>>
result == <<found, missingBig, warned, exit>>
vars == <<env, view, pc, total, sums, path, todo, merge, asked, result>>

Both(x) == [s \in Side |-> x]

View(s) == IF snap[s] = {} THEN tab[s] ELSE CHOOSE t \in snap[s] : TRUE
RowsOf(t, ks) == {<<k, t[k]>> : k \in {i \in ks : t[i] # Absent}}
KeysOf(rows) == {r[1] : r \in rows}
Rows(s) == RowsOf(View(s), Keys)

DiffRows(l, r) ==
  [key : KeysOf(l) \ KeysOf(r), status : {"missing_right"}]
    \cup [key : KeysOf(r) \ KeysOf(l), status : {"missing_left"}]
    \cup [key : KeysOf(l \ r) \cap KeysOf(r), status : {"modified"}]

Total(s) == CHOOSE n \in total[s] : TRUE
Larger == Max({Total("left"), Total("right")})
Smaller == Min({Total("left"), Total("right")})
Big == IF Total("left") >= Total("right") THEN "left" ELSE "right"
Small == Other(Big)

------------------------------------------------------------------------------
(* KeyedDiffer.                                                            *)

KeyedStart == IF mode.snapshot THEN "snapLeft" ELSE "count"

(* open_snapshot on one session.                                           *)
OpenSnapshot(s) ==
  /\ pc = IF s = "left" THEN "snapLeft" ELSE "snapRight"
  /\ snap' = [snap EXCEPT ![s] = {tab[s]}]
  /\ base' = [base EXCEPT ![s] = {tab[s]}]
  /\ pc' = IF s = "left" THEN "snapRight" ELSE "count"
  /\ UNCHANGED <<env, total, sums, path, todo, merge, asked, result>>

CountRows(s) ==
  /\ total[s] = {}
  /\ total' = [total EXCEPT ![s] = {Cardinality(Rows(s))}]
  /\ UNCHANGED <<env, view, sums, path, todo, merge, asked, result>>

KeyedCount(s) == pc = "count" /\ CountRows(s) /\ UNCHANGED pc

Counted == pc = "count" /\ \A s \in Side : total[s] # {}

(* skew_route, and the shortcuts before it.                                *)
IsSkewed == Smaller > 0 /\ Larger \div Skew >= Smaller
PathOf ==
  IF Larger <= FetchAll \/ Smaller = 0 THEN "all"
  ELSE IF ~IsSkewed THEN "bucket"
  ELSE IF mode.summary /\ mode.unique /\ Smaller <= PointMax THEN "point"
  ELSE "shared"

(* Cursors over the keys ks; a side known to be empty is not read.         *)
Merging(ks, rows, skip) ==
  /\ scope' = ks
  /\ expected' = rows
  /\ seen' = Both({}) /\ pos' = Both(0)
  /\ exhausted' = [s \in Side |-> s \in skip]

BothEmpty ==
  /\ Counted /\ Larger = 0
  /\ pc' = "commit"
  /\ UNCHANGED <<env, view, total, sums, path, todo, merge, asked, result>>

(* Few rows, or one side empty: read everything there is.                  *)
ReadAll ==
  /\ Counted /\ Larger > 0 /\ PathOf = "all"
  /\ path' = "all"
  /\ Merging(Keys, [s \in Side |-> Total(s)], {s \in Side : Total(s) = 0})
  /\ pc' = "merge"
  /\ UNCHANGED <<env, view, total, sums, todo, asked, result>>

(* point_query_diff: the small side is read whole, page by page.           *)
ReadSmall ==
  /\ Counted /\ PathOf = "point"
  /\ path' = "point"
  /\ Merging(Keys, [s \in Side |-> Total(s)], {Big})
  /\ pc' = "small"
  /\ UNCHANGED <<env, view, total, sums, todo, asked, result>>

ChecksumBuckets ==
  /\ Counted /\ PathOf \in {"shared", "bucket"}
  /\ path' = PathOf
  /\ pc' = "sums"
  /\ UNCHANGED <<env, view, total, sums, todo, merge, asked, result>>

(* GROUP BY MOD(key_hash, n): any function of the key will do.             *)
Buckets == Min({MaxBuckets, (Larger + PerBucket - 1) \div PerBucket})
KeysIn(b) == {k \in Keys : k % Buckets = b}

BatchChecksum(s) ==
  /\ pc = "sums" /\ sums[s] = {}
  /\ sums' = [sums EXCEPT ![s] = {Rows(s)}]
  /\ UNCHANGED <<env, view, pc, total, path, todo, merge, asked, result>>

InBucket(s, b) == {r \in CHOOSE x \in sums[s] : TRUE : r[1] \in KeysIn(b)}

(* A bucket one side has no row of counts as a checksum of nothing.        *)
DiffBucketsOfBoth ==
  {b \in 0 .. Buckets - 1 : /\ InBucket("left", b) # InBucket("right", b)
                            /\ \A s \in Side : InBucket(s, b) # {}}
DiffBuckets ==
  {b \in 0 .. Buckets - 1 : InBucket("left", b) # InBucket("right", b)}

Summed == \A s \in Side : sums[s] # {}

CountOf(bs) ==
  [s \in Side |-> Cardinality(UNION {InBucket(s, b) : b \in bs})]

BucketsAgree ==
  /\ pc = "sums" /\ Summed /\ DiffBuckets = {}
  /\ pc' = "commit"
  /\ UNCHANGED <<env, view, total, sums, path, todo, merge, asked, result>>

SharedScan ==
  /\ pc = "sums" /\ Summed /\ DiffBuckets # {} /\ path = "shared"
  /\ Merging(UNION {KeysIn(b) : b \in DiffBuckets}, CountOf(DiffBuckets), {})
  /\ pc' = "merge"
  /\ UNCHANGED <<env, view, total, sums, path, todo, asked, result>>

BucketByBucket ==
  /\ pc = "sums" /\ Summed /\ DiffBuckets # {} /\ path = "bucket"
  /\ todo' = DiffBuckets
  /\ pc' = "bucket"
  /\ UNCHANGED <<env, view, total, sums, path, merge, asked, result>>

NextBucket ==
  /\ pc = "bucket" /\ todo # {}
  /\ Merging(KeysIn(Min(todo)), CountOf({Min(todo)}), {})
  /\ todo' = todo \ {Min(todo)}
  /\ pc' = "merge"
  /\ UNCHANGED <<env, view, total, sums, path, asked, result>>

BucketsDone ==
  /\ pc = "bucket" /\ todo = {}
  /\ pc' = "commit"
  /\ UNCHANGED <<env, view, total, sums, path, todo, merge, asked, result>>

------------------------------------------------------------------------------
(* rowdiff: two cursors merged by key.                                     *)

(* The cursor whose rows are used up first is served first, the left one   *)
(* when both are.                                                          *)
Starved(s) ==
  /\ ~exhausted[s]
  /\ exhausted[Other(s)] \/ pos[s] <= pos[Other(s)]

IsFirst(page, ks, n) ==
  /\ page \subseteq ks
  /\ Cardinality(page) = Min({n, Cardinality(ks)})
  /\ \A i \in page, j \in ks \ page : i < j

FetchPage(s) ==
  LET ahead == {k \in scope : k > pos[s] /\ View(s)[k] # Absent}
  IN
  /\ pc \in {"merge", "small"}
  /\ Starved(s) /\ (s = "right" => ~Starved("left"))
  /\ \E page \in SUBSET ahead :
       /\ IsFirst(page, ahead, PageSize)
       /\ seen' = [seen EXCEPT ![s] = @ \cup RowsOf(View(s), page)]
       /\ pos' = [pos EXCEPT ![s] = IF page = {} THEN @ ELSE Max(page)]
       /\ exhausted' = [exhausted EXCEPT ![s] = Cardinality(page) < PageSize]
  /\ UNCHANGED <<env, view, pc, total, sums, path, todo, scope, expected, asked,
                 result>>

Fetched(s) == Cardinality(seen[s])

(* fetch_count_mismatch_warning.                                           *)
FetchMismatchLeft == Fetched("left") # expected["left"]
FetchMismatch == \E s \in Side : Fetched(s) # expected[s]

Merged ==
  /\ pc = "merge" /\ exhausted = Both(TRUE)
  /\ found' = found \cup DiffRows(seen["left"], seen["right"])
  /\ warned' = (warned \/ FetchMismatch)
  /\ pc' = IF path = "bucket" THEN "bucket" ELSE "commit"
  /\ UNCHANGED <<env, view, total, sums, path, todo, merge, asked, missingBig, exit>>

SmallRead ==
  /\ pc = "small" /\ exhausted = Both(TRUE)
  /\ warned' = (warned \/ Fetched(Small) # expected[Small])
  /\ pc' = "hits"
  /\ UNCHANGED <<env, view, total, sums, path, todo, merge, asked, found,
                 missingBig, exit>>

(* One statement looks up the next keys of the small side in the big one.  *)
PointQuery ==
  LET rest == KeysOf(seen[Small]) \ asked
  IN
  /\ pc = "hits" /\ rest # {}
  /\ \E ks \in SUBSET rest :
       /\ IsFirst(ks, rest, Chunk)
       /\ asked' = asked \cup ks
       /\ seen' = [seen EXCEPT ![Big] = @ \cup RowsOf(View(Big), ks)]
  /\ UNCHANGED <<env, view, pc, total, sums, path, todo, scope, expected, pos,
                 exhausted, result>>

(* merge_small_vs_hits: the rows of the big side that were not asked for   *)
(* are its COUNT less the pairs, and are not looked at.                    *)
LessOf(n, pairs) == IF n > pairs THEN n - pairs ELSE 0
MissingOfEqual ==
  LessOf(Total(Big), Cardinality(seen[Small] \cap seen[Big]))
Missing ==
  LessOf(Total(Big), Cardinality(KeysOf(seen[Small]) \cap KeysOf(seen[Big])))

MergeHits ==
  /\ pc = "hits" /\ KeysOf(seen[Small]) = asked
  /\ found' = DiffRows(seen["left"], seen["right"])
  /\ missingBig' = Missing
  /\ warned' = (warned \/ Fetched(Big) > Total(Big))
  /\ pc' = "commit"
  /\ UNCHANGED <<env, view, total, sums, path, todo, merge, asked, exit>>

------------------------------------------------------------------------------
(* MinusDiffer: every statement runs in the left session.                  *)

Supported ==
  /\ pc = "probe"
  /\ pc' = IF mode.snapshot THEN "anchor" ELSE "minusLeft"
  /\ UNCHANGED <<env, view, total, sums, path, todo, merge, asked, result>>

(* fallback_keyed: the anchor is given up and keyeddiff starts over.       *)
FallBack ==
  /\ snap' = Both({}) /\ total' = Both({})
  /\ pc' = KeyedStart
  /\ UNCHANGED <<env, base, sums, path, todo, merge, asked, result>>

Unsupported == pc = "probe" /\ FallBack

(* open_shared_anchor: one snapshot for both tables.                       *)
Anchor ==
  /\ pc = "anchor"
  /\ snap' = [s \in Side |-> {tab[s]}] /\ base' = [s \in Side |-> {tab[s]}]
  /\ pc' = "minusLeft"
  /\ UNCHANGED <<env, total, sums, path, todo, merge, asked, result>>

MinusCount(s) ==
  /\ pc = IF s = "left" THEN "minusLeft" ELSE "minusRight"
  /\ CountRows(s)
  /\ pc' = IF s = "left" THEN "minusRight" ELSE "minus"

OverBudget == MaxCells # 0 /\ Larger > MaxCells

OverCells == pc = "minus" /\ OverBudget /\ FallBack

Report(rows, warn) ==
  /\ found' = rows
  /\ warned' = warn
  /\ pc' = "commit"
  /\ UNCHANGED <<env, view, sums, path, todo, merge, asked, missingBig, exit>>

MinusNothing ==
  /\ pc = "minus" /\ ~OverBudget /\ Larger = 0
  /\ Report({}, FALSE) /\ UNCHANGED total

(* empty_side: a summary takes the COUNT for the number of differences.    *)
CountOneSide ==
  /\ pc = "minus" /\ ~OverBudget /\ Smaller = 0 /\ Larger > 0 /\ mode.summary
  /\ missingBig' = Larger
  /\ pc' = "commit"
  /\ UNCHANGED <<env, view, total, sums, path, todo, merge, asked, found, warned, exit>>

ReadOneSide ==
  LET rows == [s \in Side |-> IF s = Big THEN Rows(s) ELSE {}]
  IN
  /\ pc = "minus" /\ ~OverBudget /\ Smaller = 0 /\ Larger > 0 /\ ~mode.summary
  /\ Report(DiffRows(rows["left"], rows["right"]), FALSE)
  /\ UNCHANGED total

MinusSum(s) ==
  /\ pc = "minus" /\ ~OverBudget /\ Smaller > 0
  /\ sums[s] = {} /\ (s = "right" => sums["left"] # {})
  /\ sums' = [sums EXCEPT ![s] = {Rows(s)}]
  /\ UNCHANGED <<env, view, pc, total, path, todo, merge, asked, result>>

(* The checksums' counts replace the totals when they differ from them.    *)
Sum(s) == CHOOSE x \in sums[s] : TRUE
Recounted == [s \in Side |-> {Cardinality(Sum(s))}]

MinusEqual ==
  /\ pc = "minus" /\ Summed /\ Sum("left") = Sum("right")
  /\ total' = Recounted
  /\ Report({}, Recounted # total)

MinusDiffer ==
  /\ pc = "minus" /\ Summed /\ Sum("left") # Sum("right")
  /\ total' = Recounted
  /\ warned' = (Recounted # total)
  /\ pc' = "except"
  /\ UNCHANGED <<env, view, sums, path, todo, merge, asked, found, missingBig, exit>>

(* (L EXCEPT R) and (R EXCEPT L) in one statement.                         *)
SetDifference ==
  /\ pc = "except"
  /\ Report(DiffRows(Rows("left"), Rows("right")), warned)
  /\ UNCHANGED total

------------------------------------------------------------------------------
(* JoinDiffer: one outer join, then the two counts; no snapshot is opened. *)

OuterJoin ==
  /\ pc = "join"
  /\ found' = DiffRows(Rows("left"), Rows("right"))
  /\ pc' = "joinLeft"
  /\ UNCHANGED <<env, view, total, sums, path, todo, merge, asked, missingBig,
                 warned, exit>>

JoinCount(s) ==
  /\ pc = IF s = "left" THEN "joinLeft" ELSE "joinRight"
  /\ CountRows(s)
  /\ pc' = IF s = "left" THEN "joinRight" ELSE "commit"

------------------------------------------------------------------------------
(* COMMIT; execute_diff takes the exit code from the counts.               *)
Finish ==
  /\ pc = "commit"
  /\ snap' = Both({})
  /\ exit' = IF found = {} /\ missingBig = 0 THEN "identical" ELSE "diff"
  /\ pc' = "done"
  /\ UNCHANGED <<env, base, total, sums, path, todo, merge, asked, found,
                 missingBig, warned>>

(* A statement fails: the run ends with EXIT_ERROR and no report.          *)
Fail ==
  /\ pc \notin {"commit", "done"}
  /\ snap' = Both({})
  /\ exit' = "error"
  /\ pc' = "done"
  /\ UNCHANGED <<env, base, total, sums, path, todo, merge, asked, found,
                 missingBig, warned>>

(* An application writes one row.                                          *)
Write(s, k, r) ==
  /\ pc # "done" /\ writes < MaxWrites
  /\ tab[s][k] # r
  /\ tab' = [tab EXCEPT ![s][k] = r]
  /\ touched' = touched \cup {k}
  /\ writes' = writes + 1
  /\ UNCHANGED <<mode, view, pc, total, sums, path, todo, merge, asked, result>>

------------------------------------------------------------------------------
Init ==
  /\ mode \in Modes
  /\ tab \in InitialTables
  /\ touched = {} /\ writes = 0
  /\ pc = CASE mode.way = "keyed" -> KeyedStart
            [] mode.way = "minus" -> "probe"
            [] mode.way = "join" -> "join"
  /\ snap = Both({}) /\ base = Both({}) /\ total = Both({}) /\ sums = Both({})
  /\ path = "none" /\ todo = {} /\ scope = {} /\ expected = Both(0)
  /\ seen = Both({}) /\ pos = Both(0) /\ exhausted = Both(FALSE)
  /\ asked = {} /\ found = {} /\ missingBig = 0 /\ warned = FALSE
  /\ exit = "none"

KeyedStep ==
  \/ \E s \in Side : OpenSnapshot(s) \/ KeyedCount(s) \/ BatchChecksum(s) \/ FetchPage(s)
  \/ BothEmpty \/ ReadAll \/ ReadSmall \/ ChecksumBuckets
  \/ BucketsAgree \/ SharedScan \/ BucketByBucket \/ NextBucket \/ BucketsDone
  \/ Merged \/ SmallRead \/ PointQuery \/ MergeHits

MinusStep ==
  \/ Supported \/ Unsupported \/ Anchor \/ OverCells
  \/ \E s \in Side : MinusCount(s) \/ MinusSum(s)
  \/ MinusNothing \/ CountOneSide \/ ReadOneSide
  \/ MinusEqual \/ MinusDiffer \/ SetDifference

JoinStep == OuterJoin \/ \E s \in Side : JoinCount(s)

Next ==
  \/ KeyedStep \/ MinusStep \/ JoinStep \/ Finish \/ Fail
  \/ \E s \in Side, k \in Keys, r \in RowImage : Write(s, k, r)

Spec == Init /\ [][Next]_vars

------------------------------------------------------------------------------
Reported == exit \in {"identical", "diff"}

StableDiff == {k \in Keys \ touched : tab["left"][k] # tab["right"][k]}
StableSame == (Keys \ touched) \ StableDiff

Status(status) == Cardinality({d \in found : d.status = status})

(* The summary's counts: what was not fetched is missing on the small side.*)
Lacking(s) ==
  Status(IF s = "left" THEN "missing_left" ELSE "missing_right")
    + (IF missingBig > 0 /\ s = Small THEN missingBig ELSE 0)

(* Rows nobody writes during the comparison are reported right, whatever   *)
(* is written around them: one that differs is in the report, unless only  *)
(* the count of the big side stands for it, one that agrees is not, and    *)
(* the exit code says `identical' for no such difference, unless a warning *)
(* says that the counts do not fit (keyed_diff.rs:86-226, 386-537,         *)
(* minus_diff/mod.rs:71-170).                                              *)
StableReported ==
  Reported =>
    /\ StableSame \cap {d.key : d \in found} = {}
    /\ missingBig = 0 => warned \/ StableDiff \subseteq {d.key : d \in found}
    /\ missingBig > 0 =>
         \A k \in StableDiff : tab[Small][k] # Absent => k \in {d.key : d \in found}

(* With --consistency snapshot, keyeddiff and minusdiff report exactly the *)
(* differences of the snapshots the reporting strategy opened, and the     *)
(* counts of a summary agree with them, also where rows are counted and    *)
(* never fetched, and after minusdiff gave way to keyeddiff                *)
(* (keyed_diff.rs:52-58, 1049-1061, minus_diff/mod.rs:324-340).            *)
SnapshotExact ==
  Reported /\ mode.snapshot /\ mode.way # "join" =>
    LET l == RowsOf(CHOOSE t \in base["left"] : TRUE, Keys)
        r == RowsOf(CHOOSE t \in base["right"] : TRUE, Keys)
        truth == DiffRows(l, r)
        of(status) == Cardinality({d \in truth : d.status = status})
    IN  /\ found \subseteq truth
        /\ missingBig = 0 => found = truth
        /\ total["left"] = {Cardinality(l)} /\ total["right"] = {Cardinality(r)}
        /\ Lacking("left") = of("missing_left") /\ Lacking("right") = of("missing_right")
        /\ Status("modified") = of("modified")
        /\ ~warned

(* The counts of a report add up, or it warns: the rows the left side has  *)
(* beyond those missing on the right are as many as those the right side   *)
(* has beyond those missing on the left.  It holds for the strategies that *)
(* compare what they fetched with what they counted                        *)
(* (keyed_diff.rs:648-665, 1040-1055); the bucketed paths, minusdiff and   *)
(* joindiff read their totals in statements of their own and only a        *)
(* snapshot keeps them together.                                           *)
CountsAddUp ==
  Reported /\ ~warned /\ mode.way = "keyed"
    /\ (mode.snapshot \/ path \in {"none", "all", "point"}) =>
      Total("left") + Lacking("left") = Total("right") + Lacking("right")
==============================================================================
