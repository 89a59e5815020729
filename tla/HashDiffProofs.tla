--------------------------- MODULE HashDiffProofs ---------------------------
(***************************************************************************)
(* What a hashdiff job reports is true and complete, for every set of      *)
(* keys, every pair of tables, every segmentation, page and batch size,    *)
(* any number of writers and any number of interrupted runs.               *)
(*                                                                         *)
(*   TypeInv    types, and that what is counted is finite.                 *)
(*   SafeInv    what has been read tells of the stable rows: snapshots,    *)
(*              checksums, page buffers, the checkpoint, the recheck.      *)
(*   CoverInv   every stable difference is still in sight of the run.      *)
(*   RefineInv  what a resumed run leaves out is what it withholds.        *)
(*   ExactInv   under a snapshot, the report so far is the comparison of   *)
(*              the segments it names, which have no key in common.        *)
(*                                                                         *)
(* The theorems at the end of each part draw HashDiff's properties from    *)
(* these invariants, and that it implements DiffContract.                  *)
(***************************************************************************)
EXTENDS HashDiff, KeyRangeProofs

(* What the type invariant needs to be inductive: checksums and the rows   *)
(* of a merge are finite sets, so that they can be counted.                *)
FiniteOK ==
  /\ \A s \in Side : \A x \in sums[s] : IsFiniteSet(x)
  /\ \A s \in Side : \A a \in agg[s] : IsFiniteSet(a.rows)

(* The domain is only cut when one of the sides has a key.                 *)
DomainOK == pc \in {"full", "aggregate"} => ends["left"] \cup ends["right"] # {}

(* A merge still holds the two checksums, whose counts its shard reports.  *)
CountedOK == pc = "merge" => Known

TypeInv == TypeOK /\ FiniteOK /\ DomainOK /\ CountedOK

-----------------------------------------------------------------------------
(***************************************************************************)
(* Operators.                                                              *)
(***************************************************************************)
LEMMA BothType ==
  ASSUME NEW S, NEW x \in S
  PROVE  Both(x) \in [Side -> S]
BY DEF Both

LEMMA ItemType ==
  ASSUME NEW p \in Int64 \X Int64, NEW d \in Nat
  PROVE  Item(p, d) \in Segment
BY DEF Item, Segment

LEMMA NoItemType == NoItem \in Segment
BY MaxIntAssumption DEF NoItem, Segment, Int64

LEMMA InRangeKeys ==
  ASSUME NEW seg
  PROVE  InRange(seg) \in SUBSET Keys /\ IsFiniteSet(InRange(seg))
<1>1. InRange(seg) \in SUBSET Keys
  BY DEF InRange
<1> QED
  BY <1>1, FS_Subset, HashDiffAssumption

LEMMA KeysType ==
  ASSUME NEW ks \in SUBSET Keys
  PROVE  ks \in SUBSET Int64 /\ IsFiniteSet(ks)
BY FS_Subset, HashDiffAssumption

(* A checksum covers finitely many rows. *)
LEMMA RowsOfType ==
  ASSUME NEW t \in Table, NEW ks \in SUBSET Keys
  PROVE  /\ RowsOf(t, ks) \in SUBSET Row
         /\ KeysOf(RowsOf(t, ks)) \in SUBSET ks
         /\ IsFiniteSet(RowsOf(t, ks))
<1> DEFINE present == {i \in ks : t[i] # Absent}
           f == [k \in present |-> <<k, t[k]>>]
<1>1. \A k \in present : k \in Keys /\ t[k] \in Values
  BY DEF Table, RowImage
<1>2. RowsOf(t, ks) \in SUBSET Row
  BY <1>1 DEF RowsOf, Row
<1>3. KeysOf(RowsOf(t, ks)) \in SUBSET ks
  BY DEF KeysOf, RowsOf
<1>4. IsFiniteSet(present)
  BY KeysType, FS_Subset
<1>5. f \in Surjection(present, RowsOf(t, ks))
  BY DEF Surjection, RowsOf
<1>6. IsFiniteSet(RowsOf(t, ks))
  BY <1>4, <1>5, FS_Surjection
<1> QED
  BY <1>2, <1>3, <1>6

LEMMA KeysOfType ==
  ASSUME NEW rows \in SUBSET Row
  PROVE  KeysOf(rows) \in SUBSET Keys
BY DEF KeysOf, Row

LEMMA DiffRowsType ==
  ASSUME NEW l \in SUBSET Row, NEW r \in SUBSET Row
  PROVE  DiffRows(l, r) \in SUBSET DiffType
<1>1. KeysOf(l) \in SUBSET Keys /\ KeysOf(r) \in SUBSET Keys /\ KeysOf(l \ r) \in SUBSET Keys
  BY KeysOfType
<1> QED
  BY <1>1 DEF DiffRows, DiffType

(* There are finitely many differences a report can name. *)
LEMMA DiffTypeFinite ==
  ASSUME NEW D \in SUBSET DiffType
  PROVE  IsFiniteSet(D) /\ Cardinality(D) \in Nat
<1> DEFINE Of(st) == [key : Keys, status : {st}]
           f(st) == [k \in Keys |-> [key |-> k, status |-> st]]
<1>1. ASSUME NEW st PROVE IsFiniteSet(Of(st))
  <2>1. f(st) \in Surjection(Keys, Of(st))
    BY DEF Surjection
  <2> QED
    BY <2>1, FS_Surjection, HashDiffAssumption
<1>2. IsFiniteSet(Of("missing_left") \cup Of("missing_right"))
  BY <1>1, FS_Union
<1>3. IsFiniteSet((Of("missing_left") \cup Of("missing_right")) \cup Of("modified"))
  BY <1>1, <1>2, FS_Union
<1>4. DiffType = (Of("missing_left") \cup Of("missing_right")) \cup Of("modified")
  BY DEF DiffType
<1>5. IsFiniteSet(DiffType)
  BY <1>3, <1>4
<1>6. IsFiniteSet(D)
  BY <1>5, FS_Subset
<1> QED
  BY <1>6, FS_CardinalityType

LEMMA EndsOfType ==
  ASSUME NEW ks \in SUBSET Keys
  PROVE  EndsOf(ks) \in SUBSET Keys
<1>1. CASE ks = {}
  BY <1>1 DEF EndsOf
<1>2. CASE ks # {}
  <2>1. Min(ks) \in ks /\ Max(ks) \in ks
    BY <1>2, KeysType, MinInt64, MaxInt64
  <2> QED
    BY <1>2, <2>1 DEF EndsOf
<1> QED
  BY <1>1, <1>2

LEMMA ViewType ==
  ASSUME TypeOK, NEW s \in Side
  PROVE  View(s) \in Table
BY DEF TypeOK, View

(* Both sides empty is the only case in which the domain is not needed. *)
LEMMA DomainType ==
  ASSUME TypeOK, ends["left"] \cup ends["right"] # {}
  PROVE  Domain \in Segment
<1> DEFINE all == ends["left"] \cup ends["right"]
<1>1. all \in SUBSET Keys
  BY DEF TypeOK, Side
<1>2. all \in SUBSET Int64 /\ Min(all) \in all /\ Max(all) \in all
  BY <1>1, KeysType, MinInt64, MaxInt64
<1>3. Min(all) \in Int64 /\ Max(all) + 1 \in Int
  BY <1>2 DEF Int64
<1>4. Wrap(Max(all) + 1) \in Int64
  BY <1>3, WrapType
<1> QED
  BY <1>3, <1>4, ItemType DEF Domain

LEMMA EntryTypes ==
  ASSUME NEW seg \in Segment, NEW lc \in Nat, NEW rc \in Nat, NEW dc \in Nat,
         NEW st \in {"Match", "Diff", "Skipped"}
  PROVE  Entry(seg, lc, rc, dc) \in EntryType /\ Shard(seg, lc, rc, dc, st) \in ShardType
BY DEF Segment, Entry, EntryType, Shard, ShardType

LEMMA RecordType ==
  ASSUME TypeOK, NEW e \in EntryType, RecordCheckpoint(e)
  PROVE  /\ file' \in [header : {"none", "ok", "bad"}, recs : SUBSET EntryType,
                       torn : BOOLEAN]
         /\ completed' \subseteq EntryType
BY DEF TypeOK, RecordCheckpoint, Appended, Put

(* Once both checksums are there they can be counted. *)
LEMMA CountType ==
  ASSUME TypeInv, Known, NEW s \in Side
  PROVE  Count(s) \in Nat
<1>1. sums[s] # {}
  BY DEF Known, Side
<1>2. Sum(s) \in sums[s]
  BY <1>1 DEF Sum
<1>3. IsFiniteSet(Sum(s))
  BY <1>2 DEF TypeInv, FiniteOK
<1> QED
  BY <1>3, FS_CardinalityType DEF Count

-----------------------------------------------------------------------------
(***************************************************************************)
(* Type correctness.                                                       *)
(***************************************************************************)
LEMMA InitType == Init => TypeInv
<1> SUFFICES ASSUME Init PROVE TypeInv
  OBVIOUS
<1>1. TypeOK
  BY HashDiffAssumption, NoItemType
  DEF Init, TypeOK, Both, Idle, NoFile
<1> QED
  BY <1>1 DEF Init, TypeInv, FiniteOK, DomainOK, CountedOK, Both

(* A run that starts or stops clears everything but the file.              *)
LEMMA RestartedType ==
  ASSUME TypeInv, Restarted, pc' \notin {"full", "aggregate", "merge"},
         touched' \subseteq Keys, pc' \in Idle \cup Querying,
         exit' \in {"none", "identical", "diff", "error", "killed"},
         file' \in [header : {"none", "ok", "bad"}, recs : SUBSET EntryType,
                    torn : BOOLEAN],
         completed' \subseteq EntryType, aborts' \in 0 .. MaxAborts
  PROVE  TypeInv'
<1>1. TypeOK'
  BY NoItemType DEF TypeInv, TypeOK, Restarted, Both
<1> QED
  BY <1>1 DEF TypeInv, FiniteOK, DomainOK, CountedOK, Restarted, Both

(* What no step of the comparison but a few touches.                       *)
LEMMA ChecksumType ==
  ASSUME TypeInv, NEW s \in Side, NEW seg, Checksum(s, seg)
  PROVE  TypeInv'
<1>1. View(s) \in Table
  BY ViewType DEF TypeInv
<1>2. RowsOf(View(s), InRange(seg)) \in SUBSET Row /\ IsFiniteSet(RowsOf(View(s), InRange(seg)))
  BY <1>1, InRangeKeys, RowsOfType
<1> DEFINE rows == RowsOf(View(s), InRange(seg))
<1>3. sums' = [sums EXCEPT ![s] = {rows}] /\ rows \in SUBSET Row /\ IsFiniteSet(rows)
  BY <1>2 DEF Checksum
<1> HIDE DEF rows
<1>4. sums' \in [Side -> SUBSET SUBSET Row]
  BY <1>3 DEF TypeInv, TypeOK
<1>5. TypeOK'
  BY <1>4 DEF TypeInv, TypeOK, Checksum, env, cursors, result, recheck, disk
<1>6. FiniteOK'
  BY <1>3 DEF TypeInv, TypeOK, FiniteOK, Checksum
<1>7. DomainOK'
  BY DEF TypeInv, DomainOK, Checksum
<1>8. CountedOK'
  BY DEF TypeInv, CountedOK, Known, Checksum, Side
<1> QED
  BY <1>5, <1>6, <1>7, <1>8 DEF TypeInv

LEMMA MatchType ==
  ASSUME TypeInv, NEW seg \in Segment, NEW next \in {"commit", "segment"}, Match(seg, next)
  PROVE  TypeInv'
<1>1. Count("left") \in Nat /\ Count("right") \in Nat
  BY CountType DEF Match, Agree, Side
<1> DEFINE e == Entry(seg, Count("left"), Count("right"), 0)
           sh == Shard(seg, Count("left"), Count("right"), 0, "Match")
<1>2. e \in EntryType /\ sh \in ShardType
  BY <1>1, EntryTypes
<1>3. RecordCheckpoint(e) /\ shards' = shards \cup {sh}
  BY DEF Match
<1> HIDE DEF e, sh
<1>4. /\ file' \in [header : {"none", "ok", "bad"}, recs : SUBSET EntryType, torn : BOOLEAN]
      /\ completed' \subseteq EntryType
  BY <1>2, <1>3, RecordType DEF TypeInv
<1>5. TypeOK'
  BY <1>2, <1>3, <1>4, NoItemType
  DEF TypeInv, TypeOK, Match, Both, Querying, env, cursors, recheck
<1> QED
  BY <1>5 DEF TypeInv, FiniteOK, DomainOK, CountedOK, Match, Both

LEMMA StepType == TypeInv /\ [Next]_vars => TypeInv'
<1> SUFFICES ASSUME TypeInv, [Next]_vars PROVE TypeInv'
  OBVIOUS
<1> USE DEF TypeInv
<1>0. CASE UNCHANGED vars
  BY <1>0 DEF TypeOK, FiniteOK, DomainOK, CountedOK, Known, vars, env, work, cursors, result,
     recheck, disk
<1>1. ASSUME NEW s \in Side, NEW k \in Keys, NEW r \in RowImage, Write(s, k, r)
      PROVE TypeInv'
  <2>1. TypeOK'
    BY <1>1, HashDiffAssumption
    DEF TypeOK, Write, Table, work, cursors, result, recheck, disk
  <2> QED
    BY <1>1, <2>1 DEF FiniteOK, DomainOK, CountedOK, Known, Write, work, cursors, result
<1>2. CASE Start
  BY <1>2, RestartedType DEF Start, TypeOK, Querying
<1>3. CASE StartRefused
  BY <1>3, RestartedType DEF StartRefused, TypeOK, Idle
<1>4. CASE StartTornHeader
  <2>1. aborts' \in 0 .. MaxAborts
    BY <1>4, HashDiffAssumption DEF StartTornHeader, TypeOK
  <2> QED
    BY <1>4, <2>1, RestartedType DEF StartTornHeader, TypeOK, Idle
<1>5. ASSUME NEW s \in Side, OpenSnapshot(s) PROVE TypeInv'
  <2>1. TypeOK'
    BY <1>5 DEF TypeOK, OpenSnapshot, Querying, env, work, cursors, result, recheck, disk
  <2> QED
    BY <1>5, <2>1 DEF FiniteOK, DomainOK, CountedOK, OpenSnapshot, work, cursors
<1>6. ASSUME NEW s \in Side, KeyRange(s) PROVE TypeInv'
  <2> DEFINE e == EndsOf(KeysOf(RowsOf(View(s), Keys)))
  <2>1. e \in SUBSET Keys
    BY ViewType, RowsOfType, EndsOfType
  <2>2. /\ ends' = [ends EXCEPT ![s] = e]
        /\ pc' = IF s = "left" THEN "rangeRight"
                 ELSE IF ends["left"] \cup e = {} THEN "commit" ELSE "full"
    BY <1>6 DEF KeyRange
  <2> HIDE DEF e
  <2>3. TypeOK'
    BY <1>6, <2>1, <2>2
    DEF TypeOK, KeyRange, Querying, env, work, cursors, result, recheck, disk
  <2>4. DomainOK'
    BY <2>2 DEF DomainOK, TypeOK, Side
  <2> QED
    BY <1>6, <2>3, <2>4 DEF FiniteOK, CountedOK, KeyRange, work, cursors
<1>7. ASSUME NEW s \in Side, FullChecksum(s) PROVE TypeInv'
  BY <1>7, ChecksumType DEF FullChecksum
<1>8. CASE FullMatch
  BY <1>8, DomainType, MatchType DEF FullMatch, DomainOK
<1>9. CASE FullMismatch
  <2>1. Domain \in Segment
    BY <1>9, DomainType DEF FullMismatch, DomainOK
  <2>2. FirstSegments \in SUBSET (Int64 \X Int64)
    BY <2>1, SplitRangeType, HashDiffAssumption DEF FirstSegments, Segment
  <2>3. {Item(p, 0) : p \in FirstSegments} \subseteq Segment
    BY <2>2, ItemType
  <2>4. todo' \subseteq Segment
    BY <1>9, <2>3 DEF FullMismatch, TypeOK
  <2>5. TypeOK'
    BY <1>9, <2>4
    DEF TypeOK, FullMismatch, Both, Querying, env, cursors, result, recheck, disk
  <2> QED
    BY <1>9, <2>5 DEF FiniteOK, DomainOK, CountedOK, FullMismatch, Both
<1>10. ASSUME NEW s \in Side, NEW c \in 0 .. Segments, AggregateChunk(s, c) PROVE TypeInv'
  <2> DEFINE chunk == {p \in FirstSegments : ChunkOf(p) = c}
             row(p) == [lo |-> p[1], hi |-> p[2],
                        rows |-> RowsOf(tab[s], InRange(Item(p, 0)))]
             new == {row(p) : p \in chunk}
  <2>1. Domain \in Segment
    BY <1>10, DomainType DEF AggregateChunk, DomainOK
  <2>2. FirstSegments \in SUBSET (Int64 \X Int64)
    BY <2>1, SplitRangeType, HashDiffAssumption DEF FirstSegments, Segment
  <2>3. ASSUME NEW p \in chunk
        PROVE  row(p) \in [lo : Int64, hi : Int64, rows : SUBSET Row] /\ IsFiniteSet(row(p).rows)
    <3>1. tab[s] \in Table
      BY DEF TypeOK
    <3> QED
      BY <2>2, <3>1, InRangeKeys, RowsOfType
  <2>4. agg' = [agg EXCEPT ![s] = @ \cup new]
    BY <1>10 DEF AggregateChunk
  <2>5. new \subseteq [lo : Int64, hi : Int64, rows : SUBSET Row] /\ \A a \in new : IsFiniteSet(a.rows)
    BY <2>3
  <2> HIDE DEF new
  <2>6. TypeOK'
    BY <1>10, <2>4, <2>5
    DEF TypeOK, AggregateChunk, env, cursors, result, recheck, disk
  <2>7. FiniteOK'
    BY <1>10, <2>4, <2>5 DEF TypeOK, FiniteOK, AggregateChunk
  <2> QED
    BY <1>10, <2>6, <2>7 DEF DomainOK, CountedOK, AggregateChunk
<1>11. CASE AllAggregated
  <2>1. Domain \in Segment
    BY <1>11, DomainType DEF AllAggregated, DomainOK
  <2>2. FirstSegments \in SUBSET (Int64 \X Int64)
    BY <2>1, SplitRangeType, HashDiffAssumption DEF FirstSegments, Segment
  <2>3. {Item(p, 0) : p \in FirstSegments} \subseteq Segment
    BY <2>2, ItemType
  <2>4. TypeOK'
    BY <1>11, <2>3
    DEF TypeOK, AllAggregated, Querying, env, cursors, result, recheck, disk
  <2> QED
    BY <1>11, <2>4 DEF FiniteOK, DomainOK, CountedOK, AllAggregated
<1>12. ASSUME NEW seg \in todo, SkipSegment(seg) PROVE TypeInv'
  <2>1. PICK e \in Completed(seg) :
          shards' = shards \cup {Shard(seg, e.lc, e.rc, e.dc, "Skipped")}
    BY <1>12 DEF SkipSegment
  <2>2. seg \in Segment /\ e \in EntryType
    BY DEF TypeOK, Completed
  <2>3. Shard(seg, e.lc, e.rc, e.dc, "Skipped") \in ShardType
    BY <2>2, EntryTypes DEF EntryType
  <2>4. shards' \subseteq ShardType
    BY <2>1, <2>3 DEF TypeOK
  <2>5. TypeOK'
    BY <1>12, <2>4 DEF TypeOK, SkipSegment, env, cursors, recheck, disk
  <2> QED
    BY <1>12, <2>5 DEF FiniteOK, DomainOK, CountedOK, SkipSegment
<1>13. ASSUME NEW seg \in todo, TakeSegment(seg) PROVE TypeInv'
  <2> DEFINE of(s) == {a.rows : a \in {x \in agg[s] : x.lo = seg.lo /\ x.hi = seg.hi}}
  <2>1. seg \in Segment
    BY DEF TypeOK
  <2>2. \A s \in Side : of(s) \in SUBSET SUBSET Row /\ \A x \in of(s) : IsFiniteSet(x)
    BY DEF TypeOK, FiniteOK
  <2>3. sums' = IF FromFirstPass(seg) THEN [s \in Side |-> of(s)] ELSE [s \in Side |-> {}]
    BY <1>13 DEF TakeSegment, Both
  <2> HIDE DEF of
  <2>4. sums' \in [Side -> SUBSET SUBSET Row] /\ \A s \in Side : \A x \in sums'[s] : IsFiniteSet(x)
    BY <2>2, <2>3
  <2>5. TypeOK'
    BY <1>13, <2>1, <2>4
    DEF TypeOK, TakeSegment, Querying, env, cursors, result, recheck, disk
  <2>6. FiniteOK'
    BY <1>13, <2>4 DEF FiniteOK, TakeSegment
  <2> QED
    BY <1>13, <2>5, <2>6 DEF DomainOK, CountedOK, TakeSegment
<1>14. ASSUME NEW s \in Side, SegmentChecksum(s) PROVE TypeInv'
  BY <1>14, ChecksumType DEF SegmentChecksum
<1>15. CASE SegmentMatch
  BY <1>15, MatchType DEF SegmentMatch, TypeOK
<1>16. CASE StartMerge
  <2>1. cur.lo - 1 \in Int
    BY DEF TypeOK, Segment, Int64
  <2>2. TypeOK'
    BY <1>16, <2>1
    DEF TypeOK, StartMerge, Both, Querying, env, result, recheck, disk
  <2> QED
    BY <1>16, <2>2 DEF FiniteOK, DomainOK, CountedOK, StartMerge, Mismatch, Known
<1>17. CASE Split
  <2>1. /\ cur.lo \in Int64 /\ cur.hi \in Int64 /\ cur.depth + 1 \in Nat
        /\ Factor \in Nat \ {0}
    BY HashDiffAssumption DEF TypeOK, Segment
  <2>2. SplitRange(cur.lo, cur.hi, Factor) \in SUBSET (Int64 \X Int64)
    BY <2>1, SplitRangeType
  <2>3. {Item(p, cur.depth + 1) : p \in SplitRange(cur.lo, cur.hi, Factor)} \subseteq Segment
    BY <2>1, <2>2, ItemType
  <2>4. todo' \subseteq Segment
    BY <1>17, <2>3 DEF Split, TypeOK
  <2>5. TypeOK'
    BY <1>17, <2>4, NoItemType
    DEF TypeOK, Split, Both, Querying, env, cursors, result, recheck, disk
  <2> QED
    BY <1>17, <2>5 DEF FiniteOK, DomainOK, CountedOK, Split, Both
<1>18. CASE DepthExceeded
  BY <1>18, RestartedType DEF DepthExceeded, Stopped, TypeOK, Idle
<1>19. ASSUME NEW s \in Side, FetchPage(s) PROVE TypeInv'
  <2>1. PICK page \in SUBSET InRange(cur) :
          /\ buf' = [buf EXCEPT ![s] = RowsOf(View(s), page)]
          /\ pos' = [pos EXCEPT ![s] = Advanced(@, page)]
          /\ exhausted' = [exhausted EXCEPT ![s] = LastPage(page)]
    BY <1>19 DEF FetchPage
  <2>2. page \in SUBSET Keys /\ View(s) \in Table
    BY InRangeKeys, ViewType
  <2>3. RowsOf(View(s), page) \in SUBSET Row
    BY <2>2, RowsOfType
  <2>4. Advanced(pos[s], page) \in Int
    <3>1. page # {} => Max(page) \in page
      BY <2>2, KeysType, MaxInt64
    <3> QED
      BY <2>2, <3>1, KeysType DEF Advanced, TypeOK, Int64
  <2>5. LastPage(page) \in BOOLEAN
    BY DEF LastPage
  <2>6. /\ buf' \in [Side -> SUBSET Row] /\ pos' \in [Side -> Int]
        /\ exhausted' \in [Side -> BOOLEAN]
    BY <2>1, <2>3, <2>4, <2>5 DEF TypeOK
  <2>7. TypeOK'
    BY <1>19, <2>6 DEF TypeOK, FetchPage, env, result, recheck, disk
  <2> QED
    BY <1>19, <2>7 DEF FiniteOK, DomainOK, CountedOK, Known, FetchPage
<1>20. CASE MergeRows
  <2> DEFINE ready == [s \in Side |-> {r \in buf[s] : r[1] <= MergeLimit}]
  <2>1. \A s \in Side : ready[s] \in SUBSET Row
    BY DEF TypeOK
  <2>2. /\ found' = found \cup DiffRows(ready["left"], ready["right"])
        /\ buf' = [s \in Side |-> buf[s] \ ready[s]]
    BY <1>20 DEF MergeRows
  <2> HIDE DEF ready
  <2>3. DiffRows(ready["left"], ready["right"]) \in SUBSET DiffType
    BY <2>1, DiffRowsType DEF Side
  <2>4. found' \subseteq DiffType /\ buf' \in [Side -> SUBSET Row]
    BY <2>2, <2>3 DEF TypeOK
  <2>5. TypeOK'
    BY <1>20, <2>4 DEF TypeOK, MergeRows, env, result, recheck, disk
  <2> QED
    BY <1>20, <2>5 DEF FiniteOK, DomainOK, CountedOK, Known, MergeRows
<1>21. CASE FinishMerge
  <2> DEFINE n == Cardinality(found)
             e == Entry(cur, Count("left"), Count("right"), n)
             sh == Shard(cur, Count("left"), Count("right"), n, "Diff")
  <2>1. Known
    BY <1>21 DEF FinishMerge, Merged, CountedOK
  <2>2. n \in Nat
    BY DiffTypeFinite DEF TypeOK
  <2>3. Count("left") \in Nat /\ Count("right") \in Nat
    BY <2>1, CountType DEF Side
  <2>4. e \in EntryType /\ sh \in ShardType
    BY <2>2, <2>3, EntryTypes DEF TypeOK
  <2>5. RecordCheckpoint(e) /\ shards' = shards \cup {sh}
    BY <1>21 DEF FinishMerge
  <2> HIDE DEF e, sh
  <2>6. /\ file' \in [header : {"none", "ok", "bad"}, recs : SUBSET EntryType, torn : BOOLEAN]
        /\ completed' \subseteq EntryType
    BY <2>4, <2>5, RecordType
  <2>7. TypeOK'
    BY <1>21, <2>4, <2>5, <2>6, NoItemType
    DEF TypeOK, FinishMerge, Both, Querying, env, recheck
  <2> QED
    BY <1>21, <2>7 DEF FiniteOK, DomainOK, CountedOK, FinishMerge, Both
<1>22. CASE SegmentsDone
  <2>1. TypeOK'
    BY <1>22 DEF TypeOK, SegmentsDone, Querying, env, work, cursors, result, recheck, disk
  <2> QED
    BY <1>22, <2>1 DEF FiniteOK, DomainOK, CountedOK, SegmentsDone, work
<1>23. CASE Commit
  <2>1. {d.key : d \in diffs} \subseteq Keys
    BY DEF TypeOK, DiffType
  <2>2. rest' \subseteq Keys
    BY <1>23, <2>1 DEF Commit
  <2>3. TypeOK'
    BY <1>23, <2>2 DEF TypeOK, Commit, Both, Querying, work, cursors, disk
  <2> QED
    BY <1>23, <2>3 DEF FiniteOK, DomainOK, CountedOK, Commit, work
<1>24. CASE RecheckLeft
  <2>1. PICK ks \in SUBSET rest :
          batch' = ks /\ now' = [now EXCEPT !["left"] = @ \cup RowsOf(tab["left"], ks)]
    BY <1>24 DEF RecheckLeft
  <2>2. RowsOf(tab["left"], ks) \in SUBSET Row
    BY <2>1, RowsOfType DEF TypeOK, Side
  <2>3. now' \in [Side -> SUBSET Row]
    BY <2>1, <2>2 DEF TypeOK, Side
  <2>4. TypeOK'
    BY <1>24, <2>1, <2>3 DEF TypeOK, RecheckLeft, Querying, env, work, cursors, disk
  <2> QED
    BY <1>24, <2>4 DEF FiniteOK, DomainOK, CountedOK, RecheckLeft, work
<1>25. CASE RecheckRight
  <2>1. RowsOf(tab["right"], batch) \in SUBSET Row
    BY RowsOfType DEF TypeOK, Side
  <2>2. now' \in [Side -> SUBSET Row]
    BY <1>25, <2>1 DEF TypeOK, RecheckRight, Side
  <2>3. TypeOK'
    BY <1>25, <2>2 DEF TypeOK, RecheckRight, Querying, env, work, cursors, disk
  <2> QED
    BY <1>25, <2>3 DEF FiniteOK, DomainOK, CountedOK, RecheckRight, work
<1>26. CASE Finalize
  <2>1. TypeOK'
    BY <1>26 DEF TypeOK, Finalize, NoFile, Querying, env, work, cursors, result, recheck
  <2> QED
    BY <1>26, <2>1 DEF FiniteOK, DomainOK, CountedOK, Finalize, work
<1>27. CASE Emit
  <2>1. TypeOK'
    BY <1>27 DEF TypeOK, Emit, Idle, env, work, cursors, result, recheck, disk
  <2> QED
    BY <1>27, <2>1 DEF FiniteOK, DomainOK, CountedOK, Emit, work
<1>28. CASE Abort
  <2>1. aborts' \in 0 .. MaxAborts
    BY <1>28, HashDiffAssumption DEF Abort, TypeOK
  <2> QED
    BY <1>28, <2>1, RestartedType DEF Abort, Stopped, TypeOK, Idle
<1>29. CASE TornRecord
  <2>1. aborts' \in 0 .. MaxAborts
    BY <1>29, HashDiffAssumption DEF TornRecord, TypeOK
  <2> QED
    BY <1>29, <2>1, RestartedType DEF TornRecord, Stopped, TypeOK, Idle
<1> QED
  BY <1>0, <1>1, <1>2, <1>3, <1>4, <1>5, <1>6, <1>7, <1>8, <1>9, <1>10, <1>11,
     <1>12, <1>13, <1>14, <1>15, <1>16, <1>17, <1>18, <1>19, <1>20, <1>21,
     <1>22, <1>23, <1>24, <1>25, <1>26, <1>27, <1>28, <1>29
  DEF Next, Compare

(* Every variable keeps its type, whatever the tables hold, however the    *)
(* steps of the comparison and the writes of the applications interleave,  *)
(* and wherever a run is cut off and resumed (hash_diff.rs:108-508).       *)
THEOREM TypeCorrect == Spec => []TypeOK
<1>1. TypeInv => TypeOK
  BY DEF TypeInv
<1> QED
  BY <1>1, InitType, StepType, PTL DEF Spec

-----------------------------------------------------------------------------
(* What a run reads and reports.                                          *)

(* Rows R, read at some time, are those table t holds under the keys ks,   *)
(* the keys in hidden set aside.                                           *)
Tells(R, t, ks, hidden) ==
  \A r \in Row : r[1] \notin hidden => (r \in R <=> r[1] \in ks /\ t[r[1]] = r[2])

Same(k) == tab["left"][k] = tab["right"][k]

(* Applications only make keys unstable; what stays stable stays as it is. *)
EnvGrows ==
  /\ touched \subseteq touched'
  /\ \A s \in Side : \A k \in Keys \ touched' : tab'[s][k] = tab[s][k]

-----------------------------------------------------------------------------
(* Sets of rows. *)

LEMMA RowsOfTell ==
  ASSUME NEW t \in Table, NEW u, NEW ks \in SUBSET Keys, NEW hidden,
         \A k \in ks \ hidden : u[k] = t[k]
  PROVE  Tells(RowsOf(t, ks), u, ks, hidden)
<1> SUFFICES ASSUME NEW r \in Row, r[1] \notin hidden
             PROVE  r \in RowsOf(t, ks) <=> r[1] \in ks /\ u[r[1]] = r[2]
  BY DEF Tells
<1>1. r = <<r[1], r[2]>> /\ r[1] \in Keys /\ r[2] \in Values /\ r[2] # Absent
  BY HashDiffAssumption DEF Row
<1>2. r \in RowsOf(t, ks) <=> r[1] \in ks /\ t[r[1]] = r[2]
  BY <1>1 DEF RowsOf
<1> QED BY <1>2

LEMMA TellsAgree ==
  ASSUME NEW R, NEW t \in Table, NEW u \in Table, NEW ks \in SUBSET Keys, NEW hidden,
         Tells(R, t, ks, hidden), Tells(R, u, ks, hidden)
  PROVE  \A k \in ks \ hidden : t[k] = u[k]
<1> SUFFICES ASSUME NEW k \in ks \ hidden PROVE t[k] = u[k]
  OBVIOUS
<1>1. \A v \in Values : <<k, v>> \in Row /\ <<k, v>>[1] = k /\ <<k, v>>[2] = v
  BY DEF Row
<1>2. \A v \in Values : t[k] = v <=> u[k] = v
  BY <1>1 DEF Tells
<1>3. t[k] \in Values \cup {Absent} /\ u[k] \in Values \cup {Absent}
  BY DEF Table, RowImage
<1> QED BY <1>2, <1>3

LEMMA TellsOn ==
  ASSUME EnvGrows, NEW s \in Side, NEW ks \in SUBSET Keys, NEW R, Tells(R, tab[s], ks, touched)
  PROVE  Tells(R, tab'[s], ks, touched')
BY DEF EnvGrows, Tells, Row

-----------------------------------------------------------------------------
LEMMA WriteGrows ==
  ASSUME TypeOK, NEW s \in Side, NEW k \in Keys, NEW r \in RowImage, Write(s, k, r)
  PROVE  EnvGrows
<1>1. tab' = [tab EXCEPT ![s][k] = r] /\ touched' = touched \cup {k}
  BY DEF Write
<1>2. tab \in [Side -> Table]
  BY DEF TypeOK
<1> QED BY <1>1, <1>2 DEF EnvGrows, Table

LEMMA EnvStep ==
  ASSUME TypeOK, [Next]_vars
  PROVE  Restarted \/ EnvGrows
<1>1. ASSUME NEW s \in Side, NEW k \in Keys, NEW r \in RowImage, Write(s, k, r) PROVE EnvGrows
  BY <1>1, WriteGrows
<1>2. ASSUME UNCHANGED <<tab, touched>> PROVE EnvGrows
  BY <1>2 DEF EnvGrows
<1>3. CASE Compare
  BY <1>2, <1>3
     DEF Compare, OpenSnapshot, KeyRange, FullChecksum, SegmentChecksum, Checksum, FullMatch,
         SegmentMatch, Match, FullMismatch, AggregateChunk, AllAggregated, SkipSegment, TakeSegment,
         StartMerge, Split, DepthExceeded, Stopped, FetchPage, MergeRows, FinishMerge, SegmentsDone,
         Commit, RecheckLeft, RecheckRight, Finalize, Emit, env
<1>4. CASE UNCHANGED vars
  BY <1>2, <1>4 DEF vars, env
<1> QED BY <1>1, <1>3, <1>4 DEF Next, Start, StartRefused, StartTornHeader, Abort, TornRecord,
           Stopped

-----------------------------------------------------------------------------
(* A session snapshot shows every stable row as it is. *)
SnapTrue == \A s \in Side : \A t \in snap[s] : \A k \in Keys \ touched : t[k] = tab[s][k]

LEMMA ViewShows ==
  ASSUME TypeOK, SnapTrue, NEW s \in Side
  PROVE  View(s) \in Table /\ \A k \in Keys \ touched : tab[s][k] = View(s)[k]
<1>1. View(s) = tab[s] \/ View(s) \in snap[s]
  BY DEF View
<1>2. tab[s] \in Table /\ snap[s] \subseteq Table
  BY DEF TypeOK
<1> QED BY <1>1, <1>2 DEF SnapTrue

LEMMA ViewTells ==
  ASSUME TypeOK, SnapTrue, NEW s \in Side, NEW ks \in SUBSET Keys
  PROVE  Tells(RowsOf(View(s), ks), tab[s], ks, touched)
BY ViewShows, RowsOfTell

LEMMA SnapStep ==
  ASSUME TypeOK, SnapTrue, [Next]_vars
  PROVE  SnapTrue'
<1>1. CASE Restarted
  BY <1>1 DEF SnapTrue, Restarted, Both
<1>2. ASSUME NEW s \in Side, OpenSnapshot(s) PROVE SnapTrue'
  <2>1. snap' = [snap EXCEPT ![s] = {tab[s]}] /\ UNCHANGED <<tab, touched>>
    BY <1>2 DEF OpenSnapshot, env
  <2> QED BY <2>1 DEF SnapTrue, TypeOK
<1>3. CASE Commit
  BY <1>3 DEF Commit, SnapTrue, Both
<1>4. ASSUME UNCHANGED snap, EnvGrows PROVE SnapTrue'
  <2> SUFFICES ASSUME NEW s \in Side, NEW t \in snap[s], NEW k \in Keys \ touched'
               PROVE  t[k] = tab'[s][k]
    BY <1>4 DEF SnapTrue
  <2> QED BY <1>4 DEF SnapTrue, EnvGrows
<1>5. Restarted \/ Commit \/ (\E s \in Side : OpenSnapshot(s)) \/ UNCHANGED snap
  BY DEF Next, Write, Start, StartRefused, StartTornHeader, Abort, TornRecord, Stopped,
         Compare, KeyRange, FullChecksum, SegmentChecksum, Checksum, FullMatch,
         SegmentMatch, Match, FullMismatch, AggregateChunk, AllAggregated, SkipSegment, TakeSegment,
         StartMerge, Split, DepthExceeded, FetchPage, MergeRows, FinishMerge, SegmentsDone,
         RecheckLeft, RecheckRight, Finalize, Emit, vars
<1> QED BY <1>1, <1>2, <1>3, <1>4, <1>5, EnvStep

-----------------------------------------------------------------------------
(* A checksum tells the stable rows of its segment. *)
AggTrue ==
  \A s \in Side : \A a \in agg[s] : Tells(a.rows, tab[s], InRange(a), touched)

Covered == IF pc = "full" THEN InRange(Domain) ELSE InRange(cur)

SumsTrue ==
  /\ pc \notin {"full", "sum", "merge"} => sums = Both({})
  /\ \A s \in Side : \A R \in sums[s] : Tells(R, tab[s], Covered, touched)

LEMMA AggStep ==
  ASSUME TypeOK, AggTrue, [Next]_vars
  PROVE  AggTrue'
<1>1. CASE Restarted
  BY <1>1 DEF AggTrue, Restarted, Both
<1>2. ASSUME NEW s \in Side, NEW c \in 0 .. Segments, AggregateChunk(s, c) PROVE AggTrue'
  <2> DEFINE row(p) == [lo |-> p[1], hi |-> p[2],
                        rows |-> RowsOf(tab[s], InRange(Item(p, 0)))]
             new == {row(p) : p \in {q \in FirstSegments : ChunkOf(q) = c}}
  <2>1. agg' = [agg EXCEPT ![s] = @ \cup new] /\ UNCHANGED <<tab, touched>>
    BY <1>2 DEF AggregateChunk, env
  <2>2. ASSUME NEW p PROVE Tells(row(p).rows, tab[s], InRange(row(p)), touched)
    <3>1. InRange(row(p)) = InRange(Item(p, 0))
      BY DEF InRange, Item
    <3>2. tab[s] \in Table
      BY DEF TypeOK
    <3> QED BY <3>1, <3>2, InRangeKeys, RowsOfTell
  <2>3. \A a \in new : Tells(a.rows, tab[s], InRange(a), touched)
    BY <2>2
  <2> HIDE DEF new
  <2>4. SUFFICES ASSUME NEW z \in Side, NEW a \in agg'[z]
                 PROVE  Tells(a.rows, tab[z], InRange(a), touched)
    <3>1. InRange(0)' = InRange(0)
      BY DEF InRange
    <3> QED BY <2>1 DEF AggTrue, InRange
  <2>5. a \in agg[z] \/ (z = s /\ a \in new)
    BY <2>1 DEF TypeOK
  <2> QED BY <2>3, <2>5 DEF AggTrue
<1>3. ASSUME UNCHANGED agg, EnvGrows PROVE AggTrue'
  <2> SUFFICES ASSUME NEW s \in Side, NEW a \in agg[s]
               PROVE  Tells(a.rows, tab'[s], InRange(a), touched')
    BY <1>3 DEF AggTrue, InRange
  <2>1. InRange(a) \in SUBSET Keys /\ Tells(a.rows, tab[s], InRange(a), touched)
    BY InRangeKeys DEF AggTrue
  <2> QED BY <1>3, <2>1, TellsOn
<1>4. Restarted \/ (\E s \in Side, c \in 0 .. Segments : AggregateChunk(s, c)) \/ UNCHANGED agg
  BY DEF Next, Write, Start, StartRefused, StartTornHeader, Abort, TornRecord, Stopped,
         Compare, OpenSnapshot, KeyRange, FullChecksum, SegmentChecksum, Checksum, FullMatch,
         SegmentMatch, Match, FullMismatch, AllAggregated, SkipSegment, TakeSegment,
         StartMerge, Split, DepthExceeded, FetchPage, MergeRows, FinishMerge, SegmentsDone,
         Commit, RecheckLeft, RecheckRight, Finalize, Emit, vars, work
<1> QED BY <1>1, <1>2, <1>3, <1>4, EnvStep

LEMMA CoveredKeys == Covered \in SUBSET Keys
BY InRangeKeys DEF Covered

LEMMA ChecksumTells ==
  ASSUME TypeOK, SnapTrue, SumsTrue, NEW s \in Side, NEW seg, Checksum(s, seg),
         Covered = InRange(seg), pc \in {"full", "sum"}
  PROVE  SumsTrue'
<1> DEFINE rows == RowsOf(View(s), InRange(seg))
<1>1. Tells(rows, tab[s], Covered, touched)
  BY InRangeKeys, ViewTells
<1>2. sums' = [sums EXCEPT ![s] = {rows}] /\ UNCHANGED <<tab, touched, pc, ends, cur>>
  BY DEF Checksum, env
<1> HIDE DEF rows
<1>3. Covered' = Covered
  BY <1>2 DEF Covered, InRange, Domain
<1>4. \A z \in Side : \A R \in sums'[z] : R \in sums[z] \/ (z = s /\ R = rows)
  BY <1>2 DEF TypeOK
<1>5. \A z \in Side : \A R \in sums'[z] : Tells(R, tab'[z], Covered', touched')
  <2> SUFFICES ASSUME NEW z \in Side, NEW R \in sums'[z]
               PROVE  Tells(R, tab'[z], Covered', touched')
    OBVIOUS
  <2>1. Tells(R, tab[z], Covered, touched)
    BY <1>1, <1>4 DEF SumsTrue
  <2> QED BY <1>2, <1>3, <2>1
<1> QED BY <1>2, <1>5 DEF SumsTrue

LEMMA SumsStep ==
  ASSUME TypeOK, SnapTrue, AggTrue, SumsTrue, [Next]_vars
  PROVE  SumsTrue'
<1>1. ASSUME sums' = Both({}) PROVE SumsTrue'
  BY <1>1 DEF SumsTrue, Both
<1>2. CASE Restarted
  BY <1>1, <1>2 DEF Restarted
<1>3. ASSUME NEW s \in Side, FullChecksum(s) PROVE SumsTrue'
  BY <1>3, ChecksumTells DEF FullChecksum, Covered
<1>4. ASSUME NEW s \in Side, SegmentChecksum(s) PROVE SumsTrue'
  BY <1>4, ChecksumTells DEF SegmentChecksum, Covered
<1>5. ASSUME NEW seg \in todo, TakeSegment(seg) PROVE SumsTrue'
  <2> DEFINE of(s) == {a.rows : a \in {x \in agg[s] : x.lo = seg.lo /\ x.hi = seg.hi}}
  <2>1. CASE ~FromFirstPass(seg)
    BY <1>1, <1>5, <2>1 DEF TakeSegment
  <2>2. CASE FromFirstPass(seg)
    <3>1. /\ sums' = [s \in Side |-> of(s)] /\ pc' = "sum" /\ cur' = seg
          /\ UNCHANGED <<tab, touched>>
      BY <1>5, <2>2 DEF TakeSegment, env
    <3>2. Covered' = InRange(seg)
      BY <3>1 DEF Covered, InRange
    <3>3. ASSUME NEW s \in Side, NEW R \in of(s) PROVE Tells(R, tab[s], InRange(seg), touched)
      <4>1. PICK a \in agg[s] : a.lo = seg.lo /\ a.hi = seg.hi /\ R = a.rows
        OBVIOUS
      <4>2. InRange(a) = InRange(seg)
        BY <4>1 DEF InRange
      <4> QED BY <4>1, <4>2 DEF AggTrue
    <3> HIDE DEF of
    <3>4. \A s \in Side : \A R \in sums'[s] : Tells(R, tab'[s], Covered', touched')
      BY <3>1, <3>2, <3>3
    <3> QED BY <3>1, <3>4 DEF SumsTrue
  <2> QED BY <2>1, <2>2
<1>6. ASSUME NEW s \in Side, KeyRange(s) PROVE SumsTrue'
  BY <1>1, <1>6 DEF KeyRange, SumsTrue, work
<1>7. CASE FullMatch \/ SegmentMatch \/ FullMismatch \/ Split \/ FinishMerge
  BY <1>1, <1>7 DEF FullMatch, SegmentMatch, Match, FullMismatch, Split, FinishMerge
<1>8. ASSUME UNCHANGED <<sums, ends, cur>>, EnvGrows,
             \/ pc' = pc
             \/ pc = "sum" /\ pc' = "merge"
             \/ pc \notin {"full", "sum", "merge"} /\ pc' \notin {"full", "sum", "merge"}
      PROVE  SumsTrue'
  <2>1. CASE pc \notin {"full", "sum", "merge"} /\ pc' \notin {"full", "sum", "merge"}
    BY <1>1, <1>8, <2>1 DEF SumsTrue
  <2>2. CASE pc' = pc \/ (pc = "sum" /\ pc' = "merge")
    <3>1. Covered' = Covered
      BY <1>8, <2>2 DEF Covered, InRange, Domain
    <3>2. ASSUME NEW s \in Side, NEW R \in sums[s] PROVE Tells(R, tab'[s], Covered, touched')
      BY <1>8, CoveredKeys, TellsOn DEF SumsTrue
    <3> QED BY <1>8, <2>2, <3>1, <3>2 DEF SumsTrue
  <2> QED BY <1>8, <2>1, <2>2
<1>9. CASE StartMerge
  BY <1>8, <1>9, EnvStep DEF StartMerge, Mismatch, env, EnvGrows
<1>10. CASE SegmentsDone \/ Commit \/ RecheckLeft \/ RecheckRight \/ Finalize \/ Emit
         \/ AllAggregated \/ \E s \in Side : OpenSnapshot(s)
  <2>1. EnvGrows
    BY <1>10 DEF SegmentsDone, Commit, RecheckLeft, RecheckRight, Finalize, Emit, AllAggregated,
      OpenSnapshot, env, EnvGrows
  <2> QED
    BY <1>8, <1>10, <2>1 DEF SegmentsDone, Commit, RecheckLeft, RecheckRight, Finalize, Emit,
      AllAggregated, OpenSnapshot, work
<1>11. CASE UNCHANGED <<pc, sums, ends, cur>> /\ ~Restarted
  BY <1>8, <1>11, EnvStep
<1>12. (\E s \in Side, k \in Keys, r \in RowImage : Write(s, k, r))
       \/ (\E s \in Side, c \in 0 .. Segments : AggregateChunk(s, c))
       \/ (\E seg \in todo : SkipSegment(seg)) \/ (\E s \in Side : FetchPage(s)) \/ MergeRows
       \/ UNCHANGED vars
         => UNCHANGED <<pc, sums, ends, cur>>
  BY DEF Write, AggregateChunk, SkipSegment, FetchPage, MergeRows, vars, work
<1>13. Start \/ StartRefused \/ StartTornHeader \/ Abort \/ TornRecord \/ DepthExceeded => Restarted
  BY DEF Start, StartRefused, StartTornHeader, Abort, TornRecord, DepthExceeded, Stopped
<1> QED
  BY <1>2, <1>3, <1>4, <1>5, <1>6, <1>7, <1>9, <1>10, <1>11, <1>12, <1>13 DEF Next, Compare

-----------------------------------------------------------------------------
(* Rows that tell two tables apart. *)
LEMMA DiffRowsSound ==
  ASSUME NEW t \in Table, NEW u \in Table, NEW l \in SUBSET Row, NEW r \in SUBSET Row,
         NEW ks \in SUBSET Keys, NEW hidden,
         Tells(l, t, ks, hidden), Tells(r, u, ks, hidden),
         NEW d \in DiffRows(l, r), d.key \notin hidden
  PROVE  d.key \in ks /\ t[d.key] # u[d.key]
<1> DEFINE k == d.key
<1>1. \A x \in l \cup r : x \in Row /\ x = <<x[1], x[2]>> /\ x[2] \in Values /\ x[2] # Absent
  BY HashDiffAssumption DEF Row
<1>2. \A x \in l : x[1] = k => k \in ks /\ t[k] = x[2]
  BY <1>1 DEF Tells
<1>3. \A x \in r : x[1] = k => k \in ks /\ u[k] = x[2]
  BY <1>1 DEF Tells
<1>4. CASE k \in KeysOf(l) \ KeysOf(r)
  <2>1. PICK x \in l : x[1] = k
    BY <1>4 DEF KeysOf
  <2>2. <<k, x[2]>> \in Row /\ <<k, x[2]>> \notin r
    BY <1>1, <1>4, <2>1 DEF KeysOf
  <2>3. u[k] # x[2]
    BY <1>2, <2>1, <2>2 DEF Tells
  <2> QED BY <1>2, <2>1, <2>3
<1>5. CASE k \in KeysOf(r) \ KeysOf(l)
  <2>1. PICK x \in r : x[1] = k
    BY <1>5 DEF KeysOf
  <2>2. <<k, x[2]>> \in Row /\ <<k, x[2]>> \notin l
    BY <1>1, <1>5, <2>1 DEF KeysOf
  <2>3. t[k] # x[2]
    BY <1>3, <2>1, <2>2 DEF Tells
  <2> QED BY <1>3, <2>1, <2>3
<1>6. CASE k \in KeysOf(l \ r) \cap KeysOf(r)
  <2>1. PICK x \in l \ r, y \in r : x[1] = k /\ y[1] = k
    BY <1>6 DEF KeysOf
  <2>2. x[2] # y[2]
    BY <1>1, <2>1
  <2> QED BY <1>2, <1>3, <2>1, <2>2
<1> QED
  BY <1>4, <1>5, <1>6 DEF DiffRows

LEMMA DiffRowsComplete ==
  ASSUME NEW t \in Table, NEW u \in Table, NEW l \in SUBSET Row, NEW r \in SUBSET Row,
         NEW ks \in SUBSET Keys, NEW hidden,
         Tells(l, t, ks, hidden), Tells(r, u, ks, hidden),
         NEW k \in ks \ hidden, t[k] # u[k]
  PROVE  \E d \in DiffRows(l, r) : d.key = k
<1>1. \A v \in Values : <<k, v>> \in Row /\ <<k, v>>[1] = k /\ <<k, v>>[2] = v
  BY DEF Row
<1>2. \A v \in Values : (<<k, v>> \in l <=> t[k] = v) /\ (<<k, v>> \in r <=> u[k] = v)
  BY <1>1 DEF Tells
<1>3. t[k] \in Values \cup {Absent} /\ u[k] \in Values \cup {Absent} /\ Absent \notin Values
  BY HashDiffAssumption DEF Table, RowImage
<1>4. \A x \in l \cup r : x[1] = k => x = <<k, x[2]>> /\ x[2] \in Values
  BY DEF Row
<1>5. k \in KeysOf(l) <=> t[k] \in Values
  <2>1. ASSUME NEW x \in l, x[1] = k PROVE t[k] \in Values
    BY <1>2, <1>4, <2>1
  <2>2. ASSUME t[k] \in Values PROVE \E x \in l : x[1] = k
    BY <1>1, <1>2, <2>2
  <2> QED BY <2>1, <2>2 DEF KeysOf
<1>6. k \in KeysOf(r) <=> u[k] \in Values
  <2>1. ASSUME NEW x \in r, x[1] = k PROVE u[k] \in Values
    BY <1>2, <1>4, <2>1
  <2>2. ASSUME u[k] \in Values PROVE \E x \in r : x[1] = k
    BY <1>1, <1>2, <2>2
  <2> QED BY <2>1, <2>2 DEF KeysOf
<1>7. t[k] \in Values /\ u[k] \in Values => k \in KeysOf(l \ r)
  BY <1>1, <1>2 DEF KeysOf
<1>8. \/ k \in KeysOf(l) \ KeysOf(r) \/ k \in KeysOf(r) \ KeysOf(l)
      \/ k \in KeysOf(l \ r) \cap KeysOf(r)
  BY <1>3, <1>5, <1>6, <1>7
<1>9. /\ k \in KeysOf(l) \ KeysOf(r) => [key |-> k, status |-> "missing_right"] \in DiffRows(l, r)
      /\ k \in KeysOf(r) \ KeysOf(l) => [key |-> k, status |-> "missing_left"] \in DiffRows(l, r)
      /\ k \in KeysOf(l \ r) \cap KeysOf(r) => [key |-> k, status |-> "modified"] \in DiffRows(l, r)
  BY DEF DiffRows
<1> QED BY <1>8, <1>9

LEMMA TellsUpTo ==
  ASSUME NEW R \in SUBSET Row, NEW t, NEW ks \in SUBSET Keys, NEW hidden, NEW lim,
         Tells(R, t, ks, hidden)
  PROVE  Tells({r \in R : r[1] <= lim}, t, {k \in ks : k <= lim}, hidden)
BY DEF Tells

-----------------------------------------------------------------------------
(* A merge has judged the keys up to its frontier F; of those beyond it,   *)
(* each buffer has the rows its cursor has passed.                         *)
Ahead(s, F) == {k \in InRange(cur) : k > F /\ (k <= pos[s] \/ exhausted[s])}

Frontier(F) ==
  /\ \A s \in Side : F <= pos[s] \/ exhausted[s]
  /\ \A s \in Side : \A r \in buf[s] : r[1] <= pos[s]
  /\ \A s \in Side : Tells(buf[s], tab[s], Ahead(s, F), touched)
  /\ \A k \in InRange(cur) \ touched : k <= F /\ ~Same(k) => \E d \in found : d.key = k

MergeTrue == pc = "merge" => \E F \in Int : Frontier(F)

(* What is listed as a difference is one, or the row was written.          *)
DiffsTrue == \A d \in diffs \cup found : d.key \in touched \/ ~Same(d.key)

LEMMA KeysInt == Keys \subseteq Int
BY HashDiffAssumption DEF Int64

LEMMA StartFrontier ==
  ASSUME TypeOK, StartMerge
  PROVE  MergeTrue'
<1>1. PICK F \in Int : F = cur.lo - 1
  BY DEF TypeOK, Segment, Int64
<1>2. /\ buf' = Both({}) /\ pos' = Both(F) /\ exhausted' = Both(FALSE)
      /\ UNCHANGED <<tab, touched, cur>>
  BY <1>1 DEF StartMerge, env
<1>3. cur.lo \in Int /\ \A k \in InRange(cur) : k \in Int /\ cur.lo <= k
  BY KeysInt DEF TypeOK, Segment, Int64, InRange
<1>4. InRange(cur)' = InRange(cur)
  BY <1>2 DEF InRange
<1>5. \A k \in InRange(cur) : ~(k <= F)
  BY <1>1, <1>3
<1>6. \A s \in Side : F <= pos'[s] /\ buf'[s] = {} /\ (pos'[s] = F /\ exhausted'[s] = FALSE)
  BY <1>1, <1>2 DEF Both
<1>7. \A s \in Side : Ahead(s, F)' = {}
  BY <1>4, <1>5, <1>6 DEF Ahead
<1>8. \A s \in Side : Tells({}, tab'[s], {}, touched')
  BY DEF Tells
<1>9. Frontier(F)'
  BY <1>4, <1>5, <1>6, <1>7, <1>8 DEF Frontier
<1> QED BY <1>1, <1>9 DEF MergeTrue

LEMMA FrontierKept ==
  ASSUME EnvGrows, UNCHANGED <<cur, buf, pos, exhausted, found>>, NEW F \in Int, Frontier(F)
  PROVE  Frontier(F)'
<1>1. InRange(cur)' = InRange(cur) /\ InRange(cur) \in SUBSET Keys
  BY InRangeKeys DEF InRange
<1>2. \A s \in Side : Ahead(s, F)' = Ahead(s, F) /\ Ahead(s, F) \in SUBSET Keys
  BY <1>1 DEF Ahead
<1>3. \A s \in Side : Tells(buf[s], tab'[s], Ahead(s, F), touched')
  BY <1>2, TellsOn DEF Frontier
<1>4. ASSUME NEW k \in InRange(cur) \ touched', k <= F, ~Same(k)'
      PROVE  \E d \in found : d.key = k
  <2>1. k \in Keys \ touched' /\ k \notin touched
    BY <1>1 DEF EnvGrows
  <2>2. tab'["left"][k] = tab["left"][k] /\ tab'["right"][k] = tab["right"][k]
    BY <2>1 DEF EnvGrows, Side
  <2>3. ~Same(k)
    BY <1>4, <2>2 DEF Same
  <2> QED BY <1>4, <2>1, <2>3 DEF Frontier
<1>5. (\A s \in Side : F <= pos[s] \/ exhausted[s])' /\ (\A s \in Side : \A r \in buf[s] : r[1] <= pos[s])'
  BY DEF Frontier
<1>6. (\A s \in Side : Tells(buf[s], tab[s], Ahead(s, F), touched))'
  BY <1>2, <1>3
<1>7. (\A k \in InRange(cur) \ touched : k <= F /\ ~Same(k) => \E d \in found : d.key = k)'
  BY <1>1, <1>4
<1> QED BY <1>5, <1>6, <1>7 DEF Frontier

(* The first page of what is ahead leaves nothing behind.                  *)
LEMMA PageWhole ==
  ASSUME NEW all \in SUBSET Keys, NEW page, IsFirst(page, all, PageSize), NEW last \in Int,
         NEW k \in all, last < k, LastPage(page) \/ k <= Advanced(last, page)
  PROVE  k \in page
<1>1. SUFFICES ASSUME k \notin page PROVE FALSE
  OBVIOUS
<1>2. IsFiniteSet(all) /\ page \subseteq all /\ k \in Int /\ page \in SUBSET Keys
  BY KeysType, KeysInt DEF IsFirst
<1>3. \A i \in page : i \in Int /\ i < k
  BY <1>1, <1>2, KeysInt DEF IsFirst
<1>4. LastPage(page)
  <2>1. page # {} => Max(page) \in page
    BY <1>2, KeysType, MaxInt64
  <2>2. Advanced(last, page) \in Int /\ Advanced(last, page) < k
    BY <1>3, <2>1 DEF Advanced
  <2> QED BY <1>2, <2>2
<1>5. Cardinality(page) \in Nat /\ Cardinality(all) \in Nat /\ PageSize \in Nat
  BY <1>2, FS_Subset, FS_CardinalityType, HashDiffAssumption
<1>6. Cardinality(page) = Cardinality(all)
  <2>1. Cardinality(page) = IF PageSize <= Cardinality(all) THEN PageSize ELSE Cardinality(all)
    BY <1>5, MinOfTwo DEF IsFirst
  <2> QED BY <1>4, <1>5, <2>1 DEF LastPage
<1>7. page = all
  BY <1>2, <1>6, FS_Subset
<1> QED BY <1>1, <1>7

LEMMA FetchFrontier ==
  ASSUME TypeOK, SnapTrue, NEW s \in Side, FetchPage(s), NEW F \in Int, Frontier(F)
  PROVE  Frontier(F)'
<1> DEFINE ahead == {k \in InRange(cur) : k > pos[s] /\ View(s)[k] # Absent}
           new(page) == RowsOf(View(s), page)
<1>1. PICK page \in SUBSET ahead :
        /\ IsFirst(page, ahead, PageSize)
        /\ buf' = [buf EXCEPT ![s] = new(page)]
        /\ pos' = [pos EXCEPT ![s] = Advanced(@, page)]
        /\ exhausted' = [exhausted EXCEPT ![s] = LastPage(page)]
  BY DEF FetchPage
<1>2. /\ Starved(s) /\ UNCHANGED <<tab, touched, cur, found>>
  BY DEF FetchPage, env
<1>3. buf[s] = {} /\ ~exhausted[s] /\ pos[s] \in Int /\ F <= pos[s]
  BY <1>2 DEF Starved, TypeOK, Frontier
<1>4. ahead \in SUBSET Keys /\ page \in SUBSET Keys /\ InRange(cur)' = InRange(cur)
      /\ InRange(cur) \in SUBSET Keys
  BY <1>2, InRangeKeys DEF InRange
<1>5. /\ View(s) \in Table /\ \A k \in Keys \ touched : tab[s][k] = View(s)[k]
  BY ViewShows
<1>6. /\ buf'[s] = new(page) /\ pos'[s] = Advanced(pos[s], page) /\ exhausted'[s] = LastPage(page)
      /\ \A z \in Side \ {s} : buf'[z] = buf[z] /\ pos'[z] = pos[z] /\ exhausted'[z] = exhausted[z]
  BY <1>1 DEF TypeOK
<1>7. /\ pos'[s] \in Int /\ pos[s] <= pos'[s] /\ \A k \in page : k \in Int /\ k <= pos'[s]
  <2>1. page # {} => Max(page) \in page /\ \A k \in page : k <= Max(page)
    BY <1>4, KeysType, MaxInt64
  <2>2. \A k \in page : k \in Int /\ pos[s] < k
    BY <1>4, KeysInt, <1>3
  <2> QED BY <1>3, <1>6, <2>1, <2>2 DEF Advanced
<1>8. \A r \in new(page) : r[1] \in page
  BY DEF RowsOf
<1>9. (\A z \in Side : F <= pos[z] \/ exhausted[z])'
  BY <1>3, <1>6, <1>7 DEF Frontier
<1>10. (\A z \in Side : \A r \in buf[z] : r[1] <= pos[z])'
  BY <1>6, <1>7, <1>8 DEF Frontier
<1>11. Tells(new(page), tab[s], Ahead(s, F)', touched)
  <2>1. SUFFICES ASSUME NEW r \in Row, r[1] \notin touched
                 PROVE  r \in new(page) <=> r[1] \in Ahead(s, F)' /\ tab[s][r[1]] = r[2]
    BY DEF Tells
  <2> DEFINE k == r[1]
  <2>2a. k \in Keys /\ r[2] \in Values /\ r[2] # Absent /\ r = <<k, r[2]>>
    BY HashDiffAssumption DEF Row
  <2>2. k \in Keys /\ k \in Int /\ r[2] \in Values /\ r[2] # Absent /\ r = <<k, r[2]>>
    BY <2>2a, KeysInt
  <2>3. k \in Ahead(s, F)' <=> k \in InRange(cur) /\ k > F /\ (k <= pos'[s] \/ LastPage(page))
    BY <1>4, <1>6 DEF Ahead
  <2>4. r \in new(page) <=> k \in page /\ tab[s][k] = r[2]
    BY <1>5, <2>1, <2>2 DEF RowsOf
  <2>5. k \in page => k \in Ahead(s, F)'
    BY <1>3, <1>7, <2>2, <2>3
  <2>6. ASSUME k \in Ahead(s, F)', tab[s][k] = r[2] PROVE k \in page
    <3>1. CASE k <= pos[s]
      <4>1. k \in Ahead(s, F)
        BY <2>3, <2>6, <3>1 DEF Ahead
      <4>2. r \in buf[s]
        BY <2>1, <2>6, <4>1 DEF Tells, Frontier
      <4> QED BY <1>3, <4>2
    <3>2. CASE ~(k <= pos[s])
      <4>1. pos[s] < k /\ k > pos[s]
        BY <1>3, <2>2, <3>2
      <4>2. k \in ahead
        BY <1>5, <2>1, <2>2, <2>3, <2>6, <4>1
      <4>3. LastPage(page) \/ k <= Advanced(pos[s], page)
        BY <1>6, <2>3, <2>6
      <4> HIDE DEF ahead
      <4> QED BY <1>1, <1>3, <1>4, <4>1, <4>2, <4>3, PageWhole
    <3> QED BY <3>1, <3>2
  <2> QED BY <2>4, <2>5, <2>6
<1>12. \A z \in Side \ {s} : Ahead(z, F)' = Ahead(z, F)
  BY <1>4, <1>6 DEF Ahead
<1>13. (\A z \in Side : Tells(buf[z], tab[z], Ahead(z, F), touched))'
  <2> SUFFICES ASSUME NEW z \in Side PROVE Tells(buf'[z], tab[z], Ahead(z, F)', touched)
    BY <1>2
  <2> QED BY <1>6, <1>11, <1>12 DEF Frontier
<1>14. (\A k \in InRange(cur) \ touched : k <= F /\ ~Same(k) => \E d \in found : d.key = k)'
  BY <1>2, <1>4 DEF Frontier, Same
<1> QED BY <1>9, <1>10, <1>13, <1>14 DEF Frontier

(* The merge stops where the shorter of two buffers ends, or at the end of *)
(* the only one, when the other side is exhausted.                         *)
LEMMA LimitReached ==
  ASSUME TypeOK, MergeRows, NEW F \in Int, Frontier(F)
  PROVE  /\ MergeLimit \in Int
         /\ \A s \in Side : MergeLimit <= pos[s] \/ exhausted[s]
<1>1. \A s \in Side : KeysOf(buf[s]) \in SUBSET Int64 /\ \A k \in KeysOf(buf[s]) : k <= pos[s] /\ k \in Int
  <2> SUFFICES ASSUME NEW s \in Side, NEW k \in KeysOf(buf[s])
               PROVE  k \in Keys /\ k <= pos[s] /\ k \in Int /\ k \in Int64
    OBVIOUS
  <2>1. k \in Keys /\ k <= pos[s]
    BY KeysOfType DEF TypeOK, Frontier, KeysOf
  <2> QED BY <2>1, KeysInt, HashDiffAssumption
<1>2. \A s \in Side : buf[s] # {} => KeysOf(buf[s]) # {}
  BY DEF KeysOf
<1>3. \A s \in Side : buf[s] # {} => Max(KeysOf(buf[s])) \in Int /\ Max(KeysOf(buf[s])) <= pos[s]
  BY <1>1, <1>2, MaxInt64
<1>4. \A s \in Side : buf[s] = {} => exhausted[s]
  BY DEF MergeRows, Starved, Side
<1>5. buf["left"] # {} \/ buf["right"] # {}
  <2>1. buf = [s \in Side |-> buf[s]]
    BY DEF TypeOK
  <2>2. buf # [s \in Side |-> {}]
    BY DEF MergeRows, Both
  <2> QED BY <2>1, <2>2 DEF Side
<1>6. pos["left"] \in Int /\ pos["right"] \in Int
  BY DEF TypeOK, Side
<1>7. CASE buf["left"] = {}
  BY <1>3, <1>4, <1>5, <1>7 DEF MergeLimit, Side
<1>8. CASE buf["left"] # {} /\ buf["right"] = {}
  BY <1>3, <1>4, <1>8 DEF MergeLimit, Side
<1>9. CASE buf["left"] # {} /\ buf["right"] # {}
  <2> DEFINE i == Max(KeysOf(buf["left"]))
             j == Max(KeysOf(buf["right"]))
  <2>1. i \in Int /\ j \in Int /\ i <= pos["left"] /\ j <= pos["right"]
    BY <1>3, <1>9 DEF Side
  <2>2. MergeLimit = Min({i, j})
    BY <1>9 DEF MergeLimit
  <2> HIDE DEF i, j
  <2>3. MergeLimit = IF i <= j THEN i ELSE j
    BY <2>1, <2>2, MinOfTwo
  <2>4. MergeLimit \in Int /\ MergeLimit <= pos["left"] /\ MergeLimit <= pos["right"]
    BY <1>6, <2>1, <2>3
  <2> QED BY <2>4 DEF Side
<1> QED BY <1>7, <1>8, <1>9

LEMMA MergeJudges ==
  ASSUME TypeOK, MergeRows, NEW F \in Int, Frontier(F), DiffsTrue
  PROVE  DiffsTrue' /\ MergeTrue'
<1>1. PICK lim \in Int : lim = MergeLimit /\ \A s \in Side : lim <= pos[s] \/ exhausted[s]
  BY LimitReached
<1> DEFINE ready(s) == {r \in buf[s] : r[1] <= lim}
           ks == {k \in InRange(cur) : k > F /\ k <= lim}
           new == DiffRows(ready("left"), ready("right"))
<1>2. /\ found' = found \cup new
      /\ \A s \in Side : buf'[s] = buf[s] \ ready(s)
      /\ UNCHANGED <<tab, touched, cur, pos, exhausted, diffs>>
  BY <1>1 DEF MergeRows, env, result, Side
<1>3. \A s \in Side : buf[s] \in SUBSET Row /\ ready(s) \in SUBSET Row /\ tab[s] \in Table
  BY DEF TypeOK
<1>4. InRange(cur) \in SUBSET Keys /\ ks \in SUBSET Keys /\ \A k \in InRange(cur) : k \in Int
  BY InRangeKeys, KeysInt
<1>5. \A s \in Side : Ahead(s, F) \in SUBSET Keys /\ Tells(buf[s], tab[s], Ahead(s, F), touched)
  BY <1>4 DEF Ahead, Frontier
<1>6. \A s \in Side : pos[s] \in Int
  BY DEF TypeOK
<1>7. ASSUME NEW s \in Side PROVE Tells(ready(s), tab[s], ks, touched)
  <2>1. Tells(ready(s), tab[s], {k \in Ahead(s, F) : k <= lim}, touched)
    BY <1>3, <1>5, TellsUpTo
  <2>2. {k \in Ahead(s, F) : k <= lim} = ks
    BY <1>1, <1>4, <1>6 DEF Ahead
  <2> QED BY <2>1, <2>2
<1>8. ready("left") \in SUBSET Row /\ ready("right") \in SUBSET Row
      /\ Tells(ready("left"), tab["left"], ks, touched)
      /\ Tells(ready("right"), tab["right"], ks, touched)
      /\ tab["left"] \in Table /\ tab["right"] \in Table
  BY <1>3, <1>7 DEF Side
<1>9. DiffsTrue'
  <2> SUFFICES ASSUME NEW d \in diffs \cup found \cup new
               PROVE  d.key \in touched \/ ~Same(d.key)
    BY <1>2 DEF DiffsTrue, Same
  <2>1. CASE d \in new
    <3> HIDE DEF ready, ks
    <3>1. d.key \notin touched => tab["left"][d.key] # tab["right"][d.key]
      BY <1>4, <1>8, <2>1, DiffRowsSound
    <3> QED BY <3>1 DEF Same
  <2> QED BY <2>1 DEF DiffsTrue
<1>10. \A k \in ks \ touched : ~Same(k) => \E d \in new : d.key = k
  <2> SUFFICES ASSUME NEW k \in ks \ touched, ~Same(k) PROVE \E d \in new : d.key = k
    OBVIOUS
  <2> HIDE DEF ready, ks
  <2> QED BY <1>4, <1>8, DiffRowsComplete DEF Same
<1>11. PICK G \in Int : G = IF lim > F THEN lim ELSE F
  BY <1>1
<1>12. InRange(cur)' = InRange(cur)
  BY <1>2 DEF InRange
<1>13. (\A s \in Side : G <= pos[s] \/ exhausted[s])'
  BY <1>1, <1>2, <1>11 DEF Frontier
<1>14. (\A s \in Side : \A r \in buf[s] : r[1] <= pos[s])'
  BY <1>2 DEF Frontier
<1>15. (\A s \in Side : Tells(buf[s], tab[s], Ahead(s, G), touched))'
  <2> SUFFICES ASSUME NEW s \in Side PROVE Tells(buf'[s], tab[s], Ahead(s, G)', touched)
    BY <1>2
  <2>1. Tells(buf[s] \ ready(s), tab[s], {k \in Ahead(s, F) : ~(k <= lim)}, touched)
    BY <1>3, <1>5 DEF Tells
  <2>2. Ahead(s, G)' = {k \in InRange(cur) : k > G /\ (k <= pos[s] \/ exhausted[s])}
    BY <1>2, <1>12 DEF Ahead
  <2>3. \A k \in InRange(cur) : k > G <=> k > F /\ ~(k <= lim)
    BY <1>1, <1>4, <1>11
  <2>4. {k \in Ahead(s, F) : ~(k <= lim)} = Ahead(s, G)'
    BY <2>2, <2>3 DEF Ahead
  <2> QED BY <1>2, <2>1, <2>4
<1>16. (\A k \in InRange(cur) \ touched : k <= G /\ ~Same(k) => \E d \in found : d.key = k)'
  <2> SUFFICES ASSUME NEW k \in InRange(cur) \ touched, k <= G, ~Same(k)
               PROVE  \E d \in found \cup new : d.key = k
    BY <1>2, <1>12 DEF Same
  <2>1. k <= F \/ k \in ks
    BY <1>1, <1>4, <1>11
  <2> HIDE DEF new, ks
  <2> QED BY <1>10, <2>1 DEF Frontier
<1>17. Frontier(G)'
  BY <1>13, <1>14, <1>15, <1>16 DEF Frontier
<1> QED BY <1>9, <1>11, <1>17 DEF MergeTrue

(* A merge that has drained both sides has found every stable difference.  *)
LEMMA MergeComplete ==
  ASSUME TypeOK, MergeTrue, Merged,
         NEW k \in InRange(cur) \ touched, ~Same(k)
  PROVE  \E d \in found : d.key = k
<1>1. PICK F \in Int : Frontier(F)
  BY DEF MergeTrue, Merged
<1>2. CASE k <= F
  BY <1>1, <1>2 DEF Frontier
<1>3. CASE ~(k <= F)
  <2>a. InRange(cur) \in SUBSET Keys
    BY InRangeKeys
  <2>b. k \in Int
    BY <2>a, KeysInt
  <2>1. k \in Keys /\ k > F
    BY <1>3, <2>a, <2>b
  <2>2. \A s \in Side : k \in Ahead(s, F) /\ buf[s] = {}
    BY <2>1 DEF Merged, Both, Ahead
  <2>3. \A s \in Side : Tells({}, tab[s], Ahead(s, F), touched)
    BY <1>1, <2>2 DEF Frontier
  <2>4. Ahead("left", F) = Ahead("right", F) /\ Ahead("left", F) \in SUBSET Keys
    BY InRangeKeys, <2>2 DEF Ahead, Merged, Both, Side
  <2>5. tab["left"] \in Table /\ tab["right"] \in Table
    BY DEF TypeOK, Side
  <2>6. tab["left"][k] = tab["right"][k]
    BY <2>2, <2>3, <2>4, <2>5, TellsAgree DEF Side
  <2> QED BY <2>6 DEF Same
<1> QED BY <1>2, <1>3

LEMMA MergeStep ==
  ASSUME TypeOK, SnapTrue, MergeTrue, DiffsTrue, [Next]_vars
  PROVE  MergeTrue'
<1>1. CASE StartMerge
  BY <1>1, StartFrontier
<1>2. ASSUME NEW s \in Side, FetchPage(s) PROVE MergeTrue'
  <2>1. PICK F \in Int : Frontier(F)
    BY <1>2 DEF FetchPage, MergeTrue
  <2> QED BY <1>2, <2>1, FetchFrontier DEF MergeTrue
<1>3. CASE MergeRows
  <2>1. PICK F \in Int : Frontier(F)
    BY <1>3 DEF MergeRows, MergeTrue
  <2> QED BY <1>3, <2>1, MergeJudges
<1>4. ASSUME UNCHANGED <<pc, cur, buf, pos, exhausted, found>>, EnvGrows PROVE MergeTrue'
  <2> SUFFICES ASSUME pc = "merge" PROVE \E F \in Int : Frontier(F)'
    BY <1>4 DEF MergeTrue
  <2>1. PICK F \in Int : Frontier(F)
    BY DEF MergeTrue
  <2> QED BY <1>4, <2>1, FrontierKept
<1>5. ASSUME NEW s \in Side, NEW k \in Keys, NEW r \in RowImage, Write(s, k, r) PROVE MergeTrue'
  <2>2. UNCHANGED <<pc, cur, buf, pos, exhausted, found>>
    BY <1>5 DEF Write, work, cursors
  <2>3. EnvGrows
    BY <1>5, WriteGrows
  <2> QED BY <1>4, <2>2, <2>3
<1>6. CASE UNCHANGED vars
  BY <1>4, <1>6 DEF vars, env, work, cursors, EnvGrows
<1>7. ASSUME pc' # "merge" PROVE MergeTrue'
  BY <1>7 DEF MergeTrue
<1>8. CASE Compare
  <2>1. \/ pc' # "merge"
        \/ StartMerge \/ MergeRows \/ \E s \in Side : FetchPage(s)
    BY <1>8 DEF Compare, OpenSnapshot, KeyRange, FullChecksum, SegmentChecksum, Checksum,
       FullMatch, SegmentMatch, Match, FullMismatch, AggregateChunk, AllAggregated, SkipSegment,
       TakeSegment, Split, DepthExceeded, Stopped, FinishMerge, SegmentsDone,
       Commit, RecheckLeft, RecheckRight, Finalize, Emit
  <2> QED BY <1>1, <1>2, <1>3, <1>7, <2>1
<1>9. CASE Start \/ StartRefused \/ StartTornHeader \/ Abort \/ TornRecord
  BY <1>7, <1>9 DEF Start, StartRefused, StartTornHeader, Abort, TornRecord, Stopped
<1> QED BY <1>5, <1>6, <1>8, <1>9 DEF Next

LEMMA DiffsStep ==
  ASSUME TypeOK, MergeTrue, DiffsTrue, [Next]_vars
  PROVE  DiffsTrue'
<1>1. CASE Restarted
  BY <1>1 DEF Restarted, DiffsTrue
<1>2. CASE MergeRows
  <2>1. PICK F \in Int : Frontier(F)
    BY <1>2 DEF MergeRows, MergeTrue
  <2> QED BY <1>2, <2>1, MergeJudges
<1>3. ASSUME diffs' \cup found' \subseteq diffs \cup found, EnvGrows PROVE DiffsTrue'
  <2> SUFFICES ASSUME NEW d \in diffs \cup found, d \in diffs' \cup found', d.key \notin touched'
               PROVE  ~Same(d.key)'
    BY <1>3 DEF DiffsTrue
  <2>1. d.key \in Keys
    BY DEF TypeOK, DiffType
  <2>2. ~Same(d.key)
    BY <1>3 DEF DiffsTrue, EnvGrows
  <2>3. tab'["left"][d.key] = tab["left"][d.key] /\ tab'["right"][d.key] = tab["right"][d.key]
    BY <1>3, <2>1 DEF EnvGrows, Side
  <2> QED BY <2>2, <2>3 DEF Same
<1>4. Restarted \/ MergeRows \/ diffs' \cup found' \subseteq diffs \cup found
  BY DEF Next, Write, Start, StartRefused, StartTornHeader, Abort, TornRecord, Stopped,
         Compare, OpenSnapshot, KeyRange, FullChecksum, SegmentChecksum, Checksum, FullMatch,
         SegmentMatch, Match, FullMismatch, AggregateChunk, AllAggregated, SkipSegment, TakeSegment,
         StartMerge, Split, DepthExceeded, FetchPage, FinishMerge, SegmentsDone,
         Commit, RecheckLeft, RecheckRight, Finalize, Emit, vars, work, result
<1> QED BY <1>1, <1>2, <1>3, <1>4, EnvStep

-----------------------------------------------------------------------------
(* What the recheck has seen: the rows of the keys it asked for, as they   *)
(* are unless they were written after the snapshots ended.                 *)
DiffKeys == {d.key : d \in diffs}

Asked(s) == (DiffKeys \ rest) \cup IF s = "left" THEN batch ELSE {}

RecheckTrue ==
  /\ late \subseteq touched
  /\ rest \subseteq DiffKeys /\ batch \subseteq rest
  /\ pc \notin {"recheckLeft", "recheckRight"} => rest = {}
  /\ pc # "recheckRight" => batch = {}
  /\ pc \notin Committed => now = Both({})
  /\ pc \in Committed /\ Recheck => \A s \in Side : Tells(now[s], tab[s], Asked(s), late)
  /\ Finished => pc = "done"

LEMMA TellsNothing == ASSUME NEW t, NEW hidden PROVE Tells({}, t, {}, hidden)
BY DEF Tells

LEMMA TellsBoth ==
  ASSUME NEW R, NEW Q, NEW t, NEW ks, NEW js, NEW hidden,
         Tells(R, t, ks, hidden), Tells(Q, t, js, hidden)
  PROVE  Tells(R \cup Q, t, ks \cup js, hidden)
BY DEF Tells

LEMMA RecheckRestarted ==
  ASSUME Restarted, ~Finished'
  PROVE  RecheckTrue'
<1>1. DiffKeys' = {} /\ rest' = {} /\ batch' = {} /\ now' = Both({}) /\ late' = {}
  BY DEF Restarted, DiffKeys
<1>2. \A s \in Side : Asked(s)' = {} /\ now'[s] = {}
  BY <1>1 DEF Asked, Both
<1>3. (\A s \in Side : Tells(now[s], tab[s], Asked(s), late))'
  BY <1>2, TellsNothing
<1> QED BY <1>1, <1>3 DEF RecheckTrue

(* Before the snapshots end, nothing of the recheck changes.               *)
LEMMA RecheckAwaited ==
  ASSUME RecheckTrue, pc \notin Committed, pc' \notin Committed,
         UNCHANGED <<rest, batch, now, late, exit>>, touched \subseteq touched',
         diffs \subseteq diffs'
  PROVE  RecheckTrue'
<1>1. DiffKeys \subseteq DiffKeys'
  BY DEF DiffKeys
<1>2. rest = {} /\ batch = {} /\ ~Finished
  BY DEF RecheckTrue, Committed
<1> QED BY <1>1, <1>2 DEF RecheckTrue, Finished

LEMMA RecheckStep ==
  ASSUME TypeOK, RecheckTrue, [Next]_vars
  PROVE  RecheckTrue'
<1>1. ASSUME NEW s \in Side, NEW k \in Keys, NEW r \in RowImage, Write(s, k, r) PROVE RecheckTrue'
  <2>1. /\ tab' = [tab EXCEPT ![s][k] = r] /\ touched' = touched \cup {k}
        /\ late' = IF pc \in Committed THEN late \cup {k} ELSE late
        /\ UNCHANGED <<mode, pc, rest, batch, now, exit, diffs>>
    BY <1>1 DEF Write, result, recheck
  <2>2. CASE pc \notin Committed
    BY <2>1, <2>2, RecheckAwaited
  <2>3. CASE pc \in Committed
    <3>1. UNCHANGED <<DiffKeys, Finished, Recheck>> /\ \A z \in Side : Asked(z)' = Asked(z)
      BY <2>1 DEF DiffKeys, Asked, Finished, Recheck
    <3>2. \A z \in Side : \A j \in Keys \ late' : tab'[z][j] = tab[z][j]
      BY <2>1, <2>3 DEF TypeOK, Table
    <3>3. ASSUME Recheck, NEW z \in Side PROVE Tells(now[z], tab'[z], Asked(z), late')
      <4>1. Tells(now[z], tab[z], Asked(z), late) /\ late \subseteq late'
        BY <2>1, <2>3, <3>3 DEF RecheckTrue
      <4> QED BY <3>2, <4>1 DEF Tells, Row
    <3> QED BY <2>1, <2>3, <3>1, <3>3 DEF RecheckTrue
  <2> QED BY <2>2, <2>3
<1>2. CASE UNCHANGED vars
  <2>1. UNCHANGED <<late, touched, rest, batch, pc, now, tab, mode, diffs, exit>>
    BY <1>2 DEF vars, env, result, recheck
  <2>2. UNCHANGED <<DiffKeys, Finished, Recheck>> /\ \A z \in Side : Asked(z)' = Asked(z)
    BY <2>1 DEF DiffKeys, Asked, Finished, Recheck
  <2> QED BY <2>1, <2>2 DEF RecheckTrue
<1>3. CASE Start \/ StartRefused \/ StartTornHeader \/ Abort \/ TornRecord \/ DepthExceeded
  BY <1>3, RecheckRestarted
     DEF Start, StartRefused, StartTornHeader, Abort, TornRecord, DepthExceeded, Stopped, Finished
<1>4. CASE Commit
  <2>1. /\ rest' = IF Recheck THEN DiffKeys ELSE {}
        /\ pc' = IF Recheck /\ diffs # {} THEN "recheckLeft" ELSE "report"
        /\ late' = {} /\ UNCHANGED <<mode, touched, diffs, batch, now, exit>>
    BY <1>4 DEF Commit, DiffKeys
  <2>2. pc = "commit" /\ batch = {} /\ now = Both({}) /\ ~Finished
    BY <1>4 DEF Commit, RecheckTrue, Committed
  <2>3. UNCHANGED <<DiffKeys, Finished, Recheck>>
    BY <2>1 DEF DiffKeys, Finished, Recheck
  <2>4. diffs = {} => DiffKeys = {}
    BY DEF DiffKeys
  <2>5. ASSUME Recheck, NEW z \in Side PROVE Tells(now[z], tab'[z], Asked(z)', late')
    <3>1. Asked(z)' = {} /\ now[z] = {}
      BY <2>1, <2>2, <2>3, <2>5 DEF Asked, Both
    <3> QED BY <3>1, TellsNothing
  <2>6. rest' \subseteq DiffKeys' /\ batch' = {} /\ late' \subseteq touched' /\ ~Finished'
        /\ pc' \in Committed /\ (pc' # "recheckLeft" => rest' = {}) /\ pc' # "recheckRight"
    BY <2>1, <2>2, <2>3, <2>4 DEF Committed
  <2> QED BY <2>1, <2>3, <2>5, <2>6 DEF RecheckTrue
<1>5. CASE RecheckLeft
  <2>1. PICK ks \in SUBSET rest :
          batch' = ks /\ now' = [now EXCEPT !["left"] = @ \cup RowsOf(tab["left"], ks)]
    BY <1>5 DEF RecheckLeft
  <2>2. /\ pc = "recheckLeft" /\ pc' = "recheckRight"
        /\ UNCHANGED <<mode, tab, touched, late, diffs, rest, exit>>
    BY <1>5 DEF RecheckLeft, env
  <2>3. UNCHANGED <<DiffKeys, Finished, Recheck>>
    BY <2>2 DEF DiffKeys, Finished, Recheck
  <2>4. batch = {} /\ ~Finished /\ rest \subseteq DiffKeys /\ pc \in Committed /\ pc' \in Committed
    BY <2>2 DEF RecheckTrue, Committed
  <2>5. ASSUME Recheck, NEW z \in Side PROVE Tells(now'[z], tab[z], Asked(z)', late)
    <3>1. Tells(now[z], tab[z], Asked(z), late)
      BY <2>4, <2>5 DEF RecheckTrue
    <3>2. CASE z = "left"
      <4>1. ks \in SUBSET Keys /\ tab[z] \in Table
        BY DEF TypeOK
      <4>2. Tells(RowsOf(tab[z], ks), tab[z], ks, late)
        BY <4>1, RowsOfTell
      <4>3. Asked(z)' = Asked(z) \cup ks /\ now'[z] = now[z] \cup RowsOf(tab[z], ks)
        BY <2>1, <2>2, <2>3, <2>4, <3>2 DEF Asked, TypeOK, Side
      <4> QED BY <3>1, <4>2, <4>3, TellsBoth
    <3>3. CASE z # "left"
      <4>1. Asked(z)' = Asked(z) /\ now'[z] = now[z]
        BY <2>1, <2>2, <2>3, <3>3 DEF Asked, TypeOK, Side
      <4> QED BY <3>1, <4>1
    <3> QED BY <3>2, <3>3
  <2> QED BY <2>1, <2>2, <2>3, <2>4, <2>5 DEF RecheckTrue
<1>6. CASE RecheckRight
  <2>1. /\ now' = [now EXCEPT !["right"] = @ \cup RowsOf(tab["right"], batch)]
        /\ rest' = rest \ batch /\ batch' = {}
        /\ pc = "recheckRight" /\ pc' = IF rest' = {} THEN "report" ELSE "recheckLeft"
        /\ UNCHANGED <<mode, tab, touched, late, diffs, exit>>
    BY <1>6 DEF RecheckRight, env
  <2>2. UNCHANGED <<DiffKeys, Finished, Recheck>>
    BY <2>1 DEF DiffKeys, Finished, Recheck
  <2>3. /\ batch \subseteq rest /\ ~Finished /\ rest \subseteq DiffKeys
        /\ pc \in Committed /\ pc' \in Committed
    BY <2>1 DEF RecheckTrue, Committed
  <2>4. ASSUME Recheck, NEW z \in Side PROVE Tells(now'[z], tab[z], Asked(z)', late)
    <3>1. Tells(now[z], tab[z], Asked(z), late)
      BY <2>3, <2>4 DEF RecheckTrue
    <3>2. CASE z = "right"
      <4>1. batch \in SUBSET Keys /\ tab[z] \in Table
        BY DEF TypeOK
      <4>2. Tells(RowsOf(tab[z], batch), tab[z], batch, late)
        BY <4>1, RowsOfTell
      <4>3. Asked(z)' = Asked(z) \cup batch /\ now'[z] = now[z] \cup RowsOf(tab[z], batch)
        BY <2>1, <2>2, <2>3, <3>2 DEF Asked, TypeOK, Side
      <4> QED BY <3>1, <4>2, <4>3, TellsBoth
    <3>3. CASE z # "right"
      <4>1. Asked(z)' = Asked(z) /\ now'[z] = now[z]
        BY <2>1, <2>2, <2>3, <3>3 DEF Asked, TypeOK, Side
      <4> QED BY <3>1, <4>1
    <3> QED BY <3>2, <3>3
  <2> QED BY <2>1, <2>2, <2>3, <2>4 DEF RecheckTrue
<1>7. CASE Finalize \/ Emit
  <2>1. /\ UNCHANGED <<mode, tab, touched, late, diffs, rest, batch, now>>
        /\ pc \in {"report", "emit"} /\ pc' \in {"emit", "done"}
        /\ (exit' = exit \/ pc' = "done")
    BY <1>7 DEF Finalize, Emit, env, result, recheck
  <2>2. UNCHANGED <<DiffKeys, Recheck>> /\ \A z \in Side : Asked(z)' = Asked(z)
    BY <2>1 DEF DiffKeys, Asked, Recheck
  <2>3. pc \in Committed /\ pc' \in Committed /\ (Finished' => pc' = "done")
    BY <2>1 DEF RecheckTrue, Committed, Finished
  <2> QED BY <2>1, <2>2, <2>3 DEF RecheckTrue
<1>8. ASSUME Compare, ~DepthExceeded, ~Commit, ~RecheckLeft, ~RecheckRight, ~Finalize, ~Emit
      PROVE  RecheckTrue'
  <2>1. /\ UNCHANGED <<rest, batch, now, late, exit, touched>> /\ diffs \subseteq diffs'
        /\ pc \notin Committed /\ pc' \notin Committed
    BY <1>8
       DEF Compare, OpenSnapshot, KeyRange, FullChecksum, SegmentChecksum, Checksum, FullMatch,
         SegmentMatch, Match, FullMismatch, AggregateChunk, AllAggregated, SkipSegment, TakeSegment,
         StartMerge, Mismatch, Split, FetchPage, MergeRows, FinishMerge, Merged, SegmentsDone,
         env, recheck, result, Committed
  <2> QED BY <2>1, RecheckAwaited
<1> QED BY <1>1, <1>2, <1>3, <1>4, <1>5, <1>6, <1>7, <1>8 DEF Next

-----------------------------------------------------------------------------
(* What the checkpoint has recorded as equal is equal, but for rows that   *)
(* were written since; a file that starts a job afresh holds nothing.      *)
Vouches(e) == e.dc = 0 => \A k \in InRange(e) \ touched : Same(k)

FileTrue ==
  /\ file.header = "none" => file.recs = {}
  /\ Checkpoint /\ pc \in Querying \ {"emit"} => file.header = "ok"
  /\ \A e \in file.recs \cup completed : Vouches(e)

LEMMA VouchesOn ==
  ASSUME EnvGrows, NEW e, Vouches(e)
  PROVE  Vouches(e)'
<1> SUFFICES ASSUME e.dc = 0, NEW k \in InRange(e) \ touched' PROVE Same(k)'
  BY DEF Vouches, InRange
<1>1. k \in Keys
  BY InRangeKeys
<1>2. k \notin touched
  BY DEF EnvGrows
<1>3. Same(k)
  BY <1>2 DEF Vouches
<1>4. tab'["left"][k] = tab["left"][k] /\ tab'["right"][k] = tab["right"][k]
  BY <1>1 DEF EnvGrows, Side
<1> QED BY <1>3, <1>4 DEF Same

LEMMA AgreeSame ==
  ASSUME TypeOK, SumsTrue, Agree, NEW k \in Covered \ touched
  PROVE  Same(k)
<1>1. PICK R \in sums["left"] : R \in sums["right"]
  BY DEF Agree, Known
<1>2. Tells(R, tab["left"], Covered, touched) /\ Tells(R, tab["right"], Covered, touched)
  BY <1>1 DEF SumsTrue, Side
<1>3. tab["left"] \in Table /\ tab["right"] \in Table /\ Covered \in SUBSET Keys
  BY CoveredKeys DEF TypeOK, Side
<1> QED BY <1>2, <1>3, TellsAgree DEF Same

LEMMA RecordKept ==
  ASSUME TypeOK, FileTrue, NEW e, RecordCheckpoint(e), Vouches(e),
         pc \in Querying \ {"emit"}, UNCHANGED <<mode, tab, touched>>
  PROVE  FileTrue'
<1>1. Checkpoint' = Checkpoint /\ (Checkpoint => file.header = "ok")
  BY DEF Checkpoint, FileTrue
<1>2. /\ file'.header = file.header
      /\ (~Checkpoint => file' = file)
      /\ file'.recs \subseteq file.recs \cup {e}
      /\ completed' \subseteq completed \cup {e}
  BY DEF RecordCheckpoint, Appended, Put, TypeOK
<1>3. \A x \in file'.recs \cup completed' : Vouches(x)
  BY <1>2 DEF FileTrue
<1>4. EnvGrows
  BY DEF EnvGrows
<1>5. \A x \in file'.recs \cup completed' : Vouches(x)'
  BY <1>3, <1>4, VouchesOn
<1>6. file'.header = "none" => file'.recs = {}
  BY <1>1, <1>2 DEF FileTrue
<1>7. Checkpoint' => file'.header = "ok"
  BY <1>1, <1>2
<1> QED BY <1>5, <1>6, <1>7 DEF FileTrue

LEMMA MatchVouches ==
  ASSUME TypeOK, SumsTrue, NEW seg, NEW next, Match(seg, next), InRange(seg) = Covered
  PROVE  Vouches(Entry(seg, Count("left"), Count("right"), 0))
<1>1. InRange(Entry(seg, Count("left"), Count("right"), 0)) = InRange(seg)
  BY DEF Entry, InRange
<1>2. \A k \in Covered \ touched : Same(k)
  BY AgreeSame DEF Match
<1> QED BY <1>1, <1>2 DEF Vouches

LEMMA FileStep ==
  ASSUME TypeOK, SumsTrue, MergeTrue, FileTrue, [Next]_vars
  PROVE  FileTrue'
<1>1. CASE Start
  <2>1. /\ file.header # "bad" /\ UNCHANGED <<mode, tab>>
        /\ touched' = IF file.header = "none" THEN {} ELSE touched
        /\ completed' = file.recs
        /\ file' = IF Checkpoint THEN [file EXCEPT !.header = "ok"] ELSE file
    BY <1>1 DEF Start, Restarted
  <2>2. file'.recs = file.recs /\ (Checkpoint' => file'.header = "ok")
        /\ (file'.header = "none" => file.header = "none")
    BY <2>1 DEF TypeOK, Checkpoint
  <2>3. CASE file.header = "none"
    BY <2>1, <2>2, <2>3 DEF FileTrue
  <2>4. CASE file.header # "none"
    <3>1. EnvGrows
      BY <2>1, <2>4 DEF EnvGrows
    <3>2. \A e \in file'.recs \cup completed' : Vouches(e)'
      BY <2>1, <2>2, <3>1, VouchesOn DEF FileTrue
    <3> QED BY <2>2, <2>4, <3>2 DEF FileTrue
  <2> QED BY <2>3, <2>4
<1>2. ASSUME EnvGrows, Checkpoint' = Checkpoint, file'.header = file.header,
             file'.recs = file.recs, completed' \subseteq completed,
             pc' \in Querying \ {"emit"} => pc \in Querying \ {"emit"}
      PROVE  FileTrue'
  <2>1. \A e \in file'.recs \cup completed' : Vouches(e)'
    BY <1>2, VouchesOn DEF FileTrue
  <2> QED BY <1>2, <2>1 DEF FileTrue
<1>3. CASE StartRefused \/ Abort \/ DepthExceeded \/ TornRecord
  <2>1. EnvGrows /\ Checkpoint' = Checkpoint
    BY <1>3 DEF StartRefused, Abort, DepthExceeded, TornRecord, Stopped, Restarted, EnvGrows,
       Checkpoint
  <2>2. file'.header = file.header /\ file'.recs = file.recs
    BY <1>3 DEF StartRefused, Abort, DepthExceeded, TornRecord, TypeOK
  <2>3. completed' = {} /\ pc' \notin Querying
    BY <1>3 DEF StartRefused, Abort, DepthExceeded, TornRecord, Stopped, Querying
  <2> QED BY <1>2, <2>1, <2>2, <2>3
<1>4. CASE StartTornHeader
  <2>1. file.recs = {} /\ file' = [file EXCEPT !.header = "bad"] /\ completed' = {} /\ pc' \notin Querying
    BY <1>4 DEF StartTornHeader, FileTrue, Querying
  <2>2. file'.recs = {} /\ file'.header = "bad"
    BY <2>1 DEF TypeOK
  <2> QED BY <2>1, <2>2 DEF FileTrue
<1>5. CASE FullMatch
  <2>1. Match(Domain, "commit") /\ pc = "full" /\ Covered = InRange(Domain)
    BY <1>5 DEF FullMatch, Covered
  <2>2. Vouches(Entry(Domain, Count("left"), Count("right"), 0))
    BY <2>1, MatchVouches
  <2> QED BY <2>1, <2>2, RecordKept DEF Match, env, Querying
<1>6. CASE SegmentMatch
  <2>1. Match(cur, "segment") /\ pc = "sum" /\ Covered = InRange(cur)
    BY <1>6 DEF SegmentMatch, Covered
  <2>2. Vouches(Entry(cur, Count("left"), Count("right"), 0))
    BY <2>1, MatchVouches
  <2> QED BY <2>1, <2>2, RecordKept DEF Match, env, Querying
<1>7. CASE FinishMerge
  <2> DEFINE e == Entry(cur, Count("left"), Count("right"), Cardinality(found))
  <2>1. Merged /\ pc = "merge" /\ RecordCheckpoint(e) /\ UNCHANGED <<mode, tab, touched>>
    BY <1>7 DEF FinishMerge, Merged, env
  <2>2. Vouches(e)
    <3>1. InRange(e) = InRange(cur) /\ e.dc = Cardinality(found)
      BY DEF Entry, InRange
    <3>2. IsFiniteSet(found)
      BY DiffTypeFinite DEF TypeOK
    <3>3. Cardinality(found) = 0 => found = {}
      BY <3>2, FS_EmptySet
    <3>4. \A k \in InRange(cur) \ touched : ~Same(k) => \E d \in found : d.key = k
      BY <2>1, MergeComplete
    <3> HIDE DEF e
    <3> QED BY <3>1, <3>3, <3>4 DEF Vouches
  <2> HIDE DEF e
  <2> QED BY <2>1, <2>2, RecordKept DEF Querying
<1>8. CASE Finalize
  <2>1. EnvGrows /\ file' = NoFile /\ completed' = completed /\ pc' = "emit"
    BY <1>8 DEF Finalize, EnvGrows, env
  <2>2. \A e \in completed : Vouches(e)'
    BY <2>1, VouchesOn DEF FileTrue
  <2> QED BY <2>1, <2>2 DEF FileTrue, NoFile
<1>9. ASSUME EnvGrows, UNCHANGED <<file, completed, mode>>,
             pc' \in Querying \ {"emit"} => pc \in Querying \ {"emit"}
      PROVE  FileTrue'
  BY <1>2, <1>9 DEF Checkpoint

<1>10. CASE UNCHANGED vars
  BY <1>9, <1>10 DEF vars, env, disk, EnvGrows
<1>11. ASSUME NEW s \in Side, NEW k \in Keys, NEW r \in RowImage, Write(s, k, r) PROVE FileTrue'
  BY <1>9, <1>11, WriteGrows DEF Write, disk
<1>12. ASSUME Compare, ~FullMatch, ~SegmentMatch, ~FinishMerge, ~Finalize, ~DepthExceeded
       PROVE  FileTrue'
  <2>1. /\ UNCHANGED <<file, completed, mode, tab>> /\ touched \subseteq touched'
        /\ (pc' \in Querying \ {"emit"} => pc \in Querying \ {"emit"})
    BY <1>12
       DEF Compare, OpenSnapshot, KeyRange, FullChecksum, SegmentChecksum, Checksum,
         FullMismatch, AggregateChunk, AllAggregated, SkipSegment, TakeSegment,
         StartMerge, Mismatch, Split, FetchPage, MergeRows, SegmentsDone,
         Commit, RecheckLeft, RecheckRight, Emit, env, disk, Querying
  <2>2. EnvGrows
    BY <2>1 DEF EnvGrows
  <2> QED BY <1>9, <2>1, <2>2
<1> QED
  BY <1>1, <1>3, <1>4, <1>5, <1>6, <1>7, <1>8, <1>10, <1>11, <1>12 DEF Next

-----------------------------------------------------------------------------
(* What has been read so far tells of every row that nobody wrote since.   *)
SafeInv ==
  TypeInv /\ SnapTrue /\ AggTrue /\ SumsTrue /\ MergeTrue /\ DiffsTrue /\ FileTrue /\ RecheckTrue

LEMMA SafeInit == Init => SafeInv
<1> SUFFICES ASSUME Init PROVE SafeInv
  OBVIOUS
<1>1. TypeInv
  BY InitType
<1>2. /\ touched = {} /\ late = {} /\ pc = "idle" /\ exit = "none"
      /\ snap = Both({}) /\ agg = Both({}) /\ sums = Both({}) /\ now = Both({})
      /\ diffs = {} /\ found = {} /\ rest = {} /\ batch = {} /\ file = NoFile /\ completed = {}
  BY DEF Init
<1>3. SnapTrue /\ AggTrue /\ SumsTrue /\ MergeTrue /\ DiffsTrue
  BY <1>2 DEF SnapTrue, AggTrue, SumsTrue, MergeTrue, DiffsTrue, Both
<1>4. FileTrue
  BY <1>2 DEF FileTrue, NoFile, Querying
<1>5. RecheckTrue
  BY <1>2 DEF RecheckTrue, DiffKeys, Committed, Finished
<1> QED BY <1>1, <1>3, <1>4, <1>5 DEF SafeInv

LEMMA SafeStep == SafeInv /\ [Next]_vars => SafeInv'
<1> SUFFICES ASSUME SafeInv, [Next]_vars PROVE SafeInv'
  OBVIOUS
<1>1. TypeInv' /\ TypeOK
  BY StepType DEF SafeInv, TypeInv
<1>2. SnapTrue' /\ AggTrue' /\ SumsTrue'
  BY <1>1, SnapStep, AggStep, SumsStep DEF SafeInv
<1>3. MergeTrue' /\ DiffsTrue'
  BY <1>1, MergeStep, DiffsStep DEF SafeInv
<1>4. FileTrue' /\ RecheckTrue'
  BY <1>1, FileStep, RecheckStep DEF SafeInv
<1> QED BY <1>1, <1>2, <1>3, <1>4 DEF SafeInv

(* Snapshots, checksums, page buffers, found differences, the recheck and  *)
(* the checkpoint always show the rows nobody wrote since as they are      *)
(* (hash_diff.rs:108-211, rowdiff.rs:26-142, recheck.rs:27-88).            *)
THEOREM SafetyInvariant == Spec => []SafeInv
BY SafeInit, SafeStep, PTL DEF Spec

(* Where the checkpoint records a segment without differences, every row   *)
(* of it that nobody wrote since is the same on both sides, so a later run *)
(* that skips the segment hides nothing (progress.rs:101-124).             *)
THEOREM RecordsSound == Spec => []CheckpointSound
<1>1. SafeInv => CheckpointSound
  BY DEF SafeInv, FileTrue, Vouches, Same, CheckpointSound
<1> QED BY <1>1, SafetyInvariant, PTL

(* A row on which the sides agreed all the time is never reported, whatever *)
(* falls between the two reads of it, and however pages and buffers of the *)
(* two sides are aligned (rowdiff.rs:26-142).                              *)
THEOREM ReportsNoFalseAlarm == Spec => []NoFalseAlarm
<1>1. SafeInv => NoFalseAlarm
  <2> SUFFICES ASSUME SafeInv, NEW k \in StableSame \cap Reported PROVE FALSE
    BY DEF NoFalseAlarm
  <2>1. PICK d \in diffs : d.key = k
    BY DEF Reported, Confirmed
  <2> QED BY <2>1 DEF SafeInv, DiffsTrue, StableSame, Same
<1> QED BY <1>1, SafetyInvariant, PTL

(* After a recheck, a key is reported only if the sides differ in it or it *)
(* was written after the snapshots were committed (recheck.rs:27-88).      *)
THEOREM RecheckDropsTransients == Spec => []TransientDropped
<1>1. SafeInv => TransientDropped
  <2> SUFFICES ASSUME SafeInv, Recheck, NEW k \in Reported \ late
               PROVE  tab["left"][k] # tab["right"][k]
    BY DEF TransientDropped
  <2>1. Finished /\ \E d \in diffs : d.key = k /\ StillDiffers(k)
    BY DEF Reported, Confirmed
  <2>2. k \in DiffKeys /\ k \in Keys
    BY <2>1 DEF DiffKeys, SafeInv, TypeInv, TypeOK, DiffType
  <2>3. pc = "done" /\ rest = {} /\ batch = {}
    BY <2>1 DEF SafeInv, RecheckTrue
  <2>4. \A s \in Side : Tells(now[s], tab[s], DiffKeys, late)
    BY <2>3 DEF SafeInv, RecheckTrue, Asked, Committed
  <2>5. \A s \in Side : now[s] \in SUBSET Row
    BY DEF SafeInv, TypeInv, TypeOK
  <2>6. \A r \in Row : r[1] = k => (r \in now["left"] <=> tab["left"][k] = r[2])
                                /\ (r \in now["right"] <=> tab["right"][k] = r[2])
    BY <2>2, <2>4 DEF Tells, Side
  <2>7. ASSUME tab["left"][k] = tab["right"][k] PROVE FALSE
    <3>1. {r \in now["left"] : r[1] = k} = {r \in now["right"] : r[1] = k}
      BY <2>5, <2>6, <2>7 DEF Side
    <3> QED BY <2>1, <3>1 DEF StillDiffers
  <2> QED BY <2>7
<1> QED BY <1>1, SafetyInvariant, PTL

-----------------------------------------------------------------------------
(* Every stable difference stays in sight of the run: between the ends of  *)
(* the key domain, then in a segment that waits, in the one in hand, or in *)
(* the result.  A key MaxInt would not be: the domain ends at MAX(key) + 1, *)
(* which wraps (hash_diff.rs:129).                                         *)
Bounded(s) ==
  \A k \in Keys \ touched : tab[s][k] # Absent => \E a, b \in ends[s] : a <= k /\ k <= b

RangesTrue ==
  /\ pc \in {"rangeRight", "full", "aggregate"} => Bounded("left")
  /\ pc \in {"full", "aggregate"} => Bounded("right")

Settled(k) ==
  (\E d \in diffs : d.key = k) \/ (\E sh \in SkippedDiffs : k \in InRange(sh))

Waiting(k) == \E seg \in todo : k \in InRange(seg)

InHand(k) == pc \in {"sum", "merge"} /\ k \in InRange(cur)

CoverTrue ==
  /\ pc \in {"segment", "sum", "merge"} =>
       \A k \in StableDiff : Settled(k) \/ Waiting(k) \/ InHand(k)
  /\ pc \in {"commit", "recheckLeft", "recheckRight", "report", "emit"} \/ Finished =>
       \A k \in StableDiff : Settled(k)

LEMMA BoundedOn ==
  ASSUME EnvGrows, ends' = ends, NEW s \in Side, Bounded(s)
  PROVE  Bounded(s)'
<1> SUFFICES ASSUME NEW k \in Keys \ touched', tab'[s][k] # Absent
             PROVE  \E a, b \in ends[s] : a <= k /\ k <= b
  BY DEF Bounded
<1>1. k \in Keys \ touched /\ tab[s][k] # Absent
  BY DEF EnvGrows
<1> QED BY <1>1 DEF Bounded

LEMMA RangeBounds ==
  ASSUME TypeOK, SnapTrue, NEW s \in Side, KeyRange(s)
  PROVE  Bounded(s)' /\ \A z \in Side \ {s} : ends'[z] = ends[z]
<1> DEFINE ks == KeysOf(RowsOf(View(s), Keys))
<1>1. ends' = [ends EXCEPT ![s] = EndsOf(ks)] /\ UNCHANGED <<tab, touched>>
  BY DEF KeyRange, env
<1>2. ks \in SUBSET Keys
  BY ViewType, RowsOfType
<1>3. ASSUME NEW k \in Keys \ touched, tab[s][k] # Absent
      PROVE  \E a, b \in EndsOf(ks) : a <= k /\ k <= b
  <2>1. View(s)[k] # Absent
    BY <1>3, ViewShows
  <2>2. <<k, View(s)[k]>> \in RowsOf(View(s), Keys)
    BY <2>1 DEF RowsOf
  <2>3. k \in ks
    BY <2>2 DEF KeysOf
  <2> HIDE DEF ks
  <2>4. Min(ks) <= k /\ k <= Max(ks)
    BY <1>2, <2>3, KeysType, MinInt64, MaxInt64
  <2> QED BY <2>3, <2>4 DEF EndsOf
<1> HIDE DEF ks
<1>4. ends'[s] = EndsOf(ks) /\ \A z \in Side \ {s} : ends'[z] = ends[z]
  BY <1>1 DEF TypeOK
<1> QED BY <1>1, <1>3, <1>4 DEF Bounded

LEMMA RangesStep ==
  ASSUME TypeOK, SnapTrue, RangesTrue, [Next]_vars
  PROVE  RangesTrue'
<1>1. ASSUME NEW s \in Side, KeyRange(s) PROVE RangesTrue'
  <2>1. Bounded(s)' /\ \A z \in Side \ {s} : ends'[z] = ends[z]
    BY <1>1, RangeBounds
  <2>2. /\ UNCHANGED <<tab, touched>>
        /\ pc = IF s = "left" THEN "rangeLeft" ELSE "rangeRight"
        /\ s = "left" => pc' = "rangeRight"
    BY <1>1 DEF KeyRange, env
  <2>3. CASE s = "left"
    BY <2>1, <2>2, <2>3 DEF RangesTrue
  <2>4. CASE s = "right"
    <3>1. Bounded("left")
      BY <2>2, <2>4 DEF RangesTrue
    <3>2. Bounded("left")'
      BY <2>1, <2>2, <2>4, <3>1 DEF Bounded, Side
    <3> QED BY <2>1, <2>4, <3>2 DEF RangesTrue
  <2> QED BY <2>3, <2>4 DEF Side
<1>2. ASSUME pc' \notin {"rangeRight", "full", "aggregate"} PROVE RangesTrue'
  BY <1>2 DEF RangesTrue
<1>3. ASSUME EnvGrows, ends' = ends, pc' = pc \/ (pc = "full" /\ pc' = "aggregate")
      PROVE  RangesTrue'
  <2>1. \A s \in Side : Bounded(s) => Bounded(s)'
    BY <1>3, BoundedOn
  <2> QED BY <1>3, <2>1 DEF RangesTrue, Side
<1>4. CASE UNCHANGED vars
  BY <1>3, <1>4 DEF vars, env, EnvGrows
<1>5. ASSUME NEW s \in Side, NEW k \in Keys, NEW r \in RowImage, Write(s, k, r) PROVE RangesTrue'
  BY <1>3, <1>5, WriteGrows DEF Write
<1>6. CASE Start \/ StartRefused \/ StartTornHeader \/ Abort \/ TornRecord
  BY <1>2, <1>6 DEF Start, StartRefused, StartTornHeader, Abort, TornRecord, Stopped
<1>7. ASSUME Compare, \A s \in Side : ~KeyRange(s) PROVE RangesTrue'
  <2>1. \/ pc' \notin {"rangeRight", "full", "aggregate"}
        \/ /\ UNCHANGED <<tab, touched, ends>>
           /\ pc' = pc \/ (pc = "full" /\ pc' = "aggregate")
    BY <1>7
       DEF Compare, OpenSnapshot, FullChecksum, SegmentChecksum, Checksum, FullMatch,
         SegmentMatch, Match, FullMismatch, AggregateChunk, AllAggregated, SkipSegment, TakeSegment,
         StartMerge, Mismatch, Split, DepthExceeded, Stopped, FetchPage, MergeRows, FinishMerge,
         SegmentsDone, Commit, RecheckLeft, RecheckRight, Finalize, Emit, env
  <2> QED BY <1>2, <1>3, <2>1 DEF EnvGrows
<1> QED BY <1>1, <1>4, <1>5, <1>6, <1>7 DEF Next

(* What lies between the ends of a side lies in the domain. *)
LEMMA DomainHolds ==
  ASSUME TypeOK, MaxInt \notin Keys, NEW k \in Keys, NEW s \in Side,
         \E a, b \in ends[s] : a <= k /\ k <= b
  PROVE  k \in InRange(Domain) /\ ends["left"] \cup ends["right"] # {}
<1> DEFINE all == ends["left"] \cup ends["right"]
<1>2. PICK a \in all, b \in all : a <= k /\ k <= b
  BY DEF Side
<1>3. all \in SUBSET Keys
  BY DEF TypeOK, Side
<1> HIDE DEF all
<1>4. /\ Min(all) <= a /\ b <= Max(all) /\ Max(all) \in Keys /\ Min(all) \in Keys
  BY <1>3, <1>2, KeysType, MinInt64, MaxInt64
<1>5. Max(all) \in Int64 /\ Max(all) # MaxInt
  BY <1>4, HashDiffAssumption
<1>6. Max(all) + 1 \in Int64
  BY <1>5, MaxIntAssumption DEF Int64
<1>7. Wrap(Max(all) + 1) = Max(all) + 1
  BY <1>6, WrapFits
<1>8. Min(all) \in Int /\ Max(all) \in Int /\ a \in Int /\ b \in Int /\ k \in Int
  BY <1>2, <1>3, <1>4, KeysInt
<1>9. Min(all) <= k /\ k < Max(all) + 1
  BY <1>2, <1>4, <1>8
<1>10. Domain.lo = Min(all) /\ Domain.hi = Max(all) + 1
  BY <1>7 DEF Domain, Item, all
<1> QED BY <1>2, <1>9, <1>10 DEF InRange, all

LEMMA DomainCovers ==
  ASSUME TypeOK, MaxInt \notin Keys, Bounded("left"), Bounded("right"), NEW k \in StableDiff
  PROVE  k \in InRange(Domain) /\ ends["left"] \cup ends["right"] # {}
<1>1. k \in Keys /\ k \notin touched /\ (tab["left"][k] # Absent \/ tab["right"][k] # Absent)
  BY DEF StableDiff
<1>2. PICK s \in Side : \E a, b \in ends[s] : a <= k /\ k <= b
  BY <1>1 DEF Bounded, Side
<1> QED BY <1>1, <1>2, DomainHolds

LEMMA StableShrinks ==
  ASSUME EnvGrows
  PROVE  StableDiff' \subseteq StableDiff
<1> SUFFICES ASSUME NEW k \in StableDiff' PROVE k \in StableDiff
  OBVIOUS
<1>1. k \in Keys \ touched' /\ tab'["left"][k] # tab'["right"][k]
  BY DEF StableDiff
<1>2. tab'["left"][k] = tab["left"][k] /\ tab'["right"][k] = tab["right"][k] /\ k \notin touched
  BY <1>1 DEF EnvGrows, Side
<1> QED BY <1>1, <1>2 DEF StableDiff

(* The result only grows. *)
LEMMA SettledOn ==
  ASSUME diffs \subseteq diffs', shards \subseteq shards', NEW k, Settled(k)
  PROVE  Settled(k)'
BY DEF Settled, SkippedDiffs, InRange

(* The pieces of a segment wait for all its keys. *)
LEMMA PiecesWait ==
  ASSUME NEW lo \in Int64, NEW hi \in Int64, NEW n \in Nat \ {0}, NEW k \in Keys,
         lo <= k, k < hi
  PROVE  \E p \in SplitRange(lo, hi, n) : \A d : k \in InRange(Item(p, d))
<1>1. k \in Int
  BY KeysInt
<1>2. PICK p \in SplitRange(lo, hi, n) : p[1] <= k /\ k < p[2]
  BY <1>1, SplitRangeCovers
<1>3. \A d : k \in InRange(Item(p, d))
  BY <1>2 DEF InRange, Item
<1> QED BY <1>2, <1>3

LEMMA FirstSegmentsWait ==
  ASSUME TypeOK, MaxInt \notin Keys, RangesTrue, pc \in {"full", "aggregate"},
         todo' = {Item(p, 0) : p \in FirstSegments}, NEW k \in StableDiff
  PROVE  Waiting(k)'
<1>1. k \in InRange(Domain) /\ Domain \in Segment
  BY DomainCovers, DomainType DEF RangesTrue
<1>2. k \in Keys /\ Domain.lo <= k /\ k < Domain.hi /\ Domain.lo \in Int64 /\ Domain.hi \in Int64
  BY <1>1 DEF InRange, Segment
<1>3. Segments \in Nat \ {0}
  BY HashDiffAssumption
<1>4. PICK p \in FirstSegments : \A d : k \in InRange(Item(p, d))
  BY <1>2, <1>3, PiecesWait DEF FirstSegments
<1>5. Item(p, 0) \in todo' /\ k \in InRange(Item(p, 0))
  BY <1>4
<1> QED BY <1>5 DEF Waiting, InRange

LEMMA NotAgree ==
  ASSUME TypeOK, SumsTrue, Agree, NEW k \in StableDiff
  PROVE  k \notin Covered
BY AgreeSame DEF StableDiff, Same

LEMMA CoverStep ==
  ASSUME TypeOK, MaxInt \notin Keys, SnapTrue, SumsTrue, MergeTrue, FileTrue, RecheckTrue,
  RangesTrue,
         CoverTrue, [Next]_vars
  PROVE  CoverTrue'
<1> DEFINE open == {"segment", "sum", "merge"}
           shut == {"commit", "recheckLeft", "recheckRight", "report", "emit"}
<1>1. ASSUME pc' \notin open, pc' \notin shut, ~Finished' PROVE CoverTrue'
  BY <1>1 DEF CoverTrue
<1>2. CASE Start \/ StartRefused \/ StartTornHeader \/ Abort \/ TornRecord \/ DepthExceeded
  BY <1>1, <1>2
     DEF Start, StartRefused, StartTornHeader, Abort, TornRecord, DepthExceeded, Stopped, Finished
<1>3. ASSUME EnvGrows, UNCHANGED <<pc, todo, cur, exit>>, diffs \subseteq diffs', shards \subseteq shards'
      PROVE  CoverTrue'
  <2>1. \A k : (Settled(k) => Settled(k)') /\ (Waiting(k) => Waiting(k)') /\ (InHand(k) => InHand(k)')
    BY <1>3, SettledOn DEF Waiting, InHand, InRange
  <2>2. StableDiff' \subseteq StableDiff /\ Finished' = Finished
    BY <1>3, StableShrinks DEF Finished
  <2> QED BY <1>3, <2>1, <2>2 DEF CoverTrue
<1>4. CASE UNCHANGED vars
  BY <1>3, <1>4 DEF vars, env, work, result, EnvGrows
<1>5. ASSUME NEW s \in Side, NEW k \in Keys, NEW r \in RowImage, Write(s, k, r) PROVE CoverTrue'
  BY <1>3, <1>5, WriteGrows DEF Write, work, result
(* Steps of the comparison leave the tables alone. *)
<1>6. ASSUME UNCHANGED <<tab, touched, diffs, shards>>
      PROVE  StableDiff' = StableDiff /\ \A k : Settled(k)' <=> Settled(k)
  BY <1>6 DEF StableDiff, Settled, SkippedDiffs, InRange
<1>7. ASSUME UNCHANGED <<tab, touched, diffs, shards>>, pc' \in shut \/ Finished',
             \A k \in StableDiff : Settled(k), pc' \notin open
      PROVE  CoverTrue'
  BY <1>6, <1>7 DEF CoverTrue
<1>8. ASSUME NEW s \in Side, KeyRange(s) PROVE CoverTrue'
  <2>1. CASE pc' # "commit"
    <3>1. pc' \notin open /\ pc' \notin shut /\ pc # "done" /\ exit' = exit
      BY <1>8, <2>1 DEF KeyRange
    <3> QED BY <1>1, <3>1 DEF RecheckTrue, Finished
  <2>2. CASE pc' = "commit"
    <3>1. s = "right" /\ pc = "rangeRight" /\ UNCHANGED <<tab, touched>>
      BY <1>8, <2>2 DEF KeyRange, env, Side
    <3>2. Bounded(s)' /\ \A z \in Side \ {s} : ends'[z] = ends[z]
      BY <1>8, RangeBounds
    <3>3. Bounded("left") /\ ends'["left"] = ends["left"]
      BY <3>1, <3>2 DEF RangesTrue, Side
    <3>4. ends["left"] = {} /\ ends'["right"] = {}
      <4> DEFINE e == EndsOf(KeysOf(RowsOf(View(s), Keys)))
      <4>1. ends' = [ends EXCEPT ![s] = e] /\ ends["left"] \cup e = {}
        BY <1>8, <2>2, <3>1 DEF KeyRange
      <4> HIDE DEF e
      <4> QED BY <3>1, <4>1 DEF TypeOK, Side
    <3>5. \A k \in Keys \ touched : tab["left"][k] = Absent /\ tab["right"][k] = Absent
      BY <3>1, <3>2, <3>3, <3>4 DEF Bounded
    <3>6. StableDiff' = {}
      BY <3>1, <3>5 DEF StableDiff
    <3> QED BY <2>2, <3>6 DEF CoverTrue
  <2> QED BY <2>1, <2>2
<1>9. CASE FullMatch
  <2>1. Agree /\ Covered = InRange(Domain) /\ pc' = "commit" /\ UNCHANGED <<tab, touched>> /\ pc = "full"
    BY <1>9 DEF FullMatch, Match, Covered, env
  <2>2. \A k \in StableDiff : k \in Covered
    BY <2>1, DomainCovers DEF RangesTrue
  <2>3. StableDiff = {}
    BY <2>1, <2>2, NotAgree
  <2>4. StableDiff' = {}
    BY <2>1, <2>3 DEF StableDiff
  <2> QED BY <2>1, <2>4 DEF CoverTrue
<1>10. CASE (FullMismatch /\ Snapshot) \/ AllAggregated
  <2>1. /\ todo' = {Item(p, 0) : p \in FirstSegments} /\ pc \in {"full", "aggregate"}
        /\ pc' = "segment" /\ UNCHANGED <<tab, touched, exit>>
    BY <1>10 DEF FullMismatch, AllAggregated, env
  <2>2. \A k \in StableDiff : Waiting(k)'
    BY <2>1, FirstSegmentsWait
  <2>3. StableDiff' = StableDiff /\ ~Finished'
    BY <2>1 DEF StableDiff, Finished, RecheckTrue
  <2> QED BY <2>1, <2>2, <2>3 DEF CoverTrue
<1>11. ASSUME UNCHANGED <<tab, touched, exit>>, pc \in open, pc' \in open,
              \A k \in StableDiff : Settled(k)' \/ Waiting(k)' \/ InHand(k)'
       PROVE  CoverTrue'
  <2>1. StableDiff' = StableDiff /\ ~Finished'
    BY <1>11 DEF StableDiff, Finished, RecheckTrue
  <2> QED BY <1>11, <2>1 DEF CoverTrue
<1>12. ASSUME NEW seg \in todo, SkipSegment(seg) PROVE CoverTrue'
  <2>1. PICK e \in Completed(seg) :
          shards' = shards \cup {Shard(seg, e.lc, e.rc, e.dc, "Skipped")}
    BY <1>12 DEF SkipSegment
  <2>2. /\ pc = "segment" /\ pc' = "segment" /\ todo' = todo \ {seg} /\ diffs' = diffs
        /\ UNCHANGED <<tab, touched, exit>>
    BY <1>12 DEF SkipSegment, env
  <2> SUFFICES ASSUME NEW k \in StableDiff PROVE Settled(k)' \/ Waiting(k)'
    BY <1>11, <2>2
  <2>3. Settled(k) \/ \E other \in todo : k \in InRange(other)
    BY <2>2 DEF CoverTrue, Waiting, InHand
  <2>4. CASE Settled(k)
    BY <2>1, <2>2, <2>4, SettledOn
  <2>5. CASE k \in InRange(seg)
    <3> DEFINE sh == Shard(seg, e.lc, e.rc, e.dc, "Skipped")
    <3>1. e \in completed /\ e.lo = seg.lo /\ e.hi = seg.hi /\ e.dc \in Nat
      BY DEF Completed, TypeOK, EntryType
    <3>2. k \in InRange(e) /\ ~Same(k) /\ k \notin touched
      BY <2>5, <3>1 DEF InRange, StableDiff, Same
    <3>3. e.dc > 0
      BY <3>1, <3>2 DEF FileTrue, Vouches
    <3>4. sh \in shards' /\ sh.status = "Skipped" /\ sh.dc > 0 /\ k \in InRange(sh)
      BY <2>1, <2>5, <3>3 DEF Shard, InRange
    <3> HIDE DEF sh
    <3>5. \E z \in SkippedDiffs' : k \in InRange(z)
      BY <3>4 DEF SkippedDiffs
    <3> QED BY <3>5 DEF Settled, InRange
  <2>6. CASE \E other \in todo \ {seg} : k \in InRange(other)
    BY <2>2, <2>6 DEF Waiting, InRange
  <2> QED BY <2>3, <2>4, <2>5, <2>6
<1>13. ASSUME NEW seg \in todo, TakeSegment(seg) PROVE CoverTrue'
  <2>1. /\ pc = "segment" /\ pc' = "sum" /\ todo' = todo \ {seg} /\ cur' = seg
        /\ UNCHANGED <<tab, touched, exit, diffs, shards>>
    BY <1>13 DEF TakeSegment, env, result
  <2> SUFFICES ASSUME NEW k \in StableDiff PROVE Settled(k)' \/ Waiting(k)' \/ InHand(k)'
    BY <1>11, <2>1
  <2>2. Settled(k) \/ \E other \in todo : k \in InRange(other)
    BY <2>1 DEF CoverTrue, Waiting, InHand
  <2> QED BY <2>1, <2>2, SettledOn DEF Waiting, InHand, InRange
<1>14. CASE StartMerge
  <2>1. /\ pc = "sum" /\ pc' = "merge"
        /\ UNCHANGED <<tab, touched, exit, todo, cur, diffs, shards>>
    BY <1>14 DEF StartMerge, Mismatch, env, result
  <2> SUFFICES ASSUME NEW k \in StableDiff PROVE Settled(k)' \/ Waiting(k)' \/ InHand(k)'
    BY <1>11, <2>1
  <2>2. Settled(k) \/ Waiting(k) \/ InHand(k)
    BY <2>1 DEF CoverTrue
  <2> QED BY <2>1, <2>2, SettledOn DEF Waiting, InHand, InRange
(* A segment in hand that is done with leaves no difference behind. *)
<1>15. ASSUME UNCHANGED <<tab, touched, exit, todo>>, pc \in {"sum", "merge"}, pc' = "segment",
              diffs \subseteq diffs', shards \subseteq shards',
              \A k \in StableDiff : k \in InRange(cur) => Settled(k)'
       PROVE  CoverTrue'
  <2> SUFFICES ASSUME NEW k \in StableDiff PROVE Settled(k)' \/ Waiting(k)' \/ InHand(k)'
    BY <1>11, <1>15
  <2>1. Settled(k) \/ Waiting(k) \/ InHand(k)
    BY <1>15 DEF CoverTrue
  <2> QED BY <1>15, <2>1, SettledOn DEF Waiting, InHand, InRange
<1>16. CASE SegmentMatch
  <2>1. /\ pc = "sum" /\ pc' = "segment" /\ Agree /\ Covered = InRange(cur)
        /\ UNCHANGED <<tab, touched, exit, todo, diffs>> /\ shards \subseteq shards'
    BY <1>16 DEF SegmentMatch, Match, Covered, env
  <2>2. \A k \in StableDiff : k \notin InRange(cur)
    BY <2>1, NotAgree
  <2> QED BY <1>15, <2>1, <2>2
<1>17. CASE FinishMerge
  <2>1. /\ pc = "merge" /\ Merged /\ pc' = "segment" /\ diffs' = diffs \cup found
        /\ UNCHANGED <<tab, touched, exit, todo>> /\ shards \subseteq shards'
    BY <1>17 DEF FinishMerge, Merged, env
  <2>2. ASSUME NEW k \in StableDiff, k \in InRange(cur) PROVE Settled(k)'
    <3>1. k \in InRange(cur) \ touched /\ ~Same(k)
      BY <2>2 DEF StableDiff, Same
    <3>2. \E d \in found : d.key = k
      BY <2>1, <3>1, MergeComplete
    <3> QED BY <2>1, <3>2 DEF Settled
  <2> QED BY <1>15, <2>1, <2>2
<1>18. CASE Split
  <2> DEFINE pieces == {Item(p, cur.depth + 1) : p \in SplitRange(cur.lo, cur.hi, Factor)}
  <2>1. /\ pc = "sum" /\ pc' = "segment" /\ todo' = todo \cup pieces
        /\ UNCHANGED <<tab, touched, exit, diffs, shards>>
    BY <1>18 DEF Split, Mismatch, env, result
  <2> SUFFICES ASSUME NEW k \in StableDiff PROVE Settled(k)' \/ Waiting(k)'
    BY <1>11, <2>1
  <2>2. Settled(k) \/ Waiting(k) \/ InHand(k)
    BY <2>1 DEF CoverTrue
  <2>3. ASSUME k \in InRange(cur) PROVE \E seg \in pieces : k \in InRange(seg)
    <3>1. k \in Keys /\ cur.lo <= k /\ k < cur.hi
      BY <2>3 DEF InRange
    <3>2. cur.lo \in Int64 /\ cur.hi \in Int64 /\ Factor \in Nat \ {0}
      BY HashDiffAssumption DEF TypeOK, Segment
    <3>3. PICK p \in SplitRange(cur.lo, cur.hi, Factor) : \A d : k \in InRange(Item(p, d))
      BY <3>1, <3>2, PiecesWait
    <3> QED BY <3>3
  <2> HIDE DEF pieces
  <2> QED BY <2>1, <2>2, <2>3, SettledOn DEF Waiting, InHand, InRange
<1>19. CASE SegmentsDone
  <2>1. /\ pc = "segment" /\ todo = {} /\ pc' = "commit"
        /\ UNCHANGED <<tab, touched, diffs, shards>>
    BY <1>19 DEF SegmentsDone, env, result
  <2>2. \A k \in StableDiff : Settled(k)
    BY <2>1 DEF CoverTrue, Waiting, InHand
  <2> QED BY <1>7, <2>1, <2>2
<1>20. CASE Commit \/ RecheckLeft \/ RecheckRight \/ Finalize \/ Emit
  <2>1. /\ pc \in shut /\ (pc' \in shut \/ Finished') /\ pc' \notin open
        /\ UNCHANGED <<tab, touched, diffs, shards>>
    BY <1>20 DEF Commit, RecheckLeft, RecheckRight, Finalize, Emit, env, result, Finished
  <2>2. \A k \in StableDiff : Settled(k)
    BY <2>1 DEF CoverTrue
  <2> QED BY <1>7, <2>1, <2>2
<1>21. ASSUME NEW s \in Side, OpenSnapshot(s) \/ FullChecksum(s) PROVE CoverTrue'
  <2>1. pc' \notin open /\ pc' \notin shut /\ pc # "done" /\ exit' = exit
    BY <1>21 DEF OpenSnapshot, FullChecksum, Checksum
  <2> QED BY <1>1, <2>1 DEF RecheckTrue, Finished
<1>22. ASSUME NEW s \in Side, NEW c \in 0 .. Segments, AggregateChunk(s, c) PROVE CoverTrue'
  <2>1. pc' \notin open /\ pc' \notin shut /\ pc # "done" /\ exit' = exit
    BY <1>22 DEF AggregateChunk
  <2> QED BY <1>1, <2>1 DEF RecheckTrue, Finished
<1>23. CASE FullMismatch /\ ~Snapshot
  <2>1. pc' \notin open /\ pc' \notin shut /\ pc # "done" /\ exit' = exit
    BY <1>23 DEF FullMismatch
  <2> QED BY <1>1, <2>1 DEF RecheckTrue, Finished
<1>24. ASSUME NEW s \in Side, SegmentChecksum(s) \/ FetchPage(s) PROVE CoverTrue'
  BY <1>3, <1>24 DEF SegmentChecksum, Checksum, FetchPage, env, result, EnvGrows
<1>25. CASE MergeRows
  BY <1>3, <1>25 DEF MergeRows, env, result, EnvGrows
<1> QED
  BY <1>2, <1>4, <1>5, <1>8, <1>9, <1>10, <1>12, <1>13, <1>14, <1>16, <1>17, <1>18, <1>19,
     <1>20, <1>21, <1>22, <1>23, <1>24, <1>25 DEF Next, Compare

(* No stable difference is out of sight. *)
CoverInv == SafeInv /\ RangesTrue /\ CoverTrue

LEMMA CoverInit == Init => CoverInv
<1> SUFFICES ASSUME Init PROVE CoverInv
  OBVIOUS
<1>1. SafeInv
  BY SafeInit
<1>2. pc = "idle" /\ exit = "none"
  BY DEF Init
<1> QED BY <1>1, <1>2 DEF CoverInv, RangesTrue, CoverTrue, Finished

LEMMA CoverKept ==
  ASSUME MaxInt \notin Keys, CoverInv, [Next]_vars
  PROVE  CoverInv'
<1>1. SafeInv'
  BY SafeStep DEF CoverInv
<1>2. TypeOK /\ SnapTrue /\ SumsTrue /\ MergeTrue /\ FileTrue /\ RecheckTrue /\ RangesTrue /\ CoverTrue
  BY DEF CoverInv, SafeInv, TypeInv
<1>3. RangesTrue' /\ CoverTrue'
  BY <1>2, RangesStep, CoverStep
<1> QED BY <1>1, <1>3 DEF CoverInv

(* A difference that was settled is confirmed: the recheck finds it again. *)
LEMMA SettledConfirmed ==
  ASSUME CoverInv, pc \in {"emit", "done"}, NEW k \in StableDiff, NEW d \in diffs, d.key = k
  PROVE  d \in Confirmed
<1>1. Recheck => StillDiffers(k)
  <2> SUFFICES ASSUME Recheck PROVE StillDiffers(k)
    OBVIOUS
  <2>1. rest = {} /\ batch = {} /\ late \subseteq touched
    BY DEF CoverInv, SafeInv, RecheckTrue
  <2>2. \A s \in Side : Tells(now[s], tab[s], DiffKeys, late)
    BY <2>1 DEF CoverInv, SafeInv, RecheckTrue, Asked, Committed
  <2>3. k \in Keys \ late /\ tab["left"][k] # tab["right"][k] /\ k \in DiffKeys
    BY <2>1 DEF StableDiff, DiffKeys
  <2>4. /\ tab["left"] \in Table /\ tab["right"] \in Table /\ DiffKeys \in SUBSET Keys
        /\ now["left"] \in SUBSET Row /\ now["right"] \in SUBSET Row
    BY DEF CoverInv, SafeInv, TypeInv, TypeOK, Side, DiffKeys, DiffType
  <2>5. ASSUME ~StillDiffers(k) PROVE FALSE
    <3>1. {r \in now["left"] : r[1] = k} = {r \in now["right"] : r[1] = k}
      BY <2>5 DEF StillDiffers
    <3>2. \A r \in Row : r[1] = k => (r \in now["left"] <=> r \in now["right"])
      BY <3>1
    <3>3. \A r \in Row : r[1] = k => (tab["left"][k] = r[2] <=> tab["right"][k] = r[2])
      BY <2>2, <2>3, <3>2 DEF Tells, Side
    <3>4. \A v \in Values : <<k, v>> \in Row /\ <<k, v>>[1] = k /\ <<k, v>>[2] = v
      BY <2>3 DEF Row
    <3>5. \A v \in Values : tab["left"][k] = v <=> tab["right"][k] = v
      BY <3>3, <3>4
    <3>6. tab["left"][k] \in Values \cup {Absent} /\ tab["right"][k] \in Values \cup {Absent}
      BY <2>3, <2>4 DEF Table, RowImage
    <3> QED BY <2>3, <3>5, <3>6
  <2> QED BY <2>5
<1> QED BY <1>1 DEF Confirmed

LEMMA SettledReported ==
  ASSUME CoverInv, Finished, NEW k \in StableDiff
  PROVE  k \in Reported \/ \E sh \in SkippedDiffs : k \in InRange(sh)
<1>1. Settled(k) /\ pc = "done"
  BY DEF CoverInv, CoverTrue, SafeInv, RecheckTrue
<1>2. ASSUME NEW d \in diffs, d.key = k PROVE k \in Reported
  BY <1>1, <1>2, SettledConfirmed DEF Reported
<1> QED BY <1>1, <1>2 DEF Settled

(* No difference is lost: a key on which the sides differ, and which nobody *)
(* wrote since the job began, is reported, or lies in a segment that the   *)
(* checkpoint made the run skip; for all keys but MaxInt, beyond which the *)
(* key domain cannot reach (hash_diff.rs:108-211, 372-508).                *)
THEOREM FindsStableDifferences ==
  ASSUME MaxInt \notin Keys
  PROVE  Spec => []StableDifferenceFound
<1>1. Init => CoverInv
  BY CoverInit
<1>2. CoverInv /\ [Next]_vars => CoverInv'
  BY CoverKept
<1>3. CoverInv => StableDifferenceFound
  BY SettledReported DEF StableDifferenceFound
<1> QED BY <1>1, <1>2, <1>3, PTL DEF Spec

-----------------------------------------------------------------------------
(* The contract.  A key the run withholds lies in a segment that an earlier *)
(* run recorded as differing and that this run has not merged itself.      *)
Withheld == UNION {InRange(e) : e \in InheritedDiffs}

HeldTrue ==
  /\ \A sh \in shards : sh.status = "Diff" =>
       \A k \in StableDiff : k \in InRange(sh) => \E d \in diffs : d.key = k
  /\ \A sh \in SkippedDiffs : \A k \in StableDiff :
       k \in InRange(sh) => k \in Withheld \/ \E d \in diffs : d.key = k

(* A checkpoint is left behind only by a run that failed.                  *)
LeftTrue ==
  /\ pc \in Idle /\ file.header # "none" => exit \in {"error", "killed"}
  /\ pc = "emit" => file.header = "none"

LEMMA LeftStep ==
  ASSUME TypeOK, FileTrue, LeftTrue, [Next]_vars
  PROVE  LeftTrue'
<1>1. CASE Compare /\ ~Emit /\ ~Finalize /\ ~DepthExceeded
  <2>1. pc' \notin Idle /\ pc' # "emit"
    BY <1>1
       DEF Compare, OpenSnapshot, KeyRange, FullChecksum, SegmentChecksum, Checksum, FullMatch,
         SegmentMatch, Match, FullMismatch, AggregateChunk, AllAggregated, SkipSegment, TakeSegment,
         StartMerge, Mismatch, Split, FetchPage, MergeRows, FinishMerge, SegmentsDone,
         Commit, RecheckLeft, RecheckRight, Idle
  <2> QED BY <2>1 DEF LeftTrue
<1>2. CASE Finalize
  BY <1>2 DEF Finalize, NoFile, LeftTrue, Idle
<1>3. CASE Emit
  BY <1>3 DEF Emit, LeftTrue, disk
<1>4. CASE Start
  BY <1>4 DEF Start, LeftTrue, Idle
<1>5. CASE StartRefused \/ StartTornHeader \/ Abort \/ TornRecord \/ DepthExceeded
  <2>1. exit' \in {"error", "killed"} /\ pc' = "done"
    BY <1>5 DEF StartRefused, StartTornHeader, Abort, TornRecord, DepthExceeded, Stopped
  <2> QED BY <2>1 DEF LeftTrue
<1>6. CASE UNCHANGED vars
  BY <1>6 DEF vars, disk, LeftTrue
<1>7. ASSUME NEW s \in Side, NEW k \in Keys, NEW r \in RowImage, Write(s, k, r) PROVE LeftTrue'
  BY <1>7 DEF Write, disk, LeftTrue
<1> QED BY <1>1, <1>2, <1>3, <1>4, <1>5, <1>6, <1>7 DEF Next

(* Only a run's own merge or match takes a segment off what is withheld,   *)
(* and nothing puts one on.                                                *)
LEMMA RecordWithholds ==
  ASSUME TypeOK, NEW e, RecordCheckpoint(e), NEW sh, shards' = shards \cup {sh},
         sh.lo = e.lo, sh.hi = e.hi, sh.status = "Diff" \/ e.dc = 0
  PROVE  /\ Withheld' \subseteq Withheld
         /\ \A k \in Withheld : k \in Withheld' \/ k \in InRange(e)
<1>1. completed' \subseteq completed \cup {e}
  BY DEF RecordCheckpoint, Put
<1>2. e \notin InheritedDiffs'
  BY DEF InheritedDiffs
<1>3. InheritedDiffs' \subseteq InheritedDiffs
  BY <1>1, <1>2 DEF InheritedDiffs
<1>4. ASSUME NEW x \in InheritedDiffs, x.lo # e.lo \/ x.hi # e.hi PROVE x \in InheritedDiffs'
  <2>1. x \in completed /\ x.dc > 0 /\ \A y \in shards : y.status = "Diff" => <<y.lo, y.hi>> # <<x.lo, x.hi>>
    BY DEF InheritedDiffs
  <2>2. x \in completed'
    BY <1>4, <2>1 DEF RecordCheckpoint, Put
  <2>3. <<sh.lo, sh.hi>> # <<x.lo, x.hi>>
    BY <1>4
  <2> QED BY <2>1, <2>2, <2>3 DEF InheritedDiffs
<1>5. \A x : InRange(x)' = InRange(x)
  BY DEF InRange
<1>6. Withheld' \subseteq Withheld
  BY <1>3, <1>5 DEF Withheld
<1>7. ASSUME NEW k \in Withheld, k \notin InRange(e) PROVE k \in Withheld'
  <2>1. PICK x \in InheritedDiffs : k \in InRange(x)
    BY DEF Withheld
  <2>2. x.lo # e.lo \/ x.hi # e.hi
    BY <1>7, <2>1 DEF InRange
  <2> QED BY <1>4, <1>5, <2>1, <2>2 DEF Withheld
<1> QED BY <1>6, <1>7

LEMMA HeldOn ==
  ASSUME HeldTrue, EnvGrows, UNCHANGED <<shards, completed>>, diffs \subseteq diffs'
  PROVE  HeldTrue' /\ Withheld' = Withheld
<1>1. InheritedDiffs' = InheritedDiffs /\ \A x : InRange(x)' = InRange(x)
  BY DEF InheritedDiffs, InRange
<1>2. Withheld' = Withheld /\ SkippedDiffs' = SkippedDiffs
  BY <1>1 DEF Withheld, SkippedDiffs
<1>3. StableDiff' \subseteq StableDiff
  BY StableShrinks
<1> QED BY <1>1, <1>2, <1>3 DEF HeldTrue

LEMMA HeldShard ==
  ASSUME TypeOK, HeldTrue, UNCHANGED <<tab, touched>>, diffs \subseteq diffs',
         NEW e, RecordCheckpoint(e), NEW sh, shards' = shards \cup {sh},
         sh.lo = e.lo, sh.hi = e.hi, sh.status # "Skipped", sh.status = "Diff" \/ e.dc = 0,
         \A k \in StableDiff : k \in InRange(e) => \E d \in diffs' : d.key = k
  PROVE  HeldTrue' /\ Withheld' \subseteq Withheld
<1>1. Withheld' \subseteq Withheld /\ \A k \in Withheld : k \in Withheld' \/ k \in InRange(e)
  BY RecordWithholds
<1>2. StableDiff' = StableDiff /\ SkippedDiffs' = SkippedDiffs
  BY DEF StableDiff, SkippedDiffs
<1>3. (\A x : InRange(x)' = InRange(x)) /\ InRange(sh) = InRange(e)
  BY DEF InRange
<1>4. ASSUME NEW x \in shards', x.status = "Diff", NEW k \in StableDiff, k \in InRange(x)
      PROVE  \E d \in diffs' : d.key = k
  BY <1>3, <1>4 DEF HeldTrue
<1>5. ASSUME NEW x \in SkippedDiffs, NEW k \in StableDiff, k \in InRange(x)
      PROVE  k \in Withheld' \/ \E d \in diffs' : d.key = k
  <2>1. k \in Withheld \/ \E d \in diffs : d.key = k
    BY <1>5 DEF HeldTrue
  <2> QED BY <1>1, <2>1
<1> QED BY <1>1, <1>2, <1>3, <1>4, <1>5 DEF HeldTrue

(* What a skipped segment leaves out is withheld, or merged already. *)
LEMMA HeldSkip ==
  ASSUME HeldTrue, UNCHANGED <<tab, touched, diffs, completed>>,
         NEW seg, NEW e \in Completed(seg),
         shards' = shards \cup {Shard(seg, e.lc, e.rc, e.dc, "Skipped")}
  PROVE  HeldTrue' /\ Withheld' = Withheld
<1> DEFINE sh == Shard(seg, e.lc, e.rc, e.dc, "Skipped")
<1>1. /\ e \in completed /\ sh.lo = e.lo /\ sh.hi = e.hi /\ sh.dc = e.dc
      /\ sh.status = "Skipped" /\ shards' = shards \cup {sh}
  BY DEF Completed, Shard
<1> HIDE DEF sh
<1>2. (\A x : InRange(x)' = InRange(x)) /\ InRange(sh) = InRange(e)
  BY <1>1 DEF InRange
<1>3. InheritedDiffs' = InheritedDiffs
  BY <1>1 DEF InheritedDiffs
<1>4. Withheld' = Withheld /\ StableDiff' = StableDiff /\ SkippedDiffs' \subseteq SkippedDiffs \cup {sh}
  BY <1>1, <1>2, <1>3 DEF Withheld, StableDiff, SkippedDiffs
<1>5. ASSUME NEW k \in StableDiff, k \in InRange(e), e.dc > 0
      PROVE  k \in Withheld \/ \E d \in diffs : d.key = k
  <2>1. CASE e \in InheritedDiffs
    BY <1>5, <2>1 DEF Withheld
  <2>2. CASE e \notin InheritedDiffs
    <3>1. PICK x \in shards : x.status = "Diff" /\ <<x.lo, x.hi>> = <<e.lo, e.hi>>
      BY <1>1, <1>5, <2>2 DEF InheritedDiffs
    <3>2. k \in InRange(x)
      BY <1>5, <3>1 DEF InRange
    <3> QED BY <3>1, <3>2 DEF HeldTrue
  <2> QED BY <2>1, <2>2
<1>6. ASSUME NEW x \in SkippedDiffs', NEW k \in StableDiff, k \in InRange(x)
      PROVE  k \in Withheld \/ \E d \in diffs : d.key = k
  <2>1. CASE x \in SkippedDiffs
    BY <1>6, <2>1 DEF HeldTrue
  <2>2. CASE x = sh
    <3>1. e.dc > 0
      BY <1>1, <1>6, <2>2 DEF SkippedDiffs
    <3> QED BY <1>2, <1>5, <1>6, <2>2, <3>1
  <2> QED BY <1>4, <2>1, <2>2
<1>7. \A x \in shards' : x.status = "Diff" => x \in shards
  BY <1>1
<1> QED BY <1>2, <1>4, <1>6, <1>7 DEF HeldTrue

LEMMA HeldStep ==
  ASSUME TypeOK, SumsTrue, MergeTrue, HeldTrue, [Next]_vars
  PROVE  HeldTrue' /\ (pc \notin Idle /\ pc' \notin Idle => Withheld' \subseteq Withheld)
<1>1. CASE Start \/ StartRefused \/ StartTornHeader \/ Abort \/ TornRecord \/ DepthExceeded
  <2>1. shards' = {} /\ (pc \in Idle \/ pc' \in Idle)
    BY <1>1 DEF Start, StartRefused, StartTornHeader, Abort, TornRecord, DepthExceeded, Stopped,
                Restarted, Idle
  <2> QED BY <2>1 DEF HeldTrue, SkippedDiffs
<1>2. CASE FullMatch \/ SegmentMatch
  <2>1. PICK seg, next : Match(seg, next) /\ InRange(seg) = Covered
    BY <1>2 DEF FullMatch, SegmentMatch, Covered
  <2> DEFINE sh == Shard(seg, Count("left"), Count("right"), 0, "Match")
             e == Entry(seg, Count("left"), Count("right"), 0)
  <2>2. shards' = shards \cup {sh} /\ RecordCheckpoint(e) /\ UNCHANGED <<tab, touched, diffs>>
    BY <2>1 DEF Match, env
  <2>3. sh.lo = e.lo /\ sh.hi = e.hi /\ sh.status = "Match" /\ e.dc = 0 /\ InRange(e) = InRange(seg)
    BY DEF Shard, Entry, InRange
  <2> HIDE DEF sh, e
  <2>4. \A k \in StableDiff : k \notin InRange(e)
    BY <2>1, <2>3, NotAgree DEF Match
  <2> QED BY <2>2, <2>3, <2>4, HeldShard
<1>3. CASE FinishMerge
  <2> DEFINE n == Cardinality(found)
             sh == Shard(cur, Count("left"), Count("right"), n, "Diff")
             e == Entry(cur, Count("left"), Count("right"), n)
  <2>1. /\ Merged /\ diffs' = diffs \cup found /\ shards' = shards \cup {sh} /\ RecordCheckpoint(e)
        /\ UNCHANGED <<tab, touched>>
    BY <1>3 DEF FinishMerge, env
  <2>2. sh.lo = e.lo /\ sh.hi = e.hi /\ sh.status = "Diff" /\ InRange(e) = InRange(cur)
    BY DEF Shard, Entry, InRange
  <2> HIDE DEF sh, e
  <2>3. ASSUME NEW k \in StableDiff, k \in InRange(e) PROVE \E d \in diffs' : d.key = k
    <3>1. k \in InRange(cur) \ touched /\ ~Same(k)
      BY <2>2, <2>3 DEF StableDiff, Same
    <3> QED BY <2>1, <3>1, MergeComplete
  <2> QED BY <2>1, <2>2, <2>3, HeldShard
<1>4. ASSUME NEW seg \in todo, SkipSegment(seg)
      PROVE  HeldTrue' /\ Withheld' \subseteq Withheld
  <2>1. PICK e \in Completed(seg) :
          shards' = shards \cup {Shard(seg, e.lc, e.rc, e.dc, "Skipped")}
    BY <1>4 DEF SkipSegment
  <2>2. UNCHANGED <<tab, touched, diffs, completed>>
    BY <1>4 DEF SkipSegment, env, disk
  <2> QED BY <2>1, <2>2, HeldSkip
<1>5. ASSUME EnvGrows, UNCHANGED <<shards, completed, diffs>>
      PROVE  HeldTrue' /\ Withheld' \subseteq Withheld
  BY <1>5, HeldOn
<1>6. ASSUME NEW s \in Side, NEW k \in Keys, NEW r \in RowImage, Write(s, k, r)
      PROVE  HeldTrue' /\ Withheld' \subseteq Withheld
  BY <1>5, <1>6, WriteGrows DEF Write, result, disk
<1>7. CASE UNCHANGED vars
  BY <1>5, <1>7 DEF vars, env, result, disk, EnvGrows
<1>8. ASSUME Compare, ~DepthExceeded, ~FullMatch, ~SegmentMatch, ~FinishMerge,
             ~\E seg \in todo : SkipSegment(seg)
      PROVE  UNCHANGED <<tab, touched, shards, completed, diffs>>
  BY <1>8 DEF Compare, OpenSnapshot, KeyRange, FullChecksum, SegmentChecksum, Checksum,
         FullMismatch, AggregateChunk, AllAggregated, TakeSegment,
         StartMerge, Split, FetchPage, MergeRows, SegmentsDone,
         Commit, RecheckLeft, RecheckRight, Finalize, Emit, env, result, disk
<1>9. CASE Compare
  BY <1>1, <1>2, <1>3, <1>4, <1>5, <1>8, <1>9 DEF EnvGrows
<1> QED BY <1>1, <1>6, <1>7, <1>9 DEF Next

(* What is needed to map every step to one of the contract's. *)
RefineInv == CoverInv /\ HeldTrue /\ LeftTrue

LEMMA RefineInit == Init => RefineInv
<1> SUFFICES ASSUME Init PROVE RefineInv
  OBVIOUS
<1>1. pc = "idle" /\ file = NoFile /\ shards = {}
  BY DEF Init
<1> QED BY <1>1, CoverInit DEF RefineInv, HeldTrue, LeftTrue, SkippedDiffs, NoFile

LEMMA RefineKept ==
  ASSUME MaxInt \notin Keys, RefineInv, [Next]_vars
  PROVE  RefineInv'
<1>1. TypeOK /\ SumsTrue /\ MergeTrue /\ FileTrue /\ CoverInv /\ HeldTrue /\ LeftTrue
  BY DEF RefineInv, CoverInv, SafeInv, TypeInv
<1> QED BY <1>1, CoverKept, HeldStep, LeftStep DEF RefineInv

(* The refinement mapping, as DiffContract's variables. *)
Phase == IF pc \in Idle THEN pc ELSE "running"
Held == IF pc \in Idle THEN {} ELSE Withheld

LEMMA NothingReported == ASSUME ~Finished PROVE Reported = {}
BY DEF Reported

LEMMA ContractInit == Init => Contract!Init
<1> SUFFICES ASSUME Init PROVE Contract!Init
  OBVIOUS
<1>1. /\ tab \in InitialTables /\ touched = {} /\ pc = "idle" /\ exit = "none"
  BY DEF Init
<1>2. tab \in [Side -> [Keys -> RowImage]]
  BY <1>1, HashDiffAssumption DEF Table
<1>3. Reported = {} /\ Phase = "idle" /\ Held = {}
  BY <1>1 DEF Finished, Reported, Idle, Phase, Held
<1> QED BY <1>1, <1>2, <1>3 DEF Contract!Init, Contract!Side, Side, Phase, Held, Withheld

LEMMA ContractWrite ==
  ASSUME NEW s \in Side, NEW k \in Keys, NEW r \in RowImage, Write(s, k, r)
  PROVE  Contract!Write
<1>1. /\ tab' = [tab EXCEPT ![s][k] = r] /\ touched' = touched \cup {k}
      /\ UNCHANGED <<mode, pc, exit, diffs, now, shards, completed>>
  BY DEF Write, result, recheck, disk
<1>2. Reported' = Reported
  BY <1>1 DEF Reported, Finished, Confirmed, Recheck, StillDiffers
<1>3. InheritedDiffs' = InheritedDiffs /\ \A x : InRange(x)' = InRange(x)
  BY <1>1 DEF InheritedDiffs, InRange
<1>4. Phase' = Phase /\ Held' = Held
  BY <1>1, <1>3 DEF Phase, Held, Withheld
<1> QED BY <1>1, <1>2, <1>4 DEF Contract!Write, Contract!Side, Side, Phase, Held, Withheld

LEMMA ContractStutter ==
  ASSUME UNCHANGED vars
  PROVE  UNCHANGED Contract!cvars
<1>1. UNCHANGED <<mode, tab, touched, pc, exit, diffs, now, shards, completed>>
  BY DEF vars, env, result, recheck, disk
<1>2. Reported' = Reported
  BY <1>1 DEF Reported, Finished, Confirmed, Recheck, StillDiffers
<1>3. InheritedDiffs' = InheritedDiffs /\ \A x : InRange(x)' = InRange(x)
  BY <1>1 DEF InheritedDiffs, InRange
<1>4. Phase' = Phase /\ Held' = Held
  BY <1>1, <1>3 DEF Phase, Held, Withheld
<1> QED BY <1>1, <1>2, <1>4 DEF Contract!cvars, Phase, Held, Withheld

LEMMA ContractBegin ==
  ASSUME RefineInv, Start
  PROVE  Contract!Begin
<1>1. /\ pc \in Idle /\ pc' \notin Idle /\ exit' = "none" /\ UNCHANGED tab
      /\ touched' = IF file.header = "none" THEN {} ELSE touched
      /\ completed' = file.recs
  BY DEF Start, Restarted, Idle
<1>2. Phase \in Idle /\ Phase' = "running" /\ Held' = Withheld' /\ Reported' = {}
  BY <1>1 DEF Phase, Held, Reported, Finished
<1>3. Withheld' \in SUBSET Keys
  BY DEF Withheld, InRange
<1>4. CASE file.header = "none"
  <2>1. completed' = {} /\ touched' = {}
    BY <1>1, <1>4 DEF RefineInv, CoverInv, SafeInv, FileTrue
  <2>2. Withheld' = {}
    BY <2>1 DEF Withheld, InheritedDiffs
  <2> QED BY <1>1, <1>2, <2>1, <2>2 DEF Contract!Begin, Phase, Held, Withheld, Idle
<1>5. CASE file.header # "none"
  <2>1. exit \in {"error", "killed"} /\ touched' = touched
    BY <1>1, <1>5 DEF RefineInv, LeftTrue
  <2> QED BY <1>1, <1>2, <1>3, <2>1 DEF Contract!Begin, Phase, Held, Withheld, Idle
<1> QED BY <1>4, <1>5

LEMMA ContractRefuse ==
  ASSUME StartRefused \/ StartTornHeader
  PROVE  Contract!Refuse
<1>1. /\ pc \in Idle /\ pc' = "done" /\ exit' = "error" /\ UNCHANGED tab
      /\ touched' \in {{}, touched}
  BY DEF StartRefused, StartTornHeader, Restarted, Idle
<1>2. Phase \in Idle /\ Phase' = "done" /\ Held' = {} /\ Reported' = {}
  BY <1>1 DEF Phase, Held, Reported, Finished, Idle
<1> QED BY <1>1, <1>2 DEF Contract!Refuse, Phase, Held, Withheld, Idle

(* While a run works it has told nothing yet. *)
LEMMA RunsSilently ==
  ASSUME RefineInv, pc \notin Idle
  PROVE  Phase = "running" /\ Held = Withheld /\ ~Finished /\ Reported = {}
<1>1. ~Finished
  BY DEF RefineInv, CoverInv, SafeInv, RecheckTrue, Idle
<1> QED BY <1>1, NothingReported DEF Phase, Held

LEMMA ContractAbort ==
  ASSUME RefineInv, Abort \/ TornRecord \/ DepthExceeded
  PROVE  Contract!Abort
<1>1. /\ pc \notin Idle /\ pc' = "done" /\ exit' \in {"error", "killed"} /\ UNCHANGED <<tab, touched>>
  BY DEF Abort, TornRecord, DepthExceeded, Stopped, Restarted, Mismatch, Merged, Querying, Idle
<1>2. Phase = "running" /\ Phase' = "done" /\ Held' = {} /\ Reported = {} /\ Reported' = {}
  BY <1>1, RunsSilently DEF Phase, Held, Reported, Finished, Idle
<1> QED BY <1>1, <1>2 DEF Contract!Abort, Phase, Held, Withheld, Idle

LEMMA ContractLookAgain ==
  ASSUME RefineInv, pc \notin Idle, pc' \notin Idle, UNCHANGED <<tab, touched, exit>>,
         Withheld' \subseteq Withheld
  PROVE  Contract!LookAgain
<1>1. Phase = "running" /\ Held = Withheld /\ Reported = {} /\ ~Finished
  BY RunsSilently
<1>2. Phase' = "running" /\ Held' = Withheld' /\ Reported' = {}
  BY <1>1 DEF Phase, Held, Reported, Finished
<1> QED BY <1>1, <1>2 DEF Contract!LookAgain, Phase, Held, Withheld, Idle

(* The verdict: what the report counts, and the exit code that goes with it. *)
LEMMA ContractReport ==
  ASSUME RefineInv, Emit
  PROVE  Contract!Report
<1> DEFINE d == {x.key : x \in Confirmed}
<1>1. /\ pc = "emit" /\ pc' = "done" /\ exit' = IF HasDiff THEN "diff" ELSE "identical"
      /\ UNCHANGED <<mode, tab, touched, diffs, now>>
  BY DEF Emit, env, result, recheck
<1>2. Phase = "running" /\ Phase' = "done" /\ Held = Withheld /\ Held' = {}
  BY <1>1, RunsSilently DEF Phase, Held, Idle
<1>3. Confirmed' = Confirmed
  BY <1>1 DEF Confirmed, Recheck, StillDiffers
<1>4. Reported' = d
  BY <1>1, <1>3 DEF Reported, Finished
<1>5. Confirmed \subseteq diffs /\ \A x \in diffs : x.key \in Keys
  BY DEF Confirmed, RefineInv, CoverInv, SafeInv, TypeInv, TypeOK, DiffType
<1>6. d \in SUBSET Keys
  BY <1>5
<1>7. exit' = IF d = {} THEN "identical" ELSE "diff"
  BY <1>1 DEF HasDiff
<1>8. ASSUME NEW k \in StableDiff PROVE k \in d \/ k \in Withheld
  <2>1. PICK y : (y \in diffs /\ y.key = k) \/ k \in Withheld
    <3>1. Settled(k)
      BY <1>1 DEF RefineInv, CoverInv, CoverTrue
    <3>2. ASSUME NEW sh \in SkippedDiffs, k \in InRange(sh)
          PROVE  k \in Withheld \/ \E x \in diffs : x.key = k
      BY <3>2 DEF RefineInv, HeldTrue
    <3> QED BY <3>1, <3>2 DEF Settled
  <2>2. CASE y \in diffs /\ y.key = k
    <3>1. y \in Confirmed
      BY <1>1, <2>2, SettledConfirmed DEF RefineInv
    <3> QED BY <2>2, <3>1
  <2> QED BY <2>1, <2>2
<1>9. StableSame \cap d = {}
  BY <1>5 DEF RefineInv, CoverInv, SafeInv, DiffsTrue, StableSame, Same
<1>10. Contract!StableDiff = StableDiff /\ Contract!StableSame = StableSame
  BY DEF Contract!StableDiff, Contract!StableSame, StableDiff, StableSame
<1> HIDE DEF d
<1>11. StableDiff \ Held \subseteq d
  BY <1>2, <1>8
<1> QED
  BY <1>1, <1>2, <1>4, <1>6, <1>7, <1>9, <1>10, <1>11 DEF Contract!Report, Phase, Held, Withheld,
     Idle

LEMMA ContractStep ==
  ASSUME RefineInv, RefineInv', [Next]_vars
  PROVE  [Contract!Next]_(Contract!cvars)
<1>1. TypeOK /\ SumsTrue /\ MergeTrue /\ HeldTrue
  BY DEF RefineInv, CoverInv, SafeInv, TypeInv
<1>2. pc \notin Idle /\ pc' \notin Idle => Withheld' \subseteq Withheld
  BY <1>1, HeldStep
<1>3. CASE Compare /\ ~Emit /\ ~DepthExceeded
  <2>1. pc \notin Idle /\ pc' \notin Idle /\ UNCHANGED <<tab, touched, exit>>
    BY <1>3
       DEF Compare, OpenSnapshot, KeyRange, FullChecksum, SegmentChecksum, Checksum, FullMatch,
         SegmentMatch, Match, FullMismatch, AggregateChunk, AllAggregated, SkipSegment, TakeSegment,
         StartMerge, Mismatch, Split, FetchPage, MergeRows, FinishMerge, Merged, SegmentsDone,
         Commit, RecheckLeft, RecheckRight, Finalize, Idle, env
  <2> QED BY <1>2, <2>1, ContractLookAgain DEF Contract!Next
<1>4. CASE Emit
  BY <1>4, ContractReport DEF Contract!Next
<1>5. CASE Abort \/ TornRecord \/ DepthExceeded
  BY <1>5, ContractAbort DEF Contract!Next
<1>6. CASE Start
  BY <1>6, ContractBegin DEF Contract!Next
<1>7. CASE StartRefused \/ StartTornHeader
  BY <1>7, ContractRefuse DEF Contract!Next
<1>8. ASSUME NEW s \in Side, NEW k \in Keys, NEW r \in RowImage, Write(s, k, r)
      PROVE  Contract!Next
  BY <1>8, ContractWrite DEF Contract!Next
<1>9. CASE UNCHANGED vars
  BY <1>9, ContractStutter
<1> QED BY <1>3, <1>4, <1>5, <1>6, <1>7, <1>8, <1>9 DEF Next

(* Every behaviour of a job, seen through its exit code and the keys it    *)
(* reports, is one the contract of delta-diff allows: a run that ends with *)
(* a verdict has reported every stable difference it does not withhold,    *)
(* and no stable agreement; `identical' is said exactly when nothing is    *)
(* counted; only a job resumed after a failure withholds anything          *)
(* (mod.rs:481-504, hash_diff.rs:72-217).                                  *)
THEOREM ImplementsContract ==
  ASSUME MaxInt \notin Keys
  PROVE  Spec => ContractSpec
<1>1. Init => RefineInv /\ Contract!Init
  BY RefineInit, ContractInit
<1>2. RefineInv /\ [Next]_vars => RefineInv'
  BY RefineKept
<1>3. RefineInv /\ RefineInv' /\ [Next]_vars => [Contract!Next]_(Contract!cvars)
  BY ContractStep
<1> QED BY <1>1, <1>2, <1>3, PTL DEF Spec, ContractSpec, Contract!Spec

-----------------------------------------------------------------------------
(***************************************************************************)
(* A comparison under a snapshot is exact.                                 *)
(***************************************************************************)
(* What a statement shows of the rows under the keys ks. *)
LEMMA PresentKeys ==
  ASSUME NEW t, NEW ks
  PROVE  KeysOf(RowsOf(t, ks)) = {k \in ks : t[k] # Absent}
<1>1. ASSUME NEW k \in ks, t[k] # Absent PROVE k \in KeysOf(RowsOf(t, ks))
  <2>1. <<k, t[k]>> \in RowsOf(t, ks)
    BY <1>1 DEF RowsOf
  <2> QED BY <2>1 DEF KeysOf
<1>2. ASSUME NEW k \in KeysOf(RowsOf(t, ks)) PROVE k \in ks /\ t[k] # Absent
  BY DEF KeysOf, RowsOf
<1> QED BY <1>1, <1>2

(* The rows of two tables compared under the keys ks. *)
DiffOf(t, u, ks) ==
  [key : {k \in ks : t[k] # Absent /\ u[k] = Absent}, status : {"missing_right"}]
    \cup [key : {k \in ks : t[k] = Absent /\ u[k] # Absent}, status : {"missing_left"}]
    \cup [key : {k \in ks : t[k] # Absent /\ u[k] # Absent /\ t[k] # u[k]}, status : {"modified"}]

LEMMA DiffRowsOf ==
  ASSUME NEW t, NEW u, NEW ks
  PROVE  DiffRows(RowsOf(t, ks), RowsOf(u, ks)) = DiffOf(t, u, ks)
<1>1. KeysOf(RowsOf(t, ks) \ RowsOf(u, ks)) = {k \in ks : t[k] # Absent /\ t[k] # u[k]}
  <2>1. ASSUME NEW k \in ks, t[k] # Absent, t[k] # u[k]
        PROVE  k \in KeysOf(RowsOf(t, ks) \ RowsOf(u, ks))
    <3>1. <<k, t[k]>> \in RowsOf(t, ks)
      BY <2>1 DEF RowsOf
    <3>2. <<k, t[k]>> \notin RowsOf(u, ks)
      BY <2>1 DEF RowsOf
    <3> QED BY <3>1, <3>2 DEF KeysOf
  <2>2. ASSUME NEW k \in KeysOf(RowsOf(t, ks) \ RowsOf(u, ks))
        PROVE  k \in ks /\ t[k] # Absent /\ t[k] # u[k]
    <3>1. PICK r \in RowsOf(t, ks) : r \notin RowsOf(u, ks) /\ r[1] = k
      BY DEF KeysOf
    <3>2. r = <<k, t[k]>> /\ k \in ks /\ t[k] # Absent
      BY <3>1 DEF RowsOf
    <3> QED BY <3>1, <3>2 DEF RowsOf
  <2> QED BY <2>1, <2>2
<1>2. KeysOf(RowsOf(t, ks)) = {k \in ks : t[k] # Absent}
      /\ KeysOf(RowsOf(u, ks)) = {k \in ks : u[k] # Absent}
  BY PresentKeys
<1>3. /\ KeysOf(RowsOf(t, ks)) \ KeysOf(RowsOf(u, ks)) = {k \in ks : t[k] # Absent /\ u[k] = Absent}
      /\ KeysOf(RowsOf(u, ks)) \ KeysOf(RowsOf(t, ks)) = {k \in ks : t[k] = Absent /\ u[k] # Absent}
      /\ KeysOf(RowsOf(t, ks) \ RowsOf(u, ks)) \cap KeysOf(RowsOf(u, ks))
           = {k \in ks : t[k] # Absent /\ u[k] # Absent /\ t[k] # u[k]}
  BY <1>1, <1>2
<1> QED BY <1>3 DEF DiffRows, DiffOf

LEMMA DiffOfUnion ==
  ASSUME NEW t, NEW u, NEW ks, NEW js
  PROVE  DiffOf(t, u, ks \cup js) = DiffOf(t, u, ks) \cup DiffOf(t, u, js)
<1>1. ASSUME NEW d
      PROVE  d \in DiffOf(t, u, ks \cup js) <=> d \in DiffOf(t, u, ks) \/ d \in DiffOf(t, u, js)
  BY DEF DiffOf
<1> QED BY <1>1

LEMMA DiffOfNone ==
  ASSUME NEW t, NEW u, NEW ks, RowsOf(t, ks) = RowsOf(u, ks)
  PROVE  DiffOf(t, u, ks) = {}
<1>1. DiffRows(RowsOf(t, ks), RowsOf(t, ks)) = {}
  BY DEF DiffRows, KeysOf
<1> QED BY <1>1, DiffRowsOf

(* Under the keys of which it has all, a part of a table shows it whole.   *)
LEMMA DiffOfWhole ==
  ASSUME NEW t, NEW u, NEW ks, NEW all, ks \subseteq all,
         \A k \in all : t[k] # Absent \/ u[k] # Absent => k \in ks
  PROVE  DiffOf(t, u, ks) = DiffOf(t, u, all)
<1>1. /\ {k \in ks : t[k] # Absent /\ u[k] = Absent} = {k \in all : t[k] # Absent /\ u[k] = Absent}
      /\ {k \in ks : t[k] = Absent /\ u[k] # Absent} = {k \in all : t[k] = Absent /\ u[k] # Absent}
      /\ {k \in ks : t[k] # Absent /\ u[k] # Absent /\ t[k] # u[k]}
           = {k \in all : t[k] # Absent /\ u[k] # Absent /\ t[k] # u[k]}
  OBVIOUS
<1> QED BY <1>1 DEF DiffOf

LEMMA RowsOfWhole ==
  ASSUME NEW t, NEW ks, NEW all, ks \subseteq all, \A k \in all : t[k] # Absent => k \in ks
  PROVE  RowsOf(t, ks) = RowsOf(t, all)
BY DEF RowsOf

-----------------------------------------------------------------------------
(* The rows of disjoint segments add up. *)
Over(S) == UNION {InRange(x) : x \in S}

LEMMA OverAdd ==
  ASSUME NEW S, NEW x
  PROVE  Over(S \cup {x}) = Over(S) \cup InRange(x) /\ Over(S) \in SUBSET Keys
BY DEF Over, InRange

LEMMA RowsOfSplit ==
  ASSUME NEW t \in Table, NEW ks \in SUBSET Keys, NEW js \in SUBSET Keys, ks \cap js = {}
  PROVE  Cardinality(RowsOf(t, ks \cup js)) = Cardinality(RowsOf(t, ks)) + Cardinality(RowsOf(t,
  js))
<1>1. RowsOf(t, ks \cup js) = RowsOf(t, ks) \cup RowsOf(t, js)
  BY DEF RowsOf
<1>2. RowsOf(t, ks) \cap RowsOf(t, js) = {}
  BY DEF RowsOf
<1>3. IsFiniteSet(RowsOf(t, ks)) /\ IsFiniteSet(RowsOf(t, js))
  BY RowsOfType
<1>4. Cardinality(RowsOf(t, ks) \cup RowsOf(t, js)) = Cardinality(RowsOf(t, ks))
        + Cardinality(RowsOf(t, js)) - Cardinality(RowsOf(t, ks) \cap RowsOf(t, js))
  BY <1>3, FS_Union
<1>5. Cardinality(RowsOf(t, ks)) \in Nat /\ Cardinality(RowsOf(t, js)) \in Nat
  BY <1>3, FS_CardinalityType
<1>6. Cardinality(RowsOf(t, ks) \cap RowsOf(t, js)) = 0
  BY <1>2, FS_EmptySet
<1>7. Cardinality(RowsOf(t, ks \cup js)) = Cardinality(RowsOf(t, ks) \cup RowsOf(t, js))
  BY <1>1
<1> DEFINE p == Cardinality(RowsOf(t, ks))
           q == Cardinality(RowsOf(t, js))
           both == Cardinality(RowsOf(t, ks) \cup RowsOf(t, js))
           none == Cardinality(RowsOf(t, ks) \cap RowsOf(t, js))
<1>8. p \in Nat /\ q \in Nat /\ none = 0 /\ both = p + q - none
  BY <1>4, <1>5, <1>6
<1>9. both = p + q
  <2> HIDE DEF p, q, both, none
  <2> QED BY <1>8
<1> QED BY <1>7, <1>9

LEMMA SumOfParts ==
  ASSUME NEW t \in Table, NEW S, IsFiniteSet(S), NEW w,
         \A x \in S : w[x] = Cardinality(RowsOf(t, InRange(x))),
         \A x, y \in S : x # y => InRange(x) \cap InRange(y) = {}
  PROVE  Total(w, S) = Cardinality(RowsOf(t, Over(S)))
<1> DEFINE Holds(T) == Total(w, T) = Cardinality(RowsOf(t, Over(T)))
           Bad == {n \in Nat : \E T \in SUBSET S : Cardinality(T) = n /\ ~Holds(T)}
<1>0. \A T \in SUBSET S : IsFiniteSet(T) /\ Cardinality(T) \in Nat
  BY FS_Subset, FS_CardinalityType
<1>1. SUFFICES ASSUME Bad # {} PROVE FALSE
  BY <1>0
<1>b. Bad \subseteq Nat
  OBVIOUS
<1>2. PICK m \in Bad : \A y \in Bad : m <= y
  <2> HIDE DEF Bad
  <2> QED BY <1>1, <1>b, LeastNat
<1>3. PICK T \in SUBSET S : Cardinality(T) = m /\ ~Holds(T)
  OBVIOUS
<1>4. T # {}
  <2>1. Over({}) = {} /\ RowsOf(t, {}) = {}
    BY DEF Over, RowsOf
  <2>2. Holds({})
    BY <2>1, TotalEmpty, FS_EmptySet
  <2> QED BY <1>3, <2>2
<1>5. PICK x \in T : x \in S
  BY <1>4
<1>6. Cardinality(T \ {x}) \in Nat /\ Cardinality(T \ {x}) = m - 1 /\ T \ {x} \in SUBSET S
  BY <1>0, <1>3, <1>5, Fewer
<1>7. ~(m <= m - 1) /\ m \in Nat
  OBVIOUS
<1>8. Holds(T \ {x})
  <2> HIDE DEF Holds
  <2> QED BY <1>2, <1>6, <1>7
<1>9. \A y \in S : w[y] \in Int
  BY InRangeKeys, RowsOfType, FS_CardinalityType
<1>10. Total(w, T) = w[x] + Total(w, T \ {x})
  BY <1>0, <1>5, <1>9, TotalRemove
<1>11. Over(T) = Over(T \ {x}) \cup InRange(x) /\ Over(T \ {x}) \in SUBSET Keys
  <2>1. T = (T \ {x}) \cup {x}
    BY <1>5
  <2> QED BY <2>1, OverAdd
<1>12. Over(T \ {x}) \cap InRange(x) = {}
  BY <1>5 DEF Over
<1>13. Cardinality(RowsOf(t, Over(T))) = Cardinality(RowsOf(t, Over(T \ {x}))) + Cardinality(RowsOf(t, InRange(x)))
  <2>1. InRange(x) \in SUBSET Keys
    BY InRangeKeys
  <2>2. Over(T \ {x}) \in SUBSET Keys /\ t \in Table
    BY <1>11
  <2>3. Cardinality(RowsOf(t, Over(T \ {x}) \cup InRange(x)))
          = Cardinality(RowsOf(t, Over(T \ {x}))) + Cardinality(RowsOf(t, InRange(x)))
    BY <2>1, <2>2, <1>12, RowsOfSplit
  <2>4. Over(T) = Over(T \ {x}) \cup InRange(x)
    BY <1>11
  <2> QED BY <2>3, <2>4
<1>14. Cardinality(RowsOf(t, Over(T \ {x}))) \in Nat /\ Cardinality(RowsOf(t, InRange(x))) \in Nat
  BY <1>11, InRangeKeys, RowsOfType, FS_CardinalityType
<1> DEFINE p == Cardinality(RowsOf(t, Over(T \ {x})))
           q == Cardinality(RowsOf(t, InRange(x)))
           all == Total(w, T)
           less == Total(w, T \ {x})
<1>15. all = q + less /\ less = p /\ all # p + q
  BY <1>3, <1>5, <1>8, <1>10, <1>13
<1>16. p \in Nat /\ q \in Nat
  BY <1>14
<1> HIDE DEF p, q, all, less
<1> QED BY <1>15, <1>16

(* The totals of the report. *)
LEMMA LeftTotal ==
  ASSUME NEW S, IsFiniteSet(S), \A sh \in S : sh.lc \in Int
  PROVE  MapThenSumSet(LAMBDA sh : sh.lc, S) = Total([sh \in S |-> sh.lc], S)
<1> DEFINE w == [sh \in S |-> sh.lc]
           Of(f) == f = [s \in SUBSET S |-> IF s = {} THEN 0 ELSE Pick(s).lc + f[s \ {Pick(s)}]]
<1>1. \A x \in S : w[x] \in Int /\ w[x] = x.lc
  OBVIOUS
<1> HIDE DEF w
<1>2. ASSUME NEW f PROVE Of(f) <=> Sums(f, w, S)
  <2>1. \A s \in SUBSET S : s # {} => w[Pick(s)] = Pick(s).lc
    BY <1>1, PickIn
  <2>2. [s \in SUBSET S |-> IF s = {} THEN 0 ELSE Pick(s).lc + f[s \ {Pick(s)}]]
          = [s \in SUBSET S |-> IF s = {} THEN 0 ELSE w[Pick(s)] + f[s \ {Pick(s)}]]
    BY <2>1
  <2> QED BY <2>2 DEF Sums
<1>3. PICK f : Sums(f, w, S)
  BY <1>1, SumsExist
<1>4. \E h : Of(h)
  BY <1>2, <1>3
<1>5. \E g : Of(g) /\ MapThenSumSet(LAMBDA sh : sh.lc, S) = g[S]
  BY <1>4 DEF MapThenSumSet, MapThenFoldSet, Pick
<1>6. PICK g : Sums(g, w, S) /\ MapThenSumSet(LAMBDA sh : sh.lc, S) = g[S]
  BY <1>2, <1>5
<1>7. S \in SUBSET S
  OBVIOUS
<1>8. Total(w, S) = g[S]
  BY <1>1, <1>6, <1>7, TotalIs
<1> QED BY <1>6, <1>8 DEF w

LEMMA RightTotal ==
  ASSUME NEW S, IsFiniteSet(S), \A sh \in S : sh.rc \in Int
  PROVE  MapThenSumSet(LAMBDA sh : sh.rc, S) = Total([sh \in S |-> sh.rc], S)
<1> DEFINE w == [sh \in S |-> sh.rc]
           Of(f) == f = [s \in SUBSET S |-> IF s = {} THEN 0 ELSE Pick(s).rc + f[s \ {Pick(s)}]]
<1>1. \A x \in S : w[x] \in Int /\ w[x] = x.rc
  OBVIOUS
<1> HIDE DEF w
<1>2. ASSUME NEW f PROVE Of(f) <=> Sums(f, w, S)
  <2>1. \A s \in SUBSET S : s # {} => w[Pick(s)] = Pick(s).rc
    BY <1>1, PickIn
  <2>2. [s \in SUBSET S |-> IF s = {} THEN 0 ELSE Pick(s).rc + f[s \ {Pick(s)}]]
          = [s \in SUBSET S |-> IF s = {} THEN 0 ELSE w[Pick(s)] + f[s \ {Pick(s)}]]
    BY <2>1
  <2> QED BY <2>2 DEF Sums
<1>3. PICK f : Sums(f, w, S)
  BY <1>1, SumsExist
<1>4. \E h : Of(h)
  BY <1>2, <1>3
<1>5. \E g : Of(g) /\ MapThenSumSet(LAMBDA sh : sh.rc, S) = g[S]
  BY <1>4 DEF MapThenSumSet, MapThenFoldSet, Pick
<1>6. PICK g : Sums(g, w, S) /\ MapThenSumSet(LAMBDA sh : sh.rc, S) = g[S]
  BY <1>2, <1>5
<1>7. S \in SUBSET S
  OBVIOUS
<1>8. Total(w, S) = g[S]
  BY <1>1, <1>6, <1>7, TotalIs
<1> QED BY <1>6, <1>8 DEF w

-----------------------------------------------------------------------------
(* What a run under a snapshot has judged.                                 *)
Running == {"rangeLeft", "rangeRight", "full", "segment", "sum", "merge", "commit"}
Early == {"idle", "snapLeft", "snapRight", "rangeLeft", "rangeRight", "full", "aggregate"}

Shown(s, ks) == RowsOf(View(s), ks)
NoneSkipped == \A sh \in shards : sh.status # "Skipped"
Judged == Over(shards)

(* Each session keeps the snapshot it has opened until the COMMIT. *)
Fixed ==
  Snapshot =>
    /\ pc \in Running => \A s \in Side : snap[s] = {View(s)}
    /\ pc = "snapRight" => snap["left"] = {View("left")}
    /\ pc # "aggregate"

(* The ends of the key domain and the checksums are those of the snapshots. *)
EndsExact ==
  Snapshot =>
    /\ pc \in {"rangeRight", "full"} => ends["left"] = EndsOf(KeysOf(Shown("left", Keys)))
    /\ pc = "full" => ends["right"] = EndsOf(KeysOf(Shown("right", Keys)))

SumsExact ==
  Snapshot /\ pc \in {"full", "sum", "merge"} =>
    \A s \in Side : \A R \in sums[s] : R = Shown(s, Covered)

(* A merge has listed the differences up to its frontier. *)
Upto(F) == {k \in InRange(cur) : k <= F}

FrontierExact(F) ==
  /\ \A s \in Side : F <= pos[s] \/ exhausted[s]
  /\ \A s \in Side : buf[s] = Shown(s, Ahead(s, F))
  /\ found = DiffOf(View("left"), View("right"), Upto(F))

MergeExact == Snapshot /\ pc = "merge" => \E F \in Int : FrontierExact(F)

LEMMA ModeKept == ASSUME [Next]_vars PROVE mode' = mode
BY DEF Next, Write, Start, StartRefused, StartTornHeader, Abort, TornRecord, Stopped, Restarted,
       Compare, OpenSnapshot, KeyRange, FullChecksum, SegmentChecksum, Checksum, FullMatch,
       SegmentMatch, Match, FullMismatch, AggregateChunk, AllAggregated, SkipSegment, TakeSegment,
       StartMerge, Split, DepthExceeded, FetchPage, MergeRows, FinishMerge, SegmentsDone,
       Commit, RecheckLeft, RecheckRight, Finalize, Emit, vars, env

LEMMA ViewOn ==
  ASSUME NEW s \in Side, snap[s] = {View(s)}, snap'[s] = snap[s]
  PROVE  View(s)' = View(s)
BY DEF View

LEMMA FixedStep ==
  ASSUME TypeOK, Fixed, [Next]_vars
  PROVE  Fixed'
<1>1. mode' = mode
  BY ModeKept
<1>2. ASSUME pc' \notin Running \cup {"snapRight", "aggregate"} PROVE Fixed'
  BY <1>2 DEF Fixed
<1>3. CASE ~Snapshot
  BY <1>1, <1>3 DEF Fixed, Snapshot
<1>4. ASSUME Snapshot, NEW s \in Side, OpenSnapshot(s) PROVE Fixed'
  <2>1. /\ pc = IF s = "left" THEN "snapLeft" ELSE "snapRight"
        /\ pc' = IF s = "left" THEN "snapRight" ELSE "rangeLeft"
        /\ snap'[s] = {tab[s]} /\ \A z \in Side \ {s} : snap'[z] = snap[z]
    BY <1>4 DEF OpenSnapshot, TypeOK
  <2>2. snap'[s] = {View(s)'}
    BY <2>1 DEF View
  <2>3. CASE s = "left"
    BY <2>1, <2>2, <2>3 DEF Fixed, Running
  <2>4. CASE s = "right"
    <3>1. snap["left"] = {View("left")} /\ snap'["left"] = snap["left"]
      BY <1>4, <2>1, <2>4 DEF Fixed, Side
    <3>2. View("left")' = View("left")
      BY <3>1, ViewOn DEF Side
    <3> QED BY <2>1, <2>2, <2>4, <3>1, <3>2 DEF Fixed, Side
  <2> QED BY <2>3, <2>4 DEF Side
<1>5. ASSUME Snapshot, snap' = snap, pc' = pc \/ (pc \in Running /\ pc' \in Running) PROVE Fixed'
  <2>1. \A s \in Side : snap[s] = {View(s)} => View(s)' = View(s)
    BY <1>5, ViewOn
  <2> QED BY <1>5, <2>1 DEF Fixed, Side, Running
<1>6. CASE UNCHANGED vars
  BY <1>3, <1>5, <1>6 DEF vars
<1>7. ASSUME NEW s \in Side, NEW k \in Keys, NEW r \in RowImage, Write(s, k, r) PROVE Fixed'
  BY <1>3, <1>5, <1>7 DEF Write
<1>8. CASE StartRefused \/ StartTornHeader \/ Abort \/ TornRecord \/ DepthExceeded
  BY <1>2, <1>8 DEF StartRefused, StartTornHeader, Abort, TornRecord, DepthExceeded, Stopped,
     Running
<1>9. ASSUME Start, Snapshot PROVE Fixed'
  BY <1>2, <1>9 DEF Start, Running
<1>10. ASSUME Snapshot, Compare, ~DepthExceeded, \A s \in Side : ~OpenSnapshot(s) PROVE Fixed'
  <2>1. pc # "aggregate"
    BY <1>10 DEF Fixed
  <2>2. \/ pc' \notin Running \cup {"snapRight", "aggregate"}
        \/ snap' = snap /\ (pc' = pc \/ (pc \in Running /\ pc' \in Running))
    BY <1>10, <2>1
     DEF Compare, KeyRange, FullChecksum, SegmentChecksum, Checksum, FullMatch,
         SegmentMatch, Match, FullMismatch, AggregateChunk, AllAggregated, SkipSegment, TakeSegment,
         StartMerge, Mismatch, Split, FetchPage, MergeRows, FinishMerge, Merged, SegmentsDone,
         Commit, RecheckLeft, RecheckRight, Finalize, Emit, Running
  <2> QED BY <1>2, <1>5, <1>10, <2>2
<1> QED BY <1>3, <1>4, <1>6, <1>7, <1>8, <1>9, <1>10 DEF Next, Compare

(* While the run compares, what it is shown stays the same. *)
LEMMA Stays ==
  ASSUME Fixed, Snapshot, pc \in Running, pc' \in Running, [Next]_vars
  PROVE  snap' = snap /\ Snapshot' /\ \A s \in Side : View(s)' = View(s)
<1>1. snap' = snap
  BY DEF Next, Write, Start, StartRefused, StartTornHeader, Abort, TornRecord, Stopped, Idle,
       Compare, OpenSnapshot, KeyRange, FullChecksum, SegmentChecksum, Checksum, FullMatch,
       SegmentMatch, Match, FullMismatch, AggregateChunk, AllAggregated, SkipSegment, TakeSegment,
       StartMerge, Split, DepthExceeded, FetchPage, MergeRows, FinishMerge, SegmentsDone,
       Commit, RecheckLeft, RecheckRight, Finalize, Emit, vars, Running
<1>2. Snapshot'
  BY ModeKept DEF Snapshot
<1> QED BY <1>1, <1>2, ViewOn DEF Fixed

LEMMA EndsExactStep ==
  ASSUME TypeOK, Fixed, EndsExact, [Next]_vars
  PROVE  EndsExact'
<1>1. ASSUME pc' \notin {"rangeRight", "full"} PROVE EndsExact'
  BY <1>1 DEF EndsExact
<1>2. SUFFICES ASSUME Snapshot, pc' \in {"rangeRight", "full"} PROVE EndsExact'
  BY <1>1, ModeKept DEF EndsExact, Snapshot
<1>3. pc \in Running
  BY <1>2
     DEF Next, Write, Start, StartRefused, StartTornHeader, Abort, TornRecord, Stopped,
       Compare, OpenSnapshot, KeyRange, FullChecksum, SegmentChecksum, Checksum, FullMatch,
       SegmentMatch, Match, FullMismatch, AggregateChunk, AllAggregated, SkipSegment, TakeSegment,
       StartMerge, Split, DepthExceeded, FetchPage, MergeRows, FinishMerge, SegmentsDone,
       Commit, RecheckLeft, RecheckRight, Finalize, Emit, vars, Running
<1>4. \A s \in Side : Shown(s, Keys)' = Shown(s, Keys)
  BY <1>2, <1>3, Stays DEF Shown, RowsOf, Running
<1>5. (\E s \in Side : KeyRange(s)) \/ (pc' = pc /\ ends' = ends)
  BY <1>2
     DEF Next, Write, Start, StartRefused, StartTornHeader, Abort, TornRecord, Stopped,
       Compare, OpenSnapshot, KeyRange, FullChecksum, SegmentChecksum, Checksum, FullMatch,
       SegmentMatch, Match, FullMismatch, AggregateChunk, AllAggregated, SkipSegment, TakeSegment,
       StartMerge, Split, DepthExceeded, FetchPage, MergeRows, FinishMerge, SegmentsDone,
       Commit, RecheckLeft, RecheckRight, Finalize, Emit, vars
<1>6. CASE pc' = pc /\ ends' = ends
  BY <1>2, <1>4, <1>6 DEF EndsExact, EndsOf, KeysOf, Side
<1>7. ASSUME NEW s \in Side, KeyRange(s) PROVE EndsExact'
  <2> DEFINE e == EndsOf(KeysOf(Shown(s, Keys)))
  <2>1. /\ ends' = [ends EXCEPT ![s] = e]
        /\ pc = IF s = "left" THEN "rangeLeft" ELSE "rangeRight"
        /\ s = "left" => pc' = "rangeRight"
    BY <1>7 DEF KeyRange, Shown
  <2>2. \A z \in Side : EndsOf(KeysOf(Shown(z, Keys)))' = EndsOf(KeysOf(Shown(z, Keys)))
    BY <1>4 DEF EndsOf, KeysOf
  <2> HIDE DEF e
  <2>3. ends'[s] = e /\ \A z \in Side \ {s} : ends'[z] = ends[z]
    BY <2>1 DEF TypeOK
  <2>4. CASE s = "left"
    BY <2>1, <2>2, <2>3, <2>4 DEF EndsExact, e
  <2>5. CASE s = "right"
    <3>1. ends'["left"] = ends["left"] /\ ends["left"] = EndsOf(KeysOf(Shown("left", Keys)))
      BY <1>2, <2>1, <2>3, <2>5 DEF EndsExact, Side
    <3> QED BY <2>2, <2>3, <2>5, <3>1 DEF EndsExact, Side, e
  <2> QED BY <2>4, <2>5 DEF Side
<1> QED BY <1>5, <1>6, <1>7

LEMMA ChecksumExact ==
  ASSUME TypeOK, SumsExact, Snapshot, NEW s \in Side, NEW seg, Checksum(s, seg),
         Covered = InRange(seg), pc \in {"full", "sum"}
  PROVE  SumsExact'
<1> DEFINE rows == Shown(s, Covered)
<1>1. sums' = [sums EXCEPT ![s] = {rows}] /\ UNCHANGED <<tab, snap, pc, ends, cur, mode>>
  BY DEF Checksum, env, Shown
<1> HIDE DEF rows
<1>2. Covered' = Covered /\ \A z \in Side : View(z)' = View(z)
  BY <1>1 DEF Covered, InRange, Domain, View
<1>3. \A z \in Side : Shown(z, Covered)' = Shown(z, Covered)
  BY <1>2 DEF Shown, RowsOf
<1>4. \A z \in Side : \A R \in sums'[z] : R \in sums[z] \/ (z = s /\ R = rows)
  BY <1>1 DEF TypeOK
<1> SUFFICES ASSUME NEW z \in Side, NEW R \in sums'[z] PROVE R = Shown(z, Covered)'
  BY DEF SumsExact
<1>5. R = Shown(z, Covered)
  BY <1>4 DEF SumsExact, rows
<1> QED BY <1>3, <1>5

LEMMA SumsExactStep ==
  ASSUME TypeOK, Fixed, SumsTrue, SumsExact, [Next]_vars
  PROVE  SumsExact'
<1>1. SUFFICES ASSUME Snapshot, pc' \in {"full", "sum", "merge"} PROVE SumsExact'
  BY ModeKept DEF SumsExact, Snapshot
<1>2. ASSUME sums' = Both({}) PROVE SumsExact'
  BY <1>2 DEF SumsExact, Both
<1>3. ASSUME NEW s \in Side, FullChecksum(s) PROVE SumsExact'
  BY <1>1, <1>3, ChecksumExact DEF FullChecksum, Covered
<1>4. ASSUME NEW s \in Side, SegmentChecksum(s) PROVE SumsExact'
  BY <1>1, <1>4, ChecksumExact DEF SegmentChecksum, Covered
<1>5. ASSUME NEW seg \in todo, TakeSegment(seg) PROVE SumsExact'
  BY <1>1, <1>2, <1>5 DEF TakeSegment, FromFirstPass
<1>6. ASSUME NEW s \in Side, KeyRange(s) PROVE SumsExact'
  BY <1>2, <1>6 DEF KeyRange, SumsTrue, work
<1>7. ASSUME UNCHANGED <<sums, ends, cur>>, pc \in {"full", "sum", "merge"},
             pc' = pc \/ (pc = "sum" /\ pc' = "merge")
      PROVE  SumsExact'
  <2>1. Covered' = Covered
    BY <1>7 DEF Covered, InRange, Domain
  <2>2. \A s \in Side : View(s)' = View(s)
    BY <1>1, <1>7, Stays DEF Running
  <2>3. \A s \in Side : Shown(s, Covered)' = Shown(s, Covered)
    BY <2>1, <2>2 DEF Shown, RowsOf
  <2> SUFFICES ASSUME NEW s \in Side, NEW R \in sums[s] PROVE R = Shown(s, Covered)'
    BY <1>7 DEF SumsExact
  <2>4. R = Shown(s, Covered)
    BY <1>1, <1>7 DEF SumsExact
  <2> QED BY <2>3, <2>4
<1>8. \/ \E s \in Side : FullChecksum(s) \/ SegmentChecksum(s) \/ KeyRange(s)
      \/ \E seg \in todo : TakeSegment(seg)
      \/ /\ UNCHANGED <<sums, ends, cur>> /\ pc \in {"full", "sum", "merge"}
         /\ pc' = pc \/ (pc = "sum" /\ pc' = "merge")
  <2>1. CASE Compare
    BY <1>1, <2>1
     DEF Compare, OpenSnapshot, FullMatch,
       SegmentMatch, Match, FullMismatch, AggregateChunk, AllAggregated, SkipSegment,
       StartMerge, Mismatch, Split, DepthExceeded, Stopped, FetchPage, MergeRows, FinishMerge,
       SegmentsDone,
       Commit, RecheckLeft, RecheckRight, Finalize, Emit
  <2>2. CASE ~Compare
    BY <1>1, <2>2
     DEF Next, Write, Start, StartRefused, StartTornHeader, Abort, TornRecord, Stopped, vars, work
  <2> QED BY <2>1, <2>2
<1> QED BY <1>3, <1>4, <1>5, <1>6, <1>7, <1>8

-----------------------------------------------------------------------------
LEMMA StartExact ==
  ASSUME TypeOK, StartMerge
  PROVE  MergeExact'
<1>1. PICK F \in Int : F = cur.lo - 1
  BY DEF TypeOK, Segment, Int64
<1>2. /\ buf' = Both({}) /\ pos' = Both(F) /\ exhausted' = Both(FALSE) /\ found' = {} /\ cur' = cur
  BY <1>1 DEF StartMerge
<1>3. cur.lo \in Int /\ \A k \in InRange(cur) : k \in Int /\ cur.lo <= k
  BY KeysInt DEF TypeOK, Segment, Int64, InRange
<1>4. InRange(cur)' = InRange(cur)
  BY <1>2 DEF InRange
<1>5. \A k \in InRange(cur) : ~(k <= F)
  BY <1>1, <1>3
<1>6. \A s \in Side : F <= pos'[s] /\ buf'[s] = {} /\ (pos'[s] = F /\ exhausted'[s] = FALSE)
  BY <1>1, <1>2 DEF Both
<1>7. (\A s \in Side : Ahead(s, F)' = {}) /\ Upto(F)' = {}
  BY <1>4, <1>5, <1>6 DEF Ahead, Upto
<1>8. \A s \in Side : Shown(s, Ahead(s, F))' = {}
  BY <1>7 DEF Shown, RowsOf
<1>9. DiffOf(View("left"), View("right"), Upto(F))' = {}
  BY <1>7 DEF DiffOf
<1>10. FrontierExact(F)'
  BY <1>2, <1>6, <1>8, <1>9 DEF FrontierExact
<1> QED BY <1>1, <1>10 DEF MergeExact

LEMMA FrontierExactKept ==
  ASSUME UNCHANGED <<cur, buf, pos, exhausted, found>>, \A s \in Side : View(s)' = View(s),
         NEW F \in Int, FrontierExact(F)
  PROVE  FrontierExact(F)'
<1>1. InRange(cur)' = InRange(cur)
  BY DEF InRange
<1>2. Upto(F)' = Upto(F) /\ \A s \in Side : Ahead(s, F)' = Ahead(s, F)
  BY <1>1 DEF Ahead, Upto
<1>3. \A s \in Side : Shown(s, Ahead(s, F))' = Shown(s, Ahead(s, F))
  BY <1>2 DEF Shown, RowsOf
<1>4. DiffOf(View("left"), View("right"), Upto(F))' = DiffOf(View("left"), View("right"), Upto(F))
  BY <1>2 DEF DiffOf, Side
<1> QED BY <1>3, <1>4 DEF FrontierExact

LEMMA FetchExact ==
  ASSUME TypeOK, NEW s \in Side, FetchPage(s), NEW F \in Int, FrontierExact(F)
  PROVE  FrontierExact(F)'
<1> DEFINE ahead == {k \in InRange(cur) : k > pos[s] /\ View(s)[k] # Absent}
           new(page) == RowsOf(View(s), page)
<1>1. PICK page \in SUBSET ahead :
        /\ IsFirst(page, ahead, PageSize)
        /\ buf' = [buf EXCEPT ![s] = new(page)]
        /\ pos' = [pos EXCEPT ![s] = Advanced(@, page)]
        /\ exhausted' = [exhausted EXCEPT ![s] = LastPage(page)]
  BY DEF FetchPage
<1>2. Starved(s) /\ UNCHANGED <<tab, snap, cur, found>>
  BY DEF FetchPage, env
<1>3. buf[s] = {} /\ ~exhausted[s] /\ pos[s] \in Int /\ F <= pos[s]
  BY <1>2 DEF Starved, TypeOK, FrontierExact
<1>4. ahead \in SUBSET Keys /\ page \in SUBSET Keys /\ InRange(cur)' = InRange(cur)
      /\ InRange(cur) \in SUBSET Keys
  BY <1>2, InRangeKeys DEF InRange
<1>5. \A z \in Side : View(z)' = View(z)
  BY <1>2 DEF View
<1>6. /\ buf'[s] = new(page) /\ pos'[s] = Advanced(pos[s], page) /\ exhausted'[s] = LastPage(page)
      /\ \A z \in Side \ {s} : buf'[z] = buf[z] /\ pos'[z] = pos[z] /\ exhausted'[z] = exhausted[z]
  BY <1>1 DEF TypeOK
<1>7. /\ pos'[s] \in Int /\ pos[s] <= pos'[s] /\ \A k \in page : k \in Int /\ k <= pos'[s]
  <2>1. page # {} => Max(page) \in page /\ \A k \in page : k <= Max(page)
    BY <1>4, KeysType, MaxInt64
  <2>2. \A k \in page : k \in Int /\ pos[s] < k
    BY <1>4, KeysInt, <1>3
  <2> QED BY <1>3, <1>6, <2>1, <2>2 DEF Advanced
<1>8. (\A z \in Side : F <= pos[z] \/ exhausted[z])'
  BY <1>3, <1>6, <1>7 DEF FrontierExact
<1>9. new(page) = RowsOf(View(s), Ahead(s, F)')
  <2>1. Ahead(s, F)' = {k \in InRange(cur) : k > F /\ (k <= pos'[s] \/ LastPage(page))}
    BY <1>4, <1>6 DEF Ahead
  <2>2. ASSUME NEW k \in page PROVE k \in Ahead(s, F)'
    <3>1. k \in InRange(cur) /\ k \in Int /\ k > pos[s] /\ k <= pos'[s]
      BY <1>1, <1>7
    <3> QED BY <1>3, <2>1, <3>1
  <2>3. ASSUME NEW k \in Ahead(s, F)', View(s)[k] # Absent PROVE k \in page
    <3>0. k \in InRange(cur) /\ k > F /\ (k <= pos'[s] \/ LastPage(page)) /\ k \in Keys
      BY <1>4, <2>1
    <3>a. k \in Int
      BY <3>0, KeysInt
    <3>1. CASE k <= pos[s]
      <4>1. k \in Ahead(s, F)
        BY <3>0, <3>1 DEF Ahead
      <4>2. <<k, View(s)[k]>> \in buf[s]
        BY <2>3, <4>1 DEF FrontierExact, Shown, RowsOf
      <4> QED BY <1>3, <4>2
    <3>2. CASE ~(k <= pos[s])
      <4>1. pos[s] < k /\ k > pos[s]
        BY <1>3, <3>a, <3>2
      <4>2. k \in ahead
        BY <2>3, <3>0, <4>1
      <4>3. LastPage(page) \/ k <= Advanced(pos[s], page)
        BY <1>6, <3>0
      <4> HIDE DEF ahead
      <4> QED BY <1>1, <1>3, <1>4, <4>1, <4>2, <4>3, PageWhole
    <3> QED BY <3>1, <3>2
  <2>4. page \subseteq Ahead(s, F)'
    BY <2>2
  <2> QED BY <2>3, <2>4, RowsOfWhole
<1>10. \A z \in Side \ {s} : Ahead(z, F)' = Ahead(z, F)
  BY <1>4, <1>6 DEF Ahead
<1>11. (\A z \in Side : buf[z] = Shown(z, Ahead(z, F)))'
  <2> SUFFICES ASSUME NEW z \in Side PROVE buf'[z] = Shown(z, Ahead(z, F))'
    OBVIOUS
  <2>1. CASE z = s
    <3>1. Shown(z, Ahead(z, F))' = RowsOf(View(s), Ahead(s, F)')
      BY <1>5, <2>1 DEF Shown, RowsOf
    <3> QED BY <1>6, <1>9, <2>1, <3>1
  <2>2. CASE z # s
    <3>1. Shown(z, Ahead(z, F))' = Shown(z, Ahead(z, F))
      BY <1>5, <1>10, <2>2 DEF Shown, RowsOf
    <3> QED BY <1>6, <2>2, <3>1 DEF FrontierExact
  <2> QED BY <2>1, <2>2
<1>12. (found = DiffOf(View("left"), View("right"), Upto(F)))'
  <2>1. Upto(F)' = Upto(F)
    BY <1>4 DEF Upto
  <2>2. DiffOf(View("left"), View("right"), Upto(F))' = DiffOf(View("left"), View("right"), Upto(F))
    BY <1>5, <2>1 DEF DiffOf, Side
  <2> QED BY <1>2, <2>2 DEF FrontierExact
<1> QED BY <1>8, <1>11, <1>12 DEF FrontierExact

LEMMA JudgesExact ==
  ASSUME TypeOK, MergeRows, NEW G \in Int, Frontier(G), NEW F \in Int, FrontierExact(F)
  PROVE  MergeExact'
<1>1. PICK lim \in Int : lim = MergeLimit /\ \A s \in Side : lim <= pos[s] \/ exhausted[s]
  BY LimitReached
<1> DEFINE ready(s) == {r \in buf[s] : r[1] <= lim}
           ks == {k \in InRange(cur) : k > F /\ k <= lim}
           new == DiffRows(ready("left"), ready("right"))
<1>2. /\ found' = found \cup new
      /\ \A s \in Side : buf'[s] = buf[s] \ ready(s)
      /\ UNCHANGED <<tab, snap, cur, pos, exhausted>>
  BY <1>1 DEF MergeRows, env, Side
<1>3. \A s \in Side : View(s)' = View(s)
  BY <1>2 DEF View
<1>4. InRange(cur) \in SUBSET Keys /\ \A k \in InRange(cur) : k \in Int
  BY InRangeKeys, KeysInt
<1>5. \A s \in Side : pos[s] \in Int
  BY DEF TypeOK
<1>6. ASSUME NEW s \in Side PROVE ready(s) = RowsOf(View(s), ks)
  <2>1. buf[s] = RowsOf(View(s), Ahead(s, F))
    BY DEF FrontierExact, Shown
  <2>2. ready(s) = RowsOf(View(s), {k \in Ahead(s, F) : k <= lim})
    BY <2>1 DEF RowsOf
  <2>3. {k \in Ahead(s, F) : k <= lim} = ks
    BY <1>1, <1>4, <1>5 DEF Ahead
  <2> QED BY <2>2, <2>3
<1>7. new = DiffOf(View("left"), View("right"), ks)
  <2>1. ready("left") = RowsOf(View("left"), ks) /\ ready("right") = RowsOf(View("right"), ks)
    BY <1>6 DEF Side
  <2> HIDE DEF ready, ks
  <2> QED BY <2>1, DiffRowsOf
<1>8. PICK H \in Int : H = IF lim > F THEN lim ELSE F
  BY <1>1
<1>9. InRange(cur)' = InRange(cur)
  BY <1>2 DEF InRange
<1>10. (\A s \in Side : H <= pos[s] \/ exhausted[s])'
  BY <1>1, <1>2, <1>8 DEF FrontierExact
<1>11. (\A s \in Side : buf[s] = Shown(s, Ahead(s, H)))'
  <2> SUFFICES ASSUME NEW s \in Side PROVE buf'[s] = Shown(s, Ahead(s, H))'
    OBVIOUS
  <2>1. Ahead(s, H)' = {k \in InRange(cur) : k > H /\ (k <= pos[s] \/ exhausted[s])}
    BY <1>2, <1>9 DEF Ahead
  <2>2. \A k \in InRange(cur) : k > H <=> k > F /\ ~(k <= lim)
    BY <1>1, <1>4, <1>8
  <2>3. {k \in Ahead(s, F) : ~(k <= lim)} = Ahead(s, H)'
    BY <2>1, <2>2 DEF Ahead
  <2>4. buf[s] \ ready(s) = RowsOf(View(s), {k \in Ahead(s, F) : ~(k <= lim)})
    <3>1. buf[s] = RowsOf(View(s), Ahead(s, F))
      BY DEF FrontierExact, Shown
    <3> QED BY <3>1 DEF RowsOf
  <2>5. Shown(s, Ahead(s, H))' = RowsOf(View(s), Ahead(s, H)')
    BY <1>3 DEF Shown, RowsOf
  <2> QED BY <1>2, <2>3, <2>4, <2>5
<1>12. (found = DiffOf(View("left"), View("right"), Upto(H)))'
  <2>1. Upto(H)' = Upto(F) \cup ks
    <3>1. \A k \in InRange(cur) : k <= H <=> k <= F \/ (k > F /\ k <= lim)
      BY <1>1, <1>4, <1>8
    <3> QED BY <1>9, <3>1 DEF Upto
  <2>2. DiffOf(View("left"), View("right"), Upto(H))' = DiffOf(View("left"), View("right"), Upto(H)')
    BY <1>3 DEF DiffOf, Side
  <2> HIDE DEF ks, new
  <2>3. DiffOf(View("left"), View("right"), Upto(F) \cup ks)
          = DiffOf(View("left"), View("right"), Upto(F)) \cup DiffOf(View("left"), View("right"), ks)
    BY DiffOfUnion
  <2> QED BY <1>2, <1>7, <2>1, <2>2, <2>3 DEF FrontierExact
<1>13. FrontierExact(H)'
  BY <1>10, <1>11, <1>12 DEF FrontierExact
<1> QED BY <1>8, <1>13 DEF MergeExact

LEMMA MergeExactStep ==
  ASSUME TypeOK, Fixed, MergeTrue, MergeExact, [Next]_vars
  PROVE  MergeExact'
<1>1. SUFFICES ASSUME Snapshot, pc' = "merge" PROVE MergeExact'
  BY ModeKept DEF MergeExact, Snapshot
<1>2. CASE StartMerge
  BY <1>2, StartExact
<1>3. ASSUME pc = "merge" PROVE \E F \in Int : FrontierExact(F)
  BY <1>1, <1>3 DEF MergeExact
<1>4. ASSUME NEW s \in Side, FetchPage(s) PROVE MergeExact'
  <2>1. PICK F \in Int : FrontierExact(F)
    BY <1>3, <1>4 DEF FetchPage
  <2> QED BY <1>4, <2>1, FetchExact DEF MergeExact
<1>5. CASE MergeRows
  <2>1. PICK F \in Int : FrontierExact(F)
    BY <1>3, <1>5 DEF MergeRows
  <2>2. PICK G \in Int : Frontier(G)
    BY <1>5 DEF MergeRows, MergeTrue
  <2> QED BY <1>5, <2>1, <2>2, JudgesExact
<1>6. ASSUME pc = "merge", UNCHANGED <<cur, buf, pos, exhausted, found>> PROVE MergeExact'
  <2>1. PICK F \in Int : FrontierExact(F)
    BY <1>3, <1>6
  <2>2. \A s \in Side : View(s)' = View(s)
    BY <1>1, <1>6, Stays DEF Running
  <2> QED BY <1>6, <2>1, <2>2, FrontierExactKept DEF MergeExact
<1>7. \/ StartMerge \/ MergeRows \/ (\E s \in Side : FetchPage(s))
      \/ pc = "merge" /\ UNCHANGED <<cur, buf, pos, exhausted, found>>
  <2>1. CASE Compare
    BY <1>1, <2>1
     DEF Compare, OpenSnapshot, KeyRange, FullChecksum, SegmentChecksum, Checksum, FullMatch,
       SegmentMatch, Match, FullMismatch, AggregateChunk, AllAggregated, SkipSegment, TakeSegment,
       Split, DepthExceeded, Stopped, FinishMerge, SegmentsDone,
       Commit, RecheckLeft, RecheckRight, Finalize, Emit
  <2>2. CASE ~Compare
    BY <1>1, <2>2
     DEF Next, Write, Start, StartRefused, StartTornHeader, Abort, TornRecord, Stopped, vars, work,
     cursors
  <2> QED BY <2>1, <2>2
<1> QED BY <1>2, <1>4, <1>5, <1>6, <1>7

-----------------------------------------------------------------------------
(* Before the domain is cut there is nothing to add up; from then on no    *)
(* key lies in two of the segments that wait, are in hand or are reported. *)
Fresh == pc \in Early => shards = {} /\ todo = {} /\ diffs = {}

Disjoint(x, y) == InRange(x) \cap InRange(y) = {}

Apart ==
  /\ IsFiniteSet(shards)
  /\ \A x, y \in todo : x # y => Disjoint(x, y)
  /\ \A x \in todo, sh \in shards : Disjoint(x, sh)
  /\ \A x, y \in shards : x # y => Disjoint(x, y)
  /\ pc \in {"sum", "merge"} => \A x \in todo \cup shards : Disjoint(x, cur)

LEMMA FreshStep ==
  ASSUME Fresh, [Next]_vars
  PROVE  Fresh'
<1>1. CASE Restarted
  BY <1>1 DEF Restarted, Fresh
<1>2. pc' \in Early => Restarted \/ (pc \in Early /\ UNCHANGED <<shards, todo, diffs>>)
  <2>1. CASE Compare
    BY <2>1
     DEF Compare, OpenSnapshot, KeyRange, FullChecksum, SegmentChecksum, Checksum, FullMatch,
       SegmentMatch, Match, FullMismatch, AggregateChunk, AllAggregated, SkipSegment, TakeSegment,
       StartMerge, Split, DepthExceeded, Stopped, FetchPage, MergeRows, FinishMerge, SegmentsDone,
       Commit, RecheckLeft, RecheckRight, Finalize, Emit, Early, work, result
  <2>2. CASE ~Compare
    BY <2>2
     DEF Next, Write, Start, StartRefused, StartTornHeader, Abort, TornRecord, Stopped, vars, work,
     result
  <2> QED BY <2>1, <2>2
<1> QED BY <1>1, <1>2 DEF Fresh

LEMMA ItemRange ==
  ASSUME NEW seg, NEW lc, NEW rc, NEW dc, NEW st
  PROVE  InRange(Shard(seg, lc, rc, dc, st)) = InRange(seg)
BY DEF InRange, Shard

(* The pieces of a segment have no key in common. *)
LEMMA PiecesApart ==
  ASSUME NEW lo \in Int64, NEW hi \in Int64, NEW n \in Nat, NEW d, NEW e,
         NEW p \in SplitRange(lo, hi, n), NEW q \in SplitRange(lo, hi, n), p # q
  PROVE  Disjoint(Item(p, d), Item(q, e))
<1>1. p[2] <= q[1] \/ q[2] <= p[1]
  BY SplitRangeDisjoint
<1>2. p[1] \in Int /\ p[2] \in Int /\ q[1] \in Int /\ q[2] \in Int
  BY SplitRangeType DEF Int64
<1>3. ASSUME NEW k \in InRange(Item(p, d)), k \in InRange(Item(q, e)) PROVE FALSE
  <2>1. p[1] <= k /\ k < p[2] /\ q[1] <= k /\ k < q[2] /\ k \in Keys
    BY <1>3 DEF InRange, Item
  <2>2. k \in Int
    BY <2>1, KeysInt
  <2> QED BY <1>1, <1>2, <2>1, <2>2
<1> QED BY <1>3 DEF Disjoint

(* A segment that is not small does not wrap: it is no longer than half    *)
(* the integers, so its pieces lie within it. *)
LEMMA SplitApart ==
  ASSUME TypeOK, ~SmallEnough, NEW p \in SplitRange(cur.lo, cur.hi, Factor), NEW d
  PROVE  InRange(Item(p, d)) \subseteq InRange(cur)
<1>1. cur.lo \in Int64 /\ cur.hi \in Int64 /\ Factor \in Nat
  BY HashDiffAssumption DEF TypeOK, Segment
<1>2. ~(Wrap(cur.hi - cur.lo) <= 1)
  BY DEF SmallEnough
<1>3. cur.lo < cur.hi
  <2>1. ~(cur.hi <= cur.lo)
    BY DEF SplitRange
  <2> QED BY <1>1, <2>1 DEF Int64
<1> DEFINE lo == cur.lo
           hi == cur.hi
<1>4. lo \in Int64 /\ hi \in Int64 /\ lo < hi /\ ~(Wrap(hi - lo) <= 1)
  BY <1>1, <1>2, <1>3
<1>5. hi - lo <= MaxInt
  <2> HIDE DEF lo, hi
  <2>1. lo \in Int /\ hi \in Int /\ -MaxInt - 1 <= lo /\ hi <= MaxInt /\ MaxInt \in Nat
    BY <1>4, MaxIntAssumption DEF Int64
  <2>2. PICK d1 \in Nat : d1 = hi - lo /\ d1 <= 2 * MaxInt + 1
    BY <1>4, <2>1
  <2>3. ASSUME ~(d1 <= MaxInt) PROVE FALSE
    <3>1. PICK x \in Nat : d1 = MaxInt + 1 + x /\ x <= MaxInt
      <4>1. d1 - MaxInt - 1 \in Nat /\ d1 = MaxInt + 1 + (d1 - MaxInt - 1) /\ d1 - MaxInt - 1 <= MaxInt
        BY <2>1, <2>2, <2>3
      <4> QED BY <4>1
    <3>2. d1 + MaxInt + 1 = x + Modulus /\ Modulus \in Nat \ {0} /\ x < Modulus
      BY <2>1, <3>1, MaxIntAssumption DEF Modulus
    <3>3. \A m \in Nat \ {0} : x < m => (x + m) % m = x
      BY <3>1
    <3>4. Wrap(d1) = x - MaxInt - 1
      BY <3>2, <3>3 DEF Wrap
    <3>5. x - MaxInt - 1 <= 1
      BY <2>1, <3>1
    <3> QED BY <1>4, <2>2, <3>4, <3>5
  <2> QED BY <2>2, <2>3
<1>6. lo <= p[1] /\ p[2] <= hi
  BY <1>1, <1>5, SplitRangeWithin
<1>7. p[1] \in Int /\ p[2] \in Int /\ lo \in Int /\ hi \in Int
  BY <1>1, SplitRangeType DEF Int64
<1> HIDE DEF lo, hi
<1>8. ASSUME NEW k \in Keys, p[1] <= k, k < p[2] PROVE lo <= k /\ k < hi
  BY <1>6, <1>7, <1>8, KeysInt
<1> QED BY <1>8 DEF InRange, Item, lo, hi

LEMMA ApartStep ==
  ASSUME TypeOK, DomainOK, Fresh, Apart, [Next]_vars
  PROVE  Apart'
<1> DEFINE open == {"sum", "merge"}
<1>0. ASSUME IsFiniteSet(shards'),
             \A x, y \in todo' : x # y => Disjoint(x, y),
             \A x \in todo', sh \in shards' : Disjoint(x, sh),
             \A x, y \in shards' : x # y => Disjoint(x, y),
             pc' \in open => \A x \in todo' \cup shards' : Disjoint(x, cur')
      PROVE  Apart'
  BY <1>0 DEF Apart, Disjoint, InRange
<1>s. \A x, y : Disjoint(x, y) <=> Disjoint(y, x)
  BY DEF Disjoint
<1>1. CASE Restarted /\ pc' \notin open
  BY <1>0, <1>1, FS_EmptySet DEF Restarted
<1>2. ASSUME UNCHANGED <<todo, shards>>, pc' \in open => pc \in open /\ cur' = cur
      PROVE  Apart'
  BY <1>2 DEF Apart, Disjoint, InRange
(* A segment becomes a shard. *)
<1>3. ASSUME NEW seg, NEW lc, NEW rc, NEW dc, NEW st, todo' \subseteq todo,
             shards' = shards \cup {Shard(seg, lc, rc, dc, st)}, pc' \notin open,
             \A x \in todo' \cup shards : Disjoint(x, seg)
      PROVE  Apart'
  <2> DEFINE sh == Shard(seg, lc, rc, dc, st)
  <2>1. \A x \in todo' \cup shards : Disjoint(x, sh)
    BY <1>3, ItemRange DEF Disjoint
  <2>2. IsFiniteSet(shards')
    BY <1>3, FS_AddElement DEF Apart
  <2> HIDE DEF sh
  <2>3. shards' = shards \cup {sh}
    BY <1>3 DEF sh
  <2>4. \A x \in todo', z \in shards' : Disjoint(x, z)
    BY <1>3, <2>1, <2>3 DEF Apart
  <2>5. \A x, y \in shards' : x # y => Disjoint(x, y)
    BY <1>s, <2>1, <2>3 DEF Apart
  <2>6. \A x, y \in todo' : x # y => Disjoint(x, y)
    BY <1>3 DEF Apart
  <2> QED BY <1>0, <1>3, <2>2, <2>4, <2>5, <2>6
<1>4. CASE FullMatch
  <2>1. /\ shards' = shards \cup {Shard(Domain, Count("left"), Count("right"), 0, "Match")}
        /\ todo' = todo /\ pc' = "commit" /\ pc = "full"
    BY <1>4 DEF FullMatch, Match
  <2>2. todo = {} /\ shards = {}
    BY <2>1 DEF Fresh, Early
  <2> QED BY <1>3, <2>1, <2>2
<1>5. CASE SegmentMatch
  BY <1>3, <1>5 DEF SegmentMatch, Match, Apart
<1>6. CASE FinishMerge
  <2>1. /\ shards' = shards \cup {Shard(cur, Count("left"), Count("right"), Cardinality(found), "Diff")}
        /\ todo' = todo /\ pc = "merge" /\ pc' = "segment"
    BY <1>6 DEF FinishMerge, Merged
  <2> QED BY <1>3, <2>1 DEF Apart
<1>7. ASSUME NEW seg \in todo, SkipSegment(seg) PROVE Apart'
  <2>1. PICK e \in Completed(seg) : shards' = shards \cup {Shard(seg, e.lc, e.rc, e.dc, "Skipped")}
    BY <1>7 DEF SkipSegment
  <2>2. pc = "segment" /\ pc' = pc /\ todo' = todo \ {seg}
    BY <1>7 DEF SkipSegment
  <2>3. \A x \in todo' \cup shards : Disjoint(x, seg)
    BY <1>s, <2>2 DEF Apart
  <2> QED BY <1>3, <2>1, <2>2, <2>3
<1>8. ASSUME NEW seg \in todo, TakeSegment(seg) PROVE Apart'
  <2>1. todo' = todo \ {seg} /\ cur' = seg /\ shards' = shards
    BY <1>8 DEF TakeSegment, result
  <2>2. \A x \in todo' \cup shards' : Disjoint(x, cur')
    BY <1>s, <2>1 DEF Apart
  <2> QED BY <1>0, <2>1, <2>2 DEF Apart
(* A segment, or the domain, is cut. *)
<1>9. ASSUME NEW lo \in Int64, NEW hi \in Int64, NEW n \in Nat, NEW d, shards' = shards, pc' \notin open,
             todo' = todo \cup {Item(p, d) : p \in SplitRange(lo, hi, n)},
             \A p \in SplitRange(lo, hi, n) : \A x \in todo \cup shards : Disjoint(x, Item(p, d))
      PROVE  Apart'
  <2> DEFINE new == {Item(p, d) : p \in SplitRange(lo, hi, n)}
  <2>1. ASSUME NEW x \in new, NEW y \in new, x # y PROVE Disjoint(x, y)
    <3>1. PICK p \in SplitRange(lo, hi, n) : x = Item(p, d)
      BY <2>1
    <3>2. PICK q \in SplitRange(lo, hi, n) : y = Item(q, d)
      BY <2>1
    <3> QED BY <2>1, <3>1, <3>2, PiecesApart
  <2>2. \A y \in new : \A x \in todo \cup shards : Disjoint(x, y)
    BY <1>9
  <2> HIDE DEF new
  <2>3. todo' = todo \cup new
    BY <1>9 DEF new
  <2>4. \A x, y \in todo' : x # y => Disjoint(x, y)
    BY <1>s, <2>1, <2>2, <2>3 DEF Apart
  <2>5. \A x \in todo', sh \in shards' : Disjoint(x, sh)
    BY <1>9, <1>s, <2>2, <2>3 DEF Apart
  <2> QED BY <1>0, <1>9, <2>4, <2>5 DEF Apart
<1>10. CASE (FullMismatch /\ Snapshot) \/ AllAggregated
  <2>1. /\ todo' = {Item(p, 0) : p \in SplitRange(Domain.lo, Domain.hi, Segments)}
        /\ pc \in {"full", "aggregate"} /\ pc' = "segment" /\ shards' = shards
    BY <1>10 DEF FullMismatch, AllAggregated, FirstSegments, result
  <2>2. todo = {} /\ shards = {}
    BY <2>1 DEF Fresh, Early
  <2>3. Domain.lo \in Int64 /\ Domain.hi \in Int64 /\ Segments \in Nat
    BY <2>1, DomainType, HashDiffAssumption DEF DomainOK, Segment
  <2> QED BY <1>9, <2>1, <2>2, <2>3
<1>11. CASE Split
  <2>1. /\ todo' = todo \cup {Item(p, cur.depth + 1) : p \in SplitRange(cur.lo, cur.hi, Factor)}
        /\ pc = "sum" /\ pc' = "segment" /\ ~SmallEnough /\ shards' = shards
    BY <1>11 DEF Split, Mismatch, result
  <2>2. cur.lo \in Int64 /\ cur.hi \in Int64 /\ Factor \in Nat
    BY HashDiffAssumption DEF TypeOK, Segment
  <2>3. ASSUME NEW p \in SplitRange(cur.lo, cur.hi, Factor), NEW x \in todo \cup shards
        PROVE  Disjoint(x, Item(p, cur.depth + 1))
    <3>1. InRange(Item(p, cur.depth + 1)) \subseteq InRange(cur)
      BY <2>1, SplitApart
    <3>2. Disjoint(x, cur)
      BY <2>1 DEF Apart
    <3> QED BY <3>1, <3>2 DEF Disjoint
  <2> QED BY <1>9, <2>1, <2>2, <2>3
<1>12. \/ Restarted /\ pc' \notin open
       \/ FullMatch \/ SegmentMatch \/ FinishMerge \/ Split
       \/ (FullMismatch /\ Snapshot) \/ AllAggregated
       \/ (\E seg \in todo : SkipSegment(seg) \/ TakeSegment(seg))
       \/ UNCHANGED <<todo, shards>> /\ (pc' \in open => pc \in open /\ cur' = cur)
  <2>1. CASE Compare
    BY <2>1
     DEF Compare, OpenSnapshot, KeyRange, FullChecksum, SegmentChecksum, Checksum,
       FullMismatch, AggregateChunk,
       StartMerge, Mismatch, DepthExceeded, Stopped, FetchPage, MergeRows, SegmentsDone,
       Commit, RecheckLeft, RecheckRight, Finalize, Emit, work, result
  <2>2. CASE ~Compare
    BY <2>2
     DEF Next, Write, Start, StartRefused, StartTornHeader, Abort, TornRecord, Stopped, vars, work,
     result
  <2> QED BY <2>1, <2>2
<1> QED BY <1>1, <1>2, <1>4, <1>5, <1>6, <1>7, <1>8, <1>10, <1>11, <1>12

-----------------------------------------------------------------------------
(* A row of the snapshots stays in sight: in a segment that waits, in the  *)
(* one in hand, or in one that is reported.                                *)
Present(k) == \E s \in Side : View(s)[k] # Absent

SightTrue ==
  Snapshot =>
    /\ pc \in {"segment", "sum", "merge"} =>
         \A k \in Keys : Present(k) => k \in Judged \/ Waiting(k) \/ InHand(k)
    /\ pc = "commit" => \A k \in Keys : Present(k) => k \in Judged

LEMMA EndsBound ==
  ASSUME NEW ks \in SUBSET Keys, NEW k \in ks
  PROVE  \E a, b \in EndsOf(ks) : a <= k /\ k <= b
<1>1. Min(ks) <= k /\ k <= Max(ks)
  BY KeysType, MinInt64, MaxInt64
<1> QED BY <1>1 DEF EndsOf

LEMMA PresentInDomain ==
  ASSUME TypeOK, MaxInt \notin Keys, EndsExact, Snapshot, pc = "full", NEW k \in Keys, Present(k)
  PROVE  k \in InRange(Domain)
<1>1. PICK s \in Side : View(s)[k] # Absent
  BY DEF Present
<1>2. ends[s] = EndsOf(KeysOf(Shown(s, Keys)))
  BY DEF EndsExact, Side
<1>3. k \in KeysOf(Shown(s, Keys)) /\ KeysOf(Shown(s, Keys)) \in SUBSET Keys
  BY <1>1, PresentKeys DEF Shown
<1>4. \E a, b \in ends[s] : a <= k /\ k <= b
  BY <1>2, <1>3, EndsBound
<1> QED BY <1>4, DomainHolds

LEMMA BothEmpty ==
  ASSUME EndsExact, Snapshot, KeyRange("right"), pc' = "commit", TypeOK, NEW k \in Keys
  PROVE  ~Present(k)
<1>1. /\ ends["left"] = EndsOf(KeysOf(Shown("left", Keys))) /\ pc = "rangeRight"
      /\ ends["left"] \cup EndsOf(KeysOf(Shown("right", Keys))) = {}
  BY DEF EndsExact, KeyRange, Shown
<1>2. \A s \in Side : EndsOf(KeysOf(Shown(s, Keys))) = {}
  BY <1>1 DEF Side
<1>3. \A s \in Side : KeysOf(Shown(s, Keys)) = {}
  BY <1>2 DEF EndsOf
<1> QED BY <1>3, PresentKeys DEF Shown, Present

LEMMA SightStep ==
  ASSUME TypeOK, MaxInt \notin Keys, Fixed, EndsExact, SightTrue, [Next]_vars
  PROVE  SightTrue'
<1> DEFINE open == {"segment", "sum", "merge"}
           Sees(k) == k \in Judged' \/ Waiting(k)' \/ InHand(k)'
<1>1. SUFFICES ASSUME Snapshot, pc' \in open \cup {"commit"} PROVE SightTrue'
  BY ModeKept DEF SightTrue, Snapshot
<1>2. pc \in Running
  BY <1>1
     DEF Next, Write, Start, StartRefused, StartTornHeader, Abort, TornRecord, Stopped,
       Compare, OpenSnapshot, KeyRange, FullChecksum, SegmentChecksum, Checksum, FullMatch,
       SegmentMatch, Match, FullMismatch, AggregateChunk, AllAggregated, SkipSegment, TakeSegment,
       StartMerge, Mismatch, Split, DepthExceeded, FetchPage, MergeRows, FinishMerge, Merged,
       SegmentsDone,
       Commit, RecheckLeft, RecheckRight, Finalize, Emit, vars, Running, Fixed
<1>3. \A k : Present(k)' <=> Present(k)
  BY <1>1, <1>2, Stays DEF Present, Running
<1>4. ASSUME pc' # "commit", \A k \in Keys : Present(k) => Sees(k) PROVE SightTrue'
  BY <1>1, <1>3, <1>4 DEF SightTrue
<1>5. ASSUME pc' = "commit", \A k \in Keys : Present(k) => k \in Judged' PROVE SightTrue'
  BY <1>3, <1>5 DEF SightTrue
<1>6. ASSUME NEW k, shards \subseteq shards', k \in Judged PROVE k \in Judged'
  BY <1>6 DEF Judged, Over, InRange
<1>7. ASSUME NEW k, NEW seg, NEW lc, NEW rc, NEW dc, NEW st,
             shards' = shards \cup {Shard(seg, lc, rc, dc, st)}, k \in InRange(seg)
      PROVE  k \in Judged'
  <2>1. k \in InRange(Shard(seg, lc, rc, dc, st))
    BY <1>7, ItemRange
  <2> QED BY <1>7, <2>1 DEF Judged, Over, InRange
<1>8. ASSUME UNCHANGED <<pc, todo, cur, shards>> PROVE SightTrue'
  <2>1. \A k : (k \in Judged => k \in Judged') /\ (Waiting(k) => Waiting(k)') /\ (InHand(k) => InHand(k)')
    BY <1>6, <1>8 DEF Waiting, InHand, InRange
  <2> QED BY <1>1, <1>3, <1>8, <2>1 DEF SightTrue
<1>9. ASSUME NEW s \in Side, KeyRange(s) PROVE SightTrue'
  <2>1. s = "right" /\ pc' = "commit"
    BY <1>1, <1>9 DEF KeyRange, Side
  <2> QED BY <1>1, <1>5, <1>9, <2>1, BothEmpty
<1>10. CASE FullMatch
  <2>1. pc = "full" /\ pc' = "commit"
        /\ shards' = shards \cup {Shard(Domain, Count("left"), Count("right"), 0, "Match")}
    BY <1>10 DEF FullMatch, Match
  <2> QED BY <1>1, <1>5, <1>7, <2>1, PresentInDomain
<1>11. CASE FullMismatch
  <2>1. pc = "full" /\ todo' = {Item(p, 0) : p \in SplitRange(Domain.lo, Domain.hi, Segments)}
        /\ pc' = "segment"
    BY <1>1, <1>11 DEF FullMismatch, FirstSegments
  <2> SUFFICES ASSUME NEW k \in Keys, Present(k) PROVE Waiting(k)'
    BY <1>4, <2>1
  <2>2. k \in InRange(Domain)
    BY <1>1, <2>1, PresentInDomain
  <2>3. ends["left"] \cup ends["right"] # {}
    <3>1. PICK s \in Side : View(s)[k] # Absent
      BY DEF Present
    <3>2. ends[s] = EndsOf(KeysOf(Shown(s, Keys)))
      BY <1>1, <2>1 DEF EndsExact, Side
    <3>3. k \in KeysOf(Shown(s, Keys))
      BY <3>1, PresentKeys DEF Shown
    <3>4. ends[s] # {}
      BY <3>2, <3>3 DEF EndsOf
    <3> QED BY <3>4 DEF Side
  <2>4. Domain.lo \in Int64 /\ Domain.hi \in Int64 /\ Segments \in Nat \ {0}
    BY <2>3, DomainType, HashDiffAssumption DEF Segment
  <2>5. Domain.lo <= k /\ k < Domain.hi
    BY <2>2 DEF InRange
  <2>6. PICK p \in SplitRange(Domain.lo, Domain.hi, Segments) : \A d : k \in InRange(Item(p, d))
    BY <2>4, <2>5, PiecesWait
  <2> QED BY <2>1, <2>6 DEF Waiting, InRange
<1>12. ASSUME NEW seg \in todo, SkipSegment(seg) PROVE SightTrue'
  <2>1. PICK e \in Completed(seg) : shards' = shards \cup {Shard(seg, e.lc, e.rc, e.dc, "Skipped")}
    BY <1>12 DEF SkipSegment
  <2>2. pc = "segment" /\ pc' = "segment" /\ todo' = todo \ {seg}
    BY <1>12 DEF SkipSegment
  <2> SUFFICES ASSUME NEW k \in Keys, Present(k) PROVE Sees(k)
    BY <1>4, <2>2
  <2>3. k \in Judged \/ \E other \in todo : k \in InRange(other)
    BY <1>1, <2>2 DEF SightTrue, Waiting, InHand
  <2>4. CASE k \in Judged
    BY <1>6, <2>1, <2>4
  <2>5. CASE k \in InRange(seg)
    BY <1>7, <2>1, <2>5
  <2>6. CASE \E other \in todo \ {seg} : k \in InRange(other)
    BY <2>2, <2>6 DEF Waiting, InRange
  <2> QED BY <2>3, <2>4, <2>5, <2>6
<1>13. ASSUME NEW seg \in todo, TakeSegment(seg) PROVE SightTrue'
  <2>1. pc = "segment" /\ pc' = "sum" /\ todo' = todo \ {seg} /\ cur' = seg /\ shards' = shards
    BY <1>13 DEF TakeSegment, result
  <2> SUFFICES ASSUME NEW k \in Keys, Present(k) PROVE Sees(k)
    BY <1>4, <2>1
  <2>2. k \in Judged \/ \E other \in todo : k \in InRange(other)
    BY <1>1, <2>1 DEF SightTrue, Waiting, InHand
  <2> QED BY <1>6, <2>1, <2>2 DEF Waiting, InHand, InRange
<1>14. CASE StartMerge
  <2>1. pc = "sum" /\ pc' = "merge" /\ UNCHANGED <<todo, cur, shards>>
    BY <1>14 DEF StartMerge, Mismatch, result
  <2>2. \A k : (k \in Judged => k \in Judged') /\ (Waiting(k) => Waiting(k)') /\ (InHand(k) => InHand(k)')
    BY <1>6, <2>1 DEF Waiting, InHand, InRange
  <2> QED BY <1>1, <1>4, <2>1, <2>2 DEF SightTrue
(* The segment in hand is reported. *)
<1>15. CASE SegmentMatch \/ FinishMerge
  <2>1. /\ pc \in {"sum", "merge"} /\ pc' = "segment" /\ todo' = todo
        /\ \E dc, st : shards' = shards \cup {Shard(cur, Count("left"), Count("right"), dc, st)}
    BY <1>15 DEF SegmentMatch, Match, FinishMerge, Merged
  <2> SUFFICES ASSUME NEW k \in Keys, Present(k) PROVE Sees(k)
    BY <1>4, <2>1
  <2>2. k \in Judged \/ Waiting(k) \/ k \in InRange(cur)
    BY <1>1, <2>1 DEF SightTrue, InHand
  <2> QED BY <1>6, <1>7, <2>1, <2>2 DEF Waiting, InRange
<1>16. CASE Split
  <2>1. /\ pc = "sum" /\ pc' = "segment" /\ shards' = shards
        /\ todo' = todo \cup {Item(p, cur.depth + 1) : p \in SplitRange(cur.lo, cur.hi, Factor)}
    BY <1>16 DEF Split, Mismatch, result
  <2> SUFFICES ASSUME NEW k \in Keys, Present(k) PROVE Sees(k)
    BY <1>4, <2>1
  <2>2. k \in Judged \/ Waiting(k) \/ k \in InRange(cur)
    BY <1>1, <2>1 DEF SightTrue, InHand
  <2>3. ASSUME k \in InRange(cur) PROVE Waiting(k)'
    <3>1. cur.lo <= k /\ k < cur.hi
      BY <2>3 DEF InRange
    <3>2. cur.lo \in Int64 /\ cur.hi \in Int64 /\ Factor \in Nat \ {0}
      BY HashDiffAssumption DEF TypeOK, Segment
    <3>3. PICK p \in SplitRange(cur.lo, cur.hi, Factor) : \A d : k \in InRange(Item(p, d))
      BY <3>1, <3>2, PiecesWait
    <3> QED BY <2>1, <3>3 DEF Waiting, InRange
  <2> QED BY <1>6, <2>1, <2>2, <2>3 DEF Waiting, InRange
<1>17. CASE SegmentsDone
  <2>1. pc = "segment" /\ todo = {} /\ pc' = "commit" /\ shards' = shards
    BY <1>17 DEF SegmentsDone, result
  <2> QED BY <1>1, <1>5, <1>6, <2>1 DEF SightTrue, Waiting, InHand
<1>18. \/ \E s \in Side : KeyRange(s)
       \/ FullMatch \/ FullMismatch
       \/ \E seg \in todo : SkipSegment(seg) \/ TakeSegment(seg)
       \/ StartMerge \/ SegmentMatch \/ FinishMerge \/ Split \/ SegmentsDone
       \/ UNCHANGED <<pc, todo, cur, shards>>
  <2>1. CASE Compare
    BY <1>1, <1>2, <2>1
     DEF Compare, OpenSnapshot, FullChecksum, SegmentChecksum, Checksum, AggregateChunk,
       AllAggregated, DepthExceeded, Stopped, FetchPage, MergeRows, Running,
       Commit, RecheckLeft, RecheckRight, Finalize, Emit, result
  <2>2. CASE ~Compare
    BY <1>1, <2>2
     DEF Next, Write, Start, StartRefused, StartTornHeader, Abort, TornRecord, Stopped, vars, work,
     result
  <2> QED BY <2>1, <2>2
<1> QED
  BY <1>8, <1>9, <1>10, <1>11, <1>12, <1>13, <1>14, <1>15, <1>16, <1>17, <1>18

-----------------------------------------------------------------------------
(* The report so far is the comparison of the segments it names.           *)
TallyTrue ==
  Snapshot /\ NoneSkipped /\ pc \in Running =>
    /\ \A sh \in shards : /\ sh.lc = Cardinality(Shown("left", InRange(sh)))
                          /\ sh.rc = Cardinality(Shown("right", InRange(sh)))
    /\ diffs = DiffOf(View("left"), View("right"), Judged)

LEMMA SumIs ==
  ASSUME SumsExact, Snapshot, pc \in {"full", "sum", "merge"}, Known, NEW s \in Side
  PROVE  Sum(s) = Shown(s, Covered) /\ Count(s) = Cardinality(Shown(s, Covered))
<1>1. sums[s] # {}
  BY DEF Known, Side
<1>2. Sum(s) \in sums[s]
  BY <1>1 DEF Sum
<1> QED BY <1>2 DEF SumsExact, Count

(* The sums of the segment in hand agree: it has no difference.            *)
LEMMA AgreeExact ==
  ASSUME SumsExact, Snapshot, pc \in {"full", "sum", "merge"}, Agree
  PROVE  DiffOf(View("left"), View("right"), Covered) = {}
<1>1. sums["left"] = sums["right"] /\ Known
  BY DEF Agree
<1>2. Shown("left", Covered) = Shown("right", Covered)
  BY <1>1, SumIs DEF Side, Sum
<1> QED BY <1>2, DiffOfNone DEF Shown

(* A merge that has drained both sides has found every difference.         *)
LEMMA MergedExact ==
  ASSUME TypeOK, MergeExact, Snapshot, Merged
  PROVE  found = DiffOf(View("left"), View("right"), InRange(cur))
<1>1. pc = "merge" /\ \A s \in Side : buf[s] = {} /\ exhausted[s]
  BY DEF Merged, Both
<1>2. PICK F \in Int : FrontierExact(F)
  BY <1>1 DEF MergeExact
<1>3. ASSUME NEW s \in Side, NEW k \in InRange(cur), View(s)[k] # Absent PROVE k \in Upto(F)
  <2>1. Shown(s, Ahead(s, F)) = {}
    BY <1>1, <1>2 DEF FrontierExact
  <2>2. ~(k \in Ahead(s, F))
    BY <1>3, <2>1 DEF Shown, RowsOf
  <2>3. k \in Int
    BY <1>3, InRangeKeys, KeysInt
  <2> QED BY <1>1, <2>2, <2>3 DEF Ahead, Upto
<1>4. \A k \in InRange(cur) : View("left")[k] # Absent \/ View("right")[k] # Absent => k \in Upto(F)
  BY <1>3 DEF Side
<1>5. Upto(F) \subseteq InRange(cur)
  BY DEF Upto
<1>6. DiffOf(View("left"), View("right"), Upto(F)) = DiffOf(View("left"), View("right"), InRange(cur))
  BY <1>4, <1>5, DiffOfWhole
<1> QED BY <1>2, <1>6 DEF FrontierExact

LEMMA TallyStep ==
  ASSUME TypeInv, Fixed, SumsExact, MergeExact, TallyTrue, Fresh', [Next]_vars
  PROVE  TallyTrue'
<1> DEFINE vl == View("left")
           vr == View("right")
<1>1. SUFFICES ASSUME Snapshot, NoneSkipped', pc' \in Running PROVE TallyTrue'
  BY ModeKept DEF TallyTrue, Snapshot
<1>2. CASE pc' \in Early
  <2>1. shards' = {} /\ diffs' = {}
    BY <1>2 DEF Fresh
  <2>2. Judged' = {}
    BY <2>1 DEF Judged, Over
  <2> QED BY <2>1, <2>2 DEF TallyTrue, DiffOf
<1>3. SUFFICES ASSUME pc' \in {"segment", "sum", "merge", "commit"} PROVE TallyTrue'
  BY <1>1, <1>2 DEF Running, Early
<1>4. pc \in Running
  BY <1>1, <1>3
     DEF Next, Write, Start, StartRefused, StartTornHeader, Abort, TornRecord, Stopped,
       Compare, OpenSnapshot, KeyRange, FullChecksum, SegmentChecksum, Checksum, FullMatch,
       SegmentMatch, Match, FullMismatch, AggregateChunk, AllAggregated, SkipSegment, TakeSegment,
       StartMerge, Mismatch, Split, DepthExceeded, FetchPage, MergeRows, FinishMerge, Merged,
       SegmentsDone,
       Commit, RecheckLeft, RecheckRight, Finalize, Emit, vars, Running, Fixed
<1>5. View("left")' = vl /\ View("right")' = vr
  BY <1>1, <1>3, <1>4, Stays DEF Side, Running
<1>6. \A s \in Side : \A seg : Shown(s, InRange(seg))' = Shown(s, InRange(seg))
  BY <1>5 DEF Shown, RowsOf, InRange, Side
<1>7. ASSUME shards \subseteq shards'
      PROVE  /\ \A sh \in shards : /\ sh.lc = Cardinality(Shown("left", InRange(sh)))
                                   /\ sh.rc = Cardinality(Shown("right", InRange(sh)))
             /\ diffs = DiffOf(vl, vr, Judged)
  BY <1>1, <1>4, <1>7 DEF TallyTrue, NoneSkipped
<1>8. ASSUME UNCHANGED <<shards, diffs>> PROVE TallyTrue'
  <2>1. Judged' = Judged
    BY <1>8 DEF Judged, Over, InRange
  <2>2. DiffOf(View("left"), View("right"), Judged)' = DiffOf(vl, vr, Judged)
    BY <1>5, <2>1 DEF DiffOf
  <2>3. \A sh \in shards' : /\ sh.lc = Cardinality(Shown("left", InRange(sh)))'
                            /\ sh.rc = Cardinality(Shown("right", InRange(sh)))'
    BY <1>6, <1>7, <1>8 DEF Side
  <2> QED BY <1>7, <1>8, <2>2, <2>3 DEF TallyTrue
(* A segment joins the report. *)
<1>9. ASSUME NEW seg, NEW dc, NEW st, pc \in {"full", "sum", "merge"}, Known, Covered = InRange(seg),
             shards' = shards \cup {Shard(seg, Count("left"), Count("right"), dc, st)},
             diffs' = diffs \cup DiffOf(vl, vr, InRange(seg))
      PROVE  TallyTrue'
  <2> DEFINE sh == Shard(seg, Count("left"), Count("right"), dc, st)
  <2>1. /\ sh.lc = Cardinality(Shown("left", InRange(sh))) /\ sh.rc = Cardinality(Shown("right", InRange(sh)))
        /\ InRange(sh) = InRange(seg)
    <3>1. sh.lc = Count("left") /\ sh.rc = Count("right")
      BY DEF Shard
    <3>2. InRange(sh) = InRange(seg)
      BY ItemRange
    <3>3. Count("left") = Cardinality(Shown("left", Covered)) /\ Count("right") = Cardinality(Shown("right", Covered))
      BY <1>1, <1>9, SumIs DEF Side
    <3> QED BY <1>9, <3>1, <3>2, <3>3
  <2>2. shards' = shards \cup {sh}
    BY <1>9
  <2> HIDE DEF sh
  <2>3. \A x \in shards' : /\ x.lc = Cardinality(Shown("left", InRange(x)))'
                           /\ x.rc = Cardinality(Shown("right", InRange(x)))'
    BY <1>6, <1>7, <2>1, <2>2 DEF Side
  <2>4. Judged' = Judged \cup InRange(seg)
    <3>1. Judged' = Over(shards')
      BY DEF Judged, Over, InRange
    <3> QED BY <2>1, <2>2, <3>1, OverAdd DEF Judged
  <2>5. DiffOf(vl, vr, Judged \cup InRange(seg)) = DiffOf(vl, vr, Judged) \cup DiffOf(vl, vr, InRange(seg))
    BY DiffOfUnion
  <2>6. DiffOf(View("left"), View("right"), Judged)' = DiffOf(vl, vr, Judged \cup InRange(seg))
    BY <1>5, <2>4 DEF DiffOf
  <2>7. diffs' = DiffOf(View("left"), View("right"), Judged)'
    BY <1>7, <1>9, <2>2, <2>5, <2>6
  <2> QED BY <2>3, <2>7 DEF TallyTrue
<1>10. CASE FullMatch
  <2>1. /\ pc = "full" /\ Agree /\ diffs' = diffs
        /\ shards' = shards \cup {Shard(Domain, Count("left"), Count("right"), 0, "Match")}
    BY <1>10 DEF FullMatch, Match
  <2>2. Covered = InRange(Domain) /\ Known
    BY <2>1 DEF Covered, Agree
  <2> QED BY <1>1, <1>9, <2>1, <2>2, AgreeExact
<1>11. CASE SegmentMatch
  <2>1. /\ pc = "sum" /\ Agree /\ diffs' = diffs
        /\ shards' = shards \cup {Shard(cur, Count("left"), Count("right"), 0, "Match")}
    BY <1>11 DEF SegmentMatch, Match
  <2>2. Covered = InRange(cur) /\ Known
    BY <2>1 DEF Covered, Agree
  <2> QED BY <1>1, <1>9, <2>1, <2>2, AgreeExact
<1>12. CASE FinishMerge
  <2>1. /\ pc = "merge" /\ Merged /\ diffs' = diffs \cup found
        /\ shards' = shards \cup {Shard(cur, Count("left"), Count("right"), Cardinality(found), "Diff")}
    BY <1>12 DEF FinishMerge, Merged
  <2>2. Covered = InRange(cur) /\ Known /\ found = DiffOf(vl, vr, InRange(cur))
    BY <1>1, <2>1, MergedExact DEF Covered, TypeInv, CountedOK
  <2> QED BY <1>9, <2>1, <2>2
<1>13. ASSUME NEW seg \in todo, SkipSegment(seg) PROVE FALSE
  <2>1. PICK e \in Completed(seg) : shards' = shards \cup {Shard(seg, e.lc, e.rc, e.dc, "Skipped")}
    BY <1>13 DEF SkipSegment
  <2>2. Shard(seg, e.lc, e.rc, e.dc, "Skipped").status = "Skipped"
    BY DEF Shard
  <2> QED BY <1>1, <2>1, <2>2 DEF NoneSkipped
<1>14. \/ FullMatch \/ SegmentMatch \/ FinishMerge \/ (\E seg \in todo : SkipSegment(seg))
       \/ UNCHANGED <<shards, diffs>>
  <2>1. CASE Compare
    BY <1>3, <2>1
     DEF Compare, OpenSnapshot, KeyRange, FullChecksum, SegmentChecksum, Checksum, FullMismatch,
       AggregateChunk, AllAggregated, TakeSegment, StartMerge, Split, DepthExceeded, Stopped,
       FetchPage, MergeRows, SegmentsDone, Commit, RecheckLeft, RecheckRight, Finalize, Emit, result
  <2>2. CASE ~Compare
    BY <1>3, <2>2
     DEF Next, Write, Start, StartRefused, StartTornHeader, Abort, TornRecord, Stopped, vars, work,
     result
  <2> QED BY <2>1, <2>2
<1> QED BY <1>8, <1>10, <1>11, <1>12, <1>13, <1>14

-----------------------------------------------------------------------------
(* Under a snapshot, what a run has read, listed and counted is exact.     *)
ExactInv ==
  /\ SafeInv /\ Fixed /\ EndsExact /\ SumsExact /\ MergeExact
  /\ Fresh /\ Apart /\ SightTrue /\ TallyTrue

LEMMA ExactInit == Init => ExactInv
<1> SUFFICES ASSUME Init PROVE ExactInv
  OBVIOUS
<1>1. SafeInv
  BY SafeInit
<1>2. pc = "idle" /\ shards = {} /\ todo = {} /\ diffs = {}
  BY DEF Init
<1>3. Fixed /\ EndsExact /\ SumsExact /\ MergeExact /\ SightTrue /\ TallyTrue
  BY <1>2 DEF Fixed, EndsExact, SumsExact, MergeExact, SightTrue, TallyTrue, Running
<1>4. Fresh /\ Apart
  BY <1>2, FS_EmptySet DEF Fresh, Apart
<1> QED BY <1>1, <1>3, <1>4 DEF ExactInv

LEMMA ExactKept ==
  ASSUME MaxInt \notin Keys, ExactInv, [Next]_vars
  PROVE  ExactInv'
<1>1. TypeInv /\ TypeOK /\ DomainOK /\ SumsTrue /\ MergeTrue /\ SafeInv
  BY DEF ExactInv, SafeInv, TypeInv
<1>2. Fixed /\ EndsExact /\ SumsExact /\ MergeExact /\ Fresh /\ Apart /\ SightTrue /\ TallyTrue
  BY DEF ExactInv
<1>3. SafeInv'
  BY <1>1, SafeStep
<1>4. Fixed' /\ EndsExact' /\ SumsExact' /\ MergeExact'
  BY <1>1, <1>2, FixedStep, EndsExactStep, SumsExactStep, MergeExactStep
<1>5. Fresh' /\ Apart'
  BY <1>1, <1>2, FreshStep, ApartStep
<1>6. SightTrue'
  BY <1>1, <1>2, SightStep
<1>7. TallyTrue'
  BY <1>1, <1>2, <1>5, TallyStep
<1> QED BY <1>3, <1>4, <1>5, <1>6, <1>7 DEF ExactInv

(* The rows of the report's segments are those of the snapshots. *)
LEMMA CommitExact ==
  ASSUME ExactInv
  PROVE  SnapshotExact
<1> SUFFICES ASSUME pc = "commit", Snapshot, NoneSkipped
             PROVE  /\ diffs = DiffRows(Shown("left", Keys), Shown("right", Keys))
                    /\ MapThenSumSet(LAMBDA sh : sh.lc, shards) = Cardinality(Shown("left", Keys))
                    /\ MapThenSumSet(LAMBDA sh : sh.rc, shards) = Cardinality(Shown("right", Keys))
  BY DEF SnapshotExact, NoneSkipped, Shown, Side
<1>1. TypeOK /\ SightTrue /\ TallyTrue /\ Apart
  BY DEF ExactInv, SafeInv, TypeInv
<1>2. \A k \in Keys : Present(k) => k \in Judged
  BY <1>1 DEF SightTrue
<1>3. Judged \subseteq Keys
  BY DEF Judged, Over, InRange
<1>4. \A s \in Side : Shown(s, Judged) = Shown(s, Keys)
  BY <1>2, <1>3, RowsOfWhole DEF Present, Shown
<1>5. diffs = DiffOf(View("left"), View("right"), Keys)
  <2>1. \A k \in Keys : View("left")[k] # Absent \/ View("right")[k] # Absent => k \in Judged
    BY <1>2 DEF Present, Side
  <2>2. DiffOf(View("left"), View("right"), Judged) = DiffOf(View("left"), View("right"), Keys)
    BY <1>3, <2>1, DiffOfWhole
  <2> QED BY <1>1, <2>2 DEF TallyTrue, Running
<1>6. \A sh \in shards : /\ sh.lc = Cardinality(Shown("left", InRange(sh)))
                         /\ sh.rc = Cardinality(Shown("right", InRange(sh)))
  BY <1>1 DEF TallyTrue, Running
<1>7. \A sh \in shards : sh.lc \in Int /\ sh.rc \in Int
  BY <1>1 DEF TypeOK, ShardType
<1>8. IsFiniteSet(shards) /\ \A x, y \in shards : x # y => InRange(x) \cap InRange(y) = {}
  BY <1>1 DEF Apart, Disjoint
<1>9. View("left") \in Table /\ View("right") \in Table
  BY <1>1, ViewType DEF Side
<1> DEFINE wl == [sh \in shards |-> sh.lc]
           wr == [sh \in shards |-> sh.rc]
<1>10. /\ \A x \in shards : wl[x] = Cardinality(RowsOf(View("left"), InRange(x)))
       /\ \A x \in shards : wr[x] = Cardinality(RowsOf(View("right"), InRange(x)))
  BY <1>6 DEF Shown
<1>11. /\ MapThenSumSet(LAMBDA sh : sh.lc, shards) = Total(wl, shards)
       /\ MapThenSumSet(LAMBDA sh : sh.rc, shards) = Total(wr, shards)
  BY <1>7, <1>8, LeftTotal, RightTotal
<1> HIDE DEF wl, wr
<1>12. /\ Total(wl, shards) = Cardinality(Shown("left", Judged))
       /\ Total(wr, shards) = Cardinality(Shown("right", Judged))
  BY <1>8, <1>9, <1>10, SumOfParts DEF Judged, Shown
<1> QED BY <1>4, <1>5, <1>11, <1>12, DiffRowsOf DEF Shown, Side

(* Under a snapshot the pieces add up: the differences of a run that       *)
(* skipped no segment are exactly those of the two snapshots, and the row  *)
(* counts of its shards add up to theirs, whatever is written meanwhile    *)
(* and wherever the segments are cut (hash_diff.rs:418-508, 853-862); for  *)
(* all keys but MaxInt.                                                    *)
THEOREM HashSnapshotExact ==
  ASSUME MaxInt \notin Keys
  PROVE  Spec => []SnapshotExact
<1>1. Init => ExactInv
  BY ExactInit
<1>2. ExactInv /\ [Next]_vars => ExactInv'
  BY ExactKept
<1>3. ExactInv => SnapshotExact
  BY CommitExact
<1> QED BY <1>1, <1>2, <1>3, PTL DEF Spec
=============================================================================
