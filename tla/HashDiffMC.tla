----------------------------- MODULE HashDiffMC -----------------------------
(* Small instances of HashDiff: five keys or four, two row contents.       *)
EXTENDS HashDiff, TLC

CONSTANTS a, b

MCKeys == 0 .. 4
MCValues == {a, b}

SnapshotMode == [snapshot |-> TRUE, recheck |-> TRUE, checkpoint |-> FALSE]
ResumableMode == [SnapshotMode EXCEPT !.checkpoint = TRUE]
RecheckMode == [ResumableMode EXCEPT !.snapshot = FALSE]
PlainMode == [RecheckMode EXCEPT !.recheck = FALSE]

MCModes == {SnapshotMode, ResumableMode, PlainMode}
MCLiveModes == {SnapshotMode, RecheckMode}
MCSnapshotModes == {SnapshotMode}
MCResumableModes == {ResumableMode}

(* The left table has a hole at 1; the right one differs in one or two     *)
(* rows: missing on either side, or modified.                              *)
MCNearTables ==
  {t \in [Side -> Table] :
     /\ t["left"] = [k \in MCKeys |-> IF k = 1 THEN Absent ELSE a]
     /\ t["right"][0] # Absent /\ t["right"][2] = a
     /\ t["right"][4] = a /\ t["right"][1] # b /\ t["right"][3] # b
     /\ Cardinality({k \in MCKeys : t["left"][k] # t["right"][k]}) \in 1 .. 2}

(* Keys so far apart that `hi - lo' overflows when MaxInt is 5, unless     *)
(* neither side has a row under -4.                                        *)
MCWideKeys == {-4, -1, 0, 3}

MCWideTables ==
  {t \in [Side -> [MCWideKeys -> {a, Absent}]] :
     \A k \in MCWideKeys \ {-4} : t["left"][k] = a}
=============================================================================
