---------------------------- MODULE DiffContract ----------------------------
(***************************************************************************)
(* What one delta-diff run promises its caller, whatever strategy compares *)
(* the two tables and whoever writes to them meanwhile.  A strategy is     *)
(* correct when it implements this specification under a refinement        *)
(* mapping; see HashDiff.                                                  *)
(*                                                                         *)
(* The caller sees the exit code of delta_diff::execute_diff and the keys  *)
(* of the differences the report counts.  Rows that nobody wrote since the *)
(* run began leave no freedom: a difference in them must be reported and   *)
(* an agreement must not.  A row written meanwhile may go either way.      *)
(* Only a run that resumes an interrupted one may leave out differences,   *)
(* those its checkpoint already knows of; its rows are those that nobody   *)
(* wrote since the first run of the job began.                             *)
(***************************************************************************)
CONSTANTS
  Keys,      \* primary key values of the two tables
  Rows       \* what a side holds under a key: a row image, or no row

Side == {"left", "right"}

VARIABLES
  tab,       \* the two tables: side -> key -> row
  touched,   \* keys written on either side since the comparison began
  phase,     \* "idle" | "running" | "done"
  exit,      \* EXIT_IDENTICAL, EXIT_DIFF, EXIT_ERROR or "killed"
  reported,  \* keys of the differences counted by the report
  withheld   \* keys a resumed job leaves to the report of its earlier run

cvars == <<tab, touched, phase, exit, reported, withheld>>

(* Rows nobody wrote since the comparison began, that differ or agree. *)
StableDiff == {k \in Keys \ touched : tab["left"][k] # tab["right"][k]}
StableSame == {k \in Keys \ touched : tab["left"][k] = tab["right"][k]}

Init ==
  /\ tab \in [Side -> [Keys -> Rows]]
  /\ touched = {}
  /\ phase = "idle"
  /\ exit = "none"
  /\ reported = {}
  /\ withheld = {}

(* An application writes one row; the tool never does. *)
Write ==
  /\ \E s \in Side, k \in Keys, r \in Rows :
       /\ tab' = [tab EXCEPT ![s][k] = r]
       /\ touched' = touched \cup {k}
  /\ UNCHANGED <<phase, exit, reported, withheld>>

Begin ==
  /\ phase # "running"
  /\ phase' = "running"
  /\ \/ touched' = {} /\ withheld' = {}
     \/ /\ exit \in {"error", "killed"}
        /\ withheld' \in SUBSET Keys
        /\ UNCHANGED touched
  /\ exit' = "none"
  /\ reported' = {}
  /\ UNCHANGED tab

(* A job whose checkpoint cannot be used does not begin. *)
Refuse ==
  /\ phase # "running"
  /\ phase' = "done"
  /\ exit' = "error"
  /\ touched' \in {{}, touched}
  /\ reported' = {} /\ withheld' = {}
  /\ UNCHANGED tab

(* A resumed run may look again at what its checkpoint knows of. *)
LookAgain ==
  /\ phase = "running"
  /\ withheld' \in SUBSET withheld
  /\ UNCHANGED <<tab, touched, phase, exit, reported>>

(* The report is emitted: `0' exactly when it counts no difference. *)
Report ==
  /\ phase = "running"
  /\ phase' = "done"
  /\ \E d \in SUBSET Keys :
       /\ StableDiff \ withheld \subseteq d
       /\ StableSame \cap d = {}
       /\ reported' = d
       /\ exit' = IF d = {} THEN "identical" ELSE "diff"
  /\ withheld' = {}
  /\ UNCHANGED <<tab, touched>>

(* A run that cannot finish says so, and claims nothing about the tables. *)
Abort ==
  /\ phase = "running"
  /\ phase' = "done"
  /\ exit' \in {"error", "killed"}
  /\ withheld' = {}
  /\ UNCHANGED <<tab, touched, reported>>

Next == Write \/ Begin \/ Refuse \/ LookAgain \/ Report \/ Abort

Spec == Init /\ [][Next]_cvars
=============================================================================
