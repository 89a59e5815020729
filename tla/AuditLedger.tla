---------------------------- MODULE AuditLedger ----------------------------
(***************************************************************************)
(* The audit ledger: processes (sessions) that append events to shared     *)
(* daily JSONL files, and the statements whose execution depends on it.    *)
(*                                                                         *)
(* Follows audit::AuditSession (mod.rs), audit::writer::AuditWriter        *)
(* (writer.rs) and the statement loop of the one-shot CLI and the REPL     *)
(* (cli.rs, interactive.rs).  Writing statements come from CLI and REPL    *)
(* sessions, which run one statement at a time; an MCP server records the  *)
(* queries of several clients at once.                                     *)
(*                                                                         *)
(* Abstractions.  A line is written in two pieces, because write_all may   *)
(* be cut short by a full disk or a kill; an event is its session, its     *)
(* sequence number and the day of its time stamp.  A file is an inode      *)
(* (node) with or without a name in the directory.  Event texts, warnings  *)
(* and permissions are left out.                                           *)
(***************************************************************************)
EXTENDS Integers, Sequences, FiniteSets

CONSTANTS
  Sessions,        \* process lifetimes
  Callers,         \* tasks that record events
  Home,            \* caller -> its session
  Writers,         \* callers that execute data changes (CLI, REPL)
  NoCaller,        \* the writer mutex is free
  NoSession,       \* no flock on a file
  RetentionDays,   \* --audit-retention-days
  Fsync,           \* AuditConfig.fsync
  MaxSeq,          \* bound: events per session
  MaxDay,          \* bound: days the model lasts
  MaxFaults        \* bound: failed file operations and kills

ASSUME AuditAssumption ==
  /\ Home \in [Callers -> Sessions]
  /\ Writers \subseteq Callers
  /\ NoCaller \notin Callers /\ NoSession \notin Sessions
  /\ Fsync \in BOOLEAN
  /\ {RetentionDays, MaxSeq, MaxDay, MaxFaults} \subseteq Nat /\ MaxDay > 0

VARIABLES
  today,      \* the UTC date
  dir,        \* day -> node of that day's file, 0 if there is none
  nodes,      \* files ever created: their text and who holds their flock
  session,    \* "new" | "opened" | "cleaning" | "up" | "down"
  current,    \* AuditWriter.current: day and node, node 0 if no writer
  expired,    \* days apply_retention still has to remove
  seq,        \* AuditSession.seq
  mutex,      \* AuditSession.writer: who holds the lock
  call,       \* caller -> where it is in its statement and in record()
  accepted,   \* history: events for which record() returned Ok
  executed,   \* history: intents whose statement reached the engine
  faults      \* bound

files == <<dir, nodes>>
history == <<accepted, executed>>
vars == <<today, files, session, current, expired, seq, mutex, call, history,
          faults>>

Days == 1 .. MaxDay
NoFile == [day |-> 0, node |-> 0]
Idle == [at |-> "idle", kind |-> "none", seq |-> 0, day |-> 0]
Event(c) == <<Home[c], call[c].seq, call[c].day>>
File(c) == current[Home[c]]

Fail == faults < MaxFaults /\ faults' = faults + 1

At(c, place) == [call EXCEPT ![c].at = place]

-----------------------------------------------------------------------------
(***************************************************************************)
(* Opening a day's file: create(true).append(true).                        *)
(***************************************************************************)
OpenDayTruncating(s, d) ==
  LET n == IF dir[d] # 0 THEN dir[d] ELSE Len(nodes) + 1
  IN
  /\ current' = [current EXCEPT ![s] = [day |-> d, node |-> n]]
  /\ dir' = [dir EXCEPT ![d] = n]
  /\ nodes' = IF dir[d] # 0 THEN [nodes EXCEPT ![n].text = <<>>]
              ELSE Append(nodes, [text |-> <<>>, flock |-> NoSession])
OpenDay(s, d) ==
  LET n == IF dir[d] # 0 THEN dir[d] ELSE Len(nodes) + 1
  IN
  /\ current' = [current EXCEPT ![s] = [day |-> d, node |-> n]]
  /\ dir' = [dir EXCEPT ![d] = n]
  /\ nodes' = IF dir[d] # 0 THEN nodes
              ELSE Append(nodes, [text |-> <<>>, flock |-> NoSession])

(* is_expired, for the file of day d.                                      *)
IsExpiredEarly(d) == RetentionDays > 0 /\ today - d >= RetentionDays - 1
IsExpired(d) == RetentionDays > 0 /\ today - d >= RetentionDays

(* AuditSession::new: AuditWriter::open opens today's file ...             *)
StartSession(s) ==
  /\ session[s] = "new"
  /\ OpenDay(s, today)
  /\ session' = [session EXCEPT ![s] = "opened"]
  /\ UNCHANGED <<today, expired, seq, mutex, call, history, faults>>

(* ... then apply_retention lists the files to remove.                     *)
ListExpired(s) ==
  /\ session[s] = "opened"
  /\ session' = [session EXCEPT ![s] = "cleaning"]
  /\ expired' = [expired EXCEPT ![s] = {d \in Days : dir[d] # 0 /\ IsExpired(d)}]
  /\ UNCHANGED <<today, files, current, seq, mutex, call, history, faults>>

(* The directory is unusable: the session lives on without a writer.       *)
StartWithoutWriter(s) ==
  /\ session[s] = "new"
  /\ Fail
  /\ session' = [session EXCEPT ![s] = "up"]
  /\ UNCHANGED <<today, files, current, expired, seq, mutex, call, history>>

(* apply_retention removes one listed file; if another session was faster  *)
(* remove_file fails and the rest is left alone.                           *)
RemoveExpired(s, d) ==
  /\ session[s] = "cleaning" /\ d \in expired[s]
  /\ dir' = [dir EXCEPT ![d] = 0]
  /\ expired' = [expired EXCEPT ![s] = IF dir[d] = 0 THEN {} ELSE @ \ {d}]
  /\ UNCHANGED <<today, nodes, session, current, seq, mutex, call, history,
                 faults>>

Cleaned(s) ==
  /\ session[s] = "cleaning" /\ expired[s] = {}
  /\ session' = [session EXCEPT ![s] = "up"]
  /\ UNCHANGED <<today, files, current, expired, seq, mutex, call, history,
                 faults>>

-----------------------------------------------------------------------------
(***************************************************************************)
(* AuditSession::record.                                                   *)
(***************************************************************************)
(* next_seq: fetch_add.                                                    *)
NextSeq(s) == [seq EXCEPT ![s] = @ + 1]

(* The sequence number and the time stamp come before the writer's mutex.  *)
Stamped(c, kind) ==
  [at |-> "stamped", kind |-> kind, seq |-> seq[Home[c]], day |-> today]

Stamp(c, kind) ==
  /\ seq[Home[c]] < MaxSeq
  /\ call' = [call EXCEPT ![c] = Stamped(c, kind)]
  /\ seq' = NextSeq(Home[c])
  /\ UNCHANGED <<today, files, session, current, expired, mutex, history, faults>>

(* What record() returned decides how the statement goes on: an intent     *)
(* lets it reach the engine only when it is Ok.                            *)
AfterBestEffort(c, ok) == IF call[c].kind = "intent" THEN "execute" ELSE "idle"
After(c, ok) == IF call[c].kind = "intent" /\ ok THEN "execute" ELSE "idle"

Returned(c, ok) ==
  /\ call' = IF After(c, ok) = "idle" THEN [call EXCEPT ![c] = Idle]
             ELSE At(c, "execute")
  /\ accepted' = IF ok THEN accepted \cup {Event(c)} ELSE accepted
  /\ UNCHANGED executed

FreeMutex(c) == mutex[Home[c]] = NoCaller

(* AuditError::Disabled.                                                   *)
NoWriter(c) ==
  /\ call[c].at = "stamped" /\ FreeMutex(c)
  /\ File(c).node = 0
  /\ Returned(c, FALSE)
  /\ UNCHANGED <<today, files, session, current, expired, seq, mutex, faults>>

(* current_file: reopen when the date has changed.                         *)
Stale(c) == File(c).day # today

Enter(c) ==
  /\ call[c].at = "stamped" /\ FreeMutex(c)
  /\ File(c).node # 0
  /\ mutex' = [mutex EXCEPT ![Home[c]] = c]
  /\ IF Stale(c) THEN OpenDay(Home[c], today) ELSE UNCHANGED <<files, current>>
  /\ call' = At(c, "entered")
  /\ UNCHANGED <<today, session, expired, seq, history, faults>>

(* The new day's file cannot be opened: Err, and the old one stays.        *)
CannotReopen(c) ==
  /\ call[c].at = "stamped" /\ FreeMutex(c)
  /\ File(c).node # 0 /\ Stale(c)
  /\ Fail
  /\ Returned(c, FALSE)
  /\ UNCHANGED <<today, files, session, current, expired, seq, mutex>>

(* file.lock() waits for the flock.                                        *)
Lockable(n) == nodes[n].flock = NoSession

LockSkipped(c) ==
  /\ call[c].at = "entered"
  /\ call' = At(c, "locked")
  /\ UNCHANGED <<today, files, session, current, expired, seq, mutex, history,
                 faults>>

Lock(c) ==
  LET n == File(c).node
  IN
  /\ call[c].at = "entered"
  /\ Lockable(n)
  /\ nodes' = [nodes EXCEPT ![n].flock = Home[c]]
  /\ call' = At(c, "locked")
  /\ UNCHANGED <<today, dir, session, current, expired, seq, mutex, history,
                 faults>>

Piece(c, half) ==
  nodes' = [nodes EXCEPT ![File(c).node].text = Append(@, <<Event(c), half>>)]

WriteFirst(c) ==
  /\ call[c].at = "locked"
  /\ Piece(c, 1)
  /\ call' = At(c, "half")
  /\ UNCHANGED <<today, dir, session, current, expired, seq, mutex, history,
                 faults>>

WriteRest(c) ==
  /\ call[c].at = "half"
  /\ Piece(c, 2)
  /\ call' = At(c, "written")
  /\ UNCHANGED <<today, dir, session, current, expired, seq, mutex, history,
                 faults>>

(* write_all fails, with or without part of the line on disk.              *)
DiskFull(c) ==
  /\ call[c].at \in {"locked", "half"}
  /\ Fail
  /\ call' = At(c, "failed")
  /\ UNCHANGED <<today, files, session, current, expired, seq, mutex, history>>

UnlockedNot(n) == nodes
Unlocked(n) == [nodes EXCEPT ![n].flock = NoSession]

(* unlock, sync_all if asked for, release of the mutex, return.            *)
Leave(c) ==
  /\ call[c].at \in {"written", "failed"}
  /\ nodes' = Unlocked(File(c).node)
  /\ mutex' = [mutex EXCEPT ![Home[c]] = NoCaller]
  /\ \/ /\ Returned(c, call[c].at = "written")
        /\ UNCHANGED faults
     \/ /\ Fsync /\ call[c].at = "written" /\ Fail
        /\ Returned(c, FALSE)
  /\ UNCHANGED <<today, dir, session, current, expired, seq>>

-----------------------------------------------------------------------------
(***************************************************************************)
(* Statements.                                                             *)
(***************************************************************************)
Ready(c) == session[Home[c]] = "up" /\ call[c] = Idle

(* A data change that passed the write gate: the intent first.  (The bound *)
(* leaves room for its outcome.)                                           *)
Intend(c) ==
  Ready(c) /\ c \in Writers /\ seq[Home[c]] + 1 < MaxSeq /\ Stamp(c, "intent")

(* A refused statement is recorded, best effort, and not executed.         *)
Deny(c) == Ready(c) /\ c \in Writers /\ Stamp(c, "deny")

(* A query runs first; its outcome is recorded best effort.                *)
Query(c) == Ready(c) /\ Stamp(c, "outcome")

(* conn.execute_write, then the outcome, best effort.                      *)
Execute(c) ==
  /\ call[c].at = "execute"
  /\ executed' = executed \cup {Event(c)}
  /\ call' = [call EXCEPT ![c] = Stamped(c, "outcome")]
  /\ seq' = NextSeq(Home[c])
  /\ UNCHANGED <<today, files, session, current, expired, mutex, accepted, faults>>

-----------------------------------------------------------------------------
(* The process dies; the kernel closes its file and drops the flock.       *)
Kill(s) ==
  /\ session[s] \in {"opened", "cleaning", "up"}
  /\ Fail
  /\ session' = [session EXCEPT ![s] = "down"]
  /\ call' = [c \in Callers |-> IF Home[c] = s THEN Idle ELSE call[c]]
  /\ mutex' = [mutex EXCEPT ![s] = NoCaller]
  /\ current' = [current EXCEPT ![s] = NoFile]
  /\ expired' = [expired EXCEPT ![s] = {}]
  /\ nodes' = [n \in DOMAIN nodes |->
       IF nodes[n].flock = s THEN [nodes[n] EXCEPT !.flock = NoSession] ELSE nodes[n]]
  /\ UNCHANGED <<today, dir, seq, history>>

Midnight ==
  /\ today < MaxDay
  /\ today' = today + 1
  /\ UNCHANGED <<files, session, current, expired, seq, mutex, call, history,
                 faults>>

Init ==
  /\ today = 1
  /\ dir = [d \in Days |-> 0]
  /\ nodes = <<>>
  /\ session = [s \in Sessions |-> "new"]
  /\ current = [s \in Sessions |-> NoFile]
  /\ expired = [s \in Sessions |-> {}]
  /\ seq = [s \in Sessions |-> 0]
  /\ mutex = [s \in Sessions |-> NoCaller]
  /\ call = [c \in Callers |-> Idle]
  /\ accepted = {} /\ executed = {}
  /\ faults = 0

Record(c) ==
  \/ NoWriter(c)
  \/ Enter(c)
  \/ Lock(c)
  \/ WriteFirst(c)
  \/ WriteRest(c)
  \/ Leave(c)

Next ==
  \/ \E s \in Sessions : StartSession(s) \/ StartWithoutWriter(s) \/ ListExpired(s)
                        \/ Cleaned(s) \/ Kill(s)
  \/ \E s \in Sessions, d \in Days : RemoveExpired(s, d)
  \/ \E c \in Callers : Intend(c) \/ Deny(c) \/ Query(c) \/ Execute(c)
  \/ \E c \in Callers : Record(c)
  \/ \E c \in Callers : CannotReopen(c) \/ DiskFull(c)
  \/ Midnight

Spec == Init /\ [][Next]_vars

(* Each task goes on while it can; a flock is granted when it stays free.  *)
FairSpec == Spec /\ \A c \in Callers : WF_vars(Record(c))

-----------------------------------------------------------------------------
EventType == Sessions \X Nat \X Days
PieceType == EventType \X {1, 2}
CallType ==
  [at : {"idle", "stamped", "entered", "locked", "half", "written", "failed", "execute"},
   kind : {"none", "intent", "deny", "outcome"}, seq : Nat, day : 0 .. MaxDay]

TypeOK ==
  /\ today \in Days
  /\ dir \in [Days -> 0 .. Len(nodes)]
  /\ nodes \in Seq([text : Seq(PieceType), flock : Sessions \cup {NoSession}])
  /\ session \in [Sessions -> {"new", "opened", "cleaning", "up", "down"}]
  /\ current \in [Sessions -> [day : 0 .. MaxDay, node : 0 .. Len(nodes)]]
  /\ \A s \in Sessions : current[s].node # 0 => current[s].day # 0
  /\ expired \in [Sessions -> SUBSET Days]
  /\ seq \in [Sessions -> Nat]
  /\ mutex \in [Sessions -> Callers \cup {NoCaller}]
  /\ call \in [Callers -> CallType]
  /\ \A c \in Callers : call[c].at # "idle" => call[c].day # 0
  /\ accepted \subseteq EventType /\ executed \subseteq EventType
  /\ faults \in 0 .. MaxFaults

Text(n) == nodes[n].text

(* Event e stands in one piece from position i of text t.                  *)
Stands(t, i, e) == i < Len(t) /\ t[i] = <<e, 1>> /\ t[i + 1] = <<e, 2>>

(* ... and on a line of its own.                                           *)
OnOwnLine(t, i, e) == Stands(t, i, e) /\ (i = 1 \/ t[i - 1][2] = 2)

(* Lines never interleave, however many processes and tasks append: no     *)
(* piece of another event comes between the two pieces of an event; and no *)
(* event is written twice or shares its sequence number with another       *)
(* (writer.rs:73-101, mod.rs:140-156, issue #104).                         *)
LinesWhole ==
  \A m, n \in DOMAIN nodes : \A i \in DOMAIN Text(m), j \in DOMAIN Text(n) :
    /\ Text(m)[i] = Text(n)[j] => m = n /\ i = j
    /\ m = n /\ Text(m)[i][1] = Text(n)[j][1] /\ Text(m)[i][2] < Text(n)[j][2] => j = i + 1

(* An event record() accepted is whole on disk, and shares its line at     *)
(* most with the fragment that a failed or killed writer left there.       *)
AcceptedOnDisk ==
  \A e \in accepted : \E n \in DOMAIN nodes : \E i \in DOMAIN Text(n) :
    /\ Stands(Text(n), i, e)
    /\ i = 1 \/ Text(n)[i - 1][2] = 2 \/ Text(n)[i - 1][1] \notin accepted

(* Fail-closed: a data change reaches the engine only after its intent is  *)
(* whole on disk, in a file that still has its name unless retention has   *)
(* removed it by now (cli.rs:888-897, interactive.rs:775-787).             *)
WritesAudited ==
  \A e \in executed : \E n \in DOMAIN nodes : \E i \in DOMAIN Text(n) :
    /\ Stands(Text(n), i, e)
    /\ \/ \E d \in Days : dir[d] = n
       \/ RetentionDays > 0 /\ today - e[3] >= RetentionDays

(* The ledger keeps what retention promises to keep: an accepted event     *)
(* stays in a named file for RetentionDays days from the day it was        *)
(* stamped, whoever starts, cleans up or crosses midnight meanwhile        *)
(* (writer.rs:146-196).                                                    *)
KeptForRetention ==
  \A e \in {a \in accepted : RetentionDays = 0 \/ today - a[3] < RetentionDays} :
    \E n \in DOMAIN nodes : \E i \in DOMAIN Text(n) :
      /\ Stands(Text(n), i, e)
      /\ \E d \in Days : dir[d] = n

(* Mutex and flock never wait for each other: every record() returns.      *)
RecordReturns == \A c \in Callers : (call[c].at = "stamped") ~> (call[c].at \in {"idle", "execute"})

(* writer.rs:77-80: "the line and its newline must reach disk as one unit",*)
(* "readers see either the whole line or nothing".                         *)
AcceptedReadable ==
  \A e \in accepted : \E n \in DOMAIN nodes : \E i \in DOMAIN Text(n) : OnOwnLine(Text(n), i, e)

(* writer.rs:101-102: "events never land in a stale day file".             *)
NeverStaleDay ==
  [][\A c \in Callers : (call[c].at = "locked" /\ call'[c].at = "half") => File(c).day = today]_vars
=============================================================================
