-------------------------- MODULE AuditLedgerProofs --------------------------
(***************************************************************************)
(* The ledger's promises for any number of processes, tasks, events,       *)
(* nights and failures.                                                    *)
(***************************************************************************)
EXTENDS AuditLedger, TLAPS

(* Where record() holds the mutex, and where it holds the flock too.       *)
Holding == {"entered", "locked", "half", "written", "failed"}
Locked == Holding \ {"entered"}

(* Only a session that is up has tasks under way.                          *)
UpOnly == \A c \in Callers : call[c].at # "idle" => session[Home[c]] = "up"

(* A task that writes to a file is the only one of its process to do so,   *)
(* and its process the only one.                                           *)
Exclusive ==
  \A c \in Callers :
    /\ call[c].at \in Holding => mutex[Home[c]] = c /\ File(c).node # 0
    /\ call[c].at \in Locked => nodes[File(c).node].flock = Home[c]

-----------------------------------------------------------------------------
(* Types. *)

LEMMA OpenDayType ==
  ASSUME TypeOK, NEW s \in Sessions, OpenDay(s, today)
  PROVE  /\ dir' \in [Days -> 0 .. Len(nodes')]
         /\ nodes' \in Seq([text : Seq(PieceType), flock : Sessions \cup {NoSession}])
         /\ current' \in [Sessions -> [day : 0 .. MaxDay, node : 0 .. Len(nodes')]]
         /\ \A r \in Sessions : current'[r].node # 0 => current'[r].day # 0
         /\ Len(nodes') >= Len(nodes)
         /\ \A n \in DOMAIN nodes : n \in DOMAIN nodes' /\ nodes'[n] = nodes[n]
         /\ \A n \in DOMAIN nodes' \ DOMAIN nodes :
              nodes'[n] = [text |-> <<>>, flock |-> NoSession]
         /\ current'[s].node \in DOMAIN nodes' /\ dir'[today] = current'[s].node
         /\ current'[s].day = today
         /\ \A r \in Sessions \ {s} : current'[r] = current[r]
         /\ \A d \in Days : dir[d] # 0 => dir'[d] = dir[d]
<1> DEFINE NodeType == [text : Seq(PieceType), flock : Sessions \cup {NoSession}]
           new == [text |-> <<>>, flock |-> NoSession]
           n == IF dir[today] # 0 THEN dir[today] ELSE Len(nodes) + 1
<1>1. new \in NodeType
  OBVIOUS
<1>2. /\ nodes \in Seq(NodeType) /\ Len(nodes) \in Nat /\ DOMAIN nodes = 1 .. Len(nodes)
      /\ today \in Days /\ dir \in [Days -> 0 .. Len(nodes)] /\ MaxDay \in Nat
      /\ current \in [Sessions -> [day : 0 .. MaxDay, node : 0 .. Len(nodes)]]
      /\ \A r \in Sessions : current[r].node # 0 => current[r].day # 0
  BY AuditAssumption DEF TypeOK
<1>3. /\ current' = [current EXCEPT ![s] = [day |-> today, node |-> n]]
      /\ dir' = [dir EXCEPT ![today] = n]
      /\ nodes' = IF dir[today] # 0 THEN nodes ELSE Append(nodes, new)
  BY DEF OpenDay
<1> HIDE DEF NodeType, new
<1>4. /\ nodes' \in Seq(NodeType) /\ Len(nodes') \in Nat /\ DOMAIN nodes' = 1 .. Len(nodes')
      /\ Len(nodes') >= Len(nodes) /\ n \in 1 .. Len(nodes')
      /\ \A i \in DOMAIN nodes : nodes'[i] = nodes[i]
      /\ \A i \in DOMAIN nodes' \ DOMAIN nodes : nodes'[i] = new
  <2>1. CASE dir[today] # 0
    BY <2>1, <1>2, <1>3
  <2>2. CASE dir[today] = 0
    BY <2>2, <1>1, <1>2, <1>3
  <2> QED BY <2>1, <2>2
<1> HIDE DEF n
<1>5. /\ dir' \in [Days -> 0 .. Len(nodes')]
      /\ dir'[today] = n
      /\ \A d \in Days \ {today} : dir'[d] = dir[d]
  BY <1>2, <1>3, <1>4
<1>6. /\ current' \in [Sessions -> [day : 0 .. MaxDay, node : 0 .. Len(nodes')]]
      /\ current'[s] = [day |-> today, node |-> n]
      /\ \A r \in Sessions \ {s} : current'[r] = current[r]
  BY <1>2, <1>3, <1>4 DEF Days
<1>7. today # 0
  BY <1>2 DEF Days
<1>8. \A d \in Days : dir[d] # 0 => dir'[d] = dir[d]
  BY <1>2, <1>5, <1>3 DEF n
<1>9. \A r \in Sessions : current'[r].node # 0 => current'[r].day # 0
  BY <1>2, <1>6, <1>7
<1>10. \A i \in DOMAIN nodes : i \in DOMAIN nodes' /\ nodes'[i] = nodes[i]
  BY <1>2, <1>4
<1>11. current'[s].node \in DOMAIN nodes' /\ dir'[today] = current'[s].node /\ current'[s].day = today
  BY <1>4, <1>5, <1>6
<1> QED
  BY <1>4, <1>5, <1>6, <1>8, <1>9, <1>10, <1>11 DEF NodeType, new

CallOK(f) == f \in [Callers -> CallType] /\ \A c \in Callers : f[c].at # "idle" => f[c].day # 0

LEMMA CallFacts ==
  ASSUME TypeOK, NEW c \in Callers
  PROVE  /\ Home[c] \in Sessions /\ call[c] \in CallType /\ CallOK(call)
         /\ File(c).node \in 0 .. Len(nodes) /\ File(c).day \in 0 .. MaxDay
         /\ call[c].at # "idle" => Event(c) \in EventType
BY AuditAssumption DEF TypeOK, CallOK, CallType, File, Event, EventType, Days

LEMMA StampedOK ==
  ASSUME TypeOK, NEW c \in Callers, NEW kind \in {"intent", "deny", "outcome"}
  PROVE  CallOK([call EXCEPT ![c] = Stamped(c, kind)]) /\ NextSeq(Home[c]) \in [Sessions -> Nat]
BY CallFacts DEF TypeOK, CallOK, CallType, Stamped, NextSeq, Days

LEMMA AtOK ==
  ASSUME TypeOK, NEW c \in Callers, call[c].at # "idle",
         NEW p \in {"stamped", "entered", "locked", "half", "written", "failed", "execute"}
  PROVE  CallOK(At(c, p))
BY CallFacts DEF CallOK, CallType, At

LEMMA ReturnedOK ==
  ASSUME TypeOK, NEW c \in Callers, call[c].at # "idle", NEW ok \in BOOLEAN, Returned(c, ok)
  PROVE  CallOK(call') /\ accepted' \subseteq EventType /\ executed' \subseteq EventType
<1>1. CallOK([call EXCEPT ![c] = Idle])
  BY CallFacts, AuditAssumption DEF CallOK, CallType, Idle
<1>2. CallOK(At(c, "execute"))
  BY AtOK
<1>3. CallOK(call')
  BY <1>1, <1>2 DEF Returned
<1> QED
  BY <1>3, CallFacts DEF Returned, TypeOK

NodeType == [text : Seq(PieceType), flock : Sessions \cup {NoSession}]

LEMMA NodeUpdate ==
  ASSUME NEW T, NEW q \in Seq(T), NEW n, NEW x \in T
  PROVE  [q EXCEPT ![n] = x] \in Seq(T) /\ Len([q EXCEPT ![n] = x]) = Len(q)
<1>1. Len(q) \in Nat /\ q \in [1 .. Len(q) -> T]
  OBVIOUS
<1>2. [q EXCEPT ![n] = x] \in [1 .. Len(q) -> T]
  BY <1>1
<1>3. \A f \in [1 .. Len(q) -> T] : f \in Seq(T) /\ Len(f) = Len(q)
  BY <1>1
<1> QED BY <1>2, <1>3

LEMMA TypeStep ==
  ASSUME TypeOK, Exclusive, [Next]_vars
  PROVE  TypeOK'
<1> USE DEF files, history
<1>a. TypeOK /\ UNCHANGED <<dir, nodes, current>> =>
        /\ dir' \in [Days -> 0 .. Len(nodes')] /\ nodes' \in Seq(NodeType)
        /\ current' \in [Sessions -> [day : 0 .. MaxDay, node : 0 .. Len(nodes')]]
        /\ \A s \in Sessions : current'[s].node # 0 => current'[s].day # 0
  BY DEF TypeOK, NodeType
<1>b. Len(nodes) \in Nat /\ nodes \in Seq(NodeType) /\ MaxDay \in Nat /\ MaxFaults \in Nat
  BY AuditAssumption DEF TypeOK, NodeType
<1>f. Fail => faults' \in 0 .. MaxFaults
  BY <1>b DEF TypeOK, Fail
<1>1. CASE UNCHANGED vars
  BY <1>1 DEF TypeOK, vars
<1>2. ASSUME NEW s \in Sessions, StartSession(s) PROVE TypeOK'
  <2>1. session' \in [Sessions -> {"new", "opened", "cleaning", "up", "down"}]
    BY <1>2 DEF TypeOK, StartSession
  <2>2. OpenDay(s, today)
    BY <1>2 DEF StartSession
  <2> QED BY <1>2, <2>1, <2>2, OpenDayType DEF TypeOK, StartSession
<1>3. ASSUME NEW s \in Sessions, StartWithoutWriter(s) PROVE TypeOK'
  <2>1. session' \in [Sessions -> {"new", "opened", "cleaning", "up", "down"}]
    BY <1>3 DEF TypeOK, StartWithoutWriter
  <2> QED BY <1>3, <2>1, <1>a, <1>f DEF TypeOK, StartWithoutWriter, NodeType
<1>4. ASSUME NEW s \in Sessions, ListExpired(s) PROVE TypeOK'
  <2>1. /\ session' \in [Sessions -> {"new", "opened", "cleaning", "up", "down"}]
        /\ expired' \in [Sessions -> SUBSET Days]
    BY <1>4 DEF TypeOK, ListExpired
  <2> QED BY <1>4, <2>1, <1>a DEF TypeOK, ListExpired, NodeType
<1>5. ASSUME NEW s \in Sessions, Cleaned(s) PROVE TypeOK'
  <2>1. session' \in [Sessions -> {"new", "opened", "cleaning", "up", "down"}]
    BY <1>5 DEF TypeOK, Cleaned
  <2> QED BY <1>5, <2>1, <1>a DEF TypeOK, Cleaned, NodeType
<1>6. ASSUME NEW s \in Sessions, Kill(s) PROVE TypeOK'
  <2>1. /\ session' \in [Sessions -> {"new", "opened", "cleaning", "up", "down"}]
        /\ mutex' \in [Sessions -> Callers \cup {NoCaller}]
        /\ expired' \in [Sessions -> SUBSET Days]
    BY <1>6 DEF TypeOK, Kill
  <2>2. CallOK(call')
    BY <1>6, CallFacts, <1>b DEF Kill, CallOK, CallType, Idle
  <2>3. nodes' \in Seq(NodeType) /\ Len(nodes') = Len(nodes)
    <3>1. \A n \in DOMAIN nodes : nodes[n] \in NodeType
      BY <1>b
    <3> DEFINE freed(n) == IF nodes[n].flock = s THEN [nodes[n] EXCEPT !.flock = NoSession]
                           ELSE nodes[n]
    <3>2. \A n \in DOMAIN nodes : freed(n) \in NodeType
      BY <3>1 DEF NodeType
    <3>3. nodes' = [n \in DOMAIN nodes |-> freed(n)] /\ DOMAIN nodes = 1 .. Len(nodes)
      BY <1>6, <1>b DEF Kill
    <3> HIDE DEF freed
    <3>4. nodes' \in [1 .. Len(nodes) -> NodeType]
      BY <3>2, <3>3
    <3>5. \A f \in [1 .. Len(nodes) -> NodeType] : f \in Seq(NodeType) /\ Len(f) = Len(nodes)
      BY <1>b
    <3> QED BY <3>4, <3>5
  <2>4. /\ current' \in [Sessions -> [day : 0 .. MaxDay, node : 0 .. Len(nodes)]]
        /\ \A r \in Sessions : current'[r].node # 0 => current'[r].day # 0
    BY <1>6, <1>b DEF Kill, TypeOK, NoFile
  <2> QED BY <1>6, <2>1, <2>2, <2>3, <2>4, <1>f DEF TypeOK, Kill, CallOK, NodeType
<1>7. ASSUME NEW s \in Sessions, NEW d \in Days, RemoveExpired(s, d) PROVE TypeOK'
  <2>1. expired' \in [Sessions -> SUBSET Days] /\ dir' \in [Days -> 0 .. Len(nodes)]
    BY <1>7, <1>b DEF TypeOK, RemoveExpired
  <2> QED BY <1>7, <2>1 DEF TypeOK, RemoveExpired
<1>8. ASSUME NEW c \in Callers, Intend(c) \/ Deny(c) \/ Query(c) PROVE TypeOK'
  <2>1. PICK kind \in {"intent", "deny", "outcome"} : Stamp(c, kind)
    BY <1>8 DEF Intend, Deny, Query
  <2>2. CallOK(call') /\ seq' \in [Sessions -> Nat]
    BY <2>1, StampedOK DEF Stamp
  <2> QED BY <2>1, <2>2, <1>a DEF TypeOK, Stamp, CallOK, NodeType
<1>9. ASSUME NEW c \in Callers, Execute(c) PROVE TypeOK'
  <2>1. CallOK(call') /\ seq' \in [Sessions -> Nat]
    BY <1>9, StampedOK DEF Execute
  <2>2. executed' \subseteq EventType
    BY <1>9, CallFacts DEF Execute, TypeOK
  <2> QED BY <1>9, <2>1, <2>2, <1>a DEF TypeOK, Execute, CallOK, NodeType
<1>10. ASSUME NEW c \in Callers, NoWriter(c) PROVE TypeOK'
  <2>1. CallOK(call') /\ accepted' \subseteq EventType /\ executed' \subseteq EventType
    BY <1>10, ReturnedOK DEF NoWriter
  <2> QED BY <1>10, <2>1, <1>a DEF TypeOK, NoWriter, CallOK, NodeType
<1>11. ASSUME NEW c \in Callers, Enter(c) PROVE TypeOK'
  <2>1. CallOK(call')
    BY <1>11, AtOK DEF Enter
  <2>2. mutex' \in [Sessions -> Callers \cup {NoCaller}]
    BY <1>11, CallFacts DEF Enter, TypeOK
  <2>3. CASE Stale(c)
    <3>1. OpenDay(Home[c], today)
      BY <1>11, <2>3 DEF Enter
    <3>2. Home[c] \in Sessions
      BY CallFacts
    <3>3. /\ UNCHANGED <<today, session, expired, seq, accepted, executed, faults>>
      BY <1>11 DEF Enter
    <3> QED BY <2>1, <2>2, <3>1, <3>2, <3>3, OpenDayType DEF TypeOK, CallOK
  <2>4. CASE ~Stale(c)
    BY <1>11, <2>1, <2>2, <2>4, <1>a DEF TypeOK, Enter, CallOK, NodeType
  <2> QED BY <2>3, <2>4
<1>12. ASSUME NEW c \in Callers, CannotReopen(c) PROVE TypeOK'
  <2>1. CallOK(call') /\ accepted' \subseteq EventType /\ executed' \subseteq EventType
    BY <1>12, ReturnedOK DEF CannotReopen
  <2> QED BY <1>12, <2>1, <1>a, <1>f DEF TypeOK, CannotReopen, CallOK, NodeType
<1>13. ASSUME NEW c \in Callers, NEW x \in NodeType,
              nodes' = [nodes EXCEPT ![File(c).node] = x], UNCHANGED <<dir, current>>
       PROVE  /\ dir' \in [Days -> 0 .. Len(nodes')] /\ nodes' \in Seq(NodeType)
              /\ current' \in [Sessions -> [day : 0 .. MaxDay, node : 0 .. Len(nodes')]]
              /\ \A s \in Sessions : current'[s].node # 0 => current'[s].day # 0
  <2>1. nodes' \in Seq(NodeType) /\ Len(nodes') = Len(nodes)
    BY <1>13, <1>b, NodeUpdate
  <2> QED BY <1>13, <2>1 DEF TypeOK
<1>14. ASSUME NEW c \in Callers, call[c].at \in Holding
       PROVE  nodes[File(c).node] \in NodeType
  <2>1. File(c).node \in 1 .. Len(nodes)
    BY <1>14, <1>b, CallFacts DEF Exclusive
  <2> QED BY <1>b, <2>1
<1>15. ASSUME NEW c \in Callers, Lock(c) PROVE TypeOK'
  <2>1. CallOK(call') /\ call[c].at \in Holding
    BY <1>15, AtOK DEF Lock, Holding
  <2>2. [nodes[File(c).node] EXCEPT !.flock = Home[c]] \in NodeType
    BY <2>1, <1>14, CallFacts DEF NodeType
  <2>3. nodes' = [nodes EXCEPT ![File(c).node] = [nodes[File(c).node] EXCEPT !.flock = Home[c]]]
    BY <1>15 DEF Lock
  <2>4. UNCHANGED <<dir, current>>
    BY <1>15 DEF Lock
  <2> QED BY <1>15, <2>1, <2>2, <2>3, <2>4, <1>13 DEF TypeOK, Lock, CallOK, NodeType
<1>16. ASSUME NEW c \in Callers, WriteFirst(c) \/ WriteRest(c) PROVE TypeOK'
  <2>1. /\ CallOK(call') /\ call[c].at \in Holding
        /\ Piece(c, 1) \/ Piece(c, 2)
        /\ UNCHANGED <<today, dir, session, current, expired, seq, mutex, history, faults>>
    BY <1>16, AtOK DEF WriteFirst, WriteRest, Holding
  <2>2. PICK h \in {1, 2} : Piece(c, h)
    BY <2>1
  <2> DEFINE y == [nodes[File(c).node] EXCEPT !.text = Append(@, <<Event(c), h>>)]
  <2>3. <<Event(c), h>> \in PieceType
    BY <2>1, CallFacts DEF Holding, PieceType
  <2>4. y \in NodeType
    <3>1. nodes[File(c).node] \in NodeType
      BY <2>1, <1>14
    <3>2. Append(nodes[File(c).node].text, <<Event(c), h>>) \in Seq(PieceType)
      BY <3>1, <2>3 DEF NodeType
    <3> QED BY <3>1, <3>2 DEF NodeType
  <2>5. nodes' = [nodes EXCEPT ![File(c).node] = y]
    BY <2>2 DEF Piece
  <2> HIDE DEF y
  <2> QED BY <2>1, <2>4, <2>5, <1>13 DEF TypeOK, CallOK, NodeType
<1>17. ASSUME NEW c \in Callers, DiskFull(c) PROVE TypeOK'
  <2>1. CallOK(call')
    BY <1>17, AtOK DEF DiskFull
  <2> QED BY <1>17, <2>1, <1>a, <1>f DEF TypeOK, DiskFull, CallOK, NodeType
<1>18. ASSUME NEW c \in Callers, Leave(c) PROVE TypeOK'
  <2>1. /\ call[c].at \in Holding
        /\ \E ok \in BOOLEAN : Returned(c, ok)
        /\ faults' \in 0 .. MaxFaults
    BY <1>18, <1>f DEF Leave, Holding, TypeOK
  <2>2. CallOK(call') /\ accepted' \subseteq EventType /\ executed' \subseteq EventType
    BY <2>1, ReturnedOK DEF Holding
  <2>3. [nodes[File(c).node] EXCEPT !.flock = NoSession] \in NodeType
    BY <2>1, <1>14 DEF NodeType
  <2>4. nodes' = [nodes EXCEPT ![File(c).node] = [nodes[File(c).node] EXCEPT !.flock = NoSession]]
    BY <1>18 DEF Leave, Unlocked
  <2>5. /\ mutex' \in [Sessions -> Callers \cup {NoCaller}]
        /\ UNCHANGED <<today, dir, session, current, expired, seq>>
    BY <1>18, CallFacts DEF Leave, TypeOK
  <2> QED BY <2>1, <2>2, <2>3, <2>4, <2>5, <1>13 DEF TypeOK, CallOK, NodeType
<1>19. CASE Midnight
  <2>1. today' \in Days
    BY <1>19, <1>b DEF Midnight, TypeOK, Days
  <2> QED BY <1>19, <2>1, <1>a DEF TypeOK, Midnight, NodeType
<1> QED
  BY <1>1, <1>2, <1>3, <1>4, <1>5, <1>6, <1>7, <1>8, <1>9, <1>10, <1>11, <1>12, <1>15,
     <1>16, <1>17, <1>18, <1>19 DEF Next, Record

-----------------------------------------------------------------------------
(* What a step does to a task. *)

LEMMA AtCall ==
  ASSUME TypeOK, NEW c \in Callers, NEW p, call' = At(c, p)
  PROVE  /\ \A b \in Callers : b # c => call'[b] = call[b]
         /\ call'[c].at = p /\ call'[c].seq = call[c].seq /\ call'[c].day = call[c].day
<1>1. call \in [Callers -> CallType] /\ call[c] \in CallType
  BY DEF TypeOK
<1> QED BY <1>1 DEF At, CallType

LEMMA ReturnedCall ==
  ASSUME TypeOK, NEW c \in Callers, NEW ok \in BOOLEAN, Returned(c, ok)
  PROVE  /\ \A b \in Callers : b # c => call'[b] = call[b]
         /\ \/ call'[c] = Idle
            \/ /\ ok /\ call'[c].at = "execute"
               /\ call'[c].seq = call[c].seq /\ call'[c].day = call[c].day
<1>1. call \in [Callers -> CallType]
  BY DEF TypeOK
<1>2. CASE After(c, ok) = "idle"
  BY <1>1, <1>2 DEF Returned
<1>3. CASE After(c, ok) # "idle"
  <2>1. ok /\ call' = At(c, "execute")
    BY <1>3 DEF Returned, After
  <2> QED BY <2>1, AtCall
<1> QED BY <1>2, <1>3

LEMMA StampedCall ==
  ASSUME TypeOK, NEW c \in Callers, NEW kind, call' = [call EXCEPT ![c] = Stamped(c, kind)],
         seq' = NextSeq(Home[c])
  PROVE  /\ \A b \in Callers : b # c => call'[b] = call[b]
         /\ call'[c].at = "stamped" /\ call'[c].seq = seq[Home[c]] /\ call'[c].day = today
         /\ seq'[Home[c]] = seq[Home[c]] + 1
         /\ \A s \in Sessions : s # Home[c] => seq'[s] = seq[s]
BY AuditAssumption DEF TypeOK, Stamped, NextSeq

LEMMA NodesTyped ==
  ASSUME TypeOK
  PROVE  /\ nodes \in Seq(NodeType) /\ Len(nodes) \in Nat /\ DOMAIN nodes = 1 .. Len(nodes)
         /\ \A n \in DOMAIN nodes : nodes[n] \in NodeType
<1>1. nodes \in Seq(NodeType)
  BY DEF TypeOK, NodeType
<1> QED BY <1>1

LEMMA KillCall ==
  ASSUME TypeOK, NEW s \in Sessions, Kill(s)
  PROVE  /\ \A b \in Callers : call'[b] = IF Home[b] = s THEN Idle ELSE call[b]
         /\ \A r \in Sessions : r # s => /\ mutex'[r] = mutex[r] /\ current'[r] = current[r]
                                        /\ expired'[r] = expired[r] /\ session'[r] = session[r]
         /\ current'[s] = NoFile /\ expired'[s] = {} /\ mutex'[s] = NoCaller
         /\ DOMAIN nodes' = DOMAIN nodes
         /\ \A n \in DOMAIN nodes : nodes'[n].text = nodes[n].text
         /\ \A n \in DOMAIN nodes : nodes[n].flock # s => nodes'[n].flock = nodes[n].flock
<1> DEFINE freed(n) == IF nodes[n].flock = s THEN [nodes[n] EXCEPT !.flock = NoSession]
                       ELSE nodes[n]
<1>1. \A n \in DOMAIN nodes : nodes[n] \in NodeType
  BY NodesTyped
<1>2. \A n \in DOMAIN nodes : /\ freed(n).text = nodes[n].text
                              /\ nodes[n].flock # s => freed(n).flock = nodes[n].flock
  BY <1>1 DEF NodeType
<1>3. nodes' = [n \in DOMAIN nodes |-> freed(n)]
  BY DEF Kill
<1> HIDE DEF freed
<1>4. /\ DOMAIN nodes' = DOMAIN nodes
      /\ \A n \in DOMAIN nodes : nodes'[n].text = nodes[n].text
      /\ \A n \in DOMAIN nodes : nodes[n].flock # s => nodes'[n].flock = nodes[n].flock
  BY <1>2, <1>3
<1> QED BY <1>4 DEF Kill, TypeOK

LEMMA PieceNodes ==
  ASSUME TypeOK, NEW c \in Callers, NEW h \in {1, 2}, Piece(c, h),
         File(c).node \in DOMAIN nodes
  PROVE  /\ DOMAIN nodes' = DOMAIN nodes
         /\ \A n \in DOMAIN nodes : nodes'[n].flock = nodes[n].flock
         /\ \A n \in DOMAIN nodes : n # File(c).node => nodes'[n].text = nodes[n].text
         /\ nodes'[File(c).node].text = Append(nodes[File(c).node].text, <<Event(c), h>>)
<1> DEFINE F == File(c).node
           y == [nodes[F] EXCEPT !.text = Append(@, <<Event(c), h>>)]
<1>1. nodes[F] \in NodeType
  BY NodesTyped
<1>2. y.flock = nodes[F].flock /\ y.text = Append(nodes[F].text, <<Event(c), h>>)
  BY <1>1 DEF NodeType
<1>3. nodes' = [nodes EXCEPT ![F] = y] /\ F \in DOMAIN nodes
  BY DEF Piece
<1> HIDE DEF y, F
<1>4. /\ DOMAIN nodes' = DOMAIN nodes /\ nodes'[F] = y
      /\ \A n \in DOMAIN nodes : n # F => nodes'[n] = nodes[n]
  BY <1>3
<1>5. /\ DOMAIN nodes' = DOMAIN nodes
      /\ \A n \in DOMAIN nodes : nodes'[n].flock = nodes[n].flock
      /\ \A n \in DOMAIN nodes : n # F => nodes'[n].text = nodes[n].text
      /\ nodes'[F].text = Append(nodes[F].text, <<Event(c), h>>)
  BY <1>2, <1>4
<1> QED BY <1>5 DEF F

LEMMA FlockNodes ==
  ASSUME TypeOK, NEW n \in DOMAIN nodes, NEW x,
         nodes' = [nodes EXCEPT ![n] = [nodes[n] EXCEPT !.flock = x]]
  PROVE  /\ DOMAIN nodes' = DOMAIN nodes
         /\ nodes'[n].flock = x
         /\ \A m \in DOMAIN nodes : m # n => nodes'[m].flock = nodes[m].flock
         /\ \A m \in DOMAIN nodes : nodes'[m].text = nodes[m].text
<1> DEFINE y == [nodes[n] EXCEPT !.flock = x]
<1>1. nodes[n] \in NodeType
  BY NodesTyped
<1>2. y.flock = x /\ y.text = nodes[n].text
  BY <1>1 DEF NodeType
<1> HIDE DEF y
<1>3. /\ DOMAIN nodes' = DOMAIN nodes /\ nodes'[n] = y
      /\ \A m \in DOMAIN nodes : m # n => nodes'[m] = nodes[m]
  BY DEF y
<1> QED BY <1>2, <1>3

LEMMA HeldFile ==
  ASSUME TypeOK, Exclusive, NEW c \in Callers, call[c].at \in Holding
  PROVE  File(c).node \in DOMAIN nodes /\ mutex[Home[c]] = c /\ Home[c] \in Sessions
<1>1. Len(nodes) \in Nat /\ DOMAIN nodes = 1 .. Len(nodes)
  BY DEF TypeOK
<1> QED BY <1>1, CallFacts DEF Exclusive

-----------------------------------------------------------------------------
(* One writer per process, one process per file. *)

LEMMA ExclusiveStep ==
  ASSUME TypeOK, UpOnly, Exclusive, [Next]_vars
  PROVE  UpOnly' /\ Exclusive'
<1> USE DEF files, history
<1>0. \A c \in Callers : Home[c] \in Sessions /\ c # NoCaller
  BY AuditAssumption
<1>s. \A s \in Sessions : s # NoSession
  BY AuditAssumption
<1>t. session \in [Sessions -> {"new", "opened", "cleaning", "up", "down"}]
  BY DEF TypeOK
<1>h. \A c \in Callers : call[c].at \in Holding => File(c).node \in DOMAIN nodes
  BY HeldFile
<1>1. CASE UNCHANGED vars
  BY <1>1 DEF vars, UpOnly, Exclusive, File
<1>2. ASSUME NEW s \in Sessions, StartSession(s) PROVE UpOnly' /\ Exclusive'
  <2>1. /\ session[s] = "new" /\ OpenDay(s, today)
        /\ \A r \in Sessions : r # s => session'[r] = session[r]
        /\ UNCHANGED <<call, mutex>>
    BY <1>2, <1>t DEF StartSession
  <2>2. \A c \in Callers : call[c].at # "idle" => Home[c] # s
    BY <2>1 DEF UpOnly
  <2>3. UpOnly'
    BY <2>1, <2>2, <1>0 DEF UpOnly
  <2>4. /\ \A n \in DOMAIN nodes : n \in DOMAIN nodes' /\ nodes'[n] = nodes[n]
        /\ \A r \in Sessions \ {s} : current'[r] = current[r]
    BY <2>1, OpenDayType
  <2> QED BY <2>1, <2>2, <2>3, <2>4, <1>0, <1>h DEF Exclusive, Holding, Locked, File
<1>3. ASSUME NEW s \in Sessions, StartWithoutWriter(s) \/ ListExpired(s) \/ Cleaned(s)
      PROVE UpOnly' /\ Exclusive'
  <2>1. /\ session[s] # "up" /\ \A r \in Sessions : r # s => session'[r] = session[r]
        /\ UNCHANGED <<call, mutex, current, nodes>>
    BY <1>3, <1>t DEF StartWithoutWriter, ListExpired, Cleaned
  <2> QED BY <2>1, <1>0 DEF UpOnly, Exclusive, File
<1>4. ASSUME NEW s \in Sessions, Kill(s) PROVE UpOnly' /\ Exclusive'
  <2>1. \A c \in Callers : call'[c].at # "idle" => Home[c] # s /\ call'[c] = call[c]
    BY <1>4, KillCall DEF Idle
  <2>2. UpOnly'
    BY <1>4, <2>1, <1>0, KillCall DEF UpOnly
  <2> QED BY <1>4, <2>1, <2>2, <1>0, <1>h, <1>s, KillCall DEF Exclusive, Holding, Locked, File
<1>5. ASSUME NEW s \in Sessions, NEW d \in Days, RemoveExpired(s, d) PROVE UpOnly' /\ Exclusive'
  BY <1>5 DEF RemoveExpired, UpOnly, Exclusive, File
<1>6. ASSUME NEW c \in Callers, Intend(c) \/ Deny(c) \/ Query(c) \/ Execute(c)
      PROVE UpOnly' /\ Exclusive'
  <2>1. PICK kind \in {"intent", "deny", "outcome"} : 
          /\ call' = [call EXCEPT ![c] = Stamped(c, kind)] /\ seq' = NextSeq(Home[c])
    BY <1>6 DEF Intend, Deny, Query, Execute, Stamp
  <2>2. session[Home[c]] = "up" /\ UNCHANGED <<session, mutex, current, nodes>>
    BY <1>6 DEF Intend, Deny, Query, Execute, Stamp, Ready, UpOnly
  <2>3. call'[c].at = "stamped" /\ \A b \in Callers : b # c => call'[b] = call[b]
    BY <2>1, StampedCall
  <2> QED BY <2>2, <2>3 DEF UpOnly, Exclusive, Holding, Locked, File
<1>7. ASSUME NEW c \in Callers, NoWriter(c) \/ CannotReopen(c) PROVE UpOnly' /\ Exclusive'
  <2>1. /\ call[c].at = "stamped" /\ Returned(c, FALSE)
        /\ UNCHANGED <<session, mutex, current, nodes>>
    BY <1>7 DEF NoWriter, CannotReopen
  <2>2. call'[c] = Idle /\ \A b \in Callers : b # c => call'[b] = call[b]
    BY <2>1, ReturnedCall
  <2> QED BY <2>1, <2>2 DEF UpOnly, Exclusive, Holding, Locked, File, Idle
<1>8. ASSUME NEW c \in Callers, Enter(c) PROVE UpOnly' /\ Exclusive'
  <2>1. /\ call[c].at = "stamped" /\ mutex[Home[c]] = NoCaller /\ File(c).node # 0
        /\ mutex' = [mutex EXCEPT ![Home[c]] = c] /\ call' = At(c, "entered")
        /\ UNCHANGED session
    BY <1>8 DEF Enter, FreeMutex
  <2>2. call'[c].at = "entered" /\ \A b \in Callers : b # c => call'[b] = call[b]
    BY <2>1, AtCall
  <2>3. mutex'[Home[c]] = c /\ \A s \in Sessions : s # Home[c] => mutex'[s] = mutex[s]
    BY <2>1, <1>0 DEF TypeOK
  <2>4. \A b \in Callers : call'[b].at \in Holding => b = c \/ Home[b] # Home[c]
    BY <2>1, <2>2, <1>0 DEF Exclusive
  <2>5. /\ current'[Home[c]].node # 0
        /\ \A s \in Sessions : s # Home[c] => current'[s] = current[s]
        /\ \A n \in DOMAIN nodes : nodes'[n] = nodes[n]
    <3>1. CASE Stale(c)
      <4>1. OpenDay(Home[c], today)
        BY <1>8, <3>1 DEF Enter
      <4>2. 0 \notin DOMAIN nodes'
        BY <4>1, <1>0, OpenDayType
      <4> QED BY <4>1, <4>2, <1>0, OpenDayType
    <3>2. CASE ~Stale(c)
      BY <1>8, <2>1, <3>2 DEF Enter, File
    <3> QED BY <3>1, <3>2
  <2>6. UpOnly'
    BY <2>1, <2>2 DEF UpOnly
  <2>7. ASSUME NEW b \in Callers, b # c, call'[b].at \in Holding
        PROVE  /\ mutex'[Home[b]] = b /\ File(b)'.node # 0
               /\ call'[b].at \in Locked => nodes'[File(b)'.node].flock = Home[b]
    <3>1. Home[b] # Home[c] /\ call'[b] = call[b]
      BY <2>2, <2>4, <2>7
    <3>2. mutex'[Home[b]] = mutex[Home[b]] /\ File(b)' = File(b)
      BY <3>1, <2>3, <2>5, <1>0 DEF File
    <3> QED BY <3>1, <3>2, <2>5, <2>7, <1>h DEF Exclusive
  <2> QED BY <2>2, <2>3, <2>5, <2>6, <2>7 DEF Exclusive, Holding, Locked, File
<1>9. ASSUME NEW c \in Callers, Lock(c) PROVE UpOnly' /\ Exclusive'
  <2>1. /\ call[c].at = "entered" /\ nodes[File(c).node].flock = NoSession
        /\ nodes' = [nodes EXCEPT ![File(c).node] = [nodes[File(c).node] EXCEPT !.flock = Home[c]]]
        /\ call' = At(c, "locked") /\ UNCHANGED <<session, mutex, current>>
    BY <1>9 DEF Lock, Lockable
  <2>2. call'[c].at = "locked" /\ \A b \in Callers : b # c => call'[b] = call[b]
    BY <2>1, AtCall
  <2>3. call[c].at \in Holding
    BY <2>1 DEF Holding
  <2>4. /\ nodes'[File(c).node].flock = Home[c]
        /\ \A n \in DOMAIN nodes : n # File(c).node => nodes'[n].flock = nodes[n].flock
    BY <2>1, <2>3, <1>h, FlockNodes
  <2> QED BY <2>1, <2>2, <2>3, <2>4, <1>0, <1>s, <1>h DEF UpOnly, Exclusive, Holding, Locked, File
<1>10. ASSUME NEW c \in Callers, WriteFirst(c) \/ WriteRest(c) PROVE UpOnly' /\ Exclusive'
  <2>1. PICK p \in {"half", "written"} :
          call' = At(c, p) /\ UNCHANGED <<session, mutex, current>>
    BY <1>10 DEF WriteFirst, WriteRest
  <2>2. call[c].at \in Locked /\ call[c].at \in Holding /\ call[c].at # "idle"
    BY <1>10 DEF WriteFirst, WriteRest, Locked, Holding
  <2>3. call'[c].at = p /\ \A b \in Callers : b # c => call'[b] = call[b]
    BY <2>1, AtCall
  <2>4. \A n \in DOMAIN nodes : nodes'[n].flock = nodes[n].flock
    BY <1>10, <2>2, <1>h, PieceNodes DEF WriteFirst, WriteRest
  <2> QED BY <2>1, <2>2, <2>3, <2>4, <1>h DEF UpOnly, Exclusive, Holding, Locked, File
<1>11. ASSUME NEW c \in Callers, DiskFull(c) PROVE UpOnly' /\ Exclusive'
  <2>1. call' = At(c, "failed") /\ UNCHANGED <<session, mutex, current, nodes>>
    BY <1>11 DEF DiskFull
  <2>2. call[c].at \in Locked /\ call[c].at \in Holding /\ call[c].at # "idle"
    BY <1>11 DEF DiskFull, Locked, Holding
  <2>3. call'[c].at = "failed" /\ \A b \in Callers : b # c => call'[b] = call[b]
    BY <2>1, AtCall
  <2> QED BY <2>1, <2>2, <2>3 DEF UpOnly, Exclusive, Holding, Locked, File
<1>12. ASSUME NEW c \in Callers, Leave(c) PROVE UpOnly' /\ Exclusive'
  <2>1. /\ nodes' = [nodes EXCEPT ![File(c).node] = [nodes[File(c).node] EXCEPT !.flock = NoSession]]
        /\ mutex' = [mutex EXCEPT ![Home[c]] = NoCaller]
        /\ \E ok \in BOOLEAN : Returned(c, ok)
        /\ UNCHANGED <<session, current>>
    BY <1>12 DEF Leave, Unlocked
  <2>2. call[c].at \in Locked /\ call[c].at \in Holding /\ call[c].at # "idle"
    BY <1>12 DEF Leave, Locked, Holding
  <2>3. call'[c].at \in {"idle", "execute"} /\ \A b \in Callers : b # c => call'[b] = call[b]
    BY <2>1, ReturnedCall DEF Idle
  <2>4. /\ \A n \in DOMAIN nodes : n # File(c).node => nodes'[n].flock = nodes[n].flock
    BY <2>1, <2>2, <1>h, FlockNodes
  <2>5. \A s \in Sessions : s # Home[c] => mutex'[s] = mutex[s]
    BY <2>1 DEF TypeOK
  <2>6. \A b \in Callers : b # c /\ call[b].at \in Holding => Home[b] # Home[c]
    BY <2>2 DEF Exclusive
  <2>7. \A b \in Callers : b # c /\ call[b].at \in Locked => File(b).node # File(c).node
    BY <2>2, <2>6 DEF Exclusive, Locked
  <2> QED BY <2>1, <2>2, <2>3, <2>4, <2>5, <2>6, <2>7, <1>0, <1>h
          DEF UpOnly, Exclusive, Holding, Locked, File
<1>13. CASE Midnight
  BY <1>13 DEF Midnight, UpOnly, Exclusive, File
<1> QED
  BY <1>1, <1>2, <1>3, <1>4, <1>5, <1>6, <1>7, <1>8, <1>9, <1>10, <1>11, <1>12, <1>13
     DEF Next, Record

-----------------------------------------------------------------------------
(* What stands in the files: piece h of event e at place i of node n, and  *)
(* where each text ends.                                                   *)
Written ==
  {w \in Nat \X Nat \X EventType \X {1, 2} :
     w[1] \in DOMAIN nodes /\ w[2] \in DOMAIN Text(w[1]) /\ Text(w[1])[w[2]] = <<w[3], w[4]>>}
Ends == [n \in DOMAIN nodes |-> Len(Text(n))]

LEMMA WrittenFacts ==
  ASSUME TypeOK
  PROVE  /\ Written \subseteq Nat \X Nat \X EventType \X {1, 2}
         /\ \A w \in Written : w[1] \in DOMAIN nodes /\ w[2] \in 1 .. Ends[w[1]]
         /\ \A n \in DOMAIN nodes : Ends[n] \in Nat /\ DOMAIN Text(n) = 1 .. Ends[n]
         /\ \A n \in DOMAIN nodes : \A i \in DOMAIN Text(n) :
              <<n, i, Text(n)[i][1], Text(n)[i][2]>> \in Written
         /\ \A w \in Written : w[2] \in DOMAIN Text(w[1]) /\ Text(w[1])[w[2]] = <<w[3], w[4]>>
<1>1. \A n \in DOMAIN nodes : Text(n) \in Seq(PieceType)
  BY NodesTyped DEF NodeType, Text
<1>2. DOMAIN nodes \subseteq Nat
  BY NodesTyped
<1>3. \A n \in DOMAIN nodes : \A i \in DOMAIN Text(n) :
        /\ Text(n)[i][1] \in EventType /\ Text(n)[i][2] \in {1, 2}
        /\ Text(n)[i] = <<Text(n)[i][1], Text(n)[i][2]>>
  BY <1>1 DEF PieceType
<1>4. \A n \in DOMAIN nodes : Len(Text(n)) \in Nat /\ DOMAIN Text(n) = 1 .. Len(Text(n))
  BY <1>1
<1>5. \A n \in DOMAIN nodes : \A i \in DOMAIN Text(n) :
        <<n, i, Text(n)[i][1], Text(n)[i][2]>> \in Written
  BY <1>2, <1>3, <1>4 DEF Written
<1>6. \A w \in Written : w[1] \in DOMAIN nodes /\ w[2] \in DOMAIN Text(w[1])
                         /\ Text(w[1])[w[2]] = <<w[3], w[4]>>
  BY DEF Written
<1> QED BY <1>4, <1>5, <1>6 DEF Written, Ends

(* A step that leaves the texts alone, new files being empty.              *)
LEMMA TextsKept ==
  ASSUME TypeOK, TypeOK',
         \A n \in DOMAIN nodes : n \in DOMAIN nodes' /\ nodes'[n].text = nodes[n].text,
         \A n \in DOMAIN nodes' \ DOMAIN nodes : nodes'[n].text = <<>>
  PROVE  /\ Written' = Written
         /\ \A n \in DOMAIN nodes : n \in DOMAIN nodes' /\ Ends'[n] = Ends[n]
<1>1. Written \subseteq Written'
  BY DEF Written, Text
<1>2. ASSUME NEW w \in Written' PROVE w \in Written
  <2>1. w[1] \in DOMAIN nodes
    <3>1. CASE w[1] \notin DOMAIN nodes
      <4>1. nodes'[w[1]].text = <<>> /\ w[2] \in DOMAIN nodes'[w[1]].text
        BY <1>2, <3>1 DEF Written, Text
      <4>2. w[2] \in DOMAIN <<>>
        BY <4>1
      <4> QED BY <4>2
    <3> QED BY <3>1
  <2> QED BY <1>2, <2>1 DEF Written, Text
<1> QED BY <1>1, <1>2 DEF Ends, Text

LEMMA PieceWritten ==
  ASSUME TypeOK, TypeOK', NEW c \in Callers, NEW h \in {1, 2}, Piece(c, h),
         File(c).node \in DOMAIN nodes, Event(c) \in EventType
  PROVE  /\ Written' = Written \cup {<<File(c).node, Ends[File(c).node] + 1, Event(c), h>>}
         /\ \A n \in DOMAIN nodes : n \in DOMAIN nodes' /\ (n # File(c).node => Ends'[n] = Ends[n])
         /\ Ends'[File(c).node] = Ends[File(c).node] + 1
<1> DEFINE F == File(c).node
           e == Event(c)
           t == Text(F)
<1>1. /\ DOMAIN nodes' = DOMAIN nodes
      /\ \A n \in DOMAIN nodes : n # F => nodes'[n].text = nodes[n].text
      /\ nodes'[F].text = Append(t, <<e, h>>)
  BY PieceNodes DEF Text
<1>2. t \in Seq(PieceType) /\ <<e, h>> \in PieceType /\ F \in Nat
  BY NodesTyped DEF Text, NodeType, PieceType
<1> HIDE DEF t
<1>3. /\ Len(t) \in Nat /\ DOMAIN t = 1 .. Len(t)
      /\ Len(Append(t, <<e, h>>)) = Len(t) + 1
      /\ DOMAIN Append(t, <<e, h>>) = 1 .. Len(t) + 1
      /\ \A i \in DOMAIN t : Append(t, <<e, h>>)[i] = t[i]
      /\ Append(t, <<e, h>>)[Len(t) + 1] = <<e, h>>
  BY <1>2
<1> USE DEF t
<1>4. Ends[F] = Len(t) /\ Ends'[F] = Len(t) + 1
  BY <1>1, <1>3 DEF Ends, Text
<1>5. \A n \in DOMAIN nodes : n # F => Ends'[n] = Ends[n]
  BY <1>1 DEF Ends, Text
<1> HIDE DEF t, e, F
<1>6. Written \subseteq Written'
  <2> SUFFICES ASSUME NEW w \in Written PROVE w \in Written'
    OBVIOUS
  <2>1. CASE w[1] = F
    BY <2>1, <1>1, <1>3 DEF Written, Text, t
  <2>2. CASE w[1] # F
    BY <2>2, <1>1 DEF Written, Text
  <2> QED BY <2>1, <2>2
<1>7. <<F, Len(t) + 1, e, h>> \in Written'
  <2>1. <<F, Len(t) + 1, e, h>> \in Nat \X Nat \X EventType \X {1, 2}
    BY <1>2, <1>3 DEF e
  <2>2. F \in DOMAIN nodes' /\ Len(t) + 1 \in DOMAIN nodes'[F].text
        /\ nodes'[F].text[Len(t) + 1] = <<e, h>>
    BY <1>1, <1>3 DEF F
  <2> QED BY <2>1, <2>2 DEF Written, Text
<1>8. ASSUME NEW w \in Written' PROVE w \in Written \/ w = <<F, Len(t) + 1, e, h>>
  <2>0. /\ w \in Nat \X Nat \X EventType \X {1, 2} /\ w = <<w[1], w[2], w[3], w[4]>>
        /\ w[1] \in DOMAIN nodes' /\ w[2] \in DOMAIN nodes'[w[1]].text
        /\ nodes'[w[1]].text[w[2]] = <<w[3], w[4]>>
    BY <1>8 DEF Written, Text
  <2>1. CASE w[1] # F
    BY <2>0, <2>1, <1>1 DEF Written, Text
  <2>2. CASE w[1] = F /\ w[2] = Len(t) + 1
    <3>1. <<w[3], w[4]>> = <<e, h>>
      BY <2>0, <2>2, <1>1, <1>3
    <3> QED BY <2>0, <2>2, <3>1
  <2>3. CASE w[1] = F /\ w[2] # Len(t) + 1
    <3>1. w[2] \in DOMAIN t
      BY <2>0, <2>3, <1>1, <1>3
    <3>2. t[w[2]] = <<w[3], w[4]>>
      BY <2>0, <2>3, <3>1, <1>1, <1>3
    <3> QED BY <2>0, <2>3, <3>1, <3>2, <1>1 DEF Written, Text, t
  <2> QED BY <2>1, <2>2, <2>3
<1> QED BY <1>1, <1>4, <1>5, <1>6, <1>7, <1>8 DEF F, e

-----------------------------------------------------------------------------
(* The steps, seen from a task and from the texts. *)

Fresh(c) ==
  /\ call'[c].at = "stamped" /\ call'[c].seq = seq[Home[c]] /\ call'[c].day = today
  /\ seq'[Home[c]] = seq[Home[c]] + 1
  /\ \A b \in Callers : b # c => call'[b] = call[b]

Onward(c) == call'[c].seq = call[c].seq /\ call'[c].day = call[c].day /\ call[c].at # "idle"

Quiet == \A c \in Callers : ~WriteFirst(c) /\ ~WriteRest(c)

(* A task keeps its place, or gives up, or starts on a new event, or goes  *)
(* one place on with the event it has.                                     *)
LEMMA CallMoves ==
  ASSUME TypeOK, [Next]_vars, Quiet
  PROVE  \A c \in Callers :
           \/ call'[c] = call[c]
           \/ call'[c].at = "idle"
           \/ Fresh(c)
           \/ /\ Onward(c)
              /\ \/ call[c].at = "stamped" /\ call'[c].at = "entered"
                 \/ call[c].at = "entered" /\ call'[c].at = "locked"
                 \/ call[c].at \in {"locked", "half"} /\ call'[c].at = "failed"
                 \/ call[c].at = "written" /\ call'[c].at = "execute" /\ Event(c) \in accepted'
<1> USE DEF files, history
<1> SUFFICES ASSUME NEW c \in Callers PROVE 
           \/ call'[c] = call[c]
           \/ call'[c].at = "idle"
           \/ Fresh(c)
           \/ /\ Onward(c)
              /\ \/ call[c].at = "stamped" /\ call'[c].at = "entered"
                 \/ call[c].at = "entered" /\ call'[c].at = "locked"
                 \/ call[c].at \in {"locked", "half"} /\ call'[c].at = "failed"
                 \/ call[c].at = "written" /\ call'[c].at = "execute" /\ Event(c) \in accepted'
  OBVIOUS
<1>1. CASE UNCHANGED vars
  BY <1>1 DEF vars
<1>2. ASSUME NEW s \in Sessions,
             StartSession(s) \/ StartWithoutWriter(s) \/ ListExpired(s) \/ Cleaned(s)
      PROVE call'[c] = call[c]
  BY <1>2 DEF StartSession, StartWithoutWriter, ListExpired, Cleaned
<1>4. ASSUME NEW s \in Sessions, Kill(s) PROVE call'[c] = call[c] \/ call'[c].at = "idle"
  BY <1>4, KillCall DEF Idle
<1>5. ASSUME NEW s \in Sessions, NEW d \in Days, RemoveExpired(s, d) PROVE call'[c] = call[c]
  BY <1>5 DEF RemoveExpired
<1>6. ASSUME NEW b \in Callers, Intend(b) \/ Deny(b) \/ Query(b) \/ Execute(b)
      PROVE call'[c] = call[c] \/ Fresh(c)
  <2>1. PICK kind \in {"intent", "deny", "outcome"} :
          /\ call' = [call EXCEPT ![b] = Stamped(b, kind)] /\ seq' = NextSeq(Home[b])
    BY <1>6 DEF Intend, Deny, Query, Execute, Stamp
  <2> QED BY <2>1, StampedCall DEF Fresh
<1>7. ASSUME NEW b \in Callers, NoWriter(b) \/ CannotReopen(b)
      PROVE call'[c] = call[c] \/ call'[c].at = "idle"
  <2>1. Returned(b, FALSE)
    BY <1>7 DEF NoWriter, CannotReopen
  <2>2. call'[b] = Idle /\ \A a \in Callers : a # b => call'[a] = call[a]
    BY <2>1, ReturnedCall
  <2> QED BY <2>2 DEF Idle
<1>8. ASSUME NEW b \in Callers, Enter(b) \/ Lock(b) \/ DiskFull(b)
      PROVE \/ call'[c] = call[c]
            \/ /\ Onward(c)
               /\ \/ call[c].at = "stamped" /\ call'[c].at = "entered"
                  \/ call[c].at = "entered" /\ call'[c].at = "locked"
                  \/ call[c].at \in {"locked", "half"} /\ call'[c].at = "failed"
  <2>1. CASE Enter(b)
    BY <2>1, AtCall DEF Enter, Onward
  <2>2. CASE Lock(b)
    BY <2>2, AtCall DEF Lock, Onward
  <2>3. CASE DiskFull(b)
    BY <2>3, AtCall DEF DiskFull, Onward
  <2> QED BY <1>8, <2>1, <2>2, <2>3
<1>9. ASSUME NEW b \in Callers, Leave(b)
      PROVE \/ call'[c] = call[c] \/ call'[c].at = "idle"
            \/ /\ Onward(c) /\ call[c].at = "written" /\ call'[c].at = "execute"
               /\ Event(c) \in accepted'
  <2>1. PICK ok \in BOOLEAN : Returned(b, ok) /\ (ok => call[b].at = "written")
    BY <1>9 DEF Leave
  <2> QED BY <2>1, ReturnedCall DEF Idle, Onward, Returned
<1>10. CASE Midnight
  BY <1>10 DEF Midnight
<1> QED
  BY <1>1, <1>2, <1>4, <1>5, <1>6, <1>7, <1>8, <1>9, <1>10 DEF Next, Record, Quiet

LEMMA QuietTexts ==
  ASSUME TypeOK, TypeOK', Exclusive, [Next]_vars, Quiet
  PROVE  /\ Written' = Written
         /\ \A n \in DOMAIN nodes : n \in DOMAIN nodes' /\ Ends'[n] = Ends[n]
<1> USE DEF files, history
<1> DEFINE Kept == /\ \A n \in DOMAIN nodes : n \in DOMAIN nodes' /\ nodes'[n].text = nodes[n].text
                   /\ \A n \in DOMAIN nodes' \ DOMAIN nodes : nodes'[n].text = <<>>
<1>1. ASSUME nodes' = nodes PROVE Kept
  BY <1>1
<1>2. ASSUME NEW s \in Sessions, OpenDay(s, today) PROVE Kept
  BY <1>2, OpenDayType
<1>3. ASSUME NEW s \in Sessions, Kill(s) PROVE Kept
  BY <1>3, KillCall
<1>4. ASSUME NEW c \in Callers, call[c].at \in Holding, NEW x,
             nodes' = [nodes EXCEPT ![File(c).node] = [nodes[File(c).node] EXCEPT !.flock = x]]
      PROVE Kept
  BY <1>4, HeldFile, FlockNodes
<1>5. ASSUME NEW c \in Callers, Lock(c) \/ Leave(c) PROVE Kept
  <2>1. CASE Lock(c)
    BY <2>1, <1>4 DEF Lock, Holding
  <2>2. CASE Leave(c)
    BY <2>2, <1>4 DEF Leave, Unlocked, Holding
  <2> QED BY <1>5, <2>1, <2>2
<1>6. ASSUME NEW c \in Callers, Enter(c) PROVE Kept
  BY <1>1, <1>2, <1>6, CallFacts DEF Enter
<1>7. ASSUME NEW s \in Sessions,
             StartSession(s) \/ StartWithoutWriter(s) \/ ListExpired(s) \/ Cleaned(s)
      PROVE Kept
  BY <1>1, <1>2, <1>7 DEF StartSession, StartWithoutWriter, ListExpired, Cleaned
<1>8. ASSUME NEW c \in Callers, Intend(c) \/ Deny(c) \/ Query(c) \/ Execute(c) \/ NoWriter(c)
                                \/ CannotReopen(c) \/ DiskFull(c)
      PROVE Kept
  BY <1>1, <1>8 DEF Intend, Deny, Query, Stamp, Execute, NoWriter, CannotReopen, DiskFull
<1>9. ASSUME NEW s \in Sessions, NEW d \in Days, RemoveExpired(s, d) PROVE Kept
  BY <1>1, <1>9 DEF RemoveExpired
<1>10. ASSUME Midnight \/ UNCHANGED vars PROVE Kept
  BY <1>1, <1>10 DEF Midnight, vars
<1> HIDE DEF Kept
<1>11. Kept
  BY <1>3, <1>5, <1>6, <1>7, <1>8, <1>9, <1>10 DEF Next, Record, Quiet
<1> QED BY <1>11, TextsKept DEF Kept

(* A task that holds the mutex keeps its file.                             *)
LEMMA FileKept ==
  ASSUME TypeOK, UpOnly, Exclusive, [Next]_vars, NEW c \in Callers,
         call[c].at \in Holding, call'[c].at \in Holding
  PROVE  File(c)' = File(c)
<1> USE DEF files, history
<1>0. Home[c] \in Sessions /\ session[Home[c]] = "up" /\ mutex[Home[c]] = c /\ c # NoCaller
  BY AuditAssumption, HeldFile DEF UpOnly, Holding
<1>1. ASSUME current' = current PROVE File(c)' = File(c)
  BY <1>1 DEF File
<1>2. ASSUME NEW s \in Sessions, StartSession(s) PROVE File(c)' = File(c)
  <2>1. s # Home[c] /\ OpenDay(s, today)
    BY <1>0, <1>2 DEF StartSession
  <2> QED BY <1>0, <2>1, OpenDayType DEF File
<1>3. ASSUME NEW s \in Sessions, Kill(s) PROVE File(c)' = File(c)
  <2>1. s # Home[c]
    BY <1>3, KillCall DEF Holding, Idle
  <2> QED BY <1>0, <1>3, <2>1, KillCall DEF File
<1>4. ASSUME NEW b \in Callers, Enter(b) PROVE File(c)' = File(c)
  <2>1. Home[b] # Home[c] /\ Home[b] \in Sessions
    BY <1>0, <1>4, AuditAssumption DEF Enter, FreeMutex
  <2>2. CASE Stale(b)
    <3>1. OpenDay(Home[b], today)
      BY <1>4, <2>2 DEF Enter
    <3> QED BY <1>0, <2>1, <3>1, OpenDayType DEF File
  <2>3. CASE ~Stale(b)
    BY <1>1, <1>4, <2>3 DEF Enter
  <2> QED BY <2>2, <2>3
<1>5. ASSUME NEW s \in Sessions, StartWithoutWriter(s) \/ ListExpired(s) \/ Cleaned(s)
      PROVE current' = current
  BY <1>5 DEF StartWithoutWriter, ListExpired, Cleaned
<1>6. ASSUME NEW b \in Callers, Intend(b) \/ Deny(b) \/ Query(b) \/ Execute(b) \/ NoWriter(b)
               \/ CannotReopen(b) \/ DiskFull(b) \/ Lock(b) \/ WriteFirst(b) \/ WriteRest(b)
               \/ Leave(b)
      PROVE current' = current
  BY <1>6 DEF Intend, Deny, Query, Stamp, Execute, NoWriter, CannotReopen, DiskFull, Lock,
              WriteFirst, WriteRest, Leave
<1>7. ASSUME NEW s \in Sessions, NEW d \in Days, RemoveExpired(s, d) PROVE current' = current
  BY <1>7 DEF RemoveExpired
<1>8. ASSUME Midnight \/ UNCHANGED vars PROVE current' = current
  BY <1>8 DEF Midnight, vars
<1> QED BY <1>1, <1>2, <1>3, <1>4, <1>5, <1>6, <1>7, <1>8 DEF Next, Record

-----------------------------------------------------------------------------
(* Sequence numbers identify the events of a process.                      *)
Numbered ==
  /\ \A c \in Callers : call[c].at # "idle" => call[c].seq < seq[Home[c]]
  /\ \A b, c \in Callers :
       b # c /\ Home[b] = Home[c] /\ call[b].at # "idle" /\ call[c].at # "idle"
         => call[b].seq # call[c].seq
  /\ \A w \in Written : w[3][2] < seq[w[3][1]]

(* Events whose two pieces stand one behind the other.                     *)
Whole ==
  {e \in EventType : \E n, i \in Nat : <<n, i, e, 1>> \in Written /\ <<n, i + 1, e, 2>> \in Written}

(* What a task has written of its event, by its place in record().         *)
Own ==
  \A c \in Callers :
    /\ call[c].at \in {"stamped", "entered", "locked"} => \A w \in Written : w[3] # Event(c)
    /\ call[c].at = "half" =>
         /\ <<File(c).node, Ends[File(c).node], Event(c), 1>> \in Written
         /\ \A w \in Written : w[3] = Event(c) => w[4] = 1
    /\ call[c].at = "written" => Event(c) \in Whole
    /\ call[c].at = "execute" => Event(c) \in accepted

(* No piece twice, and the second right behind the first.                  *)
Lines ==
  \A v, w \in Written :
    /\ v[3] = w[3] /\ v[4] = w[4] => v = w
    /\ v[3] = w[3] /\ v[4] = 1 /\ w[4] = 2 => v[1] = w[1] /\ w[2] = v[2] + 1

Promised == executed \subseteq accepted /\ accepted \subseteq Whole

LEMMA EventFacts ==
  ASSUME TypeOK, NEW c \in Callers
  PROVE  Event(c)[1] = Home[c] /\ Event(c)[2] = call[c].seq /\ Event(c)[3] = call[c].day
BY DEF Event

LEMMA EventsDiffer ==
  ASSUME TypeOK, Numbered, NEW b \in Callers, NEW c \in Callers, b # c,
         call[b].at # "idle", call[c].at # "idle"
  PROVE  Event(b) # Event(c)
BY EventFacts DEF Numbered

LEMMA WriterFacts ==
  ASSUME TypeOK, TypeOK', Exclusive, NEW d \in Callers, WriteFirst(d) \/ WriteRest(d)
  PROVE  /\ call[d].at \in {"locked", "half"} /\ call[d].at \in Holding
         /\ File(d).node \in DOMAIN nodes /\ Event(d) \in EventType
         /\ \A c \in Callers : c # d => call'[c] = call[c]
         /\ call'[d].seq = call[d].seq /\ call'[d].day = call[d].day
         /\ UNCHANGED <<current, seq, accepted, executed, today, dir>>
         /\ call[d].at = "locked" => Piece(d, 1) /\ call'[d].at = "half"
         /\ call[d].at = "half" => Piece(d, 2) /\ call'[d].at = "written"
<1>1. call[d].at \in {"locked", "half"} /\ call[d].at \in Holding /\ call[d].at # "idle"
  BY DEF WriteFirst, WriteRest, Holding
<1>2. File(d).node \in DOMAIN nodes /\ Event(d) \in EventType
  BY <1>1, HeldFile, CallFacts
<1>3. call' = At(d, "half") \/ call' = At(d, "written")
  BY DEF WriteFirst, WriteRest
<1>4. /\ \A c \in Callers : c # d => call'[c] = call[c]
      /\ call'[d].seq = call[d].seq /\ call'[d].day = call[d].day
  BY <1>3, AtCall
<1>5. call[d].at = "locked" => WriteFirst(d)
  BY DEF WriteRest
<1>6. call[d].at = "half" => WriteRest(d)
  BY DEF WriteFirst
<1>7. /\ call[d].at = "locked" => Piece(d, 1) /\ call'[d].at = "half"
      /\ call[d].at = "half" => Piece(d, 2) /\ call'[d].at = "written"
  BY <1>5, <1>6, AtCall DEF WriteFirst, WriteRest
<1>8. UNCHANGED <<current, seq, accepted, executed, today, dir>>
  BY DEF WriteFirst, WriteRest, history
<1> QED BY <1>1, <1>2, <1>4, <1>7, <1>8

LEMMA Grows ==
  ASSUME TypeOK, TypeOK', Exclusive, [Next]_vars
  PROVE  /\ Written \subseteq Written' /\ Whole \subseteq Whole'
         /\ \A s \in Sessions : seq'[s] \in Nat /\ seq[s] \in Nat /\ seq'[s] >= seq[s]
<1> USE DEF files, history
<1>1. Written \subseteq Written'
  <2>1. CASE Quiet
    BY <2>1, QuietTexts
  <2>2. ASSUME NEW d \in Callers, WriteFirst(d) \/ WriteRest(d) PROVE Written \subseteq Written'
    <3>1. PICK h \in {1, 2} : Piece(d, h)
      BY <2>2, WriterFacts
    <3> QED BY <2>2, <3>1, WriterFacts, PieceWritten
  <2> QED BY <2>1, <2>2 DEF Quiet
<1>2. Whole \subseteq Whole'
  BY <1>1 DEF Whole
<1>3. seq \in [Sessions -> Nat] /\ seq' \in [Sessions -> Nat]
  BY DEF TypeOK
<1>4. seq' = seq \/ \E c \in Callers : seq' = NextSeq(Home[c])
  BY DEF Next, Record, StartSession, StartWithoutWriter, ListExpired, Cleaned, Kill, RemoveExpired,
         Intend, Deny, Query, Stamp, Execute, NoWriter, Enter, CannotReopen, Lock, WriteFirst,
         WriteRest, DiskFull, Leave, Midnight, vars
<1>5. \A s \in Sessions : seq'[s] >= seq[s]
  BY <1>3, <1>4 DEF NextSeq
<1> QED BY <1>1, <1>2, <1>3, <1>5

LEMMA NumberedStep ==
  ASSUME TypeOK, TypeOK', Exclusive, Numbered, [Next]_vars
  PROVE  Numbered'
<1>0. \A c \in Callers : Home[c] \in Sessions
  BY AuditAssumption
<1>s. \A c \in Callers : call[c].seq \in Nat /\ call'[c].seq \in Nat
  BY DEF TypeOK, CallType
<1>w. \A w \in Written : w[3][1] \in Sessions /\ w[3][2] \in Nat
  BY WrittenFacts DEF EventType
<1>g. \A s \in Sessions : seq'[s] \in Nat /\ seq[s] \in Nat /\ seq'[s] >= seq[s]
  BY Grows
<1>1. CASE Quiet
  <2>1. \A c \in Callers :
           \/ call'[c] = call[c] \/ call'[c].at = "idle" \/ Fresh(c) \/ Onward(c)
    BY <1>1, CallMoves
  <2>2. \A c \in Callers : call'[c].at # "idle" =>
           \/ call[c].at # "idle" /\ call'[c].seq = call[c].seq
           \/ Fresh(c)
    BY <2>1 DEF Onward
  <2>3. \A c \in Callers : call'[c].at # "idle" => call'[c].seq < seq'[Home[c]]
    <3> SUFFICES ASSUME NEW c \in Callers, call'[c].at # "idle" PROVE call'[c].seq < seq'[Home[c]]
      OBVIOUS
    <3>1. CASE Fresh(c)
      BY <3>1, <1>0, <1>g DEF Fresh
    <3>2. CASE call[c].at # "idle" /\ call'[c].seq = call[c].seq
      BY <3>2, <1>0, <1>g, <1>s DEF Numbered
    <3> QED BY <2>2, <3>1, <3>2
  <2>4. ASSUME NEW b \in Callers, NEW c \in Callers, b # c, Home[b] = Home[c],
               call'[b].at # "idle", call'[c].at # "idle"
        PROVE  call'[b].seq # call'[c].seq
    <3>1. CASE Fresh(b)
      BY <2>4, <3>1, <1>0, <1>g, <1>s DEF Fresh, Numbered
    <3>2. CASE Fresh(c)
      BY <2>4, <3>2, <1>0, <1>g, <1>s DEF Fresh, Numbered
    <3>3. CASE ~Fresh(b) /\ ~Fresh(c)
      BY <2>2, <2>4, <3>3 DEF Numbered
    <3> QED BY <3>1, <3>2, <3>3
  <2>5. \A w \in Written' : w[3][2] < seq'[w[3][1]]
    BY <1>1, <1>w, <1>g, QuietTexts DEF Numbered
  <2> QED BY <2>3, <2>4, <2>5 DEF Numbered
<1>2. ASSUME NEW d \in Callers, WriteFirst(d) \/ WriteRest(d) PROVE Numbered'
  <2>1. /\ \A c \in Callers : c # d => call'[c] = call[c]
        /\ call'[d].seq = call[d].seq /\ call[d].at # "idle" /\ seq' = seq
    BY <1>2, WriterFacts DEF Holding
  <2>2. PICK h \in {1, 2} : Piece(d, h)
    BY <1>2, WriterFacts
  <2>3. Written' = Written \cup {<<File(d).node, Ends[File(d).node] + 1, Event(d), h>>}
    BY <1>2, <2>2, WriterFacts, PieceWritten
  <2>4. \A w \in Written' : w \in Written \/ w[3] = Event(d)
    BY <2>3
  <2>5. \A w \in Written' : w[3][2] < seq'[w[3][1]]
    BY <2>1, <2>4, EventFacts DEF Numbered
  <2> QED BY <2>1, <2>5 DEF Numbered
<1> QED BY <1>1, <1>2 DEF Quiet

LEMMA OwnStep ==
  ASSUME TypeOK, TypeOK', UpOnly, Exclusive, Numbered, Own, Lines, [Next]_vars
  PROVE  Own'
<1> SUFFICES ASSUME NEW c \in Callers
             PROVE  /\ call'[c].at \in {"stamped", "entered", "locked"} =>
                         \A w \in Written' : w[3] # Event(c)'
                    /\ call'[c].at = "half" =>
                         /\ <<File(c)'.node, Ends'[File(c)'.node], Event(c)', 1>> \in Written'
                         /\ \A w \in Written' : w[3] = Event(c)' => w[4] = 1
                    /\ call'[c].at = "written" => Event(c)' \in Whole'
                    /\ call'[c].at = "execute" => Event(c)' \in accepted'
  BY DEF Own
<1>a. accepted \subseteq accepted'
  BY DEF Next, Record, StartSession, StartWithoutWriter, ListExpired, Cleaned, Kill, RemoveExpired,
         Intend, Deny, Query, Stamp, Execute, NoWriter, Enter, CannotReopen, Lock, WriteFirst,
         WriteRest, DiskFull, Leave, Midnight, vars, history, Returned
<1>g. Written \subseteq Written' /\ Whole \subseteq Whole'
  BY Grows
<1>h. /\ call[c].at = "half" => call[c].at \in Holding
      /\ call'[c].at = "half" => call'[c].at \in Holding
  BY DEF Holding
<1>1. CASE Quiet
  <2>0. Written' = Written /\ \A n \in DOMAIN nodes : Ends'[n] = Ends[n]
    BY <1>1, QuietTexts
  <2>1. CASE call'[c] = call[c]
    <3>1. Event(c)' = Event(c)
      BY <2>1 DEF Event
    <3>2. call[c].at = "half" => File(c)' = File(c) /\ File(c).node \in DOMAIN nodes
      BY <2>1, <1>h, FileKept, HeldFile
    <3> QED BY <2>0, <2>1, <3>1, <3>2, <1>a, <1>g DEF Own
  <2>2. CASE call'[c].at = "idle"
    BY <2>2
  <2>3. CASE Fresh(c)
    <3>1. Event(c)' = <<Home[c], seq[Home[c]], today>>
      BY <2>3 DEF Event, Fresh
    <3>2. seq[Home[c]] \in Nat
      BY AuditAssumption DEF TypeOK
    <3>3. \A w \in Written : w[3] # <<Home[c], seq[Home[c]], today>>
      BY <3>2 DEF Numbered
    <3> QED BY <2>0, <2>3, <3>1, <3>3 DEF Fresh
  <2>4. CASE /\ Onward(c)
             /\ \/ call[c].at = "stamped" /\ call'[c].at = "entered"
                \/ call[c].at = "entered" /\ call'[c].at = "locked"
                \/ call[c].at \in {"locked", "half"} /\ call'[c].at = "failed"
                \/ call[c].at = "written" /\ call'[c].at = "execute" /\ Event(c) \in accepted'
    <3>1. Event(c)' = Event(c)
      BY <2>4 DEF Event, Onward
    <3> QED BY <2>0, <2>4, <3>1 DEF Own
  <2> QED BY <1>1, <2>1, <2>2, <2>3, <2>4, CallMoves
<1>2. ASSUME NEW d \in Callers, WriteFirst(d) \/ WriteRest(d)
      PROVE  /\ call'[c].at \in {"stamped", "entered", "locked"} =>
                         \A w \in Written' : w[3] # Event(c)'
             /\ call'[c].at = "half" =>
                         /\ <<File(c)'.node, Ends'[File(c)'.node], Event(c)', 1>> \in Written'
                         /\ \A w \in Written' : w[3] = Event(c)' => w[4] = 1
             /\ call'[c].at = "written" => Event(c)' \in Whole'
             /\ call'[c].at = "execute" => Event(c)' \in accepted'
  <2> DEFINE F == File(d).node
  <2>0. /\ call[d].at \in {"locked", "half"} /\ F \in DOMAIN nodes /\ Event(d) \in EventType
        /\ UNCHANGED current /\ File(c)' = File(c) /\ Event(c)' = Event(c)
        /\ F \in Nat /\ Ends[F] \in Nat
    BY <1>2, WriterFacts, WrittenFacts, NodesTyped DEF File, Event
  <2>w. ASSUME NEW h \in {1, 2}, Piece(d, h)
        PROVE /\ Written' = Written \cup {<<F, Ends[F] + 1, Event(d), h>>}
              /\ Ends'[F] = Ends[F] + 1
              /\ \A n \in DOMAIN nodes : n # F => Ends'[n] = Ends[n]
              /\ \A w \in Written' : w \in Written \/ (w[3] = Event(d) /\ w[4] = h)
    <3>1. /\ Written' = Written \cup {<<F, Ends[F] + 1, Event(d), h>>}
          /\ Ends'[F] = Ends[F] + 1
          /\ \A n \in DOMAIN nodes : n # F => Ends'[n] = Ends[n]
      BY <2>w, <2>0, PieceWritten
    <3> QED BY <3>1
  <2> HIDE DEF F
  <2>1. CASE c = d /\ call[d].at = "locked"
    <3>1. Piece(d, 1) /\ call'[c].at = "half"
      BY <1>2, <2>1, WriterFacts
    <3>2. /\ \A w \in Written' : w[3] = Event(c) => w[4] = 1
      BY <2>1, <2>w, <3>1 DEF Own
    <3>3. <<F, Ends'[F], Event(c), 1>> \in Written'
      BY <2>1, <2>w, <3>1
    <3> QED BY <2>0, <2>1, <3>1, <3>2, <3>3 DEF F
  <2>2. CASE c = d /\ call[d].at = "half"
    <3>1. Piece(d, 2) /\ call'[c].at = "written"
      BY <1>2, <2>2, WriterFacts
    <3>2. <<F, Ends[F], Event(c), 1>> \in Written' /\ <<F, Ends[F] + 1, Event(c), 2>> \in Written'
      BY <2>2, <2>w, <3>1, <1>g DEF Own, F
    <3>3. Event(c) \in Whole'
      BY <2>0, <2>2, <3>2 DEF Whole
    <3> QED BY <2>0, <3>1, <3>3
  <2>3. CASE c # d /\ call[c].at # "idle"
    <3>0. call'[c] = call[c]
      BY <1>2, <2>3, WriterFacts
    <3>1. PICK h \in {1, 2} : Piece(d, h)
      BY <1>2, WriterFacts
    <3>2. Event(c) # Event(d)
      BY <2>0, <2>3, EventsDiffer
    <3>3. \A w \in Written' : w[3] = Event(c) => w \in Written
      BY <2>w, <3>1, <3>2
    <3>4. call[c].at = "half" => File(c).node # F /\ File(c).node \in DOMAIN nodes
      BY <2>0, <2>3, <1>h, HeldFile DEF Exclusive, Locked, Holding, F
    <3>5. call[c].at = "half" => Ends'[File(c).node] = Ends[File(c).node]
      BY <2>w, <3>1, <3>4
    <3> QED BY <2>0, <3>0, <3>3, <3>5, <1>a, <1>g DEF Own
  <2>4. CASE c # d /\ call[c].at = "idle"
    BY <1>2, <2>4, WriterFacts
  <2> QED BY <2>0, <2>1, <2>2, <2>3, <2>4
<1> QED BY <1>1, <1>2 DEF Quiet

LEMMA LinesStep ==
  ASSUME TypeOK, TypeOK', Exclusive, Numbered, Own, Lines, [Next]_vars
  PROVE  Lines'
<1>1. CASE Quiet
  BY <1>1, QuietTexts DEF Lines
<1>2. ASSUME NEW d \in Callers, WriteFirst(d) \/ WriteRest(d) PROVE Lines'
  <2> DEFINE F == File(d).node
             new(h) == <<F, Ends[F] + 1, Event(d), h>>
  <2>0. ASSUME NEW h \in {1, 2}, Piece(d, h) PROVE Written' = Written \cup {new(h)}
    BY <1>2, <2>0, WriterFacts, PieceWritten
  <2>1. CASE call[d].at = "locked"
    <3>1. Written' = Written \cup {new(1)} /\ new(1)[3] = Event(d)
      BY <1>2, <2>0, <2>1, WriterFacts
    <3>2. \A w \in Written : w[3] # Event(d)
      BY <2>1 DEF Own
    <3>3. \A w \in Written' : w \in Written \/ w = new(1)
      BY <3>1
    <3>4. new(1)[4] = 1
      OBVIOUS
    <3> HIDE DEF new
    <3> QED BY <3>1, <3>2, <3>3, <3>4 DEF Lines
  <2>2. CASE call[d].at = "half"
    <3>1. /\ Written' = Written \cup {new(2)}
          /\ new(2)[1] = F /\ new(2)[2] = Ends[F] + 1 /\ new(2)[3] = Event(d) /\ new(2)[4] = 2
      BY <1>2, <2>0, <2>2, WriterFacts
    <3> DEFINE first == <<F, Ends[F], Event(d), 1>>
    <3>2. /\ first \in Written /\ \A w \in Written : w[3] = Event(d) => w[4] = 1
          /\ first[1] = F /\ first[2] = Ends[F] /\ first[3] = Event(d) /\ first[4] = 1
      BY <2>2 DEF Own
    <3>3. \A w \in Written' : w \in Written \/ w = new(2)
      BY <3>1
    <3> HIDE DEF new, first
    <3>4. \A w \in Written : w[3] = Event(d) => w = first
      BY <3>2 DEF Lines
    <3> QED BY <3>1, <3>2, <3>3, <3>4 DEF Lines
  <2> QED BY <1>2, <2>1, <2>2, WriterFacts
<1> QED BY <1>1, <1>2 DEF Quiet

LEMMA PromisedStep ==
  ASSUME TypeOK, TypeOK', Exclusive, Own, Promised, [Next]_vars
  PROVE  Promised'
<1> USE DEF files, history
<1>g. Whole \subseteq Whole'
  BY Grows
<1>1. ASSUME accepted' = accepted, executed' = executed PROVE Promised'
  BY <1>1, <1>g DEF Promised
<1>2. ASSUME NEW c \in Callers, Leave(c) PROVE Promised'
  <2>1. /\ executed' = executed
        /\ accepted' = accepted \/ (accepted' = accepted \cup {Event(c)} /\ call[c].at = "written")
    BY <1>2 DEF Leave, Returned
  <2> QED BY <2>1, <1>g DEF Promised, Own
<1>3. ASSUME NEW c \in Callers, Execute(c) PROVE Promised'
  BY <1>3, <1>g DEF Execute, Promised, Own
<1>4. ASSUME NEW c \in Callers, NoWriter(c) \/ CannotReopen(c)
      PROVE accepted' = accepted /\ executed' = executed
  BY <1>4 DEF NoWriter, CannotReopen, Returned
<1> QED
  BY <1>1, <1>2, <1>3, <1>4
     DEF Next, Record, StartSession, StartWithoutWriter, ListExpired, Cleaned, Kill, RemoveExpired,
         Intend, Deny, Query, Stamp, Enter, Lock, WriteFirst, WriteRest, DiskFull, Midnight, vars

-----------------------------------------------------------------------------
(* Files that keep their name: node and the day that names it, or a day    *)
(* that retention may remove by now.                                       *)
ExpiredDays == {d \in Days : IsExpired(d)}
Names == {p \in Nat \X Days : p[1] # 0 /\ (dir[p[2]] = p[1] \/ p[2] \in ExpiredDays)}

(* No event stands in the file of an earlier day than its own, and no file *)
(* loses its name before its day expires.                                  *)
Named ==
  /\ \A s \in Sessions : expired[s] \subseteq ExpiredDays
  /\ \A s \in Sessions : current[s].node # 0 => <<current[s].node, current[s].day>> \in Names
  /\ \A s \in Sessions : current[s].day <= today
  /\ \A c \in Callers : call[c].at # "idle" => call[c].day <= today
  /\ \A c \in Callers : call[c].at \in Holding => call[c].day <= File(c).day
  /\ \A w \in Written : \E d \in Days : w[3][3] <= d /\ <<w[1], d>> \in Names

LEMMA NamesGrow ==
  ASSUME TypeOK, TypeOK', Named, [Next]_vars
  PROVE  /\ Names \subseteq Names' /\ (today' = today \/ today' = today + 1)
         /\ ExpiredDays \subseteq ExpiredDays'
<1> USE DEF files, history
<1>0. today \in Nat /\ today' \in Nat /\ Days \subseteq Nat /\ RetentionDays \in Nat
  BY AuditAssumption DEF TypeOK, Days
<1>1. today' = today \/ today' = today + 1
  BY DEF Next, Record, StartSession, StartWithoutWriter, ListExpired, Cleaned, Kill, RemoveExpired,
         Intend, Deny, Query, Stamp, Execute, NoWriter, Enter, CannotReopen, Lock, WriteFirst,
         WriteRest, DiskFull, Leave, Midnight, vars
<1>3. ExpiredDays \subseteq ExpiredDays'
  <2>1. ASSUME NEW d \in Days, today - d >= RetentionDays PROVE today' - d >= RetentionDays
    <3>1. CASE today' = today
      BY <2>1, <3>1
    <3>2. CASE today' = today + 1
      <4>1. (today + 1) - d >= RetentionDays
        <5>1. d \in Int /\ today \in Int /\ RetentionDays \in Int
          BY <1>0
        <5> QED BY <2>1, <5>1
      <4> QED BY <4>1, <3>2
    <3> QED BY <1>1, <3>1, <3>2
  <2> QED BY <2>1 DEF ExpiredDays, IsExpired
<1>4. \A d \in Days : dir[d] # 0 => dir'[d] = dir[d] \/ d \in ExpiredDays
  <2>1. ASSUME dir' = dir PROVE \A d \in Days : dir[d] # 0 => dir'[d] = dir[d] \/ d \in ExpiredDays
    BY <2>1
  <2>2. ASSUME NEW s \in Sessions, OpenDay(s, today)
        PROVE  \A d \in Days : dir[d] # 0 => dir'[d] = dir[d] \/ d \in ExpiredDays
    BY <2>2, OpenDayType
  <2>3. ASSUME NEW s \in Sessions, NEW r \in Days, RemoveExpired(s, r)
        PROVE  \A d \in Days : dir[d] # 0 => dir'[d] = dir[d] \/ d \in ExpiredDays
    BY <2>3 DEF RemoveExpired, Named, TypeOK
  <2>4. ASSUME NEW c \in Callers, Enter(c)
        PROVE  \A d \in Days : dir[d] # 0 => dir'[d] = dir[d] \/ d \in ExpiredDays
    BY <2>1, <2>2, <2>4, CallFacts DEF Enter
  <2>5. ASSUME NEW s \in Sessions, StartSession(s)
        PROVE  \A d \in Days : dir[d] # 0 => dir'[d] = dir[d] \/ d \in ExpiredDays
    BY <2>2, <2>5 DEF StartSession
  <2> QED BY <2>1, <2>3, <2>4, <2>5
          DEF Next, Record, StartWithoutWriter, ListExpired, Cleaned, Kill, Intend, Deny, Query,
              Stamp, Execute, NoWriter, CannotReopen, Lock, WriteFirst, WriteRest, DiskFull, Leave,
              Midnight, vars
<1>5. ASSUME NEW p \in Names PROVE p \in Names'
  <2>1. p \in Nat \X Days /\ p[1] # 0 /\ p[2] \in Days /\ (dir[p[2]] = p[1] \/ p[2] \in ExpiredDays)
    BY <1>5 DEF Names
  <2>2. dir'[p[2]] = p[1] \/ p[2] \in ExpiredDays'
    BY <2>1, <1>3, <1>4
  <2> QED BY <2>1, <2>2 DEF Names
<1> QED BY <1>1, <1>3, <1>5

LEMMA OpenDayNamed ==
  ASSUME TypeOK, TypeOK', NEW s \in Sessions, OpenDay(s, today), today' = today
  PROVE  /\ <<current'[s].node, current'[s].day>> \in Names' /\ current'[s].day = today
         /\ \A r \in Sessions : r # s => current'[r] = current[r]
<1>1. /\ current'[s].node \in DOMAIN nodes' /\ dir'[today] = current'[s].node
      /\ current'[s].day = today /\ \A r \in Sessions : r # s => current'[r] = current[r]
  BY OpenDayType
<1>2. DOMAIN nodes' \subseteq Nat \ {0}
  <2>1. nodes' \in Seq([text : Seq(PieceType), flock : Sessions \cup {NoSession}])
    BY DEF TypeOK
  <2> QED BY <2>1
<1>3. today \in Days
  BY DEF TypeOK
<1> QED BY <1>1, <1>2, <1>3 DEF Names

LEMMA NamedStep ==
  ASSUME TypeOK, TypeOK', UpOnly, Exclusive, Named, [Next]_vars
  PROVE  Named'
<1> USE DEF files, history
<1>0. /\ today \in Nat /\ today' \in Nat /\ (today' = today \/ today' = today + 1)
      /\ \A c \in Callers : Home[c] \in Sessions
      /\ \A s \in Sessions : current[s].day \in Nat /\ current'[s].day \in Nat
      /\ \A c \in Callers : call[c].day \in Nat /\ call'[c].day \in Nat
  <2>1. MaxDay \in Nat /\ \A c \in Callers : Home[c] \in Sessions
    BY AuditAssumption
  <2>2. today \in Nat /\ today' \in Nat /\ (today' = today \/ today' = today + 1)
    <3>1. today \in Nat /\ today' \in Nat
      BY <2>1 DEF TypeOK, Days
    <3> QED BY <3>1, NamesGrow
  <2>3. \A s \in Sessions : current[s].day \in Nat /\ current'[s].day \in Nat
    BY <2>1 DEF TypeOK
  <2>4. \A c \in Callers : call[c].day \in Nat /\ call'[c].day \in Nat
    BY <2>1 DEF TypeOK, CallType
  <2> QED BY <2>1, <2>2, <2>3, <2>4
<1>n. Names \subseteq Names' /\ ExpiredDays \subseteq ExpiredDays'
  BY NamesGrow
<1>c. /\ \A s \in Sessions : \/ current'[s] = current[s]
                             \/ current'[s] = NoFile
                             \/ /\ current'[s].day = today /\ today' = today
                                /\ <<current'[s].node, current'[s].day>> \in Names'
  <2>1. ASSUME NEW s \in Sessions, OpenDay(s, today), today' = today
        PROVE  \A r \in Sessions : \/ current'[r] = current[r]
                                   \/ /\ current'[r].day = today
                                      /\ <<current'[r].node, current'[r].day>> \in Names'
    BY <2>1, OpenDayNamed
  <2>2. ASSUME NEW s \in Sessions, StartSession(s)
        PROVE today' = today /\ \A r \in Sessions :
                                   \/ current'[r] = current[r]
                                   \/ /\ current'[r].day = today
                                      /\ <<current'[r].node, current'[r].day>> \in Names'
    BY <2>1, <2>2 DEF StartSession
  <2>3. ASSUME NEW c \in Callers, Enter(c)
        PROVE today' = today /\ \A r \in Sessions :
                                   \/ current'[r] = current[r]
                                   \/ /\ current'[r].day = today
                                      /\ <<current'[r].node, current'[r].day>> \in Names'
    BY <2>1, <2>3, <1>0 DEF Enter
  <2>4. ASSUME NEW s \in Sessions, Kill(s)
        PROVE \A r \in Sessions : current'[r] = current[r] \/ current'[r] = NoFile
    BY <2>4, KillCall
  <2>5. ASSUME NEW s \in Sessions, NEW d \in Days, RemoveExpired(s, d) PROVE current' = current
    BY <2>5 DEF RemoveExpired
  <2> QED BY <2>2, <2>3, <2>4, <2>5
          DEF Next, Record, StartWithoutWriter, ListExpired, Cleaned, Intend, Deny, Query,
              Stamp, Execute, NoWriter, CannotReopen, Lock, WriteFirst, WriteRest, DiskFull, Leave,
              Midnight, vars
<1>1. \A s \in Sessions : expired'[s] \subseteq ExpiredDays'
  <2>1. \A s \in Sessions : \A d \in expired'[s] : d \in Days /\ (d \in expired[s] \/ d \in ExpiredDays)
    <3>0. expired' \in [Sessions -> SUBSET Days] /\ expired \in [Sessions -> SUBSET Days]
      BY DEF TypeOK
    <3>1. ASSUME NEW s \in Sessions, ListExpired(s)
          PROVE  \A r \in Sessions : \A d \in expired'[r] : d \in expired[r] \/ d \in ExpiredDays
      BY <3>1, <3>0 DEF ListExpired, ExpiredDays
    <3>2. ASSUME NEW s \in Sessions, NEW e \in Days, RemoveExpired(s, e)
          PROVE  \A r \in Sessions : \A d \in expired'[r] : d \in expired[r]
      BY <3>2, <3>0 DEF RemoveExpired
    <3>3. ASSUME NEW s \in Sessions, Kill(s)
          PROVE  \A r \in Sessions : \A d \in expired'[r] : d \in expired[r]
      BY <3>3, KillCall
    <3>4. \A r \in Sessions : \A d \in expired'[r] : d \in expired[r] \/ d \in ExpiredDays
      BY <3>1, <3>2, <3>3
         DEF Next, Record, StartSession, StartWithoutWriter, Cleaned, Intend, Deny, Query,
             Stamp, Execute, NoWriter, Enter, CannotReopen, Lock, WriteFirst, WriteRest, DiskFull,
             Leave, Midnight, vars
    <3> QED BY <3>0, <3>4
  <2> QED BY <2>1, <1>n DEF Named
<1>2. \A s \in Sessions : current'[s].node # 0 => <<current'[s].node, current'[s].day>> \in Names'
  BY <1>c, <1>n DEF Named, NoFile
<1>3. \A s \in Sessions : current'[s].day <= today'
  <2>1. NoFile.day = 0
    BY DEF NoFile
  <2>2. \A s \in Sessions : current[s].day <= today
    BY DEF Named
  <2> SUFFICES ASSUME NEW s \in Sessions PROVE current'[s].day <= today'
    OBVIOUS
  <2>3. current'[s].day = current[s].day \/ current'[s].day = 0 \/ current'[s].day = today
    BY <1>c, <2>1
  <2> QED BY <1>0, <2>2, <2>3
<1>m. ASSUME NEW c \in Callers
      PROVE \/ call'[c].at = "idle"
            \/ call'[c].at = "stamped" /\ call'[c].day = today
            \/ call[c].at # "idle" /\ call'[c].day = call[c].day
  <2>1. CASE Quiet
    BY <2>1, CallMoves DEF Fresh, Onward
  <2>2. ASSUME NEW d \in Callers, WriteFirst(d) \/ WriteRest(d)
        PROVE call'[c] = call[c] \/ (call[c].at # "idle" /\ call'[c].day = call[c].day)
    BY <2>2, WriterFacts DEF Holding
  <2> QED BY <2>1, <2>2 DEF Quiet
<1>4. \A c \in Callers : call'[c].at # "idle" => call'[c].day <= today'
  BY <1>m, <1>0 DEF Named
<1>5. ASSUME NEW c \in Callers, call'[c].at \in Holding
      PROVE  call'[c].day <= File(c)'.day
  <2>1. call[c].at # "idle" /\ call'[c].day = call[c].day
    BY <1>5, <1>m DEF Holding
  <2>2. CASE call[c].at \in Holding
    <3>1. File(c)' = File(c)
      BY <1>5, <2>2, FileKept
    <3> QED BY <2>1, <2>2, <3>1 DEF Named
  <2>3. CASE call[c].at \notin Holding
    <3>1. call[c].at = "stamped" /\ call'[c].at = "entered"
      <4>1. CASE Quiet
        BY <4>1, <1>5, <2>1, <2>3, CallMoves DEF Fresh, Onward, Holding
      <4>2. ASSUME NEW d \in Callers, WriteFirst(d) \/ WriteRest(d)
            PROVE call'[c].at \notin Holding
        BY <4>2, <2>3, WriterFacts
      <4> QED BY <4>1, <4>2, <1>5 DEF Quiet
    <3>2. Enter(c)
      <4>1. ASSUME NEW b \in Callers, Enter(b) PROVE b = c
        BY <4>1, <3>1, AtCall DEF Enter
      <4>2. \A b \in Callers : Lock(b) \/ DiskFull(b) \/ WriteFirst(b) \/ WriteRest(b)
                               => call'[c].at # "entered" \/ call'[c] = call[c]
        BY AtCall DEF Lock, DiskFull, WriteFirst, WriteRest
      <4>3. ASSUME NEW b \in Callers, NEW ok \in BOOLEAN, Returned(b, ok)
            PROVE  call'[c].at # "entered" \/ call'[c] = call[c]
        BY <4>3, ReturnedCall DEF Idle
      <4>4. \A b \in Callers : NoWriter(b) \/ CannotReopen(b) \/ Leave(b)
                               => call'[c].at # "entered" \/ call'[c] = call[c]
        BY <4>3 DEF NoWriter, CannotReopen, Leave
      <4>5. ASSUME NEW b \in Callers, Intend(b) \/ Deny(b) \/ Query(b) \/ Execute(b)
            PROVE  call'[c].at # "entered" \/ call'[c] = call[c]
        <5>1. PICK kind \in {"intent", "deny", "outcome"} :
                /\ call' = [call EXCEPT ![b] = Stamped(b, kind)] /\ seq' = NextSeq(Home[b])
          BY <4>5 DEF Intend, Deny, Query, Execute, Stamp
        <5> QED BY <5>1, StampedCall
      <4>6. \A s \in Sessions : Kill(s) => call'[c].at # "entered" \/ call'[c] = call[c]
        BY KillCall DEF Idle
      <4>7. call'[c] # call[c]
        BY <3>1
      <4> QED BY <3>1, <4>1, <4>2, <4>4, <4>5, <4>6, <4>7
              DEF Next, Record, StartSession, StartWithoutWriter, ListExpired, Cleaned,
                  RemoveExpired, Midnight, vars
    <3>3. File(c)'.day = today
      <4>1. CASE Stale(c)
        BY <3>2, <4>1, <1>0, OpenDayType DEF Enter, File
      <4>2. CASE ~Stale(c)
        BY <3>2, <4>2 DEF Enter, File, Stale
      <4> QED BY <4>1, <4>2
    <3> QED BY <2>1, <3>3 DEF Named
  <2> QED BY <2>2, <2>3
<1>6. \A w \in Written' : \E d \in Days : w[3][3] <= d /\ <<w[1], d>> \in Names'
  <2>1. CASE Quiet
    BY <2>1, <1>n, QuietTexts DEF Named
  <2>2. ASSUME NEW b \in Callers, WriteFirst(b) \/ WriteRest(b),
               NEW w \in Written'
        PROVE \E d \in Days : w[3][3] <= d /\ <<w[1], d>> \in Names'
    <3>1. PICK h \in {1, 2} : Piece(b, h)
      BY <2>2, WriterFacts
    <3>2. w \in Written \/ (w[1] = File(b).node /\ w[3] = Event(b))
      <4>1. Written' = Written \cup {<<File(b).node, Ends[File(b).node] + 1, Event(b), h>>}
        BY <2>2, <3>1, WriterFacts, PieceWritten
      <4> QED BY <4>1
    <3>3. CASE w \in Written
      BY <3>3, <1>n DEF Named
    <3>4. CASE w[1] = File(b).node /\ w[3] = Event(b)
      <4>1. call[b].at \in Holding /\ File(b).node \in DOMAIN nodes
        BY <2>2, WriterFacts
      <4>2. <<File(b).node, File(b).day>> \in Names' /\ File(b).day \in Days
        BY <4>1, <1>0, <1>n DEF Exclusive, Named, File, Names
      <4>3. w[3][3] <= File(b).day
        BY <3>4, <4>1, EventFacts DEF Named
      <4> QED BY <3>4, <4>2, <4>3
    <3> QED BY <3>2, <3>3, <3>4
  <2> QED BY <2>1, <2>2 DEF Quiet
<1> QED BY <1>1, <1>2, <1>3, <1>4, <1>5, <1>6 DEF Named

-----------------------------------------------------------------------------
(* The inductive invariant. *)
IInv ==
  TypeOK /\ UpOnly /\ Exclusive /\ Numbered /\ Own /\ Lines /\ Promised /\ Named

LEMMA InvInit == Init => IInv
<1> SUFFICES ASSUME Init PROVE IInv
  OBVIOUS
<1>1. TypeOK
  <2>1. nodes \in Seq(NodeType) /\ Len(nodes) = 0
    BY DEF Init
  <2>2. 1 \in Days /\ MaxDay \in Nat /\ MaxFaults \in Nat
    BY AuditAssumption DEF Days
  <2>3. NoFile \in [day : 0 .. MaxDay, node : 0 .. 0] /\ NoFile.node = 0
    BY <2>2 DEF NoFile
  <2>4. Idle \in CallType /\ Idle.at = "idle"
    BY <2>2 DEF Idle, CallType
  <2>5. dir \in [Days -> 0 .. Len(nodes)] /\ today \in Days
    BY <2>1, <2>2 DEF Init
  <2>6. /\ current \in [Sessions -> [day : 0 .. MaxDay, node : 0 .. Len(nodes)]]
        /\ \A s \in Sessions : current[s].node # 0 => current[s].day # 0
    BY <2>1, <2>3 DEF Init
  <2>7. /\ call \in [Callers -> CallType]
        /\ \A c \in Callers : call[c].at # "idle" => call[c].day # 0
    BY <2>4 DEF Init
  <2>8. /\ session \in [Sessions -> {"new", "opened", "cleaning", "up", "down"}]
        /\ expired \in [Sessions -> SUBSET Days]
        /\ seq \in [Sessions -> Nat]
        /\ mutex \in [Sessions -> Callers \cup {NoCaller}]
        /\ accepted \subseteq EventType /\ executed \subseteq EventType
        /\ faults \in 0 .. MaxFaults
    BY <2>2 DEF Init
  <2> QED BY <2>1, <2>5, <2>6, <2>7, <2>8 DEF TypeOK, NodeType
<1>2. DOMAIN nodes = {}
  BY DEF Init
<1>3. Written = {}
  BY <1>2 DEF Written
<1>4. \A c \in Callers : call[c].at = "idle"
  BY DEF Init, Idle
<1>5. UpOnly /\ Exclusive /\ Numbered /\ Own
  BY <1>3, <1>4 DEF UpOnly, Exclusive, Numbered, Own, Holding, Locked
<1>6. Lines /\ Promised
  BY <1>3 DEF Lines, Promised, Init
<1>7. Named
  <2>1. \A s \in Sessions : expired[s] = {} /\ current[s].node = 0 /\ current[s].day = 0
    BY DEF Init, NoFile
  <2>2. today = 1
    BY DEF Init
  <2> QED BY <1>3, <1>4, <2>1, <2>2 DEF Named, Holding
<1> QED BY <1>1, <1>5, <1>6, <1>7 DEF IInv

LEMMA InvStep == IInv /\ [Next]_vars => IInv'
<1> SUFFICES ASSUME IInv, [Next]_vars PROVE IInv'
  OBVIOUS
<1> USE DEF IInv
<1>1. TypeOK'
  BY TypeStep
<1>2. UpOnly' /\ Exclusive'
  BY ExclusiveStep
<1>3. Numbered'
  BY <1>1, NumberedStep
<1>4. Own'
  BY <1>1, OwnStep
<1>5. Lines'
  BY <1>1, LinesStep
<1>6. Promised'
  BY <1>1, PromisedStep
<1>7. Named'
  BY <1>1, NamedStep
<1> QED BY <1>1, <1>2, <1>3, <1>4, <1>5, <1>6, <1>7

LEMMA Invariance == Spec => []IInv
BY InvInit, InvStep, PTL DEF Spec

-----------------------------------------------------------------------------
(* What the ledger promises follows. *)

LEMMA StandsWhole ==
  ASSUME TypeOK, NEW e \in Whole
  PROVE  \E n \in DOMAIN nodes : \E i \in DOMAIN Text(n) :
           /\ Stands(Text(n), i, e)
           /\ <<n, i, e, 1>> \in Written /\ <<n, i + 1, e, 2>> \in Written
<1>1. PICK n \in Nat, i \in Nat : <<n, i, e, 1>> \in Written /\ <<n, i + 1, e, 2>> \in Written
  BY DEF Whole
<1>2. /\ n \in DOMAIN nodes /\ i \in DOMAIN Text(n) /\ i + 1 \in DOMAIN Text(n)
      /\ Text(n)[i] = <<e, 1>> /\ Text(n)[i + 1] = <<e, 2>>
  BY <1>1 DEF Written
<1>3. DOMAIN Text(n) = 1 .. Len(Text(n)) /\ Len(Text(n)) \in Nat
  BY <1>2, WrittenFacts DEF Ends
<1>4. i < Len(Text(n))
  BY <1>2, <1>3
<1> QED BY <1>1, <1>2, <1>4 DEF Stands

LEMMA WholeIsNamed ==
  ASSUME TypeOK, Named, NEW e \in Whole
  PROVE  \E n \in DOMAIN nodes : \E i \in DOMAIN Text(n) :
           /\ Stands(Text(n), i, e)
           /\ \/ \E d \in Days : dir[d] = n
              \/ RetentionDays > 0 /\ today - e[3] >= RetentionDays
<1>0. PICK n \in DOMAIN nodes : \E i \in DOMAIN Text(n) :
        Stands(Text(n), i, e) /\ <<n, i, e, 1>> \in Written
  BY StandsWhole
<1>1. PICK i \in DOMAIN Text(n) : Stands(Text(n), i, e) /\ <<n, i, e, 1>> \in Written
  BY <1>0
<1>2. PICK d \in Days : e[3] <= d /\ <<n, d>> \in Names
  BY <1>1 DEF Named
<1>3. dir[d] = n \/ d \in ExpiredDays
  BY <1>2 DEF Names
<1>4. e[3] \in Days /\ Days \subseteq Int /\ today \in Int /\ RetentionDays \in Int
  BY AuditAssumption DEF TypeOK, Days, Whole, EventType
<1>5. d \in ExpiredDays => RetentionDays > 0 /\ today - e[3] >= RetentionDays
  <2> SUFFICES ASSUME d \in ExpiredDays
               PROVE  RetentionDays > 0 /\ today - e[3] >= RetentionDays
    OBVIOUS
  <2>1. RetentionDays > 0 /\ today - d >= RetentionDays
    BY DEF ExpiredDays, IsExpired
  <2> DEFINE x == e[3]
  <2>2. d \in Int /\ x \in Int /\ today \in Int /\ RetentionDays \in Int /\ x <= d
    BY <1>2, <1>4
  <2> HIDE DEF x
  <2>3. today - x >= RetentionDays
    BY <2>1, <2>2
  <2> QED BY <2>1, <2>3 DEF x
<1> QED BY <1>1, <1>3, <1>5

(* Two processes never interleave their lines, no event is written twice   *)
(* and no two events share a sequence number: AuditWriter::append holds    *)
(* the flock over both pieces, AuditSession::record draws each number once.*)
THEOREM LedgerLinesWhole == Spec => []LinesWhole
<1>1. IInv => LinesWhole
  <2> SUFFICES ASSUME IInv,
                      NEW m \in DOMAIN nodes, NEW n \in DOMAIN nodes,
                      NEW i \in DOMAIN Text(m), NEW j \in DOMAIN Text(n)
               PROVE  /\ Text(m)[i] = Text(n)[j] => m = n /\ i = j
                      /\ m = n /\ Text(m)[i][1] = Text(n)[j][1] /\ Text(m)[i][2] < Text(n)[j][2]
                           => j = i + 1
    BY DEF LinesWhole
  <2> DEFINE v == <<m, i, Text(m)[i][1], Text(m)[i][2]>>
             w == <<n, j, Text(n)[j][1], Text(n)[j][2]>>
  <2>1. v \in Written /\ w \in Written
    BY WrittenFacts DEF IInv
  <2>2. Text(m)[i][2] \in {1, 2} /\ Text(n)[j][2] \in {1, 2}
    BY <2>1, WrittenFacts DEF IInv
  <2>3. Text(m)[i] = Text(n)[j] => m = n /\ i = j
    BY <2>1 DEF IInv, Lines
  <2>4. ASSUME Text(m)[i][1] = Text(n)[j][1], Text(m)[i][2] < Text(n)[j][2]
        PROVE  j = i + 1
    <3>1. Text(m)[i][2] = 1 /\ Text(n)[j][2] = 2
      BY <2>2, <2>4
    <3> QED BY <2>1, <2>4, <3>1 DEF IInv, Lines
  <2> QED BY <2>3, <2>4
<1> QED BY <1>1, Invariance, PTL

(* An event that record() accepted is whole on disk; what precedes it on   *)
(* its line is at most the fragment of an event that was not accepted.     *)
THEOREM LedgerAcceptedOnDisk == Spec => []AcceptedOnDisk
<1>1. IInv => AcceptedOnDisk
  <2> SUFFICES ASSUME IInv, NEW e \in accepted
               PROVE  \E n \in DOMAIN nodes : \E i \in DOMAIN Text(n) :
                        /\ Stands(Text(n), i, e)
                        /\ i = 1 \/ Text(n)[i - 1][2] = 2 \/ Text(n)[i - 1][1] \notin accepted
    BY DEF AcceptedOnDisk
  <2>0. PICK n \in DOMAIN nodes : \E i \in DOMAIN Text(n) :
          Stands(Text(n), i, e) /\ <<n, i, e, 1>> \in Written
    BY StandsWhole DEF IInv, Promised
  <2>1. PICK i \in DOMAIN Text(n) : Stands(Text(n), i, e) /\ <<n, i, e, 1>> \in Written
    BY <2>0
  <2>2. ASSUME i # 1, Text(n)[i - 1][2] # 2, Text(n)[i - 1][1] \in accepted
        PROVE  FALSE
    <3> DEFINE f == Text(n)[i - 1][1]
    <3>1. i - 1 \in DOMAIN Text(n) /\ i \in Nat /\ n \in Nat
      BY <2>2, WrittenFacts, NodesTyped DEF IInv
    <3>2. <<n, i - 1, f, Text(n)[i - 1][2]>> \in Written
      BY <3>1, WrittenFacts DEF IInv
    <3>3. Text(n)[i - 1][2] \in {1, 2}
      BY <3>2, WrittenFacts DEF IInv
    <3>4. <<n, i - 1, f, 1>> \in Written
      BY <2>2, <3>2, <3>3
    <3>5. f \in Whole
      BY <2>2 DEF IInv, Promised
    <3>6. PICK k, j \in Nat : <<k, j, f, 1>> \in Written /\ <<k, j + 1, f, 2>> \in Written
      BY <3>5 DEF Whole
    <3> HIDE DEF f
    <3>7. <<k, j, f, 1>> = <<n, i - 1, f, 1>>
      BY <3>4, <3>6 DEF IInv, Lines
    <3>8. k = n /\ j + 1 = i
      BY <3>1, <3>7
    <3>9. Text(n)[i] = <<f, 2>>
      BY <3>6, <3>8 DEF Written
    <3>10. Text(n)[i] = <<e, 1>>
      BY <2>1 DEF Stands
    <3> QED BY <3>9, <3>10
  <2> QED BY <2>1, <2>2
<1> QED BY <1>1, Invariance, PTL

(* Fail-closed: no data change reaches the engine before its intent is     *)
(* whole in a file that keeps its name until retention removes it.         *)
THEOREM LedgerWritesAudited == Spec => []WritesAudited
<1>1. IInv => WritesAudited
  <2> SUFFICES ASSUME IInv, NEW e \in executed
               PROVE  \E n \in DOMAIN nodes : \E i \in DOMAIN Text(n) :
                        /\ Stands(Text(n), i, e)
                        /\ \/ \E d \in Days : dir[d] = n
                           \/ RetentionDays > 0 /\ today - e[3] >= RetentionDays
    BY DEF WritesAudited
  <2>1. e \in Whole
    BY DEF IInv, Promised
  <2> QED BY <2>1, WholeIsNamed DEF IInv
<1> QED BY <1>1, Invariance, PTL

(* An accepted event stays in a named file for RetentionDays days, however *)
(* sessions start, clean up and cross midnight meanwhile.                  *)
THEOREM LedgerKeptForRetention == Spec => []KeptForRetention
<1>1. IInv => KeptForRetention
  <2> SUFFICES ASSUME IInv, NEW e \in accepted,
                      RetentionDays = 0 \/ today - e[3] < RetentionDays
               PROVE  \E n \in DOMAIN nodes : \E i \in DOMAIN Text(n) :
                        Stands(Text(n), i, e) /\ \E d \in Days : dir[d] = n
    BY DEF KeptForRetention
  <2>1. e \in Whole
    BY DEF IInv, Promised
  <2>2. e[3] \in Int /\ today \in Int /\ RetentionDays \in Int
    BY <2>1, AuditAssumption DEF IInv, TypeOK, Days, Whole, EventType
  <2>3. ~(RetentionDays > 0 /\ today - e[3] >= RetentionDays)
    BY <2>2
  <2> QED BY <2>1, <2>3, WholeIsNamed DEF IInv
<1> QED BY <1>1, Invariance, PTL
=============================================================================
