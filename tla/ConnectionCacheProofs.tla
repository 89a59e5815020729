----------------------- MODULE ConnectionCacheProofs -----------------------
(***************************************************************************)
(* The table of connections bounds the pools the server opens, for any     *)
(* number of connections, clients, calls and failures.                     *)
(*                                                                         *)
(* A client has a chance at a name while it may still open a pool for it:  *)
(* it is on its way to connect, or the name is not connected and the       *)
(* client is not about to make it so.  Opening a pool uses the chance up.  *)
(* Only the failed probe gives chances back, one per client, once.         *)
(***************************************************************************)
EXTENDS ConnectionCache, FiniteSetTheorems, TLAPS

TaskType == [at : Places, name : Names, pool : 0 .. pools, url : Names \cup {"none"}]
EntryType ==
  [state : {"pending", "connecting", "connected", "unavailable"}, pool : 0 .. pools]

LEMMA InitType == Init => TypeOK
BY ConnectionCacheAssumption
   DEF Init, TypeOK, Rest, NotOpen, Tasks, Places

(* A task's new place, and its new pool, leave the rest of it as it was. *)
LEMMA GoType ==
  ASSUME TypeOK, NEW t \in Tasks, NEW place \in Places, Go(t, place)
  PROVE  task' \in [Tasks -> TaskType]
BY DEF TypeOK, Go, TaskType

LEMMA RestType ==
  ASSUME TypeOK, NEW t \in Tasks, GiveUp(t)
  PROVE  task' \in [Tasks -> TaskType] /\ errors' \in Nat
<1>1. Rest \in TaskType
  BY ConnectionCacheAssumption DEF Rest, TaskType, Places, TypeOK
<1> QED BY <1>1 DEF TypeOK, GiveUp, TaskType

LEMMA FailType ==
  ASSUME TypeOK, Fail
  PROVE  failures' \in 0 .. MaxFailures
BY ConnectionCacheAssumption DEF TypeOK, Fail

LEMMA StepType == TypeOK /\ [Next]_vars => TypeOK'
<1> SUFFICES ASSUME TypeOK, [Next]_vars PROVE TypeOK'
  OBVIOUS
<1> USE DEF TaskType
<1>1. CASE StartProbe
  <2>1. Probe \in Tasks /\ {"connect", "done"} \subseteq Places
    BY DEF Tasks, Places
  <2>2. task' \in [Tasks -> TaskType]
    BY <1>1, <2>1, GoType DEF StartProbe
  <2> QED BY <1>1, <2>2 DEF StartProbe, TypeOK, bounds
<1>2. ASSUME NEW c \in Callers, NEW n \in Names, Lookup(c, n) PROVE TypeOK'
  <2>1. NextPlace(entry[n].state) \in Places
    BY DEF TypeOK, NextPlace, Places
  <2>2. calls' \in 0 .. MaxCalls
    BY <1>2, ConnectionCacheAssumption DEF Lookup, TypeOK
  <2> QED BY <1>2, <2>1, <2>2 DEF Lookup, TypeOK
<1>3. ASSUME NEW c \in Callers, Resolve(c) \/ Acquire(c) PROVE TypeOK'
  <2>1. c \in Tasks /\ {"connect", "ready"} \subseteq Places
    BY DEF Tasks, Places
  <2>2. CASE GiveUp(c) /\ Fail
    BY <1>3, <2>1, <2>2, RestType, FailType DEF Resolve, Acquire, TypeOK
  <2>3. CASE (Go(c, "connect") \/ Go(c, "ready")) /\ UNCHANGED <<errors, failures>>
    BY <1>3, <2>1, <2>3, GoType DEF Resolve, Acquire, TypeOK
  <2> QED BY <1>3, <2>2, <2>3 DEF Resolve, Acquire
<1>4. ASSUME NEW t \in Tasks, Connect(t) PROVE TypeOK'
  <2>1. pools' = pools + 1 /\ 0 .. pools \subseteq 0 .. pools' /\ pools + 1 \in 0 .. pools'
    BY <1>4 DEF Connect, TypeOK
  <2>2. entry' \in [Names -> EntryType']
    BY <1>4, <2>1 DEF Connect, TypeOK, EntryType
  <2>3. "publish" \in Places
    BY DEF Places
  <2>4. task' \in [Tasks -> TaskType']
    BY <1>4, <2>1, <2>3 DEF Connect, TypeOK
  <2> QED BY <1>4, <2>1, <2>2, <2>4 DEF Connect, TypeOK, EntryType, bounds
<1>5. ASSUME NEW t \in Tasks, ConnectFails(t) PROVE TypeOK'
  <2>1. "mark" \in Places
    BY DEF Places
  <2>2. task' \in [Tasks -> TaskType] /\ errors' \in Nat
    BY <1>5, <2>1, GoType, RestType DEF ConnectFails, TypeOK
  <2> QED BY <1>5, <2>2, FailType DEF ConnectFails, TypeOK
<1>6. ASSUME NEW t \in Tasks, Publish(t) PROVE TypeOK'
  <2>1. {"done", "ready"} \subseteq Places
    BY DEF Places
  <2>2. task' \in [Tasks -> TaskType]
    BY <1>6, <2>1, GoType DEF Publish
  <2>3. entry' \in [Names -> EntryType]
    BY <1>6 DEF Publish, Published, Open, TypeOK, EntryType
  <2> QED BY <1>6, <2>2, <2>3 DEF Publish, TypeOK, EntryType, bounds
<1>7. CASE MarkUnavailable
  <2>1. Probe \in Tasks /\ "done" \in Places
    BY DEF Tasks, Places
  <2>2. task' \in [Tasks -> TaskType]
    BY <1>7, <2>1, GoType DEF MarkUnavailable
  <2>a. NotOpen("unavailable") \in EntryType
    BY DEF NotOpen, TypeOK, EntryType
  <2>b. entry \in [Names -> EntryType] /\ entry' = [entry EXCEPT ![Default] = NotOpen("unavailable")]
    BY <1>7 DEF MarkUnavailable, TypeOK, EntryType
  <2>3. entry' \in [Names -> EntryType]
    BY <2>a, <2>b
  <2>4. UNCHANGED <<pools, audit, errors, calls, failures>>
    BY <1>7 DEF MarkUnavailable, bounds
  <2> QED BY <2>2, <2>3, <2>4 DEF TypeOK, EntryType
<1>8. ASSUME NEW c \in Callers, ReadUrl(c) PROVE TypeOK'
  <2>1. "query" \in Places /\ c \in Tasks /\ UrlOf(task[c].name) \in Names \cup {"none"}
    BY DEF Places, Tasks, UrlOf, TypeOK
  <2>2. task' \in [Tasks -> TaskType]
    BY <1>8, <2>1 DEF ReadUrl, TypeOK
  <2> QED BY <1>8, <2>2 DEF ReadUrl, TypeOK, bounds
<1>9. ASSUME NEW c \in Callers, Query(c) PROVE TypeOK'
  <2>1. c \in Tasks /\ Rest \in TaskType
    BY ConnectionCacheAssumption DEF Tasks, Rest, Places, TypeOK
  <2>2. <<task[c].name, task[c].url>> \in Names \X (Names \cup {"none"})
    BY <2>1 DEF TypeOK
  <2>3. task' \in [Tasks -> TaskType]
    BY <1>9, <2>1 DEF Query, TypeOK
  <2> QED BY <1>9, <2>2, <2>3 DEF Query, TypeOK, bounds
<1>10. CASE UNCHANGED vars
  BY <1>10 DEF vars, bounds, TypeOK
<1>11. Callers \subseteq Tasks /\ Probe \in Tasks
  BY DEF Tasks
<1> QED
  BY <1>1, <1>2, <1>3, <1>4, <1>5, <1>6, <1>7, <1>8, <1>9, <1>10, <1>11 DEF Next, Continue

(* Every state is well typed, for any number of connections, clients,      *)
(* calls and failures; in particular no lookup meets a state it does not   *)
(* know (server.rs:294-440).                                               *)
THEOREM TypeCorrect == Spec => []TypeOK
BY InitType, StepType, PTL DEF Spec

-----------------------------------------------------------------------------
(***************************************************************************)
(* Chances.                                                                *)
(***************************************************************************)
Opening(c, n) == task[c].name = n /\ task[c].at \in {"resolve", "connect"}
Storing(c, n) == task[c].name = n /\ task[c].at = "publish"

MayOpen(c, n) == Opening(c, n) \/ (entry[n].state # "connected" /\ ~Storing(c, n))

Chances == {x \in Callers \X Names : MayOpen(x[1], x[2])}

(* The probe may open a pool, or take the default connection away.         *)
ProbeChances == IF task[Probe].at \in {"start", "connect", "mark"} THEN Cardinality(Callers) ELSE 0

ProbeOK ==
  /\ task[Probe].name = Default
  /\ task[Probe].at \in {"start", "connect", "publish", "mark", "done"}

(* Of the chances the server starts with, each pool has used one.          *)
PoolInv ==
  /\ TypeOK
  /\ ProbeOK
  /\ pools + Cardinality(Chances) + ProbeChances
       <= Cardinality(Callers) * Cardinality(Names) + Cardinality(Callers)

LEMMA ChancesFinite ==
  /\ IsFiniteSet(Callers \X Names)
  /\ Cardinality(Callers \X Names) = Cardinality(Callers) * Cardinality(Names)
  /\ Cardinality(Callers) \in Nat /\ Cardinality(Names) \in Nat
  /\ Cardinality(Callers) * Cardinality(Names) \in Nat
  /\ IsFiniteSet(Chances) /\ Cardinality(Chances) \in Nat
  /\ Cardinality(Chances) <= Cardinality(Callers \X Names)
<1>1. IsFiniteSet(Callers) /\ IsFiniteSet(Names)
  BY ConnectionCacheAssumption
<1>2. IsFiniteSet(Callers \X Names) /\ Cardinality(Callers \X Names) = Cardinality(Callers) * Cardinality(Names)
  BY <1>1, FS_Product
<1>3. Cardinality(Callers) \in Nat /\ Cardinality(Names) \in Nat
  BY <1>1, FS_CardinalityType
<1>4. Chances \in SUBSET (Callers \X Names)
  BY DEF Chances
<1>5. IsFiniteSet(Chances) /\ Cardinality(Chances) <= Cardinality(Callers \X Names)
  BY <1>2, <1>4, FS_Subset
<1>6. Cardinality(Chances) \in Nat /\ Cardinality(Callers \X Names) \in Nat
  BY <1>2, <1>5, FS_CardinalityType
<1> QED BY <1>2, <1>3, <1>5, <1>6

LEMMA PoolInit == Init => PoolInv
<1> SUFFICES ASSUME Init PROVE PoolInv
  OBVIOUS
<1>1. TypeOK /\ pools = 0
  BY InitType DEF Init
<1>2. ProbeOK
  BY DEF Init, ProbeOK, Rest, Tasks
<1>3. ProbeChances = Cardinality(Callers)
  BY DEF Init, ProbeChances, Rest, Tasks
<1> QED BY <1>1, <1>2, <1>3, ChancesFinite DEF PoolInv

LEMMA ChancesKept ==
  ASSUME PoolInv, TypeOK', ProbeOK', pools' = pools, Chances' \subseteq Chances,
         ProbeChances' = ProbeChances \/ ProbeChances' = 0
  PROVE  PoolInv'
<1>1. IsFiniteSet(Chances) /\ Cardinality(Chances) \in Nat
  BY ChancesFinite
<1>2. IsFiniteSet(Chances') /\ Cardinality(Chances') <= Cardinality(Chances) /\ Cardinality(Chances') \in Nat
  BY <1>1, FS_Subset, FS_CardinalityType
<1>3. Cardinality(Callers) \in Nat /\ Cardinality(Callers) * Cardinality(Names) \in Nat /\ pools \in Nat
  BY ChancesFinite DEF PoolInv, TypeOK
<1>4. ProbeChances \in Nat /\ ProbeChances' <= ProbeChances /\ ProbeChances' \in Nat
  BY <1>3 DEF ProbeChances
<1> DEFINE a == Cardinality(Chances) b == Cardinality(Chances') p == ProbeChances q == ProbeChances'
           m == Cardinality(Callers) * Cardinality(Names) n == Cardinality(Callers)
<1>5. pools + a + p <= m + n
  BY DEF PoolInv
<1>6. a \in Nat /\ b \in Nat /\ p \in Nat /\ q \in Nat /\ m \in Nat /\ n \in Nat /\ b <= a /\ q <= p /\ pools \in Nat
  BY <1>1, <1>2, <1>3, <1>4
<1> HIDE DEF a, b, p, q, m, n
<1>7. pools + b + q <= m + n
  BY <1>5, <1>6
<1> QED BY <1>7 DEF PoolInv, a, b, p, q, m, n

(* A client that opens a pool has used its chance at the name up. *)
LEMMA PoolOpened ==
  ASSUME PoolInv, TypeOK', NEW c \in Callers, Connect(c)
  PROVE  PoolInv'
<1>1. /\ task[c].at = "connect" /\ pools' = pools + 1 /\ UNCHANGED entry
      /\ task' = [task EXCEPT ![c].at = "publish", ![c].pool = pools + 1]
      /\ c \in Tasks /\ Probe \in Tasks /\ c # Probe
  BY ConnectionCacheAssumption DEF Connect, Tasks
<1>2. task \in [Tasks -> TaskType] /\ task[c].name \in Names
  BY <1>1 DEF PoolInv, TypeOK, TaskType
<1>3. /\ task'[c].at = "publish" /\ task'[c].name = task[c].name
      /\ \A t \in Tasks \ {c} : task'[t] = task[t]
  BY <1>1, <1>2 DEF TaskType
<1> DEFINE x == <<c, task[c].name>>
<1>4. x \in Chances
  BY <1>1, <1>2 DEF Chances, MayOpen, Opening
<1>5. x \notin Chances'
  BY <1>3 DEF Chances, MayOpen, Opening, Storing
<1>6. ASSUME NEW d \in Callers, NEW n \in Names, MayOpen(d, n)' PROVE MayOpen(d, n)
  <2>1. CASE d # c
    <3>1. task'[d] = task[d]
      BY <1>3, <2>1 DEF Tasks
    <3> QED BY <1>1, <1>6, <3>1 DEF MayOpen, Opening, Storing
  <2>2. CASE d = c
    BY <1>1, <1>3, <1>6, <2>2 DEF MayOpen, Opening, Storing
  <2> QED BY <2>1, <2>2
<1>7. Chances' \subseteq Chances \ {x}
  BY <1>5, <1>6 DEF Chances
<1>8. IsFiniteSet(Chances) /\ Cardinality(Chances) \in Nat
  BY ChancesFinite
<1>9. IsFiniteSet(Chances \ {x}) /\ Cardinality(Chances \ {x}) = Cardinality(Chances) - 1
  BY <1>4, <1>8, FS_RemoveElement
<1>10. Cardinality(Chances') <= Cardinality(Chances) - 1 /\ Cardinality(Chances') \in Nat
  BY <1>7, <1>9, FS_Subset, FS_CardinalityType
<1>11. task'[Probe] = task[Probe]
  BY <1>1, <1>3
<1>12. ProbeChances' = ProbeChances /\ ProbeOK' /\ ProbeChances \in Nat
  BY <1>11, ChancesFinite DEF ProbeChances, ProbeOK, PoolInv
<1> DEFINE a == Cardinality(Chances) b == Cardinality(Chances') p == ProbeChances
           m == Cardinality(Callers) * Cardinality(Names) n == Cardinality(Callers)
<1>13. pools + a + p <= m + n /\ pools \in Nat /\ m \in Nat /\ n \in Nat
  BY ChancesFinite DEF PoolInv, TypeOK
<1>14. a \in Nat /\ b \in Nat /\ b <= a - 1 /\ p \in Nat
  BY <1>8, <1>10, <1>12
<1> HIDE DEF a, b, p, m, n
<1>15. pools + 1 + b + p <= m + n
  BY <1>13, <1>14
<1> QED BY <1>1, <1>12, <1>15 DEF PoolInv, a, b, p, m, n

LEMMA ProbeOpened ==
  ASSUME Callers # {}, PoolInv, TypeOK', Connect(Probe)
  PROVE  PoolInv'
<1>1. /\ task[Probe].at = "connect" /\ pools' = pools + 1 /\ UNCHANGED entry
      /\ task' = [task EXCEPT ![Probe].at = "publish", ![Probe].pool = pools + 1]
      /\ Probe \in Tasks /\ Probe \notin Callers
  BY ConnectionCacheAssumption DEF Connect, Tasks
<1>2. task \in [Tasks -> TaskType]
  BY DEF PoolInv, TypeOK, TaskType
<1>3. /\ task'[Probe].at = "publish" /\ task'[Probe].name = task[Probe].name
      /\ \A c \in Callers : task'[c] = task[c]
  BY <1>1, <1>2 DEF TaskType, Tasks
<1>4. Chances' = Chances
  BY <1>1, <1>3 DEF Chances, MayOpen, Opening, Storing
<1>5. ProbeChances = Cardinality(Callers) /\ ProbeChances' = 0 /\ ProbeOK'
  BY <1>1, <1>3 DEF ProbeChances, ProbeOK, PoolInv
<1>6. Cardinality(Callers) # 0
  BY ConnectionCacheAssumption, FS_EmptySet
<1> DEFINE a == Cardinality(Chances)
           m == Cardinality(Callers) * Cardinality(Names) n == Cardinality(Callers)
<1>7. pools + a + n <= m + n /\ n # 0 /\ a \in Nat /\ n \in Nat /\ m \in Nat /\ pools \in Nat
  BY <1>5, <1>6, ChancesFinite DEF PoolInv, TypeOK
<1> HIDE DEF a, m, n
<1>8. pools + 1 + a + 0 <= m + n
  BY <1>7
<1> QED BY <1>1, <1>4, <1>5, <1>8 DEF PoolInv, a, m, n

(* The probe takes the default connection away: every client may open a    *)
(* pool for it again, and the probe's part is over.                        *)
LEMMA ChancesBack ==
  ASSUME PoolInv, TypeOK', MarkUnavailable
  PROVE  PoolInv'
<1>1. /\ task[Probe].at = "mark" /\ pools' = pools
      /\ entry' = [entry EXCEPT ![Default] = NotOpen("unavailable")]
      /\ task' = [task EXCEPT ![Probe].at = "done"]
      /\ Probe \in Tasks /\ Probe \notin Callers
  BY ConnectionCacheAssumption DEF MarkUnavailable, Go, Tasks
<1>2. task \in [Tasks -> TaskType]
  BY DEF PoolInv, TypeOK, TaskType
<1>3. /\ task'[Probe].at = "done" /\ task'[Probe].name = task[Probe].name
      /\ \A c \in Callers : task'[c] = task[c]
  BY <1>1, <1>2 DEF TaskType, Tasks
<1>4. \A n \in Names \ {Default} : entry'[n] = entry[n]
  BY <1>1 DEF PoolInv, TypeOK
<1> DEFINE back == Callers \X {Default}
<1>5. Chances' \subseteq Chances \cup back
  BY <1>3, <1>4 DEF Chances, MayOpen, Opening, Storing
<1>6. IsFiniteSet(back) /\ Cardinality(back) = Cardinality(Callers)
  <2>1. IsFiniteSet({Default}) /\ Cardinality({Default}) = 1
    BY FS_Singleton
  <2>2. IsFiniteSet(back) /\ Cardinality(back) = Cardinality(Callers) * Cardinality({Default})
    BY <2>1, FS_Product, ConnectionCacheAssumption
  <2> QED BY <2>1, <2>2, ChancesFinite
<1> HIDE DEF back
<1>7. IsFiniteSet(Chances) /\ Cardinality(Chances) \in Nat
  BY ChancesFinite
<1>8. /\ IsFiniteSet(Chances \cup back)
      /\ Cardinality(Chances \cup back) = Cardinality(Chances) + Cardinality(back) - Cardinality(Chances \cap back)
  BY <1>6, <1>7, FS_Union
<1>9. Cardinality(Chances \cap back) \in Nat
  BY <1>7, FS_Intersection, FS_CardinalityType
<1>10. Cardinality(Chances') <= Cardinality(Chances \cup back) /\ Cardinality(Chances') \in Nat
  BY <1>5, <1>8, FS_Subset, FS_CardinalityType
<1>11. ProbeChances = Cardinality(Callers) /\ ProbeChances' = 0 /\ ProbeOK'
  BY <1>1, <1>3 DEF ProbeChances, ProbeOK, PoolInv
<1> DEFINE a == Cardinality(Chances) b == Cardinality(Chances')
           m == Cardinality(Callers) * Cardinality(Names) n == Cardinality(Callers)
<1>12. pools + a + n <= m + n /\ a \in Nat /\ n \in Nat /\ m \in Nat /\ pools \in Nat
  BY <1>11, ChancesFinite DEF PoolInv, TypeOK
<1>13. b <= a + n /\ b \in Nat
  BY <1>6, <1>7, <1>8, <1>9, <1>10, ChancesFinite
<1> HIDE DEF a, b, m, n
<1>14. pools + b + 0 <= m + n
  BY <1>12, <1>13
<1> QED BY <1>1, <1>11, <1>14 DEF PoolInv, a, b, m, n

(* A step that opens no pool and connects no name less gives no chance.    *)
LEMMA CallerSteps ==
  ASSUME PoolInv, TypeOK', NEW c \in Callers,
         pools' = pools, \A d \in Tasks \ {c} : task'[d] = task[d],
         \A n \in Names : entry[n].state = "connected" => entry'[n].state = "connected",
         \A n \in Names : MayOpen(c, n)' => MayOpen(c, n)
  PROVE  PoolInv'
<1>1. Callers \subseteq Tasks /\ Probe \in Tasks /\ Probe # c
  BY ConnectionCacheAssumption DEF Tasks
<1>2. task'[Probe] = task[Probe]
  BY <1>1
<1>3. ProbeOK' /\ ProbeChances' = ProbeChances
  BY <1>2 DEF PoolInv, ProbeOK, ProbeChances
<1>4. ASSUME NEW d \in Callers, NEW n \in Names, MayOpen(d, n)' PROVE MayOpen(d, n)
  <2>1. CASE d # c
    <3>1. task'[d] = task[d]
      BY <1>1, <2>1
    <3> QED BY <1>4, <3>1 DEF MayOpen, Opening, Storing
  <2>2. CASE d = c
    BY <1>4, <2>2
  <2> QED BY <2>1, <2>2
<1>5. Chances' \subseteq Chances
  BY <1>4 DEF Chances
<1> QED BY <1>3, <1>5, ChancesKept

LEMMA ProbeSteps ==
  ASSUME PoolInv, TypeOK', ProbeOK', pools' = pools, \A d \in Callers : task'[d] = task[d],
         \A n \in Names : entry[n].state = "connected" => entry'[n].state = "connected",
         task[Probe].at \in {"start", "connect", "mark"} \/ task'[Probe].at \in {"publish", "done"}
  PROVE  PoolInv'
<1>1. ProbeChances' = ProbeChances \/ ProbeChances' = 0
  BY DEF ProbeChances
<1>2. Chances' \subseteq Chances
  BY DEF Chances, MayOpen, Opening, Storing
<1> QED BY <1>1, <1>2, ChancesKept

LEMMA PoolStep ==
  ASSUME Callers # {}, PoolInv, [Next]_vars
  PROVE  PoolInv'
<1>0. TypeOK /\ TypeOK' /\ ProbeOK
  BY StepType DEF PoolInv
<1>a. Callers \subseteq Tasks /\ Probe \in Tasks /\ Probe \notin Callers
  BY ConnectionCacheAssumption DEF Tasks
<1>b. task \in [Tasks -> TaskType] /\ entry \in [Names -> EntryType]
  BY <1>0 DEF TypeOK, TaskType, EntryType
<1>1. CASE StartProbe
  <2>1. /\ task' = [task EXCEPT ![Probe].at = IF entry[Default].state = "connecting" THEN "connect" ELSE "done"]
        /\ task[Probe].at = "start" /\ UNCHANGED <<entry, pools>>
    BY <1>1 DEF StartProbe, Go
  <2>2. /\ task'[Probe].at \in {"connect", "done"} /\ task'[Probe].name = task[Probe].name
        /\ \A d \in Callers : task'[d] = task[d]
    BY <1>a, <1>b, <2>1 DEF TaskType
  <2>3. ProbeOK'
    BY <1>0, <2>2 DEF ProbeOK
  <2> QED BY <1>0, <2>1, <2>2, <2>3, ProbeSteps
<1>2. ASSUME NEW c \in Callers, NEW n \in Names, Lookup(c, n) PROVE PoolInv'
  <2>1. /\ task[c].at = "idle" /\ UNCHANGED <<entry, pools>>
        /\ task' = [task EXCEPT ![c] = [at |-> NextPlace(entry[n].state), name |-> n,
                                        pool |-> entry[n].pool, url |-> "none"]]
    BY <1>2 DEF Lookup
  <2>2. /\ task'[c].at = NextPlace(entry[n].state) /\ task'[c].name = n
        /\ \A d \in Tasks \ {c} : task'[d] = task[d]
    BY <1>a, <1>b, <2>1
  <2>3. NextPlace("connected") = "acquire"
    BY DEF NextPlace
  <2>4. \A m \in Names : MayOpen(c, m)' => MayOpen(c, m)
    BY <2>1, <2>2, <2>3 DEF MayOpen, Opening, Storing
  <2> QED BY <1>0, <2>1, <2>2, <2>4, CallerSteps
(* A call on its way opens no pool but by connecting. *)
<1>3. ASSUME NEW c \in Callers, UNCHANGED <<entry, pools>>, NEW z \in TaskType,
             task' = [task EXCEPT ![c] = z], task[c].at # "publish",
             z.at \in {"resolve", "connect"} => task[c].at \in {"resolve", "connect"} /\ z.name = task[c].name
      PROVE  PoolInv'
  <2>1. task'[c] = z /\ \A d \in Tasks \ {c} : task'[d] = task[d]
    BY <1>3, <1>a, <1>b
  <2>2. \A m \in Names : MayOpen(c, m)' => MayOpen(c, m)
    BY <1>3, <2>1 DEF MayOpen, Opening, Storing
  <2> QED BY <1>0, <1>3, <2>1, <2>2, CallerSteps
<1>4. Rest \in TaskType /\ Rest.at = "idle"
  BY <1>0, ConnectionCacheAssumption DEF Rest, TaskType, Places, TypeOK
<1>5. ASSUME NEW c \in Callers, Resolve(c) \/ Acquire(c) \/ ConnectFails(c) \/ ReadUrl(c) \/ Query(c)
      PROVE  PoolInv'
  <2>1. task[c].at \in {"resolve", "acquire", "connect", "ready", "query"} /\ UNCHANGED <<entry, pools>>
    BY <1>5 DEF Resolve, Acquire, ConnectFails, ReadUrl, Query
  <2>2. CASE task' = [task EXCEPT ![c] = Rest]
    BY <1>3, <1>4, <2>1, <2>2
  <2>3. ASSUME NEW place \in {"ready", "connect", "query"}, NEW u \in Names \cup {"none"},
               task' = [task EXCEPT ![c] = [task[c] EXCEPT !.at = place, !.url = u]],
               place = "connect" => task[c].at = "resolve"
        PROVE  PoolInv'
    <3> DEFINE z == [task[c] EXCEPT !.at = place, !.url = u]
    <3>1. z \in TaskType /\ z.at = place /\ z.name = task[c].name
      BY <1>a, <1>b DEF TaskType, Places
    <3> QED BY <1>3, <2>1, <2>3, <3>1
  <2>4. task[c].url \in Names \cup {"none"} /\ UrlOf(task[c].name) \in Names \cup {"none"}
    BY <1>a, <1>b DEF TaskType, UrlOf
  <2>5. \A place : Go(c, place) => task' = [task EXCEPT ![c] = [task[c] EXCEPT !.at = place, !.url = task[c].url]]
    BY <1>a, <1>b DEF Go, TaskType
  <2>6. CASE Resolve(c)
    BY <2>2, <2>3, <2>4, <2>5, <2>6 DEF Resolve, GiveUp
  <2>7. CASE Acquire(c)
    BY <2>2, <2>3, <2>4, <2>5, <2>7 DEF Acquire, GiveUp
  <2>8. CASE ConnectFails(c)
    BY <1>a, <2>2, <2>8 DEF ConnectFails, GiveUp
  <2>9. CASE ReadUrl(c)
    BY <2>3, <2>4, <2>9 DEF ReadUrl
  <2>10. CASE Query(c)
    BY <2>2, <2>10 DEF Query
  <2> QED BY <1>5, <2>6, <2>7, <2>8, <2>9, <2>10
<1>6. ASSUME NEW t \in Tasks, Publish(t)
      PROVE  /\ task[t].at = "publish" /\ pools' = pools
             /\ \A n \in Names : entry[n].state = "connected" => entry'[n].state = "connected"
             /\ entry'[task[t].name].state = "connected"
             /\ task'[t].at \in {"done", "ready"} /\ task'[t].name = task[t].name
             /\ t = Probe => task'[t].at = "done"
             /\ \A d \in Tasks \ {t} : task'[d] = task[d]
  <2>1. /\ task[t].at = "publish" /\ pools' = pools
        /\ entry' = [entry EXCEPT ![task[t].name] = Open(task[t].pool)]
        /\ task' = [task EXCEPT ![t].at = IF t = Probe THEN "done" ELSE "ready"]
    BY <1>6 DEF Publish, Published, Go
  <2>2. task[t].name \in Names /\ Open(task[t].pool).state = "connected"
    BY <1>b DEF TaskType, Open
  <2>3. \A n \in Names : entry[n].state = "connected" => entry'[n].state = "connected"
    BY <1>b, <2>1, <2>2
  <2>4. entry'[task[t].name].state = "connected"
    BY <1>b, <2>1, <2>2
  <2>5. /\ task'[t].at = (IF t = Probe THEN "done" ELSE "ready") /\ task'[t].name = task[t].name
        /\ \A d \in Tasks \ {t} : task'[d] = task[d]
    BY <1>b, <2>1 DEF TaskType
  <2> QED BY <2>1, <2>3, <2>4, <2>5
<1>7. ASSUME NEW c \in Callers, Publish(c) PROVE PoolInv'
  <2>1. \A m \in Names : MayOpen(c, m)' => MayOpen(c, m)
    BY <1>6, <1>7, <1>a DEF MayOpen, Opening, Storing
  <2> QED BY <1>0, <1>6, <1>7, <1>a, <2>1, CallerSteps
<1>8. CASE Publish(Probe)
  <2>1. ProbeOK'
    BY <1>0, <1>6, <1>8, <1>a DEF ProbeOK
  <2>2. \A d \in Callers : task'[d] = task[d]
    BY <1>6, <1>8, <1>a
  <2> QED BY <1>0, <1>6, <1>8, <1>a, <2>1, <2>2, ProbeSteps
<1>9. CASE ConnectFails(Probe)
  <2>1. task[Probe].at = "connect" /\ task' = [task EXCEPT ![Probe].at = "mark"] /\ UNCHANGED <<entry, pools>>
    BY <1>9 DEF ConnectFails, Go
  <2>2. /\ task'[Probe].at = "mark" /\ task'[Probe].name = task[Probe].name
        /\ \A d \in Callers : task'[d] = task[d]
    BY <1>a, <1>b, <2>1 DEF TaskType
  <2>3. ProbeOK'
    BY <1>0, <2>2 DEF ProbeOK
  <2> QED BY <1>0, <2>1, <2>2, <2>3, ProbeSteps
<1>10. CASE UNCHANGED vars
  <2>1. UNCHANGED <<task, entry, pools>>
    BY <1>10 DEF vars
  <2>2. ProbeOK' /\ ProbeChances' = ProbeChances /\ Chances' \subseteq Chances
    BY <1>0, <2>1 DEF ProbeOK, ProbeChances, Chances, MayOpen, Opening, Storing
  <2> QED BY <1>0, <2>1, <2>2, ChancesKept
<1> QED
  BY <1>0, <1>1, <1>2, <1>5, <1>7, <1>8, <1>9, <1>10, PoolOpened, ProbeOpened, ChancesBack
     DEF Next, Continue

(* The cache caches: however many calls are made and fail, a client opens  *)
(* at most one pool for a connection, and for the default connection one   *)
(* more if the probe takes it away (server.rs:294-440).                    *)
THEOREM PoolsStayBounded ==
  ASSUME Callers # {}
  PROVE  Spec => []PoolsBounded
<1>1. Init => PoolInv
  BY PoolInit
<1>2. PoolInv /\ [Next]_vars => PoolInv'
  BY PoolStep
<1>3. PoolInv => PoolsBounded
  <2> SUFFICES ASSUME PoolInv PROVE PoolsBounded
    OBVIOUS
  <2> DEFINE a == Cardinality(Chances) p == ProbeChances
             k == Cardinality(Callers) * Cardinality(Names) n == Cardinality(Callers)
  <2>1. pools + a + p <= k + n /\ pools \in Nat /\ a \in Nat /\ k \in Nat /\ n \in Nat
    BY ChancesFinite DEF PoolInv, TypeOK
  <2>2. p \in Nat
    BY ChancesFinite DEF ProbeChances
  <2>3. k = Cardinality(Names) * Cardinality(Callers)
    BY ChancesFinite
  <2> HIDE DEF a, p, k, n
  <2>4. pools <= k + n
    BY <2>1, <2>2
  <2> QED BY <2>3, <2>4 DEF PoolsBounded, n
<1> QED BY <1>1, <1>2, <1>3, PTL DEF Spec
=============================================================================
