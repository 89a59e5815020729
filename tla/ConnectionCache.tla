--------------------------- MODULE ConnectionCache ---------------------------
(***************************************************************************)
(* The MCP server's table of named connections (server.rs, DbMcp): tool    *)
(* calls of several clients and the startup probe look a connection up,    *)
(* open it when it is not open yet, and store it.                          *)
(*                                                                         *)
(* The table is behind an async mutex that is never held across an await,  *)
(* so each step below is one critical section or one answer of the         *)
(* keychain, the driver or the database.                                   *)
(*                                                                         *)
(* Abstractions.  A pool is a number.  That an attempt fails is a choice;  *)
(* which of an Oracle URL's factories answers (connect_with_fallback) is   *)
(* left out.  All calls run one query, as execute_query does.              *)
(***************************************************************************)
EXTENDS Integers, FiniteSets

CONSTANTS
  Names,       \* configured connections
  Default,     \* default_name
  Lazy,        \* names whose credentials are resolved on first use
  Callers,     \* concurrent tool calls
  Probe,       \* the task that runs try_connect at startup
  MaxCalls,    \* bound: tool calls
  MaxFailures  \* bound: failed attempts

ASSUME ConnectionCacheAssumption ==
  /\ Default \in Names /\ Lazy \subseteq Names
  /\ IsFiniteSet(Names) /\ IsFiniteSet(Callers) /\ Probe \notin Callers
  /\ {MaxCalls, MaxFailures} \subseteq Nat

VARIABLES
  entry,      \* name -> ConnectionState and, if connected, its pool
  task,       \* call or probe -> where it is
  pools,      \* pools opened so far
  audit,      \* name and target of the queries recorded in the ledger
  errors,     \* calls that ended without running their query
  calls, failures

bounds == <<calls, failures>>
vars == <<entry, task, pools, audit, errors, bounds>>

Tasks == Callers \cup {Probe}
Rest == [at |-> "idle", name |-> Default, pool |-> 0, url |-> "none"]
NotOpen(st) == [state |-> st, pool |-> 0]
Open(p) == [state |-> "connected", pool |-> p]

Go(t, place) == task' = [task EXCEPT ![t].at = place]
Fail == failures < MaxFailures /\ failures' = failures + 1

(* A call gives up: the error goes to the client that made it.             *)
GiveUp(t) == task' = [task EXCEPT ![t] = Rest] /\ errors' = errors + 1

-----------------------------------------------------------------------------
(* try_connect: only a default connection whose URL is known is probed.    *)
StartProbe ==
  /\ task[Probe].at = "start"
  /\ Go(Probe, IF entry[Default].state = "connecting" THEN "connect" ELSE "done")
  /\ UNCHANGED <<entry, pools, audit, errors, bounds>>

(* get_connection: what the table says decides how to go on.               *)
NextPlaceWaiting(st) ==
  CASE st = "connected" -> "acquire"
    [] st = "pending" -> "resolve"
    [] st = "connecting" -> "wait"
    [] st = "unavailable" -> "connect"
NextPlace(st) ==
  CASE st = "connected" -> "acquire"
    [] st = "pending" -> "resolve"
    [] st \in {"connecting", "unavailable"} -> "connect"

LookupSticky(c, n) ==
  /\ task[c].at = "idle" /\ calls < MaxCalls
  /\ calls' = calls + 1
  /\ IF entry[n].state = "unavailable" THEN GiveUp(c)
     ELSE /\ task' = [task EXCEPT ![c] =
               [at |-> NextPlace(entry[n].state), name |-> n,
                pool |-> entry[n].pool, url |-> "none"]]
          /\ UNCHANGED errors
  /\ UNCHANGED <<entry, pools, audit, failures>>

Lookup(c, n) ==
  /\ task[c].at = "idle" /\ calls < MaxCalls
  /\ calls' = calls + 1
  /\ task' = [task EXCEPT ![c] =
       [at |-> NextPlace(entry[n].state), name |-> n, pool |-> entry[n].pool,
        url |-> "none"]]
  /\ UNCHANGED <<entry, pools, audit, errors, failures>>

(* The resolver reads the keychain; the entry stays pending.               *)
Resolve(c) ==
  /\ task[c].at = "resolve"
  /\ \/ Go(c, "connect") /\ UNCHANGED <<errors, failures>>
     \/ Fail /\ GiveUp(c)
  /\ UNCHANGED <<entry, pools, audit, calls>>

(* pool.acquire on a stored pool.  A failure leaves the entry as it is.    *)
Acquire(c) ==
  /\ task[c].at = "acquire"
  /\ \/ Go(c, "ready") /\ UNCHANGED <<errors, failures>>
     \/ Fail /\ GiveUp(c)
  /\ UNCHANGED <<entry, pools, audit, calls>>

(* connect_with_url up to the first connection of a new pool.              *)
Connect(t) ==
  /\ task[t].at = "connect"
  /\ pools' = pools + 1
  /\ task' = [task EXCEPT ![t].at = "publish", ![t].pool = pools + 1]
  /\ UNCHANGED <<entry, audit, errors, bounds>>

ConnectFails(t) ==
  /\ task[t].at = "connect"
  /\ Fail
  /\ IF t = Probe THEN Go(t, "mark") /\ UNCHANGED errors ELSE GiveUp(t)
  /\ UNCHANGED <<entry, pools, audit, calls>>

(* ... and its insertion into the table.                                   *)
PublishedNot(n, p) == entry
Published(n, p) == [entry EXCEPT ![n] = Open(p)]

Publish(t) ==
  /\ task[t].at = "publish"
  /\ entry' = Published(task[t].name, task[t].pool)
  /\ Go(t, IF t = Probe THEN "done" ELSE "ready")
  /\ UNCHANGED <<pools, audit, errors, bounds>>

(* The probe that failed marks the connection, whatever became of it.      *)
MarkUnavailable ==
  /\ task[Probe].at = "mark"
  /\ entry' = [entry EXCEPT ![Default] = NotOpen("unavailable")]
  /\ Go(Probe, "done")
  /\ UNCHANGED <<pools, audit, errors, bounds>>

(* connection_url_of looks the name up again, for the audit events.        *)
UrlOf(n) == IF entry[n].state = "connected" THEN n ELSE "none"

ReadUrl(c) ==
  /\ task[c].at = "ready"
  /\ task' = [task EXCEPT ![c].at = "query", ![c].url = UrlOf(task[c].name)]
  /\ UNCHANGED <<entry, pools, audit, errors, bounds>>

(* The query, and its event whether it succeeds or not.                    *)
Query(c) ==
  /\ task[c].at = "query"
  /\ audit' = audit \cup {<<task[c].name, task[c].url>>}
  /\ task' = [task EXCEPT ![c] = Rest]
  /\ UNCHANGED <<entry, pools, errors, bounds>>

Init ==
  /\ entry = [n \in Names |-> NotOpen(IF n \in Lazy THEN "pending" ELSE "connecting")]
  /\ task = [t \in Tasks |-> IF t = Probe THEN [Rest EXCEPT !.at = "start"] ELSE Rest]
  /\ pools = 0 /\ audit = {} /\ errors = 0
  /\ calls = 0 /\ failures = 0

Continue(c) ==
  \/ Resolve(c)
  \/ Acquire(c)
  \/ Connect(c)
  \/ ConnectFails(c)
  \/ Publish(c)
  \/ ReadUrl(c)
  \/ Query(c)

Next ==
  \/ StartProbe
  \/ \E c \in Callers, n \in Names : Lookup(c, n)
  \/ \E c \in Callers : Continue(c)
  \/ Connect(Probe)
  \/ ConnectFails(Probe)
  \/ Publish(Probe)
  \/ MarkUnavailable

Spec == Init /\ [][Next]_vars

(* Every call is a task of its own, which the runtime keeps polling; the   *)
(* driver answers, or gives up after its timeout.                          *)
FairSpec == Spec /\ \A c \in Callers : WF_vars(Continue(c))

-----------------------------------------------------------------------------
Places == {"idle", "start", "done", "resolve", "acquire", "connect", "mark",
           "publish", "ready", "query"}

TypeOK ==
  /\ entry \in [Names ->
       [state : {"pending", "connecting", "connected", "unavailable"}, pool : 0 .. pools]]
  /\ task \in [Tasks ->
       [at : Places, name : Names, pool : 0 .. pools, url : Names \cup {"none"}]]
  /\ pools \in Nat
  /\ audit \subseteq Names \X (Names \cup {"none"})
  /\ errors \in Nat
  /\ calls \in 0 .. MaxCalls /\ failures \in 0 .. MaxFailures

(* The cache caches: however many calls are made, pools are only opened by *)
(* the calls in flight when a connection is first used, and once more if   *)
(* the probe takes it away (server.rs:294-440).                            *)
PoolsBounded ==
  pools <= Cardinality(Names) * Cardinality(Callers) + Cardinality(Callers)

(* A failure is not remembered: a call only fails by an attempt of its own *)
(* failing, never by an earlier one or by another task's                   *)
(* (server.rs:355-381).                                                    *)
FailsOnlyByItself ==
  [][errors' # errors => failures' # failures]_vars

(* No call waits for another: each one ends, with a result or an error.    *)
CallsEnd == \A c \in Callers : (task[c].at # "idle") ~> (task[c].at = "idle")

(* audit/mod.rs:4: the ledger answers "who ran what, on which connection,  *)
(* with what outcome".                                                     *)
AuditNamesConnection == \A e \in audit : e[2] = e[1]
=============================================================================
