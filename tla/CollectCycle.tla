---------------------------- MODULE CollectCycle ----------------------------
(***************************************************************************)
(* One collection cycle after another, with what it reads and leaves in    *)
(* PostgreSQL: the SELECT of scheduler.ts's tick, then collectAll of       *)
(* collector/worker-pool.ts (collect, statuses, batch inserts, alerts),    *)
(* interleaved with the instance routes of routes/instances.ts, with       *)
(* restarts of a SQL Server and with crashes of the backend.               *)
(*                                                                         *)
(* That cycles do not overlap is shown in Backend, that every instance of  *)
(* a cycle is collected once and its result kept in WorkerPool, so here    *)
(* instances of a cycle settle in any order.                               *)
(*                                                                         *)
(* Three of the nineteen inserts are modelled, one of each kind: wait_stats *)
(* (a delta against a snapshot kept in memory, one statement for all       *)
(* instances), os_host_info (collected once per process) and permissions   *)
(* (replaced instance by instance).  The work of a SQL Server is a count   *)
(* of units of one wait type; a wait_stats row is the set of units its     *)
(* delta accounts for.                                                     *)
(***************************************************************************)
EXTENDS Integers, FiniteSets

CONSTANTS
  Ids,         (* ids an instance row may get: a serial, never used twice  *)
  Probed,      (* bound: ids whose connection somebody tests               *)
  MaxWork,     (* bound: units of work between two restarts of a server    *)
  MaxFaults,   (* bound: faults (see the history variable) in a behaviour  *)
  PermEvery    (* permissions are collected every so many cycles: 2880     *)

ASSUME ProbedAssumption == Probed \subseteq Ids
ASSUME WorkAssumption == MaxWork \in Nat \ {0} /\ MaxFaults \in Nat
ASSUME PermAssumption == PermEvery \in Nat \ {0, 1}

VARIABLES
  (* PostgreSQL *)
  inst,       (* per id: "new", "live" (a row of instances) or "deleted"   *)
  status,     (* instances.status                                          *)
  stored,     (* per id and unit: the wait_stats rows accounting for it    *)
  hostRow,    (* per id: the server start the last os_host_info row is     *)
              (* about, -1 without a row                                   *)
  perms,      (* per id: the collections its server_role_members come from *)
  (* the memory of the backend *)
  count,      (* cycleCount, folded (see Counted)                          *)
  snap,       (* previousSnapshots of wait-stats.ts                        *)
  hostSeen,   (* hostInfoCollected                                         *)
  (* the cycle *)
  phase,      (* what the cycle does next, see Phases                      *)
  todo,       (* instances this phase has not dealt with                   *)
  replacing,  (* the id whose permissions are deleted and not yet inserted *)
  batch,      (* the instances of the cycle                                *)
  result,     (* per id: the InstanceResult                                *)
  (* outside *)
  work, era,  (* per SQL Server: units when last read, and its starts      *)
  (* history *)
  first,      (* per id: units at its first snapshot in this process, or 0 *)
  tested,     (* ids whose status a test wrote during this cycle           *)
  failed,     (* inserts that failed in this cycle                         *)
  faults      (* PostgreSQL errors, crashes, restarts of a server,         *)
              (* collectors that rejected, deletions during a cycle        *)

pgVars  == <<inst, status, stored, hostRow, perms>>
memVars == <<count, snap, hostSeen, first>>
cycVars == <<phase, todo, replacing, batch, result, failed>>
envVars == <<work, era>>
vars == <<pgVars, memVars, cycVars, envVars, tested, faults>>

Phases == {"idle", "collect", "status", "wait_stats", "os_host_info",
           "delete_perms", "insert_perms", "alerts"}
Live == {i \in Ids : inst[i] = "live"}
Eras == 0..MaxFaults
Units == Eras \X (1..MaxWork)
None == [era |-> -1, at |-> 0]   (* no snapshot *)
Failed == [ok |-> FALSE, waits |-> {}, host |-> -1, perms |-> FALSE]

\* What tick and collectAll start a cycle with.
Blank == [i \in Ids |-> Failed]
Idle ==
  /\ phase' = "idle" /\ todo' = {} /\ replacing' = {} /\ batch' = {}
  /\ result' = Blank /\ failed' = {} /\ tested' = {}

Fault == faults < MaxFaults /\ faults' = faults + 1
-----------------------------------------------------------------------------
\* Nothing is monitored yet; on every server the wait type has been waited on.
Init ==
  /\ inst = [i \in Ids |-> "new"]
  /\ status = [i \in Ids |-> "unknown"]
  /\ stored = [i \in Ids |-> [u \in Units |-> 0]]
  /\ hostRow = [i \in Ids |-> -1]
  /\ perms = [i \in Ids |-> 0]
  /\ count = 0
  /\ snap = [i \in Ids |-> None]
  /\ hostSeen = {}
  /\ first = [i \in Ids |-> 0]
  /\ phase = "idle" /\ todo = {} /\ replacing = {} /\ batch = {}
  /\ result = Blank /\ failed = {}
  /\ work = [i \in Ids |-> 1]
  /\ era = [i \in Ids |-> 0]
  /\ tested = {}
  /\ faults = 0

\* cycleCount++, folded at 2 * PermEvery: only "=== 1" and "% 2880 === 0" are
\* asked of it, and 1 never comes back.
Counted == IF count + 1 = 2 * PermEvery THEN PermEvery ELSE count + 1
IsPermissionsCycle == count = 1 \/ (count > 0 /\ count % PermEvery = 0)
-----------------------------------------------------------------------------
\* Mutant: an instance found unreachable is not selected any more.
Selected_onlineOnly == {i \in Live : status[i] # "unreachable"}

\* SELECT ... FROM instances WHERE is_enabled = true (no route disables one).
Selected == Live

Select ==
  /\ phase = "idle"
  /\ Selected # {}
  /\ phase' = "collect"
  /\ batch' = Selected
  /\ todo' = Selected
  /\ count' = Counted
  /\ UNCHANGED <<pgVars, snap, hostSeen, first, replacing, result, failed, envVars, tested, faults>>

\* The delta of collectWaitStats: null without a snapshot or after a restart; a
\* type that had no wait at the snapshot is not in it and is skipped.
Delta(i, now) ==
  IF snap[i].era # era[i] \/ snap[i].at = 0 THEN {}
  ELSE {<<era[i], u>> : u \in (snap[i].at + 1)..now}

\* Mutant: the snapshot is kept while there is one to compare with.
TakeSnapshot_onlyFirst(i, now) ==
  /\ work' = [work EXCEPT ![i] = now]
  /\ snap' = IF snap[i] = None THEN [snap EXCEPT ![i] = [era |-> era[i], at |-> now]] ELSE snap
  /\ first' = IF first[i] = 0 THEN [first EXCEPT ![i] = now] ELSE first

\* Mutant: the snapshot is read again after the delta was computed, and the server
\* has worked on.
TakeSnapshot_reread(i, now) ==
  /\ work' = [work EXCEPT ![i] = now]
  /\ snap' = [snap EXCEPT ![i] = [era |-> era[i], at |-> now + 1]]
  /\ first' = IF first[i] = 0 THEN [first EXCEPT ![i] = now] ELSE first

\* The server has worked up to `now' and the collector reads and keeps that.
TakeSnapshot(i, now) ==
  /\ work' = [work EXCEPT ![i] = now]
  /\ snap' = [snap EXCEPT ![i] = [era |-> era[i], at |-> now]]
  /\ first' = IF first[i] = 0 THEN [first EXCEPT ![i] = now] ELSE first

Settle(i, r) ==
  /\ result' = [result EXCEPT ![i] = r]
  /\ todo' = IF todo = {i} THEN batch ELSE todo \ {i}
  /\ phase' = IF todo = {i} THEN "status" ELSE phase
  /\ UNCHANGED <<replacing, batch, failed>>

\* Every collector of the instance answered.  (A server that has no host view or
\* shows no role members is like one asked for them in some other cycle.)
CollectOk(i) ==
  /\ phase = "collect" /\ i \in todo
  /\ hostSeen' = hostSeen \cup {i}
  /\ \E now \in work[i]..MaxWork :
       /\ TakeSnapshot(i, now)
       /\ Settle(i, [ok |-> TRUE, waits |-> Delta(i, now),
                     host |-> IF i \in hostSeen THEN -1 ELSE era[i],
                     perms |-> IsPermissionsCycle])
  /\ UNCHANGED <<pgVars, count, era, tested, faults>>

\* Mutant: an unreachable instance loses its snapshot.
CollectFails_forgets(i) ==
  /\ phase = "collect" /\ i \in todo
  /\ Settle(i, Failed)
  /\ snap' = [snap EXCEPT ![i] = None]
  /\ UNCHANGED <<pgVars, count, hostSeen, first, envVars, tested, faults>>

\* The connection, or a collector before the snapshot was taken, failed.
CollectFails(i) ==
  /\ phase = "collect" /\ i \in todo
  /\ Settle(i, Failed)
  /\ UNCHANGED <<pgVars, memVars, envVars, tested, faults>>

\* A collector rejected after collectWaitStats had its answer: the snapshot is
\* taken, its delta is thrown away with the other results.
CollectPartly(i) ==
  /\ phase = "collect" /\ i \in todo
  /\ Fault
  /\ \E now \in work[i]..MaxWork : TakeSnapshot(i, now)
  /\ Settle(i, Failed)
  /\ UNCHANGED <<pgVars, count, hostSeen, era, tested>>
-----------------------------------------------------------------------------
Outcome(i) == IF result[i].ok THEN "online" ELSE "unreachable"

\* Mutant: only the reachable instances are updated.
UpdateStatus_onlineOnly(i) ==
  status' = IF inst[i] = "live" /\ result[i].ok THEN [status EXCEPT ![i] = "online"] ELSE status

\* One UPDATE of updateStatuses; it finds no row when the instance is gone.
UpdateStatus(i) ==
  status' = IF inst[i] = "live" THEN [status EXCEPT ![i] = Outcome(i)] ELSE status

StatusStep(i) ==
  /\ phase = "status" /\ i \in todo
  /\ todo' = todo \ {i}
  /\ phase' = IF todo = {i} THEN "wait_stats" ELSE phase
  /\ UpdateStatus(i)
  /\ tested' = tested \ {i}
  /\ UNCHANGED <<inst, stored, hostRow, perms, memVars, replacing, batch, result, failed,
                 envVars, faults>>

\* updateStatuses is outside every try of collectAll: an error ends the cycle.
StatusError ==
  /\ phase = "status"
  /\ Fault
  /\ Idle
  /\ UNCHANGED <<pgVars, memVars, envVars>>
-----------------------------------------------------------------------------
WithPerms == {i \in batch : result[i].perms}

\* The insert that follows; the permissions go through them one at a time.
After(label) ==
  CASE label = "wait_stats"   -> "os_host_info"
    [] label = "os_host_info" -> IF WithPerms = {} THEN "alerts" ELSE "delete_perms"
    [] label = "permissions"  -> "alerts"

\* Mutant: the loop over the inserts has one try around all of it.
CatchError_oneTry(label) ==
  /\ failed' = failed \cup {label}
  /\ phase' = "alerts"

\* The catch around each insert.
CatchError(label) ==
  /\ failed' = failed \cup {label}
  /\ phase' = After(label)

InsertError(label) ==
  /\ CatchError(label)
  /\ todo' = IF label = "os_host_info" THEN WithPerms ELSE {}
  /\ replacing' = {}
  /\ UNCHANGED <<pgVars, memVars, batch, result, envVars, tested>>

InsertDone(label) ==
  /\ phase' = After(label)
  /\ todo' = IF label = "os_host_info" THEN WithPerms ELSE {}
  /\ UNCHANGED <<inst, status, perms, memVars, replacing, batch, result, failed, envVars,
                 tested, faults>>

\* The ids with rows for a statement that inserts for all of them at once.
WithRows(label) ==
  IF label = "wait_stats" THEN {i \in batch : result[i].waits # {}}
                          ELSE {i \in batch : result[i].host # -1}

\* The statement is all or nothing, and a row of an instance that was deleted
\* since the SELECT fails its foreign key.
InsertWaits ==
  /\ phase = "wait_stats" /\ WithRows("wait_stats") \subseteq Live
  /\ stored' = [i \in Ids |-> [u \in Units |->
                  IF u \in result[i].waits THEN stored[i][u] + 1 ELSE stored[i][u]]]
  /\ InsertDone("wait_stats")
  /\ UNCHANGED hostRow

InsertHosts ==
  /\ phase = "os_host_info" /\ WithRows("os_host_info") \subseteq Live
  /\ hostRow' = [i \in Ids |-> IF result[i].host # -1 THEN result[i].host ELSE hostRow[i]]
  /\ InsertDone("os_host_info")
  /\ UNCHANGED stored

InsertRefused ==
  /\ phase \in {"wait_stats", "os_host_info"} /\ ~(WithRows(phase) \subseteq Live)
  /\ InsertError(phase)
  /\ UNCHANGED faults

InsertFails ==
  /\ phase \in {"wait_stats", "os_host_info"}
  /\ Fault
  /\ InsertError(phase)
-----------------------------------------------------------------------------
\* Mutant: the old rows are left.
DeletePerms_keeps(i) ==
  /\ phase = "delete_perms" /\ i \in todo
  /\ phase' = "insert_perms"
  /\ replacing' = {i}
  /\ UNCHANGED <<inst, status, stored, hostRow, perms, memVars, todo, batch, result, failed,
                 envVars, tested, faults>>

\* batchInsertPermissions, per instance: DELETE the old rows, then INSERT the new
\* ones, without a transaction.
DeletePerms(i) ==
  /\ phase = "delete_perms" /\ i \in todo
  /\ perms' = [perms EXCEPT ![i] = 0]
  /\ phase' = "insert_perms"
  /\ replacing' = {i}
  /\ UNCHANGED <<inst, status, stored, hostRow, memVars, todo, batch, result, failed,
                 envVars, tested, faults>>

InsertPerms(i) ==
  /\ phase = "insert_perms" /\ replacing = {i} /\ i \in Live
  /\ perms' = [perms EXCEPT ![i] = @ + 1]
  /\ todo' = todo \ {i}
  /\ replacing' = {}
  /\ phase' = IF todo = {i} THEN "alerts" ELSE "delete_perms"
  /\ UNCHANGED <<inst, status, stored, hostRow, memVars, batch, result, failed, envVars,
                 tested, faults>>

\* The instance being replaced is gone: the rest of the loop is skipped.
PermsRefused ==
  /\ phase = "insert_perms" /\ ~(replacing \subseteq Live)
  /\ InsertError("permissions")
  /\ UNCHANGED faults

PermsFail ==
  /\ phase \in {"delete_perms", "insert_perms"}
  /\ Fault
  /\ InsertError("permissions")

\* The alerts of every result (AlertEngine), whose errors are caught, and the end.
EndCycle ==
  /\ phase = "alerts"
  /\ Idle
  /\ UNCHANGED <<pgVars, memVars, envVars, faults>>
-----------------------------------------------------------------------------
\* POST /api/instances (names and host:port pairs are unique; ids are new).
Create(i) ==
  /\ inst[i] = "new"
  /\ inst' = [inst EXCEPT ![i] = "live"]
  /\ UNCHANGED <<status, stored, hostRow, perms, memVars, cycVars, envVars, tested, faults>>

\* DELETE /api/instances/:id; every table references instances ON DELETE CASCADE.
\* The memory of the collectors keeps what it has.
Delete(i) ==
  /\ inst[i] = "live"
  /\ IF phase = "idle" THEN UNCHANGED faults ELSE Fault
  /\ inst' = [inst EXCEPT ![i] = "deleted"]
  /\ stored' = [stored EXCEPT ![i] = [u \in Units |-> 0]]
  /\ hostRow' = [hostRow EXCEPT ![i] = -1]
  /\ perms' = [perms EXCEPT ![i] = 0]
  /\ UNCHANGED <<status, memVars, cycVars, envVars, tested>>

\* POST /api/instances/:id/test reads the row, attempts a connection and writes the
\* answer, however late it comes, to the row if it is there by then.
TestEnds(i) ==
  /\ inst[i] = "live" /\ i \in Probed
  /\ \E s \in {"online", "unreachable"} : status' = [status EXCEPT ![i] = s]
  /\ tested' = IF phase = "idle" THEN tested ELSE tested \cup {i}
  /\ UNCHANGED <<inst, stored, hostRow, perms, memVars, cycVars, envVars, faults>>

\* A SQL Server restarts: its counters start again, sqlserver_start_time changes.
SqlRestart(i) ==
  /\ Fault
  /\ work' = [work EXCEPT ![i] = 0]
  /\ era' = [era EXCEPT ![i] = @ + 1]
  /\ UNCHANGED <<pgVars, memVars, cycVars, tested>>

\* The backend dies and is started again: everything in memory is gone.
Crash ==
  /\ Fault
  /\ count' = 0
  /\ snap' = [i \in Ids |-> None]
  /\ hostSeen' = {}
  /\ first' = [i \in Ids |-> 0]
  /\ Idle
  /\ UNCHANGED <<pgVars, work, era>>
-----------------------------------------------------------------------------
\* What the cycle does when nothing goes wrong around it.
CycleStep ==
  \/ \E i \in Ids : CollectOk(i) \/ CollectFails(i)
  \/ \E i \in Ids : StatusStep(i)
  \/ InsertWaits \/ InsertHosts \/ InsertRefused
  \/ \E i \in Ids : DeletePerms(i) \/ InsertPerms(i)
  \/ PermsRefused
  \/ EndCycle

Next ==
  \/ Select
  \/ CycleStep
  \/ \E i \in Ids : CollectPartly(i)
  \/ StatusError \/ InsertFails \/ PermsFail
  \/ \E i \in Ids : Create(i) \/ Delete(i) \/ TestEnds(i)
  \/ \E i \in Ids : SqlRestart(i)
  \/ Crash

\* The interval keeps starting cycles (Backend) and every query and connection of
\* a cycle ends: they have timeouts.
Fairness == WF_vars(Select) /\ WF_vars(CycleStep)

Spec == Init /\ [][Next]_vars /\ Fairness
-----------------------------------------------------------------------------
TypeOK ==
  /\ inst \in [Ids -> {"new", "live", "deleted"}]
  /\ status \in [Ids -> {"unknown", "online", "unreachable"}]
  /\ stored \in [Ids -> [Units -> Nat]]
  /\ hostRow \in [Ids -> Eras \cup {-1}]
  /\ perms \in [Ids -> Nat]
  /\ count \in 0..(2 * PermEvery - 1)
  /\ snap \in [Ids -> [era : Eras, at : 0..MaxWork] \cup {None}]
  /\ hostSeen \subseteq Ids
  /\ phase \in Phases
  /\ todo \subseteq batch /\ replacing \subseteq todo /\ batch \subseteq Ids
  /\ result \in [Ids -> [ok : BOOLEAN, waits : SUBSET Units, host : Eras \cup {-1},
                          perms : BOOLEAN]]
  /\ work \in [Ids -> 0..MaxWork] /\ era \in [Ids -> Eras]
  /\ tested \subseteq Ids
  /\ first \in [Ids -> 0..MaxWork]
  /\ failed \subseteq {"wait_stats", "os_host_info", "permissions"}
  /\ faults \in 0..MaxFaults

\* No wait is counted in two rows, whatever fails, restarts or is deleted between
\* taking a snapshot and storing its delta.
WorkStoredOnce == \A i \in Ids : \A u \in Units : stored[i][u] <= 1

\* Without a fault nothing gets lost between memory and PostgreSQL: when a cycle
\* is over, all work between the first and the last snapshot is in wait_stats,
\* and who is in hostInfoCollected has its os_host_info row - however many cycles
\* in between did not reach the instance or some other one.
NothingLost ==
  faults = 0 /\ phase = "idle" =>
    \A i \in Live :
      /\ first[i] > 0 => \A u \in (first[i] + 1)..snap[i].at : stored[i][<<0, u>>] = 1
      /\ i \in hostSeen => hostRow[i] # -1

\* "Update statuses FIRST - even if batch inserts fail, we want status to reflect
\* reality" (worker-pool.ts:474): from then on to the end of the cycle the status
\* says whether the instance was reached, unless a connection test wrote it later.
StatusReflectsCycle ==
  phase \in {"wait_stats", "os_host_info", "delete_perms", "insert_perms", "alerts"} =>
    \A i \in (batch \cap Live) \ tested : status[i] = Outcome(i)

\* "one failure doesn't block others" (worker-pool.ts:478): whatever insert failed,
\* at the end of the cycle the results for the other ones are stored.
InsertsIsolated ==
  phase = "alerts" =>
    \A i \in batch \cap Live :
      /\ "wait_stats" \notin failed => \A u \in result[i].waits : stored[i][u] >= 1
      /\ "os_host_info" \notin failed /\ result[i].host # -1 => hostRow[i] # -1
      /\ "permissions" \notin failed /\ result[i].perms => perms[i] >= 1

\* The role members on record come from one collection: a login that lost its
\* role is not kept beside the new ones, although DELETE and INSERT are two
\* statements and anything may happen between them.
PermissionsOneCollection == \A i \in Ids : perms[i] <= 1

\* Every instance that stays is collected again and again, whatever its status,
\* and whatever failed before.
KeepsCollecting == \A i \in Ids : inst[i] = "live" ~> (inst[i] # "live" \/ i \in batch)

\* A cycle in which everything went well for instance i is about to end.
GoesWell(i) == phase = "alerts" /\ i \in batch /\ result[i].ok /\ failed = {}

\* "re-collected if sqlserver_start_time changes" (migrations/006_os_host_info.sql:3):
\* as long as cycles go on that reach the instance and store all they have, a row
\* about an earlier start of the server is followed by one about the present start.
HostInfoFollowsRestart ==
  \A i \in Ids : []<>GoesWell(i) =>
    ((hostRow[i] # -1 /\ hostRow[i] # era[i]) ~> (hostRow[i] \in {-1, era[i]}))
=============================================================================
