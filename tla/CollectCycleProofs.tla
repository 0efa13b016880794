-------------------------- MODULE CollectCycleProofs --------------------------
(***************************************************************************)
(* Proofs about CollectCycle, for any number of instances, any amount of   *)
(* work and any number of faults: what the cycles of collectAll leave in   *)
(* PostgreSQL.                                                             *)
(***************************************************************************)
EXTENDS CollectCycle, TLAPS

\* A cycle's results are of its batch, and come when the instance is dealt with; who
\* is in a batch was created, and who was not created is in no map.
BatchKnown ==
    /\ phase = "idle" => batch = {}
    /\ \A i \in Ids : result[i] # Failed => i \in batch /\ (phase = "collect" => i \notin todo)
    /\ \A i \in batch : inst[i] # "new"
    /\ \A i \in Ids : inst[i] = "new" => first[i] = 0 /\ i \notin hostSeen

\* A snapshot of the running server is up to date with what was read of it.
SnapshotsCurrent ==
    \A i \in Ids : /\ era[i] <= faults /\ snap[i].era <= era[i]
                   /\ snap[i].era = era[i] => snap[i].at = work[i]

\* What is stored, or about to be, has been read before.
Behind(i, u) == u[1] < era[i] \/ (u[1] = era[i] /\ u[2] <= work[i])
StoredIsBehind ==
    \A i \in Ids : \A u \in Units :
        stored[i][u] > 0 \/ u \in result[i].waits => Behind(i, u)

BeforeWaits == {"idle", "collect", "status", "wait_stats"}
BeforeHosts == BeforeWaits \cup {"os_host_info"}

\* A delta that waits for its INSERT is not stored yet.
PendingIsNew ==
    phase \in BeforeWaits => \A i \in Ids : \A u \in result[i].waits : stored[i][u] = 0

\* Between DELETE and INSERT there are no permissions.
ReplacedIsEmpty == \A i \in replacing : phase = "insert_perms" /\ perms[i] = 0

\* The statuses that were written say what the cycle found.
StatusesWritten ==
    /\ phase = "status" =>
          \A i \in (batch \cap Live) \ (tested \cup todo) : status[i] = Outcome(i)
    /\ StatusReflectsCycle

\* The inserts that are over are done, or known to have failed.
InsertsKept ==
    \A i \in batch \cap Live :
        /\ phase \notin BeforeWaits /\ "wait_stats" \notin failed =>
              \A u \in result[i].waits : stored[i][u] >= 1
        /\ phase \notin BeforeHosts /\ "os_host_info" \notin failed /\ result[i].host # -1 =>
              hostRow[i] # -1
        /\ phase \in {"delete_perms", "insert_perms"} /\ result[i].perms /\ i \notin todo =>
              perms[i] >= 1
        /\ phase = "alerts" /\ "permissions" \notin failed /\ result[i].perms => perms[i] >= 1

\* Without a fault, what is not in PostgreSQL is on its way there.
OnItsWay ==
    faults = 0 =>
        /\ batch \subseteq Live
        /\ \A i \in Live : first[i] > 0 =>
              /\ snap[i].era = 0 /\ first[i] <= snap[i].at
              /\ \A u \in (first[i] + 1)..snap[i].at :
                    \/ stored[i][<<0, u>>] = 1
                    \/ phase \in BeforeWaits /\ <<0, u>> \in result[i].waits
        /\ \A i \in Live : i \in hostSeen =>
              hostRow[i] # -1 \/ (phase \in BeforeHosts /\ result[i].host # -1)

IInv == /\ TypeOK /\ BatchKnown /\ SnapshotsCurrent /\ StoredIsBehind /\ WorkStoredOnce
        /\ PendingIsNew /\ PermissionsOneCollection /\ ReplacedIsEmpty
        /\ StatusesWritten /\ InsertsKept /\ OnItsWay
-----------------------------------------------------------------------------
\* What the assumptions on the constants say.
LEMMA Bounds == /\ MaxWork \in Nat /\ MaxFaults \in Nat /\ PermEvery \in Nat /\ PermEvery >= 2
                /\ 0 \in Eras
BY WorkAssumption, PermAssumption DEF Eras

\* The first state.
LEMMA InitIInv == Init => IInv
<1> SUFFICES ASSUME Init PROVE IInv
  OBVIOUS
<1> USE Bounds DEF Init
<1>1. TypeOK
  <2>1. /\ status \in [Ids -> {"unknown", "online", "unreachable"}]
        /\ inst \in [Ids -> {"new", "live", "deleted"}]
    OBVIOUS
  <2>2. /\ stored \in [Ids -> [Units -> Nat]] /\ hostRow \in [Ids -> Eras \cup {-1}]
        /\ perms \in [Ids -> Nat]
    OBVIOUS
  <2>3. count \in 0..(2 * PermEvery - 1) /\ faults \in 0..MaxFaults
    OBVIOUS
  <2>4. snap \in [Ids -> [era : Eras, at : 0..MaxWork] \cup {None}]
    OBVIOUS
  <2>5. result \in [Ids -> [ok : BOOLEAN, waits : SUBSET Units, host : Eras \cup {-1},
                            perms : BOOLEAN]]
    BY DEF Blank, Failed
  <2>6. /\ work \in [Ids -> 0..MaxWork] /\ era \in [Ids -> Eras] /\ first \in [Ids -> 0..MaxWork]
    BY WorkAssumption
  <2>7. QED
    BY <2>1, <2>2, <2>3, <2>4, <2>5, <2>6 DEF TypeOK, Phases
<1>2. BatchKnown /\ SnapshotsCurrent /\ StoredIsBehind /\ WorkStoredOnce
  BY DEF BatchKnown, SnapshotsCurrent, StoredIsBehind, WorkStoredOnce, Blank, Failed, None
<1>3. PendingIsNew /\ PermissionsOneCollection /\ ReplacedIsEmpty
  BY DEF PendingIsNew, PermissionsOneCollection, ReplacedIsEmpty, Blank, Failed
<1>4. StatusesWritten /\ InsertsKept /\ OnItsWay
  BY DEF StatusesWritten, StatusReflectsCycle, InsertsKept, OnItsWay, Live
<1>5. QED
  BY <1>1, <1>2, <1>3, <1>4 DEF IInv

\* What the types give for arithmetic.
LEMMA NumberFacts ==
  ASSUME TypeOK
  PROVE  /\ faults \in Nat
         /\ \A i \in Ids : /\ era[i] \in Nat /\ era[i] <= MaxFaults /\ first[i] \in Nat
                           /\ work[i] \in Nat /\ work[i] <= MaxWork
                           /\ snap[i].era \in Int /\ snap[i].at \in Nat /\ snap[i].at <= MaxWork
<1>1. faults \in Nat /\ \A i \in Ids : era[i] \in Nat /\ era[i] <= MaxFaults
  BY Bounds DEF TypeOK, Eras
<1>2. \A i \in Ids : first[i] \in Nat /\ work[i] \in Nat /\ work[i] <= MaxWork
  BY Bounds DEF TypeOK
<1>3. \A i \in Ids : snap[i].era \in Int /\ snap[i].at \in Nat /\ snap[i].at <= MaxWork
  BY Bounds DEF TypeOK, Eras, None
<1>4. QED
  BY <1>1, <1>2, <1>3

\* A delta is of work that was done since it was last read, and is not stored.
LEMMA DeltaFacts ==
  ASSUME IInv, NEW i \in Ids, NEW now \in work[i]..MaxWork
  PROVE  /\ Delta(i, now) \in SUBSET Units
         /\ \A u \in Delta(i, now) : u[1] = era[i] /\ u[2] > work[i] /\ u[2] <= now
         /\ \A u \in Delta(i, now) : stored[i][u] = 0
<1>1. /\ work[i] \in Nat /\ now \in Nat /\ now <= MaxWork /\ era[i] \in Eras
      /\ era[i] \in Nat /\ MaxWork \in Nat
  BY NumberFacts, Bounds DEF IInv, TypeOK, Eras
<1>2. snap[i].era = era[i] => snap[i].at = work[i]
  BY DEF IInv, SnapshotsCurrent
<1>3. ASSUME NEW u \in Delta(i, now)
      PROVE  u \in Units /\ u[1] = era[i] /\ u[2] > work[i] /\ u[2] <= now
  <2>1. PICK n \in (work[i] + 1)..now : u = <<era[i], n>>
    BY <1>2, <1>3 DEF Delta
  <2>2. n \in 1..MaxWork /\ n > work[i] /\ n <= now
    BY <1>1, <2>1
  <2>3. u \in Units
    BY <1>1, <2>1, <2>2 DEF Units
  <2>4. QED
    BY <2>1, <2>2, <2>3
<1>4. ASSUME NEW u \in Delta(i, now) PROVE stored[i][u] = 0
  <2>1. u \in Units /\ u[1] = era[i] /\ u[2] > work[i]
    BY <1>3
  <2>2. u[2] \in Nat
    BY <2>1 DEF Units
  <2>3. ~(u[1] < era[i]) /\ ~(u[2] <= work[i])
    BY <1>1, <2>1, <2>2
  <2>4. ~(stored[i][u] > 0)
    BY <2>1, <2>3 DEF IInv, StoredIsBehind, Behind
  <2>5. stored[i][u] \in Nat
    BY <2>1 DEF IInv, TypeOK
  <2>6. QED
    BY <2>4, <2>5
<1>5. QED
  BY <1>3, <1>4

\* The SELECT that begins a cycle.
LEMMA SelectKeeps == ASSUME IInv, Select PROVE IInv'
<1> USE Bounds DEF IInv, TypeOK, pgVars, envVars, Select, Selected, Counted, memVars
<1>1. TypeOK'
  <2>1. /\ inst' \in [Ids -> {"new", "live", "deleted"}]
        /\ status' \in [Ids -> {"unknown", "online", "unreachable"}]
        /\ stored' \in [Ids -> [Units -> Nat]] /\ perms' \in [Ids -> Nat]
        /\ hostRow' \in [Ids -> Eras \cup {-1}]
    BY DEF Eras
  <2>2. /\ count' \in 0..(2 * PermEvery - 1) /\ faults' \in 0..MaxFaults
        /\ work' \in [Ids -> 0..MaxWork] /\ era' \in [Ids -> Eras]
        /\ snap' \in [Ids -> [era : Eras, at : 0..MaxWork] \cup {None}]
        /\ first' \in [Ids -> 0..MaxWork] /\ hostSeen' \subseteq Ids
    BY DEF Eras
  <2>3. /\ phase' \in Phases /\ failed' \subseteq {"wait_stats", "os_host_info", "permissions"}
        /\ todo' \subseteq batch' /\ replacing' \subseteq todo' /\ batch' \subseteq Ids
        /\ tested' \subseteq Ids
    BY DEF Phases, ReplacedIsEmpty, Live
  <2>4. result' \in [Ids -> [ok : BOOLEAN, waits : SUBSET Units, host : Eras \cup {-1},
                            perms : BOOLEAN]]
    BY DEF Failed
  <2>5. QED
    BY <2>1, <2>2, <2>3, <2>4
<1>2. BatchKnown'
  BY DEF BatchKnown, Live
<1>3. SnapshotsCurrent'
  BY DEF SnapshotsCurrent
<1>4. StoredIsBehind'
  BY DEF StoredIsBehind, Behind, BatchKnown
<1>5. WorkStoredOnce'
  BY DEF WorkStoredOnce, BatchKnown
<1>6. PendingIsNew'
  BY DEF PendingIsNew, BeforeWaits, BatchKnown
<1>7. PermissionsOneCollection'
  BY DEF PermissionsOneCollection, BatchKnown
<1>8. ReplacedIsEmpty'
  BY DEF ReplacedIsEmpty, BatchKnown
<1>9. StatusesWritten'
  BY DEF StatusesWritten, StatusReflectsCycle, Live, Outcome, BatchKnown
<1>10. InsertsKept'
  BY DEF InsertsKept, BeforeWaits, BeforeHosts, Live, BatchKnown
<1>11. OnItsWay'
  BY DEF OnItsWay, BeforeWaits, BeforeHosts, Live, BatchKnown
<1>12. QED
  BY <1>1, <1>2, <1>3, <1>4, <1>5, <1>6, <1>7, <1>8, <1>9, <1>10, <1>11

\* Reading a server and taking its snapshot.
LEMMA SnapshotFacts ==
  ASSUME IInv, NEW i \in Ids, NEW now \in work[i]..MaxWork, TakeSnapshot(i, now),
         era' = era, faults' \in Nat, faults <= faults'
  PROVE  /\ SnapshotsCurrent'
         /\ snap' \in [Ids -> [era : Eras, at : 0..MaxWork] \cup {None}]
         /\ work' \in [Ids -> 0..MaxWork] /\ first' \in [Ids -> 0..MaxWork]
         /\ snap'[i] = [era |-> era[i], at |-> now] /\ work'[i] = now
         /\ first'[i] = IF first[i] = 0 THEN now ELSE first[i]
         /\ \A j \in Ids \ {i} : snap'[j] = snap[j] /\ work'[j] = work[j] /\ first'[j] = first[j]
         /\ \A j \in Ids : \A u \in Units : Behind(j, u) => Behind(j, u)'
<1>1. /\ snap \in [Ids -> [era : Eras, at : 0..MaxWork] \cup {None}]
      /\ work \in [Ids -> 0..MaxWork] /\ first \in [Ids -> 0..MaxWork]
      /\ now \in 0..MaxWork /\ now \in Nat /\ work[i] \in Nat /\ work[i] <= now /\ era[i] \in Eras
  BY NumberFacts, Bounds DEF IInv, TypeOK
<1>2. /\ snap' = [snap EXCEPT ![i] = [era |-> era[i], at |-> now]]
      /\ work' = [work EXCEPT ![i] = now]
      /\ first' = IF first[i] = 0 THEN [first EXCEPT ![i] = now] ELSE first
  BY DEF TakeSnapshot
<1>3. /\ snap' \in [Ids -> [era : Eras, at : 0..MaxWork] \cup {None}]
      /\ work' \in [Ids -> 0..MaxWork] /\ first' \in [Ids -> 0..MaxWork]
      /\ snap'[i] = [era |-> era[i], at |-> now] /\ work'[i] = now
      /\ first'[i] = IF first[i] = 0 THEN now ELSE first[i]
      /\ \A j \in Ids \ {i} : snap'[j] = snap[j] /\ work'[j] = work[j] /\ first'[j] = first[j]
  BY <1>1, <1>2
<1>4. SnapshotsCurrent'
  <2> SUFFICES ASSUME NEW j \in Ids
               PROVE  /\ era'[j] <= faults' /\ snap'[j].era <= era'[j]
                      /\ snap'[j].era = era'[j] => snap'[j].at = work'[j]
    BY DEF SnapshotsCurrent
  <2>1. /\ era[j] <= faults /\ era[j] \in Nat /\ faults \in Nat
        /\ snap[j].era <= era[j] /\ (snap[j].era = era[j] => snap[j].at = work[j])
    BY NumberFacts DEF IInv, SnapshotsCurrent
  <2>2. QED
    BY <1>3, <2>1
<1>5. ASSUME NEW j \in Ids, NEW u \in Units, Behind(j, u) PROVE Behind(j, u)'
  <2>1. u[2] \in Nat
    BY DEF Units
  <2>2. QED
    BY <1>1, <1>3, <1>5, <2>1 DEF Behind
<1>6. QED
  BY <1>3, <1>4, <1>5

\* An instance of the cycle settles, whatever its result.
LEMMA SettleFacts ==
  ASSUME IInv, NEW i \in Ids, phase = "collect", i \in todo, NEW r, Settle(i, r)
  PROVE  /\ result[i] = Failed /\ result' = [result EXCEPT ![i] = r] /\ result'[i] = r
         /\ \A j \in Ids \ {i} : result'[j] = result[j]
         /\ UNCHANGED <<batch, failed, replacing>> /\ replacing = {} /\ i \in batch
         /\ \/ phase' = "collect" /\ todo' = todo \ {i}
            \/ phase' = "status" /\ todo' = batch
         /\ todo' \subseteq batch
BY DEF IInv, TypeOK, Settle, BatchKnown, ReplacedIsEmpty

\* Every collector answered: the delta is new, and on its way.
LEMMA CollectOkKeeps == ASSUME IInv, NEW i \in Ids, CollectOk(i) PROVE IInv'
<1>1. PICK now \in work[i]..MaxWork :
        /\ TakeSnapshot(i, now)
        /\ Settle(i, [ok |-> TRUE, waits |-> Delta(i, now),
                      host |-> IF i \in hostSeen THEN -1 ELSE era[i],
                      perms |-> IsPermissionsCycle])
  BY DEF CollectOk
<1> DEFINE r == [ok |-> TRUE, waits |-> Delta(i, now),
                 host |-> IF i \in hostSeen THEN -1 ELSE era[i], perms |-> IsPermissionsCycle]
<1>2. /\ phase = "collect" /\ i \in todo /\ hostSeen' = hostSeen \cup {i}
      /\ UNCHANGED <<inst, status, stored, hostRow, perms, count, era, tested, faults>>
  BY DEF CollectOk, pgVars
<1>3. faults \in Nat /\ faults <= faults' /\ faults' \in Nat
  BY <1>2, NumberFacts DEF IInv
<1>4. /\ SnapshotsCurrent'
      /\ snap' \in [Ids -> [era : Eras, at : 0..MaxWork] \cup {None}]
      /\ work' \in [Ids -> 0..MaxWork] /\ first' \in [Ids -> 0..MaxWork]
      /\ snap'[i] = [era |-> era[i], at |-> now] /\ work'[i] = now
      /\ first'[i] = IF first[i] = 0 THEN now ELSE first[i]
      /\ \A j \in Ids \ {i} : snap'[j] = snap[j] /\ work'[j] = work[j] /\ first'[j] = first[j]
      /\ \A j \in Ids : \A u \in Units : Behind(j, u) => Behind(j, u)'
  BY <1>1, <1>2, <1>3, SnapshotFacts
<1>5. /\ result[i] = Failed /\ result' = [result EXCEPT ![i] = r] /\ result'[i] = r
      /\ \A j \in Ids \ {i} : result'[j] = result[j]
      /\ UNCHANGED <<batch, failed, replacing>> /\ replacing = {} /\ i \in batch
      /\ \/ phase' = "collect" /\ todo' = todo \ {i}
         \/ phase' = "status" /\ todo' = batch
      /\ todo' \subseteq batch
  BY <1>1, <1>2, SettleFacts
<1>6. /\ Delta(i, now) \in SUBSET Units
      /\ \A u \in Delta(i, now) : u[1] = era[i] /\ u[2] > work[i] /\ u[2] <= now
      /\ \A u \in Delta(i, now) : stored[i][u] = 0
  BY DeltaFacts
<1>7. r.waits = Delta(i, now) /\ r.host = (IF i \in hostSeen THEN -1 ELSE era[i])
  OBVIOUS
<1>8. TypeOK'
  <2>1. r \in [ok : BOOLEAN, waits : SUBSET Units, host : Eras \cup {-1}, perms : BOOLEAN]
    BY <1>6 DEF IInv, TypeOK, IsPermissionsCycle
  <2> HIDE DEF r
  <2>2. result' \in [Ids -> [ok : BOOLEAN, waits : SUBSET Units, host : Eras \cup {-1},
                             perms : BOOLEAN]]
    BY <1>5, <2>1 DEF IInv, TypeOK
  <2>3. phase' \in Phases /\ hostSeen' \subseteq Ids
        /\ todo' \subseteq batch' /\ replacing' \subseteq todo'
    BY <1>2, <1>5 DEF IInv, TypeOK, Phases
  <2>4. QED
    BY <1>2, <1>4, <1>5, <2>2, <2>3 DEF IInv, TypeOK
<1> HIDE DEF r
<1>9. BatchKnown'
  BY <1>2, <1>4, <1>5 DEF IInv, BatchKnown
<1>10. StoredIsBehind'
  <2>1. ASSUME NEW u \in Units, u \in Delta(i, now) PROVE Behind(i, u)'
    BY <1>2, <1>4, <1>6, <2>1 DEF Behind
  <2>2. QED
    BY <1>2, <1>4, <1>5, <1>7, <2>1 DEF IInv, StoredIsBehind
<1>11. WorkStoredOnce' /\ PermissionsOneCollection' /\ ReplacedIsEmpty'
  BY <1>2, <1>5 DEF IInv, WorkStoredOnce, PermissionsOneCollection, ReplacedIsEmpty
<1>12. PendingIsNew'
  BY <1>2, <1>5, <1>6, <1>7 DEF IInv, PendingIsNew, BeforeWaits
<1>13. StatusesWritten' /\ InsertsKept'
  BY <1>2, <1>5 DEF IInv, StatusesWritten, StatusReflectsCycle, InsertsKept, BeforeWaits, BeforeHosts,
                    Live, Outcome
<1>14. OnItsWay'
  <2> SUFFICES ASSUME faults = 0
               PROVE  /\ batch \subseteq Live
                      /\ \A j \in Live : first'[j] > 0 =>
                            /\ snap'[j].era = 0 /\ first'[j] <= snap'[j].at
                            /\ \A n \in (first'[j] + 1)..snap'[j].at :
                                  stored[j][<<0, n>>] = 1 \/ <<0, n>> \in result'[j].waits
                      /\ \A j \in Live : j \in hostSeen' => hostRow[j] # -1 \/ result'[j].host # -1
    BY <1>2, <1>5 DEF OnItsWay, BeforeWaits, BeforeHosts, Live
  <2>1. /\ batch \subseteq Live
        /\ \A j \in Live : first[j] > 0 =>
              /\ snap[j].era = 0 /\ first[j] <= snap[j].at
              /\ \A n \in (first[j] + 1)..snap[j].at :
                    stored[j][<<0, n>>] = 1 \/ <<0, n>> \in result[j].waits
        /\ \A j \in Live : j \in hostSeen => hostRow[j] # -1 \/ result[j].host # -1
    BY <1>2 DEF IInv, OnItsWay, BeforeWaits, BeforeHosts
  <2>2. /\ i \in Live /\ result[i].waits = {} /\ result[i].host = -1 /\ era[i] = 0
        /\ first[i] \in Nat /\ now \in Nat /\ work[i] \in Nat /\ work[i] <= now /\ snap[i].at \in Nat
        /\ snap[i].era = 0 => snap[i].at = work[i]
    <3>1. era[i] = 0 /\ (snap[i].era = 0 => snap[i].at = work[i])
      BY NumberFacts DEF IInv, SnapshotsCurrent
    <3>2. first[i] \in Nat /\ now \in Nat /\ work[i] \in Nat /\ work[i] <= now /\ snap[i].at \in Nat
      BY NumberFacts, Bounds DEF IInv
    <3>3. QED
      BY <1>5, <2>1, <3>1, <3>2 DEF Failed
  <2>3. ASSUME first'[i] > 0
        PROVE  /\ snap'[i].era = 0 /\ first'[i] <= snap'[i].at
               /\ \A n \in (first'[i] + 1)..snap'[i].at :
                     stored[i][<<0, n>>] = 1 \/ <<0, n>> \in result'[i].waits
    <3>1. CASE first[i] = 0
      BY <1>4, <2>2, <3>1
    <3>2. CASE first[i] # 0
      <4>1. /\ snap[i].era = 0 /\ first[i] <= snap[i].at /\ snap[i].at = work[i]
            /\ \A n \in (first[i] + 1)..work[i] : stored[i][<<0, n>>] = 1
        BY <2>1, <2>2, <3>2
      <4>2. Delta(i, now) = {<<0, n>> : n \in (work[i] + 1)..now}
        BY <2>2, <3>2, <4>1 DEF Delta
      <4>3. ASSUME NEW n \in (first[i] + 1)..now
            PROVE  stored[i][<<0, n>>] = 1 \/ <<0, n>> \in Delta(i, now)
        <5>1. n \in (first[i] + 1)..work[i] \/ n \in (work[i] + 1)..now
          BY <2>2
        <5>2. QED
          BY <4>1, <4>2, <5>1
      <4>4. QED
        BY <1>4, <1>5, <1>7, <2>2, <3>2, <4>1, <4>3
    <3>3. QED
      BY <3>1, <3>2
  <2>4. \A j \in Live : j \in hostSeen' => hostRow[j] # -1 \/ result'[j].host # -1
    BY <1>2, <1>5, <1>7, <2>1, <2>2 DEF Live
  <2>5. QED
    BY <1>4, <1>5, <2>1, <2>3, <2>4 DEF Live
<1>15. QED
  BY <1>4, <1>8, <1>9, <1>10, <1>11, <1>12, <1>13, <1>14 DEF IInv

\* The collection failed before the snapshot.
LEMMA CollectFailsKeeps == ASSUME IInv, NEW i \in Ids, CollectFails(i) PROVE IInv'
<1> USE Bounds DEF IInv, TypeOK, pgVars, envVars, CollectFails, Settle, memVars
<1>1. TypeOK'
  <2>1. /\ inst' \in [Ids -> {"new", "live", "deleted"}]
        /\ status' \in [Ids -> {"unknown", "online", "unreachable"}]
        /\ stored' \in [Ids -> [Units -> Nat]] /\ perms' \in [Ids -> Nat]
        /\ hostRow' \in [Ids -> Eras \cup {-1}]
    BY DEF Eras
  <2>2. /\ count' \in 0..(2 * PermEvery - 1) /\ faults' \in 0..MaxFaults
        /\ work' \in [Ids -> 0..MaxWork] /\ era' \in [Ids -> Eras]
        /\ snap' \in [Ids -> [era : Eras, at : 0..MaxWork] \cup {None}]
        /\ first' \in [Ids -> 0..MaxWork] /\ hostSeen' \subseteq Ids
    BY DEF Eras
  <2>3. /\ phase' \in Phases /\ failed' \subseteq {"wait_stats", "os_host_info", "permissions"}
        /\ todo' \subseteq batch' /\ replacing' \subseteq todo' /\ batch' \subseteq Ids
        /\ tested' \subseteq Ids
    BY DEF Phases, ReplacedIsEmpty
  <2>4. result' \in [Ids -> [ok : BOOLEAN, waits : SUBSET Units, host : Eras \cup {-1},
                            perms : BOOLEAN]]
    BY DEF Failed
  <2>5. QED
    BY <2>1, <2>2, <2>3, <2>4
<1>2. BatchKnown'
  BY DEF BatchKnown
<1>3. SnapshotsCurrent'
  BY DEF SnapshotsCurrent
<1>4. StoredIsBehind'
  BY DEF StoredIsBehind, Behind, BatchKnown
<1>5. WorkStoredOnce'
  BY DEF WorkStoredOnce, BatchKnown
<1>6. PendingIsNew'
  BY DEF PendingIsNew, BeforeWaits, BatchKnown
<1>7. PermissionsOneCollection'
  BY DEF PermissionsOneCollection, BatchKnown
<1>8. ReplacedIsEmpty'
  BY DEF ReplacedIsEmpty, BatchKnown
<1>9. StatusesWritten'
  BY DEF StatusesWritten, StatusReflectsCycle, Live, Outcome, BatchKnown
<1>10. InsertsKept'
  BY DEF InsertsKept, BeforeWaits, BeforeHosts, Live, BatchKnown
<1>11. OnItsWay'
  BY DEF OnItsWay, BeforeWaits, BeforeHosts, Live, BatchKnown
<1>12. QED
  BY <1>1, <1>2, <1>3, <1>4, <1>5, <1>6, <1>7, <1>8, <1>9, <1>10, <1>11

\* The collection failed after the snapshot.
LEMMA CollectPartlyKeeps == ASSUME IInv, NEW i \in Ids, CollectPartly(i) PROVE IInv'
<1>1. PICK now \in work[i]..MaxWork : TakeSnapshot(i, now)
  BY DEF CollectPartly
<1>2. /\ phase = "collect" /\ i \in todo /\ Settle(i, Failed)
      /\ faults < MaxFaults /\ faults' = faults + 1
      /\ UNCHANGED <<inst, status, stored, hostRow, perms, count, hostSeen, era, tested>>
  BY DEF CollectPartly, Fault, pgVars
<1>3. faults \in Nat /\ faults <= faults' /\ faults' \in 0..MaxFaults /\ faults' \in Nat
  BY <1>2, NumberFacts, Bounds DEF IInv
<1>4. /\ SnapshotsCurrent'
      /\ snap' \in [Ids -> [era : Eras, at : 0..MaxWork] \cup {None}]
      /\ work' \in [Ids -> 0..MaxWork] /\ first' \in [Ids -> 0..MaxWork]
      /\ \A j \in Ids \ {i} : first'[j] = first[j]
      /\ \A j \in Ids : \A u \in Units : Behind(j, u) => Behind(j, u)'
  BY <1>1, <1>2, <1>3, SnapshotFacts
<1>5. /\ result[i] = Failed /\ result' = [result EXCEPT ![i] = Failed] /\ result'[i] = Failed
      /\ \A j \in Ids \ {i} : result'[j] = result[j]
      /\ UNCHANGED <<batch, failed, replacing>> /\ replacing = {} /\ i \in batch
      /\ \/ phase' = "collect" /\ todo' = todo \ {i}
         \/ phase' = "status" /\ todo' = batch
      /\ todo' \subseteq batch
  BY <1>2, SettleFacts
<1>6. result' = result
  BY <1>5 DEF IInv, TypeOK
<1>7. TypeOK'
  <2>1. phase' \in Phases
        /\ todo' \subseteq batch' /\ replacing' \subseteq todo'
    BY <1>5 DEF Phases
  <2>2. QED
    BY <1>2, <1>3, <1>4, <1>5, <1>6, <2>1 DEF IInv, TypeOK
<1>8. BatchKnown'
  BY <1>2, <1>4, <1>5, <1>6 DEF IInv, BatchKnown
<1>9. StoredIsBehind'
  BY <1>2, <1>4, <1>6 DEF IInv, StoredIsBehind
<1>10. WorkStoredOnce' /\ PermissionsOneCollection' /\ ReplacedIsEmpty' /\ PendingIsNew'
  BY <1>2, <1>5, <1>6 DEF IInv, WorkStoredOnce, PermissionsOneCollection, ReplacedIsEmpty, PendingIsNew,
                          BeforeWaits
<1>11. StatusesWritten' /\ InsertsKept'
  BY <1>2, <1>5, <1>6 DEF IInv, StatusesWritten, StatusReflectsCycle, InsertsKept, BeforeWaits,
                          BeforeHosts, Live, Outcome
<1>12. OnItsWay'
  BY <1>2, <1>3 DEF OnItsWay
<1>13. QED
  BY <1>4, <1>7, <1>8, <1>9, <1>10, <1>11, <1>12 DEF IInv

\* One UPDATE of updateStatuses.
LEMMA StatusKeeps == ASSUME IInv, NEW i \in Ids, StatusStep(i) PROVE IInv'
<1> USE Bounds DEF IInv, TypeOK, pgVars, envVars, StatusStep, UpdateStatus, memVars
<1>1. TypeOK'
  <2>1. /\ inst' \in [Ids -> {"new", "live", "deleted"}]
        /\ status' \in [Ids -> {"unknown", "online", "unreachable"}]
        /\ stored' \in [Ids -> [Units -> Nat]] /\ perms' \in [Ids -> Nat]
        /\ hostRow' \in [Ids -> Eras \cup {-1}]
    BY DEF Eras, Outcome
  <2>2. /\ count' \in 0..(2 * PermEvery - 1) /\ faults' \in 0..MaxFaults
        /\ work' \in [Ids -> 0..MaxWork] /\ era' \in [Ids -> Eras]
        /\ snap' \in [Ids -> [era : Eras, at : 0..MaxWork] \cup {None}]
        /\ first' \in [Ids -> 0..MaxWork] /\ hostSeen' \subseteq Ids
    BY DEF Eras
  <2>3. /\ phase' \in Phases /\ failed' \subseteq {"wait_stats", "os_host_info", "permissions"}
        /\ todo' \subseteq batch' /\ replacing' \subseteq todo' /\ batch' \subseteq Ids
        /\ tested' \subseteq Ids
    BY DEF Phases, ReplacedIsEmpty
  <2>4. result' \in [Ids -> [ok : BOOLEAN, waits : SUBSET Units, host : Eras \cup {-1},
                            perms : BOOLEAN]]
    BY DEF Failed
  <2>5. QED
    BY <2>1, <2>2, <2>3, <2>4
<1>2. BatchKnown'
  BY DEF BatchKnown
<1>3. SnapshotsCurrent'
  BY DEF SnapshotsCurrent
<1>4. StoredIsBehind'
  BY DEF StoredIsBehind, Behind, BatchKnown
<1>5. WorkStoredOnce'
  BY DEF WorkStoredOnce, BatchKnown
<1>6. PendingIsNew'
  BY DEF PendingIsNew, BeforeWaits, BatchKnown
<1>7. PermissionsOneCollection'
  BY DEF PermissionsOneCollection, BatchKnown
<1>8. ReplacedIsEmpty'
  BY DEF ReplacedIsEmpty, BatchKnown
<1>9. StatusesWritten'
  BY DEF StatusesWritten, StatusReflectsCycle, Live, Outcome, BatchKnown
<1>10. InsertsKept'
  BY DEF InsertsKept, BeforeWaits, BeforeHosts, Live, BatchKnown
<1>11. OnItsWay'
  BY DEF OnItsWay, BeforeWaits, BeforeHosts, Live, BatchKnown
<1>12. QED
  BY <1>1, <1>2, <1>3, <1>4, <1>5, <1>6, <1>7, <1>8, <1>9, <1>10, <1>11

\* The INSERT of the deltas, none of which is stored yet.
LEMMA WaitsKeep == ASSUME IInv, InsertWaits PROVE IInv'
<1> USE Bounds DEF IInv, TypeOK, pgVars, envVars, memVars, InsertWaits, InsertDone, After,
                   WithRows, WithPerms, Live
<1>1. TypeOK'
  <2>1. /\ inst' \in [Ids -> {"new", "live", "deleted"}]
        /\ status' \in [Ids -> {"unknown", "online", "unreachable"}]
        /\ stored' \in [Ids -> [Units -> Nat]] /\ perms' \in [Ids -> Nat]
        /\ hostRow' \in [Ids -> Eras \cup {-1}]
    BY DEF Eras
  <2>2. /\ count' \in 0..(2 * PermEvery - 1) /\ faults' \in 0..MaxFaults
        /\ work' \in [Ids -> 0..MaxWork] /\ era' \in [Ids -> Eras]
        /\ snap' \in [Ids -> [era : Eras, at : 0..MaxWork] \cup {None}]
        /\ first' \in [Ids -> 0..MaxWork] /\ hostSeen' \subseteq Ids
    BY DEF Eras
  <2>3. /\ phase' \in Phases /\ failed' \subseteq {"wait_stats", "os_host_info", "permissions"}
        /\ todo' \subseteq batch' /\ replacing' \subseteq todo' /\ batch' \subseteq Ids
        /\ tested' \subseteq Ids
    BY DEF Phases, ReplacedIsEmpty
  <2>4. result' \in [Ids -> [ok : BOOLEAN, waits : SUBSET Units, host : Eras \cup {-1},
                            perms : BOOLEAN]]
    BY DEF Failed
  <2>5. QED
    BY <2>1, <2>2, <2>3, <2>4
<1>2. BatchKnown'
  BY DEF BatchKnown
<1>3. SnapshotsCurrent'
  BY DEF SnapshotsCurrent
<1>4. StoredIsBehind'
  BY DEF StoredIsBehind, Behind, BatchKnown
<1>5. WorkStoredOnce'
  BY DEF WorkStoredOnce, PendingIsNew, BeforeWaits
<1>6. PendingIsNew'
  BY DEF PendingIsNew, BeforeWaits, BatchKnown
<1>7. PermissionsOneCollection'
  BY DEF PermissionsOneCollection, BatchKnown
<1>8. ReplacedIsEmpty'
  BY DEF ReplacedIsEmpty, BatchKnown
<1>9. StatusesWritten'
  BY DEF StatusesWritten, StatusReflectsCycle, Live, Outcome, BatchKnown
<1>10. InsertsKept'
  BY DEF InsertsKept, BeforeWaits, BeforeHosts, Live, BatchKnown
<1>11. OnItsWay'
  <2> HIDE DEF IInv, TypeOK, InsertDone, WithRows
  <2>1. /\ phase = "wait_stats" /\ phase' = "os_host_info" /\ hostRow' = hostRow
        /\ stored' = [j \in Ids |-> [u \in Units |->
                         IF u \in result[j].waits THEN stored[j][u] + 1 ELSE stored[j][u]]]
        /\ UNCHANGED <<inst, batch, snap, hostSeen, first, result, era, faults>>
    BY DEF InsertDone, After
  <2>2. /\ OnItsWay /\ \A j \in Ids : \A u \in result[j].waits : stored[j][u] = 0
        /\ \A j \in Ids : result[j].waits \subseteq Units
    BY <2>1 DEF IInv, TypeOK, PendingIsNew, BeforeWaits
  <2>3. \A j \in Ids : \A u \in Units :
           /\ stored[j][u] = 1 => stored'[j][u] = 1
           /\ u \in result[j].waits => stored'[j][u] = 1
    BY <2>1, <2>2
  <2>4. ASSUME faults = 0, NEW j \in Live, first[j] > 0, NEW n \in (first[j] + 1)..snap[j].at
        PROVE  stored'[j][<<0, n>>] = 1
    <3>1. <<0, n>> \in Units
      BY <2>4, NumberFacts, Bounds DEF IInv, Units, Live
    <3>2. stored[j][<<0, n>>] = 1 \/ <<0, n>> \in result[j].waits
      BY <2>2, <2>4 DEF OnItsWay
    <3>3. QED
      BY <2>3, <3>1, <3>2 DEF Live
  <2>5. QED
    BY <2>1, <2>2, <2>4 DEF OnItsWay, BeforeWaits, BeforeHosts, Live
<1>12. QED
  BY <1>1, <1>2, <1>3, <1>4, <1>5, <1>6, <1>7, <1>8, <1>9, <1>10, <1>11

\* The INSERT of the host rows.
LEMMA HostsKeep == ASSUME IInv, InsertHosts PROVE IInv'
<1> USE Bounds DEF IInv, TypeOK, pgVars, envVars, memVars, InsertHosts, InsertDone, After,
                   WithRows, WithPerms, Live
<1>1. TypeOK'
  <2>1. /\ inst' \in [Ids -> {"new", "live", "deleted"}]
        /\ status' \in [Ids -> {"unknown", "online", "unreachable"}]
        /\ stored' \in [Ids -> [Units -> Nat]] /\ perms' \in [Ids -> Nat]
        /\ hostRow' \in [Ids -> Eras \cup {-1}]
    BY DEF Eras
  <2>2. /\ count' \in 0..(2 * PermEvery - 1) /\ faults' \in 0..MaxFaults
        /\ work' \in [Ids -> 0..MaxWork] /\ era' \in [Ids -> Eras]
        /\ snap' \in [Ids -> [era : Eras, at : 0..MaxWork] \cup {None}]
        /\ first' \in [Ids -> 0..MaxWork] /\ hostSeen' \subseteq Ids
    BY DEF Eras
  <2>3. /\ phase' \in Phases /\ failed' \subseteq {"wait_stats", "os_host_info", "permissions"}
        /\ todo' \subseteq batch' /\ replacing' \subseteq todo' /\ batch' \subseteq Ids
        /\ tested' \subseteq Ids
    BY DEF Phases, ReplacedIsEmpty
  <2>4. result' \in [Ids -> [ok : BOOLEAN, waits : SUBSET Units, host : Eras \cup {-1},
                            perms : BOOLEAN]]
    BY DEF Failed
  <2>5. QED
    BY <2>1, <2>2, <2>3, <2>4
<1>2. BatchKnown'
  BY DEF BatchKnown
<1>3. SnapshotsCurrent'
  BY DEF SnapshotsCurrent
<1>4. StoredIsBehind'
  BY DEF StoredIsBehind, Behind, BatchKnown
<1>5. WorkStoredOnce'
  BY DEF WorkStoredOnce, BatchKnown
<1>6. PendingIsNew'
  BY DEF PendingIsNew, BeforeWaits, BatchKnown
<1>7. PermissionsOneCollection'
  BY DEF PermissionsOneCollection, BatchKnown
<1>8. ReplacedIsEmpty'
  BY DEF ReplacedIsEmpty, BatchKnown
<1>9. StatusesWritten'
  BY DEF StatusesWritten, StatusReflectsCycle, Live, Outcome, BatchKnown
<1>10. InsertsKept'
  BY DEF InsertsKept, BeforeWaits, BeforeHosts, Live, BatchKnown
<1>11. OnItsWay'
  BY DEF OnItsWay, BeforeWaits, BeforeHosts, Live, BatchKnown
<1>12. QED
  BY <1>1, <1>2, <1>3, <1>4, <1>5, <1>6, <1>7, <1>8, <1>9, <1>10, <1>11

\* The permissions of an instance are deleted,
LEMMA DeletePermsKeeps == ASSUME IInv, NEW i \in Ids, DeletePerms(i) PROVE IInv'
<1> USE Bounds DEF IInv, TypeOK, pgVars, envVars, DeletePerms, memVars
<1>1. TypeOK'
  BY DEF Phases, Eras
<1>2. BatchKnown'
  BY DEF BatchKnown
<1>3. SnapshotsCurrent'
  BY DEF SnapshotsCurrent
<1>4. StoredIsBehind'
  BY DEF StoredIsBehind, Behind, BatchKnown
<1>5. WorkStoredOnce'
  BY DEF WorkStoredOnce, BatchKnown
<1>6. PendingIsNew'
  BY DEF PendingIsNew, BeforeWaits, BatchKnown
<1>7. PermissionsOneCollection'
  BY DEF PermissionsOneCollection, BatchKnown
<1>8. ReplacedIsEmpty'
  BY DEF ReplacedIsEmpty, BatchKnown
<1>9. StatusesWritten'
  BY DEF StatusesWritten, StatusReflectsCycle, Live, Outcome, BatchKnown
<1>10. InsertsKept'
  BY DEF InsertsKept, BeforeWaits, BeforeHosts, Live, BatchKnown
<1>11. OnItsWay'
  BY DEF OnItsWay, BeforeWaits, BeforeHosts, Live, BatchKnown
<1>12. QED
  BY <1>1, <1>2, <1>3, <1>4, <1>5, <1>6, <1>7, <1>8, <1>9, <1>10, <1>11

\* and the new ones inserted.
LEMMA InsertPermsKeeps == ASSUME IInv, NEW i \in Ids, InsertPerms(i) PROVE IInv'
<1> USE Bounds DEF IInv, TypeOK, pgVars, envVars, InsertPerms, memVars
<1>1. TypeOK'
  BY DEF Phases, Eras
<1>2. BatchKnown'
  BY DEF BatchKnown
<1>3. SnapshotsCurrent'
  BY DEF SnapshotsCurrent
<1>4. StoredIsBehind'
  BY DEF StoredIsBehind, Behind, BatchKnown
<1>5. WorkStoredOnce'
  BY DEF WorkStoredOnce, BatchKnown
<1>6. PendingIsNew'
  BY DEF PendingIsNew, BeforeWaits, BatchKnown
<1>7. PermissionsOneCollection'
  BY DEF PermissionsOneCollection, ReplacedIsEmpty
<1>8. ReplacedIsEmpty'
  BY DEF ReplacedIsEmpty, BatchKnown
<1>9. StatusesWritten'
  BY DEF StatusesWritten, StatusReflectsCycle, Live, Outcome, BatchKnown
<1>10. InsertsKept'
  BY DEF InsertsKept, BeforeWaits, BeforeHosts, Live, BatchKnown
<1>11. OnItsWay'
  BY DEF OnItsWay, BeforeWaits, BeforeHosts, Live, BatchKnown
<1>12. QED
  BY <1>1, <1>2, <1>3, <1>4, <1>5, <1>6, <1>7, <1>8, <1>9, <1>10, <1>11

\* The instance routes.
LEMMA CreateKeeps == ASSUME IInv, NEW i \in Ids, Create(i) PROVE IInv'
<1> USE Bounds DEF IInv, TypeOK, pgVars, envVars, Create, memVars, cycVars
<1>1. TypeOK'
  BY DEF Phases, Eras
<1>2. BatchKnown'
  BY DEF BatchKnown
<1>3. SnapshotsCurrent'
  BY DEF SnapshotsCurrent
<1>4. StoredIsBehind'
  BY DEF StoredIsBehind, Behind, BatchKnown
<1>5. WorkStoredOnce'
  BY DEF WorkStoredOnce, BatchKnown
<1>6. PendingIsNew'
  BY DEF PendingIsNew, BeforeWaits, BatchKnown
<1>7. PermissionsOneCollection'
  BY DEF PermissionsOneCollection, BatchKnown
<1>8. ReplacedIsEmpty'
  BY DEF ReplacedIsEmpty, BatchKnown
<1>9. StatusesWritten'
  BY DEF StatusesWritten, StatusReflectsCycle, Live, Outcome, BatchKnown
<1>10. InsertsKept'
  BY DEF InsertsKept, BeforeWaits, BeforeHosts, Live, BatchKnown
<1>11. OnItsWay'
  BY DEF OnItsWay, BeforeWaits, BeforeHosts, Live, BatchKnown
<1>12. QED
  BY <1>1, <1>2, <1>3, <1>4, <1>5, <1>6, <1>7, <1>8, <1>9, <1>10, <1>11

LEMMA DeleteKeeps == ASSUME IInv, NEW i \in Ids, Delete(i) PROVE IInv'
<1> USE Bounds DEF IInv, TypeOK, pgVars, envVars, Delete, Fault, memVars, cycVars
<1>1. TypeOK'
  BY DEF Phases, Eras
<1>2. BatchKnown'
  BY DEF BatchKnown
<1>3. SnapshotsCurrent'
  <2> HIDE DEF TypeOK
  <2>1. QED
    BY NumberFacts DEF SnapshotsCurrent
<1>4. StoredIsBehind'
  BY DEF StoredIsBehind, Behind, BatchKnown
<1>5. WorkStoredOnce'
  BY DEF WorkStoredOnce, BatchKnown
<1>6. PendingIsNew'
  BY DEF PendingIsNew, BeforeWaits, BatchKnown
<1>7. PermissionsOneCollection'
  BY DEF PermissionsOneCollection, BatchKnown
<1>8. ReplacedIsEmpty'
  BY DEF ReplacedIsEmpty, BatchKnown
<1>9. StatusesWritten'
  BY DEF StatusesWritten, StatusReflectsCycle, Live, Outcome, BatchKnown
<1>10. InsertsKept'
  BY DEF InsertsKept, BeforeWaits, BeforeHosts, Live, BatchKnown
<1>11. OnItsWay'
  BY DEF OnItsWay, BeforeWaits, BeforeHosts, Live, BatchKnown
<1>12. QED
  BY <1>1, <1>2, <1>3, <1>4, <1>5, <1>6, <1>7, <1>8, <1>9, <1>10, <1>11

LEMMA TestKeeps == ASSUME IInv, NEW i \in Ids, TestEnds(i) PROVE IInv'
<1> USE Bounds DEF IInv, TypeOK, pgVars, envVars, TestEnds, memVars, cycVars
<1>1. TypeOK'
  BY DEF Phases, Eras
<1>2. BatchKnown'
  BY DEF BatchKnown
<1>3. SnapshotsCurrent'
  BY DEF SnapshotsCurrent
<1>4. StoredIsBehind'
  BY DEF StoredIsBehind, Behind, BatchKnown
<1>5. WorkStoredOnce'
  BY DEF WorkStoredOnce, BatchKnown
<1>6. PendingIsNew'
  BY DEF PendingIsNew, BeforeWaits, BatchKnown
<1>7. PermissionsOneCollection'
  BY DEF PermissionsOneCollection, BatchKnown
<1>8. ReplacedIsEmpty'
  BY DEF ReplacedIsEmpty, BatchKnown
<1>9. StatusesWritten'
  BY DEF StatusesWritten, StatusReflectsCycle, Live, Outcome, BatchKnown
<1>10. InsertsKept'
  BY DEF InsertsKept, BeforeWaits, BeforeHosts, Live, BatchKnown
<1>11. OnItsWay'
  BY DEF OnItsWay, BeforeWaits, BeforeHosts, Live, BatchKnown
<1>12. QED
  BY <1>1, <1>2, <1>3, <1>4, <1>5, <1>6, <1>7, <1>8, <1>9, <1>10, <1>11

\* A SQL Server counts from nothing again.
LEMMA RestartKeeps == ASSUME IInv, NEW i \in Ids, SqlRestart(i) PROVE IInv'
<1>1. /\ UNCHANGED <<inst, status, stored, hostRow, perms, count, snap, hostSeen, first>>
      /\ UNCHANGED <<phase, todo, replacing, batch, result, failed, tested>>
  BY DEF SqlRestart, pgVars, memVars, cycVars
<1>2. /\ faults < MaxFaults /\ faults' = faults + 1
      /\ work' = [work EXCEPT ![i] = 0] /\ era' = [era EXCEPT ![i] = @ + 1]
  BY DEF SqlRestart, Fault
<1>3. /\ era \in [Ids -> Eras] /\ work \in [Ids -> 0..MaxWork] /\ faults \in Nat
      /\ \A j \in Ids : era[j] \in Nat /\ era[j] <= faults
      /\ \A j \in Ids : snap[j].era \in Int /\ snap[j].era <= era[j]
                        /\ (snap[j].era = era[j] => snap[j].at = work[j])
  BY NumberFacts DEF IInv, TypeOK, SnapshotsCurrent
<1>4. /\ faults' \in 0..MaxFaults /\ era[i] + 1 \in Eras
  BY <1>2, <1>3, Bounds DEF Eras
<1>5. /\ \A j \in Ids : era'[j] = IF j = i THEN era[j] + 1 ELSE era[j]
      /\ \A j \in Ids : work'[j] = IF j = i THEN 0 ELSE work[j]
      /\ era' \in [Ids -> Eras] /\ work' \in [Ids -> 0..MaxWork]
  BY <1>2, <1>3, <1>4, Bounds
<1>6. TypeOK'
  BY <1>1, <1>4, <1>5 DEF IInv, TypeOK
<1>7. SnapshotsCurrent'
  BY <1>1, <1>2, <1>3, <1>5 DEF SnapshotsCurrent
<1>8. StoredIsBehind'
  <2>1. ASSUME NEW j \in Ids, NEW u \in Units, Behind(j, u) PROVE Behind(j, u)'
    <3>1. u[1] \in Nat
      BY Bounds DEF Units, Eras
    <3>2. QED
      BY <1>3, <1>5, <2>1, <3>1 DEF Behind
  <2>2. QED
    BY <1>1, <2>1 DEF IInv, StoredIsBehind
<1>9. BatchKnown' /\ WorkStoredOnce' /\ PendingIsNew' /\ PermissionsOneCollection' /\ ReplacedIsEmpty'
  BY <1>1 DEF IInv, BatchKnown, WorkStoredOnce, PendingIsNew, PermissionsOneCollection, ReplacedIsEmpty
<1>10. StatusesWritten' /\ InsertsKept'
  BY <1>1 DEF IInv, StatusesWritten, StatusReflectsCycle, InsertsKept, Live, Outcome
<1>11. OnItsWay'
  BY <1>2, <1>3 DEF OnItsWay
<1>12. QED
  BY <1>6, <1>7, <1>8, <1>9, <1>10, <1>11 DEF IInv

\* A step that ends the cycle.
LEMMA EndsKeep ==
  ASSUME IInv, Idle, UNCHANGED <<inst, status, stored, hostRow, perms, work, era>>,
         \/ UNCHANGED memVars /\ ((phase = "alerts" /\ faults' = faults) \/ Fault)
         \/ /\ Fault /\ count' = 0 /\ snap' = [j \in Ids |-> None] /\ hostSeen' = {}
            /\ first' = [j \in Ids |-> 0]
  PROVE  IInv'
<1>1. /\ phase' = "idle" /\ todo' = {} /\ replacing' = {} /\ batch' = {} /\ failed' = {} /\ tested' = {}
      /\ result' = [j \in Ids |-> Failed] /\ \A j \in Ids : result'[j] = Failed
  BY DEF Idle, Blank
<1>2. /\ faults \in Nat /\ faults' \in 0..MaxFaults /\ faults <= faults'
      /\ faults' = 0 => /\ faults = 0 /\ phase = "alerts"
                        /\ UNCHANGED <<count, snap, hostSeen, first>>
  BY NumberFacts, Bounds DEF IInv, TypeOK, Fault, memVars
<1>3. /\ count' \in 0..(2 * PermEvery - 1) /\ hostSeen' \subseteq Ids
      /\ snap' \in [Ids -> [era : Eras, at : 0..MaxWork] \cup {None}]
      /\ first' \in [Ids -> 0..MaxWork]
      /\ snap' = snap \/ snap' = [j \in Ids |-> None]
      /\ \A j \in Ids : inst[j] = "new" => first'[j] = 0 /\ j \notin hostSeen'
  <2>1. CASE UNCHANGED memVars
    BY <2>1 DEF memVars, IInv, TypeOK, BatchKnown
  <2>2. CASE count' = 0 /\ snap' = [j \in Ids |-> None] /\ hostSeen' = {} /\ first' = [j \in Ids |-> 0]
    BY <2>2, Bounds
  <2>3. QED
    BY <2>1, <2>2
<1>4. TypeOK'
  <2>1. result' \in [Ids -> [ok : BOOLEAN, waits : SUBSET Units, host : Eras \cup {-1},
                             perms : BOOLEAN]]
    BY <1>1 DEF Failed
  <2>2. QED
    BY <1>1, <1>2, <1>3, <2>1 DEF IInv, TypeOK, Phases
<1>5. BatchKnown'
  BY <1>1, <1>3 DEF BatchKnown
<1>6. SnapshotsCurrent'
  <2> SUFFICES ASSUME NEW j \in Ids
               PROVE  /\ era[j] <= faults' /\ snap'[j].era <= era[j]
                      /\ snap'[j].era = era[j] => snap'[j].at = work[j]
    BY DEF SnapshotsCurrent
  <2>1. /\ era[j] <= faults /\ era[j] \in Nat /\ snap[j].era <= era[j]
        /\ (snap[j].era = era[j] => snap[j].at = work[j])
    BY NumberFacts DEF IInv, SnapshotsCurrent
  <2>2. era[j] <= faults'
    BY <1>2, <2>1
  <2>3. CASE snap' = snap
    BY <2>1, <2>2, <2>3
  <2>4. CASE snap' = [k \in Ids |-> None]
    BY <2>1, <2>2, <2>4 DEF None
  <2>5. QED
    BY <1>3, <2>3, <2>4
<1>7. StoredIsBehind' /\ WorkStoredOnce' /\ PendingIsNew'
  BY <1>1 DEF IInv, StoredIsBehind, Behind, WorkStoredOnce, PendingIsNew, Failed
<1>8. PermissionsOneCollection' /\ ReplacedIsEmpty' /\ StatusesWritten' /\ InsertsKept'
  BY <1>1 DEF IInv, PermissionsOneCollection, ReplacedIsEmpty, StatusesWritten, StatusReflectsCycle,
              InsertsKept
<1>9. OnItsWay'
  BY <1>1, <1>2 DEF IInv, OnItsWay, BeforeWaits, BeforeHosts, Live
<1>10. QED
  BY <1>4, <1>5, <1>6, <1>7, <1>8, <1>9 DEF IInv

\* A failed insert is noted, and the next one follows.
LEMMA ErrorKeeps ==
  ASSUME IInv, NEW label, InsertError(label),
         \/ label = phase /\ phase \in {"wait_stats", "os_host_info"}
         \/ label = "permissions" /\ phase \in {"delete_perms", "insert_perms"},
         Fault \/ (faults' = faults /\ faults # 0)
  PROVE  IInv'
<1>1. /\ UNCHANGED <<inst, status, stored, hostRow, perms, count, snap, hostSeen, first>>
      /\ UNCHANGED <<batch, result, work, era, tested>>
      /\ replacing' = {} /\ failed' = failed \cup {label} /\ phase' = After(label)
      /\ todo' = IF label = "os_host_info" THEN WithPerms ELSE {}
  BY DEF InsertError, CatchError, pgVars, memVars, envVars
<1>2. \/ label = "wait_stats" /\ phase = "wait_stats" /\ phase' = "os_host_info"
      \/ /\ label = "os_host_info" /\ phase = "os_host_info"
         /\ phase' = IF WithPerms = {} THEN "alerts" ELSE "delete_perms"
      \/ label = "permissions" /\ phase \in {"delete_perms", "insert_perms"} /\ phase' = "alerts"
  BY <1>1 DEF After
<1>3. faults' \in 0..MaxFaults /\ faults <= faults' /\ faults' # 0 /\ faults \in Nat
  BY NumberFacts, Bounds DEF IInv, TypeOK, Fault
<1>4. TypeOK'
  <2>1. /\ phase' \in Phases /\ failed' \subseteq {"wait_stats", "os_host_info", "permissions"}
       
        /\ todo' \subseteq batch' /\ replacing' \subseteq todo'
    BY <1>1, <1>2 DEF IInv, TypeOK, Phases, WithPerms
  <2>2. QED
    BY <1>1, <1>3, <2>1 DEF IInv, TypeOK
<1>5. BatchKnown' /\ WorkStoredOnce' /\ PermissionsOneCollection' /\ ReplacedIsEmpty'
  BY <1>1, <1>2 DEF IInv, BatchKnown, WorkStoredOnce, PermissionsOneCollection, ReplacedIsEmpty
<1>6. SnapshotsCurrent'
  <2>1. \A j \in Ids : era[j] \in Nat
    BY NumberFacts DEF IInv
  <2>2. QED
    BY <1>1, <1>3, <2>1 DEF IInv, SnapshotsCurrent
<1>7. StoredIsBehind' /\ PendingIsNew'
  BY <1>1, <1>2 DEF IInv, StoredIsBehind, Behind, PendingIsNew, BeforeWaits
<1>8. StatusesWritten'
  BY <1>1, <1>2 DEF IInv, StatusesWritten, StatusReflectsCycle, Live, Outcome
<1>9. InsertsKept'
  BY <1>1, <1>2 DEF IInv, InsertsKept, BeforeWaits, BeforeHosts, Live, WithPerms
<1>10. OnItsWay'
  BY <1>3 DEF OnItsWay
<1>11. QED
  BY <1>4, <1>5, <1>6, <1>7, <1>8, <1>9, <1>10 DEF IInv

\* An INSERT is refused only when an instance of the cycle has been deleted.
LEMMA RefusedIsFault ==
  ASSUME IInv, NEW i \in batch, i \notin Live
  PROVE  faults # 0
BY DEF IInv, OnItsWay

\* The invariant is inductive.
LEMMA NextIInv == IInv /\ [Next]_vars => IInv'
<1> SUFFICES ASSUME IInv, [Next]_vars PROVE IInv'
  OBVIOUS
<1>1. CASE UNCHANGED vars
  <2>1. /\ UNCHANGED <<inst, status, stored, hostRow, perms, count, snap, hostSeen, first>>
        /\ UNCHANGED <<phase, todo, replacing, batch, result, failed, work, era, tested, faults>>
    BY <1>1 DEF vars, pgVars, memVars, cycVars, envVars
  <2>2. TypeOK' /\ BatchKnown' /\ SnapshotsCurrent' /\ StoredIsBehind' /\ WorkStoredOnce'
    BY <2>1 DEF IInv, TypeOK, BatchKnown, SnapshotsCurrent, StoredIsBehind, Behind, WorkStoredOnce
  <2>3. PendingIsNew' /\ PermissionsOneCollection' /\ ReplacedIsEmpty'
    BY <2>1 DEF IInv, PendingIsNew, PermissionsOneCollection, ReplacedIsEmpty
  <2>4. StatusesWritten' /\ InsertsKept' /\ OnItsWay'
    BY <2>1 DEF IInv, StatusesWritten, StatusReflectsCycle, InsertsKept, OnItsWay, Live, Outcome
  <2>5. QED
    BY <2>2, <2>3, <2>4 DEF IInv
<1>2. CASE StatusError \/ EndCycle \/ Crash
  <2>1. CASE StatusError
    BY <2>1, EndsKeep DEF StatusError, pgVars, envVars
  <2>2. CASE EndCycle
    BY <2>2, EndsKeep DEF EndCycle, pgVars, envVars
  <2>3. CASE Crash
    BY <2>3, EndsKeep DEF Crash, pgVars
  <2>4. QED
    BY <1>2, <2>1, <2>2, <2>3
<1>3. CASE InsertFails \/ PermsFail
  <2>1. CASE InsertFails
    <3>1. phase \in {"wait_stats", "os_host_info"} /\ InsertError(phase) /\ Fault
      BY <2>1 DEF InsertFails
    <3>2. CASE phase = "wait_stats"
      <4>1. InsertError("wait_stats")
        BY <3>1, <3>2 DEF InsertError, CatchError
      <4>2. QED
        BY <3>1, <3>2, <4>1, ErrorKeeps
    <3>3. CASE phase = "os_host_info"
      <4>1. InsertError("os_host_info")
        BY <3>1, <3>3 DEF InsertError, CatchError
      <4>2. QED
        BY <3>1, <3>3, <4>1, ErrorKeeps
    <3>4. QED
      BY <3>1, <3>2, <3>3
  <2>2. CASE PermsFail
    BY <2>2, ErrorKeeps DEF PermsFail
  <2>3. QED
    BY <1>3, <2>1, <2>2
<1>4. CASE InsertRefused
  <2>1. PICK i \in WithRows(phase) : i \notin Live
    BY <1>4 DEF InsertRefused
  <2>2. faults # 0
    BY <2>1, RefusedIsFault DEF WithRows
  <2>3. phase \in {"wait_stats", "os_host_info"} /\ InsertError(phase) /\ faults' = faults
    BY <1>4 DEF InsertRefused
  <2>4. CASE phase = "wait_stats"
    <3>1. InsertError("wait_stats")
      BY <2>3, <2>4 DEF InsertError, CatchError
    <3>2. QED
      BY <2>2, <2>3, <2>4, <3>1, ErrorKeeps
  <2>5. CASE phase = "os_host_info"
    <3>1. InsertError("os_host_info")
      BY <2>3, <2>5 DEF InsertError, CatchError
    <3>2. QED
      BY <2>2, <2>3, <2>5, <3>1, ErrorKeeps
  <2>6. QED
    BY <2>3, <2>4, <2>5
<1>5. CASE PermsRefused
  <2>1. PICK i \in replacing : i \notin Live
    BY <1>5 DEF PermsRefused
  <2>2. faults # 0
    BY <2>1, RefusedIsFault DEF IInv, TypeOK
  <2>3. QED
    BY <1>5, <2>2, ErrorKeeps DEF PermsRefused
<1>6. CASE \E i \in Ids : CollectOk(i) \/ CollectFails(i) \/ CollectPartly(i) \/ StatusStep(i)
                          \/ DeletePerms(i) \/ InsertPerms(i)
  BY <1>6, CollectOkKeeps, CollectFailsKeeps, CollectPartlyKeeps, StatusKeeps, DeletePermsKeeps,
     InsertPermsKeeps
<1>7. CASE \E i \in Ids : Create(i) \/ Delete(i) \/ TestEnds(i) \/ SqlRestart(i)
  BY <1>7, CreateKeeps, DeleteKeeps, TestKeeps, RestartKeeps
<1>8. CASE Select \/ InsertWaits \/ InsertHosts
  BY <1>8, SelectKeeps, WaitsKeep, HostsKeep
<1>9. QED
  BY <1>1, <1>2, <1>3, <1>4, <1>5, <1>6, <1>7, <1>8 DEF Next, CycleStep
-----------------------------------------------------------------------------
LEMMA Inductive == Spec => []IInv
<1>1. QED
  BY InitIInv, NextIInv, PTL DEF Spec

\* Everything the cycle keeps in memory and in PostgreSQL has its type (collectAll, the
\* instance routes and the collectors' maps).
THEOREM TypeCorrect == Spec => []TypeOK
<1>1. IInv => TypeOK
  BY DEF IInv
<1>2. QED
  BY <1>1, Inductive, PTL

\* No wait is counted in two rows of wait_stats_raw, whatever fails, restarts or is
\* deleted between the snapshot of collectWaitStats and batchInsertWaitStats.
THEOREM StoredOnce == Spec => []WorkStoredOnce
<1>1. IInv => WorkStoredOnce
  BY DEF IInv
<1>2. QED
  BY <1>1, Inductive, PTL

\* Without a fault, nothing is lost between the memory of the collectors and PostgreSQL.
THEOREM NothingIsLost == Spec => []NothingLost
<1>1. IInv => NothingLost
  BY DEF IInv, OnItsWay, NothingLost, BeforeWaits, BeforeHosts, BatchKnown, Failed, Live
<1>2. QED
  BY <1>1, Inductive, PTL

\* From updateStatuses to the end of the cycle the statuses say what the cycle found.
THEOREM StatusesReflectCycle == Spec => []StatusReflectsCycle
<1>1. IInv => StatusReflectsCycle
  BY DEF IInv, StatusesWritten
<1>2. QED
  BY <1>1, Inductive, PTL

\* A failed insert keeps no other insert of collectAll from being done.
THEOREM InsertsAreIsolated == Spec => []InsertsIsolated
<1>1. IInv => InsertsIsolated
  BY DEF IInv, InsertsKept, InsertsIsolated, BeforeWaits, BeforeHosts
<1>2. QED
  BY <1>1, Inductive, PTL

\* The role members on record come from one collection (batchInsertPermissions).
THEOREM PermissionsOfOneCollection == Spec => []PermissionsOneCollection
<1>1. IInv => PermissionsOneCollection
  BY DEF IInv
<1>2. QED
  BY <1>1, Inductive, PTL
=============================================================================
