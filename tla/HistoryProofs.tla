----------------------------- MODULE HistoryProofs -----------------------------
(***************************************************************************)
(* What the history is made of, for every value of the constants: the      *)
(* differences the collectors store (Deltas), the roll-ups the aggregator  *)
(* makes of stored samples (Rollup), and the partitions that keep all of   *)
(* them (Retention).  The three modules share nothing; each section has an *)
(* inductive invariant of its own.                                         *)
(***************************************************************************)
EXTENDS Deltas, Rollup, Retention, NaturalTheorems, TLAPS

-----------------------------------------------------------------------------
(* Deltas: how a row's counters and the snapshot of its key are related. *)

Vector == [Counter -> Nat]

DeltasTypes ==
    /\ kind \in Kind /\ shared \in BOOLEAN /\ shown \in SUBSET Row
    /\ count \in [Row -> Vector] /\ done \in [Row -> Vector] /\ broken \in SUBSET Row
    /\ start \in Nat /\ previous.start \in 0..start /\ start >= 1

SnapshotTyped ==
    previous # NoSnapshot =>
        /\ previous.start >= 1
        /\ \A k \in DOMAIN previous.rows : previous.rows[k].count \in Vector

HiddenAreZero == \A r \in Row \ shown : count[r] = Zero

\* The row the snapshot has under the key of r, and what it was.
Tracked(r) == Comparable /\ Key(r) \in DOMAIN previous.rows
Base(r) == previous.rows[Key(r)]

\* The snapshot's row had spent at least the time r had; if it is r itself, what r
\* counted since then is on its counters, unless some of it went away.
CountedSince ==
    \A r \in Row : Tracked(r) =>
        /\ count[r]["time"] <= Base(r).count["time"] + done[r]["time"]
        /\ Base(r).row = r =>
              /\ \A c \in Counter : count[r][c] <= Base(r).count[c] + done[r][c]
              /\ r \notin broken =>
                    /\ r \in shown
                    /\ \A c \in Counter : count[r][c] = Base(r).count[c] + done[r][c]

DeltasInv == DeltasTypes /\ SnapshotTyped /\ HiddenAreZero /\ CountedSince
-----------------------------------------------------------------------------
LEMMA ZeroIsVector == Zero \in Vector /\ (\A c \in Counter : Zero[c] = 0) /\ "time" \in Counter /\ "runs" \in Counter
BY DEF Zero, Vector, Counter

LEMMA DeltasInitially == DeltasInit => DeltasInv
<1> SUFFICES ASSUME DeltasInit PROVE DeltasInv
  OBVIOUS
<1>1. /\ kind \in Kind /\ shared \in BOOLEAN /\ shown \in SUBSET Row /\ count = Fresh /\ start = 1
      /\ previous = NoSnapshot /\ done = Fresh /\ broken = {}
  BY DEF DeltasInit
<1>2. previous.start = 0 /\ ~Comparable
  BY <1>1 DEF NoSnapshot, Comparable
<1>3. Fresh \in [Row -> Vector] /\ \A r \in Row : Fresh[r] = Zero
  BY ZeroIsVector DEF Fresh
<1>4. QED
  BY <1>1, <1>2, <1>3 DEF DeltasInv, DeltasTypes, SnapshotTyped, HiddenAreZero, CountedSince, Tracked

\* A step of the SQL Server that adds to a counter no more than the row did, and
\* exactly that unless the row is broken, leaves the relation as it is.
Evenly ==
    \A r \in Row :
        /\ \A c \in Counter : count'[r][c] - done'[r][c] <= count[r][c] - done[r][c]
        /\ r \notin broken' => /\ r \notin broken /\ (r \in shown => r \in shown')
                               /\ \A c \in Counter :
                                     count'[r][c] - done'[r][c] = count[r][c] - done[r][c]

LEMMA EvenStepCounts ==
  ASSUME DeltasInv, DeltasTypes', Evenly, UNCHANGED <<shared, start, previous>>
  PROVE  CountedSince'
<1>1. SUFFICES ASSUME NEW r \in Row, Tracked(r)'
               PROVE  /\ count'[r]["time"] <= Base(r).count["time"] + done'[r]["time"]
                      /\ Base(r).row = r =>
                            /\ \A c \in Counter : count'[r][c] <= Base(r).count[c] + done'[r][c]
                            /\ r \notin broken' =>
                                  /\ r \in shown'
                                  /\ \A c \in Counter : count'[r][c] = Base(r).count[c] + done'[r][c]
  BY DEF CountedSince, Base, Key
<1>2. Tracked(r) /\ previous # NoSnapshot
  BY <1>1 DEF Tracked, Comparable, Key, DeltasInv, DeltasTypes, NoSnapshot
<1>3. Base(r).count \in Vector
  BY <1>2 DEF DeltasInv, SnapshotTyped, Tracked, Base
<1>4. /\ \A c \in Counter : /\ Base(r).count[c] \in Nat /\ count[r][c] \in Nat /\ done[r][c] \in Nat
                            /\ count'[r][c] \in Nat /\ done'[r][c] \in Nat
      /\ "time" \in Counter
  BY <1>3, ZeroIsVector DEF DeltasInv, DeltasTypes, Vector
<1>5. /\ count[r]["time"] <= Base(r).count["time"] + done[r]["time"]
      /\ Base(r).row = r =>
            /\ \A c \in Counter : count[r][c] <= Base(r).count[c] + done[r][c]
            /\ r \notin broken =>
                  /\ r \in shown
                  /\ \A c \in Counter : count[r][c] = Base(r).count[c] + done[r][c]
  BY <1>2 DEF DeltasInv, CountedSince
<1>6. /\ \A c \in Counter : count'[r][c] - done'[r][c] <= count[r][c] - done[r][c]
      /\ r \notin broken' => /\ r \notin broken /\ (r \in shown => r \in shown')
                             /\ \A c \in Counter :
                                   count'[r][c] - done'[r][c] = count[r][c] - done[r][c]
  BY DEF Evenly
<1>7. count'[r]["time"] <= Base(r).count["time"] + done'[r]["time"]
  BY <1>4, <1>5, <1>6
<1>8. ASSUME Base(r).row = r, NEW c \in Counter
      PROVE  /\ count'[r][c] <= Base(r).count[c] + done'[r][c]
             /\ r \notin broken' => r \in shown' /\ count'[r][c] = Base(r).count[c] + done'[r][c]
  <2>1. count[r][c] <= Base(r).count[c] + done[r][c]
    BY <1>5, <1>8
  <2>2. r \notin broken' => r \in shown' /\ count[r][c] = Base(r).count[c] + done[r][c]
    BY <1>5, <1>6, <1>8
  <2>3. /\ count'[r][c] - done'[r][c] <= count[r][c] - done[r][c]
        /\ r \notin broken' => count'[r][c] - done'[r][c] = count[r][c] - done[r][c]
    BY <1>6
  <2>4. QED
    BY <1>4, <2>1, <2>2, <2>3
<1>9. QED
  BY <1>7, <1>8, ZeroIsVector

LEMMA WorksKeeps == ASSUME DeltasInv, NEW r \in Row, Works(r) PROVE DeltasInv'
<1>1. PICK more \in [Counter -> {0, 1}] :
        /\ count' = [count EXCEPT ![r] = Plus(more, @)]
        /\ done' = [done EXCEPT ![r] = Plus(more, @)]
  BY DEF Works
<1>2. /\ shown' = shown \cup {r} /\ broken' = broken \cup ({r} \ shown)
      /\ kind' = kind /\ shared' = shared /\ start' = start /\ previous' = previous
  BY DEF Works, fixed
<1>3. count \in [Row -> Vector] /\ done \in [Row -> Vector]
  BY DEF DeltasInv, DeltasTypes
<1>4. ASSUME NEW v \in Vector
      PROVE  Plus(more, v) \in Vector /\ \A c \in Counter : Plus(more, v)[c] = v[c] + more[c]
  BY DEF Plus, Vector
<1>5. /\ \A q \in Row : count'[q] = IF q = r THEN Plus(more, count[q]) ELSE count[q]
      /\ \A q \in Row : done'[q] = IF q = r THEN Plus(more, done[q]) ELSE done[q]
      /\ count' \in [Row -> Vector] /\ done' \in [Row -> Vector]
  BY <1>1, <1>3, <1>4
<1>6. DeltasTypes'
  BY <1>2, <1>5 DEF DeltasInv, DeltasTypes
<1>7. Evenly
  <2>1. ASSUME NEW q \in Row, NEW c \in Counter
        PROVE  count'[q][c] - done'[q][c] = count[q][c] - done[q][c]
    <3>1. count[q] \in Vector /\ done[q] \in Vector /\ more[c] \in Nat
      BY <1>3
    <3>2. count[q][c] \in Nat /\ done[q][c] \in Nat
      BY <3>1 DEF Vector
    <3>3. CASE q = r
      <4>1. count'[q][c] = count[q][c] + more[c] /\ done'[q][c] = done[q][c] + more[c]
        BY <1>4, <1>5, <3>1, <3>3
      <4>2. QED
        BY <3>1, <3>2, <4>1
    <3>4. CASE q # r
      BY <1>5, <3>4
    <3>5. QED
      BY <3>3, <3>4
  <2>2. ASSUME NEW q \in Row, NEW c \in Counter
        PROVE  count'[q][c] - done'[q][c] <= count[q][c] - done[q][c]
    <3>1. count[q][c] \in Nat /\ done[q][c] \in Nat
      BY <1>3 DEF Vector
    <3>2. QED
      BY <2>1, <3>1
  <2>3. QED
    BY <1>2, <2>1, <2>2 DEF Evenly
<1>8. CountedSince'
  BY <1>2, <1>6, <1>7, EvenStepCounts
<1>9. HiddenAreZero'
  BY <1>2, <1>5 DEF DeltasInv, HiddenAreZero
<1>10. SnapshotTyped'
  BY <1>2 DEF DeltasInv, SnapshotTyped
<1>11. QED
  BY <1>6, <1>8, <1>9, <1>10 DEF DeltasInv

\* What a row loses, in part or with the row, is at most what it had.
LEMMA LossKeeps ==
  ASSUME DeltasInv, NEW r \in Row, NEW left \in Vector,
         \A c \in Counter : left[c] <= count[r][c],
         count' = [count EXCEPT ![r] = left], broken' = broken \cup {r},
         shown' = shown \/ (shown' = shown \ {r} /\ left = Zero), r \in shown,
         UNCHANGED <<kind, shared, start, previous, done>>
  PROVE  DeltasInv'
<1>1. count \in [Row -> Vector] /\ done \in [Row -> Vector]
  BY DEF DeltasInv, DeltasTypes
<1>2. /\ \A q \in Row : count'[q] = IF q = r THEN left ELSE count[q]
      /\ count' \in [Row -> Vector] /\ done' = done
  BY <1>1
<1>3. DeltasTypes'
  BY <1>2 DEF DeltasInv, DeltasTypes
<1>4. Evenly
  <2>1. ASSUME NEW q \in Row, NEW c \in Counter
        PROVE  count'[q][c] - done'[q][c] <= count[q][c] - done[q][c]
    <3>1. count[q][c] \in Nat /\ done[q][c] \in Nat /\ left[c] \in Nat
      BY <1>1 DEF Vector
    <3>2. count'[q][c] <= count[q][c] /\ count'[q][c] \in Nat
      BY <1>2, <3>1
    <3>3. QED
      BY <1>2, <3>1, <3>2
  <2>2. QED
    BY <1>2, <2>1 DEF Evenly
<1>5. CountedSince'
  BY <1>3, <1>4, EvenStepCounts
<1>6. HiddenAreZero' /\ SnapshotTyped'
  BY <1>2 DEF DeltasInv, HiddenAreZero, SnapshotTyped
<1>7. QED
  BY <1>3, <1>5, <1>6 DEF DeltasInv

LEMMA ShrinksKeeps == ASSUME DeltasInv, NEW r \in Row, Shrinks(r) PROVE DeltasInv'
<1>1. count[r] \in Vector /\ \A c \in Counter : count[r][c] \in Nat
  BY DEF DeltasInv, DeltasTypes, Vector
<1>2. PICK left \in (CASE kind = "wait_stats" -> {Zero}
                       [] kind = "procedure_stats" -> Less(count[r])
                       [] OTHER -> {}) : count' = [count EXCEPT ![r] = left]
  BY DEF Shrinks
<1>3. left \in Vector /\ \A c \in Counter : left[c] <= count[r][c]
  <2>1. left = Zero \/ left \in Less(count[r])
    BY <1>2
  <2>2. CASE left = Zero
    BY <1>1, <2>2, ZeroIsVector
  <2>3. CASE left \in Less(count[r])
    <3>1. UNION {0..count[r][c] : c \in Counter} \subseteq Nat
      BY <1>1
    <3>2. QED
      BY <2>3, <3>1 DEF Less, Vector
  <2>4. QED
    BY <2>1, <2>2, <2>3
<1>4. QED
  BY <1>2, <1>3, LossKeeps DEF Shrinks, fixed

LEMMA VanishesKeeps == ASSUME DeltasInv, NEW r \in Row, Vanishes(r) PROVE DeltasInv'
<1>1. \A c \in Counter : Zero[c] <= count[r][c]
  <2>1. \A c \in Counter : count[r][c] \in Nat
    BY DEF DeltasInv, DeltasTypes, Vector
  <2>2. QED
    BY <2>1, ZeroIsVector
<1>2. QED
  BY <1>1, LossKeeps, ZeroIsVector DEF Vanishes, fixed

LEMMA ServerRestartsKeeps == ASSUME DeltasInv, ServerRestarts PROVE DeltasInv'
<1>1. /\ start \in Nat /\ previous.start \in 0..start /\ start' = start + 1
      /\ count' = Fresh /\ broken' = Row /\ shown' \in SUBSET Row
      /\ kind' = kind /\ shared' = shared /\ previous' = previous /\ done' = done
  BY DEF DeltasInv, DeltasTypes, ServerRestarts, fixed
<1>2. ~Comparable'
  BY <1>1 DEF Comparable
<1>3. start' \in Nat /\ previous'.start \in 0..start' /\ start' >= 1
  BY <1>1
<1>4. Fresh \in [Row -> Vector] /\ \A r \in Row : Fresh[r] = Zero
  BY ZeroIsVector DEF Fresh
<1>5. DeltasTypes'
  BY <1>1, <1>3, <1>4 DEF DeltasInv, DeltasTypes
<1>6. QED
  BY <1>1, <1>2, <1>4, <1>5 DEF DeltasInv, HiddenAreZero, SnapshotTyped, CountedSince, Tracked

LEMMA ForgetSnapshotsKeeps == ASSUME DeltasInv, ForgetSnapshots PROVE DeltasInv'
<1>1. /\ start \in Nat /\ start >= 1 /\ previous' = NoSnapshot
      /\ kind' = kind /\ shared' = shared /\ shown' = shown /\ count' = count /\ start' = start
      /\ done' = done /\ broken' = broken
  BY DEF DeltasInv, DeltasTypes, ForgetSnapshots, fixed
<1>2. previous'.start = 0 /\ ~Comparable'
  BY <1>1 DEF NoSnapshot, Comparable
<1>3. DeltasTypes'
  BY <1>1, <1>2 DEF DeltasInv, DeltasTypes
<1>4. QED
  BY <1>1, <1>2, <1>3 DEF DeltasInv, HiddenAreZero, SnapshotTyped, CountedSince, Tracked
-----------------------------------------------------------------------------
\* What the answer keeps of the differences, for each of the collectors: no tested
\* counter is negative, and a row that worked and did not go backwards is there.
Chosen(delta, rates) ==
    /\ DOMAIN delta \subseteq DOMAIN rates
    /\ \A r \in DOMAIN delta : /\ delta[r] = rates[r] /\ rates[r]["time"] >= 0
                               /\ kind \in Plans => rates[r]["runs"] >= 0
    /\ \A r \in DOMAIN rates : Worked(rates[r]) /\ rates[r]["time"] >= 0 => r \in DOMAIN delta

CollectsSome ==
    \E A \in Answers :
    \E delta \in {computeDelta(Differences(A)), NotBackwards(Differences(A)), Executed(Differences(A))} :
        Collect(A, delta) /\ Chosen(delta, Differences(A))

\* The differences of natural counters are integers.
LEMMA RatesAreInts ==
  ASSUME DeltasInv, NEW A \in Answers
  PROVE  /\ DOMAIN Differences(A) = {x \in A : Key(x) \in DOMAIN Old}
         /\ \A r \in DOMAIN Differences(A) : \A c \in Counter :
               /\ r \in Row /\ Differences(A)[r][c] \in Int
               /\ Differences(A)[r][c] = count[r][c] - Old[Key(r)].count[c]
<1>1. DOMAIN Differences(A) = {x \in A : Key(x) \in DOMAIN Old}
  BY DEF Differences
<1>2. ASSUME NEW r \in DOMAIN Differences(A), NEW c \in Counter
      PROVE  /\ r \in Row /\ Differences(A)[r][c] \in Int
             /\ Differences(A)[r][c] = count[r][c] - Old[Key(r)].count[c]
  <2>1. r \in Row /\ Key(r) \in DOMAIN Old
    BY <1>1, <1>2 DEF Answers, Eligible, DeltasInv, DeltasTypes
  <2>2. previous # NoSnapshot
    BY <2>1 DEF Old
  <2>3. Old[Key(r)].count \in Vector
    BY <2>1, <2>2 DEF Old, DeltasInv, SnapshotTyped
  <2>4. count[r][c] \in Nat /\ Old[Key(r)].count[c] \in Nat
    BY <2>1, <2>3 DEF DeltasInv, DeltasTypes, Vector
  <2>5. Differences(A)[r][c] = count[r][c] - Old[Key(r)].count[c]
    BY <1>1, <1>2 DEF Differences, Minus
  <2>6. QED
    BY <2>1, <2>4, <2>5
<1>3. QED
  BY <1>1, <1>2

LEMMA CollectorsCollect ==
  ASSUME DeltasInv,
         \/ collectWaitStats \/ collectFileIoStats \/ collectPerfCounters
         \/ collectDatabaseMetrics \/ collectQueryStats \/ collectProcedureStats
  PROVE  CollectsSome
<1>1. ASSUME NEW A \in Answers
      PROVE  /\ kind = "wait_stats" => Chosen(computeDelta(Differences(A)), Differences(A))
             /\ kind \notin Plans => Chosen(NotBackwards(Differences(A)), Differences(A))
             /\ kind \in Plans => Chosen(Executed(Differences(A)), Differences(A))
  <2>1. PICK rates : rates = Differences(A)
    OBVIOUS
  <2>2. \A r \in DOMAIN rates : rates[r]["time"] \in Int /\ rates[r]["runs"] \in Int
    BY <2>1, RatesAreInts, ZeroIsVector
  <2>3. kind = "wait_stats" => Chosen(computeDelta(rates), rates)
    BY <2>2 DEF computeDelta, Restrict, Chosen, Worked, Plans
  <2>4. kind \notin Plans => Chosen(NotBackwards(rates), rates)
    BY <2>2 DEF NotBackwards, Restrict, Chosen, Worked
  <2>5. kind \in Plans => Chosen(Executed(rates), rates)
    BY <2>2 DEF Executed, Restrict, Chosen, Worked
  <2>6. QED
    BY <2>1, <2>3, <2>4, <2>5
<1>2. CASE collectWaitStats
  BY <1>1, <1>2 DEF collectWaitStats, CollectsSome
<1>3. CASE collectFileIoStats
  BY <1>1, <1>3 DEF collectFileIoStats, computeFileIoDelta, CollectsSome, Plans
<1>4. CASE collectPerfCounters
  BY <1>1, <1>4 DEF collectPerfCounters, computePerfCounterValues, CollectsSome, Plans
<1>5. CASE collectDatabaseMetrics
  BY <1>1, <1>5 DEF collectDatabaseMetrics, computeDatabaseMetricValues, CollectsSome, Plans
<1>6. CASE collectQueryStats
  BY <1>1, <1>6 DEF collectQueryStats, computeQueryStatsDelta, CollectsSome, Plans
<1>7. CASE collectProcedureStats
  BY <1>1, <1>7 DEF collectProcedureStats, computeProcedureStatsDelta, CollectsSome, Plans
<1>8. QED
  BY <1>2, <1>3, <1>4, <1>5, <1>6, <1>7

\* No row that is shown, or not, has spent more than the one kept of its key.
LEMMA LeadHasMost ==
  ASSUME DeltasInv, NEW A \in Answers, NEW lead \in Leads(A), NEW r \in Row, Key(r) \in DOMAIN lead
  PROVE  /\ lead[Key(r)] \in A /\ A \subseteq shown /\ A \subseteq Row
         /\ count[r]["time"] <= count[lead[Key(r)]]["time"]
<1>1. /\ lead[Key(r)] \in A /\ Key(lead[Key(r)]) = Key(r)
      /\ \A x \in A : Key(x) = Key(r) => count[lead[Key(r)]]["time"] >= count[x]["time"]
  BY DEF Leads
<1>2. A \subseteq Eligible /\ Eligible \subseteq shown /\ shown \subseteq Row
  BY DEF Answers, Eligible, DeltasInv, DeltasTypes
<1>3. \A x \in Row : count[x]["time"] \in Nat
  BY ZeroIsVector DEF DeltasInv, DeltasTypes, Vector
<1>4. CASE r \in A
  BY <1>1, <1>2, <1>3, <1>4
<1>5. CASE r \in Eligible \ A
  <2>1. \A a \in A : count[a]["time"] >= count[r]["time"]
    BY <1>5 DEF Answers
  <2>2. QED
    BY <1>1, <1>2, <1>3, <2>1
<1>6. CASE r \notin Eligible
  <2>1. count[r]["time"] = 0
    <3>1. CASE r \in shown
      <4>1. ~(count[r]["time"] > 0)
        BY <1>6, <3>1 DEF Eligible
      <4>2. QED
        BY <1>3, <4>1
    <3>2. CASE r \notin shown
      BY <3>2, ZeroIsVector DEF DeltasInv, HiddenAreZero
    <3>3. QED
      BY <3>1, <3>2
  <2>2. QED
    BY <1>1, <1>2, <1>3, <2>1
<1>7. QED
  BY <1>4, <1>5, <1>6

LEMMA CollectKeeps == ASSUME DeltasInv, CollectsSome PROVE DeltasInv'
<1>1. PICK A \in Answers : \E delta : Collect(A, delta)
  BY DEF CollectsSome
<1>2. /\ done' = Fresh /\ broken' = {}
      /\ kind' = kind /\ shared' = shared /\ shown' = shown /\ count' = count /\ start' = start
  BY <1>1 DEF Collect, fixed
<1>3. PICK lead \in Leads(A) :
        previous' = [start |-> start,
                     rows |-> [k \in DOMAIN lead |-> [row |-> lead[k], count |-> count[lead[k]]]]]
  BY <1>1 DEF Collect
<1>4. /\ previous'.start = start /\ DOMAIN previous'.rows = DOMAIN lead
      /\ \A k \in DOMAIN lead : previous'.rows[k].row = lead[k] /\ previous'.rows[k].count = count[lead[k]]
  BY <1>3
<1>5. count \in [Row -> Vector] /\ start \in Nat /\ start >= 1
  BY DEF DeltasInv, DeltasTypes
<1>6. Fresh \in [Row -> Vector] /\ \A r \in Row : Fresh[r] = Zero
  BY ZeroIsVector DEF Fresh
<1>7. DeltasTypes'
  BY <1>2, <1>4, <1>5, <1>6 DEF DeltasInv, DeltasTypes
<1>8. SnapshotTyped'
  <2>1. \A k \in DOMAIN lead : lead[k] \in Row
    BY DEF Leads, Answers, Eligible, DeltasInv, DeltasTypes
  <2>2. QED
    BY <1>4, <1>5, <2>1 DEF SnapshotTyped
<1>9. CountedSince'
  <2>1. SUFFICES ASSUME NEW r \in Row, Key(r) \in DOMAIN lead
                 PROVE  /\ count[r]["time"] <= count[lead[Key(r)]]["time"] + done'[r]["time"]
                        /\ lead[Key(r)] = r =>
                              /\ r \in shown
                              /\ \A c \in Counter : count[r][c] = count[lead[Key(r)]][c] + done'[r][c]
                              /\ \A c \in Counter : count[r][c] <= count[lead[Key(r)]][c] + done'[r][c]
    BY <1>2, <1>4 DEF CountedSince, Tracked, Base, Key
  <2>2. \A c \in Counter : done'[r][c] = 0 /\ count[r][c] \in Nat
    BY <1>2, <1>5, <1>6, ZeroIsVector DEF Vector
  <2>3. lead[Key(r)] \in shown /\ lead[Key(r)] \in Row /\ count[r]["time"] <= count[lead[Key(r)]]["time"]
    BY <2>1, LeadHasMost
  <2>4. count[lead[Key(r)]]["time"] \in Nat
    BY <1>5, <2>3, ZeroIsVector DEF Vector
  <2>5. QED
    BY <2>2, <2>3, <2>4, ZeroIsVector
<1>10. HiddenAreZero'
  BY <1>2 DEF DeltasInv, HiddenAreZero
<1>11. QED
  BY <1>7, <1>8, <1>9, <1>10 DEF DeltasInv

LEMMA DeltasNextKeeps == DeltasInv /\ [DeltasNext]_deltaVars => DeltasInv'
<1> SUFFICES ASSUME DeltasInv, [DeltasNext]_deltaVars PROVE DeltasInv'
  OBVIOUS
<1>1. CASE UNCHANGED deltaVars
  BY <1>1 DEF deltaVars, DeltasInv, DeltasTypes, SnapshotTyped, HiddenAreZero, CountedSince,
              Tracked, Base, Key, Comparable
<1>2. QED
  BY <1>1, WorksKeeps, ShrinksKeeps, VanishesKeeps, ServerRestartsKeeps, ForgetSnapshotsKeeps,
     CollectorsCollect, CollectKeeps DEF DeltasNext
-----------------------------------------------------------------------------
\* A comparable answer holds, of the rows of A whose key is in the snapshot, those
\* that worked.
LEMMA CollectAnswers == ASSUME DeltasInv, CollectsSome PROVE AnswerIsWork /\ AnswerIsWhole
<1>1. PICK A \in Answers :
        \E delta \in {computeDelta(Differences(A)), NotBackwards(Differences(A)), Executed(Differences(A))} :
            Collect(A, delta) /\ Chosen(delta, Differences(A))
  BY DEF CollectsSome
<1>2. PICK delta : Collect(A, delta) /\ Chosen(delta, Differences(A))
  BY <1>1
<1>3. report' = IF Comparable THEN [said |-> TRUE, delta |-> delta] ELSE Null
  BY <1>2 DEF Collect
<1>4. CASE ~Comparable
  <2>1. DOMAIN report'.delta = {}
    BY <1>3, <1>4 DEF Null
  <2>2. QED
    BY <1>4, <2>1 DEF AnswerIsWork, AnswerIsWhole
<1>5. CASE Comparable
  <2>1. report'.delta = delta /\ previous # NoSnapshot /\ Old = previous.rows
    BY <1>3, <1>5 DEF Old, Comparable, DeltasInv, DeltasTypes, NoSnapshot
  <2>2. /\ DOMAIN Differences(A) = {x \in A : Key(x) \in DOMAIN Old}
        /\ \A r \in DOMAIN Differences(A) : \A c \in Counter :
              /\ r \in Row /\ Differences(A)[r][c] \in Int
              /\ Differences(A)[r][c] = count[r][c] - Old[Key(r)].count[c]
    BY RatesAreInts
  <2>3. ASSUME NEW r \in Row, Key(r) \in DOMAIN Old
        PROVE  /\ \A c \in Counter : /\ count[r][c] \in Nat /\ done[r][c] \in Nat
                                     /\ Old[Key(r)].count[c] \in Nat
               /\ count[r]["time"] <= Old[Key(r)].count["time"] + done[r]["time"]
               /\ HasOwn(r) =>
                    /\ \A c \in Counter : count[r][c] <= Old[Key(r)].count[c] + done[r][c]
                    /\ r \notin broken =>
                          /\ r \in shown
                          /\ \A c \in Counter : count[r][c] = Old[Key(r)].count[c] + done[r][c]
    <3>1. Tracked(r) /\ Base(r) = Old[Key(r)]
      BY <1>5, <2>1, <2>3 DEF Tracked, Base
    <3>2. Old[Key(r)].count \in Vector
      BY <2>1, <2>3 DEF DeltasInv, SnapshotTyped
    <3>3. \A c \in Counter : count[r][c] \in Nat /\ done[r][c] \in Nat /\ Old[Key(r)].count[c] \in Nat
      BY <3>2 DEF DeltasInv, DeltasTypes, Vector
    <3>4. QED
      BY <3>1, <3>3 DEF DeltasInv, CountedSince, HasOwn
  <2>4. AnswerIsWork
    <3>1. SUFFICES ASSUME NEW r \in DOMAIN delta
                   PROVE  /\ 0 <= delta[r]["time"] /\ delta[r]["time"] <= done[r]["time"]
                          /\ kind \in Plans => delta[r]["runs"] >= 0
                          /\ HasOwn(r) => \A c \in Counter : delta[r][c] <= done[r][c]
                          /\ HasOwn(r) /\ r \notin broken => delta[r] = done[r]
      BY <2>1 DEF AnswerIsWork
    <3>2. /\ r \in DOMAIN Differences(A) /\ delta[r] = Differences(A)[r]
          /\ delta[r]["time"] >= 0 /\ (kind \in Plans => delta[r]["runs"] >= 0)
      BY <1>2, <3>1 DEF Chosen
    <3>3. r \in Row /\ Key(r) \in DOMAIN Old
      BY <2>2, <3>2, ZeroIsVector
    <3>4. \A c \in Counter : delta[r][c] = count[r][c] - Old[Key(r)].count[c] /\ delta[r][c] \in Int
      BY <2>2, <3>2
    <3>5. delta[r]["time"] <= done[r]["time"]
      BY <2>3, <3>3, <3>4, ZeroIsVector
    <3>6. ASSUME HasOwn(r), NEW c \in Counter PROVE delta[r][c] <= done[r][c]
      <4>1. count[r][c] <= Old[Key(r)].count[c] + done[r][c]
        BY <2>3, <3>3, <3>6
      <4>2. count[r][c] \in Nat /\ done[r][c] \in Nat /\ Old[Key(r)].count[c] \in Nat
        BY <2>3, <3>3
      <4>3. QED
        BY <3>4, <4>1, <4>2
    <3>7. ASSUME HasOwn(r), r \notin broken PROVE delta[r] = done[r]
      <4>1. ASSUME NEW c \in Counter PROVE delta[r][c] = done[r][c]
        <5>1. count[r][c] = Old[Key(r)].count[c] + done[r][c]
          BY <2>3, <3>3, <3>7
        <5>2. count[r][c] \in Nat /\ done[r][c] \in Nat /\ Old[Key(r)].count[c] \in Nat
          BY <2>3, <3>3
        <5>3. QED
          BY <3>4, <5>1, <5>2
      <4>2. delta[r] = [c \in Counter |-> count[r][c] - Old[Key(r)].count[c]]
        BY <3>2 DEF Differences, Minus
      <4>3. done[r] = [c \in Counter |-> done[r][c]]
        BY <3>3 DEF DeltasInv, DeltasTypes, Vector
      <4>4. QED
        BY <4>1, <4>2, <4>3
    <3>8. QED
      BY <3>2, <3>5, <3>6, <3>7
  <2>5. AnswerIsWhole
    <3>1. SUFFICES ASSUME NEW r \in Row \ broken, HasOwn(r), Worked(done[r]), ~CutOff(r)
                   PROVE  r \in DOMAIN delta
      BY <2>1 DEF AnswerIsWhole
    <3>2. Key(r) \in DOMAIN Old
      BY <3>1 DEF HasOwn
    <3>3. /\ r \in shown
          /\ \A c \in Counter : /\ count[r][c] = Old[Key(r)].count[c] + done[r][c]
                                /\ count[r][c] \in Nat /\ done[r][c] \in Nat
                                /\ Old[Key(r)].count[c] \in Nat
      BY <2>3, <3>1, <3>2
    <3>4. r \in Eligible
      <4>1. kind = "wait_stats" => done[r]["time"] > 0
        BY <3>1 DEF Worked, Plans
      <4>2. kind = "wait_stats" => count[r]["time"] > 0
        BY <3>3, <4>1, ZeroIsVector
      <4>3. QED
        BY <3>3, <4>2 DEF Eligible
    <3>5. r \in A
      <4>1. SUFFICES ASSUME r \notin A PROVE CutOff(r)
        BY <3>1
      <4>2. /\ kind \in Plans /\ Cardinality(A) = top /\ A \subseteq Eligible
            /\ \A a \in A : count[a]["time"] >= count[r]["time"]
        BY <3>4, <4>1 DEF Answers
      <4>3. A \in SUBSET (shown \ {r})
        BY <4>1, <4>2 DEF Eligible
      <4>4. QED
        BY <4>2, <4>3 DEF CutOff
    <3>6. r \in DOMAIN Differences(A)
      BY <2>2, <3>2, <3>5
    <3>7. \A c \in Counter : Differences(A)[r][c] = done[r][c]
      <4>1. ASSUME NEW c \in Counter PROVE Differences(A)[r][c] = done[r][c]
        <5>1. Differences(A)[r][c] = count[r][c] - Old[Key(r)].count[c]
          BY <2>2, <3>6
        <5>2. QED
          BY <3>3, <5>1
      <4>2. QED
        BY <4>1
    <3>8. Worked(Differences(A)[r]) /\ Differences(A)[r]["time"] >= 0
      BY <3>1, <3>3, <3>7, ZeroIsVector DEF Worked
    <3>9. QED
      BY <1>2, <3>6, <3>8 DEF Chosen
  <2>6. QED
    BY <2>4, <2>5
<1>6. QED
  BY <1>4, <1>5

\* In every other step no collector answers.
LEMMA StepsAnswer == DeltasInv /\ [DeltasNext]_deltaVars => [AnswerIsWork /\ AnswerIsWhole]_deltaVars
<1> SUFFICES ASSUME DeltasInv, DeltasNext PROVE AnswerIsWork /\ AnswerIsWhole
  OBVIOUS
<1>1. CASE report' = Silence
  <2>1. DOMAIN report'.delta = {} /\ report'.said = FALSE
    BY <1>1 DEF Silence
  <2>2. QED
    BY <2>1 DEF AnswerIsWork, AnswerIsWhole
<1>2. CASE CollectsSome
  BY <1>2, CollectAnswers
<1>3. QED
  BY <1>1, <1>2, CollectorsCollect DEF DeltasNext, Works, Shrinks, Vanishes, ServerRestarts, ForgetSnapshots

(* What a collector answers was done between two snapshots: never more     *)
(* time than a row spent, whichever plan of its query the snapshot holds,  *)
(* and of a row compared with itself exactly what it did, for any rows and *)
(* counters and whatever is evicted, cleared or restarted (computeDelta    *)
(* and the five like it).                                                  *)
THEOREM DeltasAreExact == DeltasSpec => DeltasAreWork
<1>1. DeltasInv /\ [DeltasNext]_deltaVars => [AnswerIsWork]_deltaVars
  BY StepsAnswer
<1>2. QED
  BY <1>1, DeltasInitially, DeltasNextKeeps, PTL DEF DeltasSpec, DeltasAreWork

(* A row that worked, was in the snapshot of the same start and has not    *)
(* been reset is in the answer, or the TOP of the query is used up by rows *)
(* that have spent more (the keys, filters and limits of the six).         *)
THEOREM NoWorkIsDropped == DeltasSpec => WorkIsReported
<1>1. DeltasInv /\ [DeltasNext]_deltaVars => [AnswerIsWhole]_deltaVars
  BY StepsAnswer
<1>2. QED
  BY <1>1, DeltasInitially, DeltasNextKeeps, PTL DEF DeltasSpec, WorkIsReported
-----------------------------------------------------------------------------
(* Rollup: which roll-ups have run or are excused, and what their rows hold. *)

SampleIds == [T -> [Window -> SUBSET Nat]]
Jobs == [of : Int, at : Nat]

RollupTypes ==
    /\ now \in Window /\ ticked \in BOOLEAN /\ (ticked \/ now >= 1)
    /\ lastTick = None \/ lastTick \in 0..now
    /\ fiveJob \in Jobs /\ hourJob \in Jobs /\ taken \in Nat
    /\ inFlight \in SUBSET [id : Nat, table : T, window : Window]
    /\ raw \in SampleIds /\ five \in SampleIds /\ late \in SampleIds
    /\ hourly \in [T -> [Hour -> SUBSET Nat]]

\* A sample is in flight or stored, and nothing else has its number.
SamplesApart ==
    /\ \A s \in inFlight : /\ s.id <= taken /\ s.id \notin raw[s.table][s.window]
                           /\ \A r \in inFlight : r.id = s.id => r = s
    /\ \A t \in T, w \in Window : \A i \in raw[t][w] : i <= taken

\* A job that is not through is one of the last tick, which came in this window.
JobsOfNow ==
    /\ Busy(fiveJob) => ticked /\ fiveJob.of = now - 1 /\ now >= 1 /\ fiveJob.at >= 1
    /\ Busy(hourJob) => ticked /\ hourJob.of = HourOf(now) - 1 /\ hourJob.of \in Hour /\ hourJob.at >= 1

\* The flag of the hour is that of the last tick.
FlagKnown == lastHourlyRun = IF lastTick = None THEN 0 ELSE getHours(lastTick)

\* What has run is behind: before the window, or the hour, of now, and of the window
\* before now what the job has left behind.
RanBehind ==
    /\ \A t \in T, w \in Window : Roll("5min", t, w) \in ran =>
          w < now /\ (w = now - 1 => ticked /\ (Busy(fiveJob) => t < fiveJob.at))
    /\ \A t \in T, h \in Hour : Roll("hourly", t, h) \in ran => h < HourOf(now)

\* Nothing is in a row, or late for it, before the roll-up.
NothingEarly ==
    /\ \A t \in T, w \in Window : Roll("5min", t, w) \notin ran => late[t][w] = {}
    /\ \A t \in T, h \in Hour : Roll("hourly", t, h) \notin ran => hourly[t][h] = {}

WindowsDue ==
    \A t \in T, w \in Window :
        /\ w < now - 1 => Due("5min", t, w)
        /\ w = now - 1 /\ ticked => Due("5min", t, w) \/ (Busy(fiveJob) /\ t >= fiveJob.at)

\* This process has ticked in this hour.
TickedInHour == lastTick # None /\ HourOf(lastTick) = HourOf(now)

HoursDue ==
    \A t \in T, h \in Hour :
        /\ h < HourOf(now) - 1 => Due("hourly", t, h)
        /\ h = HourOf(now) - 1 /\ TickedInHour =>
              Due("hourly", t, h) \/ (Busy(hourJob) /\ t >= hourJob.at)
        /\ h = HourOf(now) - 1 /\ ~TickedInHour /\ ticked /\ HourOf(now + 1) # HourOf(now) =>
              Due("hourly", t, h)

FiveExact ==
    \A t \in T, w \in Window :
        five[t][w] = IF Roll("5min", t, w) \in ran THEN raw[t][w] \ late[t][w] ELSE {}

RacedIsLast ==
    \A t \in T, w \in Window : <<t, w>> \in raced => w = Max(WindowsOf(HourOf(w)))

HourExact ==
    \A t \in T, h \in Hour : Roll("hourly", t, h) \in ran =>
        hourly[t][h] = Together(five[t], {w \in WindowsOf(h) : <<t, w>> \notin raced})

RollupInv ==
    /\ RollupTypes /\ SamplesApart /\ JobsOfNow /\ FlagKnown /\ RanBehind /\ NothingEarly
    /\ WindowsDue /\ HoursDue /\ FiveExact /\ RacedIsLast /\ HourExact
-----------------------------------------------------------------------------
LEMMA RollupConstants == /\ PerHour \in Nat \ {0} /\ LastWindow \in Nat /\ FirstWindow \subseteq Window
                         /\ Len(Tables) \in Nat /\ T = 1..Len(Tables) /\ Window \subseteq Nat
BY RollupBounds DEF T, Window

LEMMA HourFacts ==
  ASSUME NEW w \in Nat
  PROVE  /\ HourOf(w) \in Nat /\ HourOf(w + 1) \in {HourOf(w), HourOf(w) + 1}
         /\ \A v \in Nat : v <= w => HourOf(v) <= HourOf(w)
<1>1. PerHour \in Nat \ {0}
  BY RollupBounds
<1>2. HourOf(w) \in Nat /\ HourOf(w + 1) \in Nat
  BY <1>1 DEF HourOf
<1>3. HourOf(w + 1) <= HourOf(w) + 1
  BY <1>1 DEF HourOf
<1>4. ASSUME NEW v \in Nat, NEW u \in Nat, v <= u PROVE HourOf(v) <= HourOf(u)
  BY <1>1, <1>4 DEF HourOf
<1>5. HourOf(w) <= HourOf(w + 1)
  BY <1>4
<1>6. QED
  BY <1>2, <1>3, <1>4, <1>5

LEMMA HourIsNat == Hour \subseteq Nat /\ \A w \in Window : HourOf(w) \in Hour
BY HourFacts, RollupConstants DEF Hour

LEMMA HourBefore == ASSUME NEW w \in Window, HourOf(w) >= 1 PROVE HourOf(w) - 1 \in Hour
<1>1. PerHour \in Nat \ {0} /\ w \in Nat /\ LastWindow \in Nat /\ w <= LastWindow
  BY RollupConstants DEF Window
<1>2. w >= PerHour
  BY <1>1 DEF HourOf
<1>3. w - PerHour \in Window
  BY <1>1, <1>2 DEF Window
<1>4. HourOf(w - PerHour) = HourOf(w) - 1
  BY <1>1, <1>2 DEF HourOf
<1>5. QED
  BY <1>3, <1>4 DEF Hour

LEMMA RollIsInjective ==
  ASSUME NEW a, NEW b, NEW t, NEW u, NEW v, NEW w, Roll(a, t, v) = Roll(b, u, w)
  PROVE  a = b /\ t = u /\ v = w
BY DEF Roll

LEMMA RollupInitially == RollupInit => RollupInv
<1> SUFFICES ASSUME RollupInit PROVE RollupInv
  OBVIOUS
<1>1. /\ now \in Window /\ now \in Nat /\ ticked = TRUE /\ lastTick = None /\ taken = 0
      /\ fiveJob = NoJob /\ hourJob = NoJob /\ inFlight = {} /\ ran = {} /\ raced = {}
      /\ lastHourlyRun = 0
  BY RollupConstants DEF RollupInit
<1>2. /\ raw = Empty(Window) /\ five = Empty(Window) /\ late = Empty(Window)
      /\ hourly = Empty(Hour)
  BY DEF RollupInit
<1>3. excused = {Roll("5min", t, w) : t \in T, w \in 0..(now - 1)}
                \cup {Roll("hourly", t, h) : t \in T, h \in 0..(HourOf(now) - 1)}
  BY DEF RollupInit
<1>4. ~Busy(fiveJob) /\ ~Busy(hourJob) /\ NoJob \in Jobs
  BY <1>1, RollupConstants DEF NoJob, Busy, Jobs
<1>5. RollupTypes
  BY <1>1, <1>2, <1>4 DEF RollupTypes, Empty, SampleIds
<1>6. SamplesApart /\ NothingEarly /\ FiveExact
  BY <1>1, <1>2, RollupConstants DEF SamplesApart, NothingEarly, FiveExact, Empty
<1>7. JobsOfNow /\ FlagKnown /\ RanBehind /\ RacedIsLast /\ HourExact
  BY <1>1, <1>4 DEF JobsOfNow, FlagKnown, RanBehind, RacedIsLast, HourExact
<1>8. WindowsDue
  <2>1. ASSUME NEW t \in T, NEW w \in Window, w <= now - 1 PROVE Due("5min", t, w)
    <3>1. w \in 0..(now - 1)
      BY <1>1, <2>1, RollupConstants
    <3>2. QED
      BY <1>3, <3>1 DEF Due
  <2>2. QED
    BY <1>1, <2>1, RollupConstants DEF WindowsDue
<1>9. HoursDue
  <2>1. ASSUME NEW t \in T, NEW h \in Hour, h <= HourOf(now) - 1 PROVE Due("hourly", t, h)
    <3>1. h \in 0..(HourOf(now) - 1)
      BY <1>1, <2>1, HourIsNat, HourFacts
    <3>2. QED
      BY <1>3, <3>1 DEF Due
  <2>2. HourOf(now) \in Int /\ Hour \subseteq Int
    BY <1>1, HourIsNat, HourFacts
  <2>3. QED
    BY <1>1, <2>1, <2>2 DEF HoursDue, TickedInHour
<1>10. QED
  BY <1>5, <1>6, <1>7, <1>8, <1>9 DEF RollupInv

\* Steps that leave the clock, the jobs and the books of the roll-ups alone.
LEMMA SampleKeeps == ASSUME RollupInv, NEW t \in T, Sample(t) PROVE RollupInv'
<1> DEFINE s == [id |-> taken', table |-> t, window |-> now]
<1>1. /\ taken \in Nat /\ taken' = taken + 1 /\ now \in Window
      /\ inFlight \in SUBSET [id : Nat, table : T, window : Window]
  BY DEF RollupInv, RollupTypes, Sample
<1>2. inFlight' = inFlight \cup {s}
  BY DEF Sample
<1>3. /\ now' = now /\ ticked' = ticked /\ lastHourlyRun' = lastHourlyRun /\ fiveJob' = fiveJob
      /\ hourJob' = hourJob /\ raw' = raw /\ five' = five /\ hourly' = hourly
      /\ lastTick' = lastTick /\ ran' = ran /\ excused' = excused /\ late' = late /\ raced' = raced
  BY DEF Sample, rows, books
<1>4. s \in [id : Nat, table : T, window : Window] /\ s.id = taken + 1
  BY <1>1
<1>5. RollupTypes'
  BY <1>1, <1>2, <1>3, <1>4 DEF RollupInv, RollupTypes
<1>6. SamplesApart'
  <2> HIDE DEF s
  <2>1. \A r \in inFlight : r.id \in Nat /\ r.id <= taken
    BY <1>1 DEF RollupInv, SamplesApart
  <2>2. \A u \in T, w \in Window : \A i \in raw[u][w] : i \in Nat /\ i <= taken
    BY DEF RollupInv, SamplesApart, RollupTypes, SampleIds
  <2>3. s.id <= taken' /\ s.id \notin raw[s.table][s.window]
    BY <1>1, <1>4, <2>2
  <2>4. \A r \in inFlight : r.id # s.id
    BY <1>1, <1>4, <2>1
  <2>5. QED
    BY <1>1, <1>2, <1>3, <2>1, <2>2, <2>3, <2>4 DEF RollupInv, SamplesApart
<1>7. (JobsOfNow /\ FlagKnown /\ RanBehind /\ NothingEarly /\ WindowsDue /\ HoursDue)'
  BY <1>3 DEF RollupInv, JobsOfNow, FlagKnown, RanBehind, NothingEarly, WindowsDue, HoursDue,
              TickedInHour, Due
<1>8. (FiveExact /\ RacedIsLast /\ HourExact)'
  BY <1>3 DEF RollupInv, FiveExact, RacedIsLast, HourExact
<1>9. QED
  BY <1>5, <1>6, <1>7, <1>8 DEF RollupInv

LEMMA StoreKeeps == ASSUME RollupInv, NEW s \in inFlight, Store(s) PROVE RollupInv'
<1>1. /\ s \in [id : Nat, table : T, window : Window] /\ inFlight' = inFlight \ {s}
      /\ s.id \in Nat /\ s.table \in T /\ s.window \in Window
      /\ inFlight \in SUBSET [id : Nat, table : T, window : Window]
      /\ raw \in SampleIds /\ late \in SampleIds
  BY DEF RollupInv, RollupTypes, Store
<1>2. raw' = [raw EXCEPT ![s.table][s.window] = @ \cup {s.id}]
  BY DEF Store
<1>3. late' = IF Roll("5min", s.table, s.window) \in ran
              THEN [late EXCEPT ![s.table][s.window] = @ \cup {s.id}] ELSE late
  BY DEF Store
<1>4. /\ now' = now /\ ticked' = ticked /\ lastHourlyRun' = lastHourlyRun /\ fiveJob' = fiveJob
      /\ hourJob' = hourJob /\ five' = five /\ hourly' = hourly /\ taken' = taken
      /\ lastTick' = lastTick /\ ran' = ran /\ excused' = excused /\ raced' = raced
  BY DEF Store
<1>5. /\ raw' \in SampleIds
      /\ \A t \in T, w \in Window :
            raw'[t][w] = IF t = s.table /\ w = s.window THEN raw[t][w] \cup {s.id} ELSE raw[t][w]
  BY <1>1, <1>2 DEF SampleIds
<1>6. /\ late' \in SampleIds
      /\ \A t \in T, w \in Window :
            late'[t][w] = IF t = s.table /\ w = s.window /\ Roll("5min", t, w) \in ran
                          THEN late[t][w] \cup {s.id} ELSE late[t][w]
  BY <1>1, <1>3 DEF SampleIds
<1>7. s.id <= taken /\ s.id \notin raw[s.table][s.window] /\ \A r \in inFlight : r.id = s.id => r = s
  BY DEF RollupInv, SamplesApart
<1>8. RollupTypes'
  BY <1>1, <1>4, <1>5, <1>6 DEF RollupInv, RollupTypes
<1>9. SamplesApart'
  <2>1. ASSUME NEW r \in inFlight'
        PROVE  /\ r.id <= taken' /\ r.id \notin raw'[r.table][r.window]
               /\ \A q \in inFlight' : q.id = r.id => q = r
    <3>1. r \in inFlight /\ r # s /\ r.table \in T /\ r.window \in Window
      BY <1>1, <2>1
    <3>2. r.id # s.id
      BY <1>7, <3>1
    <3>3. /\ r.id <= taken /\ r.id \notin raw[r.table][r.window]
          /\ \A q \in inFlight : q.id = r.id => q = r
      BY <3>1 DEF RollupInv, SamplesApart
    <3>4. r.id \notin raw'[r.table][r.window]
      <4>1. \/ raw'[r.table][r.window] = raw[r.table][r.window] \cup {s.id}
            \/ raw'[r.table][r.window] = raw[r.table][r.window]
        BY <1>5, <3>1
      <4>2. QED
        BY <3>2, <3>3, <4>1
    <3>5. QED
      BY <1>1, <1>4, <3>3, <3>4
  <2>2. \A t \in T, w \in Window : \A i \in raw'[t][w] : i <= taken'
    <3>1. \A t \in T, w \in Window : \A i \in raw[t][w] : i <= taken
      BY DEF RollupInv, SamplesApart
    <3>2. ASSUME NEW t \in T, NEW w \in Window, NEW i \in raw'[t][w] PROVE i \in raw[t][w] \/ i = s.id
      <4>1. raw'[t][w] = raw[t][w] \cup {s.id} \/ raw'[t][w] = raw[t][w]
        BY <1>5
      <4>2. QED
        BY <4>1
    <3>3. QED
      BY <1>4, <1>7, <3>1, <3>2
  <2>3. QED
    BY <2>1, <2>2 DEF SamplesApart
<1>10. (JobsOfNow /\ FlagKnown /\ RanBehind /\ WindowsDue /\ HoursDue /\ RacedIsLast /\ HourExact)'
  BY <1>4 DEF RollupInv, JobsOfNow, FlagKnown, RanBehind, WindowsDue, HoursDue, TickedInHour,
              Due, RacedIsLast, HourExact
<1>11. NothingEarly'
  BY <1>4, <1>6 DEF RollupInv, NothingEarly
<1>12. FiveExact'
  <2>1. ASSUME NEW t \in T, NEW w \in Window
        PROVE  Roll("5min", t, w) \in ran => raw'[t][w] \ late'[t][w] = raw[t][w] \ late[t][w]
    <3>1. CASE t = s.table /\ w = s.window
      BY <1>5, <1>6, <1>7, <3>1
    <3>2. CASE ~(t = s.table /\ w = s.window)
      BY <1>5, <1>6, <3>2
    <3>3. QED
      BY <3>1, <3>2
  <2>2. QED
    BY <1>4, <2>1 DEF RollupInv, FiveExact
<1>13. QED
  BY <1>8, <1>9, <1>10, <1>11, <1>12 DEF RollupInv
-----------------------------------------------------------------------------
\* What is missed is excused, and nothing that was due ceases to be.
LEMMA MissedFacts ==
  ASSUME NEW a, NEW b, NEW t \in T
  PROVE  /\ a => Roll("5min", t, now - 1) \in MissedBy(a, b)
         /\ b => Roll("hourly", t, HourOf(now) - 1) \in MissedBy(a, b)
BY DEF MissedBy

LEMMA PassKeeps == ASSUME RollupInv, Pass PROVE RollupInv'
<1>1. /\ now \in Nat /\ now \in Window /\ ticked \in BOOLEAN /\ (ticked \/ now >= 1)
      /\ lastTick = None \/ lastTick \in 0..now
  BY RollupConstants DEF RollupInv, RollupTypes
<1>2. /\ now < LastWindow /\ ~Busy(fiveJob) /\ ~Busy(hourJob) /\ now' = now + 1 /\ ticked' = FALSE
      /\ excused' = excused \cup MissedBy(~ticked, ~ticked /\ HourOf(now') # HourOf(now))
  BY DEF Pass
<1>3. /\ lastHourlyRun' = lastHourlyRun /\ fiveJob' = fiveJob /\ hourJob' = hourJob
      /\ inFlight' = inFlight /\ raw' = raw /\ five' = five /\ hourly' = hourly /\ taken' = taken
      /\ lastTick' = lastTick /\ ran' = ran /\ late' = late /\ raced' = raced
  BY DEF Pass, rows
<1>4. now' \in Nat /\ now' \in Window
  BY <1>1, <1>2, RollupConstants DEF Window
<1>5. /\ HourOf(now) \in Nat /\ HourOf(now') \in {HourOf(now), HourOf(now) + 1}
      /\ Hour \subseteq Nat /\ Window \subseteq Nat
  BY <1>1, <1>2, HourFacts, HourIsNat, RollupConstants
<1>6. RollupTypes'
  <2>1. now' >= 1 /\ ticked' \in BOOLEAN /\ (lastTick' = None \/ lastTick' \in 0..now')
    <3>1. ticked' \in BOOLEAN
      BY <1>2
    <3>2. now + 1 >= 1
      BY <1>1
    <3>3. lastTick \in 0..now => lastTick \in 0..(now + 1)
      BY <1>1
    <3>4. QED
      BY <1>1, <1>2, <1>3, <3>1, <3>2, <3>3
  <2>2. QED
    BY <1>3, <1>4, <2>1 DEF RollupInv, RollupTypes
<1>7. (SamplesApart /\ NothingEarly /\ FiveExact /\ RacedIsLast /\ HourExact)'
  <2>1. SamplesApart'
    BY <1>3 DEF RollupInv, SamplesApart
  <2>2. (NothingEarly /\ FiveExact /\ RacedIsLast /\ HourExact)'
    BY <1>3 DEF RollupInv, NothingEarly, FiveExact, RacedIsLast, HourExact
  <2>3. QED
    BY <2>1, <2>2
<1>8. JobsOfNow'
  BY <1>2, <1>3 DEF JobsOfNow, Busy
<1>9. FlagKnown'
  BY <1>3 DEF RollupInv, FlagKnown
<1>10. RanBehind'
  <2>1. ASSUME NEW t \in T, NEW w \in Window, Roll("5min", t, w) \in ran
        PROVE  w < now + 1 /\ w # now
    BY <1>1, <1>5, <2>1 DEF RollupInv, RanBehind
  <2>2. ASSUME NEW t \in T, NEW h \in Hour, Roll("hourly", t, h) \in ran
        PROVE  h < HourOf(now')
    BY <1>5, <2>2 DEF RollupInv, RanBehind
  <2>3. QED
    BY <1>1, <1>2, <1>3, <1>5, <2>1, <2>2 DEF RanBehind
<1>11. \A level, t, of : Due(level, t, of) => Due(level, t, of)'
  BY <1>2, <1>3 DEF Due
<1>12. WindowsDue'
  <2>1. ASSUME NEW t \in T, NEW w \in Window, w < now' - 1 PROVE Due("5min", t, w)'
    <3>1. CASE w < now - 1
      BY <1>11, <3>1 DEF RollupInv, WindowsDue
    <3>2. CASE w = now - 1 /\ ticked
      BY <1>2, <1>11, <3>2 DEF RollupInv, WindowsDue
    <3>3. CASE w = now - 1 /\ ~ticked
      BY <1>2, <3>3, MissedFacts DEF Due
    <3>4. QED
      BY <1>1, <1>2, <1>5, <2>1, <3>1, <3>2, <3>3
  <2>2. QED
    BY <1>2, <2>1 DEF WindowsDue
<1>13. HoursDue'
  <2>1. ASSUME NEW t \in T, NEW h \in Hour, h < HourOf(now') - 1 PROVE Due("hourly", t, h)'
    <3>1. CASE h < HourOf(now) - 1
      BY <1>11, <3>1 DEF RollupInv, HoursDue
    <3>2. CASE h = HourOf(now) - 1 /\ HourOf(now') # HourOf(now)
      <4>1. CASE ~ticked
        BY <1>2, <3>2, <4>1, MissedFacts DEF Due
      <4>2. CASE ticked /\ TickedInHour
        BY <1>2, <1>11, <3>2, <4>2 DEF RollupInv, HoursDue
      <4>3. CASE ticked /\ ~TickedInHour
        BY <1>2, <1>11, <3>2, <4>3 DEF RollupInv, HoursDue
      <4>4. QED
        BY <1>1, <4>1, <4>2, <4>3
    <3>3. QED
      BY <1>5, <2>1, <3>1, <3>2
  <2>2. ASSUME NEW t \in T, NEW h \in Hour, h = HourOf(now') - 1, TickedInHour'
        PROVE  Due("hourly", t, h)'
    <3>1. lastTick # None /\ HourOf(lastTick) = HourOf(now')
      BY <1>3, <2>2 DEF TickedInHour
    <3>2. HourOf(lastTick) <= HourOf(now) /\ HourOf(lastTick) \in Nat
      BY <1>1, <3>1, HourFacts
    <3>3. HourOf(now') = HourOf(now)
      BY <1>5, <3>1, <3>2
    <3>4. TickedInHour /\ h = HourOf(now) - 1
      BY <2>2, <3>1, <3>3 DEF TickedInHour
    <3>5. Due("hourly", t, h)
      BY <1>2, <3>4 DEF RollupInv, HoursDue
    <3>6. QED
      BY <1>11, <3>5
  <2>3. QED
    BY <1>2, <2>1, <2>2 DEF HoursDue
<1>14. QED
  BY <1>6, <1>7, <1>8, <1>9, <1>10, <1>12, <1>13 DEF RollupInv

LEMMA TickKeeps == ASSUME RollupInv, Tick PROVE RollupInv'
<1>1. /\ now \in Nat /\ now \in Window /\ (lastTick = None \/ lastTick \in 0..now)
      /\ Len(Tables) \in Nat /\ fiveJob \in Jobs /\ hourJob \in Jobs
  BY RollupConstants DEF RollupInv, RollupTypes
<1>2. /\ ~ticked /\ now >= 1 /\ ticked' = TRUE /\ lastTick' = now
      /\ fiveJob' = [of |-> now - 1, at |-> 1]
  BY DEF RollupInv, RollupTypes, Tick, Job, FiveMinWindow
<1>3. ~Busy(fiveJob) /\ ~Busy(hourJob)
  BY <1>2 DEF RollupInv, JobsOfNow
<1>4. /\ DueHourly(getHours(now)) => /\ lastHourlyRun' = getHours(now)
                                     /\ hourJob' = IF HourlyWindow < 0 THEN NoJob ELSE Job(HourlyWindow)
      /\ ~DueHourly(getHours(now)) => lastHourlyRun' = lastHourlyRun /\ hourJob' = hourJob
  BY DEF Tick
<1>5. excused' = IF Mistaken
                 THEN excused \cup {Roll("hourly", t, HourlyWindow) : t \in T} ELSE excused
  BY DEF Tick
<1>6. /\ now' = now /\ inFlight' = inFlight /\ raw' = raw /\ five' = five /\ hourly' = hourly
      /\ taken' = taken /\ ran' = ran /\ late' = late /\ raced' = raced
  BY DEF Tick, rows
<1>7. HourOf(now) \in Nat /\ Hour \subseteq Nat /\ Window \subseteq Nat /\ T = 1..Len(Tables)
  BY <1>1, HourFacts, HourIsNat, RollupConstants
<1>8. hourJob' = hourJob \/ hourJob' = NoJob \/ (HourOf(now) >= 1 /\ hourJob' = Job(HourOf(now) - 1))
  BY <1>4, <1>7 DEF HourlyWindow
<1>9. fiveJob' \in Jobs /\ hourJob' \in Jobs
  BY <1>1, <1>2, <1>7, <1>8 DEF Jobs, NoJob, Job
<1>10. RollupTypes'
  <2>1. ticked' \in BOOLEAN /\ ticked' /\ lastTick' \in 0..now'
    BY <1>1, <1>2, <1>6
  <2>2. QED
    BY <1>6, <1>9, <2>1 DEF RollupInv, RollupTypes
<1>11. (SamplesApart /\ NothingEarly /\ FiveExact /\ RacedIsLast /\ HourExact)'
  <2>1. SamplesApart'
    BY <1>6 DEF RollupInv, SamplesApart
  <2>2. (NothingEarly /\ FiveExact /\ RacedIsLast /\ HourExact)'
    BY <1>6 DEF RollupInv, NothingEarly, FiveExact, RacedIsLast, HourExact
  <2>3. QED
    BY <2>1, <2>2
<1>12. JobsOfNow'
  <2>1. Busy(hourJob)' => hourJob'.of = HourOf(now) - 1 /\ hourJob'.of \in Hour /\ hourJob'.at >= 1
    <3>1. CASE hourJob' = hourJob
      BY <1>3, <3>1 DEF Busy
    <3>2. CASE hourJob' = NoJob
      BY <1>1, <3>2 DEF Busy, NoJob
    <3>3. CASE HourOf(now) >= 1 /\ hourJob' = Job(HourOf(now) - 1)
      BY <1>1, <3>3, HourBefore DEF Job
    <3>4. QED
      BY <1>8, <3>1, <3>2, <3>3
  <2>2. QED
    BY <1>2, <1>6, <2>1 DEF JobsOfNow
<1>13. lastHourlyRun' = getHours(now)
  BY <1>4 DEF DueHourly
<1>14. FlagKnown'
  BY <1>1, <1>2, <1>13 DEF FlagKnown, None
<1>15. RanBehind'
  <2>1. ASSUME NEW t \in T, NEW w \in Window, Roll("5min", t, w) \in ran
        PROVE  w < now /\ w # now - 1
    BY <1>2, <2>1 DEF RollupInv, RanBehind
  <2>2. QED
    BY <1>6, <2>1 DEF RollupInv, RanBehind
<1>16. \A level, t, of : Due(level, t, of) => Due(level, t, of)'
  BY <1>5, <1>6 DEF Due
<1>17. WindowsDue'
  <2>1. (Busy(fiveJob)' /\ fiveJob'.at = 1) \/ T = {}
    BY <1>1, <1>2, <1>7 DEF Busy
  <2>2. QED
    BY <1>2, <1>6, <1>7, <1>16, <2>1 DEF RollupInv, WindowsDue
<1>18. HoursDue'
  <2>1. TickedInHour'
    BY <1>1, <1>2, <1>6 DEF TickedInHour, None
  <2>2. ASSUME NEW t \in T, NEW h \in Hour, h = HourOf(now) - 1
        PROVE  Due("hourly", t, h)' \/ (Busy(hourJob)' /\ t >= hourJob'.at)
    <3>1. CASE DueHourly(getHours(now))
      <4>1. hourJob' = [of |-> HourOf(now) - 1, at |-> 1]
        BY <1>4, <1>7, <2>2, <3>1 DEF HourlyWindow, Job
      <4>2. QED
        BY <1>7, <4>1 DEF Busy
    <3>2. CASE Mistaken
      BY <1>5, <2>2, <3>2 DEF Due, HourlyWindow
    <3>3. CASE ~DueHourly(getHours(now)) /\ ~Mistaken
      <4>1. TickedInHour
        BY <3>3 DEF RollupInv, FlagKnown, DueHourly, Mistaken, TickedInHour
      <4>2. Due("hourly", t, h)
        BY <1>3, <2>2, <4>1 DEF RollupInv, HoursDue
      <4>3. QED
        BY <1>16, <4>2
    <3>4. QED
      BY <3>1, <3>2, <3>3
  <2>3. QED
    BY <1>6, <1>16, <2>1, <2>2 DEF RollupInv, HoursDue
<1>19. QED
  BY <1>10, <1>11, <1>12, <1>14, <1>15, <1>17, <1>18 DEF RollupInv
-----------------------------------------------------------------------------
LEMMA TogetherIs ==
  ASSUME NEW f, NEW S PROVE \A x : x \in Together(f, S) <=> \E w \in S : x \in f[w]
BY DEF Together

\* The window before now is the last one of its hour when that hour has been rolled up.
LEMMA LastOfHour ==
  ASSUME NEW w \in Window, HourOf(w) < HourOf(w + 1)
  PROVE  w = Max(WindowsOf(HourOf(w)))
<1>1. w \in WindowsOf(HourOf(w))
  BY DEF WindowsOf
<1>2. ASSUME NEW v \in WindowsOf(HourOf(w)) PROVE w >= v
  <2>1. v \in Nat /\ w \in Nat /\ HourOf(v) = HourOf(w)
    BY RollupConstants DEF WindowsOf
  <2>2. w + 1 <= v => HourOf(w + 1) <= HourOf(v)
    BY <2>1, HourFacts
  <2>3. HourOf(w) \in Nat /\ HourOf(w + 1) \in Nat
    BY <2>1, HourFacts
  <2>4. QED
    BY <2>1, <2>2, <2>3
<1>3. ASSUME NEW x \in WindowsOf(HourOf(w)), \A v \in WindowsOf(HourOf(w)) : x >= v PROVE x = w
  BY <1>1, <1>2, <1>3, RollupConstants DEF WindowsOf
<1>4. QED
  BY <1>1, <1>2, <1>3 DEF Max

LEMMA FiveMinStatementKeeps == ASSUME RollupInv, FiveMinStatement PROVE RollupInv'
<1> DEFINE t == fiveJob.at
           w == fiveJob.of
<1>1. /\ now \in Nat /\ now \in Window /\ fiveJob \in Jobs /\ raw \in SampleIds
      /\ five \in SampleIds /\ Len(Tables) \in Nat /\ T = 1..Len(Tables)
      /\ Window \subseteq Nat /\ Hour \subseteq Nat
  BY RollupConstants, HourIsNat DEF RollupInv, RollupTypes
<1>2. /\ Busy(fiveJob) /\ ticked /\ now >= 1
      /\ t \in T /\ w = now - 1 /\ w \in Window /\ t \in Nat /\ t <= Len(Tables)
  <2>1. Busy(fiveJob) /\ ticked /\ now >= 1 /\ w = now - 1 /\ t >= 1
    BY DEF FiveMinStatement, RollupInv, JobsOfNow
  <2>2. t \in Nat /\ t <= Len(Tables)
    BY <1>1, <2>1 DEF Jobs, Busy
  <2>3. w \in Window
    BY <1>1, <2>1, RollupConstants DEF Window
  <2>4. QED
    BY <1>1, <2>1, <2>2, <2>3
<1>3. /\ five' = [five EXCEPT ![t][w] = UnlessThere(@, raw[t][w])]
      /\ ran' = ran \cup {Roll("5min", t, w)}
      /\ raced' = IF Roll("hourly", t, HourOf(w)) \in ran /\ raw[t][w] # {}
                  THEN raced \cup {<<t, w>>} ELSE raced
      /\ fiveJob' = [fiveJob EXCEPT !.at = @ + 1]
  BY DEF FiveMinStatement, Advance
<1>4. /\ now' = now /\ ticked' = ticked /\ lastHourlyRun' = lastHourlyRun /\ hourJob' = hourJob
      /\ inFlight' = inFlight /\ raw' = raw /\ hourly' = hourly /\ taken' = taken
      /\ lastTick' = lastTick /\ excused' = excused /\ late' = late
  BY DEF FiveMinStatement
<1>5. fiveJob' \in Jobs /\ fiveJob'.of = w /\ fiveJob'.at = t + 1
  BY <1>1, <1>3 DEF Jobs
<1>6. Roll("5min", t, w) \notin ran
  BY <1>2 DEF RollupInv, RanBehind
<1>7. five[t][w] = {} /\ late[t][w] = {}
  BY <1>2, <1>6 DEF RollupInv, FiveExact, NothingEarly
<1>8. /\ five' \in SampleIds
      /\ \A u \in T, v \in Window :
            five'[u][v] = IF u = t /\ v = w THEN raw[t][w] ELSE five[u][v]
  <2>1. five' = [five EXCEPT ![t][w] = raw[t][w]]
    BY <1>3, <1>7 DEF UnlessThere
  <2>2. QED
    BY <1>1, <1>2, <2>1 DEF SampleIds
<1>9. \A u, v : Roll("5min", u, v) \in ran' <=> Roll("5min", u, v) \in ran \/ (u = t /\ v = w)
  BY <1>3, RollIsInjective
<1>10. \A u, v : Roll("hourly", u, v) \in ran' <=> Roll("hourly", u, v) \in ran
  BY <1>3, RollIsInjective
<1>11. \A level, u, of : Due(level, u, of) => Due(level, u, of)'
  BY <1>3, <1>4 DEF Due
<1> HIDE DEF t, w
<1>12. RollupTypes'
  BY <1>4, <1>5, <1>8 DEF RollupInv, RollupTypes
<1>13. SamplesApart'
  BY <1>4 DEF RollupInv, SamplesApart
<1>14. (FlagKnown /\ NothingEarly)'
  BY <1>4, <1>9, <1>10 DEF RollupInv, FlagKnown, NothingEarly
<1>15. JobsOfNow'
  BY <1>2, <1>4, <1>5 DEF RollupInv, JobsOfNow, Busy
<1>16. RanBehind'
  <2>1. ASSUME NEW u \in T, NEW v \in Window, Roll("5min", u, v) \in ran'
        PROVE  v < now /\ (v = now - 1 => u < t + 1)
    <3>1. CASE u = t /\ v = w
      BY <1>1, <1>2, <3>1
    <3>2. CASE Roll("5min", u, v) \in ran
      <4>1. v < now /\ (v = now - 1 => u < t)
        BY <1>2, <3>2 DEF RollupInv, RanBehind, t
      <4>2. QED
        BY <1>1, <1>2, <4>1
    <3>3. QED
      BY <1>9, <2>1, <3>1, <3>2
  <2>2. \A u \in T, h \in Hour : Roll("hourly", u, h) \in ran' => h < HourOf(now)
    BY <1>10 DEF RollupInv, RanBehind
  <2>3. QED
    BY <1>2, <1>4, <1>5, <2>1, <2>2 DEF RanBehind
<1>17. WindowsDue'
  <2>1. ASSUME NEW u \in T, NEW v \in Window, v = now - 1
        PROVE  Due("5min", u, v)' \/ (Busy(fiveJob)' /\ u >= fiveJob'.at)
    <3>1. CASE Due("5min", u, v)
      BY <1>11, <3>1
    <3>2. CASE u = t
      BY <1>2, <1>9, <2>1, <3>2 DEF Due
    <3>3. CASE u >= t /\ u # t
      BY <1>1, <1>2, <1>4, <1>5, <3>3 DEF Busy
    <3>4. QED
      BY <1>2, <2>1, <3>1, <3>2, <3>3 DEF RollupInv, WindowsDue, t
  <2>2. QED
    BY <1>4, <1>11, <2>1 DEF RollupInv, WindowsDue
<1>18. HoursDue'
  BY <1>4, <1>11 DEF RollupInv, HoursDue, TickedInHour, Busy
<1>19. FiveExact'
  <2>1. ASSUME NEW u \in T, NEW v \in Window
        PROVE  five'[u][v] = IF Roll("5min", u, v) \in ran' THEN raw[u][v] \ late[u][v] ELSE {}
    <3>1. CASE u = t /\ v = w
      BY <1>7, <1>8, <1>9, <2>1, <3>1
    <3>2. CASE ~(u = t /\ v = w)
      BY <1>8, <1>9, <2>1, <3>2 DEF RollupInv, FiveExact
    <3>3. QED
      BY <3>1, <3>2
  <2>2. QED
    BY <1>4, <2>1 DEF FiveExact
<1>20. \A u \in T, v \in Window : <<u, v>> \in raced' <=>
          \/ <<u, v>> \in raced
          \/ u = t /\ v = w /\ Roll("hourly", t, HourOf(w)) \in ran /\ raw[t][w] # {}
  BY <1>3
<1>21. RacedIsLast'
  <2>1. ASSUME Roll("hourly", t, HourOf(w)) \in ran PROVE w = Max(WindowsOf(HourOf(w)))
    <3>1. HourOf(w) < HourOf(w + 1)
      <4>1. HourOf(w) < HourOf(now)
        BY <1>2, <2>1, HourIsNat DEF RollupInv, RanBehind
      <4>2. w + 1 = now
        BY <1>1, <1>2
      <4>3. QED
        BY <4>1, <4>2
    <3>2. QED
      BY <1>2, <3>1, LastOfHour
  <2>2. QED
    BY <1>20, <2>1 DEF RollupInv, RacedIsLast
<1>22. HourExact'
  <2>1. SUFFICES ASSUME NEW u \in T, NEW h \in Hour, Roll("hourly", u, h) \in ran
                 PROVE  Together(five'[u], {v \in WindowsOf(h) : <<u, v>> \notin raced'})
                        = Together(five[u], {v \in WindowsOf(h) : <<u, v>> \notin raced})
    BY <1>4, <1>10 DEF RollupInv, HourExact
  <2>2. ASSUME NEW v \in WindowsOf(h), NEW x
        PROVE  <<u, v>> \notin raced' /\ x \in five'[u][v] <=> <<u, v>> \notin raced /\ x \in five[u][v]
    <3>1. v \in Window /\ HourOf(v) = h
      BY DEF WindowsOf
    <3>2. CASE u = t /\ v = w
      BY <1>2, <1>7, <1>8, <1>20, <2>1, <3>1, <3>2
    <3>3. CASE ~(u = t /\ v = w)
      BY <1>8, <1>20, <3>1, <3>3
    <3>4. QED
      BY <3>2, <3>3
  <2>3. \A x : x \in Together(five'[u], {v \in WindowsOf(h) : <<u, v>> \notin raced'})
               <=> x \in Together(five[u], {v \in WindowsOf(h) : <<u, v>> \notin raced})
    <3> DEFINE A == {v \in WindowsOf(h) : <<u, v>> \notin raced'}
               B == {v \in WindowsOf(h) : <<u, v>> \notin raced}
    <3>1. \A x : (\E v \in A : x \in five'[u][v]) <=> (\E v \in B : x \in five[u][v])
      BY <2>2
    <3> HIDE DEF A, B
    <3>2. \A x : x \in Together(five'[u], A) <=> x \in Together(five[u], B)
      BY <3>1, TogetherIs
    <3>3. QED
      BY <3>2 DEF A, B
  <2>4. QED
    BY <2>3
<1>23. QED
  BY <1>12, <1>13, <1>14, <1>15, <1>16, <1>17, <1>18, <1>19, <1>21, <1>22 DEF RollupInv

LEMMA HourlyStatementKeeps == ASSUME RollupInv, HourlyStatement PROVE RollupInv'
<1> DEFINE t == hourJob.at
           k == hourJob.of
<1>1. /\ hourJob \in Jobs /\ five \in SampleIds /\ hourly \in [T -> [Hour -> SUBSET Nat]]
      /\ Len(Tables) \in Nat /\ T = 1..Len(Tables) /\ now \in Nat /\ HourOf(now) \in Nat
      /\ Hour \subseteq Nat
  BY RollupConstants, HourFacts, HourIsNat DEF RollupInv, RollupTypes
<1>2. /\ Busy(hourJob) /\ ticked /\ t \in T /\ k = HourOf(now) - 1 /\ k \in Hour
      /\ t \in Nat /\ t <= Len(Tables)
  <2>1. Busy(hourJob) /\ ticked /\ k = HourOf(now) - 1 /\ k \in Hour /\ t >= 1
    BY DEF HourlyStatement, RollupInv, JobsOfNow
  <2>2. t \in Nat /\ t <= Len(Tables)
    BY <1>1, <2>1 DEF Jobs, Busy
  <2>3. QED
    BY <1>1, <2>1, <2>2
<1>3. /\ hourly' = [hourly EXCEPT ![t][k] = UnlessThere(@, Together(five[t], WindowsOf(k)))]
      /\ ran' = ran \cup {Roll("hourly", t, k)}
      /\ raced' = IF hourly[t][k] = {} THEN raced \ ({t} \X WindowsOf(k)) ELSE raced
      /\ hourJob' = [hourJob EXCEPT !.at = @ + 1]
  BY DEF HourlyStatement, Advance
<1>4. /\ now' = now /\ ticked' = ticked /\ lastHourlyRun' = lastHourlyRun /\ fiveJob' = fiveJob
      /\ inFlight' = inFlight /\ raw' = raw /\ five' = five /\ taken' = taken
      /\ lastTick' = lastTick /\ excused' = excused /\ late' = late
  BY DEF HourlyStatement
<1>5. hourJob' \in Jobs /\ hourJob'.of = k /\ hourJob'.at = t + 1
  BY <1>1, <1>3 DEF Jobs
<1>6. Together(five[t], WindowsOf(k)) \in SUBSET Nat
  BY <1>1, <1>2 DEF Together, SampleIds, WindowsOf
<1>7. /\ hourly' \in [T -> [Hour -> SUBSET Nat]]
      /\ \A u \in T, h \in Hour :
            hourly'[u][h] = IF u = t /\ h = k /\ hourly[t][k] = {}
                            THEN Together(five[t], WindowsOf(k)) ELSE hourly[u][h]
  <2> DEFINE new == UnlessThere(hourly[t][k], Together(five[t], WindowsOf(k)))
  <2>1. hourly' = [hourly EXCEPT ![t][k] = new]
    BY <1>3
  <2>2. new \in SUBSET Nat
    BY <1>1, <1>2, <1>6 DEF UnlessThere
  <2>3. new = IF hourly[t][k] = {} THEN Together(five[t], WindowsOf(k)) ELSE hourly[t][k]
    BY DEF UnlessThere
  <2> HIDE DEF new
  <2>4. /\ hourly' \in [T -> [Hour -> SUBSET Nat]]
        /\ \A u \in T, h \in Hour : hourly'[u][h] = IF u = t /\ h = k THEN new ELSE hourly[u][h]
    BY <1>1, <1>2, <2>1, <2>2
  <2>5. QED
    BY <2>3, <2>4
<1>8. \A u, v : Roll("hourly", u, v) \in ran' <=> Roll("hourly", u, v) \in ran \/ (u = t /\ v = k)
  BY <1>3, RollIsInjective
<1>9. \A u, v : Roll("5min", u, v) \in ran' <=> Roll("5min", u, v) \in ran
  BY <1>3, RollIsInjective
<1>10. \A level, u, of : Due(level, u, of) => Due(level, u, of)'
  BY <1>3, <1>4 DEF Due
<1>11. \A u, v : <<u, v>> \in raced' <=>
          <<u, v>> \in raced /\ ~(hourly[t][k] = {} /\ u = t /\ v \in WindowsOf(k))
  BY <1>3
<1> HIDE DEF t, k
<1>12. RollupTypes'
  BY <1>4, <1>5, <1>7 DEF RollupInv, RollupTypes
<1>13. SamplesApart'
  BY <1>4 DEF RollupInv, SamplesApart
<1>14. (FlagKnown /\ FiveExact)'
  BY <1>4, <1>9 DEF RollupInv, FlagKnown, FiveExact
<1>15. NothingEarly'
  BY <1>4, <1>7, <1>8, <1>9 DEF RollupInv, NothingEarly
<1>16. JobsOfNow'
  BY <1>2, <1>4, <1>5 DEF RollupInv, JobsOfNow, Busy
<1>17. RanBehind'
  <2>1. k < HourOf(now)
    BY <1>1, <1>2
  <2>2. \A u \in T, h \in Hour : Roll("hourly", u, h) \in ran' => h < HourOf(now)
    BY <1>8, <2>1 DEF RollupInv, RanBehind
  <2>3. QED
    BY <1>4, <1>9, <2>2 DEF RollupInv, RanBehind, Busy
<1>18. WindowsDue'
  BY <1>4, <1>10 DEF RollupInv, WindowsDue, Busy
<1>19. HoursDue'
  <2>1. ASSUME NEW u \in T, NEW h \in Hour, h = HourOf(now) - 1, TickedInHour
        PROVE  Due("hourly", u, h)' \/ (Busy(hourJob)' /\ u >= hourJob'.at)
    <3>1. CASE Due("hourly", u, h)
      BY <1>10, <3>1
    <3>2. CASE u = t
      BY <1>2, <1>8, <2>1, <3>2 DEF Due
    <3>3. CASE u >= t /\ u # t
      BY <1>1, <1>2, <1>4, <1>5, <3>3 DEF Busy
    <3>4. QED
      BY <1>2, <2>1, <3>1, <3>2, <3>3 DEF RollupInv, HoursDue, t
  <2>2. TickedInHour' <=> TickedInHour
    BY <1>4 DEF TickedInHour
  <2>3. QED
    BY <1>4, <1>10, <2>1, <2>2 DEF RollupInv, HoursDue
<1>20. RacedIsLast'
  BY <1>11 DEF RollupInv, RacedIsLast
<1>21. HourExact'
  <2>1. SUFFICES ASSUME NEW u \in T, NEW h \in Hour, Roll("hourly", u, h) \in ran'
                 PROVE  hourly'[u][h] =
                        Together(five[u], {v \in WindowsOf(h) : <<u, v>> \notin raced'})
    BY <1>4 DEF HourExact
  <2>2. CASE u = t /\ h = k /\ hourly[t][k] = {}
    <3>1. {v \in WindowsOf(h) : <<u, v>> \notin raced'} = WindowsOf(h)
      BY <1>11, <2>2
    <3>2. QED
      BY <1>7, <2>2, <3>1
  <2>3. CASE ~(u = t /\ h = k /\ hourly[t][k] = {})
    <3>1. Roll("hourly", u, h) \in ran
      BY <1>8, <2>1, <2>3 DEF RollupInv, NothingEarly
    <3>2. \A v \in WindowsOf(h) : <<u, v>> \in raced' <=> <<u, v>> \in raced
      BY <1>11, <2>3 DEF WindowsOf
    <3>3. {v \in WindowsOf(h) : <<u, v>> \notin raced'} = {v \in WindowsOf(h) : <<u, v>> \notin raced}
      BY <3>2
    <3>4. hourly'[u][h] = hourly[u][h]
      BY <1>7, <2>3
    <3>5. QED
      BY <3>1, <3>3, <3>4 DEF RollupInv, HourExact
  <2>4. QED
    BY <2>2, <2>3
<1>22. QED
  BY <1>12, <1>13, <1>14, <1>15, <1>16, <1>17, <1>18, <1>19, <1>20, <1>21 DEF RollupInv

LEMMA StatementFailsKeeps == ASSUME RollupInv, StatementFails PROVE RollupInv'
<1>1. /\ fiveJob \in Jobs /\ hourJob \in Jobs
      /\ Len(Tables) \in Nat /\ T = 1..Len(Tables) /\ now \in Nat
  BY RollupConstants DEF RollupInv, RollupTypes
<1>2. /\ now' = now /\ ticked' = ticked /\ lastHourlyRun' = lastHourlyRun
      /\ inFlight' = inFlight /\ raw' = raw /\ five' = five /\ hourly' = hourly /\ taken' = taken
      /\ lastTick' = lastTick /\ ran' = ran /\ late' = late /\ raced' = raced
  BY DEF StatementFails, rows
<1>3. \/ /\ Busy(fiveJob) /\ fiveJob' = [fiveJob EXCEPT !.at = @ + 1] /\ hourJob' = hourJob
         /\ excused' = excused \cup {Roll("5min", fiveJob.at, fiveJob.of)}
      \/ /\ Busy(hourJob) /\ hourJob' = [hourJob EXCEPT !.at = @ + 1] /\ fiveJob' = fiveJob
         /\ excused' = excused \cup {Roll("hourly", hourJob.at, hourJob.of)}
  BY DEF StatementFails, Advance
<1>4. \/ fiveJob' = fiveJob
      \/ /\ Busy(fiveJob) /\ fiveJob'.of = fiveJob.of /\ fiveJob'.at = fiveJob.at + 1
         /\ fiveJob' \in Jobs /\ Roll("5min", fiveJob.at, fiveJob.of) \in excused'
  BY <1>1, <1>3 DEF Jobs
<1>5. \/ hourJob' = hourJob
      \/ /\ Busy(hourJob) /\ hourJob'.of = hourJob.of /\ hourJob'.at = hourJob.at + 1
         /\ hourJob' \in Jobs /\ Roll("hourly", hourJob.at, hourJob.of) \in excused'
  BY <1>1, <1>3 DEF Jobs
<1>6. /\ Busy(fiveJob)' => Busy(fiveJob) /\ (fiveJob'.at = fiveJob.at \/ fiveJob'.at = fiveJob.at + 1)
      /\ Busy(hourJob)' => Busy(hourJob) /\ (hourJob'.at = hourJob.at \/ hourJob'.at = hourJob.at + 1)
      /\ fiveJob.at \in Nat /\ hourJob.at \in Nat /\ fiveJob'.of = fiveJob.of /\ hourJob'.of = hourJob.of
  BY <1>1, <1>4, <1>5 DEF Busy, Jobs
<1>7. \A level, u, of : Due(level, u, of) => Due(level, u, of)'
  BY <1>2, <1>3 DEF Due
<1>8. RollupTypes'
  BY <1>2, <1>4, <1>5 DEF RollupInv, RollupTypes
<1>9. SamplesApart'
  BY <1>2 DEF RollupInv, SamplesApart
<1>10. (FlagKnown /\ NothingEarly /\ FiveExact /\ RacedIsLast /\ HourExact)'
  BY <1>2 DEF RollupInv, FlagKnown, NothingEarly, FiveExact, RacedIsLast, HourExact
<1>11. JobsOfNow'
  BY <1>2, <1>6 DEF RollupInv, JobsOfNow
<1>12. RanBehind'
  <2>1. ASSUME NEW t \in T, NEW w \in Window, Roll("5min", t, w) \in ran, w = now - 1, Busy(fiveJob)'
        PROVE  t < fiveJob'.at
    <3>1. t < fiveJob.at
      BY <1>6, <2>1 DEF RollupInv, RanBehind
    <3>2. QED
      BY <1>1, <1>6, <2>1, <3>1
  <2>2. QED
    BY <1>2, <2>1 DEF RollupInv, RanBehind
<1>13. WindowsDue'
  <2>1. ASSUME NEW t \in T, NEW w \in Window, w = now - 1, ticked
        PROVE  Due("5min", t, w)' \/ (Busy(fiveJob)' /\ t >= fiveJob'.at)
    <3>1. CASE Due("5min", t, w)
      BY <1>7, <3>1
    <3>2. CASE fiveJob' = fiveJob
      BY <1>7, <2>1, <3>2 DEF RollupInv, WindowsDue, Busy
    <3>3. CASE /\ Busy(fiveJob) /\ fiveJob'.of = fiveJob.of /\ fiveJob'.at = fiveJob.at + 1
               /\ Roll("5min", fiveJob.at, fiveJob.of) \in excused'
      <4>1. fiveJob.of = w
        BY <2>1, <3>3 DEF RollupInv, JobsOfNow
      <4>2. CASE t = fiveJob.at
        BY <3>3, <4>1, <4>2 DEF Due
      <4>3. CASE t >= fiveJob.at /\ t # fiveJob.at
        BY <1>1, <1>6, <3>3, <4>3 DEF Busy
      <4>4. QED
        BY <1>7, <2>1, <4>2, <4>3 DEF RollupInv, WindowsDue
    <3>4. QED
      BY <1>4, <3>1, <3>2, <3>3
  <2>2. QED
    BY <1>2, <1>7, <2>1 DEF RollupInv, WindowsDue
<1>14. HoursDue'
  <2>1. ASSUME NEW t \in T, NEW h \in Hour, h = HourOf(now) - 1, TickedInHour
        PROVE  Due("hourly", t, h)' \/ (Busy(hourJob)' /\ t >= hourJob'.at)
    <3>1. CASE Due("hourly", t, h)
      BY <1>7, <3>1
    <3>2. CASE hourJob' = hourJob
      BY <1>7, <2>1, <3>2 DEF RollupInv, HoursDue, Busy
    <3>3. CASE /\ Busy(hourJob) /\ hourJob'.of = hourJob.of /\ hourJob'.at = hourJob.at + 1
               /\ Roll("hourly", hourJob.at, hourJob.of) \in excused'
      <4>1. hourJob.of = h
        BY <2>1, <3>3 DEF RollupInv, JobsOfNow
      <4>2. CASE t = hourJob.at
        BY <3>3, <4>1, <4>2 DEF Due
      <4>3. CASE t >= hourJob.at /\ t # hourJob.at
        BY <1>1, <1>6, <3>3, <4>3 DEF Busy
      <4>4. QED
        BY <1>7, <2>1, <4>2, <4>3 DEF RollupInv, HoursDue
    <3>4. QED
      BY <1>5, <3>1, <3>2, <3>3
  <2>2. TickedInHour' <=> TickedInHour
    BY <1>2 DEF TickedInHour
  <2>3. QED
    BY <1>2, <1>7, <2>1, <2>2 DEF RollupInv, HoursDue
<1>15. QED
  BY <1>8, <1>9, <1>10, <1>11, <1>12, <1>13, <1>14 DEF RollupInv

LEMMA RestartKeeps == ASSUME RollupInv, Restart PROVE RollupInv'
<1>1. Len(Tables) \in Nat /\ T = 1..Len(Tables) /\ now \in Nat /\ NoJob \in Jobs /\ ~Busy(NoJob)
  BY RollupConstants DEF RollupInv, RollupTypes, NoJob, Jobs, Busy
<1>2. /\ ticked' = TRUE /\ lastTick' = None /\ lastHourlyRun' = 0
      /\ inFlight' = {} /\ fiveJob' = NoJob /\ hourJob' = NoJob
      /\ excused' = excused \cup Rest("5min", fiveJob) \cup Rest("hourly", hourJob)
                    \cup MissedBy(~ticked, HourOf(now + 1) # HourOf(now))
      /\ now' = now /\ raw' = raw /\ five' = five /\ hourly' = hourly /\ taken' = taken
      /\ ran' = ran /\ late' = late /\ raced' = raced
  BY DEF Restart, rows
<1>3. ~Busy(fiveJob)' /\ ~Busy(hourJob)'
  BY <1>1, <1>2 DEF Busy
<1>4. \A level, u, of : Due(level, u, of) => Due(level, u, of)'
  BY <1>2 DEF Due
<1>5. RollupTypes'
  BY <1>1, <1>2 DEF RollupInv, RollupTypes
<1>6. SamplesApart'
  BY <1>2 DEF RollupInv, SamplesApart
<1>7. (NothingEarly /\ FiveExact /\ RacedIsLast /\ HourExact)'
  BY <1>2 DEF RollupInv, NothingEarly, FiveExact, RacedIsLast, HourExact
<1>8. (JobsOfNow /\ FlagKnown)'
  BY <1>2, <1>3 DEF JobsOfNow, FlagKnown
<1>9. RanBehind'
  BY <1>2, <1>3 DEF RollupInv, RanBehind
<1>10. WindowsDue'
  <2>1. ASSUME NEW t \in T, NEW w \in Window, w = now - 1 PROVE Due("5min", t, w)'
    <3>1. CASE ~ticked
      BY <1>2, <2>1, <3>1, MissedFacts DEF Due
    <3>2. CASE ticked /\ Due("5min", t, w)
      BY <1>4, <3>2
    <3>3. CASE ticked /\ Busy(fiveJob) /\ t >= fiveJob.at
      <4>1. fiveJob.of = w /\ fiveJob.at \in Nat
        BY <2>1, <3>3 DEF RollupInv, JobsOfNow, RollupTypes, Jobs
      <4>2. t \in fiveJob.at..Len(Tables)
        BY <1>1, <3>3, <4>1
      <4>3. Roll("5min", t, w) \in Rest("5min", fiveJob)
        BY <4>1, <4>2 DEF Rest
      <4>4. QED
        BY <1>2, <4>3 DEF Due
    <3>4. QED
      BY <2>1, <3>1, <3>2, <3>3 DEF RollupInv, WindowsDue
  <2>2. QED
    BY <1>2, <1>4, <2>1 DEF RollupInv, WindowsDue
<1>11. HoursDue'
  <2>1. ASSUME NEW t \in T, NEW h \in Hour, h = HourOf(now) - 1, HourOf(now + 1) # HourOf(now)
        PROVE  Due("hourly", t, h)'
    BY <1>2, <2>1, MissedFacts DEF Due
  <2>2. ~TickedInHour'
    BY <1>2 DEF TickedInHour
  <2>3. QED
    BY <1>2, <1>4, <2>1, <2>2 DEF RollupInv, HoursDue
<1>12. QED
  BY <1>5, <1>6, <1>7, <1>8, <1>9, <1>10, <1>11 DEF RollupInv

LEMMA RollupNextKeeps == RollupInv /\ [RollupNext]_rollupVars => RollupInv'
<1> SUFFICES ASSUME RollupInv, [RollupNext]_rollupVars PROVE RollupInv'
  OBVIOUS
<1>1. ASSUME NEW t \in T, Sample(t) PROVE RollupInv'
  BY <1>1, SampleKeeps
<1>2. ASSUME NEW s \in inFlight, Store(s) PROVE RollupInv'
  BY <1>2, StoreKeeps
<1>3. CASE Pass
  BY <1>3, PassKeeps
<1>4. CASE Tick
  BY <1>4, TickKeeps
<1>5. CASE FiveMinStatement
  BY <1>5, FiveMinStatementKeeps
<1>6. CASE HourlyStatement
  BY <1>6, HourlyStatementKeeps
<1>7. CASE StatementFails
  BY <1>7, StatementFailsKeeps
<1>8. CASE Restart
  BY <1>8, RestartKeeps
<1>9. CASE UNCHANGED rollupVars
  <2>1. /\ now' = now /\ ticked' = ticked /\ lastHourlyRun' = lastHourlyRun /\ fiveJob' = fiveJob
        /\ hourJob' = hourJob /\ inFlight' = inFlight /\ taken' = taken
        /\ raw' = raw /\ five' = five /\ hourly' = hourly
        /\ lastTick' = lastTick /\ ran' = ran /\ excused' = excused /\ late' = late /\ raced' = raced
    BY <1>9 DEF rollupVars, rows, books
  <2>2. (RollupTypes /\ JobsOfNow /\ FlagKnown /\ RanBehind)'
    BY <2>1 DEF RollupInv, RollupTypes, JobsOfNow, FlagKnown, RanBehind, Busy
  <2>3. SamplesApart'
    BY <2>1 DEF RollupInv, SamplesApart
  <2>4. (WindowsDue /\ HoursDue)'
    BY <2>1 DEF RollupInv, WindowsDue, HoursDue, TickedInHour, Due, Busy
  <2>5. (NothingEarly /\ FiveExact /\ RacedIsLast /\ HourExact)'
    BY <2>1 DEF RollupInv, NothingEarly, FiveExact, RacedIsLast, HourExact
  <2>6. QED
    BY <2>2, <2>3, <2>4, <2>5 DEF RollupInv
<1>10. QED
  BY <1>1, <1>2, <1>3, <1>4, <1>5, <1>6, <1>7, <1>8, <1>9 DEF RollupNext

LEMMA RollupFollows == RollupInv => RollupsAccountFor
BY DEF RollupInv, WindowsDue, HoursDue, FiveExact, RacedIsLast, HourExact, RollupsAccountFor

(* No window and no hour is left out without a named reason or rolled up   *)
(* twice, and every row holds exactly the samples that were stored before  *)
(* its statement, for any metrics, hours of any length and any order of    *)
(* samples, ticks, failing statements and restarts (jobs/aggregator.ts).   *)
THEOREM RollupsAreExact == RollupSpec => []RollupsAccountFor
BY RollupInitially, RollupNextKeeps, RollupFollows, PTL DEF RollupSpec
-----------------------------------------------------------------------------
(* Retention: the row that is followed, and what creations and drops left. *)

Stage == {"idle", "create", "created", "drop"}

RetentionTypes ==
    /\ clock \in 0..LastMoment /\ table \in Table /\ partitions \in SUBSET Nat
    /\ row \in Nat \cup {NoRow} /\ row <= clock /\ present \in BOOLEAN
    /\ lastCreate \in Nat \cup {Never} /\ lastDrop \in 0..clock
    /\ runs \in [1..MaxRuns -> [stage : Stage, at : 0..clock]]

\* The row is in a partition, or its partition was dropped when it was old.
RowKept ==
    IF present THEN row # NoRow /\ PartitionFor(row) \in partitions
    ELSE row # NoRow => Expired(PartitionFor(row), clock)

\* What the last creation looked at is there until it is old.
CreatedAhead == \A p \in Looked : Expired(p, clock) \/ p \in partitions

\* A row of what was old at the last drop is gone, unless it was stored later.
DroppedBehind == present /\ row + MaxLag < lastDrop => ~Expired(PartitionFor(row), lastDrop)

RetentionInv == RetentionTypes /\ RowKept /\ CreatedAhead /\ DroppedBehind
-----------------------------------------------------------------------------
LEMMA RetentionConstants ==
    /\ PerDay \in Nat \ {0} /\ RawDays \in Nat \ {0} /\ MaxLag \in Nat /\ MaxRuns \in Nat
    /\ LastMoment \in Nat /\ DaysAhead \in Nat
    /\ Kept \in [Table -> Nat \ {0}] /\ Kept["raw"] = RawDays
BY RetentionBounds DEF Kept, Table

LEMMA BeginsAdd == ASSUME NEW a \in Nat, NEW b \in Nat PROVE Begins(a + b) = Begins(a) + Begins(b)
BY RetentionConstants DEF Begins

LEMMA BeginsGrow ==
  ASSUME NEW a \in Nat, NEW b \in Nat, a <= b
  PROVE  Begins(a) \in Nat /\ Begins(a) <= Begins(b)
BY RetentionConstants DEF Begins

\* A moment is within its day.
LEMMA DayFacts ==
  ASSUME NEW t \in Nat
  PROVE  /\ DayOf(t) \in Nat /\ Begins(DayOf(t)) \in Nat
         /\ Begins(DayOf(t)) <= t /\ t < Begins(DayOf(t) + 1)
         /\ Begins(DayOf(t) + 1) = Begins(DayOf(t)) + PerDay
<1>1. PerDay \in Nat \ {0}
  BY RetentionConstants
<1>2. DayOf(t) \in Nat
  BY <1>1 DEF DayOf
<1>3. Begins(DayOf(t)) \in Nat
  BY <1>2, BeginsGrow
<1>4. Begins(DayOf(t) + 1) = Begins(DayOf(t)) + PerDay
  BY <1>1, <1>2 DEF Begins
<1>5. Begins(DayOf(t)) <= t /\ t < Begins(DayOf(t)) + PerDay
  BY <1>1 DEF Begins, DayOf
<1>6. QED
  BY <1>2, <1>3, <1>4, <1>5

\* The month of a day is the last first day that is not after it.
LEMMA MonthFacts ==
  ASSUME NEW d \in Nat
  PROVE  MonthOf(d) \in FirstDays /\ MonthOf(d) \in Nat /\ MonthOf(d) <= d
<1> DEFINE M == {m \in FirstDays : m <= d}
<1>1. FirstDays \subseteq Nat /\ 0 \in FirstDays
  BY RetentionBounds
<1>2. M \in SUBSET Nat /\ M # {} /\ \A m \in M : m <= d
  <2>1. 0 \in M
    BY <1>1
  <2>2. QED
    BY <1>1, <2>1
<1>3. Max(M) \in M
  <2> HIDE DEF M
  <2>1. QED
    BY <1>2, GreatestOf
<1>4. QED
  BY <1>1, <1>3 DEF MonthOf

LEMMA PartitionFacts ==
  ASSUME NEW t \in Nat
  PROVE  PartitionFor(t) \in Nat
         /\ (PartitionFor(t) = DayOf(t) \/ PartitionFor(t) = MonthOf(DayOf(t)))
BY DayFacts, MonthFacts DEF PartitionFor

LEMMA MonthsFromFacts == ASSUME NEW d, NEW n PROVE MonthsFrom(d, n) \in SUBSET Nat
BY RetentionBounds DEF MonthsFrom

LEMMA AheadFacts ==
  /\ Migrated \in SUBSET Nat
  /\ \A t \in Nat : Ahead(t) \in SUBSET Nat
<1>1. Migrated \in SUBSET Nat
  BY MonthsFromFacts, RetentionConstants DEF Migrated
<1>2. ASSUME NEW t \in Nat PROVE Ahead(t) \in SUBSET Nat
  <2>1. DayOf(t) \in Nat
    BY DayFacts
  <2>2. QED
    BY <2>1, MonthsFromFacts, RetentionConstants DEF Ahead
<1>3. QED
  BY <1>1, <1>2

LEMMA LaterOf == ASSUME NEW a \in Int, NEW b \in Int PROVE Max({a, b}) \in {a, b}
<1>1. \E x \in {a, b} : \A y \in {a, b} : x >= y
  OBVIOUS
<1>2. QED
  BY <1>1 DEF Max

\* What is old stays old.
LEMMA ExpiredStays ==
  ASSUME NEW p \in Nat, NEW s \in Nat, NEW t \in Nat, s <= t, table \in Table, Expired(p, s)
  PROVE  Expired(p, t)
<1>1. Begins(p) \in Nat /\ Begins(Kept[table]) \in Nat
  BY BeginsGrow, RetentionConstants
<1>2. QED
  BY <1>1 DEF Expired

LEMMA RetentionInitially == RetentionInit => RetentionInv
<1> SUFFICES ASSUME RetentionInit PROVE RetentionInv
  OBVIOUS
<1>1. /\ clock = 0 /\ table \in Table /\ partitions = Migrated /\ present = FALSE
      /\ lastCreate = Never /\ lastDrop = 0 /\ row = NoRow /\ runs = [i \in 1..MaxRuns |-> Idle]
  BY DEF RetentionInit
<1>2. RetentionTypes
  <2>1. partitions \in SUBSET Nat
    BY <1>1, AheadFacts
  <2>2. row \in Nat \cup {NoRow} /\ row <= clock
    BY <1>1 DEF NoRow
  <2>3. clock \in 0..LastMoment /\ lastDrop \in 0..clock
    BY <1>1, RetentionConstants
  <2>4. runs \in [1..MaxRuns -> [stage : Stage, at : 0..clock]]
    BY <1>1 DEF Idle, Stage
  <2>5. QED
    BY <1>1, <2>1, <2>2, <2>3, <2>4 DEF RetentionTypes
<1>3. RowKept /\ CreatedAhead /\ DroppedBehind
  BY <1>1 DEF RowKept, CreatedAhead, DroppedBehind, Looked
<1>4. QED
  BY <1>2, <1>3 DEF RetentionInv

\* The operators of the table depend on nothing that a step changes but the clock.
LEMMA TableStays ==
  ASSUME table' = table
  PROVE  /\ \A t : PartitionFor(t)' = PartitionFor(t) /\ Ahead(t)' = Ahead(t)
         /\ \A p, t : Expired(p, t)' = Expired(p, t)
         /\ Migrated' = Migrated
BY DEF PartitionFor, Ahead, Expired, Migrated, MonthsFrom

\* Time makes partitions old and nothing young.
LEMMA ClockTicksKeeps == ASSUME RetentionInv, ClockTicks PROVE RetentionInv'
<1> USE DEF RetentionInv
<1>1. /\ clock < LastMoment /\ clock' = clock + 1 /\ table' = table /\ partitions' = partitions
      /\ runs' = runs /\ row' = row /\ present' = present
      /\ lastCreate' = lastCreate /\ lastDrop' = lastDrop
  BY DEF ClockTicks
<1>2. clock \in Nat /\ clock' \in Nat /\ clock <= clock' /\ table \in Table
  BY <1>1, RetentionConstants DEF RetentionTypes
<1>3. RetentionTypes'
  <2>1. clock' \in 0..LastMoment /\ row' <= clock' /\ lastDrop' \in 0..clock'
    BY <1>1, RetentionConstants DEF RetentionTypes, NoRow
  <2>2. 0..clock \subseteq 0..clock'
    BY <1>2
  <2>3. runs' \in [1..MaxRuns -> [stage : Stage, at : (0..clock)']]
    BY <1>1, <2>2 DEF RetentionTypes
  <2>4. QED
    BY <1>1, <2>1, <2>3 DEF RetentionTypes
<1>4. RowKept'
  <2>1. row # NoRow => PartitionFor(row) \in Nat
    BY PartitionFacts DEF RetentionTypes
  <2>2. row # NoRow /\ Expired(PartitionFor(row), clock) => Expired(PartitionFor(row), clock')
    BY <1>2, <2>1, ExpiredStays
  <2>3. PartitionFor(row)' = PartitionFor(row)
        /\ Expired(PartitionFor(row), clock)' = Expired(PartitionFor(row), clock')
    BY <1>1 DEF PartitionFor, Expired
  <2>4. QED
    BY <1>1, <2>2, <2>3 DEF RowKept
<1>5. CreatedAhead'
  <2>1. Looked' = Looked /\ Looked \in SUBSET Nat
    BY <1>1, TableStays, AheadFacts DEF Looked, RetentionTypes, Never, Ahead, MonthsFrom
  <2>2. ASSUME NEW p \in Looked, Expired(p, clock) PROVE Expired(p, clock')
    BY <1>2, <2>1, <2>2, ExpiredStays
  <2>3. \A p : Expired(p, clock)' = Expired(p, clock')
    BY <1>1 DEF Expired
  <2>4. QED
    BY <1>1, <2>1, <2>2, <2>3 DEF CreatedAhead
<1>6. DroppedBehind'
  BY <1>1 DEF DroppedBehind, PartitionFor, Expired
<1>7. QED
  BY <1>3, <1>4, <1>5, <1>6

\* A row is stored in a partition, and after every drop.
LEMMA InsertKeeps == ASSUME RetentionInv, Insert PROVE RetentionInv'
<1> USE DEF RetentionInv
<1>1. /\ clock' = clock /\ table' = table /\ partitions' = partitions /\ runs' = runs
      /\ present' = TRUE /\ lastCreate' = lastCreate /\ lastDrop' = lastDrop
  BY DEF Insert
<1>2. /\ row' \in 0..clock /\ clock - row' <= MaxLag /\ PartitionFor(row') \in partitions
  BY DEF Insert
<1>3. RetentionTypes'
  BY <1>1, <1>2 DEF RetentionTypes
<1>4. RowKept'
  BY <1>1, <1>2 DEF RowKept, PartitionFor, NoRow
<1>5. CreatedAhead'
  BY <1>1 DEF CreatedAhead, Looked, Ahead, MonthsFrom, Migrated, Expired
<1>6. DroppedBehind'
  <2>1. clock \in Nat /\ lastDrop \in 0..clock /\ MaxLag \in Nat
    BY RetentionConstants DEF RetentionTypes
  <2>2. ~(row' + MaxLag < lastDrop)
    <3>1. PICK t \in 0..clock : clock - t <= MaxLag /\ row' = t
      BY <1>2
    <3>2. t + MaxLag >= lastDrop
      BY <2>1, <3>1
    <3>3. QED
      BY <2>1, <3>1, <3>2
  <2>3. QED
    BY <1>1, <2>2 DEF DroppedBehind
<1>7. QED
  BY <1>3, <1>4, <1>5, <1>6

\* A stage begins, or a run ends, and no table changes.
LEMMA RunsKeep ==
  ASSUME RetentionInv, UNCHANGED <<clock, table, partitions, row, present, lastCreate, lastDrop>>,
         runs' \in [1..MaxRuns -> [stage : Stage, at : 0..clock]]
  PROVE  RetentionInv'
<1> USE DEF RetentionInv
<1>1. RetentionTypes'
  BY DEF RetentionTypes
<1>2. RowKept' /\ CreatedAhead' /\ DroppedBehind'
  BY DEF RowKept, CreatedAhead, DroppedBehind, Looked, Ahead, MonthsFrom, Migrated, Expired,
         PartitionFor
<1>3. QED
  BY <1>1, <1>2

LEMMA StagesTyped ==
  ASSUME RetentionTypes, NEW i \in 1..MaxRuns
  PROVE  /\ runs[i].at \in 0..clock /\ clock \in Nat
         /\ [runs EXCEPT ![i] = Idle] \in [1..MaxRuns -> [stage : Stage, at : 0..clock]]
         /\ [runs EXCEPT ![i] = Created] \in [1..MaxRuns -> [stage : Stage, at : 0..clock]]
         /\ \A s \in Stage : [runs EXCEPT ![i] = [stage |-> s, at |-> clock]]
                               \in [1..MaxRuns -> [stage : Stage, at : 0..clock]]
<1>1. clock \in Nat /\ runs \in [1..MaxRuns -> [stage : Stage, at : 0..clock]]
  BY RetentionConstants DEF RetentionTypes
<1>2. Idle \in [stage : Stage, at : 0..clock] /\ Created \in [stage : Stage, at : 0..clock]
  BY <1>1 DEF Idle, Created, Stage
<1>3. \A s \in Stage : [stage |-> s, at |-> clock] \in [stage : Stage, at : 0..clock]
  BY <1>1
<1>4. QED
  BY <1>1, <1>2, <1>3

\* A creation adds partitions, and all it looked at when nothing fails.
LEMMA CreateKeeps ==
  ASSUME RetentionInv, NEW i \in 1..MaxRuns, Create(i)
  PROVE  RetentionInv'
<1> USE DEF RetentionInv
<1> DEFINE at == runs[i].at
<1>1. PICK F \in SUBSET (Ahead(at) \ partitions) :
          /\ partitions' = partitions \cup (Ahead(at) \ F)
          /\ lastCreate' = IF F = {} THEN Max({lastCreate, at}) ELSE lastCreate
  BY DEF Create, Failing
<1>2. /\ clock' = clock /\ table' = table /\ row' = row /\ present' = present /\ lastDrop' = lastDrop
      /\ runs' = [runs EXCEPT ![i] = Created]
  BY DEF Create
<1>3. at \in 0..clock /\ clock \in Nat /\ at \in Nat
  BY StagesTyped
<1>4. lastCreate' = lastCreate \/ (lastCreate' = at /\ F = {})
  <2>1. lastCreate \in Int
    BY DEF RetentionTypes, Never
  <2>2. QED
    BY <1>1, <1>3, <2>1, LaterOf
<1>5. RetentionTypes'
  <2>1. partitions' \in SUBSET Nat
    BY <1>1, <1>3, AheadFacts DEF RetentionTypes
  <2>2. lastCreate' \in Nat \cup {Never}
    BY <1>3, <1>4 DEF RetentionTypes
  <2>3. runs' \in [1..MaxRuns -> [stage : Stage, at : 0..clock]]
    BY <1>2, StagesTyped
  <2>4. QED
    BY <1>2, <2>1, <2>2, <2>3 DEF RetentionTypes
<1>6. RowKept'
  BY <1>1, <1>2 DEF RowKept, PartitionFor, Expired
<1>7. CreatedAhead'
  <2>1. CASE lastCreate' = lastCreate
    <3>1. Looked' = Looked
      BY <1>2, <2>1 DEF Looked, Ahead, MonthsFrom, Migrated
    <3>2. QED
      BY <1>1, <1>2, <3>1 DEF CreatedAhead, Expired
  <2>2. CASE lastCreate' = at /\ F = {}
    <3>1. lastCreate' # Never
      BY <1>3, <2>2 DEF Never
    <3>2. Looked' = Ahead(at)
      BY <1>2, <2>2, <3>1 DEF Looked, Ahead, MonthsFrom
    <3>3. QED
      BY <1>1, <2>2, <3>2 DEF CreatedAhead
  <2>3. QED
    BY <1>4, <2>1, <2>2
<1>8. DroppedBehind'
  BY <1>2 DEF DroppedBehind, PartitionFor, Expired
<1>9. QED
  BY <1>5, <1>6, <1>7, <1>8

\* A drop takes what was old when its stage began, which is old still.
LEMMA DropKeeps ==
  ASSUME RetentionInv, NEW i \in 1..MaxRuns, Drop(i)
  PROVE  RetentionInv'
<1> USE DEF RetentionInv
<1> DEFINE at == runs[i].at
           old == {p \in partitions : Expired(p, at)}
<1>1. PICK F \in SUBSET old :
          /\ partitions' = partitions \ (old \ F)
          /\ present' = (present /\ PartitionFor(row) \in partitions')
          /\ lastDrop' = IF F = {} THEN Max({lastDrop, at}) ELSE lastDrop
  BY DEF Drop, Failing
<1>2. /\ clock' = clock /\ table' = table /\ row' = row /\ lastCreate' = lastCreate
      /\ runs' = [runs EXCEPT ![i] = Idle]
  BY DEF Drop, Ends
<1>3. /\ at \in 0..clock /\ at \in Nat /\ at <= clock /\ clock \in Nat
      /\ table \in Table /\ partitions \in SUBSET Nat
  BY StagesTyped DEF RetentionTypes
<1>4. ASSUME NEW p \in partitions, p \notin partitions' PROVE Expired(p, clock)
  <2>1. p \in Nat /\ Expired(p, at)
    BY <1>1, <1>3, <1>4
  <2>2. QED
    BY <1>3, <2>1, ExpiredStays
<1>5. lastDrop' = lastDrop \/ (lastDrop' = at /\ F = {})
  <2>1. lastDrop \in Int
    BY DEF RetentionTypes
  <2>2. QED
    BY <1>1, <1>3, <2>1, LaterOf
<1>6. /\ PartitionFor(row)' = PartitionFor(row) /\ Looked' = Looked
      /\ \A p, t : Expired(p, t)' = Expired(p, t)
  BY <1>2 DEF PartitionFor, Looked, Ahead, MonthsFrom, Migrated, Expired
<1>7. RetentionTypes'
  <2>1. partitions' \in SUBSET Nat /\ present' \in BOOLEAN
    BY <1>1, <1>3
  <2>2. lastDrop' \in 0..clock
    BY <1>3, <1>5 DEF RetentionTypes
  <2>3. runs' \in [1..MaxRuns -> [stage : Stage, at : 0..clock]]
    BY <1>2, StagesTyped
  <2>4. QED
    BY <1>2, <2>1, <2>2, <2>3 DEF RetentionTypes
<1>8. RowKept'
  <2>1. Expired(PartitionFor(row), clock)' = Expired(PartitionFor(row), clock)
    BY <1>2 DEF Expired, PartitionFor
  <2>2. QED
    BY <1>1, <1>2, <1>4, <1>6, <2>1 DEF RowKept
<1>9. CreatedAhead'
  <2>1. \A p : Expired(p, clock)' = Expired(p, clock)
    BY <1>2 DEF Expired
  <2>2. QED
    BY <1>4, <1>6, <2>1 DEF CreatedAhead
<1>10. DroppedBehind'
  <2>1. Expired(PartitionFor(row), lastDrop)' = Expired(PartitionFor(row), lastDrop')
    BY <1>2 DEF Expired, PartitionFor
  <2>2. present' => present /\ PartitionFor(row) \in partitions'
    BY <1>1
  <2>3. CASE lastDrop' = lastDrop
    BY <1>2, <2>1, <2>2, <2>3 DEF DroppedBehind
  <2>4. CASE lastDrop' = at /\ F = {}
    <3>1. present' => ~Expired(PartitionFor(row), at)
      BY <1>1, <2>2, <2>4
    <3>2. QED
      BY <2>1, <2>4, <3>1 DEF DroppedBehind
  <2>5. QED
    BY <1>5, <2>3, <2>4
<1>11. QED
  BY <1>7, <1>8, <1>9, <1>10

LEMMA RetentionNextKeeps == RetentionInv /\ [RetentionNext]_retentionVars => RetentionInv'
<1> SUFFICES ASSUME RetentionInv, [RetentionNext]_retentionVars PROVE RetentionInv'
  OBVIOUS
<1>1. RetentionTypes
  BY DEF RetentionInv
<1>2. CASE ClockTicks
  BY <1>2, ClockTicksKeeps
<1>3. CASE Insert
  BY <1>3, InsertKeeps
<1>4. ASSUME NEW i \in 1..MaxRuns, BeginCreate(i) PROVE RetentionInv'
  BY <1>1, <1>4, StagesTyped, RunsKeep DEF BeginCreate, Enters, Stage
<1>5. ASSUME NEW i \in 1..MaxRuns, Create(i) PROVE RetentionInv'
  BY <1>5, CreateKeeps
<1>6. ASSUME NEW i \in 1..MaxRuns, BeginDrop(i) PROVE RetentionInv'
  BY <1>1, <1>6, StagesTyped, RunsKeep DEF BeginDrop, Enters, Stage
<1>7. ASSUME NEW i \in 1..MaxRuns, Drop(i) PROVE RetentionInv'
  BY <1>7, DropKeeps
<1>8. ASSUME NEW i \in 1..MaxRuns, RunThrows(i) PROVE RetentionInv'
  BY <1>1, <1>8, StagesTyped, RunsKeep DEF RunThrows, Ends
<1>9. CASE UNCHANGED retentionVars
  <2>1. UNCHANGED <<clock, table, partitions, runs, row, present, lastCreate, lastDrop>>
    BY <1>9 DEF retentionVars
  <2>2. QED
    BY <1>1, <2>1, RunsKeep DEF RetentionTypes
<1>10. QED
  BY <1>2, <1>3, <1>4, <1>5, <1>6, <1>7, <1>8, <1>9 DEF RetentionNext

\* Old is the same by the cutoff and by the age of a partition's first row.
LEMMA ExpiredIsOutlived ==
  ASSUME NEW p \in Nat, NEW t \in Nat, table \in Table
  PROVE  Expired(p, t) = Outlived(p, t)
<1>1. Begins(p) \in Nat /\ Begins(Kept[table]) \in Nat
  BY BeginsGrow, RetentionConstants
<1>2. QED
  BY <1>1 DEF Expired, Outlived

\* A raw row that was dropped is older than a day less than raw rows are kept.
LEMMA RawIsKept ==
  ASSUME RetentionInv, table = "raw", row # NoRow, ~present
  PROVE  clock - row > Begins(RawDays - 1)
<1>1. row \in Nat /\ clock \in Nat
  BY RetentionConstants DEF RetentionInv, RetentionTypes
<1>2. Begins(DayOf(row)) + Begins(RawDays) < clock
  BY RetentionConstants DEF RetentionInv, RowKept, Expired, PartitionFor
<1>3. Begins(RawDays) = Begins(RawDays - 1) + PerDay
  <2>1. RawDays - 1 \in Nat /\ RawDays = (RawDays - 1) + 1 /\ PerDay \in Nat
    BY RetentionConstants
  <2>2. Begins(1) = PerDay
    BY <2>1 DEF Begins
  <2>3. QED
    BY <2>1, <2>2, BeginsAdd
<1>4. row < Begins(DayOf(row)) + PerDay /\ Begins(DayOf(row)) \in Nat
  BY <1>1, DayFacts
<1>5. Begins(RawDays - 1) \in Nat /\ PerDay \in Nat
  BY RetentionConstants, BeginsGrow
<1>6. QED
  BY <1>1, <1>2, <1>3, <1>4, <1>5

LEMMA RetentionFollows == RetentionInv => RetentionWindow
<1> SUFFICES ASSUME RetentionInv PROVE RetentionWindow
  OBVIOUS
<1>0. /\ clock \in Nat /\ table \in Table /\ row \in Nat \cup {NoRow} /\ lastDrop \in Nat
      /\ present \in BOOLEAN
  BY RetentionConstants DEF RetentionInv, RetentionTypes
<1>1. ASSUME NEW route \in Route, NEW range \in Preset \cup {Custom}, NEW since \in Since(range),
             TableRead(route, range) = "raw", clock - since <= Begins(RawDays - 1)
      PROVE  Answered(route, range, since)
  <2>1. SUFFICES ASSUME table = "raw", row # NoRow, row > since, ~present PROVE FALSE
    BY <1>1 DEF Answered
  <2>2. clock - row > Begins(RawDays - 1)
    BY <2>1, RawIsKept
  <2>3. Begins(RawDays - 1) \in Nat
    BY RetentionConstants, BeginsGrow
  <2>4. since \in Int
    <3>1. {1, RawDays, FiveMinDays, HourlyDays} \subseteq Nat
      BY RetentionBounds
    <3>2. \A d \in {1, RawDays, FiveMinDays, HourlyDays} : Begins(d) \in Nat
      BY <3>1, BeginsGrow
    <3>3. rangeToInterval(range) \in Int
      BY <3>2 DEF rangeToInterval
    <3>4. QED
      BY <1>0, <3>3 DEF Since
  <2>5. QED
    BY <1>0, <1>1, <2>1, <2>2, <2>3, <2>4
<1>2. (row # NoRow /\ ~present) => Outlived(PartitionFor(row), clock)
  <2>1. row # NoRow => PartitionFor(row) \in Nat
    BY <1>0, PartitionFacts
  <2>2. QED
    BY <1>0, <2>1, ExpiredIsOutlived DEF RetentionInv, RowKept
<1>3. LET p == PartitionFor(clock) IN p \in Looked /\ ~Outlived(p, clock) => p \in partitions
  <2>1. PartitionFor(clock) \in Nat
    BY <1>0, PartitionFacts
  <2>2. QED
    BY <1>0, <2>1, ExpiredIsOutlived DEF RetentionInv, CreatedAhead
<1>4. present /\ row + MaxLag < lastDrop => ~Outlived(PartitionFor(row), lastDrop)
  <2>1. present => row \in Nat
    BY <1>0 DEF RetentionInv, RowKept
  <2>2. present => PartitionFor(row) \in Nat
    BY <2>1, PartitionFacts
  <2>3. QED
    BY <1>0, <2>2, ExpiredIsOutlived DEF RetentionInv, DroppedBehind
<1>5. QED
  BY <1>1, <1>2, <1>3, <1>4 DEF RetentionWindow

\* However runs overlap and whatever fails, partitions are made ahead and dropped
\* behind, and the readers of raw tables miss nothing as far back as a day less than
\* rows are kept (jobs/partition-manager.ts, routes/metrics.ts).
THEOREM RetentionHolds == RetentionSpec => []RetentionWindow
<1>1. RetentionSpec => []RetentionInv
  BY RetentionInitially, RetentionNextKeeps, PTL DEF RetentionSpec
<1>2. QED
  BY <1>1, RetentionFollows, PTL

(* What a row loses, for it does lose something (the range of a month is   *)
(* answered in part): the partition of a month of at most L days is        *)
(* dropped when its first day is as old as rows are kept, so a row goes    *)
(* less than L days early; and the partition of a day less than one early. *)
THEOREM LossIsBounded ==
  ASSUME NEW L \in Nat, \A t \in 0..LastMoment : DayOf(t) - MonthOf(DayOf(t)) < L
  PROVE  RetentionSpec =>
           [](row # NoRow /\ ~present
                => clock - row > Begins(Kept[table]) - Begins(IF table = "raw" THEN 1 ELSE L))
<1>1. ASSUME RetentionInv, row # NoRow, ~present
      PROVE  clock - row > Begins(Kept[table]) - Begins(IF table = "raw" THEN 1 ELSE L)
  <2> DEFINE early == IF table = "raw" THEN 1 ELSE L
             first == PartitionFor(row)
  <2>1. /\ clock \in 0..LastMoment /\ clock \in Nat /\ row \in 0..LastMoment /\ row \in Nat
        /\ table \in Table /\ Kept[table] \in Nat
    BY <1>1, RetentionConstants DEF RetentionInv, RetentionTypes
  <2>2. DayOf(row) \in Nat /\ first \in Nat /\ early \in Nat
    BY <2>1, DayFacts, PartitionFacts
  <2>3. DayOf(row) + 1 <= first + early
    BY <2>1, <2>2 DEF PartitionFor
  <2>4. Begins(DayOf(row) + 1) <= Begins(first) + Begins(early)
    <3>1. DayOf(row) + 1 \in Nat /\ first + early \in Nat
      BY <2>2
    <3>2. Begins(DayOf(row) + 1) <= Begins(first + early)
      BY <2>3, <3>1, BeginsGrow
    <3>3. QED
      BY <2>2, <3>2, BeginsAdd
  <2>5. row < Begins(DayOf(row) + 1) /\ Begins(DayOf(row) + 1) \in Nat
    BY <2>1, <2>2, DayFacts, BeginsGrow
  <2>6. Begins(first) + Begins(Kept[table]) < clock
    BY <1>1 DEF RetentionInv, RowKept, Expired
  <2>7. Begins(first) \in Nat /\ Begins(early) \in Nat /\ Begins(Kept[table]) \in Nat
    BY <2>1, <2>2, BeginsGrow
  <2> HIDE DEF early, first
  <2>8. clock - row > Begins(Kept[table]) - Begins(early)
    BY <2>1, <2>4, <2>5, <2>6, <2>7
  <2>9. QED
    BY <2>8 DEF early
<1>2. RetentionSpec => []RetentionInv
  BY RetentionInitially, RetentionNextKeeps, PTL DEF RetentionSpec
<1>3. QED
  BY <1>1, <1>2, PTL
=============================================================================
