------------------------- MODULE AlertEngineProofs -------------------------
(***************************************************************************)
(* Proofs about AlertEngine: what its counters and its cooldown promise,   *)
(* for every set of CPU readings, every threshold length and cooldown.     *)
(***************************************************************************)
EXTENDS AlertEngine, TLAPS

\* The map of sent alerts agrees with when they were really returned.
SinceIsAge == since = age

\* The unreachable counter counts the last evaluated cycles that failed.
CounterCountsDown ==
  count["unreachable"] = (IF cycleRun.level = "down" THEN cycleRun.len ELSE 0)

IInv ==
  /\ TypeOK
  /\ SinceIsAge
  /\ CountersCountSamples
  /\ CounterCountsDown
  /\ UnreachableInARow
-----------------------------------------------------------------------------
\* Upto stays within its bound.
LEMMA UptoBounds ==
  ASSUME NEW bound \in Nat, NEW k \in Nat
  PROVE  Upto(bound, k) \in 0..bound
BY DEF Upto

\* The level of a reading is one of the three levels of data.
LEMMA LevelOfReading ==
  \A pct \in Nat : CpuLevel(pct) \in {"normal", "warning", "critical"}
BY DEF CpuLevel

\* What a sample may be.
LEMMA SampleType ==
  ASSUME NEW s \in Samples
  PROVE  /\ s.up \in BOOLEAN /\ s.disk \in BOOLEAN
         /\ s.cpu \in Levels
         /\ ~s.up => s.cpu = "none"
<1>1. CASE s = Down
  BY <1>1 DEF Down, Levels
<1>2. CASE s \in [up : {TRUE}, cpu : {CpuLevel(pct) : pct \in CpuPcts} \cup {"none"}, disk : BOOLEAN]
  <2>1. s.up = TRUE /\ s.disk \in BOOLEAN
    BY <1>2
  <2>2. s.cpu \in {CpuLevel(pct) : pct \in CpuPcts} \cup {"none"}
    BY <1>2
  <2>3. s.cpu \in Levels
    BY <2>2, LevelOfReading, PctsAssumption DEF Levels
  <2>4. QED
    BY <2>1, <2>3
<1>3. QED
  BY <1>1, <1>2 DEF Samples

\* A run that is extended is a run of its new level, one longer or new.
LEMMA ExtendRun ==
  ASSUME NEW run \in Runs, NEW level \in Levels \cup {"down"}
  PROVE  /\ Extend(run, level) \in Runs
         /\ Extend(run, level).level = level
         /\ Extend(run, level).len = (IF run.level = level THEN Upto(Needed, run.len + 1) ELSE 1)
<1>1. run.len \in Nat /\ Upto(Needed, run.len + 1) \in 0..Needed /\ 1 \in 0..Needed
  <2>1. run.len \in Nat /\ Needed \in Nat /\ Needed >= 1
    BY NeededAssumption DEF Runs
  <2>2. Upto(Needed, run.len + 1) \in 0..Needed
    BY <2>1, UptoBounds
  <2>3. QED
    BY <2>1, <2>2
<1>2. CASE run.level = level
  BY <1>1, <1>2 DEF Extend, Runs
<1>3. CASE run.level # level
  BY <1>1, <1>3 DEF Extend, Runs
<1>4. QED
  BY <1>2, <1>3

\* The initial state satisfies the inductive invariant.
LEMMA InitIInv == Init => IInv
<1> SUFFICES ASSUME Init PROVE IInv
  OBVIOUS
<1>1. TypeOK
  BY NeededAssumption, CooldownAssumption DEF Init, TypeOK, Runs, Levels
<1>2. QED
  BY <1>1 DEF Init, IInv, SinceIsAge, CountersCountSamples, CounterCountsDown,
              UnreachableInARow, Counters

\* What the evaluation of a cycle leaves true.
LEMMA EvaluateIInv ==
  ASSUME IInv, NEW s \in Samples, Evaluate(s)
  PROVE  IInv'
<1>1. /\ s.up \in BOOLEAN /\ s.disk \in BOOLEAN /\ s.cpu \in Levels
      /\ ~s.up => s.cpu = "none"
  BY SampleType
<1>2. \A t \in Counters : count[t] \in 0..Needed /\ Increment(t) \in 0..Needed
  <2> SUFFICES ASSUME NEW t \in Counters PROVE count[t] \in 0..Needed /\ Increment(t) \in 0..Needed
    OBVIOUS
  <2>1. count[t] \in 0..Needed
    BY DEF IInv, TypeOK
  <2>2. Needed \in Nat /\ count[t] + 1 \in Nat
    BY <2>1, NeededAssumption
  <2>3. QED
    BY <2>1, <2>2, UptoBounds DEF Increment
<1>3. /\ count'["cpu_critical"] = (IF s.cpu = "critical" THEN Increment("cpu_critical")
                                   ELSE IF s.cpu = "none" THEN count["cpu_critical"] ELSE 0)
      /\ count'["cpu_warning"] = (IF s.cpu = "warning" THEN Increment("cpu_warning")
                                  ELSE IF s.cpu = "none" THEN count["cpu_warning"] ELSE 0)
      /\ count'["unreachable"] = (IF s.up THEN 0 ELSE Increment("unreachable"))
  BY DEF Evaluate, Counts, Counters
<1>4. count' \in [Counters -> 0..Needed]
  <2>1. \A t \in Counters : Counts(s)[t] \in 0..Needed
    BY <1>2, <1>3, NeededAssumption DEF Evaluate, Counters
  <2>2. Counts(s) \in [Counters -> {Counts(s)[t] : t \in Counters}]
    BY DEF Counts
  <2>3. QED
    BY <2>1, <2>2 DEF Evaluate
<1>5. age' \in [Types -> 0..Cooldown] /\ since' = age'
  <2>1. Matching(s) \subseteq Types
    BY DEF Matching, Types, Counters
  <2>2. age' = [t \in Types |-> IF t \in Matching(s) /\ ~IsDuplicate(t) THEN 0 ELSE age[t]]
    BY DEF Evaluate, MarkSent
  <2>3. since' = [t \in Types |-> IF t \in Matching(s) /\ ~IsDuplicate(t) THEN 0 ELSE since[t]]
    BY DEF Evaluate
  <2>4. QED
    BY <2>2, <2>3, CooldownAssumption DEF IInv, TypeOK, SinceIsAge
<1>6. pending' \subseteq Types
  BY DEF Evaluate, Matching, Types, Counters
<1>7. dataRun \in Runs /\ cycleRun \in Runs
  BY DEF IInv, TypeOK
<1>8. /\ cycleRun' \in Runs
      /\ cycleRun'.level = (IF s.up THEN s.cpu ELSE "down")
      /\ cycleRun'.len = (IF cycleRun.level = cycleRun'.level
                            THEN Upto(Needed, cycleRun.len + 1) ELSE 1)
  BY <1>1, <1>7, ExtendRun DEF Evaluate
<1>9. CountersCountSamples' /\ dataRun' \in Runs
  <2>1. CASE s.cpu = "none"
    BY <1>3, <1>7, <2>1 DEF Evaluate, IInv, CountersCountSamples
  <2>2. CASE s.cpu # "none"
    <3>1. /\ dataRun' \in Runs
          /\ dataRun'.level = s.cpu
          /\ dataRun'.len = (IF dataRun.level = s.cpu THEN Upto(Needed, dataRun.len + 1) ELSE 1)
      BY <1>1, <1>7, <2>2, ExtendRun DEF Evaluate
    <3>2. Upto(Needed, 0 + 1) = 1
      BY NeededAssumption DEF Upto
    <3>3. QED
      BY <1>3, <2>2, <3>1, <3>2 DEF Increment, IInv, CountersCountSamples
  <2>3. QED
    BY <2>1, <2>2
<1>10. CounterCountsDown'
  <2>1. Upto(Needed, 0 + 1) = 1 /\ (s.up => s.cpu # "down")
    BY <1>1, NeededAssumption DEF Upto, Levels
  <2>2. QED
    BY <1>3, <1>8, <2>1 DEF Increment, IInv, CounterCountsDown
<1>11. UnreachableInARow'
  <2>1. ASSUME "unreachable" \in pending'
        PROVE  ~s.up /\ count'["unreachable"] >= Needed
    BY <2>1 DEF Evaluate, Matching
  <2>2. QED
    BY <1>2, <1>4, <1>8, <1>10, <2>1, NeededAssumption
    DEF UnreachableInARow, CounterCountsDown, Counters, Runs
<1>12. TypeOK'
  BY <1>4, <1>5, <1>6, <1>8, <1>9 DEF Evaluate, TypeOK
<1>13. QED
  BY <1>5, <1>9, <1>10, <1>11, <1>12 DEF IInv, SinceIsAge

\* What the other steps leave true.
LEMMA OtherIInv ==
  ASSUME IInv, WriteOk \/ WriteFails \/ TimePasses \/ Crash \/ UNCHANGED vars
  PROVE  IInv'
<1>1. CASE WriteOk
  BY <1>1 DEF WriteOk, memVars, IInv, TypeOK, SinceIsAge, CountersCountSamples,
              CounterCountsDown, UnreachableInARow
<1>2. CASE WriteFails
  BY <1>2 DEF WriteFails, memVars, histVars, IInv, TypeOK, SinceIsAge, CountersCountSamples,
              CounterCountsDown, UnreachableInARow
<1>3. CASE TimePasses
  <2>1. \A t \in Types : Upto(Cooldown, age[t] + 1) \in 0..Cooldown
    <3> SUFFICES ASSUME NEW t \in Types PROVE Upto(Cooldown, age[t] + 1) \in 0..Cooldown
      OBVIOUS
    <3>1. age[t] + 1 \in Nat /\ Cooldown \in Nat
      BY CooldownAssumption DEF IInv, TypeOK
    <3>2. QED
      BY <3>1, UptoBounds
  <2>2. age' \in [Types -> 0..Cooldown] /\ since' = age'
    BY <1>3, <2>1 DEF TimePasses, IInv, SinceIsAge
  <2>3. TypeOK'
    BY <1>3, <2>2 DEF TimePasses, IInv, TypeOK
  <2>4. QED
    BY <1>3, <2>2, <2>3 DEF TimePasses, IInv, SinceIsAge, CountersCountSamples,
                            CounterCountsDown, UnreachableInARow
<1>4. CASE Crash
  <2>1. TypeOK'
    BY <1>4, NeededAssumption, CooldownAssumption DEF Crash, TypeOK, Runs, Levels
  <2>2. QED
    BY <1>4, <2>1 DEF Crash, IInv, SinceIsAge, CountersCountSamples, CounterCountsDown,
                      UnreachableInARow, Counters
<1>5. CASE UNCHANGED vars
  BY <1>5 DEF vars, memVars, histVars, IInv, TypeOK, SinceIsAge, CountersCountSamples,
              CounterCountsDown, UnreachableInARow
<1>6. QED
  BY <1>1, <1>2, <1>3, <1>4, <1>5

\* Every step leaves the invariant true.
LEMMA NextIInv == IInv /\ [Next]_vars => IInv'
<1> SUFFICES ASSUME IInv, [Next]_vars PROVE IInv'
  OBVIOUS
<1>1. ASSUME NEW s \in Samples, Evaluate(s) PROVE IInv'
  BY <1>1, EvaluateIInv
<1>2. CASE WriteOk \/ WriteFails \/ TimePasses \/ Crash \/ UNCHANGED vars
  BY <1>2, OtherIInv
<1>3. QED
  BY <1>1, <1>2 DEF Next

\* The invariant holds always.
LEMMA IInvAlways == Spec => []IInv
BY InitIInv, NextIInv, PTL DEF Spec
-----------------------------------------------------------------------------
\* The variables of the engine keep their types.
THEOREM TypeCorrect == Spec => []TypeOK
<1>1. IInv => TypeOK
  BY DEF IInv
<1>2. QED
  BY <1>1, IInvAlways, PTL

\* The CPU counters are exact about the samples that arrived.
THEOREM CountersAreExact == Spec => []CountersCountSamples
<1>1. IInv => CountersCountSamples
  BY DEF IInv
<1>2. QED
  BY <1>1, IInvAlways, PTL

\* An `unreachable' alert is never raised over a cycle that reached the instance.
THEOREM UnreachableIsConsecutive == Spec => []UnreachableInARow
<1>1. IInv => UnreachableInARow
  BY DEF IInv
<1>2. QED
  BY <1>1, IInvAlways, PTL

\* No step returns an alert that was returned less than a cooldown ago.
THEOREM CooldownHolds == Spec => NoRepeatInCooldown
<1> DEFINE Quiet == \A t \in Types : since[t] < Cooldown /\ t \notin pending => t \notin pending'
<1>1. IInv /\ [Next]_vars => Quiet
  <2> SUFFICES ASSUME IInv, [Next]_vars, NEW t \in Types, since[t] < Cooldown, t \notin pending
               PROVE  t \notin pending'
    OBVIOUS
  <2>1. IsDuplicate(t)
    BY DEF IInv, SinceIsAge, IsDuplicate
  <2>2. ASSUME NEW s \in Samples, Evaluate(s) PROVE t \notin pending'
    BY <2>1, <2>2 DEF Evaluate
  <2>3. CASE WriteOk \/ WriteFails \/ TimePasses \/ Crash \/ UNCHANGED vars
    BY <2>3 DEF WriteOk, WriteFails, TimePasses, Crash, vars
  <2>4. QED
    BY <2>2, <2>3 DEF Next
<1>2. IInv /\ [Next]_vars => [Quiet]_vars
  BY <1>1
<1>3. QED
  BY <1>2, IInvAlways, PTL DEF Spec, NoRepeatInCooldown
=============================================================================
