---------------------------- MODULE AlertEngine ----------------------------
(***************************************************************************)
(* alerts/engine.ts and its use by collectAll, for one instance: every key *)
(* of its two maps carries the instance id, so instances do not meet.      *)
(*                                                                         *)
(* A cycle evaluates the rules on what it collected, which marks the       *)
(* alerts it returns as sent, and then awaits their INSERT.  A cycle may   *)
(* also never get to the alerts (it is skipped, or PostgreSQL fails        *)
(* before).  Time is counted in collection intervals.                      *)
(*                                                                         *)
(* The rules without a counter (memory, disk, file I/O, blocking) are alike *)
(* and represented by one, `disk'.                                         *)
(***************************************************************************)
EXTENDS Integers

CONSTANTS
  CpuPcts,    (* the sums of CPU percentages an instance may report        *)
  Needed,     (* cycles a counted condition must last: 3                   *)
  Cooldown    (* COOLDOWN_MS in collection intervals: 30                   *)

ASSUME PctsAssumption == CpuPcts \subseteq Nat
ASSUME NeededAssumption == Needed \in Nat \ {0}
ASSUME CooldownAssumption == Cooldown \in Nat \ {0}

VARIABLES
  count,      (* consecutiveCounts, counted up to Needed                   *)
  age,        (* intervals since lastAlertTime, up to Cooldown (or none)   *)
  pending,    (* the alerts whose INSERT is awaited                        *)
  due,        (* the interval has fired and the cycle was not evaluated    *)
  recorded,   (* history: alerts written since the last evaluation         *)
  since,      (* history: intervals since an alert was last returned       *)
  dataRun,    (* history: level of the last CPU samples, how many in a row *)
  cycleRun    (* history: the same for the cycles that were evaluated      *)

memVars == <<count, age>>
histVars == <<recorded, since, dataRun, cycleRun>>
vars == <<memVars, pending, due, histVars>>

Counters == {"cpu_critical", "cpu_warning", "unreachable"}
Types == Counters \cup {"disk"}
Levels == {"none", "normal", "warning", "critical"}
Upto(bound, k) == IF k > bound THEN bound ELSE k
-----------------------------------------------------------------------------
\* The thresholds of the CPU rule.
CpuLevel(pct) ==
  IF pct > 90 THEN "critical" ELSE IF pct > 75 THEN "warning" ELSE "normal"

\* What a cycle collected: nothing when the instance was not reached; the CPU ring
\* buffer and the disks (every 10th cycle) may have no row although it was.
Down == [up |-> FALSE, cpu |-> "none", disk |-> FALSE]
Samples ==
  {Down} \cup [up : {TRUE}, cpu : {CpuLevel(pct) : pct \in CpuPcts} \cup {"none"}, disk : BOOLEAN]

Init ==
  /\ count = [t \in Counters |-> 0]
  /\ age = [t \in Types |-> Cooldown]
  /\ pending = {}
  /\ due = TRUE
  /\ recorded = {}
  /\ since = [t \in Types |-> Cooldown]
  /\ dataRun = [level |-> "none", len |-> 0]
  /\ cycleRun = [level |-> "none", len |-> 0]

Increment(t) == Upto(Needed, count[t] + 1)

\* Mutant: the critical counter survives a sample that is only a warning.
Counts_keepsCritical(s) ==
  [t \in Counters |->
    CASE t = "cpu_critical" -> IF s.cpu = "critical" THEN Increment(t)
                               ELSE IF s.cpu = "normal" THEN 0 ELSE count[t]
      [] t = "cpu_warning"  -> IF s.cpu = "warning" THEN Increment(t)
                               ELSE IF s.cpu = "none" THEN count[t] ELSE 0
      [] t = "unreachable"  -> IF s.up THEN 0 ELSE Increment(t)]

\* Mutant: resetCounter takes one off instead of deleting the counter.
Counts_decrements(s) ==
  [t \in Counters |->
    CASE t = "cpu_critical" -> IF s.cpu = "critical" THEN Increment(t)
                               ELSE IF s.cpu = "none" THEN count[t] ELSE count[t] - 1
      [] t = "cpu_warning"  -> IF s.cpu = "warning" THEN Increment(t)
                               ELSE IF s.cpu = "none" THEN count[t] ELSE count[t] - 1
      [] t = "unreachable"  -> IF s.up THEN count[t] - 1 ELSE Increment(t)]

\* Mutant: a cycle that reached the instance leaves the unreachable counter.
Counts_neverReachable(s) ==
  [t \in Counters |->
    CASE t = "cpu_critical" -> IF s.cpu = "critical" THEN Increment(t)
                               ELSE IF s.cpu = "none" THEN count[t] ELSE 0
      [] t = "cpu_warning"  -> IF s.cpu = "warning" THEN Increment(t)
                               ELSE IF s.cpu = "none" THEN count[t] ELSE 0
      [] t = "unreachable"  -> IF s.up THEN count[t] ELSE Increment(t)]

\* The counters after a sample: one CPU counter is incremented and the other
\* reset; without CPU data both stay.
Counts(s) ==
  [t \in Counters |->
    CASE t = "cpu_critical" -> IF s.cpu = "critical" THEN Increment(t)
                               ELSE IF s.cpu = "none" THEN count[t] ELSE 0
      [] t = "cpu_warning"  -> IF s.cpu = "warning" THEN Increment(t)
                               ELSE IF s.cpu = "none" THEN count[t] ELSE 0
      [] t = "unreachable"  -> IF s.up THEN 0 ELSE Increment(t)]

\* The alerts the rules push: a counter is looked at where it was incremented.
Matching(s) ==
  LET incremented == (IF s.cpu = "critical" THEN {"cpu_critical"} ELSE {}) \cup
                     (IF s.cpu = "warning" THEN {"cpu_warning"} ELSE {}) \cup
                     (IF s.up THEN {} ELSE {"unreachable"})
  IN  {t \in incremented : Counts(s)[t] >= Needed} \cup (IF s.disk THEN {"disk"} ELSE {})

\* Mutant: now - lastTime > COOLDOWN_MS.
IsDuplicate_sign(t) == age[t] > Cooldown

IsDuplicate(t) == age[t] < Cooldown

\* Mutant: every alert that matches restarts its cooldown, sent or not.
MarkSent_matching(s) ==
  age' = [t \in Types |-> IF t \in Matching(s) THEN 0 ELSE age[t]]

\* markAlertSent, for the alerts that are returned.
MarkSent(s) ==
  age' = [t \in Types |-> IF t \in Matching(s) /\ ~IsDuplicate(t) THEN 0 ELSE age[t]]

Extend(run, level) ==
  IF run.level = level THEN [run EXCEPT !.len = Upto(Needed, @ + 1)]
                       ELSE [level |-> level, len |-> 1]

\* evaluateAlerts on the result of a cycle; an INSERT is awaited if it returns any.
Evaluate(s) ==
  /\ due /\ pending = {}
  /\ due' = FALSE
  /\ count' = Counts(s)
  /\ MarkSent(s)
  /\ pending' = {t \in Matching(s) : ~IsDuplicate(t)}
  /\ recorded' = {}
  /\ since' = [t \in Types |-> IF t \in pending' THEN 0 ELSE since[t]]
  /\ dataRun' = IF s.cpu = "none" THEN dataRun ELSE Extend(dataRun, s.cpu)
  /\ cycleRun' = Extend(cycleRun, IF s.up THEN s.cpu ELSE "down")

\* writeAlerts: all alerts in one INSERT.
WriteOk ==
  /\ pending # {}
  /\ pending' = {}
  /\ recorded' = pending
  /\ UNCHANGED <<memVars, due, since, dataRun, cycleRun>>

\* PostgreSQL fails or the instance was deleted: collectAll catches it and logs it.
WriteFails ==
  /\ pending # {}
  /\ pending' = {}
  /\ UNCHANGED <<memVars, due, histVars>>

\* An interval passes; a cycle that did not come to its alerts is not made up for.
TimePasses ==
  /\ due' = TRUE
  /\ age' = [t \in Types |-> Upto(Cooldown, age[t] + 1)]
  /\ since' = [t \in Types |-> Upto(Cooldown, since[t] + 1)]
  /\ UNCHANGED <<count, pending, recorded, dataRun, cycleRun>>

\* The backend restarts: counters and cooldowns are only in memory.
Crash ==
  /\ count' = [t \in Counters |-> 0]
  /\ age' = [t \in Types |-> Cooldown]
  /\ pending' = {}
  /\ due' = TRUE
  /\ recorded' = {}
  /\ since' = [t \in Types |-> Cooldown]
  /\ dataRun' = [level |-> "none", len |-> 0]
  /\ cycleRun' = [level |-> "none", len |-> 0]

Next ==
  \/ \E s \in Samples : Evaluate(s)
  \/ WriteOk
  \/ WriteFails
  \/ TimePasses
  \/ Crash

\* Intervals pass, cycles get to their alerts and an INSERT ends; PostgreSQL does
\* not refuse the alerts of one type every time.
Fairness ==
  /\ WF_vars(TimePasses)
  /\ WF_vars(\E s \in Samples : Evaluate(s))
  /\ WF_vars(WriteOk \/ WriteFails)
  /\ \A t \in Types : SF_vars(t \in pending /\ WriteOk)

Spec == Init /\ [][Next]_vars /\ Fairness
-----------------------------------------------------------------------------
Runs == [level : Levels \cup {"down"}, len : 0..Needed]

TypeOK ==
  /\ count \in [Counters -> 0..Needed]
  /\ age \in [Types -> 0..Cooldown]
  /\ pending \subseteq Types
  /\ due \in BOOLEAN
  /\ recorded \subseteq Types
  /\ since \in [Types -> 0..Cooldown]
  /\ dataRun \in Runs /\ cycleRun \in Runs

\* A counter is the number of the last CPU samples that all had its level, so the
\* two are never mixed, however samples alternate and whatever is missing between.
CountersCountSamples ==
  /\ count["cpu_critical"] = (IF dataRun.level = "critical" THEN dataRun.len ELSE 0)
  /\ count["cpu_warning"] = (IF dataRun.level = "warning" THEN dataRun.len ELSE 0)

\* "Instance unreachable for N consecutive cycles": nothing was collected from the
\* instance in the last N cycles that were evaluated.
UnreachableInARow ==
  "unreachable" \in pending => cycleRun.level = "down" /\ cycleRun.len = Needed

\* An alert that was returned is not returned again within the cooldown, written
\* or not (until the process restarts).
NoRepeatInCooldown ==
  [][\A t \in Types : since[t] < Cooldown /\ t \notin pending => t \notin pending']_vars

\* A condition that lasts is recorded again and again: neither the cooldown nor a
\* failed INSERT silences it for good.
KeepsAlerting ==
  <>[](cycleRun.level = "critical") => []<>("cpu_critical" \in recorded)

\* "CPU usage > 90% for N consecutive cycles" (engine.ts:77).
CriticalInARow ==
  "cpu_critical" \in pending => cycleRun.level = "critical" /\ cycleRun.len = Needed
=============================================================================
