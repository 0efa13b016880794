--------------------------- MODULE BackendProofs ---------------------------
(***************************************************************************)
(* Proofs about Backend: cycles never overlap, and a shutdown pulls the    *)
(* PostgreSQL pool away from neither a cycle nor a request, for any number *)
(* of signals, jobs and requests.                                          *)
(***************************************************************************)
EXTENDS Backend, TLAPS

Past == {"closing", "ending"}

\* cycling tells exactly whether a cycle is selecting or collecting.
CyclingExact == selecting + collecting = (IF cycling THEN 1 ELSE 0)

\* Nothing is set going before the end of the boot.
TimerAfterBoot == timer => boot = "up"

\* A shutdown that came after the start stopped the timer for good: start() is
\* behind it and nothing else sets the timer.
TimerStopped ==
  ~early => \A s \in Signals : sig[s] # "none" => ~timer /\ (boot = "up" \/ ~Alive)

\* One that got past stop() found no cycle, and none began since.
NoCycleLeft == ~early => \A s \in Signals : sig[s] \in Past => ~cycling

\* Past stop() the server is closing; past app.close() it is closed, and then no
\* request is left.
AppClosing ==
  /\ \A s \in Signals : sig[s] \in Past => app \in {"closing", "closed"}
  /\ \A s \in Signals : sig[s] = "ending" => app = "closed"
  /\ app = "closed" => requests = 0

\* Only a shutdown past app.close() ends the pool.
PoolEnder == pg # "open" => \E s \in Signals : sig[s] = "ending"

IInv ==
  /\ TypeOK
  /\ CyclingExact
  /\ TimerAfterBoot
  /\ TimerStopped
  /\ NoCycleLeft
  /\ AppClosing
  /\ PoolEnder
-----------------------------------------------------------------------------
\* No cycle, no signal and no request at the start.
LEMMA InitIInv == Init => IInv
<1> SUFFICES ASSUME Init PROVE IInv
  OBVIOUS
<1>1. TypeOK
  <2>1. jobTimer \in [Jobs -> BOOLEAN] /\ jobRuns \in [Jobs -> 0..MaxRuns]
    BY BoundsAssumption DEF Init
  <2>2. requests \in 0..MaxRequests
    BY BoundsAssumption DEF Init
  <2>3. QED
    BY <2>1, <2>2 DEF Init, TypeOK
<1>2. CyclingExact
  BY DEF Init, CyclingExact
<1>3. TimerAfterBoot /\ TimerStopped /\ NoCycleLeft /\ AppClosing /\ PoolEnder
  BY DEF Init, TimerAfterBoot, TimerStopped, NoCycleLeft, AppClosing, PoolEnder, Past
<1>4. QED
  BY <1>1, <1>2, <1>3 DEF IInv

\* What the boot leaves true.
LEMMA BootIInv ==
  ASSUME IInv, Migrated \/ Listening \/ Started \/ BootFails
  PROVE  IInv'
<1>1. CASE Migrated
  <2>1. TypeOK'
    BY <1>1 DEF Migrated, schedVars, jobVars, IInv, TypeOK
  <2>2. CyclingExact'
    BY <1>1 DEF Migrated, schedVars, jobVars, IInv, TypeOK, CyclingExact
  <2>3. TimerAfterBoot' /\ TimerStopped'
    BY <1>1 DEF Migrated, schedVars, jobVars, Alive, IInv, TypeOK, TimerAfterBoot, TimerStopped
  <2>4. NoCycleLeft'
    BY <1>1 DEF Migrated, schedVars, jobVars, IInv, TypeOK, TimerAfterBoot, TimerStopped, NoCycleLeft, Past
  <2>5. AppClosing'
    BY <1>1 DEF Migrated, schedVars, jobVars, IInv, TypeOK, AppClosing, Past
  <2>6. PoolEnder'
    BY <1>1 DEF Migrated, schedVars, jobVars, IInv, TypeOK, PoolEnder
  <2>7. QED
    BY <2>1, <2>2, <2>3, <2>4, <2>5, <2>6 DEF IInv
<1>2. CASE Listening
  <2>1. TypeOK'
    BY <1>2 DEF Listening, schedVars, jobVars, IInv, TypeOK
  <2>2. CyclingExact'
    BY <1>2 DEF Listening, schedVars, jobVars, IInv, TypeOK, CyclingExact
  <2>3. TimerAfterBoot' /\ TimerStopped'
    BY <1>2 DEF Listening, schedVars, jobVars, Alive, IInv, TypeOK, TimerAfterBoot, TimerStopped
  <2>4. NoCycleLeft'
    BY <1>2 DEF Listening, schedVars, jobVars, IInv, TypeOK, TimerAfterBoot, TimerStopped, NoCycleLeft, Past
  <2>5. AppClosing'
    BY <1>2 DEF Listening, schedVars, jobVars, IInv, TypeOK, AppClosing, Past
  <2>6. PoolEnder'
    BY <1>2 DEF Listening, schedVars, jobVars, IInv, TypeOK, PoolEnder
  <2>7. QED
    BY <2>1, <2>2, <2>3, <2>4, <2>5, <2>6 DEF IInv
<1>3. CASE Started
  <2>1. TypeOK'
    <3>1. cycling' \in BOOLEAN
      BY <1>3 DEF Started, TickBody, IInv, TypeOK
    <3>2. selecting' \in Nat
      BY <1>3 DEF Started, TickBody, IInv, TypeOK
    <3>3. jobTimer' \in [Jobs -> BOOLEAN] /\ jobRuns' \in [Jobs -> 0..MaxRuns]
      BY <1>3, BoundsAssumption DEF Started
    <3>4. QED
      BY <1>3, <3>1, <3>2, <3>3 DEF Started, IInv, TypeOK
  <2>2. CyclingExact'
    BY <1>3 DEF Started, TickBody, schedVars, jobVars, IInv, TypeOK, CyclingExact
  <2>3. TimerAfterBoot' /\ TimerStopped'
    BY <1>3 DEF Started, TickBody, schedVars, jobVars, Alive, IInv, TypeOK, TimerAfterBoot, TimerStopped
  <2>4. NoCycleLeft'
    BY <1>3 DEF Started, TickBody, schedVars, jobVars, IInv, TypeOK, TimerAfterBoot, TimerStopped, NoCycleLeft, Past
  <2>5. AppClosing'
    BY <1>3 DEF Started, TickBody, schedVars, jobVars, IInv, TypeOK, AppClosing, Past
  <2>6. PoolEnder'
    BY <1>3 DEF Started, TickBody, schedVars, jobVars, IInv, TypeOK, PoolEnder
  <2>7. QED
    BY <2>1, <2>2, <2>3, <2>4, <2>5, <2>6 DEF IInv
<1>4. CASE BootFails
  <2>1. TypeOK'
    BY <1>4 DEF BootFails, schedVars, jobVars, IInv, TypeOK
  <2>2. CyclingExact'
    BY <1>4 DEF BootFails, schedVars, jobVars, IInv, TypeOK, CyclingExact
  <2>3. TimerAfterBoot' /\ TimerStopped'
    BY <1>4 DEF BootFails, schedVars, jobVars, Alive, IInv, TypeOK, TimerAfterBoot, TimerStopped
  <2>4. NoCycleLeft'
    BY <1>4 DEF BootFails, schedVars, jobVars, IInv, TypeOK, TimerAfterBoot, TimerStopped, NoCycleLeft, Past
  <2>5. AppClosing'
    BY <1>4 DEF BootFails, schedVars, jobVars, IInv, TypeOK, AppClosing, Past
  <2>6. PoolEnder'
    BY <1>4 DEF BootFails, schedVars, jobVars, IInv, TypeOK, PoolEnder
  <2>7. QED
    BY <2>1, <2>2, <2>3, <2>4, <2>5, <2>6 DEF IInv
<1>5. QED
  BY <1>1, <1>2, <1>3, <1>4

\* What the scheduler leaves true.
LEMMA CycleIInv ==
  ASSUME IInv, Tick \/ SelectSome \/ SelectNone \/ CycleEnds
  PROVE  IInv'
<1>1. CASE Tick
  <2>1. TypeOK'
    <3>1. cycling' \in BOOLEAN
      BY <1>1 DEF Tick, TickBody, IInv, TypeOK
    <3>2. selecting' \in Nat
      BY <1>1 DEF Tick, TickBody, IInv, TypeOK
    <3>3. QED
      BY <1>1, <3>1, <3>2 DEF Tick, jobVars, IInv, TypeOK
  <2>2. CyclingExact'
    BY <1>1 DEF Tick, TickBody, schedVars, jobVars, IInv, TypeOK, CyclingExact
  <2>3. TimerAfterBoot' /\ TimerStopped'
    BY <1>1 DEF Tick, TickBody, schedVars, jobVars, Alive, IInv, TypeOK, TimerAfterBoot, TimerStopped
  <2>4. NoCycleLeft'
    BY <1>1 DEF Tick, TickBody, schedVars, jobVars, IInv, TypeOK, TimerAfterBoot, TimerStopped, NoCycleLeft, Past
  <2>5. AppClosing'
    BY <1>1 DEF Tick, TickBody, schedVars, jobVars, IInv, TypeOK, AppClosing, Past
  <2>6. PoolEnder'
    BY <1>1 DEF Tick, TickBody, schedVars, jobVars, IInv, TypeOK, PoolEnder
  <2>7. QED
    BY <2>1, <2>2, <2>3, <2>4, <2>5, <2>6 DEF IInv
<1>2. CASE SelectSome
  <2>1. TypeOK'
    BY <1>2 DEF SelectSome, schedVars, jobVars, IInv, TypeOK
  <2>2. CyclingExact'
    BY <1>2 DEF SelectSome, schedVars, jobVars, IInv, TypeOK, CyclingExact
  <2>3. TimerAfterBoot' /\ TimerStopped'
    BY <1>2 DEF SelectSome, schedVars, jobVars, Alive, IInv, TypeOK, TimerAfterBoot, TimerStopped
  <2>4. NoCycleLeft'
    BY <1>2 DEF SelectSome, schedVars, jobVars, IInv, TypeOK, TimerAfterBoot, TimerStopped, NoCycleLeft, Past
  <2>5. AppClosing'
    BY <1>2 DEF SelectSome, schedVars, jobVars, IInv, TypeOK, AppClosing, Past
  <2>6. PoolEnder'
    BY <1>2 DEF SelectSome, schedVars, jobVars, IInv, TypeOK, PoolEnder
  <2>7. QED
    BY <2>1, <2>2, <2>3, <2>4, <2>5, <2>6 DEF IInv
<1>3. CASE SelectNone
  <2>1. TypeOK'
    <3>1. cycling' \in BOOLEAN
      BY <1>3 DEF SelectNone, IInv, TypeOK
    <3>2. selecting' \in Nat
      BY <1>3 DEF SelectNone, IInv, TypeOK
    <3>3. QED
      BY <1>3, <3>1, <3>2 DEF SelectNone, jobVars, IInv, TypeOK
  <2>2. CyclingExact'
    BY <1>3 DEF SelectNone, schedVars, jobVars, IInv, TypeOK, CyclingExact
  <2>3. TimerAfterBoot' /\ TimerStopped'
    BY <1>3 DEF SelectNone, schedVars, jobVars, Alive, IInv, TypeOK, TimerAfterBoot, TimerStopped
  <2>4. NoCycleLeft'
    BY <1>3 DEF SelectNone, schedVars, jobVars, IInv, TypeOK, TimerAfterBoot, TimerStopped, NoCycleLeft, Past
  <2>5. AppClosing'
    BY <1>3 DEF SelectNone, schedVars, jobVars, IInv, TypeOK, AppClosing, Past
  <2>6. PoolEnder'
    BY <1>3 DEF SelectNone, schedVars, jobVars, IInv, TypeOK, PoolEnder
  <2>7. QED
    BY <2>1, <2>2, <2>3, <2>4, <2>5, <2>6 DEF IInv
<1>4. CASE CycleEnds
  <2>1. TypeOK'
    <3>1. cycling' \in BOOLEAN
      BY <1>4 DEF CycleEnds, IInv, TypeOK
    <3>2. collecting' \in Nat
      BY <1>4 DEF CycleEnds, IInv, TypeOK
    <3>3. QED
      BY <1>4, <3>1, <3>2 DEF CycleEnds, jobVars, IInv, TypeOK
  <2>2. CyclingExact'
    BY <1>4 DEF CycleEnds, schedVars, jobVars, IInv, TypeOK, CyclingExact
  <2>3. TimerAfterBoot' /\ TimerStopped'
    BY <1>4 DEF CycleEnds, schedVars, jobVars, Alive, IInv, TypeOK, TimerAfterBoot, TimerStopped
  <2>4. NoCycleLeft'
    BY <1>4 DEF CycleEnds, schedVars, jobVars, IInv, TypeOK, TimerAfterBoot, TimerStopped, NoCycleLeft, Past
  <2>5. AppClosing'
    BY <1>4 DEF CycleEnds, schedVars, jobVars, IInv, TypeOK, AppClosing, Past
  <2>6. PoolEnder'
    BY <1>4 DEF CycleEnds, schedVars, jobVars, IInv, TypeOK, PoolEnder
  <2>7. QED
    BY <2>1, <2>2, <2>3, <2>4, <2>5, <2>6 DEF IInv
<1>5. QED
  BY <1>1, <1>2, <1>3, <1>4

\* What jobs leave true.
LEMMA WorkIInv ==
  ASSUME IInv, NEW j \in Jobs, JobFires(j) \/ JobEnds(j)
  PROVE  IInv'
<1>1. CASE JobFires(j)
  <2>1. TypeOK'
    BY <1>1, JobsAssumption, BoundsAssumption DEF JobFires, schedVars, jobVars, IInv, TypeOK
  <2>2. CyclingExact'
    BY <1>1 DEF JobFires, schedVars, jobVars, IInv, TypeOK, CyclingExact
  <2>3. TimerAfterBoot' /\ TimerStopped'
    BY <1>1 DEF JobFires, schedVars, jobVars, Alive, IInv, TypeOK, TimerAfterBoot, TimerStopped
  <2>4. NoCycleLeft'
    BY <1>1 DEF JobFires, schedVars, jobVars, IInv, TypeOK, TimerAfterBoot, TimerStopped, NoCycleLeft, Past
  <2>5. AppClosing'
    BY <1>1 DEF JobFires, schedVars, jobVars, IInv, TypeOK, AppClosing, Past
  <2>6. PoolEnder'
    BY <1>1 DEF JobFires, schedVars, jobVars, IInv, TypeOK, PoolEnder
  <2>7. QED
    BY <2>1, <2>2, <2>3, <2>4, <2>5, <2>6 DEF IInv
<1>2. CASE JobEnds(j)
  <2>1. TypeOK'
    BY <1>2, JobsAssumption, BoundsAssumption DEF JobEnds, schedVars, jobVars, IInv, TypeOK
  <2>2. CyclingExact'
    BY <1>2 DEF JobEnds, schedVars, jobVars, IInv, TypeOK, CyclingExact
  <2>3. TimerAfterBoot' /\ TimerStopped'
    BY <1>2 DEF JobEnds, schedVars, jobVars, Alive, IInv, TypeOK, TimerAfterBoot, TimerStopped
  <2>4. NoCycleLeft'
    BY <1>2 DEF JobEnds, schedVars, jobVars, IInv, TypeOK, TimerAfterBoot, TimerStopped, NoCycleLeft, Past
  <2>5. AppClosing'
    BY <1>2 DEF JobEnds, schedVars, jobVars, IInv, TypeOK, AppClosing, Past
  <2>6. PoolEnder'
    BY <1>2 DEF JobEnds, schedVars, jobVars, IInv, TypeOK, PoolEnder
  <2>7. QED
    BY <2>1, <2>2, <2>3, <2>4, <2>5, <2>6 DEF IInv
<1>3. QED
  BY <1>1, <1>2

\* What requests leave true.
LEMMA RequestIInv ==
  ASSUME IInv, Request \/ Reply
  PROVE  IInv'
<1>1. CASE Request
  <2>1. TypeOK'
    BY <1>1, JobsAssumption, BoundsAssumption DEF Request, schedVars, jobVars, IInv, TypeOK
  <2>2. CyclingExact'
    BY <1>1 DEF Request, schedVars, jobVars, IInv, TypeOK, CyclingExact
  <2>3. TimerAfterBoot' /\ TimerStopped'
    BY <1>1 DEF Request, schedVars, jobVars, Alive, IInv, TypeOK, TimerAfterBoot, TimerStopped
  <2>4. NoCycleLeft'
    BY <1>1 DEF Request, schedVars, jobVars, IInv, TypeOK, TimerAfterBoot, TimerStopped, NoCycleLeft, Past
  <2>5. AppClosing'
    BY <1>1 DEF Request, schedVars, jobVars, IInv, TypeOK, AppClosing, Past
  <2>6. PoolEnder'
    BY <1>1 DEF Request, schedVars, jobVars, IInv, TypeOK, PoolEnder
  <2>7. QED
    BY <2>1, <2>2, <2>3, <2>4, <2>5, <2>6 DEF IInv
<1>2. CASE Reply
  <2>1. TypeOK'
    BY <1>2, BoundsAssumption DEF Reply, schedVars, jobVars, IInv, TypeOK
  <2>2. CyclingExact'
    BY <1>2 DEF Reply, schedVars, jobVars, IInv, TypeOK, CyclingExact
  <2>3. TimerAfterBoot' /\ TimerStopped'
    BY <1>2 DEF Reply, schedVars, jobVars, Alive, IInv, TypeOK, TimerAfterBoot, TimerStopped
  <2>4. NoCycleLeft'
    BY <1>2 DEF Reply, schedVars, jobVars, IInv, TypeOK, TimerAfterBoot, TimerStopped, NoCycleLeft, Past
  <2>5. AppClosing'
    BY <1>2 DEF Reply, schedVars, jobVars, IInv, TypeOK, AppClosing, Past
  <2>6. PoolEnder'
    BY <1>2 DEF Reply, schedVars, jobVars, IInv, TypeOK, PoolEnder
  <2>7. QED
    BY <2>1, <2>2, <2>3, <2>4, <2>5, <2>6 DEF IInv
<1>3. QED
  BY <1>1, <1>2

\* What a shutdown leaves true.
LEMMA StopIInv ==
  ASSUME IInv, NEW s \in Signals, SignalKills(s) \/ Signal(s) \/ StopReturns(s) \/ AppCloses(s)
  PROVE  IInv'
<1>1. CASE SignalKills(s)
  <2>1. TypeOK'
    BY <1>1 DEF SignalKills, schedVars, jobVars, IInv, TypeOK
  <2>2. CyclingExact'
    BY <1>1 DEF SignalKills, schedVars, jobVars, IInv, TypeOK, CyclingExact
  <2>3. TimerAfterBoot' /\ TimerStopped'
    BY <1>1 DEF SignalKills, schedVars, jobVars, Alive, IInv, TypeOK, TimerAfterBoot, TimerStopped
  <2>4. NoCycleLeft'
    BY <1>1 DEF SignalKills, schedVars, jobVars, IInv, TypeOK, TimerAfterBoot, TimerStopped, NoCycleLeft, Past
  <2>5. AppClosing'
    BY <1>1 DEF SignalKills, schedVars, jobVars, IInv, TypeOK, AppClosing, Past
  <2>6. PoolEnder'
    BY <1>1 DEF SignalKills, schedVars, jobVars, IInv, TypeOK, PoolEnder
  <2>7. QED
    BY <2>1, <2>2, <2>3, <2>4, <2>5, <2>6 DEF IInv
<1>2. CASE Signal(s)
  <2>1. TypeOK'
    BY <1>2 DEF Signal, StopTimers, AwaitCycle, CloseApp, schedVars, jobVars, IInv, TypeOK
  <2>2. CyclingExact'
    BY <1>2 DEF Signal, StopTimers, AwaitCycle, CloseApp, schedVars, jobVars, IInv, TypeOK, CyclingExact
  <2>3. TimerAfterBoot' /\ TimerStopped'
    BY <1>2 DEF Signal, StopTimers, AwaitCycle, CloseApp, schedVars, jobVars, Alive, IInv, TypeOK, TimerAfterBoot, TimerStopped
  <2>4. NoCycleLeft'
    BY <1>2 DEF Signal, StopTimers, AwaitCycle, CloseApp, schedVars, jobVars, IInv, TypeOK, TimerAfterBoot, TimerStopped, NoCycleLeft, Past
  <2>5. AppClosing'
    BY <1>2 DEF Signal, StopTimers, AwaitCycle, CloseApp, schedVars, jobVars, IInv, TypeOK, AppClosing, Past
  <2>6. PoolEnder'
    BY <1>2 DEF Signal, StopTimers, AwaitCycle, CloseApp, schedVars, jobVars, IInv, TypeOK, PoolEnder
  <2>7. QED
    BY <2>1, <2>2, <2>3, <2>4, <2>5, <2>6 DEF IInv
<1>3. CASE StopReturns(s)
  <2>1. TypeOK'
    BY <1>3 DEF StopReturns, CloseApp, schedVars, jobVars, IInv, TypeOK
  <2>2. CyclingExact'
    BY <1>3 DEF StopReturns, CloseApp, schedVars, jobVars, IInv, TypeOK, CyclingExact
  <2>3. TimerAfterBoot' /\ TimerStopped'
    BY <1>3 DEF StopReturns, CloseApp, schedVars, jobVars, Alive, IInv, TypeOK, TimerAfterBoot, TimerStopped
  <2>4. NoCycleLeft'
    BY <1>3 DEF StopReturns, CloseApp, schedVars, jobVars, IInv, TypeOK, TimerAfterBoot, TimerStopped, NoCycleLeft, Past
  <2>5. AppClosing'
    BY <1>3 DEF StopReturns, CloseApp, schedVars, jobVars, IInv, TypeOK, AppClosing, Past
  <2>6. PoolEnder'
    BY <1>3 DEF StopReturns, CloseApp, schedVars, jobVars, IInv, TypeOK, PoolEnder
  <2>7. QED
    BY <2>1, <2>2, <2>3, <2>4, <2>5, <2>6 DEF IInv
<1>4. CASE AppCloses(s)
  <2>1. TypeOK'
    BY <1>4 DEF AppCloses, ClosePool, schedVars, jobVars, IInv, TypeOK
  <2>2. CyclingExact'
    BY <1>4 DEF AppCloses, ClosePool, schedVars, jobVars, IInv, TypeOK, CyclingExact
  <2>3. TimerAfterBoot' /\ TimerStopped'
    BY <1>4 DEF AppCloses, ClosePool, schedVars, jobVars, Alive, IInv, TypeOK, TimerAfterBoot, TimerStopped
  <2>4. NoCycleLeft'
    BY <1>4 DEF AppCloses, ClosePool, schedVars, jobVars, IInv, TypeOK, TimerAfterBoot, TimerStopped, NoCycleLeft, Past
  <2>5. AppClosing'
    BY <1>4 DEF AppCloses, ClosePool, schedVars, jobVars, IInv, TypeOK, AppClosing, Past
  <2>6. PoolEnder'
    BY <1>4 DEF AppCloses, ClosePool, schedVars, jobVars, IInv, TypeOK, PoolEnder
  <2>7. QED
    BY <2>1, <2>2, <2>3, <2>4, <2>5, <2>6 DEF IInv
<1>5. QED
  BY <1>1, <1>2, <1>3, <1>4

\* What the end of the pool leaves true.
LEMMA PoolIInv ==
  ASSUME IInv, PoolEnds
  PROVE  IInv'
<1>1. TypeOK'
  BY DEF PoolEnds, schedVars, jobVars, IInv, TypeOK
<1>2. CyclingExact'
  BY DEF PoolEnds, schedVars, jobVars, IInv, TypeOK, CyclingExact
<1>3. TimerAfterBoot' /\ TimerStopped'
  BY DEF PoolEnds, schedVars, jobVars, Alive, IInv, TypeOK, TimerAfterBoot, TimerStopped
<1>4. NoCycleLeft'
  BY DEF PoolEnds, schedVars, jobVars, IInv, TypeOK, TimerAfterBoot, TimerStopped, NoCycleLeft, Past
<1>5. AppClosing'
  BY DEF PoolEnds, schedVars, jobVars, IInv, TypeOK, AppClosing, Past
<1>6. PoolEnder'
  BY DEF PoolEnds, schedVars, jobVars, IInv, TypeOK, PoolEnder
<1>7. QED
  BY <1>1, <1>2, <1>3, <1>4, <1>5, <1>6 DEF IInv

\* Every step leaves the invariant true.
LEMMA NextIInv == IInv /\ [Next]_vars => IInv'
<1> SUFFICES ASSUME IInv, [Next]_vars PROVE IInv'
  OBVIOUS
<1>1. CASE Migrated \/ Listening \/ Started \/ BootFails
  BY <1>1, BootIInv
<1>2. CASE Tick \/ SelectSome \/ SelectNone \/ CycleEnds
  BY <1>2, CycleIInv
<1>3. ASSUME NEW j \in Jobs, JobFires(j) \/ JobEnds(j) PROVE IInv'
  BY <1>3, WorkIInv
<1>4. CASE Request \/ Reply
  BY <1>4, RequestIInv
<1>5. ASSUME NEW s \in Signals, SignalKills(s) \/ Signal(s) \/ StopReturns(s) \/ AppCloses(s)
      PROVE  IInv'
  BY <1>5, StopIInv
<1>6. CASE PoolEnds
  BY <1>6, PoolIInv
<1>7. CASE Exited \/ UNCHANGED vars
  BY <1>7 DEF Exited, vars, schedVars, jobVars, IInv, TypeOK, CyclingExact, TimerAfterBoot,
              TimerStopped, NoCycleLeft, AppClosing, PoolEnder, Past, Alive
<1>8. QED
  BY <1>1, <1>2, <1>3, <1>4, <1>5, <1>6, <1>7 DEF Next

\* The invariant holds always.
LEMMA IInvAlways == Spec => []IInv
BY InitIInv, NextIInv, PTL DEF Spec
-----------------------------------------------------------------------------
\* The variables of the process keep their types.
THEOREM TypeCorrect == Spec => []TypeOK
<1>1. IInv => TypeOK
  BY DEF IInv
<1>2. QED
  BY <1>1, IInvAlways, PTL

\* However slow a cycle is, the interval never starts a second one beside it.
THEOREM CyclesNeverOverlap == Spec => []OneCycleAtATime
<1>1. IInv => OneCycleAtATime
  BY DEF IInv, TypeOK, CyclingExact, OneCycleAtATime
<1>2. QED
  BY <1>1, IInvAlways, PTL

\* Once the scheduler ran, no shutdown ends the pool under a cycle.
THEOREM PoolOutlivesCycle == Spec => []CycleOutlivedByPool
<1>1. IInv => CycleOutlivedByPool
  <2> SUFFICES ASSUME IInv, ~early, pg # "open" PROVE selecting + collecting = 0
    BY DEF CycleOutlivedByPool
  <2>1. PICK s \in Signals : sig[s] = "ending"
    BY DEF IInv, PoolEnder
  <2>2. ~cycling
    BY <2>1 DEF IInv, NoCycleLeft, Past
  <2>3. QED
    BY <2>2 DEF IInv, CyclingExact
<1>2. QED
  BY <1>1, IInvAlways, PTL

\* No shutdown ends the pool under a request.
THEOREM PoolOutlivesRequests == Spec => []RequestsOutlivedByPool
<1>1. IInv => RequestsOutlivedByPool
  BY DEF IInv, PoolEnder, AppClosing, RequestsOutlivedByPool
<1>2. QED
  BY <1>1, IInvAlways, PTL

\* Past stop() no step begins a cycle or moves one on.
THEOREM StopIsFinal == Spec => StoppedForGood
<1> DEFINE Still == selecting' <= selecting /\ collecting' <= collecting
           StillOnceStopped ==
             (\E s \in Signals : sig[s] \in {"closing", "ending"}) /\ ~early => Still
<1>1. IInv /\ [Next]_vars => StillOnceStopped
  <2> SUFFICES ASSUME IInv, [Next]_vars, ~early,
                      NEW s \in Signals, sig[s] \in {"closing", "ending"}
               PROVE  Still
    OBVIOUS
  <2>1. ~timer /\ (boot = "up" \/ ~Alive) /\ ~cycling
    BY DEF IInv, TimerStopped, NoCycleLeft, Past
  <2>2. selecting = 0 /\ collecting = 0
    BY <2>1 DEF IInv, TypeOK, CyclingExact
  <2>3. ~Started /\ ~Tick /\ ~SelectSome /\ ~SelectNone /\ ~CycleEnds
    BY <2>1, <2>2 DEF Started, Tick, SelectSome, SelectNone, CycleEnds
  <2>4. UNCHANGED <<selecting, collecting>>
    BY <2>3 DEF Next, vars, schedVars, Migrated, Listening, BootFails, JobFires, JobEnds, Request,
                Reply, SignalKills, Signal, StopReturns, AppCloses, PoolEnds, Exited
  <2>5. QED
    BY <2>2, <2>4
<1>2. IInv /\ [Next]_vars => [StillOnceStopped]_vars
  BY <1>1
<1>3. QED
  BY <1>2, IInvAlways, PTL DEF Spec, StoppedForGood
=============================================================================
