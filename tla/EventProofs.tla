---------------------------- MODULE EventProofs ----------------------------
(***************************************************************************)
(* Proofs about XeCapture, for any number of events, restarts and          *)
(* interventions, any look-back and any length of time: what the capture   *)
(* of deadlocks and blocking events returns and loses, and what it may     *)
(* believe of its session; and about BlockingGraph, for any sessions, any  *)
(* window and any reports: what is shown of the events and of a snapshot.  *)
(***************************************************************************)
EXTENDS XeCapture, BlockingGraph, SequenceTheorems, FiniteSetTheorems, NaturalTheorems, TLAPS

Event == [at : Nat, form : {"pair", "self", "void"}, place : {"buffer", "ring", "gone"}]
Pcs == {"idle", "ensure", "stop", "drop", "create", "collect", "failed", "insert"}

(* The invariant has two halves that do not need each other: what is known *)
(* of the session, and where the events are.                               *)

SessionTypes ==
    /\ session \in {"none", "valid", "invalid"} /\ running \in BOOLEAN
    /\ sqlStart \in Nat \ {0} /\ ensured \in 0..sqlStart
    /\ createFailed \in BOOLEAN /\ touched \in BOOLEAN
    /\ supported \in {"unknown", "yes", "no"}
    /\ restarts \in 0..MaxRestarts /\ touches \in 0..MaxTouches
    /\ pc \in Pcs /\ read \in SUBSET Stream

\* While the session is replaced nothing is taken for ensured.
ReplacedIsOpen == pc \in {"stop", "drop", "create"} => ensured = 0

SessionInv == SessionTypes /\ ReplacedIsOpen /\ EnsuredMeansRunning

EventTypes ==
    /\ clock \in 0..MaxTime
    /\ events \in [Stream -> Seq(Event)]
    /\ \A s \in Stream : \A e \in DOMAIN events[s] :
          events[s][e].at <= clock /\ events[s][e].form \in Form(s)
    /\ lastCollectedTime \in [Stream -> Int]
    /\ \A s \in Stream : lastCollectedTime[s] = Never \/ lastCollectedTime[s] \in -Lookback..clock
    /\ rows \in [Stream -> SUBSET Nat] /\ saved \in [Stream -> SUBSET Nat]
    /\ past \in [Stream -> SUBSET Nat] /\ excused \in [Stream -> SUBSET Nat]
    /\ \A s \in Stream :
          rows[s] \cup saved[s] \cup past[s] \cup excused[s] \subseteq DOMAIN events[s]

RowsHeld == \A s \in Stream : rows[s] # {} => pc \in {"collect", "insert"} /\ s \in read

\* What this process has returned lies at or before the watermark, and so does what
\* earlier ones have stored, once there is one; all of it has been in the ring.
BehindWatermark ==
    \A s \in Stream :
        /\ \A e \in rows[s] \cup saved[s] :
              lastCollectedTime[s] # Never /\ events[s][e].at <= lastCollectedTime[s]
        /\ \A e \in past[s] \cap In(s, "ring") :
              lastCollectedTime[s] = Never \/ events[s][e].at <= lastCollectedTime[s]

ReturnedShown ==
    \A s \in Stream : \A e \in rows[s] \cup saved[s] \cup past[s] :
        events[s][e].place # "buffer" /\ events[s][e].form # "void"

EventInv == EventTypes /\ RowsHeld /\ BehindWatermark /\ ReturnedShown /\ AccountedFor

IInv == SessionInv /\ EventInv
-----------------------------------------------------------------------------
LEMMA Bounds == /\ Never \in Int /\ Never < -Lookback /\ Lookback \in Nat /\ MaxTime \in Nat
                /\ DateTimeTick \in Nat \ {0}
                /\ MaxRestarts \in Nat /\ MaxTouches \in Nat
BY XeBounds DEF Never

\* A time that is sent comes to less than a tick before it, or later.
LEMMA SentFacts ==
  ASSUME NEW s \in Stream, NEW t \in Int
  PROVE  /\ Sent(s, t) \in Int /\ t - DateTimeTick < Sent(s, t)
         /\ s # "deadlocks" => Sent(s, t) = t
<1>1. DateTimeTick \in Nat \ {0}
  BY Bounds
<1>2. CASE s = "deadlocks"
  <2> DEFINE half == DateTimeTick \div 2
             up == (t + half) \div DateTimeTick
  <2>1. half \in Nat
    BY <1>1
  <2>2. up \in Int /\ (t + half) - DateTimeTick < DateTimeTick * up
    BY <1>1, <2>1
  <2>3. DateTimeTick * up \in Int
    BY <1>1, <2>2
  <2> HIDE DEF half, up
  <2>4. t - DateTimeTick < DateTimeTick * up
    BY <1>1, <2>1, <2>2, <2>3
  <2>5. QED
    BY <1>2, <2>3, <2>4 DEF Sent, half, up
<1>3. CASE s # "deadlocks"
  BY <1>1, <1>3 DEF Sent
<1>4. QED
  BY <1>2, <1>3
-----------------------------------------------------------------------------
(* The session. *)

LEMMA SessionInit == Init => SessionInv
<1> SUFFICES ASSUME Init PROVE SessionInv
  OBVIOUS
<1>1. /\ session \in {"none", "valid", "invalid"} /\ running \in BOOLEAN
      /\ sqlStart = 1 /\ ensured = 0 /\ createFailed = FALSE /\ touched = FALSE
      /\ supported = "unknown" /\ restarts = 0 /\ touches = 0 /\ pc = "idle" /\ read = {}
  BY DEF Init
<1>2. SessionTypes
  <2>1. sqlStart \in Nat \ {0} /\ ensured \in 0..sqlStart
        /\ restarts \in 0..MaxRestarts /\ touches \in 0..MaxTouches
    BY <1>1, Bounds
  <2>2. /\ supported \in {"unknown", "yes", "no"} /\ pc \in Pcs /\ read \in SUBSET Stream
        /\ createFailed \in BOOLEAN /\ touched \in BOOLEAN
    BY <1>1 DEF Pcs
  <2>3. QED
    BY <1>1, <2>1, <2>2 DEF SessionTypes
<1>3. QED
  BY <1>1, <1>2 DEF SessionInv, ReplacedIsOpen, EnsuredMeansRunning

\* Restarts and interventions end what was believed.
LEMMA SessionWorld ==
  ASSUME SessionInv, Tick \/ Touch \/ SqlRestart \/ BackendRestart
         \/ (\E s \in Stream : \/ \E form \in Form(s) : Happens(s, form)
                               \/ \E e \in DOMAIN events[s] : Dispatch(s, e))
  PROVE  SessionInv'
<1> USE DEF SessionInv, SessionTypes, ReplacedIsOpen, EnsuredMeansRunning, Adequate, Pcs,
            sqlVars, mapVars, cycleVars, bookVars, boundVars
<1>1. CASE Tick
  BY <1>1 DEF Tick
<1>2. CASE Touch
  <2>1. /\ touches < MaxTouches /\ touches' = touches + 1 /\ touched' = TRUE
        /\ session' \in {"none", "valid", "invalid"} /\ running' \in BOOLEAN
        /\ UNCHANGED <<sqlStart, mapVars, cycleVars, restarts>>
    BY <1>2 DEF Touch
  <2>2. touches' \in 0..MaxTouches
    BY <2>1, Bounds
  <2>3. QED
    BY <2>1, <2>2
<1>3. CASE SqlRestart
  <2>1. /\ sqlStart' = sqlStart + 1 /\ restarts' \in 0..MaxRestarts
        /\ running' \in BOOLEAN
        /\ UNCHANGED <<session, supported, touched, touches>>
    <3>1. /\ restarts < MaxRestarts /\ restarts' = restarts + 1 /\ sqlStart' = sqlStart + 1
          /\ running' \in IF session = "none" THEN {FALSE} ELSE BOOLEAN
          /\ UNCHANGED <<session, supported, touched, touches>>
      BY <1>3 DEF SqlRestart
    <3>2. QED
      <4>1. restarts' \in 0..MaxRestarts
        BY <3>1, Bounds
      <4>2. QED
        BY <3>1, <4>1
  <2>2. pc' \in {"idle", "insert"} /\ read' \in SUBSET Stream
    BY <1>3 DEF SqlRestart, Abandon
  <2>3. ensured' \in {ensured, sqlStart} /\ createFailed' \in BOOLEAN
    BY <1>3 DEF SqlRestart
  <2>4. QED
    BY <2>1, <2>2, <2>3
<1>4. CASE BackendRestart
  <2>1. /\ restarts < MaxRestarts /\ restarts' = restarts + 1
        /\ supported' = "unknown" /\ ensured' = 0 /\ createFailed' = FALSE
        /\ pc' = "idle" /\ read' = {}
        /\ UNCHANGED <<session, running, sqlStart, touched, touches>>
    BY <1>4 DEF BackendRestart, Abandon
  <2>2. restarts' \in 0..MaxRestarts /\ ensured' \in 0..sqlStart
    BY <2>1, Bounds
  <2>3. QED
    BY <2>1, <2>2
<1>5. ASSUME NEW s \in Stream, NEW form \in Form(s), Happens(s, form) PROVE SessionInv'
  BY <1>5 DEF Happens
<1>6. ASSUME NEW s \in Stream, NEW e \in DOMAIN events[s], Dispatch(s, e) PROVE SessionInv'
  BY <1>6 DEF Dispatch
<1>7. QED
  BY <1>1, <1>2, <1>3, <1>4, <1>5, <1>6

\* The steps of ensureBlockingXeSession.
LEMMA SessionEnsure ==
  ASSUME SessionInv,
         Begin \/ EnsureKnown \/ EnsureCheck \/ EnsureStop \/ EnsureDrop \/ EnsureCreate \/ EnsureFails
  PROVE  SessionInv'
<1> USE DEF SessionInv, SessionTypes, ReplacedIsOpen, EnsuredMeansRunning, Adequate, Pcs,
            sqlVars, mapVars, cycleVars, bookVars, boundVars, ToEnsure, ToCollect
<1>1. CASE Begin
  BY <1>1 DEF Begin
<1>2. CASE EnsureKnown
  BY <1>2 DEF EnsureKnown
<1>3. CASE EnsureCheck
  <2>1. /\ Restarted \/ (ensured = 0 /\ ~createFailed)
        /\ supported' \in {"unknown", supported} /\ createFailed' \in {FALSE, createFailed}
        /\ UNCHANGED <<session, running, sqlStart, restarts, touches, read>>
    BY <1>3 DEF EnsureCheck, ForgetIfRestarted
  <2>2. CASE Adequate
    <3>1. pc' = "collect" /\ ensured' = sqlStart /\ touched' = FALSE
      BY <1>3, <2>2 DEF EnsureCheck
    <3>2. QED
      <4>1. ensured' \in 0..sqlStart'
        BY <2>1, <3>1
      <4>2. QED
        BY <2>1, <2>2, <3>1, <4>1
  <2>3. CASE ~Adequate
    <3>1. /\ pc' \in {"stop", "drop", "create"} /\ touched' = touched
          /\ ensured' = IF Restarted THEN 0 ELSE ensured
      BY <1>3, <2>3 DEF EnsureCheck
    <3>2. ensured' = 0
      BY <2>1, <3>1
    <3>3. QED
      <4>1. ensured' \in 0..sqlStart' /\ ensured' # sqlStart'
        BY <2>1, <3>2
      <4>2. QED
        BY <2>1, <3>1, <3>2, <4>1
  <2>4. QED
    BY <2>2, <2>3
<1>4. CASE EnsureStop \/ EnsureDrop
  BY <1>4 DEF EnsureStop, EnsureDrop
<1>5. CASE EnsureCreate
  <2>1. /\ pc' = "collect" /\ session' = "valid" /\ running' = TRUE
        /\ ensured' = sqlStart /\ touched' = FALSE
        /\ UNCHANGED <<sqlStart, supported, createFailed, read, restarts, touches>>
    BY <1>5 DEF EnsureCreate
  <2>2. ensured' \in 0..sqlStart'
    BY <2>1
  <2>3. QED
    BY <2>1, <2>2
<1>6. CASE EnsureFails
  <2>1. /\ pc' = "collect" /\ session' \in {session, "valid"} /\ running' \in {running, FALSE}
        /\ ensured' = sqlStart /\ createFailed' = TRUE /\ supported' \in {"unknown", supported}
        /\ UNCHANGED <<sqlStart, read, touched, restarts, touches>>
    BY <1>6 DEF EnsureFails
  <2>2. ensured' \in 0..sqlStart'
    BY <2>1
  <2>3. QED
    BY <2>1, <2>2
<1>7. QED
  BY <1>1, <1>2, <1>3, <1>4, <1>5, <1>6

\* The collectors and the INSERT leave the session alone.
LEMMA SessionCollect ==
  ASSUME SessionInv,
         \/ ReadDeadlocks \/ DeadlocksFail \/ ReadBlocking \/ BlockingFails
         \/ Collected \/ Reject \/ Leave \/ Insert
  PROVE  SessionInv'
<1> USE DEF SessionInv, SessionTypes, ReplacedIsOpen, EnsuredMeansRunning, Adequate, Pcs,
            sqlVars, mapVars, cycleVars, bookVars, boundVars, Stream
<1>1. CASE ReadDeadlocks
  BY <1>1 DEF ReadDeadlocks, Answer
<1>2. CASE ReadBlocking
  BY <1>2 DEF ReadBlocking, Answer
<1>3. CASE DeadlocksFail
  BY <1>3 DEF DeadlocksFail, NoAnswer
<1>4. CASE BlockingFails
  BY <1>4 DEF BlockingFails, NoAnswer
<1>5. CASE Collected \/ Reject \/ Leave
  BY <1>5 DEF Collected, Reject, Leave
<1>6. CASE Insert
  BY <1>6 DEF Insert
<1>7. QED
  BY <1>1, <1>2, <1>3, <1>4, <1>5, <1>6

LEMMA SessionNext == SessionInv /\ [Next]_vars => SessionInv'
<1> SUFFICES ASSUME SessionInv, [Next]_vars PROVE SessionInv'
  OBVIOUS
<1>1. CASE UNCHANGED vars
  BY <1>1 DEF vars, sqlVars, mapVars, cycleVars, bookVars, boundVars, SessionInv, SessionTypes,
              ReplacedIsOpen, EnsuredMeansRunning, Adequate
<1>2. QED
  BY <1>1, SessionWorld, SessionEnsure, SessionCollect DEF Next
-----------------------------------------------------------------------------
(* The events. *)

LEMMA EventInit == Init => EventInv
<1> SUFFICES ASSUME Init PROVE EventInv
  OBVIOUS
<1>1. \A s \in Stream : events[s] = <<>> /\ DOMAIN events[s] = {}
  BY DEF Init
<1>2. events \in [Stream -> Seq(Event)]
  BY DEF Init
<1>3. /\ clock = 0 /\ lastCollectedTime \in [Stream -> Int]
      /\ \A s \in Stream : lastCollectedTime[s] = Never
      /\ rows \in [Stream -> SUBSET Nat] /\ saved \in [Stream -> SUBSET Nat]
      /\ past \in [Stream -> SUBSET Nat] /\ excused \in [Stream -> SUBSET Nat]
      /\ \A s \in Stream : rows[s] = {} /\ saved[s] = {} /\ past[s] = {} /\ excused[s] = {}
  BY Bounds DEF Init, Nothing
<1>4. EventTypes
  BY <1>1, <1>2, <1>3, Bounds DEF EventTypes
<1>5. QED
  BY <1>1, <1>3, <1>4 DEF EventInv, RowsHeld, BehindWatermark, ReturnedShown, AccountedFor, In

\* An event is a record with a time.
LEMMA EventFacts ==
  ASSUME EventTypes, NEW s \in Stream, NEW e \in DOMAIN events[s]
  PROVE  e \in Nat /\ events[s][e] \in Event /\ events[s][e].at \in Nat
<1>1. events[s] \in Seq(Event)
  BY DEF EventTypes
<1>2. Len(events[s]) \in Nat /\ DOMAIN events[s] = 1..Len(events[s])
  BY <1>1, LenProperties
<1>3. events[s][e] \in Event
  BY <1>1, <1>2, ElementOfSeq
<1>4. QED
  BY <1>2, <1>3 DEF Event

\* A watermark that is one is a time.
LEMMA WatermarkFacts ==
  ASSUME EventTypes, NEW s \in Stream
  PROVE  /\ lastCollectedTime[s] \in Int /\ Since(s) \in Int /\ Since(s) <= clock /\ -Lookback <= Since(s)
         /\ lastCollectedTime[s] = Never \/ lastCollectedTime[s] \in -Lookback..clock
         /\ Sent(s, lastCollectedTime[s]) \in Int /\ Sent(s, Since(s)) \in Int
<1>1. clock \in Nat /\ Lookback \in Nat
  BY Bounds DEF EventTypes
<1>2. /\ lastCollectedTime[s] \in Int
      /\ lastCollectedTime[s] = Never \/ lastCollectedTime[s] \in -Lookback..clock
  BY DEF EventTypes
<1>3. Since(s) \in Int /\ Since(s) <= clock /\ -Lookback <= Since(s)
  BY <1>1, <1>2 DEF Since
<1>4. QED
  BY <1>2, <1>3, SentFacts

\* A step that touches neither the events nor the books of them.
LEMMA KeepsBooks ==
  ASSUME EventInv, UNCHANGED <<events, lastCollectedTime, rows, saved, past, excused>>,
         clock' \in 0..MaxTime, clock <= clock', RowsHeld'
  PROVE  EventInv'
<1>1. ASSUME NEW s \in Stream, NEW e \in DOMAIN events[s]
      PROVE  events[s][e].at <= clock' /\ events[s][e].form \in Form(s)
  <2>1. events[s][e].at \in Nat /\ events[s][e].at <= clock /\ events[s][e].form \in Form(s)
    BY EventFacts DEF EventInv, EventTypes
  <2>2. clock \in Nat /\ clock' \in Nat
    BY Bounds DEF EventInv, EventTypes
  <2>3. QED
    BY <2>1, <2>2
<1>2. EventTypes'
  <2>1. \A s \in Stream : lastCollectedTime[s] = Never \/ lastCollectedTime[s] \in -Lookback..clock'
    BY Bounds DEF EventInv, EventTypes
  <2>2. QED
    BY <1>1, <2>1 DEF EventInv, EventTypes
<1>3. BehindWatermark' /\ ReturnedShown' /\ AccountedFor'
  BY DEF EventInv, BehindWatermark, ReturnedShown, AccountedFor, In, Behind
<1>4. QED
  BY <1>2, <1>3 DEF EventInv

\* A step in which events come or change their place, or rows are given up: what
\* shows in the ring has shown there before, is excused, or is after the watermark.
LEMMA MovesEvents ==
  ASSUME EventInv, UNCHANGED <<clock, lastCollectedTime, saved, past>>,
         events' \in [Stream -> Seq(Event)],
         \A s \in Stream : \A e \in DOMAIN events[s] :
             /\ e \in DOMAIN events'[s]
             /\ events'[s][e].at = events[s][e].at /\ events'[s][e].form = events[s][e].form
             /\ events'[s][e].place = "buffer" => events[s][e].place = "buffer",
         \A s \in Stream : \A e \in DOMAIN events'[s] :
             /\ events'[s][e].at <= clock /\ events'[s][e].form \in Form(s)
             /\ events'[s][e].place = "ring" =>
                   /\ e \in DOMAIN events[s]
                   /\ \/ events[s][e].place = "ring"
                      \/ events[s][e].place = "buffer" /\ (e \in excused'[s] \/ ~Behind(s, e)),
         rows' \in [Stream -> SUBSET Nat], excused' \in [Stream -> SUBSET Nat],
         \A s \in Stream : /\ rows'[s] \subseteq rows[s] /\ excused[s] \subseteq excused'[s]
                           /\ rows[s] \subseteq rows'[s] \cup excused'[s]
                           /\ excused'[s] \subseteq DOMAIN events'[s],
         RowsHeld'
  PROVE  EventInv'
<1> USE DEF EventInv
<1>1. \A s \in Stream : DOMAIN events[s] \subseteq DOMAIN events'[s]
  OBVIOUS
<1>2. \A s \in Stream :
         rows'[s] \cup saved'[s] \cup past'[s] \cup excused'[s] \subseteq DOMAIN events'[s]
  BY <1>1 DEF EventTypes
<1>3. EventTypes'
  BY <1>2 DEF EventTypes
<1>4. ReturnedShown'
  <2> SUFFICES ASSUME NEW s \in Stream, NEW e \in rows'[s] \cup saved'[s] \cup past'[s]
               PROVE  events'[s][e].place # "buffer" /\ events'[s][e].form # "void"
    BY DEF ReturnedShown
  <2>1. e \in rows[s] \cup saved[s] \cup past[s] /\ e \in DOMAIN events[s]
    BY DEF EventTypes
  <2>2. events[s][e].place # "buffer" /\ events[s][e].form # "void"
    BY <2>1 DEF ReturnedShown
  <2>3. QED
    BY <2>1, <2>2
<1>5. BehindWatermark'
  <2>1. ASSUME NEW s \in Stream, NEW e \in rows'[s] \cup saved'[s]
        PROVE  lastCollectedTime'[s] # Never /\ events'[s][e].at <= lastCollectedTime'[s]
    <3>1. e \in rows[s] \cup saved[s] /\ e \in DOMAIN events[s]
      BY <2>1 DEF EventTypes
    <3>2. lastCollectedTime[s] # Never /\ events[s][e].at <= lastCollectedTime[s]
      BY <3>1 DEF BehindWatermark
    <3>3. QED
      BY <3>1, <3>2
  <2>2. ASSUME NEW s \in Stream, NEW e \in past'[s], e \in DOMAIN events'[s], events'[s][e].place = "ring"
        PROVE  lastCollectedTime'[s] = Never \/ events'[s][e].at <= lastCollectedTime'[s]
    <3>1. e \in past[s] /\ e \in DOMAIN events[s] /\ events[s][e].place # "buffer"
      BY <2>2 DEF EventTypes, ReturnedShown
    <3>2. events[s][e].place = "ring"
      BY <2>2, <3>1
    <3>3. lastCollectedTime[s] = Never \/ events[s][e].at <= lastCollectedTime[s]
      BY <3>1, <3>2 DEF BehindWatermark, In
    <3>4. QED
      BY <3>1, <3>3
  <2>3. QED
    BY <2>1, <2>2 DEF BehindWatermark, In
<1>6. AccountedFor'
  <2> SUFFICES ASSUME NEW s \in Stream, NEW e \in DOMAIN events'[s], events'[s][e].place = "ring",
                      Behind(s, e)', events'[s][e].form # "void", e \notin excused'[s]
               PROVE  e \in saved[s] \cup past[s] \cup rows'[s]
    BY DEF AccountedFor, In
  <2>1. e \in DOMAIN events[s] /\ events'[s][e].at = events[s][e].at /\ events[s][e].form # "void"
    OBVIOUS
  <2>2. Behind(s, e)
    BY <2>1 DEF Behind, Sent
  <2>3. events[s][e].place = "ring"
    BY <2>1, <2>2
  <2>4. e \in saved[s] \cup past[s] \cup rows[s] \cup excused[s]
    BY <2>1, <2>2, <2>3 DEF AccountedFor, In
  <2>5. QED
    BY <2>4
<1>7. QED
  BY <1>3, <1>4, <1>5, <1>6

\* What a session loses keeps its time.
LEMMA EmptiedFacts ==
  ASSUME EventTypes, NEW S \in SUBSET Stream
  PROVE  /\ Emptied(S) \in [Stream -> Seq(Event)]
         /\ \A s \in Stream : DOMAIN Emptied(S)[s] = DOMAIN events[s]
         /\ \A s \in Stream : \A e \in DOMAIN events[s] :
               /\ Emptied(S)[s][e].at = events[s][e].at /\ Emptied(S)[s][e].form = events[s][e].form
               /\ Emptied(S)[s][e].place \in {events[s][e].place, "gone"}
<1>1. ASSUME NEW s \in Stream
      PROVE  /\ Emptied(S)[s] \in Seq(Event) /\ DOMAIN Emptied(S)[s] = DOMAIN events[s]
             /\ \A e \in DOMAIN events[s] :
                   /\ Emptied(S)[s][e].at = events[s][e].at /\ Emptied(S)[s][e].form = events[s][e].form
                   /\ Emptied(S)[s][e].place \in {events[s][e].place, "gone"}
  <2> DEFINE f == [e \in DOMAIN events[s] |-> IF s \in S THEN Placed(events[s][e], "gone")
                                              ELSE events[s][e]]
             n == Len(events[s])
  <2>1. Emptied(S)[s] = f
    BY DEF Emptied
  <2>2. events[s] \in Seq(Event)
    BY DEF EventTypes
  <2>3. n \in Nat /\ DOMAIN events[s] = 1..n
    BY <2>2, LenProperties
  <2>4. ASSUME NEW e \in DOMAIN events[s]
        PROVE  /\ f[e] \in Event /\ f[e].at = events[s][e].at /\ f[e].form = events[s][e].form
               /\ f[e].place \in {events[s][e].place, "gone"}
    <3>1. events[s][e] \in Event
      BY EventFacts
    <3>2. CASE s \in S
      <4>1. f[e] = [at |-> events[s][e].at, form |-> events[s][e].form, place |-> "gone"]
        BY <3>1, <3>2 DEF Placed, Event
      <4>2. QED
        BY <3>1, <4>1 DEF Event
    <3>3. CASE s \notin S
      BY <3>1, <3>3
    <3>4. QED
      BY <3>2, <3>3
  <2>5. f \in [1..n -> Event]
    BY <2>3, <2>4
  <2>6. f \in Seq(Event)
    BY <2>3, <2>5, SeqDef
  <2>7. QED
    BY <2>1, <2>4, <2>6
<1>2. Emptied(S) \in [Stream -> Seq(Event)]
  BY <1>1 DEF Emptied
<1>3. QED
  BY <1>1, <1>2

\* A step that empties buffers, and may give up the rows of the collection.
LEMMA EmptiesKeeps ==
  ASSUME EventInv, NEW S \in SUBSET Stream, events' \in {events, Emptied(S)},
         UNCHANGED <<clock, lastCollectedTime, saved, past>>,
         \/ Abandon
         \/ UNCHANGED <<rows, excused, read>> /\ (pc' = pc \/ pc \in {"stop", "drop"})
  PROVE  EventInv'
<1> USE DEF EventInv
<1>1. /\ events' \in [Stream -> Seq(Event)]
      /\ \A s \in Stream : DOMAIN events'[s] = DOMAIN events[s]
      /\ \A s \in Stream : \A e \in DOMAIN events[s] :
            /\ events'[s][e].at = events[s][e].at /\ events'[s][e].form = events[s][e].form
            /\ events'[s][e].place \in {events[s][e].place, "gone"}
  <2>1. CASE events' = events
    BY <2>1 DEF EventTypes
  <2>2. CASE events' = Emptied(S)
    BY <2>2, EmptiedFacts
  <2>3. QED
    BY <2>1, <2>2
<1>2. /\ rows' \in [Stream -> SUBSET Nat] /\ excused' \in [Stream -> SUBSET Nat]
      /\ \A s \in Stream : /\ rows'[s] \subseteq rows[s] /\ excused[s] \subseteq excused'[s]
                            /\ rows[s] \subseteq rows'[s] \cup excused'[s]
                            /\ excused'[s] \subseteq DOMAIN events[s]
      /\ RowsHeld'
  <2>1. CASE Abandon
    BY <2>1 DEF Abandon, Nothing, Union, EventTypes, RowsHeld
  <2>2. CASE UNCHANGED <<rows, excused, read>> /\ (pc' = pc \/ pc \in {"stop", "drop"})
    BY <2>2 DEF EventTypes, RowsHeld
  <2>3. QED
    BY <2>1, <2>2
<1>3. \A s \in Stream : \A e \in DOMAIN events'[s] :
          events'[s][e].at <= clock /\ events'[s][e].form \in Form(s)
  BY <1>1 DEF EventTypes
<1>4. QED
  BY <1>1, <1>2, <1>3, MovesEvents

\* The world's steps, and STOP and DROP.
LEMMA EventWorld ==
  ASSUME EventInv, Tick \/ Touch \/ SqlRestart \/ EnsureStop \/ EnsureDrop
         \/ (\E s \in Stream : \/ \E form \in Form(s) : Happens(s, form)
                               \/ \E e \in DOMAIN events[s] : Dispatch(s, e))
  PROVE  EventInv'
<1> USE DEF sqlVars, mapVars, cycleVars, bookVars, boundVars
<1>1. CASE Tick
  <2>1. clock' \in 0..MaxTime /\ clock <= clock'
    BY <1>1, Bounds DEF Tick, EventInv, EventTypes
  <2>2. UNCHANGED <<events, lastCollectedTime, rows, saved, past, excused, pc, read>>
    BY <1>1 DEF Tick
  <2>3. QED
    BY <2>1, <2>2, KeepsBooks DEF EventInv, RowsHeld
<1>2. CASE Touch
  <2>1. events' \in {events, Emptied({"blocking"})}
        /\ UNCHANGED <<clock, lastCollectedTime, saved, past, rows, excused, read, pc>>
    BY <1>2 DEF Touch
  <2>2. QED
    BY <2>1, EmptiesKeeps DEF Stream
<1>3. CASE SqlRestart
  <2>1. events' = Emptied(Stream) /\ UNCHANGED <<clock, lastCollectedTime, saved, past>>
        /\ (Abandon \/ UNCHANGED <<rows, excused, read, pc>>)
    BY <1>3 DEF SqlRestart
  <2>2. QED
    BY <2>1, EmptiesKeeps
<1>4. CASE EnsureStop \/ EnsureDrop
  <2>1. events' = Emptied({"blocking"}) /\ pc \in {"stop", "drop"}
        /\ UNCHANGED <<clock, lastCollectedTime, saved, past, rows, excused, read>>
    BY <1>4 DEF EnsureStop, EnsureDrop
  <2>2. QED
    BY <2>1, EmptiesKeeps DEF Stream
<1>5. ASSUME NEW s \in Stream, NEW form \in Form(s), Happens(s, form) PROVE EventInv'
  <2> DEFINE new == [at |-> clock, form |-> form, place |-> "buffer"]
             n == Len(events[s])
  <2>1. events' = [events EXCEPT ![s] = Append(@, new)]
        /\ UNCHANGED <<clock, lastCollectedTime, saved, past, rows, excused, read, pc>>
    BY <1>5 DEF Happens
  <2>2. events[s] \in Seq(Event) /\ new \in Event /\ clock \in Nat
    BY DEF EventInv, EventTypes, Event, Form
  <2>3. /\ Append(events[s], new) \in Seq(Event) /\ n \in Nat
        /\ DOMAIN events[s] = 1..n /\ DOMAIN Append(events[s], new) = 1..(n + 1)
        /\ \A e \in 1..n : Append(events[s], new)[e] = events[s][e]
        /\ Append(events[s], new)[n + 1] = new
    BY <2>2, LenProperties
  <2>4. events' \in [Stream -> Seq(Event)] /\ events'[s] = Append(events[s], new)
        /\ \A d \in Stream \ {s} : events'[d] = events[d]
    BY <2>1, <2>3 DEF EventInv, EventTypes
  <2>5. \A d \in Stream : \A e \in DOMAIN events[d] :
            e \in DOMAIN events'[d] /\ events'[d][e] = events[d][e]
    <3> SUFFICES ASSUME NEW d \in Stream, NEW e \in DOMAIN events[d]
                 PROVE  e \in DOMAIN events'[d] /\ events'[d][e] = events[d][e]
      OBVIOUS
    <3>1. CASE d = s
      <4>1. e \in 1..n /\ e \in 1..(n + 1)
        BY <2>3, <3>1
      <4>2. QED
        BY <2>3, <2>4, <3>1, <4>1
    <3>2. CASE d # s
      BY <2>4, <3>2
    <3>3. QED
      BY <3>1, <3>2
  <2>6. ASSUME NEW d \in Stream, NEW e \in DOMAIN events'[d]
        PROVE  /\ events'[d][e].at <= clock /\ events'[d][e].form \in Form(d)
               /\ events'[d][e].place = "ring" =>
                     e \in DOMAIN events[d] /\ events[d][e].place = "ring"
    <3>1. CASE e \in DOMAIN events[d]
      BY <2>5, <3>1 DEF EventInv, EventTypes
    <3>2. CASE e \notin DOMAIN events[d]
      <4>1. d = s /\ e = n + 1
        BY <2>3, <2>4, <3>2
      <4>2. events'[d][e] = new
        BY <2>3, <2>4, <4>1
      <4>3. events'[d][e].at = clock /\ events'[d][e].form = form /\ events'[d][e].place = "buffer"
        BY <4>2
      <4>4. QED
        BY <1>5, <2>2, <4>1, <4>3
    <3>3. QED
      BY <3>1, <3>2
  <2>7. RowsHeld' /\ \A d \in Stream : excused[d] \subseteq DOMAIN events'[d]
    BY <2>1, <2>5 DEF EventInv, EventTypes, RowsHeld
  <2>8. rows' \in [Stream -> SUBSET Nat] /\ excused' \in [Stream -> SUBSET Nat]
    BY <2>1 DEF EventInv, EventTypes
  <2>9. QED
    BY <2>1, <2>4, <2>5, <2>6, <2>7, <2>8, MovesEvents
<1>6. ASSUME NEW s \in Stream, NEW e \in DOMAIN events[s], Dispatch(s, e) PROVE EventInv'
  <2> DEFINE new == Placed(events[s][e], "ring")
  <2>1. /\ events' = [events EXCEPT ![s] = [events[s] EXCEPT ![e] = new]]
        /\ excused' = IF Behind(s, e)
                      THEN [excused EXCEPT ![s] = @ \cup {e}] ELSE excused
        /\ UNCHANGED <<clock, lastCollectedTime, saved, past, rows, read, pc>>
    BY <1>6 DEF Dispatch
  <2>2. events[s] \in Seq(Event) /\ events[s][e] \in Event /\ e \in Nat /\ events[s][e].place = "buffer"
    BY <1>6, EventFacts DEF EventInv, EventTypes, Dispatch, In
  <2>3. /\ new = [at |-> events[s][e].at, form |-> events[s][e].form, place |-> "ring"]
        /\ new \in Event
    BY <2>2 DEF Placed, Event
  <2>4. /\ [events[s] EXCEPT ![e] = new] \in Seq(Event)
        /\ DOMAIN [events[s] EXCEPT ![e] = new] = DOMAIN events[s]
    BY <2>2, <2>3, LenProperties, ExceptSeq
  <2>5. events' \in [Stream -> Seq(Event)]
        /\ \A d \in Stream : DOMAIN events'[d] = DOMAIN events[d]
    BY <2>1, <2>4 DEF EventInv, EventTypes
  <2>6. \A d \in Stream : \A x \in DOMAIN events[d] :
            events'[d][x] = IF d = s /\ x = e THEN new ELSE events[d][x]
    BY <2>1, <2>5 DEF EventInv, EventTypes
  <2>7. \A d \in Stream : \A x \in DOMAIN events[d] :
            /\ events'[d][x].at = events[d][x].at /\ events'[d][x].form = events[d][x].form
            /\ events'[d][x].place = "buffer" => events[d][x].place = "buffer"
    BY <2>3, <2>6
  <2>8. /\ rows' \in [Stream -> SUBSET Nat] /\ excused' \in [Stream -> SUBSET Nat]
        /\ \A d \in Stream : /\ excused[d] \subseteq excused'[d]
                              /\ excused'[d] \subseteq DOMAIN events[d]
        /\ Behind(s, e) => e \in excused'[s]
    BY <2>1, <2>2 DEF EventInv, EventTypes
  <2>9. ASSUME NEW d \in Stream, NEW x \in DOMAIN events'[d]
        PROVE  /\ events'[d][x].at <= clock /\ events'[d][x].form \in Form(d)
               /\ events'[d][x].place = "ring" =>
                     /\ x \in DOMAIN events[d]
                     /\ \/ events[d][x].place = "ring"
                        \/ events[d][x].place = "buffer" /\ (x \in excused'[d] \/ ~Behind(d, x))
    <3>1. /\ x \in DOMAIN events[d] /\ events'[d][x].at = events[d][x].at
          /\ events'[d][x].form = events[d][x].form
      BY <2>5, <2>7
    <3>2. events'[d][x].at <= clock /\ events'[d][x].form \in Form(d)
      BY <3>1 DEF EventInv, EventTypes
    <3>3. CASE d = s /\ x = e
      BY <2>2, <2>8, <3>1, <3>2, <3>3
    <3>4. CASE ~(d = s /\ x = e)
      BY <2>6, <3>1, <3>2, <3>4
    <3>5. QED
      BY <3>3, <3>4
  <2>10. RowsHeld'
    BY <2>1 DEF EventInv, RowsHeld
  <2>11. QED
    BY <2>1, <2>5, <2>7, <2>8, <2>9, <2>10, MovesEvents
<1>7. QED
  BY <1>1, <1>2, <1>3, <1>4, <1>5, <1>6
-----------------------------------------------------------------------------
(* The collection. *)

\* The steps of ensureBlockingXeSession that leave the buffers alone, queries
\* without an answer, and the way on.
LEMMA EventQuiet ==
  ASSUME EventInv,
         \/ Begin \/ EnsureKnown \/ EnsureCheck \/ EnsureCreate \/ EnsureFails
         \/ DeadlocksFail \/ BlockingFails \/ Collected \/ Leave
  PROVE  EventInv'
<1> USE DEF sqlVars, mapVars, cycleVars, bookVars, boundVars, Stream
<1>1. UNCHANGED <<clock, events, lastCollectedTime, rows, saved, past, excused>>
  <2>1. CASE Begin \/ EnsureKnown \/ Collected \/ Leave
    BY <2>1 DEF Begin, EnsureKnown, Collected, Leave, ToEnsure, ToCollect
  <2>2. CASE EnsureCheck \/ EnsureCreate \/ EnsureFails
    BY <2>2 DEF EnsureCheck, EnsureCreate, EnsureFails, ToCollect
  <2>3. CASE DeadlocksFail \/ BlockingFails
    BY <2>3 DEF DeadlocksFail, BlockingFails, NoAnswer
  <2>4. QED
    BY <2>1, <2>2, <2>3
<1>2. RowsHeld'
  <2> USE DEF EventInv, RowsHeld
  <2>1. CASE Begin \/ EnsureKnown \/ EnsureCheck \/ EnsureCreate \/ EnsureFails
    <3>1. pc \notin {"collect", "insert"}
      BY <2>1 DEF Begin, EnsureKnown, EnsureCheck, EnsureCreate, EnsureFails
    <3>2. QED
      BY <1>1, <3>1
  <2>2. CASE DeadlocksFail \/ BlockingFails
    BY <1>1, <2>2 DEF DeadlocksFail, BlockingFails, NoAnswer
  <2>3. CASE Collected
    BY <1>1, <2>3 DEF Collected
  <2>4. CASE Leave
    BY <1>1, <2>4 DEF Leave
  <2>5. QED
    BY <2>1, <2>2, <2>3, <2>4
<1>3. clock \in Nat /\ clock \in 0..MaxTime
  BY DEF EventInv, EventTypes
<1>4. QED
  BY <1>1, <1>2, <1>3, KeepsBooks

\* A rejected collection gives up its rows.
LEMMA EventReject == ASSUME EventInv, Reject PROVE EventInv'
<1>1. /\ UNCHANGED <<clock, events, lastCollectedTime, saved, past>>
      /\ rows' = Nothing /\ excused' = Union(excused, rows)
  BY DEF Reject, sqlVars, mapVars, bookVars, boundVars
<1>2. /\ rows' \in [Stream -> SUBSET Nat] /\ excused' \in [Stream -> SUBSET Nat]
      /\ \A s \in Stream : /\ rows'[s] \subseteq rows[s] /\ excused[s] \subseteq excused'[s]
                            /\ rows[s] \subseteq rows'[s] \cup excused'[s]
                            /\ excused'[s] \subseteq DOMAIN events[s]
  BY <1>1 DEF Nothing, Union, EventInv, EventTypes
<1>3. RowsHeld'
  BY <1>1 DEF Nothing, RowsHeld
<1>4. /\ events' \in [Stream -> Seq(Event)]
      /\ \A s \in Stream : \A e \in DOMAIN events'[s] :
            events'[s][e].at <= clock /\ events'[s][e].form \in Form(s)
  BY <1>1 DEF EventInv, EventTypes
<1>5. QED
  BY <1>1, <1>2, <1>3, <1>4, MovesEvents

\* What is inserted is behind the watermark and was not inserted before.
LEMMA EventInsert == ASSUME EventInv, Insert PROVE EventInv'
<1> USE DEF EventInv
<1>1. PICK ok \in SUBSET Stream :
          LET stored == [s \in Stream |-> IF s \in ok THEN rows[s] ELSE {}]
              dropped == [s \in Stream |-> rows[s] \ stored[s]]
          IN saved' = Union(saved, stored) /\ excused' = Union(excused, dropped)
  BY DEF Insert
<1>2. UNCHANGED <<clock, events, lastCollectedTime, past>> /\ rows' = Nothing
  BY DEF Insert, sqlVars, mapVars, boundVars
<1>3. /\ saved' \in [Stream -> SUBSET Nat] /\ excused' \in [Stream -> SUBSET Nat]
      /\ \A s \in Stream :
            /\ saved[s] \subseteq saved'[s] /\ saved'[s] \subseteq saved[s] \cup rows[s]
            /\ excused[s] \subseteq excused'[s] /\ excused'[s] \subseteq excused[s] \cup rows[s]
            /\ rows[s] \subseteq saved'[s] \cup excused'[s]
  BY <1>1 DEF Union, EventTypes
<1>4. rows' \in [Stream -> SUBSET Nat] /\ \A s \in Stream : rows'[s] = {}
  BY <1>2 DEF Nothing
<1>5. EventTypes'
  BY <1>2, <1>3, <1>4 DEF EventTypes
<1>6. BehindWatermark' /\ ReturnedShown'
  BY <1>2, <1>3, <1>4 DEF BehindWatermark, ReturnedShown, In
<1>7. RowsHeld'
  BY <1>4 DEF RowsHeld
<1>8. AccountedFor'
  BY <1>2, <1>3, <1>4 DEF AccountedFor, In, Behind
<1>9. QED
  BY <1>5, <1>6, <1>7, <1>8

\* A new process has no watermark, so it has nothing to account for.
LEMMA EventRestart == ASSUME EventInv, BackendRestart PROVE EventInv'
<1> USE DEF EventInv
<1>1. /\ UNCHANGED <<clock, events>> /\ lastCollectedTime' = [s \in Stream |-> Never]
      /\ past' = Union(past, saved) /\ saved' = Nothing
      /\ rows' = Nothing /\ excused' = Union(excused, rows)
  BY DEF BackendRestart, Abandon, sqlVars
<1>2. /\ lastCollectedTime' \in [Stream -> Int]
      /\ \A s \in Stream : lastCollectedTime'[s] = Never
  BY <1>1, Bounds
<1>3. /\ rows' \in [Stream -> SUBSET Nat] /\ saved' \in [Stream -> SUBSET Nat]
      /\ past' \in [Stream -> SUBSET Nat] /\ excused' \in [Stream -> SUBSET Nat]
      /\ \A s \in Stream : /\ rows'[s] = {} /\ saved'[s] = {}
                            /\ past'[s] \cup excused'[s] \subseteq DOMAIN events[s]
  BY <1>1 DEF Nothing, Union, EventTypes
<1>4. EventTypes'
  BY <1>1, <1>2, <1>3 DEF EventTypes
<1>5. RowsHeld' /\ BehindWatermark' /\ ReturnedShown'
  BY <1>1, <1>2, <1>3 DEF RowsHeld, BehindWatermark, ReturnedShown, Union
<1>6. AccountedFor'
  BY <1>2 DEF AccountedFor, Behind
<1>7. QED
  BY <1>4, <1>5, <1>6

\* An answer: the new events lie after what was asked for, the watermark moves to the
\* last of them, and all others of the ring that it passes were behind it or before the
\* look-back.
LEMMA EventAnswer ==
  ASSUME EventInv, NEW s \in Stream, Running(s), Answer(s)
  PROVE  EventInv' /\ AsksForNew
<1> USE DEF EventInv
<1> DEFINE asked == Sent(s, Since(s))
           new == NewEvents(s) \ OfForm(s, NewEvents(s), "void")
           newest == Max(Time(s, new))
           old == {e \in In(s, "ring") : /\ new # {} /\ lastCollectedTime[s] = Never
                                         /\ events[s][e].at <= Sent(s, Since(s))}
           mark == IF new = {} THEN lastCollectedTime[s]
                   ELSE IF newest > Since(s) THEN newest ELSE Since(s)
<1>1. PICK kept \in Chained(s, new) :
        /\ rows' = IF pc = "failed" THEN rows ELSE [rows EXCEPT ![s] = kept]
        /\ excused' = [excused EXCEPT ![s] = @ \cup old \cup (IF pc = "failed" THEN new ELSE new \ kept)]
  BY DEF Answer
<1> DEFINE held == IF pc = "failed" THEN rows[s] ELSE kept
           lost == IF pc = "failed" THEN new ELSE new \ kept
<1>2. /\ UNCHANGED <<clock, events, pc, saved, past>> /\ read' = read \cup {s}
      /\ lastCollectedTime' = [lastCollectedTime EXCEPT ![s] = mark]
      /\ rows' = [rows EXCEPT ![s] = held]
      /\ excused' = [excused EXCEPT ![s] = @ \cup old \cup lost]
  <2>1. lastCollectedTime' = [lastCollectedTime EXCEPT ![s] = mark]
    BY DEF Answer, EventTypes
  <2>2. rows' = [rows EXCEPT ![s] = held]
    BY <1>1 DEF EventTypes
  <2>3. QED
    BY <1>1, <2>1, <2>2 DEF Answer, sqlVars, boundVars
<1>3. rows[s] = {} /\ pc \in {"collect", "failed"} /\ s \notin read
  BY DEF Running, RowsHeld
<1>4. /\ kept \subseteq new /\ held \subseteq new /\ lost \subseteq new /\ new \subseteq held \cup lost
      /\ pc = "failed" => held = {}
  BY <1>1, <1>3 DEF Chained
<1>5. /\ new \subseteq In(s, "ring") /\ In(s, "ring") \subseteq DOMAIN events[s]
      /\ new \in SUBSET Nat /\ old \in SUBSET Nat /\ old \subseteq DOMAIN events[s]
      /\ \A e \in new : events[s][e].form # "void"
      /\ \A e \in In(s, "ring") : events[s][e].form # "void" /\ events[s][e].at > asked => e \in new
  <2>1. DOMAIN events[s] \subseteq Nat
    BY EventFacts
  <2>2. NewEvents(s) \subseteq In(s, "ring") /\ In(s, "ring") \subseteq DOMAIN events[s]
    BY DEF NewEvents, In
  <2>3. QED
    BY <2>1, <2>2 DEF NewEvents, OfForm
<1>6. clock \in Nat /\ asked \in Int
  BY WatermarkFacts DEF EventTypes
<1>7. \A e \in new : events[s][e].at \in Nat /\ events[s][e].at > asked /\ events[s][e].at <= clock
  BY <1>5, EventFacts DEF NewEvents, EventTypes
<1>8. ASSUME new # {}
      PROVE  /\ mark \in Int /\ mark # Never /\ lastCollectedTime[s] <= mark /\ Since(s) <= mark
             /\ mark \in -Lookback..clock /\ \A e \in new : events[s][e].at <= mark
  <2>1. newest \in Nat /\ newest <= clock /\ \A e \in new : events[s][e].at <= newest
    <3>1. Time(s, new) \in SUBSET Nat /\ Time(s, new) # {} /\ \A t \in Time(s, new) : t <= clock
      BY <1>7, <1>8 DEF Time
    <3>2. Max(Time(s, new)) \in Time(s, new) /\ \A t \in Time(s, new) : t <= Max(Time(s, new))
      BY <1>6, <3>1, GreatestOf
    <3>3. QED
      BY <3>1, <3>2 DEF Time
  <2>2. mark = IF newest > Since(s) THEN newest ELSE Since(s)
    BY <1>8
  <2> HIDE DEF mark, newest, new
  <2>3. mark \in Int /\ Since(s) <= mark /\ newest <= mark /\ mark <= clock
    BY <1>6, <2>1, <2>2, WatermarkFacts
  <2>4. mark \in -Lookback..clock /\ mark # Never /\ lastCollectedTime[s] <= mark
    <3>1. -Lookback <= mark
      BY <2>3, Bounds, WatermarkFacts
    <3>2. lastCollectedTime[s] = Never \/ lastCollectedTime[s] = Since(s)
      BY DEF Since
    <3>3. QED
      BY <1>6, <2>3, <3>1, <3>2, Bounds, WatermarkFacts
  <2>5. \A e \in new : events[s][e].at <= mark
    BY <1>7, <2>1, <2>3
  <2>6. QED
    BY <2>3, <2>4, <2>5
<1>9. new = {} => mark = lastCollectedTime[s]
  OBVIOUS
<1>10. mark \in Int /\ (mark = Never \/ mark \in -Lookback..clock)
  BY <1>8, <1>9, WatermarkFacts
<1>11. old # {} => new # {}
  OBVIOUS
<1>12. \A e \in In(s, "ring") :
          new # {} /\ lastCollectedTime[s] = Never /\ events[s][e].at <= asked => e \in old
  OBVIOUS
<1> HIDE DEF held, lost, mark, old, new, newest, asked
<1>13. /\ lastCollectedTime' \in [Stream -> Int] /\ lastCollectedTime'[s] = mark
       /\ rows' \in [Stream -> SUBSET Nat] /\ rows'[s] = held
       /\ excused' \in [Stream -> SUBSET Nat] /\ excused'[s] = excused[s] \cup old \cup lost
       /\ \A d \in Stream \ {s} : /\ lastCollectedTime'[d] = lastCollectedTime[d]
                                  /\ rows'[d] = rows[d] /\ excused'[d] = excused[d]
  <2>1. held \in SUBSET Nat /\ lost \in SUBSET Nat
    BY <1>4, <1>5
  <2>2. QED
    BY <1>2, <1>5, <1>10, <2>1 DEF EventTypes
<1>14. EventTypes'
  <2>1. ASSUME NEW d \in Stream
        PROVE  /\ lastCollectedTime'[d] = Never \/ lastCollectedTime'[d] \in -Lookback..clock
               /\ rows'[d] \cup saved[d] \cup past[d] \cup excused'[d] \subseteq DOMAIN events[d]
    <3>1. CASE d # s
      BY <1>13, <3>1 DEF EventTypes
    <3>2. CASE d = s
      BY <1>4, <1>5, <1>10, <1>13, <3>2 DEF EventTypes
    <3>3. QED
      BY <3>1, <3>2
  <2>2. QED
    BY <1>2, <1>13, <2>1 DEF EventTypes
<1>15. RowsHeld'
  <2> SUFFICES ASSUME NEW d \in Stream, rows'[d] # {} PROVE pc \in {"collect", "insert"} /\ d \in read'
    BY <1>2 DEF RowsHeld
  <2>1. CASE d # s
    BY <1>2, <1>13, <2>1 DEF RowsHeld
  <2>2. CASE d = s
    BY <1>2, <1>3, <1>4, <1>13, <2>2
  <2>3. QED
    BY <2>1, <2>2
<1>16. ReturnedShown'
  <2> SUFFICES ASSUME NEW d \in Stream, NEW e \in rows'[d] \cup saved[d] \cup past[d]
               PROVE  events[d][e].place # "buffer" /\ events[d][e].form # "void"
    BY <1>2 DEF ReturnedShown
  <2>1. CASE e \in rows[d] \cup saved[d] \cup past[d]
    BY <2>1 DEF ReturnedShown
  <2>2. CASE e \notin rows[d] \cup saved[d] \cup past[d]
    <3>1. d = s /\ e \in new
      BY <1>4, <1>13, <2>2
    <3>2. QED
      BY <1>5, <3>1 DEF In
  <2>3. QED
    BY <2>1, <2>2
\* What is stored of the events that show is not after a watermark, nor after the new one.
<1>17. ASSUME NEW e \in saved[s]
       PROVE  /\ e \in DOMAIN events[s] /\ events[s][e].at \in Nat
              /\ lastCollectedTime[s] # Never /\ events[s][e].at <= lastCollectedTime[s]
  BY EventFacts DEF EventTypes, BehindWatermark
<1>18. ASSUME NEW e \in past[s] \cap In(s, "ring")
       PROVE  /\ events[s][e].at \in Nat /\ events[s][e].form # "void"
              /\ lastCollectedTime[s] = Never \/ events[s][e].at <= lastCollectedTime[s]
  BY <1>5, EventFacts DEF BehindWatermark, ReturnedShown
<1>19. BehindWatermark'
  <2>1. ASSUME NEW d \in Stream, NEW e \in rows'[d] \cup saved[d]
        PROVE  lastCollectedTime'[d] # Never /\ events[d][e].at <= lastCollectedTime'[d]
    <3>1. CASE d # s
      BY <1>13, <2>1, <3>1 DEF BehindWatermark
    <3>2. CASE d = s /\ e \in saved[s]
      <4>1. CASE new = {}
        BY <1>9, <1>13, <1>17, <3>2, <4>1
      <4>2. CASE new # {}
        BY <1>8, <1>13, <1>17, <3>2, <4>2, WatermarkFacts
      <4>3. QED
        BY <4>1, <4>2
    <3>3. CASE d = s /\ e \in rows'[s]
      <4>1. e \in new
        BY <1>4, <1>13, <3>3
      <4>2. QED
        BY <1>8, <1>13, <3>3, <4>1
    <3>4. QED
      BY <2>1, <3>1, <3>2, <3>3
  <2>2. ASSUME NEW d \in Stream, NEW e \in past[d] \cap In(d, "ring")
        PROVE  lastCollectedTime'[d] = Never \/ events[d][e].at <= lastCollectedTime'[d]
    <3>1. CASE d # s
      BY <1>13, <2>2, <3>1 DEF BehindWatermark
    <3>2. CASE d = s /\ new = {}
      BY <1>9, <1>13, <1>18, <2>2, <3>2
    <3>3. CASE d = s /\ new # {}
      <4>1. events[s][e].at \in Nat
        BY <1>18, <2>2, <3>3
      <4>2. CASE events[s][e].at > asked
        <5>1. e \in new
          BY <1>5, <1>18, <2>2, <3>3, <4>2
        <5>2. QED
          BY <1>8, <1>13, <3>3, <5>1
      <4>3. CASE ~(events[s][e].at > asked)
        <5>1. PICK n \in new : TRUE
          BY <3>3
        <5>2. events[s][n].at > asked /\ events[s][n].at \in Nat /\ events[s][n].at <= mark /\ mark \in Int
          BY <1>7, <1>8, <3>3, <5>1
        <5>3. events[s][e].at <= mark
          BY <1>6, <4>1, <4>3, <5>2
        <5>4. QED
          BY <1>13, <3>3, <5>3
      <4>4. QED
        BY <4>2, <4>3
    <3>4. QED
      BY <3>1, <3>2, <3>3
  <2>3. QED
    BY <1>2, <2>1, <2>2 DEF BehindWatermark, In
<1>20. AccountedFor'
  <2> SUFFICES ASSUME NEW d \in Stream, NEW e \in In(d, "ring"), Behind(d, e)', events[d][e].form # "void"
               PROVE  e \in saved[d] \cup past[d] \cup rows'[d] \cup excused'[d]
    BY <1>2 DEF AccountedFor, In
  <2>1. CASE Behind(d, e)
    <3>1. e \in saved[d] \cup past[d] \cup rows[d] \cup excused[d]
      BY <2>1 DEF AccountedFor
    <3>2. rows[d] \subseteq rows'[d] /\ excused[d] \subseteq excused'[d]
      BY <1>3, <1>13
    <3>3. QED
      BY <3>1, <3>2
  <2>2. CASE ~Behind(d, e)
    <3>1. d = s /\ new # {}
      BY <1>2, <1>9, <1>13, <2>2 DEF Behind, Sent
    <3>2. events[s][e].at \in Nat
      BY <1>5, <3>1, EventFacts
    <3>3. CASE events[s][e].at > asked
      <4>1. e \in new
        BY <1>5, <3>1, <3>3
      <4>2. QED
        BY <1>4, <1>13, <3>1, <4>1
    <3>4. CASE ~(events[s][e].at > asked)
      <4>1. events[s][e].at <= asked
        BY <1>6, <3>2, <3>4
      <4>2. lastCollectedTime[s] = Never
        BY <2>2, <3>1, <4>1 DEF Behind, Since, asked
      <4>3. e \in old
        BY <1>12, <3>1, <4>1, <4>2
      <4>4. QED
        BY <1>13, <3>1, <4>3
    <3>5. QED
      BY <3>3, <3>4
  <2>3. QED
    BY <2>1, <2>2
<1>21. AsksForNew
  <2> SUFFICES ASSUME NEW d \in Stream, NEW e \in rows'[d] \ rows[d], e \in saved[d] \cup past[d]
               PROVE  \/ /\ d = "deadlocks" /\ lastCollectedTime[d] # Never
                         /\ lastCollectedTime[d] - DateTimeTick < events[d][e].at
                         /\ events[d][e].at <= lastCollectedTime[d]
                      \/ /\ e \notin saved[d] /\ lastCollectedTime[d] = Never
                         /\ clock - Lookback - DateTimeTick < events[d][e].at
    BY DEF AsksForNew
  <2>1. d = s /\ e \in new /\ e \in In(s, "ring")
    BY <1>4, <1>5, <1>13
  <2>2. /\ events[s][e].at \in Nat /\ Since(s) \in Int
        /\ Since(s) - DateTimeTick < events[s][e].at
        /\ s # "deadlocks" => Since(s) < events[s][e].at
    <3>1. events[s][e].at > asked /\ events[s][e].at \in Nat
      BY <1>7, <2>1
    <3>2. /\ asked \in Int /\ Since(s) \in Int /\ Since(s) - DateTimeTick < asked
          /\ s # "deadlocks" => asked = Since(s)
      BY WatermarkFacts, SentFacts DEF asked
    <3>3. QED
      BY <3>1, <3>2, Bounds
  <2>3. CASE lastCollectedTime[s] = Never
    <3>1. e \notin saved[s]
      BY <1>17, <2>3
    <3>2. Since(s) = clock - Lookback
      BY <2>3 DEF Since
    <3>3. QED
      BY <2>1, <2>2, <2>3, <3>1, <3>2
  <2>4. CASE lastCollectedTime[s] # Never
    <3>1. events[s][e].at <= lastCollectedTime[s]
      BY <1>17, <1>18, <2>1, <2>4
    <3>2. Since(s) = lastCollectedTime[s]
      BY <2>4 DEF Since
    <3>3. QED
      BY <2>1, <2>2, <2>4, <3>1, <3>2
  <2>5. QED
    BY <2>3, <2>4
<1>22. QED
  BY <1>14, <1>15, <1>16, <1>19, <1>20, <1>21

LEMMA EventNext == EventInv /\ [Next]_vars => EventInv'
<1> SUFFICES ASSUME EventInv, [Next]_vars PROVE EventInv'
  OBVIOUS
<1>1. CASE UNCHANGED vars
  <2>1. /\ UNCHANGED <<clock, events, lastCollectedTime, rows, saved, past, excused>>
        /\ UNCHANGED <<pc, read>>
    BY <1>1 DEF vars, sqlVars, mapVars, cycleVars, bookVars, boundVars
  <2>2. clock \in Nat /\ clock \in 0..MaxTime
    BY DEF EventInv, EventTypes
  <2>3. RowsHeld'
    BY <2>1 DEF EventInv, RowsHeld
  <2>4. QED
    BY <2>1, <2>2, <2>3, KeepsBooks
<1>2. CASE ReadDeadlocks \/ ReadBlocking
  BY <1>2, EventAnswer DEF ReadDeadlocks, ReadBlocking, Stream
<1>3. QED
  BY <1>1, <1>2, EventWorld, EventQuiet, EventReject, EventInsert, EventRestart DEF Next

\* Only an answer brings rows.
LEMMA RowsAreAnswers == EventInv /\ [Next]_vars => [AsksForNew]_vars
<1> SUFFICES ASSUME EventInv, Next PROVE AsksForNew
  OBVIOUS
<1>1. CASE ReadDeadlocks \/ ReadBlocking
  BY <1>1, EventAnswer DEF ReadDeadlocks, ReadBlocking, Stream
<1>2. CASE rows' = rows \/ rows' = Nothing
  BY <1>2 DEF AsksForNew, Nothing
<1>3. CASE Tick \/ Touch \/ SqlRestart \/ BackendRestart
  BY <1>2, <1>3 DEF Tick, Touch, SqlRestart, BackendRestart, Abandon, cycleVars
<1>4. CASE \E s \in Stream : \/ \E form \in Form(s) : Happens(s, form)
                             \/ \E e \in DOMAIN events[s] : Dispatch(s, e)
  BY <1>2, <1>4 DEF Happens, Dispatch, cycleVars
<1>5. CASE Begin \/ EnsureKnown \/ EnsureCheck \/ EnsureStop \/ EnsureDrop \/ EnsureCreate \/ EnsureFails
  BY <1>2, <1>5 DEF Begin, EnsureKnown, EnsureCheck, EnsureStop, EnsureDrop, EnsureCreate, EnsureFails,
                    ToEnsure, ToCollect
<1>6. CASE DeadlocksFail \/ BlockingFails \/ Collected \/ Reject \/ Leave \/ Insert
  BY <1>2, <1>6 DEF DeadlocksFail, BlockingFails, NoAnswer, Collected, Reject, Leave, Insert
<1>7. QED
  BY <1>1, <1>3, <1>4, <1>5, <1>6 DEF Next
-----------------------------------------------------------------------------
LEMMA Inductive == Spec => []IInv
<1>1. Init => IInv
  BY SessionInit, EventInit DEF IInv
<1>2. IInv /\ [Next]_vars => IInv'
  BY SessionNext, EventNext DEF IInv
<1>3. QED
  BY <1>1, <1>2, PTL DEF Spec

\* The types of the specification, with sequences of events that have been.
LEMMA TypesFollow == IInv => TypeOK
<1> SUFFICES ASSUME IInv PROVE TypeOK
  OBVIOUS
<1>1. ASSUME NEW s \in Stream
      PROVE  events[s] \in Seq([at : 0..clock, form : Form(s), place : {"buffer", "ring", "gone"}])
  <2> DEFINE Seen == [at : 0..clock, form : Form(s), place : {"buffer", "ring", "gone"}]
  <2>1. events[s] \in Seq(Event) /\ clock \in Nat
    BY DEF IInv, EventInv, EventTypes
  <2>2. Len(events[s]) \in Nat /\ events[s] \in [1..Len(events[s]) -> Event]
    BY <2>1, LenProperties
  <2>3. ASSUME NEW e \in 1..Len(events[s]) PROVE events[s][e] \in Seen
    <3>1. events[s][e] \in Event /\ e \in DOMAIN events[s]
      BY <2>2
    <3>2. events[s][e].at <= clock /\ events[s][e].form \in Form(s)
      BY <3>1 DEF IInv, EventInv, EventTypes
    <3>3. QED
      BY <2>1, <3>1, <3>2 DEF Event
  <2>4. events[s] \in [1..Len(events[s]) -> Seen]
    BY <2>2, <2>3
  <2> HIDE DEF Seen
  <2>5. events[s] \in Seq(Seen)
    BY <2>2, <2>4, SeqDef
  <2>6. QED
    BY <2>5 DEF Seen
<1>2. ASSUME NEW s \in Stream
      PROVE  lastCollectedTime[s] \in {Never} \cup -Lookback..clock
  BY DEF IInv, EventInv, EventTypes
<1>3. \A s \in Stream :
          /\ rows[s] \cup saved[s] \cup past[s] \cup excused[s] \subseteq DOMAIN events[s]
          /\ rows[s] # {} => pc \in {"collect", "insert"} /\ s \in read
  BY DEF IInv, EventInv, EventTypes, RowsHeld
<1>4. SessionTypes /\ clock \in 0..MaxTime
  BY DEF IInv, SessionInv, EventInv, EventTypes
<1>5. QED
  BY <1>1, <1>2, <1>3, <1>4 DEF TypeOK, SessionTypes, Pcs

\* The maps of the process name only start times and times that have been, and
\* rows are held only between a collector's answer and the INSERT (deadlocks.ts,
\* blocking-events.ts and the part of collectAll that calls them).
THEOREM TypeCorrect == Spec => []TypeOK
BY Inductive, TypesFollow, PTL

\* Stored events are returned again only by the first answer of a new process, as far
\* back as it looks, and, of the deadlocks, within a DATETIME tick of the watermark that
\* collectDeadlocks asks by; blocking events never within one life.
THEOREM ReturnedAgain == Spec => FetchedOnce
<1>1. IInv /\ [Next]_vars => [AsksForNew]_vars
  BY RowsAreAnswers DEF IInv
<1>2. QED
  BY <1>1, Inductive, PTL DEF Spec, FetchedOnce

\* An event that shows and will not be asked for any more is stored, held, or lost for
\* a reason the specification names: the two collectors, the chains they build and the
\* INSERTs lose no other.
THEOREM EventsAccounted == Spec => []AccountedFor
<1>1. IInv => AccountedFor
  BY DEF IInv, EventInv
<1>2. QED
  BY <1>1, Inductive, PTL

\* What ensureBlockingXeSession takes for ensured does run with the right definition,
\* unless somebody has changed the session since.
THEOREM EnsuredRuns == Spec => []EnsuredMeansRunning
<1>1. IInv => EnsuredMeansRunning
  BY DEF IInv, SessionInv
<1>2. QED
  BY <1>1, Inductive, PTL

-----------------------------------------------------------------------------
(***************************************************************************)
(* BlockingGraph: the rows made of the blocked-process reports, and the    *)
(* trees made of a snapshot of the sessions.  Its definitions by recursive *)
(* functions - the walk from a head, the walk up to a circle, the loop     *)
(* over the sessions, the growth of a tree - are first shown to have       *)
(* values (BoundedRecursion), then reasoned about step by step             *)
(* (SetInduction).                                                         *)
(***************************************************************************)

\* The bound of all the recursive functions.
SpidCount == Cardinality(Spid)

LEMMA SpidFinite == /\ IsFiniteSet(Spid) /\ SpidCount \in Nat
                    /\ Spid \subseteq Nat \ {0} /\ Nobody \notin Spid
<1>1. SpidCount \in Nat
  BY GraphBounds, FS_CardinalityType DEF SpidCount
<1>2. QED
  BY <1>1, GraphBounds DEF Nobody

\* What is known of the reports: each is about two sessions, and they come by time.
ReportRow == [at : Nat, blocker : Spid, blocked : Spid]
InOrder(pairs) ==
    /\ pairs \in Seq(ReportRow)
    /\ \A i, j \in DOMAIN pairs : i <= j => pairs[i].at <= pairs[j].at

\* One step of the walk from a head.
Onward(pairs, g, S) == S \cup {pairs[i].blocked : i \in {k \in g : pairs[k].blocker \in S}}

\* The steps of the walk whose last one is Reached.
IsWalk(walk, pairs, g, head) ==
    /\ walk[0] = {head} /\ \A n \in 1..SpidCount : walk[n] = Onward(pairs, g, walk[n - 1])
    /\ Reached(pairs, g, head) = walk[SpidCount]

LEMMA ReachedIs ==
  ASSUME NEW pairs, NEW g, NEW head
  PROVE  \E walk : IsWalk(walk, pairs, g, head)
<1> DEFINE A == SUBSET ({head} \cup Blocked(pairs, g))
           step == [n \in 1..SpidCount |-> [S \in A |-> Onward(pairs, g, S)]]
           Is(w) == w = [n \in 0..SpidCount |-> IF n = 0 THEN {head} ELSE Onward(pairs, g, w[n - 1])]
<1>1. PICK w \in [0..SpidCount -> A] : w[0] = {head} /\ \A n \in 1..SpidCount : w[n] = step[n][w[n - 1]]
  <2>1. {head} \in A
    OBVIOUS
  <2>2. step \in [1..SpidCount -> [A -> A]]
    <3>1. ASSUME NEW S \in A PROVE Onward(pairs, g, S) \in A
      BY DEF Onward, Blocked
    <3>2. QED
      BY <3>1
  <2> DEFINE a == {head}
  <2>3. a \in A
    BY <2>1
  <2>4. SpidCount \in Nat
    BY SpidFinite
  <2> HIDE DEF A, step, a
  <2>5. \E w : Recursive(w, SpidCount, A, a, step)
    BY <2>2, <2>3, <2>4, BoundedRecursion
  <2>6. QED
    BY <2>5 DEF a, Recursive
<1>2. Is(w)
  <2>1. ASSUME NEW n \in 0..SpidCount, n # 0 PROVE w[n] = Onward(pairs, g, w[n - 1])
    <3>1. n \in 1..SpidCount /\ n - 1 \in 0..SpidCount
      BY <2>1, SpidFinite
    <3>2. w[n - 1] \in A
      BY <1>1, <3>1
    <3>3. QED
      BY <1>1, <3>1, <3>2
  <2> HIDE DEF A, step
  <2>2. w = [n \in 0..SpidCount |-> w[n]]
    BY <1>1
  <2>3. QED
    BY <1>1, <2>1, <2>2
<1>3. Reached(pairs, g, head) = (CHOOSE v : Is(v))[SpidCount]
  BY DEF Reached, SpidCount, Onward
<1> DEFINE walk == CHOOSE v : Is(v)
<1>4. Is(walk)
  <2> HIDE DEF Is
  <2>1. QED
    BY <1>2
<1>5. walk[0] = {head} /\ \A n \in 1..SpidCount : walk[n] = Onward(pairs, g, walk[n - 1])
  <2> HIDE DEF walk
  <2>1. \A n \in 0..SpidCount : walk[n] = IF n = 0 THEN {head} ELSE Onward(pairs, g, walk[n - 1])
    BY <1>4
  <2>2. QED
    BY <2>1, SpidFinite
<1>6. QED
  <2> HIDE DEF walk
  <2>1. Reached(pairs, g, head) = walk[SpidCount]
    BY <1>3 DEF walk
  <2>2. QED
    BY <1>5, <2>1 DEF IsWalk

\* A walk is chosen for each head.
Walk(pairs, g, head) == CHOOSE walk : IsWalk(walk, pairs, g, head)

LEMMA WalkGrows ==
  ASSUME NEW pairs, NEW g, NEW head
  PROVE  /\ IsWalk(Walk(pairs, g, head), pairs, g, head)
         /\ \A n \in 0..SpidCount : \A m \in 0..n : Walk(pairs, g, head)[m] \subseteq Walk(pairs, g, head)[n]
<1> DEFINE walk == Walk(pairs, g, head)
<1>1. IsWalk(walk, pairs, g, head)
  BY ReachedIs DEF Walk
<1> HIDE DEF walk
<1> DEFINE S == {n \in Nat : n <= SpidCount => \A m \in 0..n : walk[m] \subseteq walk[n]}
<1>2. 0 \in S
  <2>1. \A m \in 0..0 : m = 0
    OBVIOUS
  <2>2. QED
    BY <2>1
<1>3. ASSUME NEW n \in S PROVE n + 1 \in S
  <2>1. SUFFICES ASSUME n + 1 <= SpidCount, NEW m \in 0..n + 1 PROVE walk[m] \subseteq walk[n + 1]
    OBVIOUS
  <2>2. n \in Nat /\ n + 1 \in 1..SpidCount /\ n <= SpidCount /\ (n + 1) - 1 = n
    BY <1>3, <2>1, SpidFinite
  <2>3. walk[n] \subseteq walk[n + 1]
    BY <1>1, <2>2 DEF IsWalk, Onward
  <2>4. CASE m = n + 1
    BY <2>4
  <2>5. CASE m # n + 1
    <3>1. m \in 0..n
      BY <2>1, <2>2, <2>5
    <3>2. walk[m] \subseteq walk[n]
      BY <1>3, <2>2, <3>1
    <3>3. QED
      BY <2>3, <3>2
  <2>6. QED
    BY <2>4, <2>5
<1>4. \A n \in Nat : n \in S
  <2>1. S \in SUBSET Nat
    OBVIOUS
  <2> HIDE DEF S
  <2>2. QED
    BY <1>2, <1>3, <2>1, SetInduction
<1>5. \A n \in 0..SpidCount : \A m \in 0..n : walk[m] \subseteq walk[n]
  BY <1>4, SpidFinite
<1>6. QED
  BY <1>1, <1>5 DEF walk

\* Without circles every blocked session is reached from a head: a session is found after as
\* many steps as sessions can be in front of it.
LEMMA HeadsReachAll ==
  ASSUME NEW pairs \in Seq(ReportRow), NEW g \in SUBSET DOMAIN pairs,
         NEW rank \in [Spid -> 1..SpidCount],
         \A i \in g : rank[pairs[i].blocker] < rank[pairs[i].blocked],
         NEW s \in Blocked(pairs, g)
  PROVE  \E h \in Heads(pairs, g) : s \in Reached(pairs, g, h) /\ Reached(pairs, g, h) # {h}
<1> DEFINE free == Blockers(pairs, g) \ Blocked(pairs, g)
           All == Blockers(pairs, g) \cup Blocked(pairs, g)
           Found(t) == \E h \in free : t \in Walk(pairs, g, h)[rank[t] - 1]
           S == {n \in Nat : \A t \in All : rank[t] <= n => Found(t)}
<1>1. /\ All \subseteq Spid
      /\ \A i \in g : pairs[i].blocker \in Spid /\ pairs[i].blocked \in Spid
  <2>1. \A i \in g : pairs[i] \in ReportRow
    OBVIOUS
  <2>2. \A i \in g : pairs[i].blocker \in Spid /\ pairs[i].blocked \in Spid
    BY <2>1 DEF ReportRow
  <2>3. QED
    BY <2>2 DEF Blockers, Blocked
<1>2. SpidCount \in Nat /\ \A t \in Spid : rank[t] \in Nat /\ rank[t] >= 1 /\ rank[t] <= SpidCount
  BY SpidFinite
<1>3. 0 \in S
  <2>1. \A t \in All : ~(rank[t] <= 0)
    BY <1>1, <1>2
  <2>2. QED
    BY <2>1
<1>4. ASSUME NEW n \in S PROVE n + 1 \in S
  <2>1. n \in Nat
    OBVIOUS
  <2>2. ASSUME NEW t \in All, rank[t] <= n + 1 PROVE Found(t)
    <3>1. CASE t \notin Blocked(pairs, g)
      <4>1. t \in free
        BY <2>2, <3>1
      <4>2. t \in Walk(pairs, g, t)[0] /\ 0 \in 0..rank[t] - 1 /\ rank[t] - 1 \in 0..SpidCount
        BY <1>1, <1>2, <2>2, WalkGrows DEF IsWalk
      <4>3. t \in Walk(pairs, g, t)[rank[t] - 1]
        BY <4>2, WalkGrows
      <4>4. QED
        BY <4>1, <4>3
    <3>2. CASE t \in Blocked(pairs, g)
      <4>1. PICK i \in g : t = pairs[i].blocked
        BY <3>2 DEF Blocked
      <4> DEFINE b == pairs[i].blocker
      <4>2. b \in All /\ b \in Spid /\ t \in Spid /\ rank[b] < rank[t]
        BY <1>1, <4>1 DEF Blockers
      <4>3. rank[b] <= n
        BY <1>2, <2>1, <2>2, <4>2
      <4>4. PICK h \in free : b \in Walk(pairs, g, h)[rank[b] - 1]
        BY <1>4, <4>2, <4>3
      <4>5. t \in Walk(pairs, g, h)[rank[b]]
        <5>1. rank[b] \in 1..SpidCount
          BY <1>2, <4>2
        <5>2. t \in Onward(pairs, g, Walk(pairs, g, h)[rank[b] - 1])
          BY <4>1, <4>4 DEF Onward
        <5>3. QED
          BY <5>1, <5>2, WalkGrows DEF IsWalk
      <4>6. rank[b] \in 0..rank[t] - 1 /\ rank[t] - 1 \in 0..SpidCount
        BY <1>2, <4>2
      <4>7. t \in Walk(pairs, g, h)[rank[t] - 1]
        BY <4>5, <4>6, WalkGrows
      <4>8. QED
        BY <4>7
    <3>3. QED
      BY <3>1, <3>2
  <2>3. QED
    <3> HIDE DEF Found, All
    <3>1. QED
      BY <2>1, <2>2
<1>5. SpidCount \in S
  <2>1. S \in SUBSET Nat
    OBVIOUS
  <2> HIDE DEF S
  <2>2. QED
    BY <1>2, <1>3, <1>4, <2>1, SetInduction
<1>6. PICK h \in free : s \in Walk(pairs, g, h)[rank[s] - 1]
  <2>1. s \in All /\ rank[s] <= SpidCount
    BY <1>1, <1>2
  <2>2. Found(s)
    BY <1>5, <2>1
  <2>3. QED
    BY <2>2
<1>7. s \in Reached(pairs, g, h)
  <2>1. SpidCount \in 0..SpidCount /\ rank[s] - 1 \in 0..SpidCount
    BY <1>1, <1>2
  <2>2. QED
    BY <1>6, <2>1, WalkGrows DEF IsWalk
<1>8. h \in Heads(pairs, g) /\ s # h
  BY DEF Heads
<1>9. QED
  BY <1>7, <1>8

\* No gap larger than the window after i and up to j.
NoGap(pairs, i, j) ==
    \A k \in 2..Len(pairs) : i < k /\ k <= j => pairs[k].at - pairs[k - 1].at <= GroupWindow

LEMMA TwoNumbers ==
  ASSUME NEW i \in Nat, NEW j \in Nat
  PROVE  /\ i <= j => Min({i, j}) = i /\ Max({i, j}) = j
         /\ j <= i => Min({i, j}) = j /\ Max({i, j}) = i
<1>1. {i, j} \in SUBSET Nat /\ {i, j} # {}
  OBVIOUS
<1>2. \A x \in {i, j} : x <= i + j
  OBVIOUS
<1>3. Min({i, j}) \in {i, j} /\ \A y \in {i, j} : Min({i, j}) <= y
  <2> DEFINE S == {i, j}
  <2>1. S \in SUBSET Nat /\ S # {}
    BY <1>1
  <2> HIDE DEF S
  <2>2. Min(S) \in S /\ \A y \in S : Min(S) <= y
    BY <2>1, LeastOf
  <2>3. QED
    BY <2>2 DEF S
<1>4. Max({i, j}) \in {i, j} /\ \A y \in {i, j} : y <= Max({i, j})
  <2> DEFINE S == {i, j}
             b == i + j
  <2>1. S \in SUBSET Nat /\ S # {} /\ b \in Nat /\ \A x \in S : x <= b
    BY <1>1, <1>2
  <2> HIDE DEF S, b
  <2>2. Max(S) \in S /\ \A y \in S : y <= Max(S)
    BY <2>1, GreatestOf
  <2>3. QED
    BY <2>2 DEF S
<1>5. QED
  BY <1>3, <1>4

LEMMA SameGroupIs ==
  ASSUME NEW pairs \in Seq(ReportRow), NEW i \in DOMAIN pairs, NEW j \in DOMAIN pairs
  PROVE  SameGroup(pairs, i, j) <=> NoGap(pairs, i, j) /\ NoGap(pairs, j, i)
<1>1. i \in Nat /\ j \in Nat
  OBVIOUS
<1>2. CASE i <= j
  <2>1. Min({i, j}) = i /\ Max({i, j}) = j
    BY <1>1, <1>2, TwoNumbers
  <2>2. NoGap(pairs, j, i)
    BY <1>1, <1>2 DEF NoGap
  <2>3. QED
    BY <2>1, <2>2 DEF SameGroup, NoGap
<1>3. CASE j <= i
  <2>1. Min({i, j}) = j /\ Max({i, j}) = i
    BY <1>1, <1>3, TwoNumbers
  <2>2. NoGap(pairs, i, j)
    BY <1>1, <1>3 DEF NoGap
  <2>3. QED
    BY <2>1, <2>2 DEF SameGroup, NoGap
<1>4. QED
  BY <1>1, <1>2, <1>3

\* The groups part the reports into intervals.
LEMMA GroupFacts ==
  ASSUME NEW pairs \in Seq(ReportRow), NEW g \in Groups(pairs)
  PROVE  /\ g \in SUBSET DOMAIN pairs /\ g # {}
         /\ \A i \in g, j \in DOMAIN pairs : j \in g <=> NoGap(pairs, i, j) /\ NoGap(pairs, j, i)
         /\ \A i \in g, j \in g, k \in DOMAIN pairs : i <= k /\ k <= j => k \in g
<1>1. PICK i0 \in DOMAIN pairs : g = {j \in DOMAIN pairs : SameGroup(pairs, i0, j)}
  BY DEF Groups
<1>2. \A j \in DOMAIN pairs : j \in g <=> NoGap(pairs, i0, j) /\ NoGap(pairs, j, i0)
  BY <1>1, SameGroupIs
<1>3. \A j \in DOMAIN pairs : j \in Nat
  OBVIOUS
<1>4. ASSUME NEW i \in DOMAIN pairs, NEW j \in DOMAIN pairs, NEW k \in DOMAIN pairs,
             NoGap(pairs, i, j), NoGap(pairs, j, k)
      PROVE  NoGap(pairs, i, k)
  BY <1>3, <1>4 DEF NoGap
<1>5. NoGap(pairs, i0, i0)
  BY <1>3 DEF NoGap
<1>6. ASSUME NEW i \in g, NEW j \in DOMAIN pairs
      PROVE  j \in g <=> NoGap(pairs, i, j) /\ NoGap(pairs, j, i)
  BY <1>1, <1>2, <1>4, <1>6
<1>7. ASSUME NEW i \in g, NEW j \in g, NEW k \in DOMAIN pairs, i <= k, k <= j PROVE k \in g
  <2>1. i \in DOMAIN pairs /\ j \in DOMAIN pairs /\ NoGap(pairs, i, j)
    BY <1>1, <1>6
  <2>2. NoGap(pairs, i, k) /\ NoGap(pairs, k, i)
    BY <1>3, <1>7, <2>1 DEF NoGap
  <2>3. QED
    BY <1>6, <2>2
<1>8. QED
  BY <1>1, <1>2, <1>5, <1>6, <1>7

\* The report that gives a group its time is one of the group.
LEMMA MedianInGroup ==
  ASSUME NEW pairs \in Seq(ReportRow), NEW g \in Groups(pairs)
  PROVE  Min(g) + Cardinality(g) \div 2 \in g
<1>1. /\ g \in SUBSET DOMAIN pairs /\ g # {}
      /\ \A i \in g, j \in g, k \in DOMAIN pairs : i <= k /\ k <= j => k \in g
  BY GroupFacts
<1>2. g \in SUBSET Nat /\ Len(pairs) \in Nat /\ \A x \in g : x <= Len(pairs)
  BY <1>1
<1>3. PICK a \in g : a = Min(g) /\ \A x \in g : a <= x
  BY <1>1, <1>2, LeastOf
<1>4. PICK b \in g : \A x \in g : x <= b
  BY <1>1, <1>2, GreatestOf
<1>5. a \in Nat /\ b \in Nat /\ a <= b /\ 1 <= a /\ b <= Len(pairs)
  BY <1>1, <1>2, <1>3, <1>4
<1>6. ASSUME NEW x \in a..b PROVE x \in g
  <2>1. x \in DOMAIN pairs /\ a <= x /\ x <= b
    BY <1>5
  <2>2. QED
    BY <1>1, <2>1
<1>7. g = a..b
  <2>1. ASSUME NEW x \in g PROVE x \in a..b
    BY <1>2, <1>3, <1>4, <1>5
  <2>2. QED
    BY <1>6, <2>1
<1>8. Cardinality(g) = b - a + 1
  BY <1>5, <1>7, FS_Interval
<1>9. a + (b - a + 1) \div 2 \in a..b
  BY <1>5
<1>10. QED
  BY <1>3, <1>7, <1>8, <1>9

\* Groups follow each other, and so do their times.
LEMMA GroupsFollow ==
  ASSUME NEW pairs, InOrder(pairs), NEW g \in Groups(pairs), Len(pairs) \in g,
         NEW h \in Groups(pairs), g # h
  PROVE  EventTime(pairs, h) < EventTime(pairs, g)
<1> DEFINE i == Min(h) + Cardinality(h) \div 2
           j == Min(g) + Cardinality(g) \div 2
<1>1. pairs \in Seq(ReportRow) /\ i \in h /\ j \in g
  BY MedianInGroup DEF InOrder
<1>2. /\ EventTime(pairs, h) = pairs[i].at /\ EventTime(pairs, g) = pairs[j].at
  BY DEF EventTime
<1> HIDE DEF i, j
<1>3. i \in DOMAIN pairs /\ j \in DOMAIN pairs /\ Len(pairs) \in DOMAIN pairs
  BY <1>1, GroupFacts
<1>4. i \in 1..Len(pairs) /\ j \in 1..Len(pairs)
  BY <1>1, <1>3
<1>5. g \cap h = {}
  <2>1. SUFFICES ASSUME NEW x \in g, x \in h PROVE g = h
    OBVIOUS
  <2>2. /\ g \in SUBSET DOMAIN pairs /\ h \in SUBSET DOMAIN pairs
        /\ \A y \in DOMAIN pairs : y \in g <=> NoGap(pairs, x, y) /\ NoGap(pairs, y, x)
        /\ \A y \in DOMAIN pairs : y \in h <=> NoGap(pairs, x, y) /\ NoGap(pairs, y, x)
    BY <1>1, <2>1, GroupFacts
  <2>3. QED
    BY <2>2
<1>6. i < j
  <2>1. j <= i => i \in g
    BY <1>1, <1>3, <1>4, GroupFacts
  <2>2. QED
    BY <1>1, <1>4, <1>5, <2>1
<1>7. NoGap(pairs, j, i)
  BY <1>4, <1>6 DEF NoGap
<1>8. ~NoGap(pairs, i, j)
  BY <1>1, <1>3, <1>5, <1>7, GroupFacts
<1>9. PICK k \in 2..Len(pairs) : i < k /\ k <= j /\ ~(pairs[k].at - pairs[k - 1].at <= GroupWindow)
  BY <1>8 DEF NoGap
<1>10. /\ k \in DOMAIN pairs /\ k - 1 \in DOMAIN pairs
       /\ \A x \in DOMAIN pairs : pairs[x].at \in Nat
  <2>1. \A x \in DOMAIN pairs : pairs[x] \in ReportRow
    BY <1>1
  <2>2. QED
    BY <1>1, <1>9, <2>1 DEF ReportRow
<1>11. pairs[i].at <= pairs[k - 1].at /\ pairs[k].at <= pairs[j].at
  BY <1>3, <1>4, <1>9, <1>10 DEF InOrder
<1>12. pairs[k - 1].at < pairs[k].at
  BY <1>9, <1>10, GraphBounds
<1>13. QED
  BY <1>2, <1>3, <1>10, <1>11, <1>12

\* Merging the rows of one head keeps the chain of the latest group.
LEMMA LatestKept ==
  ASSUME NEW pairs, InOrder(pairs), NEW g \in Groups(pairs), Len(pairs) \in g,
         NEW h \in Heads(pairs, g), Reached(pairs, g, h) # {h}
  PROVE  \E r \in Merged(buildBlockingChains(pairs)) : r.chain = Reached(pairs, g, h)
<1> DEFINE chains == buildBlockingChains(pairs)
           own == {x \in chains : x.head = h}
           c0 == [at |-> EventTime(pairs, g), head |-> h, chain |-> Reached(pairs, g, h)]
           Last0(c) == \A d \in chains : d.head = h => d.at <= c.at
           c1 == CHOOSE c \in own : Last0(c)
<1>1. ASSUME NEW d \in chains, d.head = h
      PROVE  \E f \in Groups(pairs) : d.at = EventTime(pairs, f) /\ d.chain = Reached(pairs, f, h)
  BY <1>1 DEF buildBlockingChains
<1>2. \A f \in Groups(pairs) : EventTime(pairs, f) \in Nat
  <2>1. ASSUME NEW f \in Groups(pairs) PROVE EventTime(pairs, f) \in Nat
    <3>1. pairs \in Seq(ReportRow)
      BY DEF InOrder
    <3>2. Min(f) + Cardinality(f) \div 2 \in DOMAIN pairs
      BY <3>1, MedianInGroup, GroupFacts
    <3>3. pairs[Min(f) + Cardinality(f) \div 2] \in ReportRow
      BY <3>1, <3>2
    <3>4. QED
      BY <3>3 DEF EventTime, ReportRow
  <2>2. QED
    BY <2>1
<1>3. c0 \in own
  BY DEF buildBlockingChains
<1>4. ASSUME NEW d \in chains, d.head = h
      PROVE  /\ d.at <= c0.at /\ d.at \in Nat
             /\ c0.at <= d.at => d.chain = c0.chain
  <2>1. PICK f \in Groups(pairs) : d.at = EventTime(pairs, f) /\ d.chain = Reached(pairs, f, h)
    BY <1>1, <1>4
  <2>2. CASE f = g
    BY <1>2, <2>1, <2>2
  <2>3. CASE f # g
    <3>1. d.at < c0.at
      BY <2>1, <2>3, GroupsFollow
    <3>2. QED
      BY <1>2, <2>1, <3>1
  <2>4. QED
    BY <2>2, <2>3
<1>5. Last0(c0)
  BY <1>4
<1>6. c1 \in own /\ Last0(c1)
  <2> HIDE DEF Last0, own, c0
  <2>1. QED
    BY <1>3, <1>5
<1>7. c1.chain = Reached(pairs, g, h)
  <2>1. c0.at <= c1.at
    BY <1>3, <1>6
  <2>2. QED
    BY <1>4, <1>6, <2>1
<1>8. \E r \in Merged(chains) : r.chain = c1.chain
  <2>1. h \in {c.head : c \in chains}
    BY <1>3
  <2>2. [at |-> Min({c.at : c \in own}), head |-> h, chain |-> c1.chain] \in Merged(chains)
    BY <2>1 DEF Merged
  <2>3. QED
    BY <2>2
<1>9. QED
  BY <1>7, <1>8

LEMMA LatestIsShown == InOrder(reports) => LatestGroupShown
<1> SUFFICES ASSUME InOrder(reports), reports # <<>> PROVE LatestGroupShown
  BY DEF LatestGroupShown
<1> DEFINE g == CHOOSE x \in Groups(reports) : Len(reports) \in x
           merged == Merged(buildBlockingChains(reports))
           n == Len(reports)
<1>1. reports \in Seq(ReportRow) /\ n \in DOMAIN reports
  BY DEF InOrder
<1>2. g \in Groups(reports) /\ n \in g
  <2>1. SameGroup(reports, n, n)
    BY <1>1, SameGroupIs DEF NoGap
  <2>2. {j \in DOMAIN reports : SameGroup(reports, n, j)} \in Groups(reports)
    BY <1>1 DEF Groups
  <2>3. n \in {j \in DOMAIN reports : SameGroup(reports, n, j)}
    BY <1>1, <2>1
  <2>4. \E x \in Groups(reports) : n \in x
    BY <2>2, <2>3
  <2>5. QED
    BY <2>4
<1> HIDE DEF g
<1>3. ASSUME NEW rank \in [Spid -> 1..SpidCount],
             \A i \in g : rank[reports[i].blocker] < rank[reports[i].blocked],
             NEW s \in Blocked(reports, g)
      PROVE  \E r \in merged : s \in r.chain
  <2>1. g \in SUBSET DOMAIN reports
    BY <1>1, <1>2, GroupFacts
  <2>2. PICK h \in Heads(reports, g) : s \in Reached(reports, g, h) /\ Reached(reports, g, h) # {h}
    BY <1>1, <1>3, <2>1, HeadsReachAll
  <2>3. \E r \in merged : r.chain = Reached(reports, g, h)
    BY <1>2, <2>2, LatestKept
  <2>4. QED
    BY <2>2, <2>3
<1>4. QED
  BY <1>3 DEF LatestGroupShown, g, SpidCount

-----------------------------------------------------------------------------
(* buildBlockingTrees *)

\* parent is a relation of sessions to the ones they wait for; a circle closes on itself.
ParentsOf(parent) == DOMAIN parent \subseteq Spid /\ \A s \in DOMAIN parent : parent[s] \in Spid
Closed(parent, C) == C # {} /\ C \subseteq DOMAIN parent /\ \A s \in C : parent[s] \in C

LEMMA ParentsAre ==
  ASSUME NEW w \in [Spid -> Spid \cup {Nobody}]
  PROVE  /\ ParentsOf(Parents(w)) /\ Sessions(w) \subseteq Spid /\ IsFiniteSet(Sessions(w))
         /\ DOMAIN Parents(w) \subseteq Sessions(w)
         /\ \A s \in DOMAIN Parents(w) : Parents(w)[s] \in Sessions(w)
<1>1. Sessions(w) \subseteq Spid
  BY DEF Sessions
<1>2. IsFiniteSet(Sessions(w))
  BY <1>1, SpidFinite, FS_Subset
<1>3. QED
  BY <1>1, <1>2 DEF Parents, ParentsOf

\* The walk up: sessions, one the parent of the other, and then Nobody.
IsUp(up, parent, from) ==
    /\ up \in [1..SpidCount + 1 -> Spid \cup {Nobody}] /\ up[1] = from
    /\ \A i \in 2..SpidCount + 1 : up[i] = IF up[i - 1] \in DOMAIN parent THEN parent[up[i - 1]] ELSE Nobody

Stops(up, visited) ==
    {i \in DOMAIN up : up[i] \in visited \cup {Nobody} \/ \E j \in 1..i - 1 : up[j] = up[i]}

\* What WalkUp gives, for the place k at which the walk stops.
WalkIs(walk, up, visited, k) ==
    LET again == {j \in 1..k - 1 : up[j] = up[k]} IN
    /\ k \in Stops(up, visited) /\ \A i \in Stops(up, visited) : k <= i
    /\ walk.path = {up[j] : j \in 1..k - 1}
    /\ again # {} => up[Min(again)] \in walk.circle
    /\ walk.circle \subseteq Spid \cup {Nobody}

LEMMA WalkUpIs ==
  ASSUME NEW parent, ParentsOf(parent), NEW visited, NEW from \in Spid
  PROVE  \E up, k : IsUp(up, parent, from) /\ WalkIs(WalkUp(parent, visited, from), up, visited, k)
<1> DEFINE A == Spid \cup {Nobody}
           Above(s) == IF s \in DOMAIN parent THEN parent[s] ELSE Nobody
           step == [n \in 1..SpidCount |-> [s \in A |-> Above(s)]]
           Is(u) == u = [i \in 1..SpidCount + 1 |-> IF i = 1 THEN from ELSE Above(u[i - 1])]
<1>0. SpidCount \in Nat
  BY SpidFinite
<1>1. PICK w \in [0..SpidCount -> A] : w[0] = from /\ \A n \in 1..SpidCount : w[n] = Above(w[n - 1])
  <2>1. \A s \in A : Above(s) \in A
    BY DEF ParentsOf
  <2>2. from \in A /\ step \in [1..SpidCount -> [A -> A]]
    BY <2>1
  <2>3. \E w : Recursive(w, SpidCount, A, from, step)
    <3> HIDE DEF A, step
    <3>1. QED
      BY <1>0, <2>2, BoundedRecursion
  <2>4. PICK w : Recursive(w, SpidCount, A, from, step)
    BY <2>3
  <2>5. w \in [0..SpidCount -> A] /\ w[0] = from /\ \A n \in 1..SpidCount : w[n] = step[n][w[n - 1]]
    BY <2>4 DEF Recursive
  <2>6. ASSUME NEW n \in 1..SpidCount PROVE w[n] = Above(w[n - 1])
    <3>1. n - 1 \in 0..SpidCount
      BY <1>0
    <3>2. w[n - 1] \in A
      BY <2>5, <3>1
    <3>3. QED
      BY <2>5, <3>2
  <2> HIDE DEF A, step, Above
  <2>7. QED
    BY <2>5, <2>6
<1>2. \E u : Is(u)
  <2> DEFINE u == [i \in 1..SpidCount + 1 |-> w[i - 1]]
  <2>1. ASSUME NEW i \in 1..SpidCount + 1 PROVE u[i] = IF i = 1 THEN from ELSE Above(u[i - 1])
    <3>1. CASE i = 1
      BY <1>1, <3>1
    <3>2. CASE i # 1
      <4>1. i - 1 \in 1..SpidCount /\ i - 1 \in 1..SpidCount + 1
        BY <1>0, <3>2
      <4>2. u[i] = w[i - 1] /\ u[i - 1] = w[(i - 1) - 1]
        BY <4>1
      <4>3. w[i - 1] = Above(w[(i - 1) - 1])
        BY <1>1, <4>1
      <4>4. QED
        BY <3>2, <4>2, <4>3
    <3>3. QED
      BY <3>1, <3>2
  <2> HIDE DEF Above
  <2>2. u = [i \in 1..SpidCount + 1 |-> u[i]]
    OBVIOUS
  <2>3. Is(u)
    <3> HIDE DEF u
    <3>1. QED
      BY <2>1, <2>2
  <2>4. QED
    BY <2>3
<1> DEFINE up == CHOOSE u : Is(u)
<1>3. Is(up)
  <2> HIDE DEF Is
  <2>1. QED
    BY <1>2
<1> HIDE DEF up
<1>4. \A i \in 1..SpidCount + 1 : up[i] = IF i = 1 THEN from ELSE Above(up[i - 1])
  BY <1>3
<1>5. DOMAIN up = 1..SpidCount + 1 /\ up = [i \in 1..SpidCount + 1 |-> up[i]]
  BY <1>3
<1>6. \A i \in 1..SpidCount + 1 : up[i] \in A
  BY <1>4 DEF ParentsOf
<1>7. IsUp(up, parent, from)
  <2>1. up \in [1..SpidCount + 1 -> A]
    BY <1>5, <1>6
  <2>2. 1 \in 1..SpidCount + 1 /\ \A i \in 2..SpidCount + 1 : i \in 1..SpidCount + 1 /\ i # 1
    BY <1>0
  <2>3. QED
    BY <1>4, <2>1, <2>2 DEF IsUp
<1>8. Stops(up, visited) \in SUBSET Nat /\ Stops(up, visited) # {}
  <2>1. Stops(up, visited) \in SUBSET Nat
    BY <1>5 DEF Stops
  <2>2. SUFFICES ASSUME Stops(up, visited) = {} PROVE FALSE
    BY <2>1
  <2>3. \A i \in 1..SpidCount + 1 : up[i] \in Spid
    BY <1>5, <1>6, <2>2 DEF Stops
  <2>4. up \in [1..SpidCount + 1 -> Spid]
    BY <1>5, <2>3
  <2>5. IsFiniteSet(1..SpidCount + 1) /\ Cardinality(1..SpidCount + 1) = SpidCount + 1
    BY <1>0, FS_Interval
  <2>6. IsFiniteSet(Spid) /\ Cardinality(Spid) < Cardinality(1..SpidCount + 1)
    BY <1>0, <2>5, SpidFinite DEF SpidCount
  <2>7. PICK x, y \in 1..SpidCount + 1 : x # y /\ up[x] = up[y]
    BY <2>4, <2>5, <2>6, FS_PigeonHole
  <2>8. x \in Stops(up, visited) \/ y \in Stops(up, visited)
    <3>1. x \in 1..y - 1 \/ y \in 1..x - 1
      BY <1>0, <2>7
    <3>2. QED
      BY <1>5, <2>7, <3>1 DEF Stops
  <2>9. QED
    BY <2>2, <2>8
<1> DEFINE k == Min(Stops(up, visited))
           again == {j \in 1..k - 1 : up[j] = up[k]}
<1>9. k \in Stops(up, visited) /\ \A i \in Stops(up, visited) : k <= i
  BY <1>8, LeastOf
<1>10. WalkUp(parent, visited, from) =
           [path |-> {up[j] : j \in 1..k - 1},
            circle |-> IF again = {} THEN {} ELSE {up[j] : j \in Min(again)..k - 1}]
  BY DEF WalkUp, up, SpidCount, Stops
<1>11. again # {} => Min(again) \in Min(again)..k - 1
  <2>1. k \in Nat
    BY <1>8, <1>9
  <2>2. again \in SUBSET Nat
    OBVIOUS
  <2>3. again # {} => Min(again) \in again
    <3> HIDE DEF again
    <3>1. QED
      BY <2>2, LeastOf
  <2>4. QED
    BY <2>1, <2>3
<1> HIDE DEF k
<1>12. WalkIs(WalkUp(parent, visited, from), up, visited, k)
  <2> DEFINE walk == WalkUp(parent, visited, from)
  <2>1. /\ walk.path = {up[j] : j \in 1..k - 1}
        /\ walk.circle = IF again = {} THEN {} ELSE {up[j] : j \in Min(again)..k - 1}
    BY <1>10
  <2> HIDE DEF walk
  <2>2. again # {} => up[Min(again)] \in walk.circle
    <3>1. again # {} => up[Min(again)] \in {up[j] : j \in Min(again)..k - 1}
      BY <1>11
    <3> HIDE DEF again
    <3>2. QED
      BY <2>1, <3>1
  <2>3. walk.circle \subseteq A
    <3>1. k \in 1..SpidCount + 1 /\ again \in SUBSET (1..SpidCount + 1)
      <4>1. k \in 1..SpidCount + 1
        BY <1>5, <1>9 DEF Stops
      <4>2. \A i \in 1..k - 1 : i \in 1..SpidCount + 1
        BY <1>0, <4>1
      <4>3. QED
        BY <4>1, <4>2
    <3>2. again # {} => Min(again) \in again
      <4>1. again \in SUBSET Nat
        OBVIOUS
      <4> HIDE DEF again
      <4>2. QED
        BY <4>1, LeastOf
    <3>3. ASSUME again # {}, NEW j \in Min(again)..k - 1 PROVE up[j] \in A
      <4>1. j \in 1..SpidCount + 1
        <5> HIDE DEF again
        <5>1. Min(again) \in 1..SpidCount + 1
          BY <3>1, <3>2, <3>3
        <5>2. QED
          BY <1>0, <3>1, <3>3, <5>1
      <4>2. QED
        BY <1>6, <4>1
    <3> HIDE DEF again, A
    <3>4. QED
      BY <2>1, <3>3
  <2>4. QED
    BY <1>9, <2>1, <2>2, <2>3 DEF WalkIs, walk
<1>13. QED
  BY <1>7, <1>12

\* One round of the loop of buildBlockingTrees.
Visit(parent, acc, s) ==
    LET walk == WalkUp(parent, acc.visited, s)
    IN IF s \in acc.visited THEN acc
       ELSE [visited |-> acc.visited \cup walk.path, found |-> acc.found \cup walk.circle]

\* What has been visited is closed, and of every circle in it something has been found.
Rounds(parent, acc) ==
    /\ acc.visited \subseteq Spid
    /\ \A s \in acc.visited \cap DOMAIN parent : parent[s] \in acc.visited
    /\ \A C \in SUBSET Spid : Closed(parent, C) /\ C \cap acc.visited # {} => C \cap acc.found # {}

LEMMA VisitKeeps ==
  ASSUME NEW parent, ParentsOf(parent), NEW acc, Rounds(parent, acc), NEW s \in Spid
  PROVE  /\ Rounds(parent, Visit(parent, acc, s))
         /\ s \in Visit(parent, acc, s).visited /\ acc.visited \subseteq Visit(parent, acc, s).visited
<1> DEFINE after == Visit(parent, acc, s)
           walk == WalkUp(parent, acc.visited, s)
<1>1. CASE s \in acc.visited
  BY <1>1 DEF Visit
<1>2. CASE s \notin acc.visited
  <2>1. after.visited = acc.visited \cup walk.path /\ after.found = acc.found \cup walk.circle
    BY <1>2 DEF Visit
  <2>2. PICK up, k : IsUp(up, parent, s) /\ WalkIs(walk, up, acc.visited, k)
    BY WalkUpIs
  <2> HIDE DEF after, walk
  <2>3. /\ SpidCount \in Nat /\ k \in 1..SpidCount + 1 /\ DOMAIN up = 1..SpidCount + 1
        /\ walk.path = {up[j] : j \in 1..k - 1}
        /\ \A i \in 1..SpidCount + 1 : i < k => i \notin Stops(up, acc.visited)
    BY <2>2, SpidFinite DEF IsUp, WalkIs, Stops
  <2>4. \A j \in 1..k - 1 : j \in 1..SpidCount + 1 /\ up[j] \in Spid /\ up[j] \notin acc.visited
    <3>1. SUFFICES ASSUME NEW j \in 1..k - 1
                   PROVE  j \in 1..SpidCount + 1 /\ up[j] \in Spid /\ up[j] \notin acc.visited
      OBVIOUS
    <3>2. j \in 1..SpidCount + 1 /\ j < k
      BY <2>3
    <3>3. up[j] \notin acc.visited \cup {Nobody}
      BY <2>3, <3>2 DEF Stops
    <3>4. up[j] \in Spid \cup {Nobody}
      BY <2>2, <3>2 DEF IsUp
    <3>5. QED
      BY <3>2, <3>3, <3>4
  <2>5. \A j \in 1..k - 1 : up[j] \in DOMAIN parent => up[j + 1] = parent[up[j]]
    <3>1. SUFFICES ASSUME NEW j \in 1..k - 1, up[j] \in DOMAIN parent PROVE up[j + 1] = parent[up[j]]
      OBVIOUS
    <3>2. j + 1 \in 2..SpidCount + 1 /\ (j + 1) - 1 = j
      BY <2>3
    <3>3. QED
      BY <2>2, <3>1, <3>2 DEF IsUp
  <2>6. \/ up[k] \in acc.visited \/ up[k] = Nobody \/ \E j \in 1..k - 1 : up[j] = up[k]
    BY <2>2 DEF WalkIs, Stops
  <2>7. s \in walk.path
    <3>1. 1 \in 1..SpidCount + 1 /\ up[1] = s
      BY <2>2, <2>3 DEF IsUp
    <3>2. 1 \notin Stops(up, acc.visited)
      BY <1>2, <3>1, SpidFinite DEF Stops
    <3>3. k # 1
      BY <2>2, <3>2 DEF WalkIs
    <3>4. 1 \in 1..k - 1
      BY <2>3, <3>3
    <3>5. QED
      BY <2>3, <3>1, <3>4
  <2>8. after.visited \subseteq Spid
    BY <2>1, <2>3, <2>4 DEF Rounds
  <2>9. ASSUME NEW t \in after.visited \cap DOMAIN parent PROVE parent[t] \in after.visited
    <3>1. CASE t \in acc.visited
      BY <2>1, <2>9, <3>1 DEF Rounds
    <3>2. CASE t \in walk.path
      <4>1. PICK j \in 1..k - 1 : t = up[j]
        BY <2>3, <3>2
      <4>2. up[j + 1] = parent[t] /\ parent[t] \in Spid
        BY <2>5, <2>9, <4>1 DEF ParentsOf
      <4>3. CASE j + 1 = k
        <5>1. up[k] \in acc.visited \/ \E i \in 1..k - 1 : up[i] = up[k]
          BY <2>6, <4>2, <4>3, SpidFinite
        <5>2. QED
          BY <2>1, <2>3, <4>2, <4>3, <5>1
      <4>4. CASE j + 1 # k
        <5>1. j + 1 \in 1..k - 1
          BY <2>3, <4>4
        <5>2. QED
          BY <2>1, <2>3, <4>2, <5>1
      <4>5. QED
        BY <4>3, <4>4
    <3>3. QED
      BY <2>1, <2>9, <3>1, <3>2
  <2>10. ASSUME NEW C \in SUBSET Spid, Closed(parent, C), C \cap after.visited # {}
         PROVE  C \cap after.found # {}
    <3>1. CASE C \cap acc.visited # {}
      BY <2>1, <2>10, <3>1 DEF Rounds
    <3>2. CASE C \cap acc.visited = {}
      <4>1. PICK j \in 1..k - 1 : up[j] \in C
        BY <2>1, <2>3, <2>10, <3>2
      <4> DEFINE S == {d \in Nat : j + d <= k => up[j + d] \in C}
      <4>2. 0 \in S
        BY <4>1
      <4>3. ASSUME NEW d \in S PROVE d + 1 \in S
        <5>1. SUFFICES ASSUME j + (d + 1) <= k PROVE up[j + (d + 1)] \in C
          OBVIOUS
        <5>2. j + d \in 1..k - 1 /\ (j + d) + 1 = j + (d + 1) /\ j + d <= k
          BY <2>3, <5>1
        <5>3. up[j + d] \in C
          BY <4>3, <5>2
        <5>4. QED
          BY <2>5, <2>10, <5>2, <5>3 DEF Closed
      <4>4. k - j \in Nat /\ j + (k - j) = k
        BY <2>3
      <4>5. k - j \in S
        <5>1. S \in SUBSET Nat
          OBVIOUS
        <5> HIDE DEF S
        <5>2. QED
          BY <4>2, <4>3, <4>4, <5>1, SetInduction
      <4>6. up[k] \in C
        BY <4>4, <4>5
      <4> DEFINE again == {i \in 1..k - 1 : up[i] = up[k]}
      <4>7. again # {}
        BY <2>6, <2>10, <3>2, <4>6, SpidFinite
      <4>8. up[Min(again)] \in walk.circle
        BY <2>2, <4>7 DEF WalkIs
      <4>9. Min(again) \in again
        <5>1. again \in SUBSET Nat
          OBVIOUS
        <5> HIDE DEF again
        <5>2. QED
          BY <4>7, <5>1, LeastOf
      <4>10. up[Min(again)] \in C
        BY <4>6, <4>9
      <4>11. QED
        BY <2>1, <4>8, <4>10
    <3>3. QED
      BY <3>1, <3>2
  <2>11. Rounds(parent, after)
    BY <2>8, <2>9, <2>10 DEF Rounds
  <2>12. QED
    BY <2>1, <2>7, <2>11 DEF after
<1>3. QED
  BY <1>1, <1>2

\* The sessions come in some order, each of them.
LEMMA EverySession ==
  ASSUME NEW S, IsFiniteSet(S)
  PROVE  /\ SetToSeq(S) \in Seq(S)
         /\ \A s \in S : \E i \in 1..Len(SetToSeq(S)) : SetToSeq(S)[i] = s
<1> DEFINE n == Cardinality(S)
           order == SetToSeq(S)
<1>1. n \in Nat /\ \E f \in [1..n -> S] : IsInjective(f)
  BY FS_CardinalityType DEF ExistsBijection, Bijection, Injection
<1>2. order \in [1..n -> S] /\ IsInjective(order)
  BY <1>1 DEF SetToSeq
<1> HIDE DEF order
<1>3. IsFiniteSet(1..n) /\ Cardinality(1..n) = n
  BY <1>1, FS_Interval
<1>4. order \in Surjection(1..n, S)
  <2>1. order \in Injection(1..n, S)
    BY <1>2 DEF Injection
  <2>2. QED
    BY <1>3, <2>1, FS_Injection
<1>5. order \in Seq(S) /\ Len(order) = n
  BY <1>1, <1>2
<1>6. QED
  BY <1>4, <1>5 DEF Surjection, order

LEMMA InCycleIs ==
  ASSUME NEW parent, ParentsOf(parent), NEW order \in Seq(Spid)
  PROVE  \E acc : /\ acc[0] = [visited |-> {}, found |-> {}]
                  /\ \A i \in 1..Len(order) : acc[i] = Visit(parent, acc[i - 1], order[i])
                  /\ InCycle(parent, order) = acc[Len(order)].found
<1> DEFINE n == Len(order)
           A == [visited : SUBSET (Spid \cup {Nobody}), found : SUBSET (Spid \cup {Nobody})]
           none == [visited |-> {}, found |-> {}]
           step == [i \in 1..n |-> [x \in A |-> Visit(parent, x, order[i])]]
           Is(f) == f = [i \in 0..n |-> IF i = 0 THEN none ELSE Visit(parent, f[i - 1], order[i])]
<1>0. n \in Nat /\ \A i \in 1..n : order[i] \in Spid
  OBVIOUS
<1>1. ASSUME NEW x \in A, NEW i \in 1..n PROVE Visit(parent, x, order[i]) \in A
  <2> DEFINE walk == WalkUp(parent, x.visited, order[i])
  <2>1. PICK up, k : IsUp(up, parent, order[i]) /\ WalkIs(walk, up, x.visited, k)
    BY <1>0, WalkUpIs
  <2> HIDE DEF walk
  <2>2. k \in 1..SpidCount + 1 /\ up \in [1..SpidCount + 1 -> Spid \cup {Nobody}]
    BY <2>1 DEF IsUp, WalkIs, Stops
  <2>3. \A j \in 1..k - 1 : up[j] \in Spid \cup {Nobody}
    <3>1. \A j \in 1..k - 1 : j \in 1..SpidCount + 1
      BY <2>2, SpidFinite
    <3>2. QED
      BY <2>2, <3>1
  <2>4. walk.path \subseteq Spid \cup {Nobody} /\ walk.circle \subseteq Spid \cup {Nobody}
    BY <2>1, <2>3 DEF WalkIs
  <2>5. [visited |-> x.visited \cup walk.path, found |-> x.found \cup walk.circle] \in A
    BY <2>4
  <2>6. QED
    BY <2>5 DEF Visit, walk
<1> HIDE DEF n
<1>2. PICK f \in [0..n -> A] : f[0] = none /\ \A i \in 1..n : f[i] = Visit(parent, f[i - 1], order[i])
  <2>1. none \in A
    OBVIOUS
  <2>2. step \in [1..n -> [A -> A]]
    BY <1>1
  <2>3. PICK f : Recursive(f, n, A, none, step)
    <3> HIDE DEF A, step, none
    <3>1. QED
      BY <1>0, <2>1, <2>2, BoundedRecursion
  <2>4. f \in [0..n -> A] /\ f[0] = none /\ \A i \in 1..n : f[i] = step[i][f[i - 1]]
    BY <2>3 DEF Recursive
  <2>5. ASSUME NEW i \in 1..n PROVE f[i] = Visit(parent, f[i - 1], order[i])
    <3>1. i - 1 \in 0..n
      BY <1>0
    <3>2. f[i - 1] \in A
      BY <2>4, <3>1
    <3> HIDE DEF A
    <3>3. QED
      BY <2>4, <3>2
  <2> HIDE DEF A, step, none
  <2>6. QED
    BY <2>4, <2>5
<1>3. \E v : Is(v)
  <2> HIDE DEF A, none
  <2>1. \A i \in 0..n : f[i] = IF i = 0 THEN none ELSE Visit(parent, f[i - 1], order[i])
    BY <1>0, <1>2
  <2>2. f = [i \in 0..n |-> f[i]]
    BY <1>2
  <2>3. Is(f)
    BY <2>1, <2>2
  <2>4. QED
    BY <2>3
<1> DEFINE acc == CHOOSE v : Is(v)
<1>4. InCycle(parent, order) = acc[n].found
  BY DEF InCycle, Visit, n
<1>5. Is(acc)
  <2> HIDE DEF Is
  <2>1. QED
    BY <1>3
<1> HIDE DEF acc
<1>6. \A i \in 0..n : acc[i] = IF i = 0 THEN none ELSE Visit(parent, acc[i - 1], order[i])
  BY <1>5
<1>7. acc[0] = none /\ \A i \in 1..n : acc[i] = Visit(parent, acc[i - 1], order[i])
  <2> HIDE DEF none
  <2>1. QED
    BY <1>0, <1>6
<1>8. QED
  BY <1>4, <1>7 DEF n

\* On every circle of sessions at least one is found.
LEMMA CirclesFound ==
  ASSUME NEW w \in [Spid -> Spid \cup {Nobody}], NEW C, Closed(Parents(w), C)
  PROVE  C \cap InCycle(Parents(w), SetToSeq(Sessions(w))) # {}
<1> DEFINE parent == Parents(w)
           order == SetToSeq(Sessions(w))
           n == Len(order)
<1>1. ParentsOf(parent) /\ Sessions(w) \subseteq Spid /\ C \subseteq Sessions(w)
  BY ParentsAre DEF Closed
<1>2. order \in Seq(Sessions(w)) /\ \A s \in Sessions(w) : \E i \in 1..n : order[i] = s
  BY ParentsAre, EverySession
<1>3. order \in Seq(Spid) /\ n \in Nat
  <2>1. \A i \in 1..n : order[i] \in Spid
    BY <1>1, <1>2
  <2>2. order \in [1..n -> Spid] /\ n \in Nat
    BY <1>2, <2>1
  <2>3. QED
    BY <2>2
<1> HIDE DEF parent, order
<1>4. PICK acc : /\ acc[0] = [visited |-> {}, found |-> {}]
                 /\ \A i \in 1..Len(order) : acc[i] = Visit(parent, acc[i - 1], order[i])
                 /\ InCycle(parent, order) = acc[Len(order)].found
  BY <1>1, <1>3, InCycleIs
<1> DEFINE Done(i) == Rounds(parent, acc[i]) /\ \A j \in 1..i : order[j] \in acc[i].visited
           S == {i \in Nat : i <= n => Done(i)}
<1>5. 0 \in S
  BY <1>4 DEF Rounds
<1>6. ASSUME NEW i \in S PROVE i + 1 \in S
  <2>1. SUFFICES ASSUME i + 1 <= n PROVE Done(i + 1)
    OBVIOUS
  <2>2. i \in Nat /\ i + 1 \in 1..n /\ (i + 1) - 1 = i /\ Done(i)
    BY <1>3, <1>6, <2>1
  <2>3. acc[i + 1] = Visit(parent, acc[i], order[i + 1]) /\ order[i + 1] \in Spid
    BY <1>3, <1>4, <2>2
  <2>4. /\ Rounds(parent, acc[i + 1]) /\ order[i + 1] \in acc[i + 1].visited
        /\ acc[i].visited \subseteq acc[i + 1].visited
    BY <1>1, <2>2, <2>3, VisitKeeps
  <2>5. \A j \in 1..i + 1 : j = i + 1 \/ j \in 1..i
    BY <2>2
  <2>6. QED
    BY <2>2, <2>4, <2>5
<1>7. Done(n)
  <2>1. S \in SUBSET Nat
    OBVIOUS
  <2>2. n \in S
    <3> HIDE DEF S, n
    <3>1. QED
      BY <1>3, <1>5, <1>6, <2>1, SetInduction
  <2>3. QED
    BY <1>3, <2>2
<1>8. C \cap acc[n].visited # {}
  BY <1>1, <1>2, <1>7 DEF Closed
<1>9. C \cap acc[n].found # {}
  <2>1. C \in SUBSET Spid /\ Closed(parent, C)
    BY <1>1 DEF parent
  <2>2. QED
    BY <1>7, <1>8, <2>1 DEF Rounds
<1>10. QED
  BY <1>4, <1>9 DEF parent, order
\* Cutting leaves no circle: one that was left would be a circle of all parents.
LEMMA NoCircleLeft ==
  ASSUME NEW w \in [Spid -> Spid \cup {Nobody}], NEW C
  PROVE  /\ ~Closed(CutParents(w), C)
         /\ ParentsOf(CutParents(w)) /\ DOMAIN CutParents(w) \subseteq Sessions(w)
         /\ \A s \in DOMAIN CutParents(w) : CutParents(w)[s] \in Sessions(w)
<1> DEFINE parent == Parents(w)
           circle == InCycle(parent, SetToSeq(Sessions(w)))
<1>1. CutParents(w) = [s \in DOMAIN parent \ circle |-> parent[s]]
  BY DEF CutParents
<1>2. /\ ParentsOf(parent) /\ DOMAIN parent \subseteq Sessions(w)
      /\ \A s \in DOMAIN parent : parent[s] \in Sessions(w)
  BY ParentsAre
<1>3. ASSUME Closed(CutParents(w), C) PROVE FALSE
  <2> HIDE DEF parent, circle
  <2>1. Closed(parent, C) /\ C \cap circle = {}
    BY <1>1, <1>3 DEF Closed
  <2>2. QED
    BY <2>1, CirclesFound DEF parent, circle
<1>4. QED
  <2> HIDE DEF parent, circle
  <2>1. QED
    BY <1>1, <1>2, <1>3 DEF ParentsOf

\* A tree as it grows: in each step the sessions whose parent is in it.
Below(parent, S) == S \cup {s \in DOMAIN parent : parent[s] \in S}

IsGrowth(grow, parent, root, tree) ==
    /\ grow \in [0..SpidCount -> SUBSET Spid] /\ grow[0] = {root}
    /\ \A n \in 1..SpidCount : grow[n] = Below(parent, grow[n - 1])
    /\ tree = grow[SpidCount]

LEMMA TreeIs ==
  ASSUME NEW w \in [Spid -> Spid \cup {Nobody}], NEW root \in Spid
  PROVE  \E grow : IsGrowth(grow, CutParents(w), root, Tree(w, root))
<1> DEFINE parent == CutParents(w)
           A == SUBSET Spid
           first == {root}
           step == [n \in 1..SpidCount |-> [S \in A |-> Below(parent, S)]]
           Is(f) == f = [n \in 0..SpidCount |-> IF n = 0 THEN {root} ELSE Below(parent, f[n - 1])]
<1>0. SpidCount \in Nat
  BY SpidFinite
<1>1. Tree(w, root) = (CHOOSE f : Is(f))[SpidCount]
  BY DEF Tree, Below, SpidCount
<1>2. DOMAIN parent \subseteq Spid
  BY NoCircleLeft DEF ParentsOf
<1> HIDE DEF parent
<1>3. PICK f \in [0..SpidCount -> A] : f[0] = {root} /\ \A n \in 1..SpidCount : f[n] = Below(parent, f[n - 1])
  <2>1. first \in A
    OBVIOUS
  <2>2. step \in [1..SpidCount -> [A -> A]]
    <3>1. \A S \in A : Below(parent, S) \in A
      BY <1>2 DEF Below
    <3>2. QED
      BY <3>1
  <2>3. PICK f : Recursive(f, SpidCount, A, first, step)
    <3> HIDE DEF A, step, first
    <3>1. QED
      BY <1>0, <2>1, <2>2, BoundedRecursion
  <2>4. f \in [0..SpidCount -> A] /\ f[0] = {root} /\ \A n \in 1..SpidCount : f[n] = step[n][f[n - 1]]
    BY <2>3 DEF Recursive
  <2>5. ASSUME NEW n \in 1..SpidCount PROVE f[n] = Below(parent, f[n - 1])
    <3>1. n - 1 \in 0..SpidCount
      BY <1>0
    <3>2. f[n - 1] \in A
      BY <2>4, <3>1
    <3> HIDE DEF A
    <3>3. QED
      BY <2>4, <3>2
  <2> HIDE DEF A, step
  <2>6. QED
    BY <2>4, <2>5
<1>4. \E v : Is(v)
  <2>1. \A n \in 0..SpidCount : f[n] = IF n = 0 THEN {root} ELSE Below(parent, f[n - 1])
    BY <1>0, <1>3
  <2> HIDE DEF A
  <2>2. f = [n \in 0..SpidCount |-> f[n]]
    BY <1>3
  <2>3. Is(f)
    BY <2>1, <2>2
  <2>4. QED
    BY <2>3
<1> DEFINE grow == CHOOSE f2 : Is(f2)
<1>5. Is(grow)
  <2> HIDE DEF Is
  <2>1. QED
    BY <1>4
<1>6. Tree(w, root) = grow[SpidCount]
  BY <1>1
<1> HIDE DEF grow
<1>7. /\ DOMAIN grow = 0..SpidCount
      /\ \A n \in 0..SpidCount : grow[n] = IF n = 0 THEN {root} ELSE Below(parent, grow[n - 1])
  BY <1>5
<1>8. grow[0] = {root} /\ \A n \in 1..SpidCount : grow[n] = Below(parent, grow[n - 1])
  BY <1>0, <1>7
<1>9. grow \in [0..SpidCount -> SUBSET Spid]
  <2> DEFINE S == {n \in Nat : n <= SpidCount => grow[n] \subseteq Spid}
  <2>1. 0 \in S
    BY <1>8
  <2>2. ASSUME NEW n \in S PROVE n + 1 \in S
    <3>1. SUFFICES ASSUME n + 1 <= SpidCount PROVE grow[n + 1] \subseteq Spid
      OBVIOUS
    <3>2. n + 1 \in 1..SpidCount /\ (n + 1) - 1 = n /\ grow[n] \subseteq Spid
      BY <1>0, <2>2, <3>1
    <3>3. grow[n + 1] = Below(parent, grow[n])
      BY <1>8, <3>2
    <3>4. QED
      BY <1>2, <3>2, <3>3 DEF Below
  <2>3. \A n \in Nat : n \in S
    <3>1. S \in SUBSET Nat
      OBVIOUS
    <3> HIDE DEF S
    <3>2. QED
      BY <2>1, <2>2, <3>1, SetInduction
  <2>4. \A n \in 0..SpidCount : grow[n] \subseteq Spid
    BY <1>0, <2>3
  <2>5. grow = [n \in 0..SpidCount |-> grow[n]]
    BY <1>5
  <2>6. QED
    BY <2>4, <2>5
<1>10. QED
  BY <1>6, <1>8, <1>9 DEF IsGrowth, parent

\* The tree of a root is closed downwards: SpidCount steps are enough, because a step that adds
\* nothing is the last to add anything.  And everything in it but the root has a parent in it.
LEMMA TreeFacts ==
  ASSUME NEW w \in [Spid -> Spid \cup {Nobody}], NEW root \in Spid
  PROVE  LET T == Tree(w, root)
             parent == CutParents(w)
         IN /\ T \subseteq Spid /\ root \in T
            /\ \A s \in DOMAIN parent : parent[s] \in T => s \in T
            /\ \A s \in T : s = root \/ (s \in DOMAIN parent /\ parent[s] \in T)
<1> DEFINE T == Tree(w, root)
           parent == CutParents(w)
<1> SUFFICES /\ T \subseteq Spid /\ root \in T
             /\ \A s \in DOMAIN parent : parent[s] \in T => s \in T
             /\ \A s \in T : s = root \/ (s \in DOMAIN parent /\ parent[s] \in T)
  OBVIOUS
<1>0. SpidCount \in Nat /\ IsFiniteSet(Spid) /\ SpidCount = Cardinality(Spid) /\ ParentsOf(parent)
  BY SpidFinite, NoCircleLeft DEF SpidCount
<1>1. PICK grow : IsGrowth(grow, parent, root, T)
  BY TreeIs
<1> HIDE DEF T, parent
<1>2. /\ \A n \in 0..SpidCount : grow[n] \subseteq Spid
      /\ grow[0] = {root} /\ T = grow[SpidCount]
      /\ \A n \in 0..SpidCount : n + 1 <= SpidCount => grow[n + 1] = Below(parent, grow[n])
  <2>1. ASSUME NEW n \in 0..SpidCount, n + 1 <= SpidCount PROVE grow[n + 1] = Below(parent, grow[n])
    <3>1. n + 1 \in 1..SpidCount /\ (n + 1) - 1 = n
      BY <1>0, <2>1
    <3>2. QED
      BY <1>1, <3>1 DEF IsGrowth
  <2>2. QED
    BY <1>1, <2>1 DEF IsGrowth
<1> DEFINE Fixed(S) == Below(parent, S) = S
           Sound(S) == root \in S /\ \A s \in S : s = root \/ (s \in DOMAIN parent /\ parent[s] \in S)
           Good(n) == Sound(grow[n]) /\ (Fixed(grow[n]) \/ Cardinality(grow[n]) > n)
           S == {n \in Nat : n <= SpidCount => Good(n)}
<1>3. 0 \in S
  <2>1. Cardinality(grow[0]) = 1
    BY <1>2, FS_Singleton
  <2>2. Cardinality(grow[0]) > 0
    BY <2>1
  <2>3. Sound(grow[0])
    BY <1>2
  <2> HIDE DEF Fixed, Sound
  <2>4. QED
    BY <2>2, <2>3
<1>4. ASSUME NEW n \in S PROVE n + 1 \in S
  <2>1. SUFFICES ASSUME n + 1 <= SpidCount PROVE Good(n + 1)
    OBVIOUS
  <2>2. n \in Nat /\ n \in 0..SpidCount /\ n + 1 \in 0..SpidCount /\ Good(n)
    BY <1>0, <1>4, <2>1
  <2>3. grow[n + 1] = Below(parent, grow[n]) /\ grow[n + 1] \subseteq Spid /\ grow[n] \subseteq Spid
    BY <1>2, <2>1, <2>2
  <2>4. Sound(grow[n + 1])
    BY <2>2, <2>3 DEF Below
  <2>5. CASE Fixed(grow[n])
    BY <2>3, <2>4, <2>5
  <2>6. CASE ~Fixed(grow[n])
    <3>1. Cardinality(grow[n]) > n
      BY <2>2, <2>6
    <3>2. IsFiniteSet(grow[n + 1]) /\ grow[n] \subseteq grow[n + 1] /\ grow[n] # grow[n + 1]
      BY <1>0, <2>3, <2>6, FS_Subset DEF Below
    <3>3. /\ Cardinality(grow[n]) <= Cardinality(grow[n + 1])
          /\ Cardinality(grow[n]) = Cardinality(grow[n + 1]) => grow[n] = grow[n + 1]
          /\ IsFiniteSet(grow[n])
      BY <3>2, FS_Subset
    <3>4. Cardinality(grow[n]) \in Nat /\ Cardinality(grow[n + 1]) \in Nat
      BY <3>2, <3>3, FS_CardinalityType
    <3>5. Cardinality(grow[n + 1]) > n + 1
      BY <2>2, <3>1, <3>2, <3>3, <3>4
    <3> HIDE DEF Sound, Fixed
    <3>6. QED
      BY <2>4, <3>5
  <2>7. QED
    BY <2>5, <2>6
<1>5. Good(SpidCount)
  <2>1. SpidCount \in S
    <3>1. S \in SUBSET Nat
      OBVIOUS
    <3> HIDE DEF S
    <3>2. QED
      BY <1>0, <1>3, <1>4, <3>1, SetInduction
  <2>2. QED
    BY <1>0, <2>1
<1>6. T \subseteq Spid /\ Cardinality(T) <= SpidCount
  <2>1. T \subseteq Spid
    BY <1>0, <1>2
  <2>2. QED
    BY <1>0, <2>1, FS_Subset
<1>7. Fixed(T)
  <2>1. Cardinality(T) \in Nat
    BY <1>0, <1>6, FS_Subset, FS_CardinalityType
  <2>2. ~(Cardinality(T) > SpidCount)
    BY <1>0, <1>6, <2>1
  <2> HIDE DEF Fixed, Sound
  <2>3. QED
    BY <1>2, <1>5, <2>2
<1>8. Sound(T)
  <2> HIDE DEF Fixed, Sound
  <2>1. QED
    BY <1>2, <1>5
<1>9. QED
  BY <1>6, <1>7, <1>8 DEF Below, parent, T

\* Two roots have no session in common, and no session is without a root: what two share,
\* or what none has, would be a circle that was left.
LEMMA TreesAreExact ==
  ASSUME NEW w \in [Spid -> Spid \cup {Nobody}], NEW s \in Sessions(w)
  PROVE  Cardinality({r \in Roots(w) : s \in Tree(w, r)}) = 1
<1> DEFINE parent == CutParents(w)
           T(r) == Tree(w, r)
<1>0. Sessions(w) \subseteq Spid /\ Roots(w) = Sessions(w) \ DOMAIN parent
  BY DEF Sessions, Roots
<1>1. /\ \A C : ~Closed(parent, C)
      /\ DOMAIN parent \subseteq Sessions(w) /\ \A x \in DOMAIN parent : parent[x] \in Sessions(w)
  BY NoCircleLeft
<1>2. \A r \in Roots(w) :
         /\ T(r) \subseteq Spid /\ r \in T(r)
         /\ \A x \in DOMAIN parent : parent[x] \in T(r) => x \in T(r)
         /\ \A x \in T(r) : x = r \/ (x \in DOMAIN parent /\ parent[x] \in T(r))
  BY <1>0, TreeFacts
<1> HIDE DEF T, parent
<1>3. PICK r0 \in Roots(w) : s \in T(r0)
  <2> SUFFICES ASSUME \A r \in Roots(w) : s \notin T(r) PROVE FALSE
    OBVIOUS
  <2> DEFINE C == {x \in Sessions(w) : \A r \in Roots(w) : x \notin T(r)}
  <2>1. s \in C
    OBVIOUS
  <2>2. \A x \in C : x \in DOMAIN parent
    BY <1>0, <1>2
  <2>3. \A x \in C : parent[x] \in C
    BY <1>1, <1>2, <2>2
  <2>4. Closed(parent, C)
    BY <2>1, <2>2, <2>3 DEF Closed
  <2>5. QED
    BY <1>1, <2>4
<1>4. ASSUME NEW r \in Roots(w), s \in T(r), r # r0 PROVE FALSE
  <2> DEFINE C == T(r) \cap T(r0)
  <2>1. ASSUME NEW x \in C PROVE x \in DOMAIN parent /\ parent[x] \in C
    <3>1. r \notin DOMAIN parent /\ r0 \notin DOMAIN parent
      BY <1>0
    <3>2. x \in T(r) /\ x \in T(r0)
      OBVIOUS
    <3>3. x \in DOMAIN parent
      BY <1>2, <1>4, <3>2
    <3>4. x # r /\ x # r0
      BY <3>1, <3>3
    <3>5. parent[x] \in T(r) /\ parent[x] \in T(r0)
      BY <1>2, <3>2, <3>4
    <3>6. QED
      BY <3>3, <3>5
  <2>2. s \in C
    BY <1>3, <1>4
  <2> HIDE DEF C
  <2>3. Closed(parent, C)
    BY <2>1, <2>2 DEF Closed
  <2>4. QED
    BY <1>1, <2>3
<1>5. {r \in Roots(w) : s \in T(r)} = {r0}
  BY <1>3, <1>4
<1>6. QED
  BY <1>5, FS_Singleton DEF T

-----------------------------------------------------------------------------
(* The two invariants *)

GraphInv == blockedBy \in [Spid -> Spid \cup {Nobody}] /\ InOrder(reports)

LEMMA GraphInductive == GraphInv /\ [GraphNext]_graphVars => GraphInv'
<1> SUFFICES ASSUME GraphInv, [GraphNext]_graphVars PROVE GraphInv'
  OBVIOUS
<1>1. CASE Report
  <2>1. PICK s, t \in Spid, gap \in Gaps :
          /\ blockedBy' = [blockedBy EXCEPT ![s] = t]
          /\ reports' = Append(reports,
                [at |-> IF reports = <<>> THEN 0 ELSE Last(reports).at + gap,
                 blocker |-> t, blocked |-> s])
    BY <1>1 DEF Report
  <2> DEFINE new == [at |-> IF reports = <<>> THEN 0 ELSE Last(reports).at + gap,
                     blocker |-> t, blocked |-> s]
             n == Len(reports)
  <2>2. /\ reports \in Seq(ReportRow) /\ n \in Nat /\ gap \in Nat
        /\ \A i \in 1..n : reports[i] \in ReportRow /\ reports[i].at \in Nat
    <3>1. reports \in Seq(ReportRow)
      BY DEF GraphInv, InOrder
    <3>2. \A i \in 1..n : reports[i] \in ReportRow
      BY <3>1
    <3>3. QED
      BY <3>1, <3>2, GraphBounds DEF ReportRow
  <2>3. new.at \in Nat /\ \A i \in 1..n : reports[i].at <= new.at
    <3>1. CASE reports = <<>>
      BY <3>1
    <3>2. CASE reports # <<>>
      <4>1. n \in 1..n
        BY <2>2, <3>2
      <4>2. new.at = reports[n].at + gap
        BY <3>2 DEF Last
      <4>3. \A i \in 1..n : reports[i].at <= reports[n].at
        BY <2>2, <4>1 DEF GraphInv, InOrder
      <4> HIDE DEF new, n
      <4>4. reports[n].at \in Nat /\ new.at \in Nat /\ reports[n].at <= new.at
        BY <2>2, <4>1, <4>2
      <4>5. ASSUME NEW i \in 1..n PROVE reports[i].at <= new.at
        <5>1. reports[i].at <= reports[n].at /\ reports[i].at \in Nat
          BY <2>2, <4>3
        <5>2. QED
          BY <4>4, <5>1
      <4>6. QED
        BY <4>4, <4>5
    <3>3. QED
      BY <3>1, <3>2
  <2>4. new \in ReportRow
    BY <2>3 DEF ReportRow
  <2> HIDE DEF new
  <2>5. reports' = Append(reports, new)
    BY <2>1 DEF new
  <2>6. /\ reports' \in Seq(ReportRow) /\ Len(reports') = n + 1
        /\ \A i \in 1..n : reports'[i] = reports[i]
        /\ reports'[n + 1] = new
    BY <2>2, <2>4, <2>5
  <2>7. ASSUME NEW i \in 1..n + 1, NEW j \in 1..n + 1, i <= j PROVE reports'[i].at <= reports'[j].at
    <3>1. CASE j \in 1..n
      <4>1. i \in 1..n
        BY <2>2, <2>7, <3>1
      <4>2. reports[i].at <= reports[j].at
        BY <2>2, <2>7, <3>1, <4>1 DEF GraphInv, InOrder
      <4>3. QED
        BY <2>6, <3>1, <4>1, <4>2
    <3>2. CASE j = n + 1 /\ i \in 1..n
      BY <2>3, <2>6, <3>2
    <3>3. CASE j = n + 1 /\ i = n + 1
      BY <2>3, <2>6, <3>3
    <3>4. QED
      BY <2>2, <3>1, <3>2, <3>3
  <2>8. DOMAIN reports' = 1..n + 1
    BY <2>6
  <2>9. InOrder(reports')
    BY <2>6, <2>7, <2>8 DEF InOrder
  <2>10. blockedBy' \in [Spid -> Spid \cup {Nobody}]
    BY <2>1 DEF GraphInv
  <2>11. QED
    BY <2>9, <2>10 DEF GraphInv, InOrder
<1>2. CASE WaitEnds
  BY <1>2 DEF WaitEnds, GraphInv, InOrder
<1>3. CASE UNCHANGED graphVars
  BY <1>3 DEF graphVars, GraphInv, InOrder
<1>4. QED
  BY <1>1, <1>2, <1>3 DEF GraphNext

LEMMA GraphInvariance == GraphSpec => []GraphInv
<1>1. GraphInit => GraphInv
  BY DEF GraphInit, GraphInv, InOrder
<1>2. QED
  BY <1>1, GraphInductive, PTL DEF GraphSpec

\* A snapshot of the sessions is shown as a forest: whoever waits for whom, in circles
\* too, every session is below exactly one root (buildBlockingTrees).
THEOREM ForestsAreExact == GraphSpec => []ForestExact
<1>1. GraphInv => ForestExact
  BY TreesAreExact DEF GraphInv, ForestExact
<1>2. QED
  BY <1>1, GraphInvariance, PTL

\* After any reports, with any window, everybody blocked in the latest group is in a
\* stored row, if that group has no circle (buildBlockingChains and the merge of its rows).
THEOREM LatestGroupIsShown == GraphSpec => []LatestGroupShown
<1>1. GraphInv => LatestGroupShown
  BY LatestIsShown DEF GraphInv
<1>2. QED
  BY <1>1, GraphInvariance, PTL
=============================================================================
