-------------------------- MODULE WorkerPoolProofs --------------------------
(***************************************************************************)
(* For every number of items and every limit, the pool calls each item at  *)
(* most once, resolves with every value in place, loses to a rejected call *)
(* only that call's own item, and implements the abstract parallel map.    *)
(***************************************************************************)
EXTENDS WorkerPool, FiniteSetTheorems, TLAPS

\* Every item below index was taken once; a value is stored exactly for the
\* items taken and no longer held by a worker that is busy or threw.
HeldBy(i) == \E w \in Workers : holds[w] = i /\ pc[w] # "exited"

HoldsInv ==
  /\ \A w \in Workers : holds[w] < index
  /\ \A v, w \in Workers : holds[v] = holds[w] => v = w
  /\ \A w \in Workers : pc[w] = "exited" => index = n + 1

StoreInv ==
  /\ \A i \in Items : calls[i] = IF i < index THEN 1 ELSE 0
  /\ \A i \in Items : results[i] = IF i < index /\ ~HeldBy(i) THEN i ELSE 0

OutcomeInv ==
  /\ Width(n, c) + 1 <= index
  /\ outcome = "resolved" => \A w \in Workers : pc[w] = "exited"

IInv == TypeOK /\ HoldsInv /\ StoreInv /\ OutcomeInv
-----------------------------------------------------------------------------
\* The number of workers is a natural number, at most the number of items and,
\* for a limit that is not negative, at most the limit.
LEMMA WidthBounds ==
  ASSUME NEW size \in Nat, NEW limit \in Int
  PROVE  /\ Width(size, limit) \in Nat
         /\ Width(size, limit) <= size
         /\ limit >= 0 => Width(size, limit) <= limit
         /\ (limit >= 1 /\ size >= 1) => Width(size, limit) >= 1
         /\ limit < 1 => Width(size, limit) = 0
BY DEF Width

\* The initial state satisfies the inductive invariant.
LEMMA InitIInv == Init => IInv
<1> SUFFICES ASSUME Init PROVE IInv
  OBVIOUS
<1>1. n \in Nat /\ c \in Int
  BY SizesAssumption, LimitsAssumption DEF Init
<1>2. Width(n, c) \in Nat /\ Width(n, c) <= n
  BY <1>1, WidthBounds
<1>3. TypeOK
  BY <1>1, <1>2 DEF Init, TypeOK, Workers, Items
<1>4. HoldsInv
  BY <1>1, <1>2 DEF Init, HoldsInv, Workers
<1>5. StoreInv
  BY <1>1, <1>2 DEF Init, StoreInv, HeldBy, Workers, Items
<1>6. QED
  BY <1>2, <1>3, <1>4, <1>5 DEF IInv, OutcomeInv, Init

\* What Complete(w) leaves true.
LEMMA CompleteIInv ==
  ASSUME IInv, NEW w \in Workers, Complete(w)
  PROVE  IInv'
<1>1. n \in Nat /\ c \in Int /\ Width(n, c) \in Nat /\ index \in 1..(n + 1)
  BY SizesAssumption, LimitsAssumption, WidthBounds DEF IInv, TypeOK
<1>2. n' = n /\ c' = c /\ Workers' = Workers /\ Items' = Items /\ pc[w] = "busy"
      /\ outcome' = outcome /\ results' = [results EXCEPT ![holds[w]] = holds[w]]
  BY DEF Complete, Workers, Items, Store
<1>3. holds[w] \in Items /\ holds[w] < index
  BY DEF IInv, TypeOK, HoldsInv
<1>4. outcome # "resolved"
  BY <1>2 DEF IInv, OutcomeInv
<1>5. CASE index <= n
  <2>1. /\ holds' = [holds EXCEPT ![w] = index]
        /\ calls' = [calls EXCEPT ![index] = @ + 1]
        /\ index' = index + 1
        /\ pc' = pc
    BY <1>5 DEF Complete, TakeNext
  <2>2. TypeOK'
    <3>1. index \in Items /\ index' \in 1..(n + 1)
      BY <1>1, <1>5, <2>1 DEF Items
    <3>2. holds' \in [Workers -> Items] /\ calls' \in [Items -> Nat]
      BY <2>1, <3>1 DEF IInv, TypeOK
    <3>3. results' \in [Items -> 0..n]
      BY <1>1, <1>2, <1>3 DEF IInv, TypeOK, Items
    <3>4. QED
      BY <1>2, <2>1, <3>1, <3>2, <3>3 DEF IInv, TypeOK
  <2>3. HoldsInv'
    <3>1. \A v \in Workers : pc[v] # "exited"
      BY <1>1, <1>5 DEF IInv, HoldsInv
    <3>2. \A v \in Workers : holds[v] \in Int /\ holds[v] < index
      BY <1>1 DEF IInv, TypeOK, HoldsInv, Items
    <3>3. \A v \in Workers : holds'[v] = IF v = w THEN index ELSE holds[v]
      BY <2>1 DEF IInv, TypeOK
    <3>4. \A v \in Workers : holds'[v] < index'
      BY <1>1, <2>1, <3>2, <3>3
    <3>5. \A u, v \in Workers : holds'[u] = holds'[v] => u = v
      BY <1>1, <3>2, <3>3 DEF IInv, HoldsInv
    <3>6. QED
      BY <1>2, <2>1, <3>1, <3>4, <3>5 DEF HoldsInv
  <2>4. \A i \in Items : HeldBy(i)' <=> (i = index \/ (HeldBy(i) /\ i # holds[w]))
    BY <1>1, <1>2, <1>3, <1>5, <2>1 DEF IInv, TypeOK, HoldsInv, HeldBy, Items
  <2>5. StoreInv'
    BY <1>1, <1>2, <1>3, <1>5, <2>1, <2>4 DEF IInv, TypeOK, StoreInv, Items
  <2>6. OutcomeInv'
    BY <1>1, <1>2, <1>4, <2>1 DEF IInv, OutcomeInv
  <2>7. QED
    BY <2>2, <2>3, <2>5, <2>6 DEF IInv
<1>6. CASE ~(index <= n)
  <2>1. /\ pc' = [pc EXCEPT ![w] = "exited"]
        /\ holds' = holds /\ calls' = calls /\ index' = index
    BY <1>6 DEF Complete, TakeNext
  <2>2. TypeOK'
    BY <1>1, <1>2, <1>3, <1>6, <2>1 DEF IInv, TypeOK, Items
  <2>3. HoldsInv'
    BY <1>1, <1>2, <1>6, <2>1 DEF IInv, TypeOK, HoldsInv
  <2>4. \A i \in Items : HeldBy(i)' <=> (HeldBy(i) /\ i # holds[w])
    BY <1>1, <1>2, <1>3, <2>1 DEF IInv, TypeOK, HoldsInv, HeldBy
  <2>5. StoreInv'
    BY <1>1, <1>2, <1>3, <1>6, <2>1, <2>4 DEF IInv, TypeOK, StoreInv, Items
  <2>6. OutcomeInv'
    BY <1>2, <1>4, <2>1 DEF IInv, OutcomeInv
  <2>7. QED
    BY <2>2, <2>3, <2>5, <2>6 DEF IInv
<1>7. QED
  BY <1>5, <1>6

\* What Throw(w) leaves true.
LEMMA ThrowIInv ==
  ASSUME IInv, NEW w \in Workers, Throw(w)
  PROVE  IInv'
<1>1. /\ pc[w] = "busy" /\ pc' = [pc EXCEPT ![w] = "threw"]
      /\ n' = n /\ c' = c /\ index' = index /\ holds' = holds /\ results' = results
      /\ calls' = calls /\ outcome' = outcome
      /\ Workers' = Workers /\ Items' = Items
  BY DEF Throw, Workers, Items
<1>2. TypeOK'
  BY <1>1 DEF IInv, TypeOK
<1>3. HoldsInv'
  BY <1>1 DEF IInv, TypeOK, HoldsInv
<1>4. \A i \in Items : HeldBy(i)' <=> HeldBy(i)
  BY <1>1 DEF IInv, TypeOK, HeldBy
<1>5. StoreInv'
  BY <1>1, <1>4 DEF IInv, StoreInv
<1>6. OutcomeInv'
  BY <1>1 DEF IInv, OutcomeInv
<1>7. QED
  BY <1>2, <1>3, <1>5, <1>6 DEF IInv

\* The inductive step: a step of the pool preserves the invariant.
LEMMA NextIInv == IInv /\ [Next]_vars => IInv'
<1> SUFFICES ASSUME IInv, [Next]_vars PROVE IInv'
  OBVIOUS
<1>1. ASSUME NEW w \in Workers, Complete(w) PROVE IInv'
  BY <1>1, CompleteIInv
<1>2. ASSUME NEW w \in Workers, Throw(w) PROVE IInv'
  BY <1>2, ThrowIInv
<1>3. CASE ResolveAll
  BY <1>3 DEF ResolveAll, IInv, TypeOK, HoldsInv, StoreInv, OutcomeInv, HeldBy, Workers, Items
<1>4. CASE RejectAll
  BY <1>4 DEF RejectAll, IInv, TypeOK, HoldsInv, StoreInv, OutcomeInv, HeldBy, Workers, Items
<1>5. CASE UNCHANGED vars
  BY <1>5 DEF vars, IInv, TypeOK, HoldsInv, StoreInv, OutcomeInv, HeldBy, Workers, Items
<1>6. QED
  BY <1>1, <1>2, <1>3, <1>4, <1>5 DEF Next, Finished

\* The inductive invariant holds in every reachable state.
LEMMA IInvAlways == Spec => []IInv
BY InitIInv, NextIInv, PTL DEF Spec
-----------------------------------------------------------------------------
\* Type correctness of runWithConcurrency's state.
THEOREM TypeCorrect == Spec => []TypeOK
BY IInvAlways, PTL DEF IInv

\* No item's task is ever called twice, for any interleaving of the workers.
THEOREM CalledOnce == Spec => []CalledAtMostOnce
<1>1. IInv => CalledAtMostOnce
  BY DEF IInv, StoreInv, CalledAtMostOnce
<1>2. QED
  BY <1>1, IInvAlways, PTL

\* A call that resolves has processed every item and stored every value at its
\* own index.
THEOREM ResolvesInPlace == Spec => []ResolvedInPlace
<1>1. IInv => ResolvedInPlace
  <2> SUFFICES ASSUME IInv, outcome = "resolved", c >= 1, NEW i \in Items
               PROVE  results[i] = i
    BY DEF ResolvedInPlace
  <2>1. n \in Nat /\ c \in Int /\ i \in 1..n
    BY SizesAssumption, LimitsAssumption DEF IInv, TypeOK, Items
  <2>2. 1 \in Workers
    BY <2>1, WidthBounds DEF Workers
  <2>3. \A w \in Workers : pc[w] = "exited"
    BY DEF IInv, OutcomeInv
  <2>4. index = n + 1 /\ ~HeldBy(i)
    BY <2>2, <2>3 DEF IInv, HoldsInv, HeldBy
  <2>5. QED
    BY <2>1, <2>4 DEF IInv, StoreInv
<1>2. QED
  BY <1>1, IInvAlways, PTL

\* When everything has settled, every item is stored but those whose own call
\* rejected, unless all workers threw.
THEOREM RejectionIsLocal == Spec => []RejectionStaysLocal
<1>1. IInv => RejectionStaysLocal
  <2> SUFFICES ASSUME IInv, InFlight = {}, NEW w \in Workers, pc[w] # "threw", NEW i \in Items,
                      ~\E v \in Workers : pc[v] = "threw" /\ holds[v] = i
               PROVE  results[i] = i
    BY DEF RejectionStaysLocal
  <2>1. n \in Nat /\ i \in 1..n
    BY SizesAssumption DEF IInv, TypeOK, Items
  <2>2. \A v \in Workers : pc[v] # "busy"
    <3> SUFFICES ASSUME NEW v \in Workers, pc[v] = "busy" PROVE holds[v] \in InFlight
      OBVIOUS
    <3>1. QED
      BY DEF InFlight
  <2>3. \A v \in Workers : pc[v] \in {"busy", "exited", "threw"}
    BY DEF IInv, TypeOK
  <2>4. index = n + 1
    BY <2>2, <2>3 DEF IInv, HoldsInv
  <2>5. ~HeldBy(i)
    BY <2>2, <2>3 DEF HeldBy
  <2>6. QED
    BY <2>1, <2>4, <2>5 DEF IInv, StoreInv
<1>2. QED
  BY <1>1, IInvAlways, PTL
-----------------------------------------------------------------------------
\* The sets of the refinement mapping, by name.
Done == {i \in Items : results[i] # 0}
Threw == {holds[w] : w \in {v \in Workers : pc[v] = "threw"}}

\* The map counts with the same cardinality as the pool.
LEMMA SameCardinality == ASSUME NEW S PROVE Map!Cardinality(S) = Cardinality(S)
BY DEF Map!Cardinality, Cardinality

\* W workers hold at most W busy items.
LEMMA FewHeld ==
  ASSUME NEW W \in Nat, NEW state, NEW item
  PROVE  Cardinality({item[w] : w \in {v \in 1..W : state[v] = "busy"}}) <= W
<1> DEFINE busy == {v \in 1..W : state[v] = "busy"}
           held == {item[w] : w \in busy}
           hold == [v \in busy |-> item[v]]
<1>1. IsFiniteSet(1..W) /\ Cardinality(1..W) = W
  BY FS_Interval
<1>2. IsFiniteSet(busy) /\ Cardinality(busy) <= W
  BY <1>1, FS_Subset
<1>3. hold \in Surjection(busy, held)
  BY DEF Surjection
<1>4. IsFiniteSet(held) /\ Cardinality(held) <= Cardinality(busy)
  BY <1>2, <1>3, FS_Surjection
<1>5. Cardinality(busy) \in Nat /\ Cardinality(held) \in Nat
  BY <1>2, <1>4, FS_CardinalityType
<1>6. QED
  BY <1>2, <1>4, <1>5

\* The pool's initial states are initial states of the map.
LEMMA InitMaps == Init => Map!MapInit
<1> SUFFICES ASSUME Init PROVE Map!MapInit
  OBVIOUS
<1>1. IInv
  BY InitIInv
<1>2. n \in Nat /\ c \in Int /\ Width(n, c) \in Nat /\ Width(n, c) <= n
  BY <1>1, SizesAssumption, LimitsAssumption, WidthBounds DEF IInv, TypeOK
<1>3. Done = {} /\ Threw = {} /\ outcome = "pending"
  BY DEF Init, Done, Threw
<1>4. InFlight = Workers /\ InFlight \subseteq Items
  BY <1>2 DEF Init, InFlight, Workers, Items
<1>5. CASE Map!HasWorker
  <2>1. c >= 1 /\ n >= 1
    BY <1>2, <1>5 DEF Map!HasWorker, Items
  <2>2. 1 \in Workers /\ Width(n, c) <= c
    BY <1>2, <2>1, WidthBounds DEF Workers
  <2>3. Cardinality(InFlight) <= Width(n, c)
    BY <1>2, FewHeld DEF InFlight, Workers
  <2>4. QED
    <3>1. InFlight # {} /\ Cardinality(InFlight) <= c
      <4>1. Cardinality(InFlight) \in Nat
        <5>1. IsFiniteSet(InFlight)
          BY <1>2, <1>4, FS_Interval DEF Workers
        <5>2. QED
          BY <5>1, FS_CardinalityType
      <4>2. QED
        BY <1>2, <1>4, <2>2, <2>3, <4>1
    <3>2. QED
      BY <1>3, <1>4, <1>5, <3>1, SameCardinality DEF Map!MapInit, Done, Threw
<1>6. CASE ~Map!HasWorker
  <2>1. Workers = {}
    <3>1. c < 1 \/ n = 0
      BY <1>2, <1>6 DEF Map!HasWorker, Items
    <3>2. Width(n, c) = 0
      BY <1>2, <3>1 DEF Width
    <3>3. QED
      BY <3>2 DEF Workers
  <2>2. QED
    BY <1>3, <1>4, <1>6, <2>1 DEF Map!MapInit, Done, Threw
<1>7. QED
  BY <1>5, <1>6

\* An advance within bounds is a step of the map.
LEMMA AdvanceIsNext ==
  ASSUME NEW F \in SUBSET InFlight, NEW R \in SUBSET InFlight,
         NEW C \in SUBSET (Items \ Map!Called), Map!Advance(F, R, C)
  PROVE  Map!MapNext
BY DEF Map!MapNext

\* When a task fulfils, the map advances by that item and by the item the
\* worker takes next, if any.
LEMMA CompleteMaps ==
  ASSUME IInv, NEW w \in Workers, Complete(w)
  PROVE  Map!MapNext
<1>0. PICK next : next = IF index <= n THEN {index} ELSE {}
  OBVIOUS
<1>1. IInv'
  BY CompleteIInv
<1>2. n \in Nat /\ c \in Int /\ Width(n, c) \in Nat /\ index \in 1..(n + 1)
  BY SizesAssumption, LimitsAssumption, WidthBounds DEF IInv, TypeOK
<1>3. /\ n' = n /\ c' = c /\ Workers' = Workers /\ Items' = Items /\ outcome' = outcome
      /\ pc[w] = "busy" /\ results' = [results EXCEPT ![holds[w]] = holds[w]]
  BY DEF Complete, Workers, Items, Store
<1>4. /\ holds[w] \in Items /\ holds[w] \in InFlight
      /\ \A v \in Workers : holds[v] \in Items /\ holds[v] < index /\ (v # w => holds[v] # holds[w])
  BY <1>3 DEF IInv, TypeOK, HoldsInv, InFlight
<1>5. next \subseteq Items \ (InFlight \cup Done \cup Threw)
  <2> SUFFICES ASSUME index <= n
               PROVE  index \in Items /\ index \notin InFlight /\ index \notin Done /\ index \notin Threw
    BY <1>0
  <2>1. index \in Items /\ results[index] = 0
    BY <1>2 DEF Items, IInv, StoreInv
  <2>2. index \notin InFlight /\ index \notin Threw
    BY <1>2, <1>4 DEF InFlight, Threw, Items
  <2>3. QED
    BY <2>1, <2>2 DEF Done
<1>6. InFlight' = (InFlight \ {holds[w]}) \cup next
  <2>1. CASE index <= n
    <3>1. pc' = pc /\ holds' = [holds EXCEPT ![w] = index]
      BY <2>1 DEF Complete, TakeNext
    <3>2. \A v \in Workers : holds'[v] = IF v = w THEN index ELSE holds[v]
      BY <3>1 DEF IInv, TypeOK
    <3>3. QED
      BY <1>0, <1>3, <1>4, <2>1, <3>1, <3>2 DEF InFlight
  <2>2. CASE ~(index <= n)
    <3>1. holds' = holds /\ pc' = [pc EXCEPT ![w] = "exited"]
      BY <2>2 DEF Complete, TakeNext
    <3>2. \A v \in Workers : pc'[v] = IF v = w THEN "exited" ELSE pc[v]
      BY <3>1 DEF IInv, TypeOK
    <3>3. QED
      BY <1>0, <1>3, <1>4, <2>2, <3>1, <3>2 DEF InFlight
  <2>3. QED
    BY <2>1, <2>2
<1>7. Threw' = Threw
  <2>1. \A v \in Workers : pc'[v] = "threw" <=> pc[v] = "threw"
    BY <1>3 DEF Complete, TakeNext, IInv, TypeOK
  <2>2. \A v \in Workers : pc[v] = "threw" => holds'[v] = holds[v]
    BY <1>3 DEF Complete, TakeNext, IInv, TypeOK
  <2>3. QED
    BY <1>3, <2>1, <2>2 DEF Threw
<1>8. Done' = Done \cup {holds[w]}
  BY <1>2, <1>3, <1>4 DEF Done, Items, IInv, TypeOK
<1>9. Cardinality(InFlight') <= c
  <2>1. Width(n, c) >= 1 /\ Width(n, c) <= c
    <3>1. Width(n, c) >= 1
      BY <1>2 DEF Workers
    <3>2. QED
      BY <1>2, <3>1 DEF Width
  <2>2. Cardinality(InFlight') <= Width(n, c)
    <3>1. InFlight' = {holds'[v] : v \in {u \in 1..Width(n, c) : pc'[u] = "busy"}}
      BY <1>3 DEF InFlight, Workers
    <3>2. QED
      BY <1>2, <3>1, FewHeld
  <2>3. Cardinality(InFlight') \in Nat
    <3>1. IsFiniteSet(InFlight')
      <4>1. IsFiniteSet(Items)
        BY <1>2, FS_Interval DEF Items
      <4>2. InFlight' \subseteq Items
        BY <1>4, <1>5, <1>6 DEF InFlight
      <4>3. QED
        BY <4>1, <4>2, FS_Subset
    <3>2. QED
      BY <3>1, FS_CardinalityType
  <2>4. QED
    BY <1>2, <2>1, <2>2, <2>3
<1>10. Map!Advance({holds[w]}, {}, next)
  BY <1>3, <1>4, <1>5, <1>6, <1>7, <1>8, <1>9, SameCardinality DEF Map!Advance, Map!Called, Done, Threw
<1>11. QED
  <2>1. {holds[w]} \in SUBSET InFlight /\ {} \in SUBSET InFlight
    BY <1>4
  <2>2. next \in SUBSET (Items \ Map!Called)
    BY <1>5 DEF Map!Called, Done, Threw
  <2>3. QED
    BY <1>10, <2>1, <2>2, AdvanceIsNext

\* When a task rejects, its item moves from the open to the failed ones.
LEMMA ThrowMaps ==
  ASSUME IInv, NEW w \in Workers, Throw(w)
  PROVE  Map!MapNext
<1>1. IInv'
  BY ThrowIInv
<1>2. /\ n' = n /\ c' = c /\ Workers' = Workers /\ Items' = Items /\ outcome' = outcome
      /\ holds' = holds /\ results' = results
      /\ pc[w] = "busy" /\ pc' = [pc EXCEPT ![w] = "threw"]
  BY DEF Throw, Workers, Items
<1>3. n \in Nat /\ c \in Int /\ Width(n, c) \in Nat
  BY SizesAssumption, LimitsAssumption, WidthBounds DEF IInv, TypeOK
<1>4. \A v \in Workers : pc'[v] = IF v = w THEN "threw" ELSE pc[v]
  BY <1>2 DEF IInv, TypeOK
<1>5. \A v \in Workers : holds[v] = holds[w] => v = w
  BY DEF IInv, HoldsInv
<1>6. InFlight' = InFlight \ {holds[w]} /\ Threw' = Threw \cup {holds[w]} /\ Done' = Done
  BY <1>2, <1>4, <1>5 DEF InFlight, Threw, Done
<1>7. Cardinality(InFlight') <= c
  <2>1. Width(n, c) >= 1 /\ Width(n, c) <= c
    <3>1. Width(n, c) >= 1
      BY <1>3 DEF Workers
    <3>2. QED
      BY <1>3, <3>1 DEF Width
  <2>2. Cardinality(InFlight') <= Width(n, c)
    <3>1. InFlight' = {holds'[v] : v \in {u \in 1..Width(n, c) : pc'[u] = "busy"}}
      BY <1>2 DEF InFlight, Workers
    <3>2. QED
      BY <1>3, <3>1, FewHeld
  <2>3. Cardinality(InFlight') \in Nat
    <3>1. IsFiniteSet(InFlight')
      <4>1. IsFiniteSet(Items)
        BY <1>3, FS_Interval DEF Items
      <4>2. InFlight' \subseteq Items
        BY <1>6 DEF InFlight, IInv, TypeOK
      <4>3. QED
        BY <4>1, <4>2, FS_Subset
    <3>2. QED
      BY <3>1, FS_CardinalityType
  <2>4. QED
    BY <1>3, <2>1, <2>2, <2>3
<1>8. holds[w] \in InFlight
  BY <1>2 DEF InFlight
<1>9. Map!Advance({}, {holds[w]}, {})
  BY <1>2, <1>6, <1>7, <1>8, SameCardinality DEF Map!Advance, Map!Called, Done, Threw
<1>10. QED
  BY <1>8, <1>9 DEF Map!MapNext

\* The map resolves when every worker has exited.
LEMMA ResolveMaps ==
  ASSUME IInv, ResolveAll
  PROVE  Map!MapNext
<1>1. n \in Nat /\ c \in Int /\ \A w \in Workers : pc[w] = "exited"
  BY SizesAssumption, LimitsAssumption DEF IInv, TypeOK, ResolveAll
<1>2. InFlight = {} /\ Threw = {}
  BY <1>1 DEF InFlight, Threw
<1>3. Map!HasWorker => Done = Items
  <2> SUFFICES ASSUME Map!HasWorker PROVE Done = Items
    OBVIOUS
  <2>1. 1 \in Workers
    BY <1>1, WidthBounds DEF Map!HasWorker, Items, Workers
  <2>2. index = n + 1 /\ \A i \in Items : ~HeldBy(i)
    BY <1>1, <2>1 DEF IInv, HoldsInv, HeldBy
  <2>3. \A i \in Items : results[i] = i /\ i # 0
    BY <1>1, <2>2 DEF IInv, StoreInv, Items
  <2>4. QED
    BY <2>3 DEF Done
<1>4. Map!Resolve
  BY <1>2, <1>3 DEF Map!Resolve, ResolveAll, Done, Threw, InFlight, Items, Workers
<1>5. QED
  BY <1>4 DEF Map!MapNext

\* Every step of the pool is a step of the map or leaves the map as it is.
LEMMA NextMaps == IInv /\ [Next]_vars => [Map!MapNext]_(Map!mapVars)
<1> SUFFICES ASSUME IInv, [Next]_vars PROVE [Map!MapNext]_(Map!mapVars)
  OBVIOUS
<1>1. ASSUME NEW w \in Workers, Complete(w) PROVE Map!MapNext
  BY <1>1, CompleteMaps
<1>2. ASSUME NEW w \in Workers, Throw(w) PROVE Map!MapNext
  BY <1>2, ThrowMaps
<1>3. ASSUME ResolveAll PROVE Map!MapNext
  BY <1>3, ResolveMaps
<1>4. CASE RejectAll
  BY <1>4 DEF RejectAll, Map!MapNext, Map!Reject, InFlight, Items, Workers
<1>5. CASE UNCHANGED vars
  BY <1>5 DEF vars, Map!mapVars, InFlight, Items, Workers
<1>6. QED
  BY <1>1, <1>2, <1>3, <1>4, <1>5 DEF Next, Finished

\* runWithConcurrency implements the bounded parallel map, for every number of
\* items and every limit.
THEOREM PoolImplementsMap == Spec => ImplementsMap
BY InitMaps, NextMaps, IInvAlways, PTL DEF Spec, ImplementsMap, Map!MapSpec
=============================================================================
