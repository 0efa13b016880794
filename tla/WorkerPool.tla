----------------------------- MODULE WorkerPool -----------------------------
(***************************************************************************)
(* runWithConcurrency(items, concurrency, fn) of collector/worker-pool.ts: *)
(* min(concurrency, items.length) workers share one `index'; each takes    *)
(* the next index, awaits fn(items[i]) and stores the outcome at           *)
(* results[i].  JavaScript runs a worker from one await to the next        *)
(* without interruption, so a step is "my task settled; I store its value  *)
(* and take my next item".                                                 *)
(*                                                                         *)
(* Items are their positions 1..n (the code counts from 0); the value fn   *)
(* computes for item i is i itself, so results[i] = i says "in place".     *)
(***************************************************************************)
EXTENDS Integers, FiniteSets

CONSTANTS
  Sizes,     (* the numbers of items the caller may pass                   *)
  Limits,    (* the concurrency limits: config.ts takes any integer        *)
  MayReject  (* may a call of fn reject? collectFromInstance never does    *)

ASSUME SizesAssumption == Sizes \subseteq Nat
ASSUME LimitsAssumption == Limits \subseteq Int
ASSUME MayRejectAssumption == MayReject \in BOOLEAN

VARIABLES
  n,        (* items.length                                                *)
  c,        (* concurrency                                                 *)
  index,    (* the next item to take, 1..n+1                               *)
  pc,       (* per worker: "busy" (awaiting fn), "exited" or "threw"       *)
  holds,    (* per worker: the item it took last                           *)
  results,  (* the sparse result array: 0 where nothing is stored          *)
  calls,    (* history: how often fn was called for each item              *)
  outcome   (* the promise runWithConcurrency returned                     *)

vars == <<n, c, index, pc, holds, results, calls, outcome>>
-----------------------------------------------------------------------------
\* Mutant: the limit is forgotten, one worker per item.
Width_unlimited(size, limit) == IF limit < 0 THEN 0 ELSE size

\* Array.from({ length: Math.min(concurrency, items.length) }): a negative
\* or zero length makes no worker.
Width(size, limit) == IF limit < size THEN (IF limit < 0 THEN 0 ELSE limit) ELSE size

Workers == 1..Width(n, c)
Items == 1..n

\* Array.from runs every worker up to its first await, so each of them holds
\* an item before the caller sees the promise.
Init ==
  /\ n \in Sizes
  /\ c \in Limits
  /\ index = Width(n, c) + 1
  /\ pc = [w \in Workers |-> "busy"]
  /\ holds = [w \in Workers |-> w]
  /\ results = [i \in Items |-> 0]
  /\ calls = [i \in Items |-> IF i <= Width(n, c) THEN 1 ELSE 0]
  /\ outcome = "pending"

\* Mutant: while (index <= items.length).
TakeNext_onePast(w) ==
  IF index <= n + 1
    THEN /\ holds' = [holds EXCEPT ![w] = index]
         /\ index' = index + 1
         /\ UNCHANGED <<pc, calls>>
    ELSE /\ pc' = [pc EXCEPT ![w] = "exited"]
         /\ UNCHANGED <<holds, calls, index>>

\* Mutant: the shared index is advanced only after the item is done, so the
\* next worker to look takes the same item.
TakeNext_lateIncrement(w) ==
  IF index <= n
    THEN /\ holds' = [holds EXCEPT ![w] = index]
         /\ calls' = [calls EXCEPT ![index] = @ + 1]
         /\ index' = IF \E v \in Workers \ {w} : holds[v] = index THEN index + 1 ELSE index
         /\ UNCHANGED pc
    ELSE /\ pc' = [pc EXCEPT ![w] = "exited"]
         /\ UNCHANGED <<holds, calls, index>>

\* while (index < items.length) { const i = index++; ... fn(items[i]) }
TakeNext(w) ==
  IF index <= n
    THEN /\ holds' = [holds EXCEPT ![w] = index]
         /\ calls' = [calls EXCEPT ![index] = @ + 1]
         /\ index' = index + 1
         /\ UNCHANGED pc
    ELSE /\ pc' = [pc EXCEPT ![w] = "exited"]
         /\ UNCHANGED <<holds, calls, index>>

\* Mutant: results.push(value) instead of results[i] = value.
Store_push(w) ==
  LET filled == {i \in Items : results[i] # 0}
  IN  results' = [results EXCEPT ![Cardinality(filled) + 1] = holds[w]]

Store(w) == results' = [results EXCEPT ![holds[w]] = holds[w]]

\* fn(items[i]) fulfilled.
Complete(w) ==
  /\ pc[w] = "busy"
  /\ Store(w)
  /\ TakeNext(w)
  /\ UNCHANGED <<n, c, outcome>>

\* Mutant: a rejection empties the queue, so the other workers find no item left.
Throw_endsAll(w) ==
  /\ MayReject
  /\ pc[w] = "busy"
  /\ pc' = [pc EXCEPT ![w] = "threw"]
  /\ index' = n + 1
  /\ UNCHANGED <<n, c, holds, results, calls, outcome>>

\* fn(items[i]) rejected: the worker's promise rejects and Promise.all with
\* it; the other workers keep running.
Throw(w) ==
  /\ MayReject
  /\ pc[w] = "busy"
  /\ pc' = [pc EXCEPT ![w] = "threw"]
  /\ UNCHANGED <<n, c, index, holds, results, calls, outcome>>

\* Promise.all(workers) resolves (at once when there is no worker).
ResolveAll ==
  /\ outcome = "pending"
  /\ \A w \in Workers : pc[w] = "exited"
  /\ outcome' = "resolved"
  /\ UNCHANGED <<n, c, index, pc, holds, results, calls>>

\* Mutant: a rejected worker is ignored and the call waits for it forever.
RejectAll_lost == FALSE /\ UNCHANGED vars

RejectAll ==
  /\ outcome = "pending"
  /\ \E w \in Workers : pc[w] = "threw"
  /\ outcome' = "rejected"
  /\ UNCHANGED <<n, c, index, pc, holds, results, calls>>

\* The call is over and no worker is left running.
Finished ==
  /\ outcome # "pending"
  /\ \A w \in Workers : pc[w] # "busy"
  /\ UNCHANGED vars

Next ==
  \/ \E w \in Workers : Complete(w) \/ Throw(w)
  \/ ResolveAll
  \/ RejectAll
  \/ Finished

\* Every task settles (its connection and its requests time out) and the event
\* loop delivers the settlement.
Fairness ==
  /\ \A w \in UNION {1..size : size \in Sizes} : WF_vars(w \in Workers /\ Complete(w))
  /\ WF_vars(ResolveAll)
  /\ WF_vars(RejectAll)

Spec == Init /\ [][Next]_vars /\ Fairness
-----------------------------------------------------------------------------
TypeOK ==
  /\ n \in Sizes
  /\ c \in Limits
  /\ index \in 1..(n + 1)
  /\ pc \in [Workers -> {"busy", "exited", "threw"}]
  /\ holds \in [Workers -> Items]
  /\ results \in [Items -> 0..n]
  /\ calls \in [Items -> Nat]
  /\ outcome \in {"pending", "resolved", "rejected"}

InFlight == {holds[w] : w \in {v \in Workers : pc[v] = "busy"}}

\* No instance is collected twice by one cycle, however the workers interleave.
CalledAtMostOnce == \A i \in Items : calls[i] <= 1

\* When the call resolves with at least one worker, every item was processed
\* and its value is at its own place in the results.
ResolvedInPlace ==
  (outcome = "resolved" /\ c >= 1) => \A i \in Items : results[i] = i

\* A rejected call takes its own item and its own worker with it, nothing else:
\* the promise of the caller rejects at once, and behind its back every worker that
\* did not throw goes on, until each item is stored but those whose call rejected.
\* Only a pool all of whose workers threw leaves items untouched.
RejectionStaysLocal ==
  InFlight = {} /\ (\E w \in Workers : pc[w] # "threw") =>
    \A i \in Items : results[i] = i \/ \E w \in Workers : pc[w] = "threw" /\ holds[w] = i

\* The abstract map this pool implements.
Map == INSTANCE ParallelMap WITH
  items   <- Items,
  limit   <- c,
  open    <- InFlight,
  done    <- {i \in Items : results[i] # 0},
  failed  <- {holds[w] : w \in {v \in Workers : pc[v] = "threw"}},
  outcome <- outcome

\* The pool refines the parallel map.
ImplementsMap == Map!MapSpec

\* The call always returns.
CallReturns == <>(outcome # "pending")
=============================================================================
