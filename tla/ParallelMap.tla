---------------------------- MODULE ParallelMap ----------------------------
(***************************************************************************)
(* What a bounded parallel map promises its caller, whoever schedules the  *)
(* work: every item is handed to the task at most once, never more than    *)
(* `limit' tasks are open together, and the map resolves only when nothing *)
(* is open and (unless there is no worker at all) every item is done.      *)
(*                                                                         *)
(* WorkerPool shows that runWithConcurrency keeps this promise;            *)
(* CollectCycle relies on nothing else of it.                              *)
(***************************************************************************)
EXTENDS Integers, FiniteSets

VARIABLES
  items,    (* the set of items this call maps over                        *)
  limit,    (* the concurrency limit, any integer the caller passes        *)
  open,     (* items whose task has been called and has not settled        *)
  done,     (* items whose task fulfilled                                  *)
  failed,   (* items whose task rejected                                   *)
  outcome   (* what the returned promise is: pending, resolved, rejected   *)

mapVars == <<items, limit, open, done, failed, outcome>>

Called == open \cup done \cup failed

\* A limit below one leaves the map without a worker.
HasWorker == limit >= 1 /\ items # {}

MapInit ==
  /\ done = {}
  /\ failed = {}
  /\ outcome = "pending"
  /\ open \subseteq items
  /\ IF HasWorker THEN open # {} /\ Cardinality(open) <= limit ELSE open = {}

\* Some open tasks settle and some items not called before are called.
Advance(fulfilled, rejected, called) ==
  /\ fulfilled \cup rejected \subseteq open
  /\ fulfilled \cap rejected = {}
  /\ called \subseteq items \ Called
  /\ open' = (open \ (fulfilled \cup rejected)) \cup called
  /\ Cardinality(open') <= limit
  /\ done' = done \cup fulfilled
  /\ failed' = failed \cup rejected
  /\ UNCHANGED <<items, limit, outcome>>

Resolve ==
  /\ outcome = "pending"
  /\ open = {} /\ failed = {}
  /\ HasWorker => done = items
  /\ outcome' = "resolved"
  /\ UNCHANGED <<items, limit, open, done, failed>>

Reject ==
  /\ outcome = "pending"
  /\ failed # {}
  /\ outcome' = "rejected"
  /\ UNCHANGED <<items, limit, open, done, failed>>

MapNext ==
  \/ \E fulfilled, rejected \in SUBSET open, called \in SUBSET (items \ Called) :
        Advance(fulfilled, rejected, called)
  \/ Resolve
  \/ Reject

MapSpec == MapInit /\ [][MapNext]_mapVars
=============================================================================
