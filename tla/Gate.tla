-------------------------------- MODULE Gate --------------------------------
(***************************************************************************)
(* "At most N of these at once", by waiting: the class Gate of             *)
(* src/src/hatchet/gate.ts.  distillGate and analysisGate are its two      *)
(* instances (src/src/hatchet/limits.ts).                                  *)
(*                                                                         *)
(* JavaScript runs one callback at a time, so acquire() and release() are  *)
(* atomic.  What is not atomic is the way from a slot to the work: both a  *)
(* free slot and a handed-over one only settle a promise, and the caller   *)
(* resumes in a later microtask, with any number of other callbacks in     *)
(* between.  That gap is the state "granted".                              *)
(***************************************************************************)
EXTENDS Naturals, Sequences, FiniteSets

CONSTANTS
  Callers,     \* the asynchronous calls that may be inside run() at once
  Limit        \* the constructor's limit

ASSUME LimitAssumption   == Limit \in Nat \ {0}
ASSUME CallersAssumption == IsFiniteSet(Callers)

VARIABLES
  active,      \* Gate.active: slots taken
  waiting,     \* Gate.waiting: the resolvers pushed by acquire(), oldest first
  pc           \* where each caller is inside run()

vars == <<active, waiting, pc>>

Places == {"idle", "waiting", "granted", "running"}

(* Callers that own a slot, whether or not fn has begun. *)
Holders == {c \in Callers : pc[c] \in {"granted", "running"}}

Queued == {waiting[i] : i \in DOMAIN waiting}

-----------------------------------------------------------------------------

Init ==
  /\ active = 0
  /\ waiting = <<>>
  /\ pc = [c \in Callers |-> "idle"]

(* Mutated: the limit is not looked at. *)
AcquireAlways(c) ==
  /\ pc[c] = "idle"
  /\ active' = active + 1
  /\ pc' = [pc EXCEPT ![c] = "granted"]
  /\ UNCHANGED waiting

(* acquire() with a slot free: count it and resolve at once. *)
AcquireFree(c) ==
  /\ pc[c] = "idle"
  /\ active < Limit
  /\ active' = active + 1
  /\ pc' = [pc EXCEPT ![c] = "granted"]
  /\ UNCHANGED waiting

(* acquire() at the limit: queue the promise's resolver. *)
AcquireWait(c) ==
  /\ pc[c] = "idle"
  /\ ~(active < Limit)
  /\ waiting' = Append(waiting, c)
  /\ pc' = [pc EXCEPT ![c] = "waiting"]
  /\ UNCHANGED active

(* The awaited acquire() resumes and fn is called. *)
Begin(c) ==
  /\ pc[c] = "granted"
  /\ pc' = [pc EXCEPT ![c] = "running"]
  /\ UNCHANGED <<active, waiting>>

(* release() with somebody waiting: the slot is handed over, never freed. *)
HandOver(c) ==
  /\ waiting # <<>>
  /\ waiting' = Tail(waiting)
  /\ pc' = [pc EXCEPT ![c] = "idle", ![Head(waiting)] = "granted"]
  /\ UNCHANGED active

(* Mutated: release() frees the slot without looking at the queue. *)
FreeAlways(c) ==
  /\ active' = active - 1
  /\ pc' = [pc EXCEPT ![c] = "idle"]
  /\ UNCHANGED waiting

(* release() with nobody waiting. *)
Free(c) ==
  /\ waiting = <<>>
  /\ active' = active - 1
  /\ pc' = [pc EXCEPT ![c] = "idle"]
  /\ UNCHANGED waiting

(* fn settles, fulfilled or rejected: the finally block releases either way. *)
Finish(c) ==
  /\ pc[c] = "running"
  /\ HandOver(c) \/ Free(c)

Next ==
  \E c \in Callers :
    \/ AcquireFree(c)
    \/ AcquireWait(c)
    \/ Begin(c)
    \/ Finish(c)

Spec == Init /\ [][Next]_vars

(***************************************************************************)
(* A resolved promise is always resumed, and the gated work ends: every    *)
(* step function behind the gates reports failure instead of hanging, and  *)
(* the calls it makes carry timeouts.                                      *)
(***************************************************************************)
Fairness == \A c \in Callers : WF_vars(Begin(c)) /\ WF_vars(Finish(c))

FairSpec == Spec /\ Fairness

-----------------------------------------------------------------------------
(* The shape of the gate's two fields and of its callers' states. *)
TypeOK ==
  /\ active \in 0 .. Limit
  /\ waiting \in Seq(Callers)
  /\ pc \in [Callers -> Places]

(* The counter never drifts from the slots really owned: a handed-over slot
   stays counted and a freed one is not counted twice. *)
CounterIsHolders == active = Cardinality(Holders)

(* At no moment do more than Limit callers own a slot, resumed or not.  This
   is what the gate is for: Distill answers one request at a time. *)
AtMostLimit == Cardinality(Holders) <= Limit

(* Nobody queues while a slot is free: release() hands a slot to the queue
   before it ever frees one, so no wake-up is lost. *)
NoIdleSlotWhileQueued == waiting # <<>> => active = Limit

(* A queued caller is one parked on its promise, and is queued once. *)
QueueIsParked ==
  /\ Queued = {c \in Callers : pc[c] = "waiting"}
  /\ \A i, j \in DOMAIN waiting : waiting[i] = waiting[j] => i = j

(* The inductive invariant behind AtMostLimit and the refinement. *)
IInv ==
  /\ TypeOK
  /\ CounterIsHolders
  /\ NoIdleSlotWhileQueued
  /\ QueueIsParked

(* First come, first served: no step takes a caller out of the queue while it
   leaves in somebody who stood in front of him. *)
ServedInOrder ==
  [][\A i, j \in DOMAIN waiting :
        (i < j /\ waiting[i] \in {waiting'[k] : k \in DOMAIN waiting'})
          => waiting[j] \in {waiting'[k] : k \in DOMAIN waiting'}]_vars

(* Nobody waits at the gate for ever. *)
NoStarvation == \A c \in Callers : (pc[c] = "waiting") ~> (pc[c] = "running")

(* Seen through its slots the gate is a counting semaphore. *)
Sem == INSTANCE Semaphore WITH held <- Holders

(* The queue, the resolvers and the microtask between a slot and its use are
   invisible to who may run: the class implements the abstract semaphore. *)
ImplementsSemaphore == Sem!Spec

=============================================================================
