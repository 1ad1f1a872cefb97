---------------------------- MODULE SettledPool ----------------------------
(***************************************************************************)
(* settledPool of src/src/utils/pool.ts: fn over the items, at most Size   *)
(* at a time, and no new item once keepGoing says no.  The universe of a   *)
(* Hatchet run and both halves of a depot check go through it.             *)
(*                                                                         *)
(* A worker is one of the async functions under Promise.all.  It claims an *)
(* item and calls keepGoing in one synchronous stretch; the answer is read *)
(* somewhere else (isRunActive reads the run's row) and arrives later, so  *)
(* it may be stale when fn is called.                                      *)
(***************************************************************************)
EXTENDS Naturals, FiniteSets

CONSTANTS
  Workers,   \* Math.min(size, items.length) async functions
  Last       \* items.length; the items are 1 .. Last

ASSUME PoolAssumption == Last \in Nat /\ (Workers = {} => Last = 0)

VARIABLES
  next,      \* the closure's counter: items claimed so far
  pc, item,  \* where each worker is, and the item it claimed
  answer,    \* what keepGoing read for it
  out,       \* the outcomes
  open,      \* what keepGoing reads: the run is still wanted
  promise,   \* Promise.all over the workers
  late       \* history: items each worker started after the stop

vars == <<next, pc, item, answer, out, open, promise, late>>

Items == 1 .. Last

(* Workers between a yes and the end of fn, or about to ask. *)
Busy == {"asking", "answered", "running"}

-----------------------------------------------------------------------------

Init ==
  /\ next = 0
  /\ pc = [w \in Workers |-> "loop"]
  /\ item = [w \in Workers |-> 0]
  /\ answer = [w \in Workers |-> FALSE]
  /\ out = [i \in Items |-> "none"]
  /\ open = TRUE
  /\ promise = "pending"
  /\ late = [w \in Workers |-> 0]

(* Mutated: const i = next before the await, next++ after it. *)
ClaimWithoutCounting(w) ==
  /\ pc[w] = "loop" /\ next < Last
  /\ item' = [item EXCEPT ![w] = next + 1]
  /\ pc' = [pc EXCEPT ![w] = "asking"]
  /\ \E n \in {next, next + 1} : next' = n
  /\ UNCHANGED <<answer, out, open, promise, late>>

(* while (next < items.length) const i = next++, and keepGoing is called. *)
Claim(w) ==
  /\ pc[w] = "loop" /\ next < Last
  /\ next' = next + 1
  /\ item' = [item EXCEPT ![w] = next + 1]
  /\ pc' = [pc EXCEPT ![w] = "asking"]
  /\ UNCHANGED <<answer, out, open, promise, late>>

(* Nothing left to claim: the worker's promise resolves. *)
RunDry(w) ==
  /\ pc[w] = "loop" /\ next = Last
  /\ pc' = [pc EXCEPT ![w] = "gone"]
  /\ UNCHANGED <<next, item, answer, out, open, promise, late>>

(* keepGoing reads the row. *)
Read(w) ==
  /\ pc[w] = "asking"
  /\ answer' = [answer EXCEPT ![w] = open]
  /\ pc' = [pc EXCEPT ![w] = "answered"]
  /\ UNCHANGED <<next, item, out, open, promise, late>>

(* keepGoing throws, outside the try: the worker rejects, and Promise.all with
   it, while the other workers go on unawaited. *)
ReadFails(w) ==
  /\ pc[w] = "asking"
  /\ pc' = [pc EXCEPT ![w] = "gone"]
  /\ promise' = IF promise = "pending" THEN "rejected" ELSE promise
  /\ UNCHANGED <<next, item, answer, out, open, late>>

(* The answer was yes: fn is called, whatever has happened since the read. *)
Start(w) ==
  /\ pc[w] = "answered" /\ answer[w]
  /\ pc' = [pc EXCEPT ![w] = "running"]
  /\ late' = [late EXCEPT ![w] = IF open THEN @ ELSE @ + 1]
  /\ UNCHANGED <<next, item, answer, out, open, promise>>

(* The answer was no: the worker returns, its claimed item unstarted. *)
Return(w) ==
  /\ pc[w] = "answered" /\ ~answer[w]
  /\ pc' = [pc EXCEPT ![w] = "gone"]
  /\ UNCHANGED <<next, item, answer, out, open, promise, late>>

(* fn settles: either outcome is kept, and the worker looks for more. *)
End(w) ==
  /\ pc[w] = "running"
  /\ \E o \in {"fulfilled", "rejected"} : out' = [out EXCEPT ![item[w]] = o]
  /\ pc' = [pc EXCEPT ![w] = "loop"]
  /\ UNCHANGED <<next, item, answer, open, promise, late>>

(* Mutated: waits for an outcome of every item. *)
ResolveWhenComplete ==
  /\ promise = "pending" /\ \A i \in Items : out[i] # "none"
  /\ promise' = "resolved"
  /\ UNCHANGED <<next, pc, item, answer, out, open, late>>

(* Promise.all resolves, and the outcomes are returned. *)
Resolve ==
  /\ promise = "pending" /\ \A w \in Workers : pc[w] = "gone"
  /\ promise' = "resolved"
  /\ UNCHANGED <<next, pc, item, answer, out, open, late>>

(* Somebody closes the row; a closed row never opens again. *)
Stop ==
  /\ open
  /\ open' = FALSE
  /\ UNCHANGED <<next, pc, item, answer, out, promise, late>>

WorkerStep(w) ==
  \/ Claim(w) \/ RunDry(w) \/ Read(w) \/ ReadFails(w)
  \/ Start(w) \/ Return(w) \/ End(w)

Next == (\E w \in Workers : WorkerStep(w)) \/ Resolve \/ Stop

Spec == Init /\ [][Next]_vars

(* Promises settle: fn and keepGoing both end. *)
FairSpec == Spec /\ (\A w \in Workers : WF_vars(WorkerStep(w))) /\ WF_vars(Resolve)

-----------------------------------------------------------------------------
(* The shape of the closure's state. *)
TypeOK ==
  /\ next \in 0 .. Last
  /\ pc \in [Workers -> Busy \cup {"loop", "gone"}]
  /\ item \in [Workers -> 0 .. Last]
  /\ answer \in [Workers -> BOOLEAN]
  /\ out \in [Items -> {"none", "fulfilled", "rejected"}]
  /\ open \in BOOLEAN
  /\ promise \in {"pending", "resolved", "rejected"}
  /\ late \in [Workers -> Nat]

(* No item is in two hands, and none in hand is already settled: the counter is
   read and raised in one stretch, however the workers interleave. *)
ItemsInOneHand ==
  \A w \in Workers : pc[w] \in Busy =>
    /\ out[item[w]] = "none"
    /\ \A v \in Workers \ {w} : pc[v] \in Busy => item[v] # item[w]

(* After a stop each worker starts at most the one item it already had a yes
   for: a stop costs at most Size more items, however many are left. *)
StopBoundsTheRest == \A w \in Workers : late[w] <= 1

(* When the pool resolves, nothing is under way any more, and without a stop
   every item has its outcome. *)
ResolvedMeansDone ==
  promise = "resolved" =>
    /\ \A w \in Workers : pc[w] = "gone"
    /\ open => \A i \in Items : out[i] # "none"

(* Together: every item is done once, and a pool that resolves is through. *)
EachItemOnce == ItemsInOneHand /\ ResolvedMeansDone

(* Why: a busy worker's item is counted, an uncounted one is untouched. *)
CountedOnce ==
  /\ \A w \in Workers : pc[w] \in Busy => item[w] \in 1 .. next
  /\ \A i \in Items : i > next => out[i] = "none"

(* A worker that started an item after the stop reads no more yes. *)
YesIsOld ==
  \A w \in Workers :
    /\ open => late[w] = 0
    /\ late[w] = 1 /\ pc[w] = "answered" => ~answer[w]

(* A worker leaves only an exhausted list, and every counted item is settled
   or in somebody's hands. *)
LeftExhausted ==
  \A w \in Workers :
    /\ pc[w] = "gone" => next = Last
    /\ pc[w] = "answered" => answer[w]
Accounted ==
  \A i \in 1 .. next :
    out[i] # "none" \/ \E w \in Workers : pc[w] \in Busy /\ item[w] = i

(* That holds while nothing was stopped and nothing threw. *)
NoneLost == open /\ promise # "rejected" => LeftExhausted /\ Accounted

(* The inductive invariant behind the three properties above. *)
IInv ==
  /\ TypeOK
  /\ CountedOnce
  /\ ItemsInOneHand
  /\ YesIsOld
  /\ StopBoundsTheRest
  /\ NoneLost
  /\ ResolvedMeansDone

(* The pool comes to an end, stopped or not, whatever its items do. *)
PoolSettles == <>(promise # "pending")

=============================================================================
