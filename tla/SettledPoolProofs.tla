------------------------- MODULE SettledPoolProofs -------------------------
(***************************************************************************)
(* For every number of workers and items: no item is in two hands, a stop  *)
(* lets each worker start at most one more item, and a pool that resolves  *)
(* has lost nothing.                                                       *)
(***************************************************************************)
EXTENDS SettledPool, TLAPS

LEMMA InitIInv == Init => IInv
BY PoolAssumption
   DEF Init, IInv, TypeOK, CountedOnce, ItemsInOneHand, YesIsOld, StopBoundsTheRest, NoneLost,
       LeftExhausted, Accounted, ResolvedMeansDone, Items, Busy

(* Every step of a worker, the pool's resolution and the stop keep IInv. *)
LEMMA NextIInv == IInv /\ [Next]_vars => IInv'
<1> SUFFICES ASSUME IInv, [Next]_vars PROVE IInv'
  OBVIOUS
<1> USE PoolAssumption DEF IInv, TypeOK, Items, Busy
<1>1. ASSUME NEW w \in Workers, Claim(w) PROVE IInv'
  <2>1. TypeOK' /\ CountedOnce'
    BY <1>1 DEF Claim, CountedOnce
  <2>2. ItemsInOneHand'
    BY <1>1 DEF Claim, CountedOnce, ItemsInOneHand
  <2>3. YesIsOld' /\ StopBoundsTheRest'
    BY <1>1 DEF Claim, YesIsOld, StopBoundsTheRest
  <2>4. ASSUME open', promise' # "rejected"
        PROVE  LeftExhausted' /\ Accounted'
    <3>1. open /\ promise # "rejected" /\ LeftExhausted /\ Accounted
      BY <1>1, <2>4 DEF Claim, NoneLost
    <3>2. ASSUME NEW v \in Workers
          PROVE  (pc'[v] = "gone" => next' = Last) /\ (pc'[v] = "answered" => answer'[v])
      BY <1>1, <3>1 DEF Claim, LeftExhausted
    <3>3. ASSUME NEW i \in 1 .. next, out[i] = "none"
          PROVE  \E v \in Workers : pc'[v] \in Busy /\ item'[v] = i
      <4>1. PICK v \in Workers : pc[v] \in Busy /\ item[v] = i
        BY <3>1, <3>3 DEF Accounted
      <4>2. v # w /\ pc'[v] = pc[v] /\ item'[v] = item[v]
        BY <1>1, <4>1 DEF Claim
      <4>3. QED
        BY <4>1, <4>2
    <3>4. pc'[w] \in Busy /\ item'[w] = next + 1
      BY <1>1 DEF Claim
    <3>5. ASSUME NEW i \in 1 .. next'
          PROVE  out'[i] # "none" \/ \E v \in Workers : pc'[v] \in Busy /\ item'[v] = i
      <4>1. CASE i = next + 1
        BY <3>4, <4>1
      <4>2. CASE i \in 1 .. next
        BY <1>1, <3>3, <4>2 DEF Claim
      <4>3. QED
        BY <1>1, <4>1, <4>2 DEF Claim
    <3>6. QED
      BY <3>2, <3>5 DEF LeftExhausted, Accounted
  <2>5. ResolvedMeansDone'
    BY <1>1 DEF Claim, ResolvedMeansDone
  <2>6. NoneLost'
    BY <2>4 DEF NoneLost
  <2>7. QED
    BY <2>1, <2>2, <2>3, <2>5, <2>6
<1>2. ASSUME NEW w \in Workers, RunDry(w) PROVE IInv'
  BY <1>2 DEF RunDry, CountedOnce, ItemsInOneHand, YesIsOld, StopBoundsTheRest, NoneLost,
     LeftExhausted, Accounted, ResolvedMeansDone
<1>3. ASSUME NEW w \in Workers, Read(w) PROVE IInv'
  BY <1>3 DEF Read, CountedOnce, ItemsInOneHand, YesIsOld, StopBoundsTheRest, NoneLost,
     LeftExhausted, Accounted, ResolvedMeansDone
<1>4. ASSUME NEW w \in Workers, ReadFails(w) PROVE IInv'
  BY <1>4 DEF ReadFails, CountedOnce, ItemsInOneHand, YesIsOld, StopBoundsTheRest, NoneLost,
     LeftExhausted, Accounted, ResolvedMeansDone
<1>5. ASSUME NEW w \in Workers, Start(w) PROVE IInv'
  BY <1>5 DEF Start, CountedOnce, ItemsInOneHand, YesIsOld, StopBoundsTheRest, NoneLost,
     LeftExhausted, Accounted, ResolvedMeansDone
<1>6. ASSUME NEW w \in Workers, Return(w) PROVE IInv'
  BY <1>6 DEF Return, CountedOnce, ItemsInOneHand, YesIsOld, StopBoundsTheRest, NoneLost,
     LeftExhausted, Accounted, ResolvedMeansDone
<1>7. ASSUME NEW w \in Workers, End(w) PROVE IInv'
  BY <1>7 DEF End, CountedOnce, ItemsInOneHand, YesIsOld, StopBoundsTheRest, NoneLost,
     LeftExhausted, Accounted, ResolvedMeansDone
<1>8. CASE Resolve
  BY <1>8 DEF Resolve, CountedOnce, ItemsInOneHand, YesIsOld, StopBoundsTheRest, NoneLost,
     LeftExhausted, Accounted, ResolvedMeansDone
<1>9. CASE Stop
  BY <1>9 DEF Stop, CountedOnce, ItemsInOneHand, YesIsOld, StopBoundsTheRest, NoneLost,
     LeftExhausted, Accounted, ResolvedMeansDone
<1>10. CASE UNCHANGED vars
  BY <1>10 DEF vars, CountedOnce, ItemsInOneHand, YesIsOld, StopBoundsTheRest, NoneLost,
     LeftExhausted, Accounted, ResolvedMeansDone
<1>11. QED
  BY <1>1, <1>2, <1>3, <1>4, <1>5, <1>6, <1>7, <1>8, <1>9, <1>10 DEF Next, WorkerStep

(* The pool's inductive invariant (pool.ts, the loop of each worker). *)
THEOREM PoolInvariant == Spec => []IInv
<1>1. QED
  BY InitIInv, NextIInv, PTL DEF Spec

(* The counter gives every item to one worker (pool.ts, const i = next++). *)
THEOREM PoolItemsInOneHand == Spec => []ItemsInOneHand
<1>1. IInv => ItemsInOneHand
  BY DEF IInv
<1>2. QED
  BY <1>1, PoolInvariant, PTL

(* A stop reaches all the work that has not begun, but for one item a worker
   (pool.ts, keepGoing). *)
THEOREM PoolStopBoundsTheRest == Spec => []StopBoundsTheRest
<1>1. IInv => StopBoundsTheRest
  BY DEF IInv
<1>2. QED
  BY <1>1, PoolInvariant, PTL

(* A resolved pool has nothing under way and, unstopped, an outcome for every
   item (pool.ts, every outcome kept). *)
THEOREM PoolResolvedMeansDone == Spec => []ResolvedMeansDone
<1>1. IInv => ResolvedMeansDone
  BY DEF IInv
<1>2. QED
  BY <1>1, PoolInvariant, PTL

(* Every item is done once, and a pool that resolves is through.           *)
THEOREM PoolEachItemOnce == Spec => []EachItemOnce
<1>1. QED
  BY PoolItemsInOneHand, PoolResolvedMeansDone, PTL DEF EachItemOnce

=============================================================================
