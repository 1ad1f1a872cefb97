----------------------------- MODULE GateProofs -----------------------------
(***************************************************************************)
(* For every set of callers and every limit: the gate never has more than  *)
(* Limit holders, and it implements the counting semaphore.                *)
(***************************************************************************)
EXTENDS Gate, FiniteSetTheorems, SequenceTheorems, TLAPS

(* Slots are owned by callers, so there are finitely many owners. *)
LEMMA HoldersFinite ==
  ASSUME TypeOK
  PROVE  /\ IsFiniteSet(Holders)
         /\ Cardinality(Holders) \in Nat
BY CallersAssumption, FS_Subset, FS_CardinalityType DEF Holders

(* The tail of a queue without repetitions holds everybody but its head. *)
LEMMA TailOfQueue ==
  ASSUME NEW S, NEW s \in Seq(S), s # <<>>,
         \A i, j \in DOMAIN s : s[i] = s[j] => i = j
  PROVE  /\ Head(s) \in S
         /\ Tail(s) \in Seq(S)
         /\ {Tail(s)[i] : i \in DOMAIN Tail(s)} = {s[i] : i \in DOMAIN s} \ {Head(s)}
         /\ Head(s) \in {s[i] : i \in DOMAIN s}
         /\ \A i, j \in DOMAIN Tail(s) : Tail(s)[i] = Tail(s)[j] => i = j
<1>1. /\ Len(s) \in Nat \ {0}
      /\ DOMAIN s = 1 .. Len(s)
      /\ Head(s) = s[1]
      /\ Tail(s) \in Seq(S)
      /\ Len(Tail(s)) = Len(s) - 1
      /\ DOMAIN Tail(s) = 1 .. (Len(s) - 1)
      /\ \A i \in 1 .. (Len(s) - 1) : Tail(s)[i] = s[i + 1]
  OBVIOUS
<1>2. \A i \in 1 .. Len(s) : s[i] \in S
  OBVIOUS
<1>3. {Tail(s)[i] : i \in DOMAIN Tail(s)} \subseteq {s[i] : i \in DOMAIN s} \ {Head(s)}
  BY <1>1
<1>4. ASSUME NEW x \in {s[i] : i \in DOMAIN s} \ {Head(s)}
      PROVE  x \in {Tail(s)[i] : i \in DOMAIN Tail(s)}
  <2>1. PICK i \in 1 .. Len(s) : x = s[i] /\ i # 1
    BY <1>1
  <2>2. i - 1 \in 1 .. (Len(s) - 1) /\ Tail(s)[i - 1] = s[i]
    BY <1>1, <2>1
  <2>3. QED
    BY <1>1, <2>1, <2>2
<1>5. Head(s) \in {s[i] : i \in DOMAIN s} /\ Head(s) \in S
  BY <1>1, <1>2
<1>6. \A i, j \in DOMAIN Tail(s) : Tail(s)[i] = Tail(s)[j] => i = j
  BY <1>1
<1>7. QED
  BY <1>1, <1>3, <1>4, <1>5, <1>6

(* Appending somebody new to a queue adds him alone and keeps it free of repetitions. *)
LEMMA AppendToQueue ==
  ASSUME NEW S, NEW s \in Seq(S), NEW c \in S, c \notin {s[i] : i \in DOMAIN s},
         \A i, j \in DOMAIN s : s[i] = s[j] => i = j
  PROVE  /\ Append(s, c) \in Seq(S)
         /\ Append(s, c) # <<>>
         /\ {Append(s, c)[i] : i \in DOMAIN Append(s, c)} = {s[i] : i \in DOMAIN s} \cup {c}
         /\ \A i, j \in DOMAIN Append(s, c) : Append(s, c)[i] = Append(s, c)[j] => i = j
<1>1. /\ Len(s) \in Nat
      /\ DOMAIN s = 1 .. Len(s)
      /\ Append(s, c) \in Seq(S)
      /\ DOMAIN Append(s, c) = 1 .. (Len(s) + 1)
      /\ Append(s, c)[Len(s) + 1] = c
      /\ \A i \in 1 .. Len(s) : Append(s, c)[i] = s[i]
  OBVIOUS
<1>2. Append(s, c) # <<>>
  BY <1>1
<1>3. {Append(s, c)[i] : i \in DOMAIN Append(s, c)} = {s[i] : i \in DOMAIN s} \cup {c}
  BY <1>1
<1>4. \A i, j \in DOMAIN Append(s, c) : Append(s, c)[i] = Append(s, c)[j] => i = j
  BY <1>1
<1>5. QED
  BY <1>1, <1>2, <1>3, <1>4

-----------------------------------------------------------------------------

LEMMA InitIInv == Init => IInv
<1> SUFFICES ASSUME Init PROVE IInv
  OBVIOUS
<1>1. Holders = {}
  BY DEF Init, Holders
<1>2. QED
  BY <1>1, FS_EmptySet, LimitAssumption
     DEF Init, IInv, TypeOK, CounterIsHolders, NoIdleSlotWhileQueued, QueueIsParked, Queued, Places

(* The slots after each of the gate's steps. *)
LEMMA TakenSlot ==
  ASSUME IInv, NEW c \in Callers, AcquireFree(c)
  PROVE  /\ c \notin Holders
         /\ Holders' = Holders \cup {c}
         /\ Cardinality(Holders') = Cardinality(Holders) + 1
<1>1. c \notin Holders /\ Holders' = Holders \cup {c}
  BY DEF IInv, TypeOK, AcquireFree, Holders
<1>2. QED
  BY <1>1, HoldersFinite, FS_AddElement DEF IInv

LEMMA FreedSlot ==
  ASSUME IInv, NEW c \in Callers, pc[c] = "running", Free(c)
  PROVE  /\ c \in Holders
         /\ Holders' = Holders \ {c}
         /\ Cardinality(Holders') = Cardinality(Holders) - 1
<1>1. c \in Holders /\ Holders' = Holders \ {c}
  BY DEF IInv, TypeOK, Free, Holders
<1>2. QED
  BY <1>1, HoldersFinite, FS_RemoveElement DEF IInv

LEMMA PassedSlot ==
  ASSUME IInv, NEW c \in Callers, pc[c] = "running", HandOver(c)
  PROVE  /\ Head(waiting) \in Callers
         /\ pc[Head(waiting)] = "waiting"
         /\ c \in Holders
         /\ Head(waiting) \notin Holders
         /\ Holders' = (Holders \ {c}) \cup {Head(waiting)}
         /\ Cardinality(Holders') = Cardinality(Holders)
<1>1. Head(waiting) \in Callers /\ pc[Head(waiting)] = "waiting"
  BY TailOfQueue DEF IInv, TypeOK, QueueIsParked, Queued, HandOver
<1>2. c \in Holders /\ Head(waiting) \notin Holders
  BY <1>1 DEF Holders
<1>3. Holders' = (Holders \ {c}) \cup {Head(waiting)}
  BY <1>1 DEF IInv, TypeOK, HandOver, Holders
<1>4. IsFiniteSet(Holders \ {c}) /\ Cardinality(Holders \ {c}) = Cardinality(Holders) - 1
  BY <1>2, HoldersFinite, FS_RemoveElement DEF IInv
<1>5. Cardinality(Holders') = (Cardinality(Holders) - 1) + 1
  BY <1>2, <1>3, <1>4, FS_AddElement
<1>6. QED
  BY <1>1, <1>2, <1>3, <1>5, HoldersFinite DEF IInv

(* Every step of the gate keeps the counter, the queue and the owners in agreement. *)
LEMMA NextIInv == IInv /\ [Next]_vars => IInv'
<1> SUFFICES ASSUME IInv, [Next]_vars PROVE IInv'
  OBVIOUS
<1> USE LimitAssumption
<1>1. ASSUME NEW c \in Callers, AcquireFree(c) PROVE IInv'
  <2>1. TypeOK'
    BY <1>1 DEF IInv, TypeOK, AcquireFree, Places
  <2>2. CounterIsHolders'
    BY <1>1, TakenSlot DEF IInv, CounterIsHolders, AcquireFree
  <2>3. waiting = <<>>
    BY <1>1 DEF IInv, TypeOK, NoIdleSlotWhileQueued, AcquireFree
  <2>4. NoIdleSlotWhileQueued'
    BY <1>1, <2>3 DEF NoIdleSlotWhileQueued, AcquireFree
  <2>5. QueueIsParked'
    BY <1>1 DEF IInv, TypeOK, QueueIsParked, Queued, AcquireFree
  <2>6. QED
    BY <2>1, <2>2, <2>4, <2>5 DEF IInv
<1>2. ASSUME NEW c \in Callers, AcquireWait(c) PROVE IInv'
  <2>1. c \notin Queued
    BY <1>2 DEF IInv, QueueIsParked, AcquireWait
  <2>2. TypeOK'
    BY <1>2 DEF IInv, TypeOK, AcquireWait, Places
  <2>3. Holders' = Holders
    BY <1>2 DEF IInv, TypeOK, AcquireWait, Holders
  <2>4. CounterIsHolders'
    BY <1>2, <2>3 DEF IInv, CounterIsHolders, AcquireWait
  <2>5. NoIdleSlotWhileQueued'
    BY <1>2 DEF IInv, TypeOK, NoIdleSlotWhileQueued, AcquireWait
  <2>6. /\ Queued' = Queued \cup {c}
        /\ \A i, j \in DOMAIN waiting' : waiting'[i] = waiting'[j] => i = j
    BY <1>2, <2>1, AppendToQueue DEF IInv, TypeOK, QueueIsParked, Queued, AcquireWait
  <2>7. QueueIsParked'
    BY <1>2, <2>6 DEF IInv, TypeOK, QueueIsParked, AcquireWait
  <2>8. QED
    BY <2>2, <2>4, <2>5, <2>7 DEF IInv
<1>3. ASSUME NEW c \in Callers, Begin(c) PROVE IInv'
  <2>1. TypeOK'
    BY <1>3 DEF IInv, TypeOK, Begin, Places
  <2>2. Holders' = Holders
    BY <1>3 DEF IInv, TypeOK, Begin, Holders
  <2>3. CounterIsHolders'
    BY <1>3, <2>2 DEF IInv, CounterIsHolders, Begin
  <2>4. NoIdleSlotWhileQueued'
    BY <1>3 DEF IInv, NoIdleSlotWhileQueued, Begin
  <2>5. QueueIsParked'
    BY <1>3 DEF IInv, TypeOK, QueueIsParked, Queued, Begin
  <2>6. QED
    BY <2>1, <2>3, <2>4, <2>5 DEF IInv
<1>4. ASSUME NEW c \in Callers, pc[c] = "running", HandOver(c) PROVE IInv'
  <2>1. /\ Head(waiting) \in Callers
        /\ Tail(waiting) \in Seq(Callers)
        /\ Queued' = Queued \ {Head(waiting)}
        /\ \A i, j \in DOMAIN waiting' : waiting'[i] = waiting'[j] => i = j
    <3>1. waiting \in Seq(Callers) /\ waiting # <<>> /\ waiting' = Tail(waiting)
      BY <1>4 DEF IInv, TypeOK, HandOver
    <3>2. \A i, j \in DOMAIN waiting : waiting[i] = waiting[j] => i = j
      BY DEF IInv, QueueIsParked
    <3>3. /\ Head(waiting) \in Callers
          /\ Tail(waiting) \in Seq(Callers)
          /\ {Tail(waiting)[i] : i \in DOMAIN Tail(waiting)}
               = {waiting[i] : i \in DOMAIN waiting} \ {Head(waiting)}
          /\ \A i, j \in DOMAIN Tail(waiting) : Tail(waiting)[i] = Tail(waiting)[j] => i = j
      BY <3>1, <3>2, TailOfQueue
    <3>4. QED
      BY <3>1, <3>3 DEF Queued
  <2>2. TypeOK'
    BY <1>4, <2>1 DEF IInv, TypeOK, HandOver, Places
  <2>3. CounterIsHolders'
    BY <1>4, PassedSlot DEF IInv, CounterIsHolders, HandOver
  <2>4. NoIdleSlotWhileQueued'
    BY <1>4 DEF IInv, NoIdleSlotWhileQueued, HandOver
  <2>5. QueueIsParked'
    BY <1>4, <2>1, PassedSlot DEF IInv, TypeOK, QueueIsParked, HandOver
  <2>6. QED
    BY <2>2, <2>3, <2>4, <2>5 DEF IInv
<1>5. ASSUME NEW c \in Callers, pc[c] = "running", Free(c) PROVE IInv'
  <2>1. active' = Cardinality(Holders')
    BY <1>5, FreedSlot DEF IInv, CounterIsHolders, Free
  <2>2. active \in Nat /\ active <= Limit /\ Cardinality(Holders') \in Nat
    <3>1. IsFiniteSet(Holders')
      BY CallersAssumption, FS_Subset DEF Holders
    <3>2. QED
      BY <3>1, FS_CardinalityType DEF IInv, TypeOK
  <2>3. TypeOK'
    BY <1>5, <2>1, <2>2 DEF IInv, TypeOK, Free, Places
  <2>4. CounterIsHolders' /\ NoIdleSlotWhileQueued'
    BY <1>5, <2>1 DEF CounterIsHolders, NoIdleSlotWhileQueued, Free
  <2>5. QueueIsParked'
    BY <1>5 DEF IInv, TypeOK, QueueIsParked, Queued, Free
  <2>6. QED
    BY <2>3, <2>4, <2>5 DEF IInv
<1>6. CASE UNCHANGED vars
  BY <1>6 DEF vars, IInv, TypeOK, CounterIsHolders, NoIdleSlotWhileQueued, QueueIsParked, Queued, Holders
<1>7. QED
  BY <1>1, <1>2, <1>3, <1>4, <1>5, <1>6 DEF Next, Finish

(* The counter counts the owned slots, the queue holds exactly the parked
   callers, and nobody queues beside a free slot: in every reachable state of
   every gate (gate.ts, acquire and release). *)
THEOREM GateInvariant == Spec => []IInv
<1>1. QED
  BY InitIInv, NextIInv, PTL DEF Spec

(* The shape of the gate's state (gate.ts, the class's fields). *)
THEOREM TypeCorrect == Spec => []TypeOK
<1>1. IInv => TypeOK
  BY DEF IInv
<1>2. QED
  BY <1>1, GateInvariant, PTL

(* Never more than Limit callers past the gate, the handed-over slots of callers
   that have not resumed yet included (gate.ts, run). *)
THEOREM Bounded == Spec => []AtMostLimit
<1>1. IInv => AtMostLimit
  BY LimitAssumption DEF IInv, TypeOK, CounterIsHolders, AtMostLimit
<1>2. QED
  BY <1>1, GateInvariant, PTL

(* No slot is left unused while a caller waits for one (gate.ts, release: the
   hand-over comes before the decrement). *)
THEOREM NoLostWakeUp == Spec => []NoIdleSlotWhileQueued
<1>1. IInv => NoIdleSlotWhileQueued
  BY DEF IInv
<1>2. QED
  BY <1>1, GateInvariant, PTL

-----------------------------------------------------------------------------

(* Each step of the gate is a step of the semaphore or leaves its slots alone. *)
LEMMA StepRefines == IInv /\ [Next]_vars => [Sem!Next]_Holders
<1> SUFFICES ASSUME IInv, [Next]_vars PROVE Sem!Next \/ Holders' = Holders
  OBVIOUS
<1>1. ASSUME NEW c \in Callers, AcquireFree(c) PROVE Sem!Next
  <2>1. Cardinality(Holders) < Limit
    BY <1>1 DEF IInv, CounterIsHolders, AcquireFree
  <2>2. c \notin Holders /\ Holders' = Holders \cup {c}
    BY <1>1, TakenSlot
  <2>3. Sem!Cardinality(Holders) = Cardinality(Holders)
    BY DEF Cardinality, Sem!Cardinality
  <2>4. Sem!Take(c)
    BY <2>1, <2>2, <2>3 DEF Sem!Take
  <2>5. QED
    BY <2>4 DEF Sem!Next
<1>2. ASSUME NEW c \in Callers, AcquireWait(c) PROVE Holders' = Holders
  BY <1>2 DEF IInv, TypeOK, AcquireWait, Holders
<1>3. ASSUME NEW c \in Callers, Begin(c) PROVE Holders' = Holders
  BY <1>3 DEF IInv, TypeOK, Begin, Holders
<1>4. ASSUME NEW c \in Callers, pc[c] = "running", HandOver(c) PROVE Sem!Next
  BY <1>4, PassedSlot DEF Sem!Next, Sem!Pass
<1>5. ASSUME NEW c \in Callers, pc[c] = "running", Free(c) PROVE Sem!Next
  BY <1>5, FreedSlot DEF Sem!Next, Sem!Give
<1>6. CASE UNCHANGED vars
  BY <1>6 DEF vars, Holders
<1>7. QED
  BY <1>1, <1>2, <1>3, <1>4, <1>5, <1>6 DEF Next, Finish

(* The class is a counting semaphore: queue, resolvers and microtasks change
   only who runs next, never how many (gate.ts, the whole class). *)
THEOREM GateImplementsSemaphore == Spec => ImplementsSemaphore
<1>1. Init => Sem!Init
  BY DEF Init, Sem!Init, Holders
<1>2. QED
  BY <1>1, StepRefines, GateInvariant, PTL DEF Spec, ImplementsSemaphore, Sem!Spec

=============================================================================
