-------------------------- MODULE RateWindowProofs --------------------------
(***************************************************************************)
(* For every limit, every window and every number of calls, with timers as *)
(* early and as late as they like: no window holds more calls than the     *)
(* limit, turns are served in order, and nobody sleeps past the moment     *)
(* there is room.                                                          *)
(***************************************************************************)
EXTENDS RateWindow, SequenceTheorems, WellFoundedInduction, TLAPS

-----------------------------------------------------------------------------

(* Turns form one chain in the order of their take(). *)
Chain ==
  /\ queue = taken
  /\ \A c \in Calls : (pc[c] # "idle") <=> (c <= taken)
  /\ \A c \in Calls : c <= taken => before[c] = c - 1

(* Everybody before a turn that has looked at the window is through. *)
OneAtATime ==
  \A b, c \in Calls : b < c /\ pc[c] \in {"asleep", "through"} => pc[b] = "through"

(* What sent holds are the last calls made, and those it has dropped are   *)
(* older than the window.                                                  *)
SentIsTheWindow ==
  /\ Len(sent) <= Len(made)
  /\ \A i \in 1 .. Len(sent) : sent[i] = made[Len(made) - Len(sent) + i]
  /\ \A i \in 1 .. Len(made) : made[i] <= now
  /\ \A i \in 1 .. Len(made) - Len(sent) : now - made[i] >= Window

Inv ==
  /\ TypeOK
  /\ Chain
  /\ OneAtATime
  /\ SentIsTheWindow
  /\ AtMostLimitPerWindow
  /\ SleepIsNeeded

-----------------------------------------------------------------------------

(* The history keeps what it has, and the new call comes last. *)
LEMMA History ==
  ASSUME NEW s \in Seq(Nat), NEW t \in Nat
  PROVE  /\ Append(s, t) \in Seq(Nat)
         /\ Len(Append(s, t)) = Len(s) + 1
         /\ \A i \in 1 .. Len(s) : Append(s, t)[i] = s[i]
         /\ Append(s, t)[Len(s) + 1] = t
  OBVIOUS

(* The window after the shift and the push: a suffix, and the call itself. *)
LEMMA ShiftAndPush ==
  ASSUME NEW s \in Seq(Nat), NEW k \in 0 .. Len(s), NEW t \in Nat
  PROVE  /\ SubSeq(s, k + 1, Len(s)) \in Seq(Nat)
         /\ Len(SubSeq(s, k + 1, Len(s))) = Len(s) - k
         /\ \A i \in 1 .. Len(s) - k : SubSeq(s, k + 1, Len(s))[i] = s[k + i]
         /\ Append(SubSeq(s, k + 1, Len(s)), t) \in Seq(Nat)
         /\ Len(Append(SubSeq(s, k + 1, Len(s)), t)) = Len(s) - k + 1
         /\ \A i \in 1 .. Len(s) - k : Append(SubSeq(s, k + 1, Len(s)), t)[i] = s[k + i]
         /\ Append(SubSeq(s, k + 1, Len(s)), t)[Len(s) - k + 1] = t
<1>1. Len(s) \in Nat
  OBVIOUS
<1>2. /\ SubSeq(s, k + 1, Len(s)) \in Seq(Nat)
      /\ Len(SubSeq(s, k + 1, Len(s))) = Len(s) - k
      /\ \A i \in 1 .. Len(s) - k : SubSeq(s, k + 1, Len(s))[i] = s[k + i]
  BY <1>1
<1> DEFINE w == SubSeq(s, k + 1, Len(s))
<1>3. /\ Append(w, t) \in Seq(Nat)
      /\ Len(Append(w, t)) = Len(w) + 1
      /\ \A i \in 1 .. Len(w) : Append(w, t)[i] = w[i]
      /\ Append(w, t)[Len(w) + 1] = t
  <2> HIDE DEF w
  <2>1. w \in Seq(Nat)
    BY <1>2 DEF w
  <2>2. QED
    BY <2>1, History
<1>4. Len(w) = Len(s) - k
  BY <1>2
<1>5. QED
  <2> HIDE DEF w
  <2>1. \A i \in 1 .. Len(s) - k : w[i] = s[k + i]
    BY <1>2 DEF w
  <2>2. /\ Append(w, t) \in Seq(Nat)
        /\ Len(Append(w, t)) = Len(s) - k + 1
        /\ \A i \in 1 .. Len(s) - k : Append(w, t)[i] = s[k + i]
        /\ Append(w, t)[Len(s) - k + 1] = t
    BY <1>3, <1>4, <2>1
  <2>3. QED
    BY <1>2, <2>2 DEF w

(* Whoever looks at the window is the first that is not through: all before *)
(* are, and nobody else sleeps.                                            *)
LEMMA OneLooks ==
  ASSUME Inv, NEW c \in Calls, Looks(c)
  PROVE  /\ \A b \in Calls : b < c => pc[b] = "through"
         /\ \A d \in Calls : c < d => pc[d] \in {"idle", "queued"}
         /\ \A d \in Calls : pc[d] = "asleep" => d = c
<1>1. Takes \in Nat /\ c \in Nat /\ Calls \subseteq Nat
  BY BoundsAssumption DEF Calls
<1>2. pc[c] # "idle" /\ pc[c] # "through"
  BY DEF Looks
<1>3. ASSUME NEW b \in Calls, b < c
      PROVE  pc[b] = "through"
  <2>1. CASE pc[c] = "asleep"
    BY <1>3, <2>1 DEF Inv, OneAtATime
  <2>2. CASE pc[c] = "queued"
    <3>1. c <= taken /\ before[c] = c - 1
      BY <1>2 DEF Inv, Chain
    <3>2. c - 1 \in Calls /\ pc[c - 1] = "through"
      BY <1>1, <1>3, <2>2, <3>1 DEF Looks, Calls
    <3>3. b = c - 1 \/ b < c - 1
      BY <1>1, <1>3
    <3>4. QED
      BY <3>2, <3>3 DEF Inv, OneAtATime
  <2>3. QED
    BY <2>1, <2>2 DEF Looks
<1>4. ASSUME NEW d \in Calls, c < d
      PROVE  pc[d] \in {"idle", "queued"}
  <2>1. pc[d] \notin {"asleep", "through"}
    BY <1>2, <1>4 DEF Inv, OneAtATime
  <2>2. QED
    BY <2>1 DEF Inv, TypeOK
<1>5. ASSUME NEW d \in Calls, pc[d] = "asleep"
      PROVE  d = c
  <2>1. ~(d < c) /\ ~(c < d)
    BY <1>3, <1>4, <1>5
  <2>2. QED
    BY <1>1, <2>1
<1>6. QED
  BY <1>3, <1>4, <1>5

LEMMA InitInv == Init => Inv
<1>1. SUFFICES ASSUME Init PROVE Inv
  OBVIOUS
<1>2. <<>> \in Seq(Nat) /\ Len(<<>>) = 0
  OBVIOUS
<1>3. TypeOK
  <2>1. /\ now \in Nat /\ sent \in Seq(Nat) /\ made \in Seq(Nat) /\ Len(sent) <= Limit
        /\ taken \in 0 .. Takes /\ queue \in 0 .. taken /\ resets \in 0 .. MaxResets
    BY <1>1, <1>2, BoundsAssumption, LimitAssumption DEF Init
  <2>2. /\ before \in [Calls -> 0 .. taken]
        /\ wake \in [Calls -> Nat]
        /\ pc \in [Calls -> {"idle", "queued", "asleep", "through"}]
    BY <1>1 DEF Init
  <2>3. QED
    BY <2>1, <2>2 DEF TypeOK
<1>4. Chain /\ OneAtATime
  BY <1>1, BoundsAssumption DEF Init, Chain, OneAtATime, Calls
<1>5. SentIsTheWindow /\ AtMostLimitPerWindow /\ SleepIsNeeded
  BY <1>1, <1>2, LimitAssumption DEF Init, SentIsTheWindow, AtMostLimitPerWindow, SleepIsNeeded
<1>6. QED
  BY <1>3, <1>4, <1>5 DEF Inv

LEMMA TakeInv == ASSUME Inv, NEW c \in Calls, Take(c) PROVE Inv'
<1>1. /\ c \in Nat /\ 1 <= c /\ c <= Takes /\ taken \in Nat /\ c = taken + 1 /\ taken' = c
      /\ Calls \subseteq Nat /\ \A d \in Calls : d >= 1
  BY BoundsAssumption DEF Inv, TypeOK, Take, Calls
<1>2. /\ pc' = [pc EXCEPT ![c] = "queued"] /\ pc[c] = "idle"
      /\ pc \in [Calls -> {"idle", "queued", "asleep", "through"}]
      /\ before' = [before EXCEPT ![c] = queue] /\ queue' = c /\ queue = taken
  BY <1>1 DEF Inv, TypeOK, Chain, Take
<1>3. TypeOK'
  <2>1. before' \in [Calls -> 0 .. taken']
    BY <1>1, <1>2 DEF Inv, TypeOK
  <2>2. pc' \in [Calls -> {"idle", "queued", "asleep", "through"}]
    BY <1>2
  <2>3. QED
    BY <1>1, <1>2, <2>1, <2>2 DEF Inv, TypeOK, Take
<1>4. Chain'
  <2>1. ASSUME NEW d \in Calls
        PROVE  (pc'[d] # "idle") <=> (d <= taken')
    <3>1. d \in Nat /\ (d <= taken' <=> d <= taken \/ d = c)
      BY <1>1
    <3>2. pc'[d] # "idle" <=> pc[d] # "idle" \/ d = c
      BY <1>2
    <3>3. QED
      BY <3>1, <3>2 DEF Inv, Chain
  <2>2. ASSUME NEW d \in Calls, d <= taken'
        PROVE  before'[d] = d - 1
    BY <1>1, <1>2, <2>2 DEF Inv, TypeOK, Chain
  <2>3. QED
    BY <1>1, <1>2, <2>1, <2>2 DEF Chain
<1>5. OneAtATime'
  BY <1>2 DEF Inv, OneAtATime
<1>6. SentIsTheWindow' /\ AtMostLimitPerWindow'
  BY DEF Inv, Take, SentIsTheWindow, AtMostLimitPerWindow
<1>7. SleepIsNeeded'
  BY <1>2 DEF Inv, SleepIsNeeded, Take
<1>8. QED
  BY <1>3, <1>4, <1>5, <1>6, <1>7 DEF Inv

(* The places of a step in which c looks at the window and goes to p.      *)
LEMMA LookInv ==
  ASSUME Inv, NEW c \in Calls, Looks(c), NEW p \in {"asleep", "through"},
         pc' = [pc EXCEPT ![c] = p], UNCHANGED <<taken, queue, before>>
  PROVE  /\ pc' \in [Calls -> {"idle", "queued", "asleep", "through"}]
         /\ Chain'
         /\ OneAtATime'
<1>1. pc \in [Calls -> {"idle", "queued", "asleep", "through"}]
  BY DEF Inv, TypeOK
<1>2. pc[c] # "idle"
  BY DEF Looks
<1>3. Chain'
  BY <1>1, <1>2 DEF Inv, Chain
<1>4. ASSUME NEW b \in Calls, NEW d \in Calls, b < d, pc'[d] \in {"asleep", "through"}
      PROVE  pc'[b] = "through"
  <2>1. CASE d = c
    <3>1. pc[b] = "through" /\ b # c
      BY <1>4, <2>1, <1>2, OneLooks, BoundsAssumption DEF Calls
    <3>2. QED
      BY <1>1, <3>1
  <2>2. CASE d # c
    <3>1. pc[d] \in {"asleep", "through"}
      BY <1>1, <1>4, <2>2
    <3>2. pc[b] = "through"
      BY <1>4, <3>1 DEF Inv, OneAtATime
    <3>3. b # c
      BY <3>2 DEF Looks
    <3>4. QED
      BY <1>1, <3>2, <3>3
  <2>3. QED
    BY <2>1, <2>2
<1>5. QED
  BY <1>1, <1>3, <1>4 DEF OneAtATime

LEMMA GoInv == ASSUME Inv, NEW c \in Calls, Go(c) PROVE Inv'
<1>1. PICK k \in 0 .. Len(sent) :
        /\ Shifts(k)
        /\ Len(sent) - k < Limit
        /\ sent' = Append(SubSeq(sent, k + 1, Len(sent)), now)
  BY DEF Go
<1>2. /\ now \in Nat /\ sent \in Seq(Nat) /\ made \in Seq(Nat)
      /\ Len(sent) \in Nat /\ Len(made) \in Nat /\ k \in Nat /\ k <= Len(sent)
      /\ Limit \in Nat \ {0} /\ Window \in Nat \ {0}
      /\ \A i \in 1 .. Len(made) : made[i] \in Nat
      /\ Len(sent) <= Len(made)
  BY LimitAssumption, WindowAssumption DEF Inv, TypeOK, SentIsTheWindow
<1>3. /\ sent' \in Seq(Nat)
      /\ Len(sent') = Len(sent) - k + 1
      /\ \A i \in 1 .. Len(sent) - k : sent'[i] = sent[k + i]
      /\ sent'[Len(sent) - k + 1] = now
  <2> DEFINE w == Append(SubSeq(sent, k + 1, Len(sent)), now)
  <2>1. /\ w \in Seq(Nat)
        /\ Len(w) = Len(sent) - k + 1
        /\ \A i \in 1 .. Len(sent) - k : w[i] = sent[k + i]
        /\ w[Len(sent) - k + 1] = now
    BY <1>2, ShiftAndPush
  <2>2. sent' = w
    BY <1>1
  <2> HIDE DEF w
  <2>3. QED
    BY <2>1, <2>2
<1>4. /\ made' \in Seq(Nat)
      /\ Len(made') = Len(made) + 1
      /\ \A i \in 1 .. Len(made) : made'[i] = made[i]
      /\ made'[Len(made) + 1] = now
  BY <1>2, History DEF Go
<1>5. \A i \in 1 .. (Len(made) - Len(sent)) + k : now - made[i] >= Window
  <2>1. ASSUME NEW i \in 1 .. (Len(made) - Len(sent)) + k
        PROVE  now - made[i] >= Window
    <3>1. CASE i <= Len(made) - Len(sent)
      BY <1>2, <3>1 DEF Inv, SentIsTheWindow
    <3>2. CASE i > Len(made) - Len(sent)
      <4> DEFINE j == i - (Len(made) - Len(sent))
      <4>1. j \in 1 .. k /\ j \in 1 .. Len(sent) /\ i = Len(made) - Len(sent) + j
        BY <1>2, <3>2 DEF Inv, SentIsTheWindow
      <4>2. sent[j] = made[i]
        BY <4>1 DEF Inv, SentIsTheWindow
      <4>3. AgedOut(sent[j])
        BY <1>1, <4>1 DEF Shifts
      <4>4. QED
        BY <4>2, <4>3 DEF AgedOut
    <3>3. QED
      BY <1>2, <3>1, <3>2
  <2>2. QED
    BY <2>1
<1>6. pc' = [pc EXCEPT ![c] = "through"] /\ Looks(c)
      /\ UNCHANGED <<now, taken, queue, before, wake, resets>>
  BY DEF Go
<1>7. /\ pc' \in [Calls -> {"idle", "queued", "asleep", "through"}]
      /\ Chain'
      /\ OneAtATime'
  BY <1>6, LookInv
<1>8. TypeOK'
  <2>1. Len(sent') <= Limit
    BY <1>1, <1>2, <1>3
  <2>2. QED
    BY <1>3, <1>4, <1>6, <1>7, <2>1 DEF Inv, TypeOK
<1>9. SentIsTheWindow'
  <2>1. Len(sent') <= Len(made')
    BY <1>2, <1>3, <1>4 DEF Inv, SentIsTheWindow
  <2>2. ASSUME NEW i \in 1 .. Len(sent')
        PROVE  sent'[i] = made'[Len(made') - Len(sent') + i]
    <3>0. i \in Nat /\ 1 <= i /\ i <= Len(sent) - k + 1
      <4>1. i \in 1 .. Len(sent) - k + 1
        BY <1>3, <2>2
      <4>2. QED
        BY <1>2, <4>1
    <3>1. CASE i = Len(sent) - k + 1
      <4>1. Len(made') - Len(sent') + i = Len(made) + 1
        BY <1>2, <1>3, <1>4, <3>1
      <4>2. QED
        BY <1>3, <1>4, <3>1, <4>1
    <3>2. CASE i # Len(sent) - k + 1
      <4>1. i \in Nat /\ 1 <= i /\ i <= Len(sent) - k
        <5>1. Len(sent) - k \in Nat
          BY <1>2
        <5>2. QED
          BY <5>1, <3>0, <3>2
      <4>2. Len(made') - Len(sent') + i = Len(made) - Len(sent) + (k + i)
        BY <1>2, <1>3, <1>4, <4>1
      <4>3. i \in 1 .. Len(sent) - k /\ k + i \in 1 .. Len(sent)
            /\ Len(made) - Len(sent) + (k + i) \in 1 .. Len(made)
        BY <1>2, <4>1
      <4>4. sent[k + i] = made[Len(made) - Len(sent) + (k + i)]
        BY <4>3 DEF Inv, SentIsTheWindow
      <4>5. QED
        BY <1>3, <1>4, <4>2, <4>3, <4>4
    <3>3. QED
      BY <3>1, <3>2
  <2>3. ASSUME NEW i \in 1 .. Len(made')
        PROVE  made'[i] <= now'
    <3>1. CASE i = Len(made')
      BY <1>2, <1>4, <1>6, <3>1
    <3>2. CASE i # Len(made')
      <4>1. i \in 1 .. Len(made)
        BY <1>2, <1>4, <2>3, <3>2
      <4>2. QED
        BY <1>4, <1>6, <4>1 DEF Inv, SentIsTheWindow
    <3>3. QED
      BY <3>1, <3>2
  <2>4. \A i \in 1 .. Len(made') - Len(sent') : now' - made'[i] >= Window
    <3>1. Len(made') - Len(sent') = (Len(made) - Len(sent)) + k
      BY <1>2, <1>3, <1>4
    <3>2. \A i \in 1 .. (Len(made) - Len(sent)) + k : i \in 1 .. Len(made)
      BY <1>2
    <3>3. \A i \in 1 .. (Len(made) - Len(sent)) + k : now' - made'[i] >= Window
      BY <1>4, <1>5, <1>6, <3>2
    <3>4. QED
      BY <3>1, <3>3
  <2>5. QED
    BY <2>1, <2>2, <2>3, <2>4 DEF SentIsTheWindow
<1>10. AtMostLimitPerWindow'
  <2>1. ASSUME NEW i \in 1 .. Len(made') - Limit
        PROVE  made'[i + Limit] - made'[i] >= Window
    <3>1. CASE i + Limit <= Len(made)
      <4>1. i \in 1 .. Len(made) - Limit /\ i + Limit \in 1 .. Len(made) /\ i \in 1 .. Len(made)
        BY <1>2, <3>1
      <4>2. made[i + Limit] - made[i] >= Window
        BY <4>1 DEF Inv, AtMostLimitPerWindow
      <4>3. QED
        BY <1>4, <4>1, <4>2
    <3>2. CASE i + Limit > Len(made)
      <4>1. i + Limit = Len(made) + 1 /\ i \in 1 .. Len(made)
        <5>1. i \in Nat /\ 1 <= i /\ i <= Len(made) + 1 - Limit
          BY <1>2, <1>4, <2>1
        <5>2. QED
          BY <1>2, <3>2, <5>1
      <4>2. i \in 1 .. (Len(made) - Len(sent)) + k
        BY <1>1, <1>2, <4>1
      <4>3. QED
        BY <1>4, <1>5, <4>1, <4>2
    <3>3. QED
      BY <1>2, <3>1, <3>2
  <2>2. QED
    BY <2>1 DEF AtMostLimitPerWindow
<1>11. SleepIsNeeded'
  <2>1. ASSUME NEW d \in Calls, pc'[d] = "asleep"
        PROVE  FALSE
    <3>1. d # c /\ pc[d] = "asleep"
      BY <1>6, <2>1 DEF Inv, TypeOK
    <3>2. QED
      BY <1>6, <3>1, OneLooks
  <2>2. QED
    BY <2>1 DEF SleepIsNeeded
<1>12. QED
  BY <1>7, <1>8, <1>9, <1>10, <1>11 DEF Inv

LEMMA SleepInv == ASSUME Inv, NEW c \in Calls, Sleep(c) PROVE Inv'
<1>1. PICK k \in 0 .. Len(sent) :
        /\ Shifts(k)
        /\ Len(sent) - k >= Limit
        /\ sent' = SubSeq(sent, k + 1, Len(sent))
        /\ wake' = [wake EXCEPT ![c] = sent[k + 1] + Window]
  BY DEF Sleep
<1>2. /\ now \in Nat /\ sent \in Seq(Nat) /\ Len(sent) \in Nat
      /\ Len(sent) <= Limit /\ wake \in [Calls -> Nat]
      /\ Limit \in Nat \ {0} /\ Window \in Nat \ {0}
  BY LimitAssumption, WindowAssumption DEF Inv, TypeOK
<1>3. k = 0 /\ Len(sent) = Limit
  BY <1>1, <1>2
<1>4. sent' = sent
  BY <1>1, <1>2, <1>3
<1>5. sent[1] \in Nat /\ wake' = [wake EXCEPT ![c] = sent[1] + Window]
  BY <1>1, <1>2, <1>3
<1>6. pc' = [pc EXCEPT ![c] = "asleep"] /\ Looks(c)
      /\ UNCHANGED <<now, taken, queue, before, made, resets>>
  BY DEF Sleep
<1>7. /\ pc' \in [Calls -> {"idle", "queued", "asleep", "through"}]
      /\ Chain'
      /\ OneAtATime'
  BY <1>6, LookInv
<1>8. wake' \in [Calls -> Nat]
  BY <1>2, <1>5
<1>9. TypeOK'
  BY <1>4, <1>6, <1>7, <1>8 DEF Inv, TypeOK
<1>10. SentIsTheWindow' /\ AtMostLimitPerWindow'
  BY <1>4, <1>6 DEF Inv, SentIsTheWindow, AtMostLimitPerWindow
<1>11. SleepIsNeeded'
  <2>1. ASSUME NEW d \in Calls, pc'[d] = "asleep"
        PROVE  d = c
    BY <1>6, <2>1, OneLooks DEF Inv, TypeOK
  <2>2. wake'[c] = sent'[1] + Window /\ Len(sent') = Limit
    BY <1>2, <1>3, <1>4, <1>5
  <2>3. QED
    BY <2>1, <2>2 DEF SleepIsNeeded
<1>12. QED
  BY <1>7, <1>9, <1>10, <1>11 DEF Inv

LEMMA ResetInv == ASSUME Inv, Reset PROVE Inv'
<1>1. /\ sent' = <<>> /\ made' = <<>> /\ <<>> \in Seq(Nat) /\ Len(<<>>) = 0
      /\ UNCHANGED <<now, taken, queue, before, pc, wake>>
  BY DEF Reset
<1>2. resets' \in 0 .. MaxResets
  BY BoundsAssumption DEF Inv, TypeOK, Reset
<1>3. TypeOK'
  BY <1>1, <1>2, LimitAssumption DEF Inv, TypeOK
<1>4. Chain' /\ OneAtATime'
  BY <1>1 DEF Inv, Chain, OneAtATime
<1>5. SentIsTheWindow' /\ AtMostLimitPerWindow' /\ SleepIsNeeded'
  BY <1>1, LimitAssumption DEF SentIsTheWindow, AtMostLimitPerWindow, SleepIsNeeded
<1>6. QED
  BY <1>3, <1>4, <1>5 DEF Inv

LEMMA TickInv == ASSUME Inv, Tick PROVE Inv'
<1>1. now' = now + 1 /\ now \in Nat
      /\ UNCHANGED <<sent, taken, queue, before, pc, wake, made, resets>>
  BY DEF Inv, TypeOK, Tick
<1>2. TypeOK'
  BY <1>1 DEF Inv, TypeOK
<1>3. Chain' /\ OneAtATime' /\ AtMostLimitPerWindow' /\ SleepIsNeeded'
  BY <1>1 DEF Inv, Chain, OneAtATime, AtMostLimitPerWindow, SleepIsNeeded
<1>4. SentIsTheWindow'
  <2>1. /\ made \in Seq(Nat) /\ Len(made) \in Nat /\ Len(sent) \in Nat
        /\ \A i \in 1 .. Len(made) : made[i] \in Nat
        /\ Window \in Nat
    BY WindowAssumption DEF Inv, TypeOK
  <2>2. \A i \in 1 .. Len(made) : made[i] <= now'
    BY <1>1, <2>1 DEF Inv, SentIsTheWindow
  <2>3. \A i \in 1 .. Len(made) - Len(sent) : now' - made[i] >= Window
    <3>1. ASSUME NEW i \in 1 .. Len(made) - Len(sent)
          PROVE  now' - made[i] >= Window
      <4>1. now - made[i] >= Window /\ i \in 1 .. Len(made)
        BY <2>1 DEF Inv, SentIsTheWindow
      <4>2. QED
        BY <1>1, <2>1, <4>1
    <3>2. QED
      BY <3>1
  <2>4. QED
    BY <1>1, <2>2, <2>3 DEF Inv, SentIsTheWindow
<1>5. QED
  BY <1>2, <1>3, <1>4 DEF Inv

(* The inductive invariant of the window: sent is the end of the history,  *)
(* everything before it has aged out, and turns look one at a time.        *)
THEOREM WindowInvariant == Spec => []Inv
<1>1. Inv /\ UNCHANGED vars => Inv'
  BY DEF Inv, TypeOK, Chain, OneAtATime, SentIsTheWindow, AtMostLimitPerWindow,
         SleepIsNeeded, vars
<1>2. Inv /\ [Next]_vars => Inv'
  BY <1>1, TakeInv, GoInv, SleepInv, ResetInv, TickInv DEF Next
<1>3. QED
  BY InitInv, <1>2, PTL DEF Spec

(* No window of the constructor's length holds more calls than its limit,  *)
(* however many turns wait and however late or early their timers fire.    *)
THEOREM NeverTooMany == Spec => []AtMostLimitPerWindow
<1>1. Inv => AtMostLimitPerWindow
  BY DEF Inv
<1>2. QED
  BY <1>1, WindowInvariant, PTL

(* Turns are let through in the order of their take().                     *)
THEOREM InOrder == Spec => []ServedInOrder
<1>1. Inv => ServedInOrder
  BY DEF Inv, OneAtATime, ServedInOrder
<1>2. QED
  BY <1>1, WindowInvariant, PTL

(* No turn sleeps past the moment the full window lets a call out.         *)
THEOREM NoIdleSleep == Spec => []SleepIsNeeded
<1>1. Inv => SleepIsNeeded
  BY DEF Inv
<1>2. QED
  BY <1>1, WindowInvariant, PTL

-----------------------------------------------------------------------------
(* The rates of the market: MarketRates. *)

\* Some number of a set of them is the smallest.
LEMMA SmallestOf ==
  ASSUME NEW T \in SUBSET Nat, T # {}
  PROVE  \E x \in T : \A y \in T : x <= y
<1>1. \E x \in T : \A y \in T : ~ (<<y, x>> \in OpToRel(<,Nat))
  BY NatLessThanWellFounded, WFMin
<1>2. \A x, y \in Nat : y < x => <<y, x>> \in OpToRel(<,Nat)
  BY DEF OpToRel
<1>3. \A x, y \in Nat : ~(y < x) => x <= y
  OBVIOUS
<1>4. PICK x \in T : \A y \in T : ~ (<<y, x>> \in OpToRel(<,Nat))
  BY <1>1, Zenon
<1>5. ASSUME NEW y \in T PROVE x <= y
  <2>1. x \in Nat /\ y \in Nat
    OBVIOUS
  <2>2. ~(y < x)
    BY <1>2, <1>4, <2>1, Zenon
  <2>3. QED BY <1>3, <2>1, <2>2, Zenon
<1>6. QED BY <1>5, Zenon

\* And some number of a bounded set the largest.
LEMMA LargestOf ==
  ASSUME NEW n \in Nat, NEW T \in SUBSET (0 .. n), T # {}
  PROVE  \E x \in T : \A y \in T : x >= y
<1> DEFINE U == {n - x : x \in T}
<1>1. U \in SUBSET Nat /\ U # {}
  <2>1. \A x \in T : n - x \in Nat
    OBVIOUS
  <2>2. PICK x \in T : TRUE
    OBVIOUS
  <2>3. n - x \in U
    BY <2>2
  <2>4. QED BY <2>1, <2>3
<1> HIDE DEF U
<1>2. PICK u \in U : \A y \in U : u <= y
  BY <1>1, SmallestOf
<1>3. PICK x \in T : u = n - x
  BY <1>2 DEF U
<1>4. \A y \in T : n - y \in U
  BY DEF U
<1>5. ASSUME NEW y \in T PROVE x >= y
  <2>1. n - x <= n - y
    BY <1>2, <1>3, <1>4
  <2>2. QED BY <2>1
<1>6. QED BY <1>5

\* What a day is.
LEMMA DayOf ==
  ASSUME NEW t \in Nat
  PROVE  /\ Market!Day(t) \in Nat
         /\ Market!Day(t) * Midnight <= t /\ t < (Market!Day(t) + 1) * Midnight
         /\ \A u \in Nat : t <= u => Market!Day(t) <= Market!Day(u)
  BY RatesAssumption DEF Market!Day

Series == {"fred", "erp"}
Readings == Nat \union {-2}
ReadingOf == [Series -> Readings]
Caches == [at : Readings, complete : BOOLEAN, rates : [Series -> Nat \union {-1}], observed : ReadingOf]
Holdings == [held : BOOLEAN, age : {0, 1}, observed : ReadingOf]

RatesType ==
  /\ clock \in Nat /\ clock <= MaxTime
  /\ recorded \in [0 .. Market!Day(MaxTime) -> ReadingOf]
  /\ ratesCache \in [Procs -> Caches \union {Market!Nothing}]
  /\ lastObserved \in [Procs -> ReadingOf]
  /\ erpCache \in [Procs -> Readings]
  /\ seeded \in [Procs -> (SUBSET Series) \union {Market!Unasked}]
  /\ ratesInFlight \in [Procs -> {"no", "seeding", "asking"}]
  /\ refresh \in [Procs -> Holdings]

\* How long a premium is kept; the other series are read anew.
ReadFor(r) == IF r = "erp" THEN ErpTtl - 1 ELSE 0

\* What is shared was read when it says, but for the premium, which is kept for its time; and what
\* a refresh holds of it was read within its reach.
ReadingsAreRecent(p) ==
  /\ erpCache[p] <= clock
  /\ ratesCache[p] # Market!Nothing =>
       /\ ratesCache[p].at \in 0 .. clock
       /\ \A r \in Series : ratesCache[p].observed[r] # -2 =>
            ratesCache[p].observed[r] <= clock /\ ratesCache[p].observed[r] >= ratesCache[p].at - ReadFor(r)
  /\ refresh[p].held =>
       \A r \in Series : refresh[p].observed[r] # -2 =>
         refresh[p].observed[r] <= clock /\ refresh[p].observed[r] >= clock - Market!Reach(r) + 1 - refresh[p].age

\* The store is asked once, before anything is shared, and what it knew is remembered from then
\* on, as is every premium that was read.
KnownIsRemembered(p) ==
  /\ seeded[p] = Market!Unasked => ratesCache[p] = Market!Nothing /\ ratesInFlight[p] # "asking"
  /\ ratesInFlight[p] = "seeding" => seeded[p] = Market!Unasked
  /\ \A r \in Series : r \in seeded[p] => lastObserved[p][r] # -2
  /\ lastObserved[p]["erp"] >= erpCache[p]

RatesInv ==
  /\ RatesType /\ Market!RatesAreReadings
  /\ \A p \in Procs : ReadingsAreRecent(p) /\ KnownIsRemembered(p)

\* What was recorded last, if anything was.
LEMMA LatestIsRecorded ==
  ASSUME RatesType, NEW r \in Series
  PROVE  Market!latestMacro(r) \in Readings
<1> DEFINE days == {d \in DOMAIN recorded : recorded[d][r] # Market!Missing}
<1>1. days \in SUBSET (0 .. Market!Day(MaxTime)) /\ Market!Day(MaxTime) \in Nat
  BY DayOf, RatesAssumption DEF RatesType
<1>2. CASE days = {}
  BY <1>2 DEF Market!latestMacro, Market!Missing, Readings
<1>3. CASE days # {}
  <2>1. \E x \in days : \A y \in days : x >= y
    BY <1>1, <1>3, LargestOf
  <2>2. Market!Max(days) \in days
    BY <2>1 DEF Market!Max
  <2>3. recorded[Market!Max(days)][r] \in Readings
    BY <2>2 DEF RatesType, ReadingOf
  <2>4. QED BY <1>3, <2>3 DEF Market!latestMacro
<1>4. QED BY <1>2, <1>3

\* What is known wins, the rest is as said.
LEMMA Merged ==
  ASSUME NEW known \in ReadingOf, NEW said, NEW r \in Series
  PROVE  Market!Merge(known, said)[r] = IF known[r] # -2 THEN known[r] ELSE said[r]
  BY DEF Market!Merge, Market!Rates, Market!FRED, Market!ERP, Market!Missing, Series

LEMMA MergesInto ==
  ASSUME NEW known \in ReadingOf, NEW said \in ReadingOf
  PROVE  Market!Merge(known, said) \in ReadingOf
  BY DEF Market!Merge, Market!Rates, Market!FRED, Market!ERP, Market!Missing, Series, ReadingOf

LEMMA RatesBegin == Market!Init => RatesInv
<1> SUFFICES ASSUME Market!Init PROVE RatesInv
  OBVIOUS
<1>1. Market!Unread \in ReadingOf /\ \A r \in Series : Market!Unread[r] = -2
  BY DEF Market!Unread, ReadingOf, Readings, Series, Market!Rates, Market!FRED, Market!ERP, Market!Missing
<1>a. Market!Idle \in Holdings /\ ~Market!Idle.held
  BY <1>1 DEF Market!Idle, Holdings
<1>b. /\ clock \in Nat /\ clock <= MaxTime
      /\ recorded \in [0 .. Market!Day(MaxTime) -> ReadingOf]
      /\ lastObserved \in [Procs -> ReadingOf]
      /\ refresh \in [Procs -> Holdings]
  BY <1>1, <1>a, RatesAssumption DEF Market!Init
<1>c. /\ ratesCache \in [Procs -> Caches \union {Market!Nothing}]
      /\ erpCache \in [Procs -> Readings]
      /\ seeded \in [Procs -> (SUBSET Series) \union {Market!Unasked}]
      /\ ratesInFlight \in [Procs -> {"no", "seeding", "asking"}]
  BY DEF Market!Init, Market!Missing, Readings, Market!Grounded
<1>2. RatesType
  BY <1>b, <1>c DEF RatesType
<1>3. \A p \in Procs : ReadingsAreRecent(p) /\ KnownIsRemembered(p)
  BY <1>1, <1>2 DEF Market!Init, ReadingsAreRecent, KnownIsRemembered, Market!Missing, Market!Grounded, Market!Idle,
     Market!Unasked, Series
<1>4. Market!RatesAreReadings
  BY <1>1 DEF Market!Init, Market!RatesAreReadings, Market!RecordedRatesWereRead, Market!ConstantsAreTheLastResort,
     Market!Missing, Market!Rates, Market!FRED, Market!ERP, Series
<1>5. QED BY <1>2, <1>3, <1>4 DEF RatesInv

\* Fetching, seeding, settling, recording and restarting keep the invariant.
LEMMA RatesStep == RatesInv /\ [Market!Next]_(Market!vars) => RatesInv'
<1> SUFFICES ASSUME RatesInv, [Market!Next]_(Market!vars) PROVE RatesInv'
  OBVIOUS
<1>0. /\ RatesType /\ Market!RecordedRatesWereRead /\ Market!ConstantsAreTheLastResort
      /\ \A p \in Procs : ReadingsAreRecent(p) /\ KnownIsRemembered(p)
      /\ {Retry, Ttl, ErpTtl, Midnight} \subseteq Nat \ {0} /\ MaxTime \in Nat /\ Retry <= Ttl
  BY RatesAssumption DEF RatesInv, Market!RatesAreReadings
<1>i. Market!Idle \in Holdings /\ ~Market!Idle.held /\ Market!Unread \in ReadingOf
      /\ \A r \in Series : Market!Unread[r] = -2
  BY DEF Market!Idle, Holdings, Market!Unread, ReadingOf, Readings, Series, Market!Rates, Market!FRED, Market!ERP, Market!Missing
<1>1. ASSUME NEW p \in Procs, Market!Fetch(p) PROVE RatesInv'
  <2>1. UNCHANGED <<clock, recorded, ratesCache, lastObserved, erpCache, seeded, refresh>>
    BY <1>1 DEF Market!Fetch
  <2>2. /\ ratesInFlight' \in [Procs -> {"no", "seeding", "asking"}]
        /\ \A q \in Procs : q # p => ratesInFlight'[q] = ratesInFlight[q]
        /\ ratesInFlight'[p] = IF seeded[p] = Market!Unasked THEN "seeding" ELSE "asking"
    BY <1>0, <1>1 DEF Market!Fetch, RatesType, Market!Seeding, Market!Asking
  <2>3. RatesType'
    BY <1>0, <2>1, <2>2 DEF RatesType
  <2>4. \A q \in Procs : ReadingsAreRecent(q)'
    BY <1>0, <2>1 DEF ReadingsAreRecent
  <2>5. \A q \in Procs : KnownIsRemembered(q)'
    BY <1>0, <2>1, <2>2 DEF KnownIsRemembered
  <2>6. Market!RatesAreReadings'
    BY <1>0, <2>1 DEF Market!RatesAreReadings, Market!RecordedRatesWereRead, Market!ConstantsAreTheLastResort
  <2>7. QED BY <2>3, <2>4, <2>5, <2>6 DEF RatesInv
<1>2. ASSUME NEW p \in Procs, Market!seedFromStore(p) PROVE RatesInv'
  <2>1. /\ UNCHANGED <<clock, recorded, ratesCache, erpCache, refresh>>
        /\ ratesInFlight[p] = "seeding" /\ ratesInFlight' = [ratesInFlight EXCEPT ![p] = "asking"]
    BY <1>2 DEF Market!seedFromStore, Market!Seeding, Market!Asking
  <2>2. PICK said \in ReadingOf : said = [r \in Market!Rates |-> Market!latestMacro(r)]
    BY <1>0, LatestIsRecorded DEF ReadingOf, Series, Market!Rates, Market!FRED, Market!ERP
  <2>3. \A r \in Series : said[r] = Market!latestMacro(r)
    BY <2>2 DEF Series, Market!Rates, Market!FRED, Market!ERP
  <2>4. /\ lastObserved[p] \in ReadingOf
        /\ lastObserved' \in [Procs -> ReadingOf]
        /\ lastObserved'[p] \in {lastObserved[p], Market!Merge(lastObserved[p], said)}
        /\ \A q \in Procs : q # p => lastObserved'[q] = lastObserved[q]
    BY <1>0, <1>2, <2>2, MergesInto DEF Market!seedFromStore, RatesType
  <2>5. /\ seeded' \in [Procs -> (SUBSET Series) \union {Market!Unasked}]
        /\ seeded'[p] \subseteq Series
        /\ \A q \in Procs : q # p => seeded'[q] = seeded[q]
    BY <1>0, <1>2 DEF Market!seedFromStore, RatesType, Series, Market!Rates, Market!FRED, Market!ERP
  <2>6. \A r \in seeded'[p] : said[r] # -2 /\ lastObserved'[p] = Market!Merge(lastObserved[p], said)
    <3>1. CASE seeded' = [seeded EXCEPT ![p] = {}]
      BY <1>0, <3>1 DEF RatesType
    <3>2. CASE /\ lastObserved' = [lastObserved EXCEPT ![p] = Market!Merge(lastObserved[p], said)]
               /\ seeded' = [seeded EXCEPT ![p] = {r \in Market!Rates : Market!latestMacro(r) # Market!Missing}]
      BY <1>0, <2>3, <3>2 DEF RatesType, Series, Market!Rates, Market!FRED, Market!ERP, Market!Missing
    <3>3. QED BY <1>2, <2>2, <3>1, <3>2 DEF Market!seedFromStore
  <2>7. \A r \in Series : lastObserved'[p][r] = lastObserved[p][r] \/ lastObserved[p][r] = -2
    BY <2>4, Merged
  <2>8. RatesType'
    BY <1>0, <2>1, <2>4, <2>5 DEF RatesType
  <2>9. ratesCache[p] = Market!Nothing /\ seeded'[p] # Market!Unasked /\ ratesInFlight'[p] = "asking"
    BY <1>0, <2>1, <2>5 DEF KnownIsRemembered, RatesType, Market!Unasked, Series
  <2>10. KnownIsRemembered(p)'
    <3>1. \A r \in Series : r \in seeded'[p] => lastObserved'[p][r] # -2
      BY <2>4, <2>6, Merged
    <3>2. lastObserved'[p]["erp"] >= erpCache'[p]
      <4>1. erpCache[p] \in Readings /\ lastObserved[p]["erp"] \in Readings /\ lastObserved'[p]["erp"] \in Readings
        BY <1>0, <2>8 DEF RatesType, ReadingOf, Series
      <4>2. lastObserved[p]["erp"] >= erpCache[p]
        BY <1>0 DEF KnownIsRemembered
      <4>3. QED BY <2>1, <2>7, <4>1, <4>2 DEF Readings, Series
    <3>3. QED BY <2>9, <3>1, <3>2 DEF KnownIsRemembered
  <2>11. \A q \in Procs : q # p => KnownIsRemembered(q)'
    BY <1>0, <2>1, <2>4, <2>5 DEF KnownIsRemembered, RatesType
  <2>12. \A q \in Procs : ReadingsAreRecent(q)'
    BY <1>0, <2>1 DEF ReadingsAreRecent
  <2>13. Market!RatesAreReadings'
    BY <1>0, <2>1, <2>5, <2>9 DEF Market!RatesAreReadings, Market!RecordedRatesWereRead, Market!ConstantsAreTheLastResort
  <2>14. QED BY <2>8, <2>10, <2>11, <2>12, <2>13 DEF RatesInv
<1>3. ASSUME NEW p \in Procs, Market!Settle(p) PROVE RatesInv'
  <2>1. UNCHANGED <<clock, recorded, seeded, refresh>> /\ ratesInFlight[p] = "asking"
    BY <1>3 DEF Market!Settle, Market!Asking
  <2>2. PICK fred \in {clock, Market!Missing},
             erp \in IF Market!ErpKept(p) THEN {erpCache[p]} ELSE {clock, Market!Missing} :
         LET observed == [r \in Market!Rates |-> IF r = Market!FRED THEN fred ELSE erp]
             last == Market!Merge(observed, lastObserved[p])
             rates == Market!Merge(last, [r \in Market!Rates |-> Market!Constant])
         IN /\ erpCache' = IF erp = Market!Missing THEN erpCache ELSE [erpCache EXCEPT ![p] = erp]
            /\ lastObserved' = [lastObserved EXCEPT ![p] = last]
            /\ ratesCache' = [ratesCache EXCEPT ![p] =
                  [at |-> clock, complete |-> \A r \in Market!Rates : observed[r] # Market!Missing,
                   rates |-> rates, observed |-> Market!observedOf(observed, rates)]]
    BY <1>3 DEF Market!Settle
  <2>3. PICK observed \in ReadingOf : observed = [r \in Market!Rates |-> IF r = Market!FRED THEN fred ELSE erp]
    BY <1>0, <2>2 DEF RatesType, ReadingOf, Readings, Series, Market!Rates, Market!FRED, Market!ERP, Market!Missing
  <2>4. observed["fred"] = fred /\ observed["erp"] = erp
    BY <2>3 DEF Market!Rates, Market!FRED, Market!ERP
  <2>5. PICK earlier \in ReadingOf : earlier = lastObserved[p]
    BY <1>0 DEF RatesType
  <2>6. PICK last \in ReadingOf : last = Market!Merge(observed, earlier)
    BY MergesInto
  <2>7. PICK rates \in [Series -> Nat \union {-1}] : rates = Market!Merge(last, [r \in Market!Rates |-> Market!Constant])
    BY <2>6 DEF Market!Merge, ReadingOf, Readings, Series, Market!Rates, Market!FRED, Market!ERP, Market!Missing,
       Market!Constant
  <2>a. PICK full \in BOOLEAN : full = \A r \in Market!Rates : observed[r] # Market!Missing
    OBVIOUS
  <2>b. [at |-> clock, complete |-> full, rates |-> rates, observed |-> observed] \in Caches
    BY <1>0, <2>a DEF Caches, RatesType, Readings
  <2>8. PICK c \in Caches : /\ c = [at |-> clock, complete |-> full, rates |-> rates, observed |-> observed]
                            /\ c.at = clock /\ c.rates = rates /\ c.observed = observed
    BY <2>b, Zenon
  <2>9. /\ erpCache' = IF erp = -2 THEN erpCache ELSE [erpCache EXCEPT ![p] = erp]
        /\ lastObserved' = [lastObserved EXCEPT ![p] = last]
        /\ ratesCache' = [ratesCache EXCEPT ![p] = c]
    BY <2>2, <2>3, <2>5, <2>6, <2>7, <2>8, <2>a DEF Market!observedOf, Market!Missing
  <2>10. /\ ratesInFlight' \in [Procs -> {"no", "seeding", "asking"}] /\ ratesInFlight'[p] = "no"
         /\ \A q \in Procs : q # p => ratesInFlight'[q] = ratesInFlight[q]
    BY <1>0, <1>3 DEF Market!Settle, RatesType, Market!Grounded
  <2>11. /\ erp \in Readings /\ fred \in {clock, -2} /\ clock \in Nat /\ erp <= clock
         /\ erp # -2 => erp >= clock - (ErpTtl - 1)
    BY <1>0, <2>2 DEF RatesType, Readings, ReadingsAreRecent, Market!Missing, Market!ErpKept
  <2>12. /\ ratesCache'[p] = c /\ lastObserved'[p] = last /\ erpCache'[p] = IF erp = -2 THEN erpCache[p] ELSE erp
         /\ \A q \in Procs : q # p => /\ ratesCache'[q] = ratesCache[q] /\ lastObserved'[q] = lastObserved[q]
                                       /\ erpCache'[q] = erpCache[q]
    BY <1>0, <2>9 DEF RatesType
  <2>13. RatesType'
    BY <1>0, <2>1, <2>9, <2>10, <2>11 DEF RatesType
  <2>14. /\ c # Market!Nothing
         /\ erpCache[p] \in Readings /\ earlier["erp"] >= erpCache[p] /\ earlier["erp"] \in Readings
    BY <1>0, <2>5, <2>8 DEF RatesType, Market!Nothing, Market!Missing, KnownIsRemembered, ReadingOf, Series
  <2>15. ReadingsAreRecent(p)'
    BY <1>0, <2>1, <2>4, <2>8, <2>11, <2>12, <2>14 DEF ReadingsAreRecent, ReadFor, Series, Readings, RatesType
  <2>16. \A r \in Series : /\ last[r] = (IF observed[r] # -2 THEN observed[r] ELSE earlier[r])
                           /\ last[r] \in Readings /\ observed[r] \in Readings
                           /\ rates[r] = (IF last[r] # -2 THEN last[r] ELSE -1)
    <3>1. \A r \in Series : [s \in Market!Rates |-> Market!Constant][r] = -1
      BY DEF Series, Market!Rates, Market!FRED, Market!ERP, Market!Constant
    <3>2. QED BY <2>6, <2>7, <3>1, Merged DEF ReadingOf
  <2>17. KnownIsRemembered(p)'
    <3>1. seeded[p] # Market!Unasked /\ \A r \in Series : r \in seeded[p] => earlier[r] # -2
      BY <1>0, <2>1, <2>5 DEF KnownIsRemembered
    <3>2. last["erp"] >= erpCache'[p]
      BY <2>4, <2>11, <2>12, <2>14, <2>16 DEF Series, Readings
    <3>3. QED BY <2>1, <2>10, <2>12, <2>16, <3>1, <3>2 DEF KnownIsRemembered
  <2>18. \A q \in Procs : q # p => ReadingsAreRecent(q)' /\ KnownIsRemembered(q)'
    BY <1>0, <2>1, <2>10, <2>12 DEF ReadingsAreRecent, KnownIsRemembered
  <2>19. Market!RecordedRatesWereRead'
    BY <1>0, <2>1 DEF Market!RecordedRatesWereRead
  <2>20. ASSUME NEW r \in Series
         PROVE  /\ r \in seeded'[p] => rates[r] # -1
                /\ rates[r] >= observed[r]
                /\ r = "erp" => rates[r] >= erpCache'[p]
    <3>1. r \in seeded[p] => earlier[r] # -2
      BY <1>0, <2>5 DEF KnownIsRemembered
    <3>2. QED BY <2>1, <2>4, <2>11, <2>12, <2>14, <2>16, <3>1 DEF Readings
  <2>21. Market!ConstantsAreTheLastResort'
    <3> SUFFICES ASSUME NEW q \in Procs, NEW r \in Series, ratesCache'[q] # Market!Nothing
                 PROVE  /\ r \in seeded'[q] => ratesCache'[q].rates[r] # -1
                        /\ ratesCache'[q].rates[r] >= ratesCache'[q].observed[r]
                        /\ r = "erp" => ratesCache'[q].rates[r] >= erpCache'[q]
      BY DEF Market!ConstantsAreTheLastResort, Series, Market!Rates, Market!FRED, Market!ERP, Market!Constant
    <3>1. CASE q = p
      BY <2>8, <2>12, <2>20, <3>1
    <3>2. CASE q # p
      BY <1>0, <2>1, <2>12, <3>2 DEF Market!ConstantsAreTheLastResort, Series, Market!Rates, Market!FRED, Market!ERP,
         Market!Constant
    <3>3. QED BY <3>1, <3>2
  <2>22. QED BY <2>13, <2>15, <2>17, <2>18, <2>19, <2>21 DEF RatesInv, Market!RatesAreReadings
<1>4. ASSUME NEW p \in Procs, Market!Take(p) PROVE RatesInv'
  <2>1. UNCHANGED <<clock, recorded, ratesCache, lastObserved, erpCache, seeded, ratesInFlight>>
    BY <1>4 DEF Market!Take
  <2>2. Market!Kept(p) /\ ratesCache[p] # Market!Nothing /\ ratesCache[p] \in Caches
    BY <1>0, <1>4 DEF Market!Take, Market!Kept, RatesType
  <2>3. PICK o \in ReadingOf : o = ratesCache[p].observed
    BY <2>2 DEF Caches
  <2> DEFINE x == [held |-> TRUE, age |-> 0, observed |-> o]
  <2>4. x \in Holdings /\ x.age = 0 /\ x.observed = o
    BY <2>3 DEF Holdings
  <2>5. refresh' = [refresh EXCEPT ![p] = x]
    BY <1>4, <2>3 DEF Market!Take
  <2> HIDE DEF x
  <2>6. refresh' \in [Procs -> Holdings] /\ refresh'[p] = x /\ \A q \in Procs : q # p => refresh'[q] = refresh[q]
    BY <1>0, <2>4, <2>5 DEF RatesType
  <2>7. RatesType'
    BY <1>0, <2>1, <2>6 DEF RatesType
  <2>8. \A q \in Procs : KnownIsRemembered(q)'
    BY <1>0, <2>1 DEF KnownIsRemembered
  <2>9. Market!RatesAreReadings'
    BY <1>0, <2>1 DEF Market!RatesAreReadings, Market!RecordedRatesWereRead, Market!ConstantsAreTheLastResort
  <2>10. ASSUME NEW r \in Series, o[r] # -2
         PROVE  o[r] <= clock /\ o[r] >= clock - Market!Reach(r) + 1
    <3>1. clock - ratesCache[p].at < Ttl
      BY <1>0, <2>2 DEF Market!Kept, RatesType, Caches, Readings
    <3>2. o[r] <= clock /\ o[r] >= ratesCache[p].at - ReadFor(r) /\ ratesCache[p].at \in Nat
      BY <1>0, <2>2, <2>3, <2>10 DEF ReadingsAreRecent
    <3>3. Market!Reach(r) = Ttl + ReadFor(r) /\ ReadFor(r) \in Nat /\ o[r] \in Int
      BY <1>0 DEF Market!Reach, Market!ERP, ReadFor, ReadingOf, Readings
    <3>4. QED BY <1>0, <3>1, <3>2, <3>3 DEF RatesType
  <2>11. ReadingsAreRecent(p)'
    <3>1. Market!Reach("fred") \in Nat /\ Market!Reach("erp") \in Nat
      BY <1>0 DEF Market!Reach
    <3>2. QED BY <1>0, <2>1, <2>4, <2>6, <2>10, <3>1 DEF ReadingsAreRecent, Series, RatesType
  <2>12. \A q \in Procs : q # p => ReadingsAreRecent(q)'
    BY <1>0, <2>1, <2>6 DEF ReadingsAreRecent
  <2>13. QED BY <2>7, <2>8, <2>9, <2>11, <2>12 DEF RatesInv
<1>5. ASSUME NEW p \in Procs, Market!Record(p) PROVE RatesInv'
  <2>1. UNCHANGED <<clock, ratesCache, lastObserved, erpCache, seeded, ratesInFlight>>
    BY <1>5 DEF Market!Record
  <2>2. PICK o \in ReadingOf : o = refresh[p].observed
    BY <1>0 DEF RatesType, Holdings
  <2>3. PICK d \in 0 .. Market!Day(MaxTime) : d = Market!Day(clock)
    BY <1>0, DayOf DEF RatesType
  <2>4. d \in Nat /\ d * Midnight <= clock /\ clock < (d + 1) * Midnight
    BY <1>0, <2>3, DayOf DEF RatesType
  <2>5. PICK earlier \in ReadingOf : earlier = recorded[d]
    BY <1>0 DEF RatesType
  <2>6. recorded' = [recorded EXCEPT ![d] = Market!Merge(o, earlier)]
    BY <1>5, <2>2, <2>3, <2>5 DEF Market!Record
  <2>7. /\ recorded' \in [0 .. Market!Day(MaxTime) -> ReadingOf]
        /\ recorded'[d] = Market!Merge(o, earlier)
        /\ \A e \in 0 .. Market!Day(MaxTime) : e # d => recorded'[e] = recorded[e]
    BY <1>0, <2>6, MergesInto DEF RatesType
  <2>8. /\ refresh' \in [Procs -> Holdings] /\ ~refresh'[p].held
        /\ \A q \in Procs : q # p => refresh'[q] = refresh[q]
    BY <1>0, <1>5, <1>i DEF Market!Record, RatesType
  <2>9. RatesType'
    BY <1>0, <2>1, <2>7, <2>8 DEF RatesType
  <2>10. \A q \in Procs : KnownIsRemembered(q)'
    BY <1>0, <2>1 DEF KnownIsRemembered
  <2>11. \A q \in Procs : ReadingsAreRecent(q)'
    BY <1>0, <2>1, <2>8 DEF ReadingsAreRecent
  <2>12. ASSUME NEW r \in Series, o[r] # -2
         PROVE  o[r] >= 0 /\ d * Midnight - Market!Reach(r) <= o[r] /\ o[r] < (d + 1) * Midnight
    <3>1. refresh[p].held /\ refresh[p].age \in {0, 1}
      BY <1>0, <1>5 DEF Market!Record, RatesType, Holdings
    <3>2. o[r] <= clock /\ o[r] >= clock - Market!Reach(r) + 1 - refresh[p].age
      BY <1>0, <2>2, <2>12, <3>1 DEF ReadingsAreRecent
    <3>3. Market!Reach(r) \in Nat /\ o[r] \in Nat /\ clock \in Nat
      BY <1>0, <2>12 DEF Market!Reach, ReadingOf, Readings, RatesType
    <3>4. PICK start \in Nat, end \in Nat : start = d * Midnight /\ end = (d + 1) * Midnight
      BY <1>0, <2>4
    <3>5. QED BY <2>4, <3>1, <3>2, <3>3, <3>4
  <2>13. Market!RecordedRatesWereRead'
    <3> SUFFICES ASSUME NEW e \in 0 .. Market!Day(MaxTime), NEW r \in Series, recorded'[e][r] # -2
                 PROVE  /\ recorded'[e][r] >= 0
                        /\ e * Midnight - Market!Reach(r) <= recorded'[e][r]
                        /\ recorded'[e][r] < (e + 1) * Midnight
      BY <2>7 DEF Market!RecordedRatesWereRead, Market!Missing, Market!Rates, Market!FRED, Market!ERP, Series,
         Market!Reach
    <3>1. recorded[e][r] # -2 => /\ recorded[e][r] >= 0
                                 /\ e * Midnight - Market!Reach(r) <= recorded[e][r]
                                 /\ recorded[e][r] < (e + 1) * Midnight
      BY <1>0 DEF Market!RecordedRatesWereRead, Market!Missing, Market!Rates, Market!FRED, Market!ERP, Series, RatesType
    <3>2. CASE e # d
      BY <2>7, <3>1, <3>2
    <3>3. CASE e = d
      <4>1. recorded'[e][r] = IF o[r] # -2 THEN o[r] ELSE earlier[r]
        BY <2>7, <3>3, Merged
      <4>2. CASE o[r] # -2
        BY <2>12, <3>3, <4>1, <4>2
      <4>3. CASE o[r] = -2
        BY <2>5, <3>1, <3>3, <4>1, <4>3
      <4>4. QED BY <4>2, <4>3
    <3>4. QED BY <3>2, <3>3
  <2>14. Market!ConstantsAreTheLastResort'
    BY <1>0, <2>1 DEF Market!ConstantsAreTheLastResort
  <2>15. QED BY <2>9, <2>10, <2>11, <2>13, <2>14 DEF RatesInv, Market!RatesAreReadings
<1>6. ASSUME NEW p \in Procs, Market!GiveUp(p) PROVE RatesInv'
  <2>1. UNCHANGED <<clock, recorded, ratesCache, lastObserved, erpCache, seeded, ratesInFlight>>
    BY <1>6 DEF Market!GiveUp
  <2>2. /\ refresh' \in [Procs -> Holdings] /\ ~refresh'[p].held
        /\ \A q \in Procs : q # p => refresh'[q] = refresh[q]
    BY <1>0, <1>6, <1>i DEF Market!GiveUp, RatesType
  <2>3. RatesType'
    BY <1>0, <2>1, <2>2 DEF RatesType
  <2>4. \A q \in Procs : ReadingsAreRecent(q)' /\ KnownIsRemembered(q)'
    BY <1>0, <2>1, <2>2 DEF ReadingsAreRecent, KnownIsRemembered
  <2>5. Market!RatesAreReadings'
    BY <1>0, <2>1 DEF Market!RatesAreReadings, Market!RecordedRatesWereRead, Market!ConstantsAreTheLastResort
  <2>6. QED BY <2>3, <2>4, <2>5 DEF RatesInv
<1>7. ASSUME NEW p \in Procs, Market!Restart(p) PROVE RatesInv'
  <2>1. UNCHANGED <<clock, recorded>>
    BY <1>7 DEF Market!Restart
  <2>2. /\ ratesCache'[p] = Market!Nothing /\ lastObserved'[p] = Market!Unread /\ erpCache'[p] = -2
        /\ seeded'[p] = Market!Unasked /\ ratesInFlight'[p] = "no" /\ refresh'[p] = Market!Idle
    BY <1>0, <1>7 DEF Market!Restart, RatesType, Market!Missing, Market!Grounded
  <2>3. \A q \in Procs : q # p =>
           /\ ratesCache'[q] = ratesCache[q] /\ lastObserved'[q] = lastObserved[q] /\ erpCache'[q] = erpCache[q]
           /\ seeded'[q] = seeded[q] /\ ratesInFlight'[q] = ratesInFlight[q] /\ refresh'[q] = refresh[q]
    BY <1>0, <1>7 DEF Market!Restart, RatesType
  <2>4. RatesType'
    BY <1>0, <1>7, <1>i, <2>1 DEF Market!Restart, RatesType, Market!Missing, Market!Grounded, Readings
  <2>5. ReadingsAreRecent(p)' /\ KnownIsRemembered(p)'
    BY <1>0, <1>i, <2>1, <2>2 DEF RatesType, ReadingsAreRecent, KnownIsRemembered, Market!Unasked, Series
  <2>6. \A q \in Procs : q # p => ReadingsAreRecent(q)' /\ KnownIsRemembered(q)'
    BY <1>0, <2>1, <2>3 DEF ReadingsAreRecent, KnownIsRemembered
  <2>7. Market!RecordedRatesWereRead'
    BY <1>0, <2>1 DEF Market!RecordedRatesWereRead
  <2>8. Market!ConstantsAreTheLastResort'
    BY <1>0, <2>2, <2>3 DEF Market!ConstantsAreTheLastResort
  <2>9. QED BY <2>4, <2>5, <2>6, <2>7, <2>8 DEF RatesInv, Market!RatesAreReadings
<1>8. CASE Market!Tick
  <2>1. UNCHANGED <<recorded, ratesCache, lastObserved, erpCache, seeded, ratesInFlight>> /\ clock' = clock + 1 /\ clock < MaxTime
    BY <1>8 DEF Market!Tick
  <2>2. ASSUME NEW p \in Procs
        PROVE  /\ refresh'[p] \in Holdings /\ (refresh'[p].held <=> refresh[p].held)
               /\ refresh'[p].observed = refresh[p].observed
               /\ refresh[p].held => refresh[p].age = 0 /\ refresh'[p].age = 1
    <3>1. PICK x \in Holdings : x = refresh[p]
      BY <1>0 DEF RatesType
    <3>2. refresh'[p] = (IF x.held THEN [x EXCEPT !.age = 1] ELSE x) /\ x.age = 0
      BY <1>8, <3>1 DEF Market!Tick
    <3>3. [x EXCEPT !.age = 1] \in Holdings
      BY DEF Holdings
    <3>4. [x EXCEPT !.age = 1].age = 1 /\ [x EXCEPT !.age = 1].observed = x.observed
      BY DEF Holdings
    <3>5. [x EXCEPT !.age = 1].held = x.held
      BY DEF Holdings
    <3>6. QED BY <3>1, <3>2, <3>3, <3>4, <3>5
  <2>3. refresh' = [p \in Procs |-> IF refresh[p].held THEN [refresh[p] EXCEPT !.age = 1] ELSE refresh[p]]
    BY <1>8 DEF Market!Tick
  <2>4. refresh' \in [Procs -> Holdings]
    BY <2>2, <2>3
  <2>5. RatesType'
    BY <1>0, <2>1, <2>4 DEF RatesType
  <2>6. \A p \in Procs : KnownIsRemembered(p)'
    BY <1>0, <2>1 DEF KnownIsRemembered
  <2>7. ASSUME NEW p \in Procs PROVE ReadingsAreRecent(p)'
    <3>1. /\ erpCache'[p] <= clock'
          /\ ratesCache'[p] # Market!Nothing =>
               /\ ratesCache'[p].at \in 0 .. clock'
               /\ \A r \in Series : ratesCache'[p].observed[r] # -2 =>
                    /\ ratesCache'[p].observed[r] <= clock'
                    /\ ratesCache'[p].observed[r] >= ratesCache'[p].at - ReadFor(r)
      <4>1. ratesCache[p] # Market!Nothing => \A r \in Series : ratesCache[p].observed[r] \in Int
        BY <1>0 DEF RatesType, Caches, ReadingOf, Readings
      <4>2. QED BY <1>0, <2>1, <4>1 DEF ReadingsAreRecent, RatesType, Readings
    <3>2. ASSUME NEW r \in Series, refresh'[p].held, refresh'[p].observed[r] # -2
          PROVE  /\ refresh'[p].observed[r] <= clock'
                 /\ refresh'[p].observed[r] >= clock' - Market!Reach(r) + 1 - refresh'[p].age
      <4>1. PICK o \in Int : o = refresh[p].observed[r]
        BY <1>0 DEF RatesType, Holdings, ReadingOf, Readings
      <4>2. o <= clock /\ o >= clock - Market!Reach(r) + 1 - refresh[p].age
        BY <1>0, <2>2, <3>2, <4>1 DEF ReadingsAreRecent
      <4>3. PICK n \in Int : n = Market!Reach(r)
        BY <1>0 DEF Market!Reach
      <4>4. refresh[p].age = 0 /\ refresh'[p].age = 1 /\ refresh'[p].observed[r] = o /\ clock' = clock + 1 /\ clock \in Int
        BY <1>0, <2>1, <2>2, <3>2, <4>1 DEF RatesType
      <4>5. o <= clock + 1 /\ o >= clock + 1 - n + 1 - 1
        BY <4>2, <4>3, <4>4
      <4>6. QED BY <4>3, <4>4, <4>5
    <3>3. Market!Reach("fred")' = Market!Reach("fred") /\ Market!Reach("erp")' = Market!Reach("erp")
      BY DEF Market!Reach
    <3>4. QED BY <3>1, <3>2, <3>3 DEF ReadingsAreRecent, ReadFor
  <2>8. Market!RatesAreReadings'
    BY <1>0, <2>1 DEF Market!RatesAreReadings, Market!RecordedRatesWereRead, Market!ConstantsAreTheLastResort
  <2>9. QED BY <2>5, <2>6, <2>7, <2>8 DEF RatesInv
<1>9. CASE UNCHANGED Market!vars
  BY <1>0, <1>9 DEF Market!vars, RatesInv, RatesType, ReadingsAreRecent, KnownIsRemembered, Market!RatesAreReadings,
     Market!RecordedRatesWereRead, Market!ConstantsAreTheLastResort
<1>10. QED BY <1>1, <1>2, <1>3, <1>4, <1>5, <1>6, <1>7, <1>8, <1>9 DEF Market!Next

\* The market rates: what is recorded under a day was read on it or within the reach of a reading
\* before it, and no constant prices what the store knew or a reading has brought.
THEOREM RatesRead == Market!Spec => []RatesAreReadings
<1>1. RatesInv => RatesAreReadings
  BY DEF RatesInv, RatesAreReadings
<1>2. QED BY <1>1, RatesBegin, RatesStep, PTL DEF Market!Spec

=============================================================================
