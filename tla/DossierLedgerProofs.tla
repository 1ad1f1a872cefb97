------------------------- MODULE DossierLedgerProofs -------------------------
(***************************************************************************)
(* What is switched on at Distill is remembered: the theorem for any       *)
(* number of subjects, entities, jobs, changes and merges, where calls do  *)
(* not overlap and nothing fails but by a refusal of the server.  With a   *)
(* death, a lost answer or a rejected key it does not hold, nor with       *)
(* overlapping calls.                                                      *)
(*                                                                         *)
(* The invariant follows the one at work.  It goes by the id its row       *)
(* remembers, so the outcome it writes overwrites no other memory; and a   *)
(* row that a sync drops either remembers nothing or an entity that        *)
(* another row, done with and to stay, remembers too.                      *)
(***************************************************************************)
EXTENDS DossierLedger, FiniteSetTheorems, TLAPS

\* The types of the local variables, the plan and what it is made of.
Ids == Entities \union {None}
Changes == [s : Subjects, en : BOOLEAN]
Acts == [s : Subjects, en : BOOLEAN, id : Ids]
Places == {"idle", "look", "intent", "drop", "push", "resolve", "put", "answered", "read", "next"}
Processes == [pc : Places, s : Subjects \union {None}, en : BOOLEAN, id : Ids, out : Rows,
              again : BOOLEAN, deleting : BOOLEAN, rest : Seq(Changes)]
Plans == [want : SUBSET Subjects, acts : SUBSET Acts, known : Ids,
          enabled : SUBSET Ids, retire : SUBSET Subjects]

\* Between two changes nobody has a subject.
Resting == {"idle", "read", "next"}

\* The columns, the switches and the local variables hold what they may.
LedgerType ==
  /\ watched \subseteq Companies
  /\ on \subseteq Live \ Ineligible
  /\ registry \in [Subjects -> Ids]
  /\ cache \in [Companies -> Ids]
  /\ ledger \in [Subjects -> Rows \union {NoRow}]
  /\ proc \in [Procs -> Processes]
  /\ plan \in Plans

\* One at a time.
OneAtATime == \A p, q \in Procs : proc[p].pc # "idle" /\ proc[q].pc # "idle" => p = q

\* The sync neither looks a row up nor deletes, and leaves no plan when it is over.
SyncKeepsToItsPart ==
  /\ \A p \in Jobs : proc[p].pc \notin {"read", "next"}
  /\ proc[Sync].pc \notin {"look", "drop"} /\ ~proc[Sync].deleting
  /\ proc[Sync].pc = "idle" => plan = NoPlan
  /\ proc[Sync].pc = "read" => plan.acts = {} /\ plan.enabled = {} /\ plan.retire = {}

\* A row knows that e is on.
Remembers(s, e) == ledger[s] # NoRow /\ ledger[s].id = e /\ ledger[s].applied = "on"

\* An answer says so, which is yet to be written.
Confirmed(p, e) ==
  /\ proc[p].pc = "answered" /\ proc[p].id = e
  /\ proc[p].out.id = e /\ proc[p].out.applied = "on"

\* Whatever is on, a row knows or an answer says.
NothingIsForgotten ==
  \A e \in on : (\E s \in Subjects : Remembers(s, e)) \/ (\E p \in Procs : Confirmed(p, e))

\* Whoever changes a subject's switch goes by the id its row remembers, asks the
\* registry only where that entity is gone, and answers nothing that would take
\* the memory of what is on.
GoesByTheRow(p) ==
  /\ proc[p].pc \notin Resting => proc[p].s \in Subjects
  /\ proc[p].pc \in {"intent", "push", "resolve", "put"} =>
       \A e \in on : Remembers(proc[p].s, e) => proc[p].id = e
  /\ proc[p].pc = "resolve" => proc[p].id \notin Live
  /\ proc[p].pc = "answered" =>
       \A e \in on : Remembers(proc[p].s, e)
                       => proc[p].out.id = e /\ proc[p].out.applied \in {"unknown", "on"}

\* The sync has yet to deal with s, or is about to.
Open(s) ==
  \/ \E a \in plan.acts : a.s = s
  \/ proc[Sync].pc \notin Resting /\ proc[Sync].s = s

\* A subject has one action, by the id of its row, and is not dealt with twice.
PlanIsOfTheLedger ==
  /\ \A a \in plan.acts :
       /\ RowId(a.s) = a.id
       /\ proc[Sync].pc \notin Resting => proc[Sync].s # a.s
  /\ \A a, b \in plan.acts : a.s = b.s => a = b
  /\ \A s \in plan.retire : ~Open(s)

\* What a row about to go remembers, one that stays remembers as well.
RetiredIsKeptElsewhere ==
  /\ \A s \in plan.retire : \A e \in Entities : Remembers(s, e) => e \in plan.enabled
  /\ \A e \in plan.enabled : \E s \in Subjects \ plan.retire : Remembers(s, e) /\ ~Open(s)

\* The inductive invariant.
LedgerInv ==
  /\ LedgerType /\ OneAtATime /\ SyncKeepsToItsPart /\ NothingIsForgotten
  /\ \A p \in Procs : GoesByTheRow(p)
  /\ PlanIsOfTheLedger /\ RetiredIsKeptElsewhere

-----------------------------------------------------------------------------
\* A finite set is listed by sequences over it.
LEMMA ListsItsSet ==
  ASSUME NEW S, IsFiniteSet(S)
  PROVE  SetToSeq(S) \in Seq(S)
<1>1. Cardinality(S) \in Nat /\ ExistsBijection(1..Cardinality(S), S)
  BY FS_CardinalityType
<1>2. \E f \in [1..Cardinality(S) -> S] : IsInjective(f)
  BY <1>1 DEF ExistsBijection, Bijection, Injection
<1>3. SetToSeq(S) \in [1..Cardinality(S) -> S]
  BY <1>2 DEF SetToSeq
<1>4. QED
  BY <1>1, <1>3

\* A sequence over a part of a set is one over the set.
LEMMA ListsWithin ==
  ASSUME NEW S, NEW T, S \subseteq T, NEW s \in Seq(S)
  PROVE  s \in Seq(T)
<1>1. s \in [1..Len(s) -> T] /\ Len(s) \in Nat
  OBVIOUS
<1>2. QED
  BY <1>1

\* What an added stock and a deleted one send along.
LEMMA ChangesAreListed ==
  ASSUME NEW c \in Companies
  PROVE  Joined(c) \in Seq(Changes) /\ Left(c) \in Seq(Changes)
<1> DEFINE S == SectorsOf[c]
           T == {Change(s, TRUE) : s \in S}
           f == [s \in S |-> Change(s, TRUE)]
<1>1. S \subseteq Sectors /\ IsFiniteSet(S)
  BY RegistryAssumption, FS_Subset
<1>2. f \in Surjection(S, T)
  BY DEF Surjection
<1>3. IsFiniteSet(T)
  BY <1>1, <1>2, FS_Surjection
<1>4. \A s \in Subjects : Change(s, TRUE) \in Changes /\ Change(s, FALSE) \in Changes
  BY DEF Change, Changes
<1>5. T \subseteq Changes
  BY <1>1, <1>4 DEF Subjects
<1>6. SetToSeq(T) \in Seq(T)
  BY <1>3, ListsItsSet
<1> DEFINE x == Change(c, TRUE)
           y == Change(c, FALSE)
           t == SetToSeq(T)
<1>7. Joined(c) = <<x>> \o t /\ Left(c) = <<y>>
  BY DEF Joined, Left
<1>8. x \in Changes /\ y \in Changes
  BY <1>4 DEF Subjects
<1>9. t \in Seq(Changes)
  BY <1>5, <1>6, ListsWithin
<1> HIDE DEF x, y, t
<1>10. <<x>> \o t \in Seq(Changes) /\ <<y>> \in Seq(Changes)
  BY <1>8, <1>9
<1>11. QED
  BY <1>7, <1>10

\* Everybody idles alike.
LEMMA IdleIsPlain ==
  Idle \in Processes /\ Idle.pc = "idle" /\ ~Idle.deleting /\ NoPlan \in Plans
<1>1. NoOutcome \in Rows
  BY DEF NoOutcome, Outcome, Rows
<1>2. <<>> \in Seq(Changes)
  OBVIOUS
<1>3. Idle \in Processes /\ Idle.pc = "idle"
  BY <1>1, <1>2 DEF Idle, Processes, Places, Ids
<1>4. ~Idle.deleting
  BY DEF Idle
<1>5. NoPlan \in Plans
  BY DEF NoPlan, Plans, Ids
<1>6. QED
  BY <1>3, <1>4, <1>5

\* Whoever takes the first of some changes looks its row up, or is done.
LEMMA TakesTheFirst ==
  ASSUME NEW chs \in Seq(Changes), NEW d \in BOOLEAN
  PROVE  LET c == Take(chs, d)
         IN  c \in Processes /\ c.pc \in {"idle", "look"} /\ (c.pc = "look" => c.s \in Subjects)
<1>1. CASE chs = <<>>
  BY <1>1, IdleIsPlain DEF Take
<1>2. CASE chs # <<>>
  <2> DEFINE c == [Idle EXCEPT !.pc = "look", !.s = Head(chs).s, !.en = Head(chs).en,
                               !.rest = Tail(chs), !.deleting = d]
  <2>1. Head(chs) \in Changes /\ Tail(chs) \in Seq(Changes)
    BY <1>2
  <2>2. Head(chs).s \in Subjects /\ Head(chs).en \in BOOLEAN
    BY <2>1 DEF Changes
  <2>3. c \in Processes /\ c.pc = "look" /\ c.s \in Subjects
    BY <2>1, <2>2, IdleIsPlain DEF Processes, Places
  <2>4. Take(chs, d) = c
    BY <1>2 DEF Take
  <2>5. QED
    BY <2>3, <2>4
<1>3. QED
  BY <1>1, <1>2

-----------------------------------------------------------------------------
\* p takes a step of its change: the others, and the change itself, stay.
StepOf(p) ==
  /\ proc' \in [Procs -> Processes]
  /\ \A q \in Procs : q # p => proc'[q] = proc[q]

\* It goes on with the same change.
GoesOn(p) ==
  StepOf(p) /\ proc'[p].s = proc[p].s /\ (proc'[p].deleting <=> proc[p].deleting)

\* To the next place, and nothing else.
LEMMA Goes ==
  ASSUME LedgerType, NEW p \in Procs, NEW x \in Places, Go(p, x)
  PROVE  GoesOn(p) /\ proc'[p].pc = x /\ proc'[p].id = proc[p].id /\ proc'[p].out = proc[p].out
<1>1. PICK c \in Processes : c = proc[p]
  BY DEF LedgerType
<1> DEFINE d == [c EXCEPT !.pc = x]
<1>2. d \in Processes
  BY DEF Processes
<1>3. d.pc = x /\ d.id = c.id /\ d.out = c.out /\ d.s = c.s
  BY DEF Processes
<1>4. d.deleting <=> c.deleting
  BY DEF Processes
<1>5. proc' = [proc EXCEPT ![p] = d]
  BY <1>1 DEF Go
<1> HIDE DEF d
<1>6. StepOf(p) /\ proc'[p] = d
  BY <1>2, <1>5 DEF LedgerType, StepOf
<1>7. QED
  BY <1>1, <1>3, <1>4, <1>6 DEF GoesOn

\* With an answer.
LEMMA Answers ==
  ASSUME LedgerType, NEW p \in Procs, NEW out \in Rows, Answered(p, out)
  PROVE  GoesOn(p) /\ proc'[p].pc = "answered" /\ proc'[p].id = proc[p].id /\ proc'[p].out = out
<1>1. PICK c \in Processes : c = proc[p]
  BY DEF LedgerType
<1> DEFINE d == [c EXCEPT !.pc = "answered", !.out = out]
<1>2. d \in Processes
  BY DEF Processes, Places
<1>3. d.pc = "answered" /\ d.id = c.id /\ d.out = out /\ d.s = c.s
  BY DEF Processes
<1>4. d.deleting <=> c.deleting
  BY DEF Processes
<1>5. proc' = [proc EXCEPT ![p] = d]
  BY <1>1 DEF Answered
<1> HIDE DEF d
<1>6. StepOf(p) /\ proc'[p] = d
  BY <1>2, <1>5 DEF LedgerType, StepOf
<1>7. QED
  BY <1>1, <1>3, <1>4, <1>6 DEF GoesOn

\* With an id.
LEMMA GoesByAnId ==
  ASSUME LedgerType, NEW p \in Procs, NEW x \in Places, NEW e \in Ids,
         proc' = [proc EXCEPT ![p].pc = x, ![p].id = e]
  PROVE  GoesOn(p) /\ proc'[p].pc = x /\ proc'[p].id = e
<1>1. PICK c \in Processes : c = proc[p]
  BY DEF LedgerType
<1> DEFINE d == [c EXCEPT !.pc = x, !.id = e]
<1>2. d \in Processes
  BY DEF Processes
<1>3. d.pc = x /\ d.id = e /\ d.s = c.s
  BY DEF Processes
<1>4. d.deleting <=> c.deleting
  BY DEF Processes
<1>5. proc' = [proc EXCEPT ![p] = d]
  BY <1>1
<1> HIDE DEF d
<1>6. StepOf(p) /\ proc'[p] = d
  BY <1>2, <1>5 DEF LedgerType, StepOf
<1>7. QED
  BY <1>1, <1>3, <1>4, <1>6 DEF GoesOn

\* Back to resolve, for the second time.
LEMMA GoesAgain ==
  ASSUME LedgerType, NEW p \in Procs,
         proc' = [proc EXCEPT ![p].pc = "resolve", ![p].again = TRUE]
  PROVE  GoesOn(p) /\ proc'[p].pc = "resolve" /\ proc'[p].id = proc[p].id
<1>1. PICK c \in Processes : c = proc[p]
  BY DEF LedgerType
<1> DEFINE d == [c EXCEPT !.pc = "resolve", !.again = TRUE]
<1>2. d \in Processes
  BY DEF Processes, Places
<1>3. d.pc = "resolve" /\ d.id = c.id /\ d.s = c.s
  BY DEF Processes
<1>4. d.deleting <=> c.deleting
  BY DEF Processes
<1>5. proc' = [proc EXCEPT ![p] = d]
  BY <1>1
<1> HIDE DEF d
<1>6. StepOf(p) /\ proc'[p] = d
  BY <1>2, <1>5 DEF LedgerType, StepOf
<1>7. QED
  BY <1>1, <1>3, <1>4, <1>6 DEF GoesOn

\* On to the first of some changes.
LEMMA Takes ==
  ASSUME LedgerType, NEW p \in Procs, NEW chs \in Seq(Changes), NEW d \in BOOLEAN,
         proc' = [proc EXCEPT ![p] = Take(chs, d)]
  PROVE  StepOf(p) /\ proc'[p].pc \in {"idle", "look"} /\ (proc'[p].pc = "look" => proc'[p].s \in Subjects)
<1> DEFINE c == Take(chs, d)
<1>1. c \in Processes /\ c.pc \in {"idle", "look"} /\ (c.pc = "look" => c.s \in Subjects)
  BY TakesTheFirst
<1> HIDE DEF c
<1>2. StepOf(p) /\ proc'[p] = c
  BY <1>1 DEF LedgerType, StepOf, c
<1>3. QED
  BY <1>1, <1>2

\* Done.
LEMMA Idles ==
  ASSUME LedgerType, NEW p \in Procs, proc' = [proc EXCEPT ![p] = Idle]
  PROVE  StepOf(p) /\ proc'[p].pc = "idle"
<1>1. StepOf(p) /\ proc'[p] = Idle
  BY IdleIsPlain DEF LedgerType, StepOf
<1>2. QED
  BY <1>1, IdleIsPlain
-----------------------------------------------------------------------------
\* Nobody but p is at work.
Alone(p) == \A q \in Procs : q # p => proc[q].pc = "idle"

\* Whoever is at work is alone.
LEMMA OnlyOneIsBusy ==
  ASSUME OneAtATime, NEW p \in Procs, proc[p].pc # "idle"
  PROVE  Alone(p)
BY DEF OneAtATime, Alone

\* Who may start finds everybody idle, where calls do not overlap.
LEMMA StartsAlone ==
  ASSUME ~Overlapping, NEW p \in Procs, MayStart(p)
  PROVE  Alone(p) /\ proc[p].pc = "idle"
BY DEF MayStart, Alone

\* A step that only moves its process: what the others and the plan say stands.
LEMMA OnlyTheProcess ==
  ASSUME LedgerInv, NEW p \in Procs, Alone(p), StepOf(p),
         watched' \subseteq Companies, cache' \in [Companies -> Ids],
         UNCHANGED <<ledger, on, registry, plan>>,
         proc[p].pc # "answered", GoesByTheRow(p)',
         p \in Jobs => proc'[p].pc \notin {"read", "next"},
         p = Sync => /\ proc[p].pc \notin Resting
                     /\ GoesOn(p) /\ proc'[p].pc \notin Resting \union {"look", "drop"}
  PROVE  LedgerInv'
<1> USE DEF LedgerInv
<1>1. LedgerType'
  BY DEF LedgerType, Live, StepOf
<1>2. OneAtATime'
  BY DEF OneAtATime, Alone, StepOf
<1>3. SyncKeepsToItsPart'
  BY KindsAssumption DEF SyncKeepsToItsPart, StepOf, Procs, GoesOn, Resting
<1>4. NothingIsForgotten'
  BY DEF NothingIsForgotten, Remembers, Confirmed, StepOf
<1>5. \A q \in Procs : GoesByTheRow(q)'
  <2> SUFFICES ASSUME NEW q \in Procs, q # p PROVE GoesByTheRow(q)'
    OBVIOUS
  <2>1. proc'[q] = proc[q] /\ proc[q].pc = "idle"
    BY DEF StepOf, Alone
  <2>2. QED
    BY <2>1 DEF GoesByTheRow, Resting
<1>6. \A s : Open(s)' <=> Open(s)
  <2>1. CASE p = Sync
    BY <2>1 DEF Open, GoesOn
  <2>2. CASE p # Sync
    BY <2>2 DEF Open, StepOf, Procs
  <2>3. QED
    BY <2>1, <2>2
<1>7. PlanIsOfTheLedger'
  <2>1. proc'[Sync].pc \notin Resting => proc[Sync].pc \notin Resting /\ proc'[Sync].s = proc[Sync].s
    BY DEF StepOf, Procs, GoesOn
  <2>2. QED
    BY <1>6, <2>1 DEF PlanIsOfTheLedger, RowId
<1>8. RetiredIsKeptElsewhere'
  BY <1>6 DEF RetiredIsKeptElsewhere, Remembers
<1>9. QED
  BY <1>1, <1>2, <1>3, <1>4, <1>5, <1>7, <1>8

\* None stands for no entity, and nothing that is on is gone.
LEMMA WhatIsOnIsThere ==
  ASSUME LedgerType, NEW e \in on
  PROVE  e \in Live /\ e \in Entities /\ e # None /\ e \notin Ineligible
BY NullAssumption DEF LedgerType, Live, Ids

\* The rows of one who works: its subject's row is there, or it is NoRow.
LEMMA RowOf ==
  ASSUME LedgerType, NEW s \in Subjects
  PROVE  /\ ledger[s] = NoRow \/ ledger[s] \in Rows
         /\ ledger[s] # NoRow => ledger[s].id \in Ids
         /\ RowId(s) \in Ids
         /\ \A e \in Entities : Remembers(s, e) => RowId(s) = e
BY DEF LedgerType, Rows, RowId, Ids, Remembers

-----------------------------------------------------------------------------
\* A handler sends its changes off, or a reader finds a wanted dossier switched off.
LEMMA JobsStep ==
  ASSUME ~Overlapping, LedgerInv, NEW p \in Jobs,
         \/ \E c \in Companies : Add(p, c) \/ Delete(p, c)
         \/ \E s \in Subjects : Heal(p, s)
  PROVE  LedgerInv'
<1> USE DEF LedgerInv
<1> p \in Procs /\ p # Sync
  BY KindsAssumption DEF Procs
<1>1. PICK chs \in Seq(Changes), d \in BOOLEAN : proc' = [proc EXCEPT ![p] = Take(chs, d)]
  <2>1. CASE \E c \in Companies : Add(p, c)
    BY <2>1, ChangesAreListed DEF Add
  <2>2. CASE \E c \in Companies : Delete(p, c)
    BY <2>2, ChangesAreListed DEF Delete
  <2>3. CASE \E s \in Subjects : Heal(p, s)
    <3>1. PICK s \in Subjects : Heal(p, s)
      BY <2>3
    <3> DEFINE x == Change(s, TRUE)
    <3>2. x \in Changes /\ proc' = [proc EXCEPT ![p] = Take(<<x>>, FALSE)]
      BY <3>1 DEF Heal, Change, Changes
    <3> HIDE DEF x
    <3>3. <<x>> \in Seq(Changes)
      BY <3>2
    <3>4. QED
      BY <3>2, <3>3
  <2>4. QED
    BY <2>1, <2>2, <2>3
<1>2. Alone(p) /\ proc[p].pc = "idle"
  BY StartsAlone DEF Add, Delete, Heal
<1>3. UNCHANGED <<ledger, on, registry, plan>>
  BY DEF Add, Delete, Heal
<1>4. watched' \subseteq Companies /\ cache' \in [Companies -> Ids]
  <2>1. CASE \E c \in Companies : Add(p, c) \/ Delete(p, c)
    BY <2>1 DEF Add, Delete, LedgerType
  <2>2. CASE \E s \in Subjects : Heal(p, s)
    <3>1. PICK s \in Subjects : Heal(p, s)
      BY <2>2
    <3>2. Resolved(s, FALSE) \in Ids
      BY <3>1 DEF Resolved, LedgerType
    <3>3. QED
      BY <3>1, <3>2 DEF Heal, LedgerType, Cached
  <2>3. QED
    BY <2>1, <2>2
<1>5. StepOf(p) /\ proc'[p].pc \in {"idle", "look"} /\ (proc'[p].pc = "look" => proc'[p].s \in Subjects)
  BY <1>1, Takes
<1>6. GoesByTheRow(p)'
  BY <1>5 DEF GoesByTheRow, Resting
<1>7. QED
  BY <1>2, <1>3, <1>4, <1>5, <1>6, OnlyTheProcess

\* The steps that neither write the ledger nor throw a switch.
LEMMA QuietStep ==
  ASSUME LedgerInv, NEW p \in Procs,
         \/ Look(p) \/ Drop(p) \/ PushUnknown(p) \/ PushKnown(p) \/ Resolve(p)
         \/ PutIneligible(p) \/ PutGone(p) \/ PutRefused(p)
  PROVE  LedgerInv'
<1> USE DEF LedgerInv
<1>1. proc[p].pc \notin Resting \union {"answered"} /\ proc[p].s \in Subjects
  BY DEF GoesByTheRow, Resting, Look, Drop, PushUnknown, PushKnown, Resolve,
         PutIneligible, PutGone, PutRefused
<1>2. Alone(p)
  BY <1>1, OnlyOneIsBusy DEF Resting
<1>3. UNCHANGED <<ledger, on, registry, plan>>
  BY DEF Look, Drop, PushUnknown, PushKnown, Resolve, PutIneligible, PutGone, PutRefused
<1>4. p = Sync \/ p \in Jobs
  BY DEF Procs
<1>5. proc[p].id \in Ids /\ proc[p].out \in Rows
  BY DEF LedgerType, Processes
<1>6. \A en \in BOOLEAN : Gone(en) \in Rows
  BY DEF Gone, Outcome, Rows
<1>7. \A id \in Ids, b \in BOOLEAN, x \in {"unknown", "off"} : Outcome(id, x, b) \in Rows
  BY DEF Outcome, Rows, Ids
<1>8. proc[p].en \in BOOLEAN /\ proc[p].again \in BOOLEAN
  BY DEF LedgerType, Processes
<1>9. ASSUME p = Sync PROVE proc[p].pc # "look" /\ proc[p].pc # "drop"
  BY <1>9 DEF SyncKeepsToItsPart
<1>10. CASE Look(p)
  <2> DEFINE s == proc[p].s
             known == IF RowId(s) = None /\ s \in Companies THEN cache[s] ELSE RowId(s)
  <2>1. known \in Ids
    BY <1>1, RowOf DEF LedgerType
  <2>2. proc' = [proc EXCEPT ![p].pc = "intent", ![p].id = known]
    BY <1>10 DEF Look, RowId
  <2>3. \A e \in on : Remembers(s, e) => known = e
    BY <1>1, RowOf, WhatIsOnIsThere
  <2> HIDE DEF known
  <2>4. GoesOn(p) /\ proc'[p].pc = "intent" /\ proc'[p].id = known
    BY <2>1, <2>2, GoesByAnId DEF Places
  <2>5. GoesByTheRow(p)'
    BY <1>1, <1>3, <2>3, <2>4 DEF GoesByTheRow, GoesOn, Resting, Remembers
  <2>6. watched' \subseteq Companies /\ cache' \in [Companies -> Ids]
    BY <1>10 DEF Look, LedgerType
  <2>7. QED
    BY <1>1, <1>2, <1>3, <1>4, <1>9, <1>10, <2>4, <2>5, <2>6, OnlyTheProcess DEF GoesOn, Look, Resting
<1>11. CASE Drop(p)
  <2> DEFINE c == proc[p].s
  <2>1. watched' \subseteq Companies /\ cache' \in [Companies -> Ids]
    BY <1>11 DEF Drop, LedgerType, Ids
  <2>2. StepOf(p) /\ proc'[p].pc \in {"idle", "look"} /\ (proc'[p].pc = "look" => proc'[p].s \in Subjects)
    <3>1. CASE c \in watched
      <4>1. Left(c) \in Seq(Changes) /\ proc' = [proc EXCEPT ![p] = Take(Left(c), FALSE)]
        BY <1>11, <3>1, ChangesAreListed DEF Drop, LedgerType
      <4>2. QED
        BY <4>1, Takes
    <3>2. CASE c \notin watched
      BY <1>11, <3>2, Idles DEF Drop
    <3>3. QED
      BY <3>1, <3>2
  <2>3. GoesByTheRow(p)'
    BY <2>2 DEF GoesByTheRow, Resting
  <2>4. p \in Jobs
    BY <1>4, <1>9, <1>11 DEF Drop
  <2>5. QED
    BY <1>1, <1>2, <1>3, <2>1, <2>2, <2>3, <2>4, KindsAssumption, OnlyTheProcess
<1>12. CASE PushUnknown(p)
  <2>1. watched' \subseteq Companies /\ cache' \in [Companies -> Ids]
    BY <1>12 DEF PushUnknown, LedgerType
  <2>2. \A e \in on : ~Remembers(proc[p].s, e)
    BY <1>12, WhatIsOnIsThere DEF PushUnknown, GoesByTheRow
  <2>3. CASE proc[p].en
    <3>1. GoesOn(p) /\ proc'[p].pc = "resolve" /\ proc'[p].id = proc[p].id
      BY <1>12, <2>3, Goes DEF PushUnknown, Places
    <3>2. GoesByTheRow(p)'
      BY <1>1, <1>3, <1>12, <2>2, <3>1 DEF GoesByTheRow, GoesOn, Resting, Remembers, PushUnknown, Live
    <3>3. QED
      BY <1>1, <1>2, <1>3, <1>4, <2>1, <3>1, <3>2, OnlyTheProcess DEF GoesOn, Resting
  <2>4. CASE ~proc[p].en
    <3>1. GoesOn(p) /\ proc'[p].pc = "answered"
      BY <1>7, <1>12, <2>4, Answers DEF PushUnknown, Ids
    <3>2. GoesByTheRow(p)'
      BY <1>1, <1>3, <2>2, <3>1 DEF GoesByTheRow, GoesOn, Resting, Remembers
    <3>3. QED
      BY <1>1, <1>2, <1>3, <1>4, <2>1, <3>1, <3>2, OnlyTheProcess DEF GoesOn, Resting
  <2>5. QED
    BY <2>3, <2>4
<1>13. CASE PushKnown(p)
  <2>1. watched' \subseteq Companies /\ cache' \in [Companies -> Ids]
    BY <1>13 DEF PushKnown, LedgerType
  <2>2. GoesOn(p) /\ proc'[p].pc = "put" /\ proc'[p].id = proc[p].id
    BY <1>13, Goes DEF PushKnown, Places
  <2>3. GoesByTheRow(p)'
    BY <1>1, <1>3, <1>13, <2>2 DEF GoesByTheRow, GoesOn, Resting, Remembers, PushKnown
  <2>4. QED
    BY <1>1, <1>2, <1>3, <1>4, <2>1, <2>2, <2>3, OnlyTheProcess DEF GoesOn, Resting
<1>14. CASE Resolve(p)
  <2> DEFINE s == proc[p].s
             e == Resolved(s, proc[p].again)
  <2>1. e \in Ids
    BY <1>1, <1>8 DEF Resolved, LedgerType
  <2>2. \A f \in on : ~Remembers(s, f)
    BY <1>14, WhatIsOnIsThere DEF Resolve, GoesByTheRow
  <2>3. /\ watched' \subseteq Companies /\ proc[p].pc = "resolve"
        /\ e = None => Answered(p, Gone(proc[p].en)) /\ UNCHANGED cache
        /\ e # None => /\ proc' = [proc EXCEPT ![p].pc = "put", ![p].id = e]
                       /\ cache' = Cached(s, e)
    BY <1>14 DEF Resolve, LedgerType
  <2> HIDE DEF e
  <2>4. cache' \in [Companies -> Ids]
    BY <2>1, <2>3 DEF LedgerType, Cached
  <2>5. GoesOn(p) /\ proc'[p].pc \in {"put", "answered"}
    BY <1>6, <1>8, <2>1, <2>3, Answers, GoesByAnId DEF Places
  <2>6. GoesByTheRow(p)'
    BY <1>1, <1>3, <2>2, <2>5 DEF GoesByTheRow, GoesOn, Resting, Remembers
  <2>7. QED
    BY <1>1, <1>2, <1>3, <1>4, <2>3, <2>4, <2>5, <2>6, OnlyTheProcess DEF GoesOn, Resting
<1>15. CASE PutIneligible(p)
  <2>1. watched' \subseteq Companies /\ cache' \in [Companies -> Ids]
    BY <1>15 DEF PutIneligible, LedgerType
  <2>2. GoesOn(p) /\ proc'[p].pc = "answered"
    BY <1>5, <1>7, <1>15, Answers DEF PutIneligible
  <2>3. \A e \in on : ~Remembers(proc[p].s, e)
    BY <1>15, WhatIsOnIsThere DEF PutIneligible, GoesByTheRow
  <2>4. GoesByTheRow(p)'
    BY <1>1, <1>3, <2>2, <2>3 DEF GoesByTheRow, GoesOn, Resting, Remembers
  <2>5. QED
    BY <1>1, <1>2, <1>3, <1>4, <2>1, <2>2, <2>4, OnlyTheProcess DEF GoesOn, Resting
<1>16. CASE PutGone(p)
  <2>1. watched' \subseteq Companies /\ cache' \in [Companies -> Ids]
    BY <1>16 DEF PutGone, LedgerType, Cached, Ids
  <2>2. \A e \in on : ~Remembers(proc[p].s, e)
    BY <1>16, WhatIsOnIsThere DEF PutGone, GoesByTheRow
  <2>3. GoesOn(p) /\ proc'[p].pc \in {"resolve", "answered"} /\ proc'[p].id = proc[p].id
    BY <1>6, <1>8, <1>16, Answers, GoesAgain DEF PutGone
  <2>4. GoesByTheRow(p)'
    BY <1>1, <1>3, <1>16, <2>2, <2>3 DEF GoesByTheRow, GoesOn, Resting, Remembers, PutGone, Live
  <2>5. QED
    BY <1>1, <1>2, <1>3, <1>4, <2>1, <2>3, <2>4, OnlyTheProcess DEF GoesOn, Resting
<1>17. CASE PutRefused(p)
  <2>1. watched' \subseteq Companies /\ cache' \in [Companies -> Ids]
    BY <1>17 DEF PutRefused, LedgerType
  <2>2. GoesOn(p) /\ proc'[p].pc = "answered" /\ proc'[p].out = Outcome(proc[p].id, "unknown", FALSE)
    BY <1>5, <1>7, <1>17, Answers DEF PutRefused
  <2>3. GoesByTheRow(p)'
    BY <1>1, <1>3, <1>17, <2>2 DEF GoesByTheRow, GoesOn, Resting, Remembers, PutRefused, Outcome
  <2>4. QED
    BY <1>1, <1>2, <1>3, <1>4, <2>1, <2>2, <2>3, OnlyTheProcess DEF GoesOn, Resting
<1>18. QED
  BY <1>10, <1>11, <1>12, <1>13, <1>14, <1>15, <1>16, <1>17
-----------------------------------------------------------------------------
\* p works alone: whatever else changes, the others idle on.
LEMMA WorksAlone ==
  ASSUME LedgerInv, NEW p \in Procs, Alone(p), StepOf(p), GoesByTheRow(p)', UNCHANGED plan,
         p \in Jobs => proc'[p].pc \notin {"read", "next"},
         p = Sync => /\ proc[p].pc \notin Resting
                     /\ GoesOn(p) /\ proc'[p].pc \notin Resting \union {"look", "drop"}
  PROVE  /\ OneAtATime' /\ SyncKeepsToItsPart' /\ \A q \in Procs : GoesByTheRow(q)'
         /\ \A s : Open(s)' <=> Open(s)
         /\ proc'[Sync].pc \notin Resting => proc[Sync].pc \notin Resting /\ proc'[Sync].s = proc[Sync].s
<1> USE DEF LedgerInv
<1>1. OneAtATime'
  BY DEF OneAtATime, Alone, StepOf
<1>2. SyncKeepsToItsPart'
  BY KindsAssumption DEF SyncKeepsToItsPart, StepOf, Procs, GoesOn, Resting
<1>3. \A q \in Procs : GoesByTheRow(q)'
  <2> SUFFICES ASSUME NEW q \in Procs, q # p PROVE GoesByTheRow(q)'
    OBVIOUS
  <2>1. proc'[q] = proc[q] /\ proc[q].pc = "idle"
    BY DEF StepOf, Alone
  <2>2. QED
    BY <2>1 DEF GoesByTheRow, Resting
<1>4. \A s : Open(s)' <=> Open(s)
  <2>1. CASE p = Sync
    BY <2>1 DEF Open, GoesOn
  <2>2. CASE p # Sync
    BY <2>2 DEF Open, StepOf, Procs
  <2>3. QED
    BY <2>1, <2>2
<1>5. proc'[Sync].pc \notin Resting => proc[Sync].pc \notin Resting /\ proc'[Sync].s = proc[Sync].s
  BY DEF StepOf, Procs, GoesOn
<1>6. QED
  BY <1>1, <1>2, <1>3, <1>4, <1>5

\* The switch is thrown: what is on now, the row or the answer says.
LEMMA SwitchStep ==
  ASSUME LedgerInv, NEW p \in Procs, PutDone(p)
  PROVE  LedgerInv'
<1> USE DEF LedgerInv
<1> DEFINE id == proc[p].id
           s  == proc[p].s
<1>1. /\ proc[p].pc = "put" /\ s \in Subjects /\ id \in Ids
      /\ proc[p].en \in BOOLEAN
      /\ \A e \in on : Remembers(s, e) => id = e
  BY DEF PutDone, GoesByTheRow, Resting, LedgerType, Processes
<1>2. Alone(p) /\ (p = Sync \/ p \in Jobs)
  BY <1>1, OnlyOneIsBusy DEF Procs
<1>3. id \in Live \ Ineligible /\ id \in Entities
  BY <1>1, NullAssumption DEF PutDone, Live, Ids
<1> DEFINE out == Outcome(id, Switch(proc[p].en), FALSE)
<1>4. out \in Rows /\ out.id = id /\ out.applied = Switch(proc[p].en)
  BY <1>1 DEF Outcome, Switch, Rows, Ids
<1>5. Answered(p, out) /\ on' = SwitchOn(p) /\ UNCHANGED <<watched, cache, ledger, registry, plan>>
  BY DEF PutDone
<1> HIDE DEF out
<1>6. GoesOn(p) /\ proc'[p].pc = "answered" /\ proc'[p].id = id /\ proc'[p].out = out
  BY <1>4, <1>5, Answers
<1>7. LedgerType'
  BY <1>3, <1>5, <1>6 DEF LedgerType, SwitchOn, Live, GoesOn, StepOf
<1>8. \A e \in on' : e \in on \/ (proc[p].en /\ e = id)
  BY <1>5 DEF SwitchOn
<1>9. ~proc[p].en => on' = on \ {id}
  BY <1>5 DEF SwitchOn
<1>10. GoesByTheRow(p)'
  <2> SUFFICES ASSUME NEW e \in on', Remembers(s, e)
               PROVE  out.id = e /\ out.applied \in {"unknown", "on"}
    BY <1>1, <1>5, <1>6 DEF GoesByTheRow, GoesOn, Resting, Remembers
  <2>1. id = e
    BY <1>1, <1>8
  <2>2. proc[p].en
    BY <1>9, <2>1
  <2>3. QED
    BY <1>4, <2>1, <2>2 DEF Switch
<1>11. NothingIsForgotten'
  <2> SUFFICES ASSUME NEW e \in on'
               PROVE  (\E t \in Subjects : Remembers(t, e)') \/ Confirmed(p, e)'
    BY DEF NothingIsForgotten
  <2>1. CASE proc[p].en /\ e = id
    BY <2>1, <1>4, <1>6 DEF Confirmed, Switch
  <2>2. CASE e \in on
    <3>1. \A q \in Procs : ~Confirmed(q, e)
      BY <1>1, <1>2 DEF Confirmed, Alone
    <3>2. PICK t \in Subjects : Remembers(t, e)
      BY <2>2, <3>1 DEF NothingIsForgotten
    <3>3. QED
      BY <1>5, <3>2 DEF Remembers
  <2>3. QED
    BY <1>8, <2>1, <2>2
<1>12. /\ OneAtATime' /\ SyncKeepsToItsPart' /\ \A q \in Procs : GoesByTheRow(q)'
       /\ \A t : Open(t)' <=> Open(t)
       /\ proc'[Sync].pc \notin Resting => proc[Sync].pc \notin Resting /\ proc'[Sync].s = proc[Sync].s
  BY <1>1, <1>2, <1>5, <1>6, <1>10, WorksAlone DEF GoesOn, Resting
<1>13. PlanIsOfTheLedger' /\ RetiredIsKeptElsewhere'
  BY <1>5, <1>12 DEF PlanIsOfTheLedger, RetiredIsKeptElsewhere, RowId, Remembers
<1>14. QED
  BY <1>7, <1>11, <1>12, <1>13

-----------------------------------------------------------------------------
\* A row is written of a subject the sync is not to come back to.
LEMMA RowIsWritten ==
  ASSUME LedgerInv, NEW s \in Subjects, NEW r, ledger' = [ledger EXCEPT ![s] = r],
         UNCHANGED plan, \A t : Open(t)' <=> Open(t),
         proc'[Sync].pc \notin Resting => proc[Sync].pc \notin Resting /\ proc'[Sync].s = proc[Sync].s,
         plan = NoPlan \/ (proc[Sync].pc \notin Resting /\ proc[Sync].s = s)
  PROVE  PlanIsOfTheLedger' /\ RetiredIsKeptElsewhere'
<1> USE DEF LedgerInv
<1>1. \A t \in Subjects \ {s} : ledger'[t] = ledger[t]
  BY DEF LedgerType
<1>2. CASE plan = NoPlan
  BY <1>2 DEF NoPlan, PlanIsOfTheLedger, RetiredIsKeptElsewhere
<1>3. CASE proc[Sync].pc \notin Resting /\ proc[Sync].s = s
  <2>1. Open(s) /\ \A a \in plan.acts : a.s # s /\ a.s \in Subjects
    BY <1>3 DEF Open, PlanIsOfTheLedger, LedgerType, Plans, Acts
  <2>2. plan.retire \subseteq Subjects \ {s}
    BY <2>1 DEF PlanIsOfTheLedger, LedgerType, Plans
  <2>3. PlanIsOfTheLedger'
    BY <1>1, <2>1 DEF PlanIsOfTheLedger, RowId
  <2>4. RetiredIsKeptElsewhere'
    <3>1. ASSUME NEW t \in plan.retire, NEW e \in Entities, Remembers(t, e)'
          PROVE  e \in plan.enabled
      BY <1>1, <2>2, <3>1 DEF RetiredIsKeptElsewhere, Remembers
    <3>2. ASSUME NEW e \in plan.enabled
          PROVE  \E t \in Subjects \ plan.retire : Remembers(t, e)' /\ ~Open(t)'
      <4>1. PICK t \in Subjects \ plan.retire : Remembers(t, e) /\ ~Open(t)
        BY DEF RetiredIsKeptElsewhere
      <4>2. t # s
        BY <2>1, <4>1
      <4>3. QED
        BY <1>1, <4>1, <4>2 DEF Remembers
    <3>3. QED
      BY <3>1, <3>2 DEF RetiredIsKeptElsewhere
  <2>5. QED
    BY <2>3, <2>4
<1>4. QED
  BY <1>2, <1>3

\* What the upsert of the intent writes: a known id, and nothing of what was confirmed.
LEMMA IntentRow ==
  ASSUME LedgerType, NEW s \in Subjects, NEW id \in Ids
  PROVE  \E r \in Rows :
           /\ WithIntent(s, id) = [ledger EXCEPT ![s] = r]
           /\ ledger[s] = NoRow => r.id = id /\ r.applied = "unknown"
           /\ ledger[s] # NoRow => /\ r.applied = ledger[s].applied
                                   /\ r.id = IF id = None THEN ledger[s].id ELSE id
<1>1. CASE ledger[s] = NoRow
  <2> DEFINE r == Outcome(id, "unknown", FALSE)
  <2>1. r \in Rows /\ r.id = id /\ r.applied = "unknown"
    BY DEF Outcome, Rows, Ids
  <2>2. QED
    BY <1>1, <2>1 DEF WithIntent
<1>2. CASE ledger[s] # NoRow
  <2>1. PICK c \in Rows : c = ledger[s]
    BY <1>2 DEF LedgerType
  <2> DEFINE x == IF id = None THEN c.id ELSE id
             r == [c EXCEPT !.id = x]
  <2>2. x \in Ids
    BY DEF Rows, Ids
  <2>3. r \in Rows /\ r.id = x /\ r.applied = c.applied
    BY <2>2 DEF Rows, Ids
  <2>4. WithIntent(s, id) = [ledger EXCEPT ![s] = r]
    BY <1>2, <2>1 DEF WithIntent
  <2>5. QED
    BY <1>2, <2>1, <2>3, <2>4
<1>3. QED
  BY <1>1, <1>2

\* What the upsert of the outcome writes: the id, and applied where it was confirmed.
LEMMA OutcomeRow ==
  ASSUME LedgerType, NEW s \in Subjects, NEW out \in Rows
  PROVE  \E r \in Rows :
           /\ WithOutcome(s, out) = [ledger EXCEPT ![s] = r]
           /\ r.id = out.id
           /\ out.applied # "unknown" => r.applied = out.applied
           /\ out.applied = "unknown" /\ ledger[s] # NoRow => r.applied = ledger[s].applied
<1> DEFINE k == IF ledger[s] = NoRow THEN "unknown" ELSE ledger[s].applied
           x == IF out.applied = "unknown" THEN k ELSE out.applied
           r == [out EXCEPT !.applied = x]
<1>1. x \in {"unknown", "on", "off"}
  BY DEF LedgerType, Rows
<1>2. r \in Rows /\ r.id = out.id /\ r.applied = x
  BY <1>1 DEF Rows
<1>3. WithOutcome(s, out) = [ledger EXCEPT ![s] = r]
  BY DEF WithOutcome
<1>4. QED
  BY <1>2, <1>3

\* recordDossierIntent: the row keeps what it remembers of what is on.
LEMMA IntentStep ==
  ASSUME LedgerInv, NEW p \in Procs, Intent(p)
  PROVE  LedgerInv'
<1> USE DEF LedgerInv
<1> PICK id, s : id = proc[p].id /\ s = proc[p].s
  OBVIOUS
<1>1. /\ proc[p].pc = "intent" /\ s \in Subjects /\ id \in Ids
      /\ \A e \in on : Remembers(s, e) => id = e
  BY DEF Intent, GoesByTheRow, Resting, LedgerType, Processes
<1>2. Alone(p) /\ (p = Sync \/ p \in Jobs)
  BY <1>1, OnlyOneIsBusy DEF Procs
<1>3. PICK r \in Rows :
        /\ WithIntent(s, id) = [ledger EXCEPT ![s] = r]
        /\ ledger[s] = NoRow => r.id = id /\ r.applied = "unknown"
        /\ ledger[s] # NoRow => /\ r.applied = ledger[s].applied
                                /\ r.id = IF id = None THEN ledger[s].id ELSE id
  BY <1>1, IntentRow
<1>4. /\ ledger' = [ledger EXCEPT ![s] = r]
      /\ UNCHANGED <<watched, cache, on, registry, plan>>
      /\ Go(p, IF proc[p].deleting THEN "drop" ELSE "push")
  BY <1>3 DEF Intent
<1>5. /\ GoesOn(p) /\ proc'[p].pc = (IF proc[p].deleting THEN "drop" ELSE "push")
      /\ proc'[p].id = id /\ proc'[p].out = proc[p].out
  BY <1>4, Goes DEF Places
<1>6. r # NoRow /\ ledger'[s] = r /\ \A t \in Subjects \ {s} : ledger'[t] = ledger[t]
  BY <1>1, <1>4, NullAssumption DEF LedgerType
<1>7. ASSUME NEW e \in on
      PROVE  (Remembers(s, e) => Remembers(s, e)') /\ (Remembers(s, e)' => id = e)
  <2>1. e # None
    BY WhatIsOnIsThere
  <2>2. CASE ledger[s] = NoRow
    BY <1>3, <1>6, <2>2 DEF Remembers
  <2>3. CASE ledger[s] # NoRow
    <3>1. r.applied = ledger[s].applied /\ (id # None => r.id = id) /\ (id = None => r.id = ledger[s].id)
      BY <1>3, <2>3
    <3>2. QED
      BY <1>1, <1>6, <2>1, <2>3, <3>1 DEF Remembers
  <2>4. QED
    BY <2>2, <2>3
<1>8. LedgerType'
  BY <1>3, <1>4, <1>5 DEF LedgerType, Live, GoesOn, StepOf
<1>9. GoesByTheRow(p)'
  BY <1>1, <1>4, <1>5, <1>7 DEF GoesByTheRow, GoesOn, Resting, Remembers
<1>10. NothingIsForgotten'
  <2> SUFFICES ASSUME NEW e \in on PROVE \E t \in Subjects : Remembers(t, e)'
    BY <1>4 DEF NothingIsForgotten
  <2>1. \A q \in Procs : ~Confirmed(q, e)
    BY <1>1, <1>2 DEF Confirmed, Alone
  <2>2. PICK t \in Subjects : Remembers(t, e)
    BY <2>1 DEF NothingIsForgotten
  <2>3. QED
    BY <1>6, <1>7, <2>2 DEF Remembers
<1>11. p = Sync => proc'[p].pc = "push" 
  BY <1>5 DEF SyncKeepsToItsPart
<1>12. /\ OneAtATime' /\ SyncKeepsToItsPart' /\ \A q \in Procs : GoesByTheRow(q)'
       /\ \A t : Open(t)' <=> Open(t)
       /\ proc'[Sync].pc \notin Resting => proc[Sync].pc \notin Resting /\ proc'[Sync].s = proc[Sync].s
  BY <1>1, <1>2, <1>4, <1>5, <1>9, <1>11, WorksAlone DEF GoesOn, Resting
<1>13. plan = NoPlan \/ (proc[Sync].pc \notin Resting /\ proc[Sync].s = s)
  BY <1>1, <1>2 DEF Alone, SyncKeepsToItsPart, Resting, Procs
<1>14. PlanIsOfTheLedger' /\ RetiredIsKeptElsewhere'
  BY <1>1, <1>4, <1>12, <1>13, RowIsWritten
<1>15. QED
  BY <1>8, <1>10, <1>12, <1>14

\* recordDossierOutcome: what is on is in a row now.
LEMMA OutcomeKeeps ==
  ASSUME LedgerInv, NEW p \in Procs, proc[p].pc = "answered", UNCHANGED on,
         NEW s, NEW out, s = proc[p].s, out = proc[p].out, ledger' = WithOutcome(s, out)
  PROVE  /\ ledger' \in [Subjects -> Rows \union {NoRow}]
         /\ \A t \in Subjects \ {s} : ledger'[t] = ledger[t]
         /\ \A e \in on : \E t \in Subjects : Remembers(t, e)'
         /\ \A e : out.applied = "on" /\ out.id = e => Remembers(s, e)'
         /\ \E r \in Rows : ledger' = [ledger EXCEPT ![s] = r]
<1> USE DEF LedgerInv
<1>1. /\ s \in Subjects /\ out \in Rows
      /\ \A e \in on : Remembers(s, e) => out.id = e /\ out.applied \in {"unknown", "on"}
  BY DEF GoesByTheRow, Resting, LedgerType, Processes
<1>2. Alone(p)
  BY OnlyOneIsBusy
<1>3. PICK r \in Rows :
        /\ WithOutcome(s, out) = [ledger EXCEPT ![s] = r]
        /\ r.id = out.id
        /\ out.applied # "unknown" => r.applied = out.applied
        /\ out.applied = "unknown" /\ ledger[s] # NoRow => r.applied = ledger[s].applied
  BY <1>1, OutcomeRow
<1>4. ledger' = [ledger EXCEPT ![s] = r]
  BY <1>3
<1>5. ledger' \in [Subjects -> Rows \union {NoRow}]
  BY <1>1, <1>4 DEF LedgerType
<1>6. r # NoRow /\ ledger'[s] = r /\ \A t \in Subjects \ {s} : ledger'[t] = ledger[t]
  BY <1>1, <1>4, NullAssumption DEF LedgerType
<1>7. \A e : out.applied = "on" /\ out.id = e => Remembers(s, e)'
  BY <1>3, <1>6 DEF Remembers
<1>8. ASSUME NEW e \in on PROVE \E t \in Subjects : Remembers(t, e)'
  <2>1. CASE \E q \in Procs : Confirmed(q, e)
    <3>1. Confirmed(p, e)
      BY <1>2, <2>1 DEF Confirmed, Alone
    <3>2. QED
      BY <1>1, <1>7, <3>1 DEF Confirmed
  <2>2. CASE \E t \in Subjects : Remembers(t, e)
    <3>1. PICK t \in Subjects : Remembers(t, e)
      BY <2>2
    <3>2. CASE t # s
      BY <1>6, <3>1, <3>2 DEF Remembers
    <3>3. CASE t = s
      BY <1>1, <1>3, <1>6, <3>1, <3>3 DEF Remembers
    <3>4. QED
      BY <3>2, <3>3
  <2>3. QED
    BY <2>1, <2>2 DEF NothingIsForgotten
<1>9. QED
  BY <1>4, <1>5, <1>6, <1>7, <1>8

\* A job writes its outcome and goes on with its next change.
LEMMA RecordJobStep ==
  ASSUME LedgerInv, NEW p \in Jobs, RecordJob(p)
  PROVE  LedgerInv'
<1> USE DEF LedgerInv
<1> p \in Procs /\ p # Sync
  BY KindsAssumption DEF Procs
<1> PICK s, out : s = proc[p].s /\ out = proc[p].out
  OBVIOUS
<1>1. proc[p].pc = "answered" /\ proc[p].rest \in Seq(Changes)
  BY DEF RecordJob, LedgerType, Processes, Places
<1>2. /\ ledger' = WithOutcome(s, out)
      /\ proc' = [proc EXCEPT ![p] = Take(proc[p].rest, FALSE)]
      /\ UNCHANGED <<watched, cache, on, registry, plan>>
  BY <1>1 DEF RecordJob
<1>3. StepOf(p) /\ proc'[p].pc \in {"idle", "look"} /\ (proc'[p].pc = "look" => proc'[p].s \in Subjects)
  BY <1>1, <1>2, Takes
<1>4. Alone(p) /\ plan = NoPlan
  BY <1>1, OnlyOneIsBusy DEF Alone, SyncKeepsToItsPart, Procs
<1>5. GoesByTheRow(p)'
  BY <1>3 DEF GoesByTheRow, Resting
<1>6. /\ ledger' \in [Subjects -> Rows \union {NoRow}]
      /\ \A e \in on : \E t \in Subjects : Remembers(t, e)'
      /\ \E r \in Rows : ledger' = [ledger EXCEPT ![s] = r]
  BY <1>1, <1>2, OutcomeKeeps
<1>7. LedgerType'
  <2>1. proc' \in [Procs -> Processes]
    BY <1>3 DEF StepOf
  <2>2. UNCHANGED <<watched, cache, on, registry, plan>>
    BY <1>2
  <2>3. QED
    BY <1>6, <2>1, <2>2 DEF LedgerType, Live
<1>8. /\ OneAtATime' /\ SyncKeepsToItsPart' /\ \A q \in Procs : GoesByTheRow(q)'
      /\ \A t : Open(t)' <=> Open(t)
      /\ proc'[Sync].pc \notin Resting => proc[Sync].pc \notin Resting /\ proc'[Sync].s = proc[Sync].s
  BY <1>1, <1>2, <1>3, <1>4, <1>5, WorksAlone
<1>9. PlanIsOfTheLedger' /\ RetiredIsKeptElsewhere'
  <2>1. s \in Subjects
    BY <1>1 DEF GoesByTheRow, Resting
  <2>2. PICK r \in Rows : ledger' = [ledger EXCEPT ![s] = r]
    BY <1>6
  <2>3. QED
    BY <1>2, <1>4, <1>8, <2>1, <2>2, RowIsWritten
<1>10. QED
  BY <1>2, <1>6, <1>7, <1>8, <1>9 DEF NothingIsForgotten
-----------------------------------------------------------------------------
\* The sync reads what is wanted, then the ledger.
LEMMA SyncStartStep ==
  ASSUME ~Overlapping, LedgerInv, SyncStart
  PROVE  LedgerInv'
<1> USE DEF LedgerInv
<1> Sync \in Procs /\ \A p \in Procs : p # Sync => p \in Jobs
  BY DEF Procs
<1>1. Alone(Sync) /\ proc[Sync].pc = "idle" /\ plan = NoPlan
  BY StartsAlone DEF SyncStart, SyncKeepsToItsPart
<1>2. /\ UNCHANGED <<watched, cache, ledger, on, registry>>
      /\ Go(Sync, "read") /\ plan' = [NoPlan EXCEPT !.want = Wanted]
  BY DEF SyncStart
<1>3. GoesOn(Sync) /\ proc'[Sync].pc = "read"
  BY <1>2, Goes DEF Places
<1>4. Wanted \subseteq Subjects
  BY RegistryAssumption DEF LedgerType, Wanted, Subjects
<1>5. plan' \in Plans /\ plan'.acts = {} /\ plan'.enabled = {} /\ plan'.retire = {}
  BY <1>2, <1>4 DEF NoPlan, Plans, Ids
<1>6. LedgerType'
  BY <1>2, <1>3, <1>5 DEF LedgerType, Live, GoesOn, StepOf
<1>7. OneAtATime' /\ SyncKeepsToItsPart'
  BY <1>1, <1>3, <1>5, KindsAssumption
     DEF OneAtATime, SyncKeepsToItsPart, Alone, GoesOn, StepOf, Procs
<1>8. NothingIsForgotten'
  BY <1>1, <1>2, <1>3 DEF NothingIsForgotten, Remembers, Confirmed, GoesOn, StepOf
<1>9. \A p \in Procs : GoesByTheRow(p)'
  BY <1>1, <1>3 DEF GoesByTheRow, Alone, GoesOn, StepOf, Resting
<1>10. PlanIsOfTheLedger' /\ RetiredIsKeptElsewhere'
  BY <1>5 DEF PlanIsOfTheLedger, RetiredIsKeptElsewhere
<1>11. QED
  BY <1>6, <1>7, <1>8, <1>9, <1>10

\* A step of the sync between two changes: who works, and what is remembered, stays.
LEMMA SyncMoves ==
  ASSUME LedgerInv, proc[Sync].pc \in {"read", "next"}, UNCHANGED <<ledger, on, registry>>,
         StepOf(Sync), proc'[Sync].pc \in {"next", "intent"}, ~proc'[Sync].deleting,
         GoesByTheRow(Sync)'
  PROVE  /\ Alone(Sync) /\ OneAtATime' /\ SyncKeepsToItsPart' /\ NothingIsForgotten'
         /\ \A p \in Procs : GoesByTheRow(p)'
<1> USE DEF LedgerInv
<1> Sync \in Procs /\ \A p \in Procs : p # Sync => p \in Jobs
  BY DEF Procs
<1>1. Alone(Sync)
  BY OnlyOneIsBusy
<1>2. OneAtATime'
  BY <1>1 DEF OneAtATime, Alone, StepOf
<1>3. SyncKeepsToItsPart'
  BY <1>1, KindsAssumption DEF SyncKeepsToItsPart, Alone, StepOf, Procs
<1>4. NothingIsForgotten'
  BY DEF NothingIsForgotten, Remembers, Confirmed, StepOf
<1>5. \A p \in Procs : GoesByTheRow(p)'
  <2> SUFFICES ASSUME NEW p \in Procs, p # Sync PROVE GoesByTheRow(p)'
    OBVIOUS
  <2>1. proc'[p] = proc[p] /\ proc[p].pc = "idle"
    BY <1>1 DEF StepOf, Alone
  <2>2. QED
    BY <2>1 DEF GoesByTheRow, Resting
<1>6. QED
  BY <1>1, <1>2, <1>3, <1>4, <1>5

\* planDossierSync: a subject is to be switched, or its row to go, or neither.
LEMMA SyncPlanStep ==
  ASSUME LedgerInv, SyncPlan
  PROVE  LedgerInv'
<1> USE DEF LedgerInv
<1> Sync \in Procs
  BY DEF Procs
<1> DEFINE have    == {s \in Subjects : ledger[s] # NoRow}
           enable  == {s \in plan.want : ~IsOn(s) /\ ~IsIneligible(s)}
           disable == {s \in have \ plan.want : IsOn(s)}
           acts    == {[s |-> s, en |-> s \in enable, id |-> RowId(s)] : s \in enable \union disable}
           retire  == {s \in have \ plan.want : ~IsOn(s)}
<1>1. /\ proc[Sync].pc = "read" /\ UNCHANGED <<watched, cache, ledger, on, registry>>
      /\ plan' = [plan EXCEPT !.acts = acts, !.retire = retire] /\ Go(Sync, "next")
  BY DEF SyncPlan
<1>2. plan \in Plans /\ plan.enabled = {} /\ ~proc[Sync].deleting
  BY <1>1 DEF LedgerType, SyncKeepsToItsPart
<1>3. enable \subseteq Subjects /\ disable \subseteq Subjects /\ retire \subseteq Subjects
  BY <1>2 DEF Plans
<1>4. \A s \in Subjects : RowId(s) \in Ids
  BY RowOf
<1>5. acts \subseteq Acts
  <2>1. \A s \in Subjects, b \in BOOLEAN, id \in Ids : [s |-> s, en |-> b, id |-> id] \in Acts
    BY DEF Acts
  <2>2. \A s : (s \in enable) \in BOOLEAN
    OBVIOUS
  <2>3. \A s \in enable \union disable : s \in Subjects /\ RowId(s) \in Ids
    BY <1>3, <1>4
  <2> HIDE DEF enable, disable
  <2>4. QED
    BY <2>1, <2>2, <2>3
<1>6. \A a \in acts : RowId(a.s) = a.id /\ a.s \in enable \union disable
  OBVIOUS
<1>7. \A a, b \in acts : a.s = b.s => a = b
  OBVIOUS
<1>8. \A s \in retire : s \notin enable \union disable /\ \A e : ~Remembers(s, e)
  BY DEF IsOn, Remembers
<1> HIDE DEF acts, retire, enable, disable, have
<1>9. /\ plan' \in Plans /\ plan'.acts = acts /\ plan'.retire = retire
      /\ plan'.enabled = plan.enabled
  BY <1>1, <1>2, <1>3, <1>5 DEF Plans
<1>10. GoesOn(Sync) /\ proc'[Sync].pc = "next"
  BY <1>1, Goes DEF Places
<1>11. LedgerType'
  BY <1>1, <1>9, <1>10 DEF LedgerType, Live, GoesOn, StepOf
<1>12. GoesByTheRow(Sync)'
  BY <1>10 DEF GoesByTheRow, Resting
<1>13. OneAtATime' /\ SyncKeepsToItsPart' /\ NothingIsForgotten' /\ \A p \in Procs : GoesByTheRow(p)'
  BY <1>1, <1>2, <1>10, <1>12, SyncMoves DEF GoesOn
<1>14. PlanIsOfTheLedger'
  <2>1. \A a \in acts : RowId(a.s)' = a.id
    BY <1>1, <1>6 DEF RowId
  <2>2. \A s \in retire : ~Open(s)'
    BY <1>6, <1>8, <1>9, <1>10 DEF Open, Resting
  <2>3. QED
    BY <1>7, <1>9, <1>10, <2>1, <2>2 DEF PlanIsOfTheLedger, Resting
<1>15. RetiredIsKeptElsewhere'
  BY <1>1, <1>2, <1>8, <1>9 DEF RetiredIsKeptElsewhere, Remembers
<1>16. QED
  BY <1>11, <1>13, <1>14, <1>15

\* An off that is spared: the entity's memory is in the row that switched it on.
LEMMA SyncSpareStep ==
  ASSUME LedgerInv, SyncSpare
  PROVE  LedgerInv'
<1> USE DEF LedgerInv
<1> Sync \in Procs
  BY DEF Procs
<1>1. PICK a \in plan.acts :
        /\ proc[Sync].pc = "next" /\ a.id \in plan.enabled
        /\ plan' = [plan EXCEPT !.acts = @ \ {a}, !.retire = @ \union {a.s}]
        /\ UNCHANGED <<watched, cache, ledger, on, registry, proc>>
  BY DEF SyncSpare
<1>2. plan \in Plans /\ a.s \in Subjects /\ RowId(a.s) = a.id /\ Open(a.s)
  BY DEF LedgerType, Plans, Acts, PlanIsOfTheLedger, Open
<1>3. /\ plan' \in Plans /\ plan'.acts = plan.acts \ {a} /\ plan'.retire = plan.retire \union {a.s}
      /\ plan'.enabled = plan.enabled
  BY <1>1, <1>2 DEF Plans
<1>4. \A s : Open(s)' => Open(s) /\ s # a.s
  BY <1>1, <1>3 DEF Open, PlanIsOfTheLedger, Resting
<1>5. LedgerType'
  BY <1>1, <1>3 DEF LedgerType, Live
<1>6. OneAtATime' /\ SyncKeepsToItsPart' /\ NothingIsForgotten' /\ \A p \in Procs : GoesByTheRow(p)'
  BY <1>1 DEF OneAtATime, SyncKeepsToItsPart, NothingIsForgotten, GoesByTheRow, Remembers, Confirmed, Live
<1>7. PlanIsOfTheLedger'
  BY <1>1, <1>3, <1>4 DEF PlanIsOfTheLedger, RowId
<1>8. RetiredIsKeptElsewhere'
  <2>1. ASSUME NEW s \in plan'.retire, NEW e \in Entities, Remembers(s, e)
        PROVE  e \in plan.enabled
    <3>1. CASE s = a.s
      BY <1>1, <1>2, <2>1, <3>1, RowOf
    <3>2. CASE s # a.s
      BY <1>3, <2>1, <3>2 DEF RetiredIsKeptElsewhere
    <3>3. QED
      BY <3>1, <3>2
  <2>2. ASSUME NEW e \in plan.enabled
        PROVE  \E s \in Subjects \ plan'.retire : Remembers(s, e) /\ ~Open(s)'
    <3>1. PICK s \in Subjects \ plan.retire : Remembers(s, e) /\ ~Open(s)
      BY DEF RetiredIsKeptElsewhere
    <3>2. QED
      BY <1>2, <1>3, <1>4, <3>1
  <2>3. QED
    BY <1>1, <1>3, <2>1, <2>2 DEF RetiredIsKeptElsewhere, Remembers
<1>9. QED
  BY <1>5, <1>6, <1>7, <1>8

\* The next action, by the id of its row.
LEMMA SyncTakeStep ==
  ASSUME LedgerInv, SyncTake
  PROVE  LedgerInv'
<1> USE DEF LedgerInv
<1> Sync \in Procs
  BY DEF Procs
<1>1. PICK a \in plan.acts :
        /\ proc[Sync].pc = "next"
        /\ plan' = [plan EXCEPT !.acts = @ \ {a}, !.known = a.id]
        /\ proc' = [proc EXCEPT ![Sync] =
                     [Idle EXCEPT !.pc = "intent", !.s = a.s, !.en = a.en, !.id = a.id]]
        /\ UNCHANGED <<watched, cache, ledger, on, registry>>
  BY DEF SyncTake
<1>2. plan \in Plans /\ a \in Acts /\ RowId(a.s) = a.id /\ Open(a.s)
  BY DEF LedgerType, Plans, PlanIsOfTheLedger, Open
<1>3. a.s \in Subjects /\ a.en \in BOOLEAN /\ a.id \in Ids
  BY <1>2 DEF Acts
<1>4. /\ plan' \in Plans /\ plan'.acts = plan.acts \ {a} /\ plan'.retire = plan.retire
      /\ plan'.enabled = plan.enabled
  BY <1>1, <1>2, <1>3 DEF Plans
<1> DEFINE c == [Idle EXCEPT !.pc = "intent", !.s = a.s, !.en = a.en, !.id = a.id]
<1>5. c \in Processes /\ c.pc = "intent" /\ c.s = a.s /\ c.id = a.id
  BY <1>3, IdleIsPlain DEF Processes, Places
<1>6. ~c.deleting
  BY IdleIsPlain DEF Processes
<1> HIDE DEF c
<1>7. StepOf(Sync) /\ proc'[Sync] = c
  BY <1>1, <1>5 DEF LedgerType, StepOf, c
<1>8. LedgerType'
  BY <1>1, <1>4, <1>7 DEF LedgerType, Live, StepOf
<1>9. GoesByTheRow(Sync)'
  <2>1. \A e \in on : Remembers(a.s, e) => a.id = e
    BY <1>2, <1>3, RowOf, WhatIsOnIsThere
  <2>2. QED
    BY <1>1, <1>3, <1>5, <1>7, <2>1 DEF GoesByTheRow, Remembers, Resting
<1>10. OneAtATime' /\ SyncKeepsToItsPart' /\ NothingIsForgotten' /\ \A p \in Procs : GoesByTheRow(p)'
  BY <1>1, <1>5, <1>6, <1>7, <1>9, SyncMoves
<1>11. \A s : Open(s)' => Open(s)
  BY <1>2, <1>4, <1>5, <1>7 DEF Open
<1>12. PlanIsOfTheLedger'
  BY <1>1, <1>4, <1>5, <1>7, <1>11 DEF PlanIsOfTheLedger, RowId
<1>13. RetiredIsKeptElsewhere'
  BY <1>1, <1>4, <1>11 DEF RetiredIsKeptElsewhere, Remembers
<1>14. QED
  BY <1>8, <1>10, <1>12, <1>13

\* A confirmed on is remembered by the row just written.
LEMMA SyncRecordStep ==
  ASSUME LedgerInv, SyncRecord
  PROVE  LedgerInv'
<1> USE DEF LedgerInv
<1> Sync \in Procs
  BY DEF Procs
<1> PICK s, out : s = proc[Sync].s /\ out = proc[Sync].out
  OBVIOUS
<1> DEFINE confirmed == proc[Sync].en /\ out.applied = "on"
           next == IF confirmed THEN plan.enabled \union {out.id} ELSE plan.enabled
<1>1. /\ proc[Sync].pc = "answered" /\ ledger' = WithOutcome(s, out)
      /\ plan' = [plan EXCEPT !.enabled = next]
      /\ Go(Sync, "next") /\ UNCHANGED <<watched, cache, on, registry>>
  BY DEF SyncRecord
<1>2. s \in Subjects /\ out \in Rows /\ out.id \in Ids /\ plan \in Plans /\ Alone(Sync) /\ Open(s)
  BY <1>1, OnlyOneIsBusy DEF GoesByTheRow, Resting, LedgerType, Processes, Rows, Ids, Open
<1>3. next \subseteq Ids /\ plan.enabled \subseteq next
      /\ \A e \in next : e \in plan.enabled \/ (out.applied = "on" /\ out.id = e)
  BY <1>2 DEF Plans
<1> HIDE DEF next
<1>4. /\ plan' \in Plans /\ plan'.acts = plan.acts /\ plan'.retire = plan.retire
      /\ plan'.enabled = next
  BY <1>1, <1>2, <1>3 DEF Plans
<1>5. GoesOn(Sync) /\ proc'[Sync].pc = "next"
  BY <1>1, Goes DEF Places
<1>6. /\ ledger' \in [Subjects -> Rows \union {NoRow}]
      /\ \A t \in Subjects \ {s} : ledger'[t] = ledger[t]
      /\ \A e \in on : \E t \in Subjects : Remembers(t, e)'
      /\ \A e : out.applied = "on" /\ out.id = e => Remembers(s, e)'
  BY <1>1, OutcomeKeeps
<1>7. LedgerType'
  BY <1>1, <1>4, <1>5, <1>6 DEF LedgerType, Live, GoesOn, StepOf
<1>8. OneAtATime' /\ SyncKeepsToItsPart'
  BY <1>2, <1>5, KindsAssumption
     DEF OneAtATime, SyncKeepsToItsPart, Alone, GoesOn, StepOf, Procs
<1>9. \A p \in Procs : GoesByTheRow(p)'
  BY <1>2, <1>5 DEF GoesByTheRow, Alone, GoesOn, StepOf, Resting
<1>10. NothingIsForgotten'
  BY <1>1, <1>6 DEF NothingIsForgotten
<1>11. \A a \in plan.acts : a.s \in Subjects \ {s}
  BY <1>1, <1>2 DEF PlanIsOfTheLedger, Plans, Acts, Resting
<1>12. plan.retire \subseteq Subjects \ {s}
  BY <1>2 DEF PlanIsOfTheLedger, Plans
<1>13. ~Open(s)' /\ \A t : Open(t)' => Open(t)
  BY <1>4, <1>5, <1>11 DEF Open, Resting
<1>14. PlanIsOfTheLedger'
  BY <1>4, <1>5, <1>6, <1>11, <1>13 DEF PlanIsOfTheLedger, RowId, Resting
<1>15. RetiredIsKeptElsewhere'
  <2>1. ASSUME NEW t \in plan.retire, NEW e \in Entities, Remembers(t, e)'
        PROVE  e \in next
    BY <1>3, <1>6, <1>12, <2>1 DEF RetiredIsKeptElsewhere, Remembers
  <2>2. ASSUME NEW e \in next
        PROVE  \E t \in Subjects \ plan.retire : Remembers(t, e)' /\ ~Open(t)'
    <3>1. CASE out.applied = "on" /\ out.id = e
      BY <1>2, <1>6, <1>12, <1>13, <3>1
    <3>2. CASE e \in plan.enabled
      <4>1. PICK t \in Subjects \ plan.retire : Remembers(t, e) /\ ~Open(t)
        BY <3>2 DEF RetiredIsKeptElsewhere
      <4>2. t # s
        BY <1>2, <4>1
      <4>3. QED
        BY <1>6, <1>13, <4>1, <4>2 DEF Remembers
    <3>3. QED
      BY <1>3, <3>1, <3>2
  <2>3. QED
    BY <1>4, <2>1, <2>2 DEF RetiredIsKeptElsewhere
<1>16. QED
  BY <1>7, <1>8, <1>9, <1>10, <1>14, <1>15

\* The rows that go: what they remember is kept elsewhere.
LEMMA SyncRetireStep ==
  ASSUME LedgerInv, SyncRetire
  PROVE  LedgerInv'
<1> USE DEF LedgerInv
<1> Sync \in Procs
  BY DEF Procs
<1>1. /\ proc[Sync].pc = "next" /\ plan' = NoPlan /\ Go(Sync, "idle")
      /\ ledger' = [s \in Subjects |-> IF s \in plan.retire THEN NoRow ELSE ledger[s]]
      /\ UNCHANGED <<watched, cache, on, registry>>
  BY DEF SyncRetire
<1>2. Alone(Sync)
  BY <1>1, OnlyOneIsBusy
<1>3. GoesOn(Sync) /\ proc'[Sync].pc = "idle"
  BY <1>1, Goes DEF Places
<1>4. ledger' \in [Subjects -> Rows \union {NoRow}]
  BY <1>1 DEF LedgerType
<1>5. LedgerType'
  BY <1>1, <1>3, <1>4, IdleIsPlain DEF LedgerType, Live, GoesOn, StepOf
<1>6. OneAtATime' /\ SyncKeepsToItsPart'
  <2>1. OneAtATime'
    BY <1>2, <1>3 DEF OneAtATime, Alone, GoesOn, StepOf
  <2>2. \A p \in Jobs : p # Sync /\ proc'[p] = proc[p]
    BY <1>3, KindsAssumption DEF GoesOn, StepOf, Procs
  <2>3. ~proc'[Sync].deleting
    BY <1>3 DEF SyncKeepsToItsPart, GoesOn
  <2>4. QED
    BY <1>1, <1>3, <2>1, <2>2, <2>3 DEF SyncKeepsToItsPart
<1>7. \A p \in Procs : GoesByTheRow(p)'
  BY <1>2, <1>3 DEF GoesByTheRow, Alone, GoesOn, StepOf, Resting
<1>8. NothingIsForgotten'
  <2> SUFFICES ASSUME NEW e \in on PROVE \E s \in Subjects : Remembers(s, e)'
    BY <1>1 DEF NothingIsForgotten
  <2>1. \A p \in Procs : ~Confirmed(p, e)
    BY <1>1, <1>2 DEF Confirmed, Alone
  <2>2. PICK s \in Subjects : Remembers(s, e)
    BY <2>1 DEF NothingIsForgotten
  <2>3. CASE s \in plan.retire
    <3>1. e \in plan.enabled
      BY <2>2, <2>3, WhatIsOnIsThere DEF RetiredIsKeptElsewhere
    <3>2. PICK t \in Subjects \ plan.retire : Remembers(t, e)
      BY <3>1 DEF RetiredIsKeptElsewhere
    <3>3. QED
      BY <1>1, <3>2 DEF Remembers
  <2>4. CASE s \notin plan.retire
    BY <1>1, <2>2, <2>4 DEF Remembers
  <2>5. QED
    BY <2>3, <2>4
<1>9. PlanIsOfTheLedger' /\ RetiredIsKeptElsewhere'
  BY <1>1 DEF NoPlan, PlanIsOfTheLedger, RetiredIsKeptElsewhere
<1>10. QED
  BY <1>5, <1>6, <1>7, <1>8, <1>9

\* Upstream, one entity becomes another: it takes its switch along.
LEMMA MergeStep ==
  ASSUME LedgerInv, NEW e, NEW into, Merge(e, into)
  PROVE  LedgerInv'
<1> USE DEF LedgerInv
<1>1. /\ e \in Live /\ into \in (Live \ {e}) \union {None}
      /\ registry' = [s \in Subjects |-> IF registry[s] = e THEN into ELSE registry[s]]
      /\ on' = on \ {e} /\ UNCHANGED <<watched, cache, ledger, proc, plan>>
  BY DEF Merge
<1>2. Live \subseteq Ids
  BY DEF LedgerType, Live
<1>3. registry' \in [Subjects -> Ids]
  BY <1>1, <1>2 DEF LedgerType, Ids
<1>4. Live' \subseteq Live
  BY <1>1 DEF Live
<1>5. \A f \in on' : f \in Live'
  <2> SUFFICES ASSUME NEW f \in on, f # e PROVE f \in Live'
    BY <1>1
  <2>1. PICK s \in Subjects : registry[s] = f /\ f # None
    BY DEF LedgerType, Live
  <2>2. QED
    BY <1>1, <2>1 DEF Live
<1>6. LedgerType'
  BY <1>1, <1>3, <1>5 DEF LedgerType
<1>7. OneAtATime' /\ SyncKeepsToItsPart' /\ NothingIsForgotten'
  BY <1>1 DEF OneAtATime, SyncKeepsToItsPart, NothingIsForgotten, Remembers, Confirmed
<1>8. \A p \in Procs : GoesByTheRow(p)'
  BY <1>1, <1>4 DEF GoesByTheRow, Remembers
<1>9. PlanIsOfTheLedger' /\ RetiredIsKeptElsewhere'
  BY <1>1 DEF PlanIsOfTheLedger, RetiredIsKeptElsewhere, RowId, Open, Remembers
<1>10. QED
  BY <1>6, <1>7, <1>8, <1>9

-----------------------------------------------------------------------------
\* Every step keeps the invariant.
LEMMA LedgerStep ==
  ASSUME ~Overlapping, FaultKinds \subseteq {"server"}, LedgerInv, [Next]_vars
  PROVE  LedgerInv'
<1>1. CASE \E p \in Procs : Proceed(p)
  <2>1. PICK p \in Procs : Proceed(p)
    BY <1>1
  <2>2. CASE Intent(p)
    BY <2>2, IntentStep
  <2>3. CASE PutDone(p)
    BY <2>3, SwitchStep
  <2>4. CASE RecordJob(p)
    <3>1. p \in Jobs
      BY <2>4 DEF RecordJob
    <3>2. QED
      BY <2>4, <3>1, RecordJobStep
  <2>5. QED
    BY <2>1, <2>2, <2>3, <2>4, QuietStep DEF Proceed
<1>2. CASE \E p \in Procs : Fail(p)
  <2>1. PICK p \in Procs : Fail(p)
    BY <1>2
  <2>2. PutRefused(p)
    BY <2>1 DEF Fail, PutUnheard, PushThrows, Die, Failed
  <2>3. QED
    BY <2>2, QuietStep
<1>3. CASE \E p \in Jobs, s \in Subjects : Heal(p, s)
  BY <1>3, JobsStep
<1>4. CASE SyncStart
  BY <1>4, SyncStartStep
<1>5. CASE SyncProceed
  <2>1. ~SyncAbort
    BY DEF SyncAbort, LedgerInv, LedgerType, Processes, Places, Procs
  <2>2. QED
    BY <1>5, <2>1, SyncPlanStep, SyncSpareStep, SyncTakeStep, SyncRecordStep, SyncRetireStep
       DEF SyncProceed
<1>6. CASE Upheaval
  <2>1. CASE \E c \in Companies : AddQuietly(c)
    <3>1. /\ watched' \subseteq Companies
          /\ UNCHANGED <<cache, ledger, on, registry, proc, plan>>
      BY <2>1 DEF AddQuietly, LedgerInv, LedgerType
    <3>2. QED
      BY <3>1 DEF LedgerInv, LedgerType, Live, OneAtATime, SyncKeepsToItsPart, NothingIsForgotten,
                  Remembers, Confirmed, GoesByTheRow, PlanIsOfTheLedger, RetiredIsKeptElsewhere,
                  RowId, Open
  <2>2. CASE \E c \in Companies, p \in Jobs : Add(p, c) \/ Delete(p, c)
    BY <2>2, JobsStep
  <2>3. CASE \E e \in Entities, into \in Entities \union {None} : Merge(e, into)
    BY <2>3, MergeStep
  <2>4. QED
    BY <1>6, <2>1, <2>2, <2>3 DEF Upheaval
<1>7. CASE UNCHANGED vars
  BY <1>7 DEF vars, LedgerInv, LedgerType, Live, OneAtATime, SyncKeepsToItsPart, NothingIsForgotten,
              Remembers, Confirmed, GoesByTheRow, PlanIsOfTheLedger, RetiredIsKeptElsewhere,
              RowId, Open
<1>8. QED
  BY <1>1, <1>2, <1>3, <1>4, <1>5, <1>6, <1>7 DEF Next

\* Where calls do not overlap and nothing fails but by a refusal of the server, whatever
\* is on is wanted, or a row knows it, or one is about to be written: for any number of
\* subjects, entities, jobs, changes and merges.
THEOREM WhatIsOnIsRemembered ==
  ASSUME ~Overlapping, FaultKinds \subseteq {"server"}
  PROVE  Spec => []OnIsRemembered
<1>1. Init => LedgerInv
  <2> SUFFICES ASSUME Init PROVE LedgerInv
    OBVIOUS
  <2>1. LedgerType
    BY RegistryAssumption, IdleIsPlain DEF Init, LedgerType, Ids, Procs
  <2>2. \A p \in Procs : proc[p] = Idle
    BY DEF Init
  <2>3. OneAtATime /\ SyncKeepsToItsPart /\ \A p \in Procs : GoesByTheRow(p)
    BY <2>2, IdleIsPlain DEF Init, OneAtATime, SyncKeepsToItsPart, GoesByTheRow, Procs, Resting
  <2>4. NothingIsForgotten /\ PlanIsOfTheLedger /\ RetiredIsKeptElsewhere
    BY DEF Init, NothingIsForgotten, PlanIsOfTheLedger, RetiredIsKeptElsewhere, NoPlan
  <2>5. QED
    BY <2>1, <2>3, <2>4 DEF LedgerInv
<1>2. LedgerInv /\ [Next]_vars => LedgerInv'
  BY LedgerStep
<1>3. LedgerInv => OnIsRemembered
  BY DEF LedgerInv, NothingIsForgotten, OnIsRemembered, Remembers, Confirmed
<1>4. QED
  BY <1>1, <1>2, <1>3, PTL DEF Spec
=============================================================================
