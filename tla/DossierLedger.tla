---------------------------- MODULE DossierLedger ----------------------------
(***************************************************************************)
(* Mirroring the watchlist onto Distill's per-entity dossier switches:     *)
(* src/src/distill-dossiers.ts over the ledger of src/src/db/admin.ts.     *)
(*                                                                         *)
(* Three parties change a switch.  A follow job is what the add and delete *)
(* handlers of src/src/server.ts send off without awaiting it, and what    *)
(* readBlock of src/src/distill-content.ts starts when it finds a watched  *)
(* subject switched off.  The sync at the head of a pipeline run compares  *)
(* a snapshot of the watchlist with a snapshot of the ledger.  Every await *)
(* between a read, a request and a write is a step of its own, so all of   *)
(* them interleave.                                                        *)
(*                                                                         *)
(* Abstracted: the base URL (one deployment), the detail texts and attempt *)
(* counts, the column desired (written, never read by a decision), and the *)
(* states other than 'ineligible', which no decision reads either.         *)
(***************************************************************************)
EXTENDS Naturals, Sequences, FiniteSets, SequencesExt

CONSTANTS
  Companies, Sectors,  \* the two kinds of subject
  Entities,            \* Distill's entities
  Jobs, Sync,          \* follow jobs that may run at once; the full sync
  None,                \* null, for an entity id
  NoRow,               \* the ledger has no such row
  SectorsOf,           \* sectorHandlesForSymbol
  FirstRegistry,       \* the entity Distill knows each subject by, at first
  Ineligible,          \* entities that answer 409
  FaultKinds,          \* which failures the environment may choose
  Overlapping,         \* may jobs and the sync overlap in time?
  MaxChanges,          \* bound: watchlist changes
  MaxFaults,           \* bound: failed requests and deaths
  MaxMerges            \* bound: entities merged away upstream

Subjects == Companies \union Sectors
Procs == Jobs \union {Sync}

ASSUME KindsAssumption == Companies \cap Sectors = {} /\ Sync \notin Jobs
ASSUME RegistryAssumption ==
  /\ FirstRegistry \in [Subjects -> Entities \union {None}]
  /\ SectorsOf \in [Companies -> SUBSET Sectors]
  /\ IsFiniteSet(Sectors)
(* A row of the ledger, as far as a decision reads it. *)
Rows == [id : Entities \union {None}, applied : {"unknown", "on", "off"}, ineligible : BOOLEAN]

ASSUME NullAssumption == None \notin Entities /\ NoRow \notin Rows
ASSUME FaultAssumption == FaultKinds \subseteq {"server", "lost", "key", "die"}

VARIABLES
  watched,    \* companies on the watchlist
  cache,      \* distill_entities: the id resolved for each company
  ledger,     \* distill_dossiers: a row per subject, or NoRow
  on,         \* upstream: the entities whose switch is on
  registry,   \* upstream: the entity behind each subject, None when unknown
  proc,       \* each job and the sync: where it is, and its local variables
  plan,       \* syncWatchlistDossiers' snapshot and what is left of its plan
  changes, faults, merges   \* counters for the bounds

vars == <<watched, cache, ledger, on, registry, proc, plan, changes, faults, merges>>
bounds == <<changes, faults, merges>>

Live == {registry[s] : s \in Subjects} \ {None}

(* desiredSubjects: the watched companies and every sector one of them is in. *)
Wanted == watched \union UNION {SectorsOf[c] : c \in watched}

-----------------------------------------------------------------------------
(* What a pushSwitch returns or throws, as far as the ledger goes: the id,
   what Distill confirmed, whether it answered 409. *)
Outcome(id, applied, ineligible) ==
  [id |-> id, applied |-> applied, ineligible |-> ineligible]

NoOutcome == Outcome(None, "unknown", FALSE)
Switch(en) == IF en THEN "on" ELSE "off"

Idle == [pc |-> "idle", s |-> None, en |-> FALSE, id |-> None, out |-> NoOutcome,
         again |-> FALSE, deleting |-> FALSE, rest |-> <<>>]

NoPlan == [want |-> {}, acts |-> {}, known |-> None, enabled |-> {}, retire |-> {}]

(* Start on the first of the changes, or be done. *)
Take(chs, deleting) ==
  IF chs = <<>> THEN Idle
  ELSE [Idle EXCEPT !.pc = "look", !.s = Head(chs).s, !.en = Head(chs).en,
                    !.rest = Tail(chs), !.deleting = deleting]

Change(s, en) == [s |-> s, en |-> en]

(* dossiersFollowStocks: joining takes the stock's sectors along, leaving
   touches only the stock. *)
Joined(c) == <<Change(c, TRUE)>> \o SetToSeq({Change(s, TRUE) : s \in SectorsOf[c]})
Left(c) == <<Change(c, FALSE)>>

(* The upsert of recordDossierIntent: a known id replaces the row's, a
   missing one leaves it. *)
WithIntent(s, id) ==
  IF ledger[s] = NoRow
  THEN [ledger EXCEPT ![s] = Outcome(id, "unknown", FALSE)]
  ELSE [ledger EXCEPT ![s].id = IF id = None THEN @ ELSE id]

(* Mutated: the outcome overwrites applied, confirmed or not. *)
WithOutcomeUnmerged(s, out) == [ledger EXCEPT ![s] = out]

(* The upsert of recordDossierOutcome: id and state are set, applied only
   moves when Distill confirmed something. *)
WithOutcome(s, out) ==
  LET kept == IF ledger[s] = NoRow THEN "unknown" ELSE ledger[s].applied
  IN  [ledger EXCEPT ![s] =
        [out EXCEPT !.applied = IF out.applied = "unknown" THEN kept ELSE @]]

-----------------------------------------------------------------------------
(* Any watchlist on which the ledger is first deployed. *)
Init ==
  /\ watched \in SUBSET Companies
  /\ cache = [c \in Companies |-> None]
  /\ ledger = [s \in Subjects |-> NoRow]
  /\ on = {}
  /\ registry = FirstRegistry
  /\ proc = [p \in Procs |-> Idle]
  /\ plan = NoPlan
  /\ changes = 0 /\ faults = 0 /\ merges = 0

MayStart(p) ==
  /\ proc[p].pc = "idle"
  /\ Overlapping \/ \A q \in Procs : proc[q].pc = "idle"

Changed == changes < MaxChanges /\ changes' = changes + 1 /\ UNCHANGED <<faults, merges>>

Failed(kind) ==
  /\ kind \in FaultKinds
  /\ faults < MaxFaults
  /\ faults' = faults + 1
  /\ UNCHANGED <<changes, merges>>

Go(p, pc) == proc' = [proc EXCEPT ![p].pc = pc]

(* POST /api/stocks: the row is written, then the switch follows. *)
Add(p, c) ==
  /\ MayStart(p)
  /\ c \notin watched
  /\ Changed
  /\ watched' = watched \union {c}
  /\ proc' = [proc EXCEPT ![p] = Take(Joined(c), FALSE)]
  /\ UNCHANGED <<cache, ledger, on, registry, plan>>

(* The command line and a single analysis add a stock without a follow. *)
AddQuietly(c) ==
  /\ c \notin watched
  /\ Changed
  /\ watched' = watched \union {c}
  /\ UNCHANGED <<cache, ledger, on, registry, proc, plan>>

(* DELETE /api/stocks/:symbol begins with noteDossierIntent. *)
Delete(p, c) ==
  /\ MayStart(p)
  /\ c \in watched
  /\ Changed
  /\ proc' = [proc EXCEPT ![p] = Take(Left(c), TRUE)]
  /\ UNCHANGED <<watched, cache, ledger, on, registry, plan>>

-----------------------------------------------------------------------------
(* knownEntityId: the ledger's id first, then the company's cached one. *)
Look(p) ==
  LET s == proc[p].s
      inRow == IF ledger[s] = NoRow THEN None ELSE ledger[s].id
      known == IF inRow = None /\ s \in Companies THEN cache[s] ELSE inRow
  IN  /\ proc[p].pc = "look"
      /\ proc' = [proc EXCEPT ![p].pc = "intent", ![p].id = known]
      /\ UNCHANGED <<watched, cache, ledger, on, registry, plan, bounds>>

(* recordDossierIntent, before anything is sent. *)
Intent(p) ==
  /\ proc[p].pc = "intent"
  /\ ledger' = WithIntent(proc[p].s, proc[p].id)
  /\ Go(p, IF proc[p].deleting THEN "drop" ELSE "push")
  /\ UNCHANGED <<watched, cache, on, registry, plan, bounds>>

(* deleteSymbol takes the cached id along by cascade; a second delete finds
   nothing, answers 404 and follows nothing. *)
Drop(p) ==
  LET c == proc[p].s
  IN  /\ proc[p].pc = "drop"
      /\ watched' = watched \ {c}
      /\ cache' = [cache EXCEPT ![c] = None]
      /\ proc' = [proc EXCEPT ![p] = IF c \in watched THEN Take(Left(c), FALSE) ELSE Idle]
      /\ UNCHANGED <<ledger, on, registry, plan, bounds>>

Answered(p, out) == proc' = [proc EXCEPT ![p].pc = "answered", ![p].out = out]

(* pushSwitch without an id: off is a no-op, on has to resolve first. *)
PushUnknown(p) ==
  /\ proc[p].pc = "push" /\ proc[p].id = None
  /\ IF proc[p].en THEN Go(p, "resolve") ELSE Answered(p, Outcome(None, "off", FALSE))
  /\ UNCHANGED <<watched, cache, ledger, on, registry, plan, bounds>>

PushKnown(p) ==
  /\ proc[p].pc = "push" /\ proc[p].id # None
  /\ Go(p, "put")
  /\ UNCHANGED <<watched, cache, ledger, on, registry, plan, bounds>>

(* What the subject resolves to: a company's cached id unless forced, else
   what the registry knows, which is then cached. *)
Resolved(s, force) ==
  IF s \in Companies /\ ~force /\ cache[s] # None THEN cache[s] ELSE registry[s]

Cached(s, e) == IF s \in Companies THEN [cache EXCEPT ![s] = e] ELSE cache

(* entityGone: an entity Distill does not have cannot be on. *)
Gone(en) == Outcome(None, IF en THEN "unknown" ELSE "off", FALSE)

(* resolveEntityId, the second time after a 404. *)
Resolve(p) ==
  LET s == proc[p].s
      e == Resolved(s, proc[p].again)
  IN  /\ proc[p].pc = "resolve"
      /\ IF e = None
         THEN Answered(p, Gone(proc[p].en)) /\ UNCHANGED cache
         ELSE /\ proc' = [proc EXCEPT ![p].pc = "put", ![p].id = e]
              /\ cache' = Cached(s, e)
      /\ UNCHANGED <<watched, ledger, on, registry, plan, bounds>>

(* Mutated: believes a ledger row that says on instead of what was read. *)
HealUnlessSettled(p, s) ==
  LET e == Resolved(s, FALSE)
  IN  /\ MayStart(p)
      /\ s \in Wanted
      /\ e \in Live \ on
      /\ ~(ledger[s] # NoRow /\ ledger[s].applied = "on")
      /\ cache' = Cached(s, e)
      /\ proc' = [proc EXCEPT ![p] = Take(<<Change(s, TRUE)>>, FALSE)]
      /\ UNCHANGED <<watched, ledger, on, registry, plan, bounds>>

(* readBlock finds a wanted subject's entity not_enabled and switches it on.
   A 404 is swallowed there, so an entity that moved is left alone. *)
Heal(p, s) ==
  LET e == Resolved(s, FALSE)
  IN  /\ MayStart(p)
      /\ s \in Wanted
      /\ e \in Live \ on
      /\ cache' = Cached(s, e)
      /\ proc' = [proc EXCEPT ![p] = Take(<<Change(s, TRUE)>>, FALSE)]
      /\ UNCHANGED <<watched, ledger, on, registry, plan, bounds>>

SwitchOn(p) == IF proc[p].en THEN on \union {proc[p].id} ELSE on \ {proc[p].id}

(* The PUT succeeds and its answer arrives. *)
PutDone(p) ==
  /\ proc[p].pc = "put"
  /\ proc[p].id \in Live \ Ineligible
  /\ on' = SwitchOn(p)
  /\ Answered(p, Outcome(proc[p].id, Switch(proc[p].en), FALSE))
  /\ UNCHANGED <<watched, cache, ledger, registry, plan, bounds>>

(* 409: the entity's type may not host a dossier. *)
PutIneligible(p) ==
  /\ proc[p].pc = "put"
  /\ proc[p].id \in Live \cap Ineligible
  /\ Answered(p, Outcome(proc[p].id, "unknown", TRUE))
  /\ UNCHANGED <<watched, cache, ledger, on, registry, plan, bounds>>

(* 404: forget the cached id, resolve afresh and repeat, exactly once. *)
PutGone(p) ==
  /\ proc[p].pc = "put"
  /\ proc[p].id \notin Live
  /\ IF proc[p].again
     THEN Answered(p, Gone(proc[p].en)) /\ UNCHANGED cache
     ELSE /\ proc' = [proc EXCEPT ![p].pc = "resolve", ![p].again = TRUE]
          /\ cache' = Cached(proc[p].s, None)
  /\ UNCHANGED <<watched, ledger, on, registry, plan, bounds>>

(* 5xx or no connection, after the transport's own retries. *)
PutRefused(p) ==
  /\ proc[p].pc = "put"
  /\ Failed("server")
  /\ Answered(p, Outcome(proc[p].id, "unknown", FALSE))
  /\ UNCHANGED <<watched, cache, ledger, on, registry, plan>>

(* The PUT takes effect and the answer is lost: for the caller the same. *)
PutUnheard(p) ==
  /\ proc[p].pc = "put" /\ proc[p].id \in Live \ Ineligible
  /\ Failed("lost")
  /\ on' = SwitchOn(p)
  /\ Answered(p, Outcome(proc[p].id, "unknown", FALSE))
  /\ UNCHANGED <<watched, cache, ledger, registry, plan>>

(* 401 or 403, or a lookup that failed: pushSwitch throws. *)
PushThrows(p) ==
  /\ proc[p].pc \in {"resolve", "put"}
  /\ Failed("key")
  /\ Go(p, "thrown")
  /\ UNCHANGED <<watched, cache, ledger, on, registry, plan>>

(* A job goes on with its next change. *)
RecordJob(p) ==
  /\ p \in Jobs
  /\ \/ /\ proc[p].pc = "answered"
        /\ ledger' = WithOutcome(proc[p].s, proc[p].out)
     \/ /\ proc[p].pc = "thrown"
        /\ ledger' = WithOutcome(proc[p].s, NoOutcome)
  /\ proc' = [proc EXCEPT ![p] = Take(proc[p].rest, FALSE)]
  /\ UNCHANGED <<watched, cache, on, registry, plan, bounds>>

-----------------------------------------------------------------------------
(* syncWatchlistDossiers: the desired set is read first ... *)
SyncStart ==
  /\ MayStart(Sync)
  /\ plan' = [NoPlan EXCEPT !.want = Wanted]
  /\ Go(Sync, "read")
  /\ UNCHANGED <<watched, cache, ledger, on, registry, bounds>>

(* Mutated: leaves the sectors to the follow jobs. *)
IsOnCompany(s) == s \in Companies /\ ledger[s] # NoRow /\ ledger[s].applied = "on"

IsOn(s) == ledger[s] # NoRow /\ ledger[s].applied = "on"
IsIneligible(s) == ledger[s] # NoRow /\ ledger[s].ineligible
RowId(s) == IF ledger[s] = NoRow THEN None ELSE ledger[s].id

(* ... then the ledger, and planDossierSync compares the two. *)
SyncPlan ==
  LET have == {s \in Subjects : ledger[s] # NoRow}
      enable == {s \in plan.want : ~IsOn(s) /\ ~IsIneligible(s)}
      disable == {s \in have \ plan.want : IsOn(s)}
  IN  /\ proc[Sync].pc = "read"
      /\ plan' = [plan EXCEPT
           !.acts = {[s |-> s, en |-> s \in enable, id |-> RowId(s)] : s \in enable \union disable},
           !.retire = {s \in have \ plan.want : ~IsOn(s)}]
      /\ Go(Sync, "next")
      /\ UNCHANGED <<watched, cache, ledger, on, registry, bounds>>

(* Enables before disables. *)
NextAct(a) == a \in plan.acts /\ (a.en \/ \A b \in plan.acts : ~b.en)

(* An off whose entity this sync has just switched on is retired instead. *)
SyncSpare ==
  \E a \in plan.acts :
    /\ proc[Sync].pc = "next" /\ NextAct(a)
    /\ ~a.en /\ a.id \in plan.enabled
    /\ plan' = [plan EXCEPT !.acts = @ \ {a}, !.retire = @ \union {a.s}]
    /\ UNCHANGED <<watched, cache, ledger, on, registry, proc, bounds>>

SyncTake ==
  \E a \in plan.acts :
    /\ proc[Sync].pc = "next" /\ NextAct(a)
    /\ a.en \/ a.id \notin plan.enabled
    /\ plan' = [plan EXCEPT !.acts = @ \ {a}, !.known = a.id]
    /\ proc' = [proc EXCEPT ![Sync] =
                 [Idle EXCEPT !.pc = "intent", !.s = a.s, !.en = a.en, !.id = a.id]]
    /\ UNCHANGED <<watched, cache, ledger, on, registry, bounds>>

SyncRecord ==
  LET out == proc[Sync].out
      confirmed == proc[Sync].en /\ out.applied = "on"
  IN  /\ proc[Sync].pc = "answered"
      /\ ledger' = WithOutcome(proc[Sync].s, out)
      /\ plan' = [plan EXCEPT !.enabled = IF confirmed THEN @ \union {out.id} ELSE @]
      /\ Go(Sync, "next")
      /\ UNCHANGED <<watched, cache, on, registry, bounds>>

(* A throw ends the loop; the row keeps the id the action came with. *)
SyncAbort ==
  /\ proc[Sync].pc = "thrown"
  /\ ledger' = WithOutcome(proc[Sync].s, Outcome(plan.known, "unknown", FALSE))
  /\ plan' = [plan EXCEPT !.acts = {}]
  /\ Go(Sync, "next")
  /\ UNCHANGED <<watched, cache, on, registry, bounds>>

(* At the end, aborted or not, the rows of the plan are dropped by key. *)
SyncRetire ==
  /\ proc[Sync].pc = "next" /\ plan.acts = {}
  /\ ledger' = [s \in Subjects |-> IF s \in plan.retire THEN NoRow ELSE ledger[s]]
  /\ plan' = NoPlan
  /\ Go(Sync, "idle")
  /\ UNCHANGED <<watched, cache, on, registry, bounds>>

-----------------------------------------------------------------------------
(* External: Distill merges e into another entity, or drops it. *)
Merge(e, into) ==
  /\ merges < MaxMerges
  /\ merges' = merges + 1
  /\ e \in Live /\ into \in (Live \ {e}) \union {None}
  /\ registry' = [s \in Subjects |-> IF registry[s] = e THEN into ELSE registry[s]]
  /\ on' = on \ {e}
  /\ UNCHANGED <<watched, cache, ledger, proc, plan, changes, faults>>

(* The process a job or the sync runs in dies. *)
Die(p) ==
  /\ proc[p].pc # "idle"
  /\ Failed("die")
  /\ proc' = [proc EXCEPT ![p] = Idle]
  /\ plan' = IF p = Sync THEN NoPlan ELSE plan
  /\ UNCHANGED <<watched, cache, ledger, on, registry>>

(* One job's or the sync's way through a change, failures aside. *)
Proceed(p) ==
  \/ Look(p) \/ Intent(p) \/ Drop(p)
  \/ PushUnknown(p) \/ PushKnown(p) \/ Resolve(p)
  \/ PutDone(p) \/ PutIneligible(p) \/ PutGone(p)
  \/ RecordJob(p)

Fail(p) == PutRefused(p) \/ PutUnheard(p) \/ PushThrows(p) \/ Die(p)

SyncProceed ==
  SyncPlan \/ SyncSpare \/ SyncTake \/ SyncRecord \/ SyncAbort \/ SyncRetire

Upheaval ==
  \/ \E c \in Companies : AddQuietly(c) \/ \E p \in Jobs : Add(p, c) \/ Delete(p, c)
  \/ \E e \in Entities, into \in Entities \union {None} : Merge(e, into)

Next ==
  \/ \E p \in Procs : Proceed(p) \/ Fail(p)
  \/ \E p \in Jobs, s \in Subjects : Heal(p, s)
  \/ SyncStart \/ SyncProceed
  \/ Upheaval

Spec == Init /\ [][Next]_vars

(***************************************************************************)
(* A promise chain that has begun goes on.  Pipeline runs recur on their   *)
(* cron; each syncs and each reads the dossier content of every watched    *)
(* subject, whatever else is going on, hence strong fairness of the two.   *)
(***************************************************************************)
Fairness ==
  /\ \A p \in Procs : WF_vars(Proceed(p))
  /\ WF_vars(SyncProceed)
  /\ SF_vars(SyncStart)
  /\ \A s \in Subjects : SF_vars(\E p \in Jobs : Heal(p, s))

FairSpec == Spec /\ Fairness

-----------------------------------------------------------------------------
(* The columns, the switches and the local variables hold what they may. *)
TypeOK ==
  /\ watched \subseteq Companies /\ on \subseteq Live \ Ineligible
  /\ cache \in [Companies -> Entities \union {None}]
  /\ ledger \in [Subjects -> Rows \union {NoRow}]
  /\ \A p \in Procs :
       /\ proc[p].pc # "idle" /\ (p = Sync => proc[p].pc \notin {"read", "next"})
            => proc[p].s \in Subjects
       /\ proc[p].pc = "put" => proc[p].id \in Entities
       /\ proc[p].out \in Rows
       /\ proc[p].pc = "drop" => proc[p].s \in Companies
  /\ \A a \in plan.acts : a.en <=> a.s \in plan.want

WantedEntities == {registry[s] : s \in Wanted} \ ({None} \union Ineligible)

(* A switch left on keeps building a dossier.  Whatever is on is wanted, or a
   row still knows it as on, or a job or the sync is about to write so: what a
   sync retires, what a delete cascades away and what an outcome overwrites
   takes no such knowledge along. *)
OnIsRemembered ==
  \A e \in on :
    \/ e \in WantedEntities
    \/ \E s \in Subjects : ledger[s] # NoRow /\ ledger[s].id = e /\ ledger[s].applied = "on"
    \/ \E p \in Procs : proc[p].pc \in {"put", "answered"} /\ proc[p].id = e

(* Where one entity stands for a wanted and an unwanted subject, the wanted
   side wins: a sync does not switch it off. *)
WantedSideWins ==
  [][plan.want # {} /\ UNCHANGED <<registry, watched>>
       => \A e \in on \ on' : proc[Sync].pc = "put" /\ proc[Sync].id = e
            => e \notin {registry[s] : s \in plan.want}]_vars

(* Once the watchlist stays put, everything wanted is switched on for good. *)
WatchedIsServed == <>[](WantedEntities \subseteq on)

(* Once the watchlist stays put, nothing else is: a deleted stock's dossier
   stops being built (and billed). *)
UnwatchedGoesOff == <>[](on \subseteq WantedEntities)

=============================================================================
