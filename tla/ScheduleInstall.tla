--------------------------- MODULE ScheduleInstall ---------------------------
(***************************************************************************)
(* Who owns the nightly cron: applySchedule of src/src/scheduler.ts and    *)
(* syncHatchetCron of src/src/hatchet/cron.ts.                             *)
(*                                                                         *)
(* applySchedule runs once the port is bound and after every save of the   *)
(* settings.  It is not guarded against itself: it removes what it knows   *)
(* of, then awaits the stored settings and, with Hatchet configured, the   *)
(* engine's list, its deletes and its create, and only then installs.      *)
(*                                                                         *)
(* A schedule is its kind and the number of the save that stored it.  It   *)
(* is switched off, expressible in UTC, expressible only in its own        *)
(* timezone, or bad: five words or a zone the settings admit, and          *)
(* node-cron does not.                                                     *)
(***************************************************************************)
EXTENDS Naturals, FiniteSets

CONSTANTS
  Saves,        \* the saves of the settings page
  Boot,         \* the call made when the port is bound
  NoTask,       \* task = null
  HatchetModes, \* values isHatchetConfigured() may have
  Overlapping,  \* may calls overlap in time?
  MaxFailures,  \* bound: Hatchet requests that fail
  MaxRestarts   \* bound: restarts of the API process

Calls == Saves \union {Boot}
Kinds == {"off", "utc", "zoned", "bad"}
Schedules == [save : 0 .. Cardinality(Saves), kind : Kinds]

VARIABLES
  hatchet,    \* isHatchetConfigured()
  ours,       \* hatchetScheduleEnabled: the cron in Hatchet is this deployment's
  stored,     \* the schedule in the stored settings
  task,       \* scheduler.ts: the cron task this module knows of
  ticking,    \* the node-cron tasks that fire, known or not: who installed what
  crons,      \* Hatchet's crons of our name, by installer and schedule
  pc, config, found,   \* of each call: where it is, and its local variables
  hurt,       \* history: a request or a call failed and no call has begun since
  failures, restarts

locals == <<config, found>>
bounds == <<failures, restarts>>
vars == <<hatchet, ours, stored, task, ticking, crons, pc, locals, hurt, bounds>>

Quiet == \A c \in Calls : pc[c] \in {"idle", "done"}

Entry(c) == [by |-> c, schedule |-> config[c]]
Entries == [by : Calls, schedule : Schedules]
goto(c, p) == pc' = [pc EXCEPT ![c] = p]

-----------------------------------------------------------------------------
(* A fresh process; Hatchet may hold the cron an earlier one left. *)
Init ==
  /\ hatchet \in HatchetModes
  /\ ours \in IF hatchet THEN BOOLEAN ELSE {TRUE}
  /\ stored \in [save : {0}, kind : Kinds]
  /\ task = NoTask
  /\ ticking = {}
  /\ crons \in IF hatchet
               THEN {{}, {[by |-> Boot, schedule |-> [save |-> 0, kind |-> "utc"]]}}
               ELSE {{}}
  /\ pc = [c \in Calls |-> IF c = Boot THEN "begin" ELSE "idle"]
  /\ config = [c \in Calls |-> stored]
  /\ found = [c \in Calls |-> {}]
  /\ hurt = FALSE /\ failures = 0 /\ restarts = 0

(* PUT /api/config: the settings are written, then the schedule is applied. *)
Save(c) ==
  /\ c \in Saves /\ pc[c] = "idle"
  /\ Overlapping \/ Quiet
  /\ \E k \in Kinds : stored' = [save |-> stored.save + 1, kind |-> k]
  /\ goto(c, "begin")
  /\ UNCHANGED <<hatchet, ours, task, ticking, crons, locals, hurt, bounds>>

(* The known task is destroyed. *)
Destroy(c) ==
  /\ pc[c] = "begin"
  /\ ticking' = {t \in ticking : t # task}
  /\ task' = NoTask
  /\ hurt' = FALSE
  /\ goto(c, "reading")
  /\ UNCHANGED <<hatchet, ours, stored, crons, locals, bounds>>

(* readAppConfig answers.  A deployment that leaves the cron in Hatchet to
   another installs nothing. *)
ReadConfig(c) ==
  /\ pc[c] = "reading"
  /\ config' = [config EXCEPT ![c] = stored]
  /\ goto(c, IF ~hatchet THEN "install" ELSE IF ours THEN "listing" ELSE "done")
  /\ UNCHANGED <<hatchet, ours, stored, task, ticking, crons, found, hurt, bounds>>

(* The settings cannot be read, or cronToUtc does not know the zone, its
   crons deleted by then: applySchedule rejects with nothing installed. *)
Rejects(c) ==
  /\ \/ pc[c] = "reading"
     \/ pc[c] = "deleting" /\ found[c] = {} /\ config[c].kind = "bad"
  /\ hurt' = TRUE
  /\ goto(c, "done")
  /\ UNCHANGED <<hatchet, ours, stored, task, ticking, crons, locals, bounds>>

(* Mutated: the crons already there are not looked for. *)
ListNothing(c) ==
  /\ pc[c] = "listing"
  /\ goto(c, "deleting")
  /\ UNCHANGED <<hatchet, ours, stored, task, ticking, crons, locals, hurt, bounds>>

(* hatchet.crons.list, narrowed to our name. *)
List(c) ==
  /\ pc[c] = "listing"
  /\ found' = [found EXCEPT ![c] = crons]
  /\ goto(c, "deleting")
  /\ UNCHANGED <<hatchet, ours, stored, task, ticking, crons, config, hurt, bounds>>

DeleteCron(c) ==
  \E x \in found[c] :
    /\ pc[c] = "deleting"
    /\ crons' = crons \ {x}
    /\ found' = [found EXCEPT ![c] = @ \ {x}]
    /\ UNCHANGED <<hatchet, ours, stored, task, ticking, pc, config, hurt, bounds>>

(* A delete that fails is a warning, whatever the reason. *)
DeleteFails(c) ==
  \E x \in found[c] :
    /\ pc[c] = "deleting" /\ failures < MaxFailures
    /\ failures' = failures + 1 /\ hurt' = TRUE
    /\ found' = [found EXCEPT ![c] = @ \ {x}]
    /\ UNCHANGED <<hatchet, ours, stored, task, ticking, crons, pc, config, restarts>>

(* Mutated: what UTC cannot express is taken for installed. *)
TranslateAnyway(c) ==
  /\ pc[c] = "deleting" /\ found[c] = {}
  /\ goto(c, CASE config[c].kind = "utc" -> "creating"
               [] config[c].kind \in {"off", "bad"} -> "install"
               [] config[c].kind = "zoned" -> "done")
  /\ UNCHANGED <<hatchet, ours, stored, task, ticking, crons, locals, hurt, bounds>>

(* Only an enabled schedule that UTC expresses goes to Hatchet; the rest
   falls through to the in-process scheduler.  A bad one may pass for either. *)
Translate(c) ==
  /\ pc[c] = "deleting" /\ found[c] = {}
  /\ \/ config[c].kind \in {"utc", "bad"} /\ goto(c, "creating")
     \/ config[c].kind # "utc" /\ goto(c, "install")
  /\ UNCHANGED <<hatchet, ours, stored, task, ticking, crons, locals, hurt, bounds>>

(* hatchet.crons.create; the engine may take what node-cron would refuse. *)
Create(c) ==
  /\ pc[c] = "creating"
  /\ crons' = crons \union {Entry(c)}
  /\ goto(c, "done")
  /\ UNCHANGED <<hatchet, ours, stored, task, ticking, locals, hurt, bounds>>

(* The list or the create fails: applySchedule rejects. *)
HatchetFails(c) ==
  /\ pc[c] \in {"listing", "creating"} /\ failures < MaxFailures
  /\ failures' = failures + 1 /\ hurt' = TRUE
  /\ goto(c, "done")
  /\ UNCHANGED <<hatchet, ours, stored, task, ticking, crons, locals, restarts>>

(* The in-process scheduler: nothing when switched off, nor when node-cron
   refuses the expression or its zone; else cron.schedule. *)
Install(c) ==
  /\ pc[c] = "install"
  /\ IF config[c].kind \in {"off", "bad"}
     THEN UNCHANGED <<task, ticking>>
     ELSE /\ ticking' = ticking \union {Entry(c)}
          /\ task' = Entry(c)
  /\ goto(c, "done")
  /\ UNCHANGED <<hatchet, ours, stored, crons, locals, hurt, bounds>>

(* The process restarts: its tasks and its calls are gone, Hatchet's crons
   are not, and the schedule is applied afresh. *)
Restart ==
  /\ restarts < MaxRestarts
  /\ restarts' = restarts + 1
  /\ task' = NoTask
  /\ ticking' = {}
  /\ pc' = [c \in Calls |-> IF c = Boot THEN "begin" ELSE IF pc[c] = "idle" THEN "idle" ELSE "done"]
  /\ UNCHANGED <<hatchet, ours, stored, crons, locals, hurt, failures>>

Step(c) ==
  \/ Destroy(c) \/ ReadConfig(c) \/ Rejects(c) \/ List(c) \/ DeleteCron(c) \/ DeleteFails(c)
  \/ Translate(c) \/ Create(c) \/ HatchetFails(c) \/ Install(c)

Next == (\E c \in Calls : Save(c) \/ Step(c)) \/ Restart

Spec == Init /\ [][Next]_vars

-----------------------------------------------------------------------------
(* The shape of the two schedulers; the known task is one that fires. *)
TypeOK ==
  /\ hatchet \in BOOLEAN /\ ours \in BOOLEAN /\ stored \in Schedules
  /\ ticking \subseteq Entries /\ crons \subseteq Entries
  /\ task \in ticking \union {NoTask}
  /\ pc \in [Calls -> {"idle", "begin", "reading", "listing", "deleting", "creating",
                       "install", "done"}]
  /\ config \in [Calls -> Schedules]
  /\ found \in [Calls -> SUBSET Entries]

(* "One scheduler or the other, never both": whatever fires, at most one
   cron does, in the process or in Hatchet, also while they are exchanged. *)
AtMostOneCron == Cardinality(ticking) + Cardinality(crons) <= 1

(* What the code does give: as long as no request to Hatchet has failed, one
   cron at most fires, also across restarts and while the two are exchanged. *)
OneCronUnlessFailed == failures = 0 => AtMostOneCron

Firing == {e.schedule : e \in ticking \union crons}

(* With no call under way, exactly the stored schedule fires, unless it is
   switched off; a bad one fires where the engine took it, or not at all, and
   no other in its place.  Whatever an earlier call or a restart left behind,
   one call makes it so whose own requests succeed.  A deployment the cron in
   Hatchet does not belong to has none in its process either. *)
StoredScheduleFires ==
  Quiet /\ ~hurt =>
    IF hatchet /\ ~ours
    THEN ticking = {}
    ELSE /\ Firing \subseteq {stored}
         /\ stored.kind = "off" => Firing = {}
         /\ stored.kind \in {"utc", "zoned"} => stored \in Firing

\* Together: what fires is what the settings say, once.
ScheduleIsKept == OneCronUnlessFailed /\ StoredScheduleFires

(* "One of the two always owns it".  Violated: a schedule that is enabled and
   that the settings admit is refused by node-cron, and logged. *)
OneAlwaysOwnsIt ==
  Quiet /\ ~hurt /\ (hatchet => ours) /\ stored.kind # "off" => Firing # {}

=============================================================================
