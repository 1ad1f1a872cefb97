---------------------------- MODULE ServicesProofs ----------------------------
(***************************************************************************)
(* What the services beside the pipeline promise, for any number of runs,  *)
(* pages, readers, editors, senders, clicks and calls, and however often   *)
(* something fails.  Each part is a module of its own; its theorem is      *)
(* about its own behaviours, and no variable belongs to two parts.  At the *)
(* end the pure functions (positions and decisions, cron, factor score)    *)
(* and the page in the browser.                                            *)
(***************************************************************************)
EXTENDS Services, FiniteSetTheorems, WellFoundedInduction, TLAPS

-----------------------------------------------------------------------------
(* The nightly cron: ScheduleInstall. *)

StoredSchedules == [save : Nat, kind : Plan!Kinds]
StoredEntries == [by : Plan!Calls, schedule : StoredSchedules]

PlanType ==
  /\ hatchet \in BOOLEAN /\ ours \in BOOLEAN /\ hurt \in BOOLEAN
  /\ scheduled \in StoredSchedules
  /\ crons \subseteq StoredEntries
  /\ pc \in [Plan!Calls -> {"idle", "begin", "reading", "listing", "deleting", "creating", "install", "done"}]
  /\ config \in [Plan!Calls -> StoredSchedules]
  /\ found \in [Plan!Calls -> SUBSET StoredEntries]
  /\ failures \in Nat

Busy(c) == pc[c] \notin {"idle", "done"}

\* One call at a time; once it has destroyed the task, nothing ticks until it installs, and
\* behind its reading it holds the scheduled schedule.
OneCall ==
  \A c \in Plan!Calls : Busy(c) =>
    /\ \A d \in Plan!Calls : Busy(d) => c = d
    /\ pc[c] # "begin" => ticking = {}
    /\ pc[c] \notin {"begin", "reading"} => config[c] = scheduled
    /\ pc[c] = "creating" => scheduled.kind \in {"utc", "bad"}
    /\ pc[c] = "install" /\ hatchet => scheduled.kind # "utc"

KnownTask == ticking \subseteq {task}

\* Without Hatchet there are no crons to ask for; with those of another deployment, nothing is
\* asked and nothing installed.
WithoutHatchet ==
  /\ ~hatchet => crons = {}
  /\ ~hatchet \/ ~ours => \A c \in Plan!Calls : pc[c] \notin {"listing", "deleting", "creating"}
  /\ hatchet /\ ~ours => ticking = {} /\ \A c \in Plan!Calls : pc[c] # "install"

\* Unless one of its requests failed, the call takes all crons away that were there.
CronsAreFound ==
  ~hurt \/ failures = 0 => \A c \in Plan!Calls :
    /\ pc[c] = "deleting" => crons \subseteq found[c]
    /\ pc[c] \in {"creating", "install"} => crons = {}

\* Without a failure, what fires is one, here or there.
OneFires ==
  failures = 0 => /\ \A x, y \in crons : x = y
                  /\ ticking = {} \/ crons = {}

PlanInv ==
  PlanType /\ OneCall /\ KnownTask /\ WithoutHatchet /\ CronsAreFound /\ OneFires /\ Plan!StoredScheduleFires

\* A set without two different members has one at most.
LEMMA AtMostOneCounts ==
  ASSUME NEW S, \A x, y \in S : x = y
  PROVE  Cardinality(S) \in {0, 1} /\ (S = {} => Cardinality(S) = 0)
<1>1. CASE S = {}
  BY <1>1, FS_EmptySet
<1>2. CASE S # {}
  <2>1. PICK x : S = {x}
    BY <1>2
  <2>2. QED BY <1>2, <2>1, FS_Singleton
<1>3. QED BY <1>1, <1>2

\* The instance counts as the library does.
LEMMA PlanCounts == ASSUME NEW S PROVE Plan!Cardinality(S) = Cardinality(S)
  BY DEF Plan!Cardinality, Cardinality

\* Saving, installing call by call, failing, booting and firing keep the invariant.
LEMMA PlanStep ==
  ASSUME ~Overlapping
  PROVE  PlanInv /\ [Plan!Next]_(Plan!vars) => PlanInv'
<1> SUFFICES ASSUME PlanInv, [Plan!Next]_(Plan!vars) PROVE PlanInv'
  OBVIOUS
<1> USE DEF PlanInv
<1>1. CASE UNCHANGED Plan!vars
  BY <1>1 DEF Plan!vars, Plan!locals, Plan!bounds, PlanType, Busy, OneCall, KnownTask, WithoutHatchet, CronsAreFound, OneFires,
              Plan!StoredScheduleFires, Plan!Quiet, Plan!Firing
<1>2. ASSUME NEW c \in Plan!Calls, Plan!Save(c) PROVE PlanInv'
  <2>1. /\ \A d \in Plan!Calls : ~Busy(d)
        /\ scheduled' \in StoredSchedules /\ pc' = [pc EXCEPT ![c] = "begin"]
        /\ UNCHANGED <<hatchet, ours, task, ticking, crons, config, found, hurt, failures>>
    BY <1>2 DEF Plan!Save, Plan!Quiet, Busy, Plan!goto, Plan!locals, Plan!bounds, PlanType, StoredSchedules
  <2>2. PlanType' /\ OneCall' /\ KnownTask'
    BY <2>1 DEF PlanType, Busy, OneCall, KnownTask
  <2>3. WithoutHatchet' /\ CronsAreFound' /\ OneFires'
    BY <2>1 DEF PlanType, Busy, WithoutHatchet, CronsAreFound, OneFires
  <2>4. Plan!StoredScheduleFires'
    BY <2>1 DEF PlanType, Plan!StoredScheduleFires, Plan!Quiet
  <2>5. QED BY <2>2, <2>3, <2>4
<1>3. ASSUME NEW c \in Plan!Calls, Plan!Destroy(c) PROVE PlanInv'
  <2>1. /\ pc[c] = "begin" /\ ticking' = {} /\ hurt' = FALSE /\ pc' = [pc EXCEPT ![c] = "reading"]
        /\ UNCHANGED <<hatchet, ours, scheduled, crons, config, found, failures>>
    BY <1>3 DEF Plan!Destroy, Plan!goto, KnownTask, Plan!locals, Plan!bounds
  <2>2. PlanType' /\ KnownTask' /\ WithoutHatchet'
    BY <2>1 DEF PlanType, KnownTask, WithoutHatchet
  <2>3. OneCall' /\ CronsAreFound'
    BY <2>1 DEF PlanType, Busy, OneCall, CronsAreFound
  <2>4. OneFires' /\ Plan!StoredScheduleFires'
    BY <2>1 DEF PlanType, OneFires, Plan!StoredScheduleFires, Plan!Quiet
  <2>5. QED BY <2>2, <2>3, <2>4
<1>4. ASSUME NEW c \in Plan!Calls, Plan!ReadConfig(c) PROVE PlanInv'
  <2>1. /\ pc[c] = "reading" /\ config' = [config EXCEPT ![c] = scheduled]
        /\ pc' = [pc EXCEPT ![c] = IF ~hatchet THEN "install" ELSE IF ours THEN "listing" ELSE "done"]
        /\ UNCHANGED <<hatchet, ours, scheduled, task, ticking, crons, found, hurt, failures>>
    BY <1>4 DEF Plan!ReadConfig, Plan!goto, Plan!bounds
  <2>2. PlanType' /\ KnownTask' /\ WithoutHatchet' /\ OneFires'
    BY <2>1 DEF PlanType, KnownTask, WithoutHatchet, OneFires
  <2>3. OneCall'
    BY <2>1 DEF PlanType, Busy, OneCall
  <2>4. CronsAreFound'
    BY <2>1 DEF PlanType, WithoutHatchet, CronsAreFound
  <2>5. Plan!StoredScheduleFires'
    BY <2>1 DEF PlanType, WithoutHatchet, Plan!StoredScheduleFires, Plan!Quiet
  <2>6. QED BY <2>2, <2>3, <2>4, <2>5
<1>5. ASSUME NEW c \in Plan!Calls, Plan!Rejects(c) PROVE PlanInv'
  <2>1. /\ hurt' = TRUE /\ pc' = [pc EXCEPT ![c] = "done"]
        /\ UNCHANGED <<hatchet, ours, scheduled, task, ticking, crons, config, found, failures>>
    BY <1>5 DEF Plan!Rejects, Plan!goto, Plan!locals, Plan!bounds
  <2>2. PlanType' /\ KnownTask' /\ WithoutHatchet' /\ OneFires'
    BY <2>1 DEF PlanType, KnownTask, WithoutHatchet, OneFires
  <2>3. OneCall' /\ CronsAreFound' /\ Plan!StoredScheduleFires'
    BY <2>1 DEF PlanType, Busy, OneCall, CronsAreFound, Plan!StoredScheduleFires
  <2>4. QED BY <2>2, <2>3
<1>6. ASSUME NEW c \in Plan!Calls, Plan!List(c) PROVE PlanInv'
  <2>1. /\ pc[c] = "listing" /\ found' = [found EXCEPT ![c] = crons] /\ pc' = [pc EXCEPT ![c] = "deleting"]
        /\ UNCHANGED <<hatchet, ours, scheduled, task, ticking, crons, config, hurt, failures>>
    BY <1>6 DEF Plan!List, Plan!goto, Plan!bounds
  <2>2. PlanType' /\ KnownTask' /\ WithoutHatchet' /\ OneFires'
    BY <2>1 DEF PlanType, KnownTask, WithoutHatchet, OneFires
  <2>3. OneCall'
    BY <2>1 DEF PlanType, Busy, OneCall
  <2>4. CronsAreFound' /\ Plan!StoredScheduleFires'
    BY <2>1 DEF PlanType, CronsAreFound, Plan!StoredScheduleFires, Plan!Quiet
  <2>5. QED BY <2>2, <2>3, <2>4
<1>7. ASSUME NEW c \in Plan!Calls, Plan!DeleteCron(c) PROVE PlanInv'
  <2>1. PICK x \in found[c] : /\ pc[c] = "deleting" /\ crons' = crons \ {x}
                              /\ found' = [found EXCEPT ![c] = found[c] \ {x}]
    BY <1>7 DEF Plan!DeleteCron
  <2>2. UNCHANGED <<hatchet, ours, scheduled, task, ticking, pc, config, hurt, failures>>
    BY <1>7 DEF Plan!DeleteCron, Plan!bounds
  <2>3. PlanType' /\ KnownTask' /\ WithoutHatchet' /\ OneFires'
    BY <2>1, <2>2 DEF PlanType, KnownTask, WithoutHatchet, OneFires
  <2>4. OneCall'
    BY <2>1, <2>2 DEF PlanType, Busy, OneCall
  <2>5. CronsAreFound' /\ Plan!StoredScheduleFires'
    BY <2>1, <2>2 DEF PlanType, CronsAreFound, Plan!StoredScheduleFires, Plan!Quiet
  <2>6. QED BY <2>3, <2>4, <2>5
<1>8. ASSUME NEW c \in Plan!Calls, Plan!DeleteFails(c) \/ Plan!HatchetFails(c) PROVE PlanInv'
  <2>1. /\ failures' = failures + 1 /\ hurt' = TRUE
        /\ pc[c] \in {"listing", "deleting", "creating"} /\ pc' \in {pc, [pc EXCEPT ![c] = "done"]}
        /\ UNCHANGED <<hatchet, ours, scheduled, task, ticking, crons, config>>
    BY <1>8 DEF Plan!DeleteFails, Plan!HatchetFails, Plan!goto, Plan!locals
  <2>2. found' \in [Plan!Calls -> SUBSET StoredEntries]
    BY <1>8 DEF Plan!DeleteFails, Plan!HatchetFails, Plan!locals, PlanType
  <2>3. PlanType' /\ KnownTask' /\ WithoutHatchet'
    BY <2>1, <2>2 DEF PlanType, KnownTask, WithoutHatchet
  <2>4. OneCall'
    BY <2>1 DEF PlanType, Busy, OneCall
  <2>5. CronsAreFound' /\ OneFires' /\ Plan!StoredScheduleFires'
    BY <2>1 DEF PlanType, CronsAreFound, OneFires, Plan!StoredScheduleFires
  <2>6. QED BY <2>3, <2>4, <2>5
<1>9. ASSUME NEW c \in Plan!Calls, Plan!Translate(c) PROVE PlanInv'
  <2>1. /\ pc[c] = "deleting" /\ found[c] = {}
        /\ \/ config[c].kind \in {"utc", "bad"} /\ pc' = [pc EXCEPT ![c] = "creating"]
           \/ config[c].kind # "utc" /\ pc' = [pc EXCEPT ![c] = "install"]
        /\ UNCHANGED <<hatchet, ours, scheduled, task, ticking, crons, config, found, hurt, failures>>
    BY <1>9 DEF Plan!Translate, Plan!goto, Plan!locals, Plan!bounds
  <2>2. hatchet /\ ours
    BY <2>1 DEF PlanType, WithoutHatchet
  <2>3. PlanType' /\ KnownTask' /\ WithoutHatchet' /\ OneFires'
    BY <2>1, <2>2 DEF PlanType, KnownTask, WithoutHatchet, OneFires
  <2>4. OneCall'
    BY <2>1 DEF PlanType, Busy, OneCall
  <2>5. CronsAreFound' /\ Plan!StoredScheduleFires'
    BY <2>1 DEF PlanType, CronsAreFound, Plan!StoredScheduleFires, Plan!Quiet
  <2>6. QED BY <2>3, <2>4, <2>5
<1>10. ASSUME NEW c \in Plan!Calls, Plan!Create(c) PROVE PlanInv'
  <2>1. /\ pc[c] = "creating" /\ crons' = crons \union {Plan!Entry(c)} /\ pc' = [pc EXCEPT ![c] = "done"]
        /\ UNCHANGED <<hatchet, ours, scheduled, task, ticking, config, found, hurt, failures>>
    BY <1>10 DEF Plan!Create, Plan!goto, Plan!locals, Plan!bounds
  <2>2. /\ Plan!Entry(c) \in StoredEntries /\ Plan!Entry(c).schedule = scheduled
        /\ ticking = {} /\ scheduled.kind \in {"utc", "bad"} /\ hatchet /\ ours
    BY <2>1 DEF PlanType, Plan!Entry, StoredEntries, Busy, OneCall, WithoutHatchet
  <2>3. PlanType' /\ KnownTask' /\ WithoutHatchet'
    BY <2>1, <2>2 DEF PlanType, KnownTask, WithoutHatchet
  <2>4. OneCall' /\ CronsAreFound'
    BY <2>1 DEF PlanType, Busy, OneCall, CronsAreFound
  <2>5. ~hurt \/ failures = 0 => crons' = {Plan!Entry(c)}
    BY <2>1 DEF CronsAreFound
  <2>6. OneFires'
    BY <2>1, <2>2, <2>5 DEF OneFires
  <2>7. Plan!StoredScheduleFires'
    BY <2>1, <2>2, <2>5 DEF Plan!StoredScheduleFires, Plan!Firing
  <2>8. QED BY <2>3, <2>4, <2>6, <2>7
<1>11. ASSUME NEW c \in Plan!Calls, Plan!Install(c) PROVE PlanInv'
  <2>1. /\ pc[c] = "install" /\ pc' = [pc EXCEPT ![c] = "done"]
        /\ UNCHANGED <<hatchet, ours, scheduled, crons, config, found, hurt, failures>>
    BY <1>11 DEF Plan!Install, Plan!goto, Plan!locals, Plan!bounds
  <2>2. /\ ticking = {} /\ config[c] = scheduled /\ (~hurt \/ failures = 0 => crons = {})
        /\ ~(hatchet /\ ~ours)
    BY <2>1 DEF Busy, OneCall, WithoutHatchet, CronsAreFound
  <2>3. /\ scheduled.kind \in {"off", "bad"} => UNCHANGED <<task, ticking>>
        /\ scheduled.kind \notin {"off", "bad"} => ticking' = {Plan!Entry(c)} /\ task' = Plan!Entry(c)
    BY <1>11, <2>2 DEF Plan!Install
  <2>4. PlanType' /\ KnownTask' /\ WithoutHatchet'
    BY <2>1, <2>2, <2>3 DEF PlanType, KnownTask, WithoutHatchet
  <2>5. OneCall' /\ CronsAreFound'
    BY <2>1 DEF PlanType, Busy, OneCall, CronsAreFound
  <2>6. OneFires'
    BY <2>1, <2>2 DEF OneFires
  <2>7. Plan!StoredScheduleFires'
    BY <2>1, <2>2, <2>3 DEF Plan!StoredScheduleFires, Plan!Firing, Plan!Entry
  <2>8. QED BY <2>4, <2>5, <2>6, <2>7
<1>12. ASSUME Plan!Restart PROVE PlanInv'
  <2>1. /\ ticking' = {} /\ UNCHANGED <<hatchet, ours, scheduled, crons, config, found, hurt, failures>>
        /\ pc' = [c \in Plan!Calls |-> IF c = AtBoot THEN "begin" ELSE IF pc[c] = "idle" THEN "idle" ELSE "done"]
    BY <1>12 DEF Plan!Restart, Plan!locals
  <2>2. PlanType' /\ OneCall' /\ KnownTask'
    BY <2>1 DEF PlanType, Busy, OneCall, KnownTask
  <2>3. WithoutHatchet' /\ CronsAreFound' /\ OneFires'
    BY <2>1 DEF WithoutHatchet, CronsAreFound, OneFires
  <2>4. Plan!StoredScheduleFires'
    BY <2>1 DEF Plan!StoredScheduleFires, Plan!Quiet, Plan!Calls
  <2>5. QED BY <2>2, <2>3, <2>4
<1>13. QED BY <1>1, <1>2, <1>3, <1>4, <1>5, <1>6, <1>7, <1>8, <1>9, <1>10, <1>11, <1>12 DEF Plan!Next, Plan!Step

\* applySchedule: what fires is the schedule that is scheduled, unless the last call
\* failed or was refused something, and once, unless any request failed, whatever is saved, booted and found.
\* The calls do not overlap: two that do may leave a cron at both (AtMostOneCron).
THEOREM ScheduleKept ==
  ASSUME ~Overlapping
  PROVE  Plan!Spec => []ScheduleIsKept
<1>1. Plan!Init => PlanInv
  <2> SUFFICES ASSUME Plan!Init PROVE PlanInv
    OBVIOUS
  <2>1. crons \in {{}, {[by |-> AtBoot, schedule |-> [save |-> 0, kind |-> "utc"]]}} /\ (~hatchet => crons = {})
    BY DEF Plan!Init
  <2>2. PlanType
    <3>1. [by |-> AtBoot, schedule |-> [save |-> 0, kind |-> "utc"]] \in StoredEntries /\ scheduled \in StoredSchedules
      BY DEF Plan!Init, StoredSchedules, StoredEntries, Plan!Calls, Plan!Kinds
    <3>2. crons \subseteq StoredEntries
      BY <2>1, <3>1
    <3>3. QED BY <3>1, <3>2, SizesAssumption DEF Plan!Init, PlanType
  <2>3. OneCall /\ KnownTask /\ WithoutHatchet
    BY <2>1 DEF Plan!Init, Busy, OneCall, KnownTask, WithoutHatchet
  <2>4. CronsAreFound /\ OneFires
    BY <2>1 DEF Plan!Init, CronsAreFound, OneFires
  <2>5. Plan!StoredScheduleFires
    BY DEF Plan!Init, Plan!StoredScheduleFires, Plan!Quiet, Plan!Calls
  <2>6. QED BY <2>2, <2>3, <2>4, <2>5 DEF PlanInv
<1>2. PlanInv => ScheduleIsKept
  <2> SUFFICES ASSUME PlanInv PROVE Plan!OneCronUnlessFailed
    BY DEF PlanInv, ScheduleIsKept, Plan!ScheduleIsKept
  <2> SUFFICES ASSUME failures = 0 PROVE Cardinality(ticking) + Cardinality(crons) <= 1
    BY PlanCounts DEF Plan!OneCronUnlessFailed, Plan!AtMostOneCron
  <2>1. /\ Cardinality(ticking) \in {0, 1} /\ (ticking = {} => Cardinality(ticking) = 0)
        /\ Cardinality(crons) \in {0, 1} /\ (crons = {} => Cardinality(crons) = 0)
    BY AtMostOneCounts DEF PlanInv, KnownTask, OneFires
  <2>2. QED BY <2>1 DEF PlanInv, OneFires
<1>3. PlanInv /\ [Plan!Next]_(Plan!vars) => PlanInv'
  BY PlanStep, SizesAssumption
<1>4. QED BY <1>1, <1>2, <1>3, PTL DEF Plan!Spec

-----------------------------------------------------------------------------
(* The depot check: DepotCheck. *)

Results == [check : 0 .. MaxRuns, version : Nat]

CheckType ==
  /\ result \in Results
  /\ kept \in [1 .. MaxRuns -> Nat]
  /\ run \in [pc : {"idle", "starting", "working", "keep", "ending", "failing"}, mine : Results]
  /\ pending \in Nat
  /\ reconcile \in [pc : {"idle", "result", "save", "status", "interrupt"}, read : Results]
  /\ checks \in 0 .. MaxRuns

\* A result is of a check that was started, and what is about to be kept is the result shown.
OfACheck ==
  /\ result # Check!NoResult => result.check \in 1 .. MaxRuns
  /\ run.pc \in {"starting", "working", "keep"} => run.mine.check \in 1 .. MaxRuns
  /\ run.pc = "keep" => run.mine = result
  /\ reconcile.pc = "save" => reconcile.read = result /\ result # Check!NoResult

\* Once it is nobody's to keep any more, it is kept, unless a save or the read before it failed.
KeptByNow ==
  run.pc # "keep" /\ reconcile.pc \notin {"result", "save"} /\ ~due /\ result # Check!NoResult =>
    kept[result.check] = result.version

\* Progress under way is the progress of a run at work.
NotesOfARun == pending > 0 => run.pc = "working"

CheckInv == CheckType /\ OfACheck /\ KeptByNow /\ NotesOfARun /\ Check!RunningMeansAtWork

\* Starting, posting, ending, failing, looking, reconciling and restarting keep the invariant.
LEMMA CheckStep ==
  ASSUME MaxRuns \in Nat
  PROVE  CheckInv /\ [Check!Next]_(Check!vars) => CheckInv'
<1> SUFFICES ASSUME CheckInv, [Check!Next]_(Check!vars) PROVE CheckInv'
  OBVIOUS
<1> USE DEF CheckInv
<1>1. CASE UNCHANGED Check!vars
  BY <1>1 DEF Check!vars, CheckType, OfACheck, KeptByNow, NotesOfARun, Check!RunningMeansAtWork, Check!running
<1>2. ASSUME NEW kind \in {"check", "manager"}, Check!Start(kind) PROVE CheckInv'
  <2>1. /\ run.pc = "idle" /\ run'.pc = "starting" /\ checks' = checks + 1 /\ checks' \in 0 .. MaxRuns
        /\ run' \in [pc : {"starting"}, mine : Results] /\ run'.mine.check \in 1 .. MaxRuns
        /\ UNCHANGED <<checkStatus, result, kept, pending, reconcile, due>>
    BY <1>2 DEF Check!Start, Check!running, CheckType, OfACheck, Results
  <2>2. CheckType' /\ OfACheck'
    BY <2>1 DEF CheckType, OfACheck
  <2>3. KeptByNow' /\ NotesOfARun' /\ Check!RunningMeansAtWork'
    BY <2>1 DEF KeptByNow, NotesOfARun, Check!RunningMeansAtWork, Check!running, CheckType
  <2>4. QED BY <2>2, <2>3
<1>3. ASSUME Check!StatusRunning \/ Check!WriteResult \/ Check!RunFails \/ Check!KeepFails PROVE CheckInv'
  <2>1. CheckType' /\ OfACheck'
    BY <1>3 DEF Check!StatusRunning, Check!WriteResult, Check!RunFails, Check!KeepFails, Check!goto, CheckType, OfACheck
  <2>2. KeptByNow' /\ NotesOfARun'
    BY <1>3 DEF Check!StatusRunning, Check!WriteResult, Check!RunFails, Check!KeepFails, Check!goto, CheckType, KeptByNow, NotesOfARun
  <2>3. Check!RunningMeansAtWork'
    BY <1>3 DEF Check!StatusRunning, Check!WriteResult, Check!RunFails, Check!KeepFails, Check!goto, CheckType, Check!RunningMeansAtWork, Check!running
  <2>4. QED BY <2>1, <2>2, <2>3
<1>4. ASSUME Check!Note \/ Check!Land \/ Check!LoseNote PROVE CheckInv'
  <2>1. CheckType' /\ OfACheck' /\ KeptByNow'
    BY <1>4 DEF Check!Note, Check!Land, Check!LoseNote, CheckType, OfACheck, KeptByNow
  <2>2. NotesOfARun' /\ Check!RunningMeansAtWork'
    BY <1>4 DEF Check!Note, Check!Land, Check!LoseNote, CheckType, NotesOfARun, Check!RunningMeansAtWork, Check!running
  <2>3. QED BY <2>1, <2>2
<1>5. ASSUME Check!KeepResult PROVE CheckInv'
  <2>1. run.mine.check \in 1 .. MaxRuns /\ run.mine = result /\ run.pc = "keep"
    BY <1>5 DEF Check!KeepResult, OfACheck
  <2>2. kept' = [kept EXCEPT ![result.check] = result.version] /\ UNCHANGED <<checkStatus, result, pending, reconcile, checks>>
    BY <1>5, <2>1 DEF Check!KeepResult, Check!Keep
  <2>3. run' = [run EXCEPT !.pc = "ending"]
    BY <1>5 DEF Check!KeepResult, Check!goto
  <2>4. CheckType' /\ OfACheck'
    BY <2>1, <2>2, <2>3 DEF CheckType, OfACheck, Results
  <2>5. KeptByNow' /\ NotesOfARun' /\ Check!RunningMeansAtWork'
    BY <2>1, <2>2, <2>3 DEF CheckType, KeptByNow, NotesOfARun, Check!RunningMeansAtWork, Check!running
  <2>6. QED BY <2>4, <2>5
<1>6. ASSUME Check!End PROVE CheckInv'
  <2>1. /\ run.pc \in {"ending", "failing"} /\ run' = [pc |-> "idle", mine |-> Check!NoResult]
        /\ checkStatus' # "running" \/ unsettled'
        /\ UNCHANGED <<result, kept, pending, reconcile, checks, due>>
    BY <1>6 DEF Check!End
  <2>2. CheckType' /\ OfACheck'
    BY <2>1 DEF CheckType, OfACheck, Results, Check!NoResult
  <2>3. KeptByNow' /\ NotesOfARun' /\ Check!RunningMeansAtWork'
    BY <2>1 DEF CheckType, KeptByNow, NotesOfARun, Check!RunningMeansAtWork
  <2>4. QED BY <2>2, <2>3
<1>7. ASSUME Check!Boot PROVE CheckInv'
  <2>1. /\ run' = [pc |-> "idle", mine |-> Check!NoResult] /\ pending' = 0
        /\ reconcile' = [pc |-> "result", read |-> Check!NoResult]
        /\ UNCHANGED <<result, kept, checks, due>>
    BY <1>7 DEF Check!Boot
  <2>2. CheckType' /\ OfACheck'
    BY <2>1 DEF CheckType, OfACheck, Results, Check!NoResult
  <2>3. KeptByNow' /\ NotesOfARun' /\ Check!RunningMeansAtWork'
    BY <2>1 DEF KeptByNow, NotesOfARun, Check!RunningMeansAtWork
  <2>4. QED BY <2>2, <2>3
<1>8. ASSUME Check!ReadResult PROVE CheckInv'
  <2>1. CheckType' /\ OfACheck'
    BY <1>8 DEF Check!ReadResult, CheckType, OfACheck, Results, Check!NoResult
  <2>2. KeptByNow' /\ NotesOfARun' /\ Check!RunningMeansAtWork'
    BY <1>8 DEF Check!ReadResult, CheckType, KeptByNow, NotesOfARun, Check!RunningMeansAtWork, Check!running
  <2>3. QED BY <2>1, <2>2
<1>9. ASSUME Check!SaveResult PROVE CheckInv'
  <2>1. /\ reconcile.pc = "save" /\ reconcile.read = result /\ result # Check!NoResult
        /\ result.check \in 1 .. MaxRuns
        /\ reconcile' = [reconcile EXCEPT !.pc = "status"]
        /\ UNCHANGED <<checkStatus, result, run, pending, checks, unsettled>>
    BY <1>9 DEF Check!SaveResult, OfACheck
  <2>2. \/ kept' = [kept EXCEPT ![result.check] = result.version]
        \/ due' = TRUE /\ kept' = kept
    BY <1>9, <2>1 DEF Check!SaveResult, Check!Keep
  <2>3. CheckType' /\ OfACheck'
    BY <2>1, <2>2 DEF CheckType, OfACheck, Results
  <2>4. KeptByNow' /\ NotesOfARun' /\ Check!RunningMeansAtWork'
    BY <2>1, <2>2 DEF CheckType, KeptByNow, NotesOfARun, Check!RunningMeansAtWork, Check!running
  <2>5. QED BY <2>3, <2>4
<1>10. ASSUME Check!ReadStatus \/ Check!Interrupt PROVE CheckInv'
  <2>1. CheckType' /\ OfACheck'
    BY <1>10 DEF Check!ReadStatus, Check!Interrupt, CheckType, OfACheck, Results, Check!NoResult
  <2>2. KeptByNow' /\ NotesOfARun'
    BY <1>10 DEF Check!ReadStatus, Check!Interrupt, CheckType, KeptByNow, NotesOfARun
  <2>3. Check!RunningMeansAtWork'
    <3>1. CASE Check!ReadStatus
      <4>1. CASE reconcile'.pc = "interrupt" \/ checkStatus # "running" \/ Check!running
        BY <3>1, <4>1 DEF Check!ReadStatus, NotesOfARun, Check!RunningMeansAtWork, Check!running
      <4>2. CASE unsettled' = ~Check!running
        BY <3>1, <4>2 DEF Check!ReadStatus, NotesOfARun, Check!RunningMeansAtWork, Check!running
      <4>3. QED BY <3>1, <4>1, <4>2 DEF Check!ReadStatus
    <3>2. CASE Check!Interrupt
      <4>1. UNCHANGED <<run, pending>> /\ (checkStatus' # "running" \/ (unsettled' <=> ~Check!running))
        BY <3>2 DEF Check!Interrupt
      <4>2. QED BY <4>1 DEF NotesOfARun, Check!RunningMeansAtWork, Check!running
    <3>3. QED BY <1>10, <3>1, <3>2
  <2>4. QED BY <2>1, <2>2, <2>3
<1>11. QED BY <1>1, <1>2, <1>3, <1>4, <1>5, <1>6, <1>7, <1>8, <1>9, <1>10
  DEF Check!Next, Check!RunStep, Check!BootStep

\* In every behaviour of the depot check, the result shown is kept in its latest version once
\* nothing is under way, unless saving it failed or a boot could not read it, and a status says running
\* only while somebody is at work, unless the last word was lost or a boot could not read it.
THEOREM CheckTruth ==
  Check!Spec => []CheckTellsTheTruth
<1>1. Check!Init => CheckInv
  BY SizesAssumption DEF Check!Init, CheckInv, CheckType, OfACheck, KeptByNow, NotesOfARun, Results, Check!NoResult,
         Check!RunningMeansAtWork, Check!running
<1>2. CheckInv => CheckTellsTheTruth
  BY DEF CheckInv, KeptByNow, CheckTellsTheTruth, Check!CheckTellsTheTruth, Check!ResultIsKept, Check!running
<1>3. CheckInv /\ [Check!Next]_(Check!vars) => CheckInv'
  BY CheckStep, SizesAssumption
<1>4. QED BY <1>1, <1>2, <1>3, PTL DEF Check!Spec

-----------------------------------------------------------------------------
(* The calibration: CalibrationRun. *)

CalibrationType ==
  /\ child \in 0 .. MaxRuns /\ runs \in 0 .. MaxRuns
  /\ phase \in [Calibration!Runs -> {"none", "spawned", "working", "proposed", "done", "failing", "broken", "exited"}]
  /\ status \in [state : {"none", "running", "done", "failed", "interrupted"}, of : 0 .. MaxRuns]
  /\ look \in [pc : {"idle", "judge", "write"}, of : 0 .. MaxRuns]
  /\ exits \subseteq Calibration!Runs /\ reported \subseteq Calibration!Runs

\* What is written or about to be written is of a run that was started.
OfARun ==
  /\ child <= runs
  /\ \A r \in Calibration!Runs : phase[r] # "none" => r <= runs
  /\ status.of <= runs /\ (status.state # "none" => status.of # 0)
  /\ look.pc # "idle" => look.of # 0 /\ look.of <= runs

\* Only a run past its work has said done, and only one that ended badly is heard of as failed.
EndsAreEnds ==
  /\ \A r \in reported : phase[r] \in {"done", "failing", "broken", "exited"}
  /\ \A r \in exits : phase[r] = "broken"

\* A look that came too late for the status has not come too late for its run.
ChildIsAlive ==
  /\ status.state = "interrupted" => status.of # child
  /\ look.pc = "write" => look.of # child

OneAtATime == \A r, s \in Calibration!Working : r # s => "beside" \in calibrationMishaps

\* While a run works on its own, nothing says done, and the proposal it made is the one stored.
OnItsOwn ==
  "beside" \notin calibrationMishaps => \A r \in Calibration!Runs :
    /\ phase[r] \in {"working", "proposed"} => status.state # "done"
    /\ phase[r] = "proposed" => proposal = r

DoneIsDone ==
  calibrationMishaps = {} =>
    /\ status.state = "done" => status.of \in reported /\ proposal = status.of
    /\ status.of \in reported =>
        status.state = "done" \/ (status.state = "failed" /\ phase[status.of] = "broken")

CalibrationInv ==
  CalibrationType /\ OfARun /\ EndsAreEnds /\ ChildIsAlive /\ OneAtATime /\ OnItsOwn /\ DoneIsDone

\* A run takes a step beside others only where that was noted.
LEMMA AloneAtWork ==
  ASSUME OneAtATime, "beside" \notin calibrationMishaps,
         NEW r \in Calibration!Runs, NEW s \in Calibration!Runs,
         phase[r] \in {"spawned", "working", "proposed", "done", "failing"},
         phase[s] \in {"spawned", "working", "proposed", "done", "failing"}
  PROVE  r = s
  BY DEF OneAtATime, Calibration!Working

\* Starts, the words and the exit of the child, looks and restarts keep the invariant.
LEMMA CalibrationStep ==
  ASSUME MaxRuns \in Nat
  PROVE  CalibrationInv /\ [Calibration!Next]_(Calibration!vars) => CalibrationInv'
<1> SUFFICES ASSUME CalibrationInv, [Calibration!Next]_(Calibration!vars) PROVE CalibrationInv'
  OBVIOUS
<1> USE DEF CalibrationInv, Calibration!Runs
<1>1. CASE UNCHANGED Calibration!vars
  BY <1>1 DEF Calibration!vars, CalibrationType, OfARun, EndsAreEnds, ChildIsAlive, OneAtATime, OnItsOwn,
              DoneIsDone, Calibration!Working
<1>2. ASSUME Calibration!startCalibration PROVE CalibrationInv'
  <2>1. /\ runs < MaxRuns /\ runs' = runs + 1 /\ child' = runs + 1 /\ phase' = [phase EXCEPT ![runs + 1] = "spawned"]
        /\ calibrationMishaps' = IF Calibration!Working # {} THEN calibrationMishaps \union {"beside"} ELSE calibrationMishaps
        /\ UNCHANGED <<status, proposal, exits, look, reported>>
    BY <1>2 DEF Calibration!startCalibration, Calibration!goto
  <2>2. phase[runs + 1] = "none"
    BY <2>1 DEF CalibrationType, OfARun
  <2>3. CalibrationType' /\ OfARun' /\ ChildIsAlive'
    BY <2>1 DEF CalibrationType, OfARun, ChildIsAlive
  <2>4. EndsAreEnds' /\ DoneIsDone'
    BY <2>1, <2>2 DEF CalibrationType, EndsAreEnds, DoneIsDone
  <2>5. OneAtATime'
    <3>1. CASE Calibration!Working = {}
      BY <2>1, <3>1 DEF CalibrationType, OneAtATime, Calibration!Working
    <3>2. CASE Calibration!Working # {}
      BY <2>1, <3>2 DEF OneAtATime
    <3>3. QED BY <3>1, <3>2
  <2>6. OnItsOwn'
    BY <2>1 DEF CalibrationType, OnItsOwn
  <2>7. QED BY <2>3, <2>4, <2>5, <2>6
<1>3. ASSUME Calibration!HearExit PROVE CalibrationInv'
  <2>1. /\ child # 0 /\ child' = 0
        /\ exits' = IF phase[child] = "broken" THEN exits \union {child} ELSE exits
        /\ UNCHANGED <<runs, phase, status, proposal, look, reported, calibrationMishaps>>
    BY <1>3 DEF Calibration!HearExit
  <2>2. CalibrationType' /\ OfARun' /\ EndsAreEnds' /\ ChildIsAlive'
    BY <2>1 DEF CalibrationType, OfARun, EndsAreEnds, ChildIsAlive
  <2>3. OneAtATime' /\ OnItsOwn' /\ DoneIsDone'
    BY <2>1 DEF OneAtATime, Calibration!Working, OnItsOwn, DoneIsDone
  <2>4. QED BY <2>2, <2>3
<1>4. ASSUME NEW r \in Calibration!Runs, Calibration!MarkFailed(r) PROVE CalibrationInv'
  <2>1. /\ r \in exits /\ exits' = exits \ {r}
        /\ status' \in {status, [state |-> "failed", of |-> r]}
        /\ UNCHANGED <<child, runs, phase, proposal, look, reported, calibrationMishaps>>
    BY <1>4 DEF Calibration!MarkFailed
  <2>2. phase[r] = "broken"
    BY <2>1 DEF EndsAreEnds
  <2>3. CalibrationType' /\ OfARun' /\ EndsAreEnds' /\ ChildIsAlive'
    BY <2>1, <2>2 DEF CalibrationType, OfARun, EndsAreEnds, ChildIsAlive
  <2>4. OneAtATime' /\ OnItsOwn' /\ DoneIsDone'
    BY <2>1, <2>2 DEF OneAtATime, Calibration!Working, OnItsOwn, DoneIsDone
  <2>5. QED BY <2>3, <2>4
<1>5. ASSUME Calibration!ReadStatus \/ Calibration!Judge PROVE CalibrationInv'
  <2>1. UNCHANGED <<child, runs, phase, status, proposal, exits, reported, calibrationMishaps>>
    BY <1>5 DEF Calibration!ReadStatus, Calibration!Judge
  <2>2. CalibrationType' /\ OfARun' /\ ChildIsAlive'
    BY <1>5 DEF Calibration!ReadStatus, Calibration!Judge, Calibration!NoLook, CalibrationType, OfARun, ChildIsAlive
  <2>3. EndsAreEnds' /\ OneAtATime' /\ OnItsOwn' /\ DoneIsDone'
    BY <2>1 DEF EndsAreEnds, OneAtATime, Calibration!Working, OnItsOwn, DoneIsDone
  <2>4. QED BY <2>2, <2>3
<1>6. ASSUME Calibration!Interrupt PROVE CalibrationInv'
  <2>1. /\ look.pc = "write" /\ look' = Calibration!NoLook
        /\ \/ /\ status' = [state |-> "interrupted", of |-> look.of]
              /\ calibrationMishaps' = IF status # [state |-> "running", of |-> look.of] THEN calibrationMishaps \union {"stale"} ELSE calibrationMishaps
           \/ UNCHANGED <<status, calibrationMishaps>>
        /\ UNCHANGED <<child, runs, phase, proposal, exits, reported>>
    BY <1>6 DEF Calibration!Interrupt
  <2>2. CalibrationType' /\ OfARun' /\ EndsAreEnds' /\ ChildIsAlive'
    BY <2>1 DEF Calibration!NoLook, CalibrationType, OfARun, EndsAreEnds, ChildIsAlive
  <2>3. OneAtATime' /\ OnItsOwn'
    BY <2>1 DEF OneAtATime, Calibration!Working, OnItsOwn
  <2>4. DoneIsDone'
    BY <2>1 DEF DoneIsDone
  <2>5. QED BY <2>2, <2>3, <2>4
<1>7. ASSUME Calibration!Restart PROVE CalibrationInv'
  <2>1. /\ child' = 0 /\ exits' = {} /\ look' = Calibration!NoLook
        /\ phase' \in {phase, [r \in Calibration!Runs |-> IF r \in Calibration!Working THEN "broken" ELSE phase[r]]}
        /\ UNCHANGED <<runs, status, proposal, reported, calibrationMishaps>>
    BY <1>7 DEF Calibration!Restart
  <2>2. CalibrationType' /\ OfARun' /\ EndsAreEnds' /\ ChildIsAlive'
    BY <2>1 DEF Calibration!NoLook, CalibrationType, OfARun, EndsAreEnds, ChildIsAlive, Calibration!Working
  <2>3. OneAtATime' /\ OnItsOwn' /\ DoneIsDone'
    BY <2>1 DEF CalibrationType, OneAtATime, Calibration!Working, OnItsOwn, DoneIsDone
  <2>4. QED BY <2>2, <2>3
<1>8. ASSUME NEW r \in Calibration!Runs, Calibration!SayRunning(r) PROVE CalibrationInv'
  <2>1. /\ phase[r] = "spawned" /\ status' = [state |-> "running", of |-> r] /\ phase' = [phase EXCEPT ![r] = "working"]
        /\ UNCHANGED <<child, runs, proposal, exits, look, reported, calibrationMishaps>>
    BY <1>8 DEF Calibration!SayRunning, Calibration!goto
  <2>2. CalibrationType' /\ OfARun' /\ EndsAreEnds' /\ ChildIsAlive'
    BY <2>1 DEF CalibrationType, OfARun, EndsAreEnds, ChildIsAlive
  <2>3. OneAtATime' /\ OnItsOwn' /\ DoneIsDone'
    BY <2>1 DEF CalibrationType, EndsAreEnds, OneAtATime, Calibration!Working, OnItsOwn, DoneIsDone
  <2>4. QED BY <2>2, <2>3
<1>9. ASSUME NEW r \in Calibration!Runs, Calibration!SayFailed(r) PROVE CalibrationInv'
  <2>1. /\ phase[r] = "failing" /\ status' \in {status, [state |-> "failed", of |-> r]}
        /\ phase' = [phase EXCEPT ![r] = "broken"]
        /\ UNCHANGED <<child, runs, proposal, exits, look, reported, calibrationMishaps>>
    BY <1>9 DEF Calibration!SayFailed, Calibration!goto
  <2>2. CalibrationType' /\ OfARun' /\ EndsAreEnds' /\ ChildIsAlive'
    BY <2>1 DEF CalibrationType, OfARun, EndsAreEnds, ChildIsAlive
  <2>3. OneAtATime' /\ OnItsOwn'
    BY <2>1 DEF CalibrationType, OneAtATime, Calibration!Working, OnItsOwn
  <2>4. DoneIsDone'
    BY <2>1 DEF CalibrationType, DoneIsDone
  <2>5. QED BY <2>2, <2>3, <2>4
<1>10. ASSUME NEW r \in Calibration!Runs, Calibration!Propose(r) PROVE CalibrationInv'
  <2>1. /\ phase[r] = "working" /\ proposal' = r /\ phase' = [phase EXCEPT ![r] = "proposed"]
        /\ UNCHANGED <<child, runs, status, exits, look, reported, calibrationMishaps>>
    BY <1>10 DEF Calibration!Propose, Calibration!goto
  <2>2. CalibrationType' /\ OfARun' /\ EndsAreEnds' /\ ChildIsAlive' /\ OneAtATime'
    BY <2>1 DEF CalibrationType, OfARun, EndsAreEnds, ChildIsAlive, OneAtATime, Calibration!Working
  <2>3. OnItsOwn' /\ DoneIsDone'
    BY <2>1, AloneAtWork DEF CalibrationType, OnItsOwn, DoneIsDone
  <2>4. QED BY <2>2, <2>3
<1>11. ASSUME NEW r \in Calibration!Runs, Calibration!SayDone(r) PROVE CalibrationInv'
  <2>1. /\ phase[r] = "proposed" /\ status' = [state |-> "done", of |-> r] /\ reported' = reported \union {r}
        /\ phase' = [phase EXCEPT ![r] = "done"]
        /\ UNCHANGED <<child, runs, proposal, exits, look, calibrationMishaps>>
    BY <1>11 DEF Calibration!SayDone, Calibration!goto
  <2>2. CalibrationType' /\ OfARun' /\ EndsAreEnds' /\ ChildIsAlive' /\ OneAtATime'
    BY <2>1 DEF CalibrationType, OfARun, EndsAreEnds, ChildIsAlive, OneAtATime, Calibration!Working
  <2>3. OnItsOwn' /\ DoneIsDone'
    BY <2>1, AloneAtWork DEF CalibrationType, OnItsOwn, DoneIsDone
  <2>4. QED BY <2>2, <2>3
<1>12. ASSUME NEW r \in Calibration!Runs, Calibration!Exit(r) \/ Calibration!Break(r) \/ Calibration!Killed(r)
       PROVE CalibrationInv'
  <2>1. /\ phase[r] \in {"spawned", "working", "proposed", "done", "failing"}
        /\ \/ phase[r] = "done" /\ phase' = [phase EXCEPT ![r] = "exited"]
           \/ phase' \in {[phase EXCEPT ![r] = "failing"], [phase EXCEPT ![r] = "broken"]}
        /\ UNCHANGED <<child, runs, status, proposal, exits, look, reported, calibrationMishaps>>
    BY <1>12 DEF Calibration!Exit, Calibration!Break, Calibration!Killed, Calibration!Working, Calibration!goto
  <2>2. CalibrationType' /\ OfARun' /\ EndsAreEnds' /\ ChildIsAlive' /\ OneAtATime'
    BY <2>1 DEF CalibrationType, OfARun, EndsAreEnds, ChildIsAlive, OneAtATime, Calibration!Working
  <2>3. OnItsOwn' /\ DoneIsDone'
    BY <2>1 DEF CalibrationType, OnItsOwn, DoneIsDone
  <2>4. QED BY <2>2, <2>3
<1>13. QED BY <1>1, <1>2, <1>3, <1>4, <1>5, <1>6, <1>7, <1>8, <1>9, <1>10, <1>11, <1>12
  DEF Calibration!Next, Calibration!Look, Calibration!RunStep

\* In every behaviour of the calibration, two runs work at once only where one outlived its
\* server, a run the server has is not called interrupted, and the status is the outcome of its run,
\* or failed where that said done and then died.
THEOREM CalibrationTruth ==
  Calibration!Spec => []OutcomeStands
<1>1. Calibration!Init => CalibrationInv
  BY SizesAssumption DEF Calibration!Init, Calibration!NoLook, Calibration!Runs, Calibration!Working, CalibrationInv, CalibrationType,
         OfARun, EndsAreEnds, ChildIsAlive, OneAtATime, OnItsOwn, DoneIsDone
<1>2. CalibrationInv => OutcomeStands
  BY DEF CalibrationInv, ChildIsAlive, OneAtATime, DoneIsDone, OutcomeStands, Calibration!OutcomeStands
<1>3. CalibrationInv /\ [Calibration!Next]_(Calibration!vars) => CalibrationInv'
  BY CalibrationStep, SizesAssumption
<1>4. QED BY <1>1, <1>2, <1>3, PTL DEF Calibration!Spec

-----------------------------------------------------------------------------
(* The night watch of the depot: DepotWatch. *)

WatchType ==
  /\ standing \subseteq Signals /\ remembered \subseteq Signals
  /\ watch \in [Watchers -> [pc : {"idle", "before", "message", "write"},
                             now : SUBSET Signals, before : SUBSET Signals]]
  /\ alarms \in [Signals -> Nat]

\* What is or will be remembered was heard.
MemoryWasHeard ==
  /\ remembered \subseteq heard
  /\ \A w \in Watchers : /\ watch[w].pc = "message" => watch[w].before \subseteq heard
                         /\ watch[w].pc = "write" => watch[w].now \subseteq heard

Calm == watchMishaps \subseteq {"refused"}

\* Unless looks overlap or a memory could not be read, one looks at a time, at what stands
\* and at what is remembered.
OneLook ==
  Calm => \A w \in Watchers :
    /\ watch[w].pc # "idle" => /\ watch[w].now = standing
                               /\ \A u \in Watchers \ {w} : watch[u].pc = "idle"
    /\ watch[w].pc = "message" => watch[w].before = remembered

NobodyWrites == \A w \in Watchers : watch[w].pc # "write"
NobodyLooks == \A w \in Watchers : watch[w].pc = "idle"

\* What was told still stands, was told once, and is remembered unless it is just being written.
ToldIsRemembered ==
  Calm => \A x \in Signals :
    /\ alarms[x] <= 1
    /\ alarms[x] = 1 => x \in standing /\ (NobodyWrites => x \in remembered)

\* Unless something went wrong, what is remembered and stands was told.
RememberedIsTold ==
  watchMishaps = {} =>
    /\ NobodyLooks => standing = remembered
    /\ NobodyWrites => \A x \in standing \cap remembered : alarms[x] = 1
    /\ \A w \in Watchers : watch[w].pc = "write" => \A x \in watch[w].now : alarms[x] = 1

WatchInv == WatchType /\ MemoryWasHeard /\ OneLook /\ ToldIsRemembered /\ RememberedIsTold

\* Each step of the nightly look, of the depot and of what fails keeps the invariant.
LEMMA WatchStep == WatchInv /\ [Depot!Next]_(Depot!vars) => WatchInv'
<1> SUFFICES ASSUME WatchInv, [Depot!Next]_(Depot!vars) PROVE WatchInv'
  OBVIOUS
<1> USE DEF WatchInv
<1>1. CASE UNCHANGED Depot!vars
  BY <1>1 DEF Depot!vars, WatchType, MemoryWasHeard, Calm, OneLook, NobodyWrites, NobodyLooks, ToldIsRemembered,
              RememberedIsTold
<1>2. ASSUME NEW w \in Watchers, Depot!ReadView(w) PROVE WatchInv'
  <2>1. PICK seen \in SUBSET Signals :
          /\ standing' = seen
          /\ watch' = [watch EXCEPT ![w] = [pc |-> "before", now |-> seen, before |-> {}]]
          /\ alarms' = [x \in Signals |-> IF x \in seen THEN alarms[x] ELSE 0]
    BY <1>2 DEF Depot!ReadView
  <2>2. /\ watch[w].pc = "idle" /\ UNCHANGED <<remembered, heard>>
        /\ watchMishaps' = IF \E u \in Watchers \ {w} : watch[u].pc # "idle" THEN watchMishaps \union {"raced"} ELSE watchMishaps
    BY <1>2 DEF Depot!ReadView
  <2>3. WatchType' /\ MemoryWasHeard'
    BY <2>1, <2>2 DEF WatchType, MemoryWasHeard
  <2>4. Calm' => Calm /\ NobodyLooks
    BY <2>2 DEF Calm, NobodyLooks
  <2>5. OneLook'
    BY <2>1, <2>2, <2>4 DEF WatchType, OneLook, NobodyLooks
  <2>6. NobodyLooks => NobodyWrites
    BY DEF NobodyLooks, NobodyWrites
  <2>7. ToldIsRemembered'
    BY <2>1, <2>2, <2>4, <2>6 DEF WatchType, ToldIsRemembered
  <2>8. RememberedIsTold'
    <3> SUFFICES ASSUME watchMishaps' = {} PROVE RememberedIsTold'
      BY DEF RememberedIsTold
    <3>1. watchMishaps = {} /\ NobodyLooks
      BY <2>2, <2>4 DEF Calm
    <3>2. ~NobodyLooks' /\ \A u \in Watchers : watch'[u].pc # "write"
      BY <2>1, <3>1 DEF WatchType, NobodyLooks
    <3>3. \A x \in standing' \cap remembered' : alarms'[x] = 1
      BY <2>1, <2>2, <2>6, <3>1 DEF WatchType, RememberedIsTold
    <3>4. QED BY <3>2, <3>3 DEF RememberedIsTold
  <2>9. QED BY <2>3, <2>5, <2>7, <2>8
<1>3. ASSUME NEW w \in Watchers, NEW before \in SUBSET Signals, before \subseteq heard,
             watch[w].pc = "before", Depot!Compare(w, before), UNCHANGED <<standing, remembered, alarms, heard>>,
             watchMishaps \subseteq watchMishaps', Calm' => before = remembered
      PROVE  WatchInv'
  <2>1. watch' = [watch EXCEPT ![w] = [pc |-> IF watch[w].now \ before = {} THEN "write" ELSE "message",
                                       now |-> watch[w].now, before |-> before]]
    BY <1>3 DEF Depot!Compare, Depot!newSignals, WatchType
  <2>2. WatchType'
    BY <1>3, <2>1 DEF WatchType
  <2>3. MemoryWasHeard'
    BY <1>3, <2>1 DEF WatchType, MemoryWasHeard
  <2>4. OneLook'
    BY <1>3, <2>1 DEF WatchType, OneLook, Calm
  <2>5. ToldIsRemembered'
    BY <1>3, <2>1 DEF WatchType, OneLook, ToldIsRemembered, Calm, NobodyWrites
  <2>6. RememberedIsTold'
    <3> SUFFICES ASSUME watchMishaps' = {} PROVE RememberedIsTold'
      BY DEF RememberedIsTold
    <3>1. watchMishaps = {} /\ NobodyWrites /\ before = remembered /\ watch[w].now = standing
      BY <1>3 DEF OneLook, Calm, NobodyWrites
    <3>2. \A u \in Watchers \ {w} : watch[u].pc = "idle"
      BY <1>3, <3>1 DEF OneLook, Calm
    <3>3. ~NobodyLooks' /\ \A x \in standing' \cap remembered' : alarms'[x] = 1
      BY <1>3, <2>1, <3>1 DEF WatchType, RememberedIsTold, NobodyLooks
    <3>4. \A u \in Watchers : watch'[u].pc = "write" => \A x \in watch'[u].now : alarms'[x] = 1
      BY <1>3, <2>1, <3>1, <3>2 DEF WatchType, RememberedIsTold
    <3>5. QED BY <3>3, <3>4 DEF RememberedIsTold
  <2>7. QED BY <2>2, <2>3, <2>4, <2>5, <2>6
<1>4. ASSUME NEW w \in Watchers, Depot!ReadBefore(w) PROVE WatchInv'
  BY <1>3, <1>4 DEF Depot!ReadBefore, WatchType, MemoryWasHeard
<1>5. ASSUME NEW w \in Watchers, Depot!ReadNothing(w) PROVE WatchInv'
  <2>1. watchMishaps' = watchMishaps \union {"forgotten"}
    BY <1>5 DEF Depot!ReadNothing, Depot!Fault
  <2>2. QED BY <1>3, <1>5, <2>1 DEF Depot!ReadNothing, Calm
<1>6. ASSUME NEW w \in Watchers, Depot!Deliver(w) PROVE WatchInv'
  <2> DEFINE fresh == watch[w].now \ watch[w].before
  <2>1. /\ watch[w].pc = "message"
        /\ alarms' = [x \in Signals |-> IF x \in fresh /\ alarms[x] < 2 THEN alarms[x] + 1 ELSE alarms[x]]
        /\ heard' = heard \union fresh
        /\ watch' = [watch EXCEPT ![w].pc = "write"]
        /\ UNCHANGED <<standing, remembered, watchMishaps>>
    BY <1>6 DEF Depot!Deliver, Depot!newSignals
  <2>2. fresh \subseteq Signals
    BY DEF WatchType
  <2>3. WatchType'
    BY <2>1 DEF WatchType
  <2>4. MemoryWasHeard'
    BY <2>1 DEF WatchType, MemoryWasHeard
  <2>5. OneLook'
    BY <2>1 DEF WatchType, OneLook, Calm
  <2>6. Calm => watch[w].now = standing /\ watch[w].before = remembered /\ NobodyWrites
    BY <2>1 DEF OneLook, NobodyWrites
  <2>7. ToldIsRemembered'
    <3> SUFFICES ASSUME Calm, NEW x \in Signals
                 PROVE  alarms'[x] <= 1 /\ (alarms'[x] = 1 => x \in standing)
      BY <2>1 DEF ToldIsRemembered, WatchType, Calm, NobodyWrites
    <3>1. alarms[x] \in Nat /\ alarms[x] <= 1 /\ (alarms[x] = 1 => x \in standing /\ x \in remembered)
      BY <2>6 DEF WatchType, ToldIsRemembered
    <3>2. alarms'[x] = IF x \in fresh THEN alarms[x] + 1 ELSE alarms[x]
      BY <2>1, <3>1
    <3>3. QED BY <2>6, <3>1, <3>2
  <2>8. RememberedIsTold'
    <3> SUFFICES ASSUME watchMishaps = {} PROVE RememberedIsTold'
      BY <2>1 DEF RememberedIsTold
    <3>1. \A u \in Watchers \ {w} : watch[u].pc = "idle"
      BY <2>1 DEF OneLook, Calm
    <3>2. \A x \in watch[w].now : alarms'[x] = 1
      <4> SUFFICES ASSUME NEW x \in watch[w].now PROVE alarms'[x] = 1
        OBVIOUS
      <4>1. x \in Signals /\ alarms[x] \in Nat /\ alarms[x] <= 1 /\ (alarms[x] = 1 => x \in remembered)
        BY <2>6 DEF WatchType, ToldIsRemembered, Calm
      <4>2. x \in remembered => alarms[x] = 1
        BY <2>6 DEF RememberedIsTold, Calm
      <4>3. QED BY <2>1, <2>6, <4>1, <4>2 DEF Calm
    <3>3. ~NobodyLooks' /\ ~NobodyWrites'
      BY <2>1 DEF WatchType, NobodyLooks, NobodyWrites
    <3>4. \A u \in Watchers : watch'[u].pc = "write" => u = w /\ watch'[u].now = watch[w].now
      BY <2>1, <3>1 DEF WatchType
    <3>5. QED BY <3>2, <3>3, <3>4 DEF RememberedIsTold
  <2>9. QED BY <2>3, <2>4, <2>5, <2>7, <2>8
<1>7. ASSUME NEW w \in Watchers, Depot!Refused(w) PROVE WatchInv'
  <2>1. /\ watch[w].pc = "message" /\ watchMishaps' = watchMishaps \union {"refused"}
        /\ watch' = [watch EXCEPT ![w] = Depot!Off]
        /\ UNCHANGED <<standing, remembered, alarms, heard>>
    BY <1>7 DEF Depot!Refused, Depot!Fault, Depot!Leave
  <2>2. WatchType' /\ MemoryWasHeard'
    BY <2>1 DEF WatchType, MemoryWasHeard, Depot!Off
  <2>3. OneLook'
    BY <2>1 DEF WatchType, OneLook, Calm, Depot!Off
  <2>4. ToldIsRemembered'
    BY <2>1 DEF WatchType, OneLook, ToldIsRemembered, Calm, NobodyWrites, Depot!Off
  <2>5. RememberedIsTold'
    BY <2>1 DEF RememberedIsTold
  <2>6. QED BY <2>2, <2>3, <2>4, <2>5
<1>8. ASSUME NEW w \in Watchers, Depot!Write(w) PROVE WatchInv'
  <2>1. /\ watch[w].pc = "write" /\ remembered' = watch[w].now
        /\ watch' = [watch EXCEPT ![w] = Depot!Off]
        /\ UNCHANGED <<standing, alarms, heard, watchMishaps>>
    BY <1>8 DEF Depot!Write, Depot!Leave
  <2>2. WatchType' /\ MemoryWasHeard'
    BY <2>1 DEF WatchType, MemoryWasHeard, Depot!Off
  <2>3. OneLook'
    BY <2>1 DEF WatchType, OneLook, Calm, Depot!Off
  <2>4. Calm => watch[w].now = standing
    BY <2>1 DEF OneLook
  <2>5. ToldIsRemembered'
    BY <2>1, <2>4 DEF ToldIsRemembered, Calm
  <2>6. RememberedIsTold'
    <3> SUFFICES ASSUME watchMishaps = {} PROVE RememberedIsTold'
      BY <2>1 DEF RememberedIsTold
    <3>1. \A u \in Watchers \ {w} : watch[u].pc = "idle"
      BY <2>1 DEF OneLook, Calm
    <3>2. NobodyWrites' /\ standing' = remembered'
      BY <2>1, <2>4, <3>1 DEF WatchType, NobodyWrites, Calm, Depot!Off
    <3>3. \A x \in standing' : alarms'[x] = 1
      BY <2>1, <2>4 DEF RememberedIsTold, Calm
    <3>4. QED BY <3>2, <3>3 DEF RememberedIsTold, NobodyWrites
  <2>7. QED BY <2>2, <2>3, <2>5, <2>6
<1>9. ASSUME NEW w \in Watchers, Depot!LoseWrite(w) PROVE WatchInv'
  <2>1. /\ watchMishaps' = watchMishaps \union {"unwritten"} /\ watch' = [watch EXCEPT ![w] = Depot!Off]
        /\ UNCHANGED <<standing, remembered, alarms, heard>>
    BY <1>9 DEF Depot!LoseWrite, Depot!Fault, Depot!Leave
  <2>2. WatchType' /\ MemoryWasHeard'
    BY <2>1 DEF WatchType, MemoryWasHeard, Depot!Off
  <2>3. OneLook' /\ ToldIsRemembered' /\ RememberedIsTold'
    BY <2>1 DEF Calm, OneLook, ToldIsRemembered, RememberedIsTold
  <2>4. QED BY <2>2, <2>3
<1>10. QED BY <1>1, <1>2, <1>4, <1>5, <1>6, <1>7, <1>8, <1>9 DEF Depot!Next, Depot!Look

\* The night watch of the depot: no signal is told twice while it stands, one that stands behind
\* a look that came to its end was told, and none is remembered that the receiver never heard of.
THEOREM SignalsToldOnce == Depot!Spec => []Depot!SignalsAreToldOnce
<1>1. Depot!Init => WatchInv
  BY DEF Depot!Init, Depot!Off, WatchInv, WatchType, MemoryWasHeard, Calm, OneLook, ToldIsRemembered, RememberedIsTold
<1>2. WatchInv => Depot!SignalsAreToldOnce
  <2> SUFFICES ASSUME WatchInv PROVE Depot!SignalsAreToldOnce
    OBVIOUS
  <2>1. watchMishaps \subseteq {"refused"} => \A x \in Signals : alarms[x] <= 1
    BY DEF WatchInv, ToldIsRemembered, Calm
  <2>2. watchMishaps = {} /\ NobodyLooks => \A x \in standing : alarms[x] = 1
    BY DEF WatchInv, RememberedIsTold, NobodyLooks, NobodyWrites
  <2>3. QED BY <2>1, <2>2 DEF WatchInv, MemoryWasHeard, NobodyLooks, Depot!SignalsAreToldOnce
<1>3. QED BY <1>1, <1>2, WatchStep, PTL DEF Depot!Spec

-----------------------------------------------------------------------------
(* The morning's message: Digest. *)

MessageType ==
  /\ old \in [Events -> Nat]
  /\ archived \subseteq Events /\ sent \subseteq Events /\ skipped \subseteq Events
  /\ send \in [Senders -> [pc : {"idle", "sent", "message", "write"}, day : {0, 1}, feed : SUBSET Events,
                           known : SUBSET Events, fresh : SUBSET Events]]
  /\ told \in [Events -> Nat]

\* What the receiver has got, or a first message counted.
Counted == {e \in Events : told[e] >= 1} \union skipped

\* What a message tells of is of its feed and new; all of its feed is too young to be forgotten.
FeedIsOfItsWindow ==
  \A s \in Senders :
    /\ \A e \in send[s].feed : old[e] <= Lookback + send[s].day
    /\ send[s].pc = "message" => /\ send[s].fresh \subseteq send[s].feed \ send[s].known
                                 /\ send[s].known # {} => send[s].fresh = send[s].feed \ send[s].known

\* Unless the memory could not be read, what is or will be written down was counted.
SentWasCounted ==
  "forgotten" \notin messageMishaps =>
    /\ sent \subseteq Counted
    /\ \A s \in Senders : /\ send[s].pc \in {"message", "write"} => send[s].known \subseteq Counted
                          /\ send[s].pc = "write" => send[s].feed \subseteq Counted

\* Unless something went wrong, one sends at a time and knows what was sent.
OneMessage ==
  messageMishaps = {} => \A s \in Senders : send[s].pc # "idle" =>
    /\ \A t \in Senders \ {s} : send[t].pc = "idle"
    /\ send[s].pc \in {"message", "write"} => send[s].known = sent

\* What was told is written down, about to be, or too old to be told again.
ToldIsWrittenDown ==
  messageMishaps = {} => \A e \in Events :
    /\ told[e] <= 1
    /\ told[e] = 1 => \/ e \in sent
                      \/ old[e] > Lookback + 1
                      \/ \E s \in Senders : send[s].pc = "write" /\ e \in send[s].feed

MessageInv == MessageType /\ FeedIsOfItsWindow /\ SentWasCounted /\ OneMessage /\ ToldIsWrittenDown

\* Events, days, every step of a sender and every failure keep the invariant.
LEMMA MessageStep ==
  ASSUME Lookback \in Nat
  PROVE  MessageInv /\ [Message!Next]_(Message!vars) => MessageInv'
<1> SUFFICES ASSUME MessageInv, [Message!Next]_(Message!vars) PROVE MessageInv'
  OBVIOUS
<1> USE DEF MessageInv
<1>1. CASE UNCHANGED Message!vars
  BY <1>1 DEF Message!vars, MessageType, FeedIsOfItsWindow, Counted, SentWasCounted, OneMessage, ToldIsWrittenDown
<1>2. ASSUME NEW e \in Events, Message!Archive(e) PROVE MessageInv'
  BY <1>2 DEF Message!Archive, MessageType, FeedIsOfItsWindow, Counted, SentWasCounted, OneMessage, ToldIsWrittenDown
<1>3. ASSUME Message!DayPasses PROVE MessageInv'
  <2>1. /\ \A s \in Senders : send[s].day = 0
        /\ send' = [s \in Senders |-> IF send[s].pc = "idle" THEN Message!Idle ELSE [send[s] EXCEPT !.day = 1]]
        /\ UNCHANGED <<archived, sent, told, skipped, messageMishaps>>
    BY <1>3 DEF Message!DayPasses
  <2>2. old' \in [Events -> Nat] /\ \A e \in Events : old'[e] \in {old[e], old[e] + 1}
    BY <1>3 DEF Message!DayPasses, MessageType
  <2>3. \A s \in Senders :
          /\ [send[s] EXCEPT !.day = 1] \in [pc : {"idle", "sent", "message", "write"}, day : {0, 1},
               feed : SUBSET Events, known : SUBSET Events, fresh : SUBSET Events]
          /\ send'[s].pc = send[s].pc
          /\ send[s].pc = "idle" => send'[s].feed = {}
          /\ send[s].pc # "idle" => /\ send'[s].day = 1 /\ send'[s].feed = send[s].feed
                                    /\ send'[s].known = send[s].known /\ send'[s].fresh = send[s].fresh
    BY <2>1 DEF MessageType, Message!Idle
  <2>4. MessageType'
    BY <2>1, <2>2, <2>3 DEF MessageType, Message!Idle
  <2>5. FeedIsOfItsWindow'
    <3> SUFFICES ASSUME NEW s \in Senders
                 PROVE  /\ \A e \in send'[s].feed : old'[e] <= Lookback + send'[s].day
                        /\ send'[s].pc = "message" =>
                             /\ send'[s].fresh \subseteq send'[s].feed \ send'[s].known
                             /\ send'[s].known # {} => send'[s].fresh = send'[s].feed \ send'[s].known
      BY DEF FeedIsOfItsWindow
    <3>1. CASE send[s].pc = "idle"
      BY <2>3, <3>1
    <3>2. CASE send[s].pc # "idle"
      <4>1. \A e \in send[s].feed : e \in Events /\ old[e] \in Nat /\ old[e] <= Lookback
        BY <2>1 DEF MessageType, FeedIsOfItsWindow
      <4>2. \A e \in send[s].feed : old'[e] <= Lookback + 1
        BY <2>2, <4>1
      <4>3. QED BY <2>3, <3>2, <4>2 DEF FeedIsOfItsWindow
    <3>3. QED BY <3>1, <3>2
  <2>6. SentWasCounted' /\ OneMessage'
    <3>1. Counted' = Counted
      BY <2>1 DEF Counted
    <3>2. SentWasCounted'
      BY <2>1, <2>3, <3>1 DEF SentWasCounted
    <3>3. \A s \in Senders : send'[s].pc = send[s].pc /\ (send[s].pc # "idle" => send'[s].known = send[s].known)
      BY <2>3
    <3>4. OneMessage'
      BY <2>1, <3>3 DEF OneMessage
    <3>5. QED BY <3>2, <3>4
  <2>7. ToldIsWrittenDown'
    <3> SUFFICES ASSUME messageMishaps = {}, NEW e \in Events
                 PROVE  /\ told'[e] <= 1
                        /\ told'[e] = 1 => \/ e \in sent'
                                           \/ old'[e] > Lookback + 1
                                           \/ \E t \in Senders : send'[t].pc = "write" /\ e \in send'[t].feed
      BY <2>1 DEF ToldIsWrittenDown
    <3>1. told[e] <= 1 /\ (told[e] = 1 => \/ e \in sent
                                          \/ old[e] > Lookback + 1
                                          \/ \E t \in Senders : send[t].pc = "write" /\ e \in send[t].feed)
      BY DEF ToldIsWrittenDown
    <3>2. old[e] \in Nat /\ old'[e] \in {old[e], old[e] + 1}
      BY <2>2 DEF MessageType
    <3>3. \A t \in Senders : send[t].pc = "write" => send'[t].pc = "write" /\ send'[t].feed = send[t].feed
      BY <2>3
    <3>4. QED BY <2>1, <3>1, <3>2, <3>3
  <2>8. QED BY <2>4, <2>5, <2>6, <2>7
<1>4. ASSUME NEW s \in Senders, Message!ReadFeed(s) PROVE MessageInv'
  <2>1. /\ send[s].pc = "idle"
        /\ send' = [send EXCEPT ![s] = [pc |-> "sent", day |-> 0, feed |-> Message!Feed, known |-> {}, fresh |-> {}]]
        /\ messageMishaps' = IF \E t \in Senders \ {s} : send[t].pc # "idle" THEN messageMishaps \union {"raced"} ELSE messageMishaps
        /\ UNCHANGED <<old, archived, sent, told, skipped>>
    BY <1>4 DEF Message!ReadFeed
  <2>2. Message!Feed \subseteq Events /\ \A e \in Message!Feed : old[e] <= Lookback
    BY DEF Message!Feed, MessageType
  <2>3. MessageType' /\ FeedIsOfItsWindow'
    BY <2>1, <2>2 DEF MessageType, FeedIsOfItsWindow
  <2>4. SentWasCounted'
    BY <2>1 DEF MessageType, SentWasCounted, Counted
  <2>5. OneMessage'
    <3>1. messageMishaps' = {} => messageMishaps = {} /\ \A t \in Senders : send[t].pc = "idle"
      BY <2>1
    <3>2. \A t \in Senders \ {s} : send'[t] = send[t]
      BY <2>1 DEF MessageType
    <3>3. send'[s].pc = "sent"
      BY <2>1 DEF MessageType
    <3>4. QED BY <3>1, <3>2, <3>3 DEF OneMessage
  <2>6. ToldIsWrittenDown'
    BY <2>1 DEF MessageType, ToldIsWrittenDown
  <2>7. QED BY <2>3, <2>4, <2>5, <2>6
<1>5. ASSUME NEW s \in Senders, NEW known \in SUBSET Events, send[s].pc = "sent", Message!Decide(s, known),
             UNCHANGED <<old, archived, sent, told, skipped>>, messageMishaps \subseteq messageMishaps',
             "forgotten" \notin messageMishaps' => known = sent
      PROVE  MessageInv'
  <2> DEFINE fresh == Message!Fresh(send[s].feed, known)
  <2>1. /\ fresh \subseteq Events /\ fresh \subseteq send[s].feed \ known
        /\ known # {} => fresh = send[s].feed \ known
    BY DEF Message!Fresh, MessageType
  <2> DEFINE next == IF fresh = {} THEN Message!Idle
                     ELSE [send[s] EXCEPT !.pc = "message", !.known = known, !.fresh = fresh]
  <2> HIDE DEF fresh
  <2>2. send' = [send EXCEPT ![s] = next]
    BY <1>5 DEF Message!Decide, MessageType, fresh
  <2>3. /\ next \in [pc : {"idle", "message"}, day : {0, 1}, feed : SUBSET Events,
                     known : SUBSET Events, fresh : SUBSET Events]
        /\ next.pc = "message" => /\ next.known = known /\ next.fresh = fresh
                                  /\ next.feed = send[s].feed /\ next.day = send[s].day
        /\ next.pc = "idle" => next.feed = {}
    BY <2>1 DEF MessageType, Message!Idle
  <2> HIDE DEF next
  <2>4. MessageType' /\ FeedIsOfItsWindow'
    BY <1>5, <2>1, <2>2, <2>3 DEF MessageType, FeedIsOfItsWindow
  <2>5. SentWasCounted'
    BY <1>5, <2>2, <2>3 DEF MessageType, SentWasCounted, Counted
  <2>6. OneMessage' /\ ToldIsWrittenDown'
    BY <1>5, <2>2, <2>3 DEF MessageType, OneMessage, ToldIsWrittenDown
  <2>7. QED BY <2>4, <2>5, <2>6
<1>6. ASSUME NEW s \in Senders, Message!ReadSent(s) PROVE MessageInv'
  BY <1>5, <1>6 DEF Message!ReadSent, MessageType
<1>7. ASSUME NEW s \in Senders, Message!ForgetSent(s) PROVE MessageInv'
  BY <1>5, <1>7 DEF Message!ForgetSent
<1>8. ASSUME NEW s \in Senders, Message!Deliver(s) PROVE MessageInv'
  <2>1. /\ send[s].pc = "message" /\ send' = [send EXCEPT ![s].pc = "write"]
        /\ told' = [e \in Events |-> IF e \in send[s].fresh /\ told[e] < 2 THEN told[e] + 1 ELSE told[e]]
        /\ skipped' = IF send[s].known = {} THEN skipped \union (send[s].feed \ send[s].fresh) ELSE skipped
        /\ UNCHANGED <<old, archived, sent, messageMishaps>>
    BY <1>8 DEF Message!Deliver, Message!goto
  <2>2. MessageType' /\ FeedIsOfItsWindow'
    BY <2>1 DEF MessageType, FeedIsOfItsWindow
  <2>3. Counted \subseteq Counted' /\ send[s].fresh \subseteq Counted'
    BY <2>1 DEF MessageType, Counted
  <2>4. SentWasCounted'
    <3> SUFFICES ASSUME "forgotten" \notin messageMishaps PROVE SentWasCounted'
      BY <2>1 DEF SentWasCounted
    <3>1. send[s].feed \subseteq Counted'
      <4>1. CASE send[s].known = {}
        BY <2>1, <2>3, <4>1 DEF Counted
      <4>2. CASE send[s].known # {}
        BY <2>1, <2>3, <4>2 DEF FeedIsOfItsWindow, SentWasCounted
      <4>3. QED BY <4>1, <4>2
    <3>2. \A t \in Senders : /\ send'[t].known = send[t].known /\ send'[t].feed = send[t].feed
                             /\ send'[t].pc = IF t = s THEN "write" ELSE send[t].pc
      BY <2>1 DEF MessageType
    <3>3. sent \subseteq Counted /\ \A t \in Senders :
            /\ send[t].pc \in {"message", "write"} => send[t].known \subseteq Counted
            /\ send[t].pc = "write" => send[t].feed \subseteq Counted
      BY DEF SentWasCounted
    <3>4. sent' \subseteq Counted'
      BY <2>1, <2>3, <3>3
    <3>5. \A t \in Senders : /\ send'[t].pc \in {"message", "write"} => send'[t].known \subseteq Counted'
                             /\ send'[t].pc = "write" => send'[t].feed \subseteq Counted'
      BY <2>1, <2>3, <3>1, <3>2, <3>3
    <3>6. QED BY <3>4, <3>5 DEF SentWasCounted
  <2>5. OneMessage'
    BY <2>1 DEF MessageType, OneMessage
  <2>6. ToldIsWrittenDown'
    <3> SUFFICES ASSUME messageMishaps = {}, NEW e \in Events
                 PROVE  /\ told'[e] <= 1
                        /\ told'[e] = 1 => \/ e \in sent'
                                           \/ old'[e] > Lookback + 1
                                           \/ \E t \in Senders : send'[t].pc = "write" /\ e \in send'[t].feed
      BY <2>1 DEF ToldIsWrittenDown
    <3>1. send'[s].pc = "write" /\ send'[s].feed = send[s].feed
      BY <2>1 DEF MessageType
    <3>2. told[e] \in Nat /\ told[e] <= 1
      BY DEF MessageType, ToldIsWrittenDown
    <3>3. CASE e \in send[s].fresh
      <4>1. e \in send[s].feed /\ e \notin sent /\ old[e] <= Lookback + 1
        BY <2>1, <3>3 DEF MessageType, FeedIsOfItsWindow, OneMessage
      <4>2. \A t \in Senders : send[t].pc # "write"
        BY <2>1 DEF OneMessage
      <4>3. told[e] # 1
        BY <4>1, <4>2 DEF ToldIsWrittenDown, MessageType
      <4>4. QED BY <2>1, <3>1, <3>2, <3>3, <4>1, <4>3
    <3>4. CASE e \notin send[s].fresh
      <4>1. \A t \in Senders : send[t].pc # "write"
        BY <2>1 DEF OneMessage
      <4>2. QED BY <2>1, <3>2, <3>4, <4>1 DEF ToldIsWrittenDown
    <3>5. QED BY <3>3, <3>4
  <2>7. QED BY <2>2, <2>4, <2>5, <2>6
<1>9. ASSUME NEW s \in Senders, Message!Refused(s) PROVE MessageInv'
  <2>1. /\ send[s].pc = "message" /\ send' = [send EXCEPT ![s] = Message!Idle]
        /\ UNCHANGED <<old, archived, sent, told, skipped, messageMishaps>>
    BY <1>9 DEF Message!Refused, Message!Leave
  <2>2. MessageType' /\ FeedIsOfItsWindow' /\ SentWasCounted'
    BY <2>1 DEF MessageType, FeedIsOfItsWindow, SentWasCounted, Counted, Message!Idle
  <2>3. OneMessage' /\ ToldIsWrittenDown'
    BY <2>1 DEF MessageType, OneMessage, ToldIsWrittenDown, Message!Idle
  <2>4. QED BY <2>2, <2>3
<1>10. ASSUME NEW s \in Senders, Message!WriteSent(s) PROVE MessageInv'
  <2>1. /\ send[s].pc = "write" /\ send' = [send EXCEPT ![s] = Message!Idle]
        /\ sent' = Message!Kept(send[s].known) \union send[s].feed
        /\ UNCHANGED <<old, archived, told, skipped, messageMishaps>>
    BY <1>10 DEF Message!WriteSent, Message!Leave
  <2>2. /\ Message!Kept(send[s].known) \subseteq send[s].known
        /\ \A e \in send[s].known : old[e] <= Lookback + 1 => e \in Message!Kept(send[s].known)
    BY DEF Message!Kept
  <2>3. MessageType' /\ FeedIsOfItsWindow'
    BY <2>1, <2>2 DEF MessageType, FeedIsOfItsWindow, Message!Idle
  <2>4. SentWasCounted'
    BY <2>1, <2>2 DEF MessageType, SentWasCounted, Counted, Message!Idle
  <2>5. OneMessage'
    BY <2>1 DEF MessageType, OneMessage, Message!Idle
  <2>6. ToldIsWrittenDown'
    <3> SUFFICES ASSUME messageMishaps = {}, NEW e \in Events
                 PROVE  /\ told'[e] <= 1
                        /\ told'[e] = 1 => e \in sent' \/ old'[e] > Lookback + 1
      BY <2>1 DEF ToldIsWrittenDown
    <3>1. send[s].known = sent /\ \A t \in Senders : send[t].pc = "write" => t = s
      BY <2>1 DEF OneMessage
    <3>2. old[e] \in Nat /\ (old[e] > Lookback + 1 \/ old[e] <= Lookback + 1)
      BY DEF MessageType
    <3>3. QED BY <2>1, <2>2, <3>1, <3>2 DEF ToldIsWrittenDown
  <2>7. QED BY <2>3, <2>4, <2>5, <2>6
<1>11. ASSUME NEW s \in Senders, Message!LoseWrite(s) PROVE MessageInv'
  <2>1. /\ send' = [send EXCEPT ![s] = Message!Idle] /\ messageMishaps' = messageMishaps \union {"unwritten"}
        /\ UNCHANGED <<old, archived, sent, told, skipped>>
    BY <1>11 DEF Message!LoseWrite, Message!Leave
  <2>2. MessageType' /\ FeedIsOfItsWindow' /\ SentWasCounted'
    BY <2>1 DEF MessageType, FeedIsOfItsWindow, SentWasCounted, Counted, Message!Idle
  <2>3. OneMessage' /\ ToldIsWrittenDown'
    BY <2>1 DEF OneMessage, ToldIsWrittenDown
  <2>4. QED BY <2>2, <2>3
<1>12. QED BY <1>1, <1>2, <1>3, <1>4, <1>6, <1>7, <1>8, <1>9, <1>10, <1>11 DEF Message!Next, Message!Progress

\* The morning's message: no event is told twice unless something failed or senders crossed, and
\* unless the memory could not be read none counts as sent that was neither told nor skipped.
THEOREM EventsToldOnce ==
  Message!Spec => []Message!EventsAreToldOnce
<1>1. Message!Init => MessageInv
  BY SizesAssumption DEF Message!Init, Message!Idle, MessageInv, MessageType, FeedIsOfItsWindow, SentWasCounted, Counted, OneMessage,
         ToldIsWrittenDown
<1>2. MessageInv => Message!EventsAreToldOnce
  BY DEF MessageInv, MessageType, SentWasCounted, Counted, ToldIsWrittenDown, Message!EventsAreToldOnce
<1>3. MessageInv /\ [Message!Next]_(Message!vars) => MessageInv'
  BY MessageStep, SizesAssumption
<1>4. QED BY <1>1, <1>2, <1>3, PTL DEF Message!Spec

-----------------------------------------------------------------------------
(* The stock and its id: SymbolStore. *)

Row == [id : Nat, reference : BOOLEAN, financials : BOOLEAN]
Kinds == {"none", "add", "refresh", "reference", "resolve"}
Places == {"idle", "mark", "profile", "profiled", "lookup", "selected", "insert", "inserted", "write"}
Job == [kind : Kinds, pc : Places, id : Nat, overtaken : BOOLEAN]

StoreType ==
  /\ row \in Row /\ lastId \in Nat
  /\ cached \in [Procs -> Nat]
  /\ job \in [Jobs -> Job]
  /\ \A j \in Jobs : job[j].kind = "none" => job[j].pc = "idle"
  /\ wanted \in BOOLEAN /\ revived \in BOOLEAN

Watched == row.id # 0 /\ ~row.reference

\* Until a delete overtakes it, a job finds what it was planned for: an add is what the user
\* wants, a refresh and a resolution have a stock of the watchlist, and who has marked has a row.
AsPlanned ==
  \A j \in Jobs : job[j].pc # "idle" /\ ~job[j].overtaken =>
    /\ job[j].kind = "add" => wanted
    /\ job[j].kind \in {"refresh", "resolve"} => Watched
    /\ job[j].kind = "reference" /\ job[j].pc # "mark" => row.id # 0
    /\ job[j].pc \notin {"mark", "profile"} => row.id # 0
    /\ job[j].kind = "resolve" => job[j].pc \notin {"mark", "profile", "profiled"}

\* What the user asked for is there, or an add is about to make it so.
AddIsOnItsWay ==
  wanted /\ storeMishaps = {} =>
    \/ Watched
    \/ \E j \in Jobs : job[j].kind = "add" /\ (job[j].pc = "mark" \/ (job[j].pc = "profile" /\ row.id = 0))

\* The ids in the hands of a job that no delete has overtaken are the row's, and so is the one
\* in the cache of its process once its profile is stored, unless a late answer was put there.
IdsAreLive ==
  \A j \in Jobs : ~job[j].overtaken =>
    /\ job[j].pc \in {"profiled", "inserted"} => job[j].id = row.id
    /\ job[j].pc = "selected" => job[j].id \in {0, row.id}
    /\ job[j].kind # "resolve" /\ home[j] \notin late =>
         /\ job[j].pc \in {"lookup", "selected", "insert", "inserted", "write"} => cached[home[j]] \in {0, row.id}
         /\ job[j].pc = "write" => job[j].id = row.id

StoreInv == StoreType /\ AsPlanned /\ AddIsOnItsWay /\ IdsAreLive /\ Store!OnlyOvertakenJobsRevive

\* A job goes on: its other fields are what they were.
LEMMA JobGoes ==
  ASSUME NEW c \in Job, NEW x \in Places
  PROVE  LET d == [c EXCEPT !.pc = x]
         IN d \in Job /\ d.pc = x /\ d.kind = c.kind /\ d.id = c.id /\ d.overtaken = c.overtaken
<1>1. [c EXCEPT !.pc = x] \in Job
  BY DEF Job
<1>2. [c EXCEPT !.pc = x].pc = x /\ [c EXCEPT !.pc = x].kind = c.kind /\ [c EXCEPT !.pc = x].id = c.id
  BY DEF Job
<1>3. [c EXCEPT !.pc = x].overtaken = c.overtaken
  BY DEF Job
<1>4. QED BY <1>1, <1>2, <1>3

\* A delete overtakes it.
LEMMA JobIsOvertaken ==
  ASSUME NEW c \in Job
  PROVE  /\ [c EXCEPT !.overtaken = TRUE] \in Job /\ [c EXCEPT !.overtaken = TRUE].overtaken
         /\ [c EXCEPT !.overtaken = TRUE].pc = c.pc /\ [c EXCEPT !.overtaken = TRUE].kind = c.kind
<1>1. [c EXCEPT !.overtaken = TRUE] \in Job
  BY DEF Job
<1>2. [c EXCEPT !.overtaken = TRUE].overtaken
  BY DEF Job
<1>3. [c EXCEPT !.overtaken = TRUE].pc = c.pc /\ [c EXCEPT !.overtaken = TRUE].kind = c.kind
  BY DEF Job
<1>4. QED BY <1>1, <1>2, <1>3

\* Nothing is under way before a job begins.
LEMMA NoJobIdles ==
  /\ Store!NoJob \in Job /\ Store!NoJob.pc = "idle" /\ Store!NoJob.kind = "none" /\ ~Store!NoJob.overtaken
  /\ Store!NoRow \in Row /\ Store!NoRow.id = 0
<1>1. Store!NoJob \in Job /\ Store!NoJob.pc = "idle" /\ Store!NoJob.kind = "none"
  BY DEF Store!NoJob, Job, Kinds, Places
<1>2. ~Store!NoJob.overtaken
  BY DEF Store!NoJob
<1>3. Store!NoRow \in Row /\ Store!NoRow.id = 0
  BY DEF Store!NoRow, Row
<1>4. QED BY <1>1, <1>2, <1>3

\* A job that begins is of its kind and at its first place.
LEMMA Begins ==
  ASSUME StoreType, NEW j \in Jobs, NEW kind \in Kinds, NEW place \in Places, Store!Begin(j, kind, place)
  PROVE  /\ job' \in [Jobs -> Job] /\ job[j].pc = "idle"
         /\ job'[j].kind = kind /\ job'[j].pc = place /\ ~job'[j].overtaken
         /\ \A i \in Jobs : i # j => job'[i] = job[i]
<1> DEFINE next == [Store!NoJob EXCEPT !.kind = kind, !.pc = place]
<1>1. next \in Job /\ next.kind = kind /\ next.pc = place
  BY DEF Store!NoJob, Job
<1>2. ~next.overtaken
  BY DEF Store!NoJob
<1>3. job' = [job EXCEPT ![j] = next] /\ job[j].pc = "idle"
  BY DEF Store!Begin
<1> HIDE DEF next
<1>4. QED BY <1>1, <1>2, <1>3 DEF StoreType

\* A job ends.
LEMMA Ends ==
  ASSUME StoreType, NEW j \in Jobs, Store!End(j)
  PROVE  /\ job' \in [Jobs -> Job] /\ job'[j].pc = "idle" /\ job'[j].kind = "none" /\ ~job'[j].overtaken
         /\ \A i \in Jobs : i # j => job'[i] = job[i]
  BY NoJobIdles DEF Store!End, StoreType

\* A job goes to its next place.
LEMMA Goes ==
  ASSUME StoreType, NEW j \in Jobs, NEW place \in Places, Store!goto(j, place)
  PROVE  /\ job' \in [Jobs -> Job] /\ job'[j].pc = place
         /\ job'[j].kind = job[j].kind /\ job'[j].id = job[j].id /\ job'[j].overtaken = job[j].overtaken
         /\ \A i \in Jobs : i # j => job'[i] = job[i]
<1>1. job[j] \in Job /\ 0 \in Nat
  BY DEF StoreType
<1>2. job' = [job EXCEPT ![j] = [job[j] EXCEPT !.pc = place]]
  BY DEF Store!goto
<1> DEFINE next == [job[j] EXCEPT !.pc = place]
<1>3. next \in Job /\ next.pc = place /\ next.kind = job[j].kind /\ next.id = job[j].id /\ next.overtaken = job[j].overtaken
  BY <1>1, JobGoes
<1> HIDE DEF next
<1>4. job' = [job EXCEPT ![j] = next]
  BY <1>2 DEF next
<1>5. QED BY <1>3, <1>4 DEF StoreType

\* A job goes to its next place with another id.
TakesOn(j, place, id) == job' = [job EXCEPT ![j] = [job[j] EXCEPT !.pc = place, !.id = id]]

LEMMA GoesOn ==
  ASSUME StoreType, NEW j \in Jobs, NEW place \in Places, NEW id \in Nat,
         TakesOn(j, place, id)
  PROVE  /\ job' \in [Jobs -> Job] /\ job'[j].pc = place
         /\ job'[j].kind = job[j].kind /\ job'[j].id = id /\ job'[j].overtaken = job[j].overtaken
         /\ \A i \in Jobs : i # j => job'[i] = job[i]
<1> DEFINE next == [job[j] EXCEPT !.pc = place, !.id = id]
<1>1. next \in Job /\ next.pc = place /\ next.kind = job[j].kind /\ next.id = id /\ next.overtaken = job[j].overtaken
  <2>1. PICK c \in Job : c = job[j]
    BY DEF StoreType
  <2>2. [c EXCEPT !.pc = place, !.id = id] \in Job
    BY DEF Job
  <2>3. /\ [c EXCEPT !.pc = place, !.id = id].pc = place /\ [c EXCEPT !.pc = place, !.id = id].id = id
        /\ [c EXCEPT !.pc = place, !.id = id].kind = c.kind
    BY DEF Job
  <2>4. [c EXCEPT !.pc = place, !.id = id].overtaken = c.overtaken
    BY DEF Job
  <2>5. QED BY <2>1, <2>2, <2>3, <2>4
<1> HIDE DEF next
<1>2. job' = [job EXCEPT ![j] = next]
  BY DEF next, TakesOn
<1>3. QED BY <1>1, <1>2 DEF StoreType

\* The id a job has goes to the cache of its process.
LEMMA CacheIsSet ==
  ASSUME home \in [Jobs -> Procs], StoreType, NEW j \in Jobs, Store!SetCache(j)
  PROVE  /\ cached' \in [Procs -> Nat] /\ cached'[home[j]] = job[j].id
         /\ \A p \in Procs : p # home[j] => cached'[p] = cached[p]
         /\ late' = IF job[j].overtaken THEN late \union {home[j]} ELSE late
  BY DEF Store!SetCache, StoreType, Job

\* A job and its kind are planned, marked, stored, resolved, written and deleted: each step
\* keeps the invariant.
LEMMA StoreStep ==
  ASSUME home \in [Jobs -> Procs], Server \in Procs
  PROVE  StoreInv /\ [Store!Next]_(Store!vars) => StoreInv'
<1> SUFFICES ASSUME StoreInv, [Store!Next]_(Store!vars) PROVE StoreInv'
  OBVIOUS
<1> USE DEF StoreInv
<1>1. CASE UNCHANGED Store!vars
  BY <1>1 DEF Store!vars, StoreType, Watched, AsPlanned, AddIsOnItsWay, IdsAreLive, Store!OnlyOvertakenJobsRevive
<1>2. ASSUME NEW j \in Jobs, Store!AskAdd(j) PROVE StoreInv'
  <2>1. /\ job' \in [Jobs -> Job] /\ job[j].pc = "idle"
        /\ job'[j].kind = "add" /\ job'[j].pc = "mark" /\ ~job'[j].overtaken
        /\ \A i \in Jobs : i # j => job'[i] = job[i]
        /\ wanted' = TRUE /\ UNCHANGED <<row, lastId, cached, delete, revived, late, storeMishaps, storeFaults>>
    BY <1>2, Begins DEF Store!AskAdd, Kinds, Places
  <2>2. QED
    BY <2>1 DEF StoreType, Watched, AsPlanned, AddIsOnItsWay, IdsAreLive, Store!OnlyOvertakenJobsRevive
<1>3. ASSUME NEW j \in Jobs, Store!PlanRefresh(j) \/ Store!PlanReference(j) \/ Store!PlanResolve(j) PROVE StoreInv'
  <2>1. PICK kind \in {"refresh", "reference", "resolve"}, place \in {"mark", "lookup"} :
          /\ kind \in {"refresh", "resolve"} => Watched
          /\ kind = "resolve" <=> place = "lookup"
          /\ Store!Begin(j, kind, place)
          /\ UNCHANGED <<row, lastId, cached, delete, wanted, revived, late, storeMishaps, storeFaults>>
    BY <1>3 DEF Store!PlanRefresh, Store!PlanReference, Store!PlanResolve, Watched
  <2>2. /\ job' \in [Jobs -> Job] /\ job[j].pc = "idle"
        /\ job'[j].kind = kind /\ job'[j].pc = place /\ ~job'[j].overtaken
        /\ \A i \in Jobs : i # j => job'[i] = job[i]
    BY <2>1, Begins DEF Kinds, Places
  <2>3. StoreType' /\ AsPlanned' /\ Store!OnlyOvertakenJobsRevive'
    BY <2>1, <2>2 DEF StoreType, Watched, AsPlanned, Store!OnlyOvertakenJobsRevive
  <2>4. AddIsOnItsWay'
    BY <2>1, <2>2 DEF StoreType, Watched, AddIsOnItsWay
  <2>5. IdsAreLive'
    BY <2>1, <2>2 DEF StoreType, IdsAreLive
  <2>6. QED BY <2>3, <2>4, <2>5
<1>4. ASSUME NEW j \in Jobs, Store!Mark(j) PROVE StoreInv'
  <2>1. /\ job' \in [Jobs -> Job] /\ job'[j].pc = "profile"
        /\ job'[j].kind = job[j].kind /\ job'[j].id = job[j].id /\ job'[j].overtaken = job[j].overtaken
        /\ \A i \in Jobs : i # j => job'[i] = job[i]
        /\ job[j].pc = "mark" /\ UNCHANGED <<cached, delete, wanted, late, storeFaults>>
    BY <1>4, Goes DEF Store!Mark, Places
  <2>2. CASE job[j].kind = "reference"
    <3>1. Store!markReference(j) /\ UNCHANGED revived
      BY <1>4, <2>2 DEF Store!Mark, Store!markReference
    <3>2. CASE row.id = 0
      <4>1. /\ lastId' = lastId + 1 /\ row' = [id |-> lastId + 1, reference |-> TRUE, financials |-> FALSE]
            /\ storeMishaps' = IF Store!Crosses(j) THEN storeMishaps \union {"crossed"} ELSE storeMishaps
        BY <3>1, <3>2 DEF Store!markReference
      <4>2. row' \in Row /\ row'.id = lastId + 1 /\ row'.reference /\ lastId' \in Nat /\ row'.id # 0
        BY <4>1 DEF StoreType, Row
      <4>3. StoreType' /\ Store!OnlyOvertakenJobsRevive'
        BY <2>1, <3>1, <4>2 DEF StoreType, Store!OnlyOvertakenJobsRevive
      <4>4. AsPlanned'
        BY <2>1, <2>2, <3>1, <3>2, <4>2 DEF StoreType, Watched, AsPlanned
      <4>5. AddIsOnItsWay'
        BY <2>1, <2>2, <3>1, <3>2, <4>1, <4>2 DEF StoreType, Watched, AddIsOnItsWay, Store!Crosses
      <4>6. IdsAreLive'
        BY <2>1, <2>2, <3>1, <3>2, <4>1, <4>2 DEF StoreType, IdsAreLive, AsPlanned
      <4>7. QED BY <4>3, <4>4, <4>5, <4>6
    <3>3. CASE row.id # 0
      <4>1. UNCHANGED <<lastId, row, storeMishaps>>
        BY <3>1, <3>3 DEF Store!markReference
      <4>2. QED BY <2>1, <2>2, <3>1, <3>3, <4>1
           DEF StoreType, Watched, AsPlanned, AddIsOnItsWay, IdsAreLive, Store!OnlyOvertakenJobsRevive
    <3>4. QED BY <3>2, <3>3
  <2>3. CASE job[j].kind # "reference"
    <3>1. /\ row' = [row EXCEPT !.reference = FALSE] /\ UNCHANGED <<lastId, storeMishaps>>
          /\ revived' = IF row.reference THEN revived \/ job[j].overtaken ELSE revived
      BY <1>4, <2>3 DEF Store!Mark, Store!promoteSymbol, Store!Joins
    <3>2. row' \in Row /\ row'.id = row.id
      BY <3>1 DEF StoreType, Row
    <3>3. ~row'.reference
      BY <3>1 DEF StoreType, Row
    <3>4. StoreType'
      BY <2>1, <3>1, <3>2 DEF StoreType, Job
    <3>5. AsPlanned' /\ AddIsOnItsWay'
      BY <2>1, <2>3, <3>1, <3>2, <3>3 DEF StoreType, Watched, AsPlanned, AddIsOnItsWay
    <3>6. IdsAreLive'
      BY <2>1, <2>3, <3>1, <3>2 DEF StoreType, IdsAreLive
    <3>7. Store!OnlyOvertakenJobsRevive'
      <4>1. job[j].kind \in {"add", "refresh", "resolve"}
        BY <2>1, <2>3 DEF StoreType, Job, Kinds
      <4>2. QED BY <2>1, <3>1, <3>2, <3>3, <4>1 DEF AsPlanned, Watched, Store!OnlyOvertakenJobsRevive
    <3>8. QED BY <3>4, <3>5, <3>6, <3>7
  <2>4. QED BY <2>2, <2>3
<1>5. ASSUME NEW j \in Jobs, Store!FetchFails(j) PROVE StoreInv'
  <2>1. /\ job' \in [Jobs -> Job] /\ job'[j].pc = "idle" /\ job'[j].kind = "none" /\ ~job'[j].overtaken
        /\ \A i \in Jobs : i # j => job'[i] = job[i]
    BY <1>5, Ends DEF Store!FetchFails
  <2>2. /\ job[j].pc = "profile" /\ UNCHANGED <<row, lastId, cached, delete, wanted, revived, late>>
        /\ storeMishaps' = IF job[j].kind = "add" THEN storeMishaps \union {"failed"} ELSE storeMishaps
    BY <1>5 DEF Store!FetchFails
  <2>3. QED
    BY <2>1, <2>2 DEF StoreType, Watched, AsPlanned, AddIsOnItsWay, IdsAreLive, Store!OnlyOvertakenJobsRevive
<1>6. ASSUME NEW j \in Jobs, NEW to \in {"profiled", "inserted"}, Store!Upsert(j, to),
             job[j].pc = IF to = "profiled" THEN "profile" ELSE "insert"
      PROVE  StoreInv'
  <2>1. UNCHANGED <<cached, delete, wanted, late, storeMishaps, storeFaults>>
    BY <1>6 DEF Store!Upsert
  <2>2. CASE row.id = 0
    <3>1. /\ lastId' = lastId + 1 /\ row' = [Store!NoRow EXCEPT !.id = lastId + 1]
          /\ revived' = (revived \/ job[j].overtaken)
      BY <1>6, <2>2 DEF Store!Upsert, Store!Joins
    <3>2. row' \in Row /\ row'.id = lastId + 1 /\ lastId' \in Nat /\ row'.id # 0 /\ row'.id \in Nat
      <4>1. lastId + 1 \in Nat /\ lastId + 1 # 0
        BY DEF StoreType
      <4>2. ASSUME NEW n \in Nat
            PROVE  [Store!NoRow EXCEPT !.id = n] \in Row /\ [Store!NoRow EXCEPT !.id = n].id = n
        BY DEF Row, Store!NoRow
      <4>3. QED BY <3>1, <4>1, <4>2
    <3>3. ~row'.reference
      BY <3>1 DEF Store!NoRow
    <3>4. /\ job' \in [Jobs -> Job] /\ job'[j].pc = to
          /\ job'[j].kind = job[j].kind /\ job'[j].id = row'.id /\ job'[j].overtaken = job[j].overtaken
          /\ \A i \in Jobs : i # j => job'[i] = job[i]
      <4>1. job' = [job EXCEPT ![j] = [job[j] EXCEPT !.pc = to, !.id = row'.id]]
        BY <1>6, <2>2 DEF Store!Upsert, StoreType
      <4>2. QED BY <3>2, <4>1, GoesOn DEF Places, TakesOn
    <3>5. job[j].kind \in {"add", "refresh", "reference", "resolve"}
      BY <1>6 DEF StoreType, Job, Kinds
    <3>6. StoreType'
      BY <1>6, <2>1, <3>1, <3>2, <3>4 DEF StoreType, Job
    <3>7. AsPlanned' /\ AddIsOnItsWay'
      BY <1>6, <2>1, <2>2, <3>2, <3>3, <3>4 DEF StoreType, Watched, AsPlanned, AddIsOnItsWay
    <3>8. IdsAreLive'
      BY <1>6, <2>1, <2>2, <3>2, <3>4 DEF StoreType, IdsAreLive, AsPlanned
    <3>9. Store!OnlyOvertakenJobsRevive'
      BY <1>6, <2>1, <2>2, <3>1, <3>2, <3>3, <3>5 DEF AsPlanned, Watched, Store!OnlyOvertakenJobsRevive
    <3>10. QED BY <3>6, <3>7, <3>8, <3>9
  <2>3. CASE row.id # 0
    <3>1. UNCHANGED <<lastId, row, revived>> /\ row.id \in Nat
      BY <1>6, <2>3 DEF Store!Upsert, StoreType, Row
    <3>2. /\ job' \in [Jobs -> Job] /\ job'[j].pc = to
          /\ job'[j].kind = job[j].kind /\ job'[j].id = row.id /\ job'[j].overtaken = job[j].overtaken
          /\ \A i \in Jobs : i # j => job'[i] = job[i]
      <4>1. job' = [job EXCEPT ![j] = [job[j] EXCEPT !.pc = to, !.id = row.id]]
        BY <1>6, <3>1 DEF Store!Upsert, StoreType
      <4>2. QED BY <3>1, <4>1, GoesOn DEF Places, TakesOn
    <3>3. StoreType' /\ AsPlanned' /\ AddIsOnItsWay'
      BY <1>6, <2>1, <2>3, <3>1, <3>2 DEF StoreType, Watched, AsPlanned, AddIsOnItsWay
    <3>4. IdsAreLive' /\ Store!OnlyOvertakenJobsRevive'
      BY <1>6, <2>1, <2>3, <3>1, <3>2 DEF StoreType, IdsAreLive, Store!OnlyOvertakenJobsRevive
    <3>5. QED BY <3>3, <3>4
  <2>4. QED BY <2>2, <2>3
<1>7. ASSUME NEW j \in Jobs, Store!Profiled(j) \/ Store!Inserted(j) PROVE StoreInv'
  <2>1. PICK to \in {"lookup", "write"} :
          /\ job[j].pc = IF to = "lookup" THEN "profiled" ELSE "inserted"
          /\ Store!SetCache(j) /\ Store!goto(j, to)
          /\ UNCHANGED <<row, lastId, delete, wanted, revived, storeMishaps, storeFaults>>
    BY <1>7 DEF Store!Profiled, Store!Inserted
  <2>2. /\ job' \in [Jobs -> Job] /\ job'[j].pc = to
        /\ job'[j].kind = job[j].kind /\ job'[j].id = job[j].id /\ job'[j].overtaken = job[j].overtaken
        /\ \A i \in Jobs : i # j => job'[i] = job[i]
    BY <2>1, Goes DEF Places
  <2>3. /\ cached' \in [Procs -> Nat] /\ cached'[home[j]] = job[j].id
        /\ \A p \in Procs : p # home[j] => cached'[p] = cached[p]
        /\ late' = IF job[j].overtaken THEN late \union {home[j]} ELSE late
    BY <2>1, CacheIsSet
  <2>4. StoreType' /\ AsPlanned' /\ AddIsOnItsWay' /\ Store!OnlyOvertakenJobsRevive'
    BY <2>1, <2>2, <2>3 DEF StoreType, Watched, AsPlanned, AddIsOnItsWay, Store!OnlyOvertakenJobsRevive
  <2>5. IdsAreLive'
    BY <2>1, <2>2, <2>3 DEF StoreType, IdsAreLive
  <2>6. QED BY <2>4, <2>5
<1>8. ASSUME NEW j \in Jobs, Store!Lookup(j) PROVE StoreInv'
  <2>1. job[j].pc = "lookup" /\ UNCHANGED <<row, lastId, cached, delete, wanted, revived, late, storeMishaps, storeFaults>>
    BY <1>8 DEF Store!Lookup
  <2>2. PICK to \in {"write", "selected"}, id \in Nat :
          /\ job' = [job EXCEPT ![j] = [job[j] EXCEPT !.pc = to, !.id = id]]
          /\ to = "write" => id = cached[home[j]] /\ id # 0
          /\ to = "selected" => id = row.id
    <3>1. cached[home[j]] \in Nat /\ row.id \in Nat
      BY DEF StoreType, Row
    <3>2. CASE cached[home[j]] # 0
      <4>1. job' = [job EXCEPT ![j] = [job[j] EXCEPT !.pc = "write", !.id = cached[home[j]]]]
        BY <1>8, <3>2 DEF Store!Lookup
      <4>2. QED BY <3>1, <3>2, <4>1
    <3>3. CASE cached[home[j]] = 0
      <4>1. job' = [job EXCEPT ![j] = [job[j] EXCEPT !.pc = "selected", !.id = row.id]]
        BY <1>8, <3>3 DEF Store!Lookup
      <4>2. QED BY <3>1, <4>1
    <3>4. QED BY <3>2, <3>3
  <2>3. /\ job' \in [Jobs -> Job] /\ job'[j].pc = to
        /\ job'[j].kind = job[j].kind /\ job'[j].id = id /\ job'[j].overtaken = job[j].overtaken
        /\ \A i \in Jobs : i # j => job'[i] = job[i]
    BY <2>2, GoesOn DEF Places, TakesOn
  <2>4. StoreType' /\ AsPlanned' /\ AddIsOnItsWay' /\ Store!OnlyOvertakenJobsRevive'
    BY <2>1, <2>2, <2>3 DEF StoreType, Watched, AsPlanned, AddIsOnItsWay, Store!OnlyOvertakenJobsRevive
  <2>5. IdsAreLive'
    BY <2>1, <2>2, <2>3 DEF StoreType, IdsAreLive
  <2>6. QED BY <2>4, <2>5
<1>9. ASSUME NEW j \in Jobs, Store!Selected(j) PROVE StoreInv'
  <2>1. job[j].pc = "selected" /\ UNCHANGED <<row, lastId, delete, wanted, revived, storeMishaps, storeFaults>>
    BY <1>9 DEF Store!Selected
  <2>2. CASE job[j].id # 0
    <3>1. Store!SetCache(j) /\ Store!goto(j, "write")
      BY <1>9, <2>2 DEF Store!Selected
    <3>2. /\ job' \in [Jobs -> Job] /\ job'[j].pc = "write"
          /\ job'[j].kind = job[j].kind /\ job'[j].id = job[j].id /\ job'[j].overtaken = job[j].overtaken
          /\ \A i \in Jobs : i # j => job'[i] = job[i]
      BY <3>1, Goes DEF Places
    <3>3. /\ cached' \in [Procs -> Nat] /\ cached'[home[j]] = job[j].id
          /\ \A p \in Procs : p # home[j] => cached'[p] = cached[p]
          /\ late' = IF job[j].overtaken THEN late \union {home[j]} ELSE late
      BY <3>1, CacheIsSet
    <3>4. StoreType' /\ AsPlanned' /\ AddIsOnItsWay' /\ Store!OnlyOvertakenJobsRevive'
      BY <2>1, <3>2, <3>3 DEF StoreType, Watched, AsPlanned, AddIsOnItsWay, Store!OnlyOvertakenJobsRevive
    <3>5. IdsAreLive'
      BY <2>1, <2>2, <3>2, <3>3 DEF StoreType, IdsAreLive
    <3>6. QED BY <3>4, <3>5
  <2>3. CASE job[j].id = 0
    <3>1. Store!goto(j, "insert") /\ UNCHANGED <<cached, late>>
      BY <1>9, <2>3 DEF Store!Selected
    <3>2. /\ job' \in [Jobs -> Job] /\ job'[j].pc = "insert"
          /\ job'[j].kind = job[j].kind /\ job'[j].id = job[j].id /\ job'[j].overtaken = job[j].overtaken
          /\ \A i \in Jobs : i # j => job'[i] = job[i]
      BY <3>1, Goes DEF Places
    <3>3. QED
      BY <2>1, <3>1, <3>2 DEF StoreType, Watched, AsPlanned, AddIsOnItsWay, IdsAreLive, Store!OnlyOvertakenJobsRevive
  <2>4. QED BY <2>2, <2>3
<1>10. ASSUME NEW j \in Jobs, Store!Write(j) \/ Store!WriteFails(j) PROVE StoreInv'
  <2>1. /\ job[j].pc = "write" /\ UNCHANGED <<lastId, cached, delete, wanted, revived, late, storeMishaps, storeFaults>>
        /\ row' = row \/ row' = [row EXCEPT !.financials = TRUE]
        /\ Store!End(j) \/ (job[j].kind # "resolve" /\ job[j].id = row.id /\ Store!goto(j, "lookup"))
    BY <1>10 DEF Store!Write, Store!WriteFails
  <2>2. row' \in Row /\ row'.id = row.id
    BY <2>1 DEF StoreType, Row
  <2>3. row'.reference = row.reference
    BY <2>1 DEF StoreType, Row
  <2>4. CASE Store!End(j)
    <3>1. /\ job' \in [Jobs -> Job] /\ job'[j].pc = "idle" /\ job'[j].kind = "none" /\ ~job'[j].overtaken
          /\ \A i \in Jobs : i # j => job'[i] = job[i]
      BY <2>4, Ends
    <3>2. StoreType' /\ AsPlanned' /\ AddIsOnItsWay' /\ Store!OnlyOvertakenJobsRevive'
      BY <2>1, <2>2, <2>3, <3>1 DEF StoreType, Watched, AsPlanned, AddIsOnItsWay, Store!OnlyOvertakenJobsRevive
    <3>3. IdsAreLive'
      BY <2>1, <2>2, <3>1 DEF StoreType, IdsAreLive
    <3>4. QED BY <3>2, <3>3
  <2>5. CASE job[j].kind # "resolve" /\ job[j].id = row.id /\ Store!goto(j, "lookup")
    <3>1. /\ job' \in [Jobs -> Job] /\ job'[j].pc = "lookup"
          /\ job'[j].kind = job[j].kind /\ job'[j].id = job[j].id /\ job'[j].overtaken = job[j].overtaken
          /\ \A i \in Jobs : i # j => job'[i] = job[i]
      BY <2>5, Goes DEF Places
    <3>2. StoreType' /\ AsPlanned' /\ AddIsOnItsWay' /\ Store!OnlyOvertakenJobsRevive'
      BY <2>1, <2>2, <2>3, <3>1 DEF StoreType, Watched, AsPlanned, AddIsOnItsWay, Store!OnlyOvertakenJobsRevive
    <3>3. IdsAreLive'
      BY <2>1, <2>2, <3>1 DEF StoreType, IdsAreLive
    <3>4. QED BY <3>2, <3>3
  <2>6. QED BY <2>1, <2>4, <2>5
<1>11. ASSUME Store!Delete PROVE StoreInv'
  <2>1. /\ row' = Store!NoRow /\ wanted' = FALSE /\ revived' = FALSE
        /\ job' = [i \in Jobs |-> IF job[i].pc = "idle" THEN Store!NoJob ELSE [job[i] EXCEPT !.overtaken = TRUE]]
        /\ UNCHANGED <<lastId, cached, late, storeMishaps, storeFaults>>
    BY <1>11 DEF Store!Delete
  <2>2. \A i \in Jobs : job[i] \in Job
    BY DEF StoreType
  <2>3. /\ job' \in [Jobs -> Job]
        /\ \A i \in Jobs : job'[i].pc # "idle" => job'[i].overtaken
        /\ \A i \in Jobs : job'[i].kind = "none" => job'[i].pc = "idle"
    BY <2>1, <2>2, JobIsOvertaken, NoJobIdles DEF StoreType
  <2>4. StoreType' /\ AsPlanned' /\ AddIsOnItsWay' /\ Store!OnlyOvertakenJobsRevive'
    BY <2>1, <2>3, NoJobIdles DEF StoreType, Watched, AsPlanned, AddIsOnItsWay, Store!OnlyOvertakenJobsRevive
  <2>5. IdsAreLive'
    BY <2>1, <2>3 DEF IdsAreLive
  <2>6. QED BY <2>4, <2>5
<1>12. ASSUME Store!Forget PROVE StoreInv'
  <2>1. /\ cached' = [cached EXCEPT ![Server] = 0]
        /\ UNCHANGED <<row, lastId, job, wanted, revived, late, storeMishaps, storeFaults>>
    BY <1>12 DEF Store!Forget
  <2>2. cached' \in [Procs -> Nat] /\ \A p \in Procs : cached'[p] \in {0, cached[p]}
    BY <2>1 DEF StoreType
  <2>3. StoreType' /\ AsPlanned' /\ AddIsOnItsWay' /\ Store!OnlyOvertakenJobsRevive'
    BY <2>1, <2>2 DEF StoreType, Watched, AsPlanned, AddIsOnItsWay, Store!OnlyOvertakenJobsRevive
  <2>4. IdsAreLive'
    BY <2>1, <2>2 DEF StoreType, IdsAreLive
  <2>5. QED BY <2>3, <2>4
<1>13. ASSUME NEW p \in Procs, Store!Restart(p) PROVE StoreInv'
  <2>1. /\ cached' = [cached EXCEPT ![p] = 0] /\ late' = late \ {p}
        /\ job' = [i \in Jobs |-> IF home[i] = p THEN Store!NoJob ELSE job[i]]
        /\ storeMishaps' = IF \E i \in Jobs : home[i] = p /\ job[i].kind = "add" THEN storeMishaps \union {"failed"} ELSE storeMishaps
        /\ UNCHANGED <<row, lastId, wanted, revived>>
    BY <1>13 DEF Store!Restart
  <2>2. cached' \in [Procs -> Nat] /\ \A q \in Procs : q # p => cached'[q] = cached[q]
    BY <2>1 DEF StoreType
  <2>3. /\ job' \in [Jobs -> Job]
        /\ \A i \in Jobs : home[i] = p => job'[i].pc = "idle" /\ job'[i].kind = "none"
        /\ \A i \in Jobs : home[i] # p => job'[i] = job[i]
    BY <2>1, NoJobIdles DEF StoreType
  <2>4. StoreType' /\ AsPlanned' /\ AddIsOnItsWay' /\ Store!OnlyOvertakenJobsRevive'
    BY <2>1, <2>2, <2>3 DEF StoreType, Watched, AsPlanned, AddIsOnItsWay, Store!OnlyOvertakenJobsRevive
  <2>5. IdsAreLive'
    BY <2>1, <2>2, <2>3 DEF StoreType, IdsAreLive
  <2>6. QED BY <2>4, <2>5
<1>14. ASSUME NEW j \in Jobs, Store!JobStep(j) PROVE StoreInv'
  <2>1. CASE Store!Profile(j)
    BY <1>6, <2>1 DEF Store!Profile
  <2>2. CASE Store!Insert(j)
    BY <1>6, <2>2 DEF Store!Insert
  <2>3. QED BY <1>4, <1>7, <1>8, <1>9, <1>10, <1>14, <2>1, <2>2 DEF Store!JobStep
<1>20. QED BY <1>1, <1>2, <1>3, <1>5, <1>11, <1>12, <1>13, <1>14 DEF Store!Next

\* The symbol store: a stock is on the watchlist because the user added it, or a job that his delete
\* overtook brought it back; what he added and did not delete is there, unless its fetch failed or
\* crossed the universe's; and only an overtaken refresh writes under an id that is gone.
THEOREM StoreTruth == Store!Spec => StoreFollowsTheUser
<1>1. Store!Init => StoreInv
  <2> SUFFICES ASSUME Store!Init PROVE StoreInv
    OBVIOUS
  <2>1. StoreType
    BY NoJobIdles DEF Store!Init, StoreType
  <2>2. AsPlanned /\ AddIsOnItsWay /\ IdsAreLive
    BY NoJobIdles DEF Store!Init, AsPlanned, AddIsOnItsWay, IdsAreLive
  <2>3. Store!OnlyOvertakenJobsRevive
    BY NoJobIdles DEF Store!Init, Store!OnlyOvertakenJobsRevive
  <2>4. QED BY <2>1, <2>2, <2>3 DEF StoreInv
<1>2. StoreInv => Store!WatchlistIsTheUsers
  BY DEF StoreInv, AddIsOnItsWay, Watched, Store!WatchlistIsTheUsers, Store!AddedIsOnWatchlist
<1>3. StoreInv => \A j \in Jobs : (Store!WriteFails(j) /\ job[j].kind # "resolve") =>
                                    job[j].overtaken \/ home[j] \in late
  BY DEF StoreInv, IdsAreLive, Store!WriteFails
<1>4. StoreInv /\ [Store!Next]_(Store!vars) => StoreInv'
  BY StoreStep, HomeAssumption
<1>5. Store!Spec => []StoreInv
  BY <1>1, <1>4, PTL DEF Store!Spec
<1>6. Store!Spec => Store!OnlyOvertakenRefreshesFail
  BY <1>3, <1>5, PTL DEF Store!OnlyOvertakenRefreshesFail
<1>7. QED BY <1>2, <1>5, <1>6, PTL DEF StoreFollowsTheUser, Store!StoreFollowsTheUser

\* The morning's message and the night watch of the depot keep their promise side by side.
THEOREM NewsToldOnce ==
  Message!Spec /\ Depot!Spec => []NewsIsToldOnce
<1>1. Message!EventsAreToldOnce /\ Depot!SignalsAreToldOnce => NewsIsToldOnce
  BY DEF NewsIsToldOnce
<1>2. QED BY <1>1, SignalsToldOnce, EventsToldOnce, PTL

-----------------------------------------------------------------------------
(* The journal and its review: Journal. *)

\* What a reading knows of a source.
Knowledge == [Diary!Sources -> {"nothing", "now", "missed", "less"}]
Reading == [reading : BOOLEAN, knows : Knowledge]

DiaryType ==
  /\ entry \in [text : Wordings, deleted : BOOLEAN]
  /\ edit \in [Editors -> [at : {"away", "kept", "written"}, to : Wordings \union {Diary!Nobody},
                           kept : Wordings \union {Diary!Nobody}]]
  /\ memo \in Readers \union {Diary!Nobody}
  /\ build \in [Readers -> Reading]

\* Who is about to replace a wording has kept the one he read, or writes the same.
KeptBefore ==
  \A e \in Editors : edit[e].at = "kept" =>
    /\ edit[e].to \in Wordings
    /\ ~entry.deleted => edit[e].kept \in revisions \union {edit[e].to}

DiaryInv == DiaryType /\ KeptBefore /\ Diary!WordingsAreKept /\ Diary!AnswersShowTheWrite

\* A reader that has not begun has read nothing.
LEMMA NoBuildReads == Diary!NoBuild \in Reading /\ Diary!NoBuild.knows["entry"] = "nothing"
  BY DEF Diary!NoBuild, Reading, Knowledge, Diary!Sources

\* Noting that a source has changed leaves readings readings.
LEMMA KnowReads ==
  ASSUME build \in [Readers -> Reading], NEW s \in Diary!Sources, NEW from, NEW to \in {"missed", "less"}
  PROVE  /\ Diary!Know(s, from, to) \in [Readers -> Reading]
         /\ \A b \in Readers : \A t \in Diary!Sources \ {s} :
              Diary!Know(s, from, to)[b].knows[t] = build[b].knows[t]
         /\ \A b \in Readers : Diary!Know(s, from, to)[b].knows[s] \in {build[b].knows[s], to}
<1>1. ASSUME NEW b \in Readers PROVE /\ [build[b] EXCEPT !.knows[s] = to] \in Reading
                                     /\ [build[b] EXCEPT !.knows[s] = to].knows = [build[b].knows EXCEPT ![s] = to]
                                     /\ build[b].knows \in Knowledge
  BY <1>1 DEF Reading, Knowledge
<1>2. QED BY <1>1 DEF Diary!Know, Knowledge

\* A reading is begun, goes on or is thrown away; the entry is not touched.
LEMMA ReadingKeepsDiary ==
  ASSUME DiaryInv, UNCHANGED Diary!edits, build' \in [Readers -> Reading],
         memo' \in Readers \union {Diary!Nobody},
         memo' # Diary!Nobody => build'[memo'].knows["entry"] # "less"
  PROVE  DiaryInv'
<1>1. DiaryType'
  BY DEF DiaryInv, DiaryType, Diary!edits
<1>2. KeptBefore' /\ Diary!WordingsAreKept'
  BY DEF DiaryInv, KeptBefore, Diary!WordingsAreKept, Diary!edits
<1>3. Diary!AnswersShowTheWrite'
  BY DEF Diary!AnswersShowTheWrite, Diary!ShowsChangesOf
<1>4. QED BY <1>1, <1>2, <1>3 DEF DiaryInv

\* Reading, writing and archiving an edit, and each step of the review, keep the invariant.
LEMMA DiaryStep == DiaryInv /\ [Diary!Next]_(Diary!vars) => DiaryInv'
<1> SUFFICES ASSUME DiaryInv, [Diary!Next]_(Diary!vars) PROVE DiaryInv'
  OBVIOUS
<1> USE DEF DiaryInv
<1>1. CASE UNCHANGED Diary!vars
  BY <1>1 DEF Diary!vars, DiaryType, KeptBefore, Diary!WordingsAreKept, Diary!AnswersShowTheWrite,
              Diary!ShowsChangesOf
<1>2. ASSUME NEW e \in Editors, Diary!Keep(e) PROVE DiaryInv'
  <2>1. PICK text \in Wordings :
          /\ revisions' = IF entry.deleted THEN revisions ELSE revisions \union Diary!Copy(text)
          /\ edit' = [edit EXCEPT ![e] = [at |-> "kept", to |-> text, kept |-> entry.text]]
    BY <1>2 DEF Diary!Keep
  <2>2. UNCHANGED <<entry, memo, stood, crossed, build>>
    BY <1>2 DEF Diary!Keep
  <2>3. DiaryType'
    BY <2>1, <2>2 DEF DiaryType
  <2>4. KeptBefore'
    BY <2>1, <2>2 DEF DiaryType, KeptBefore, Diary!Copy
  <2>5. Diary!WordingsAreKept'
    BY <2>1, <2>2 DEF Diary!WordingsAreKept
  <2>6. Diary!AnswersShowTheWrite'
    BY <2>2 DEF Diary!AnswersShowTheWrite, Diary!ShowsChangesOf
  <2>7. QED BY <2>3, <2>4, <2>5, <2>6
<1>3. ASSUME NEW e \in Editors, Diary!Replace(e) PROVE DiaryInv'
  <2>0. UNCHANGED <<revisions, memo>> /\ edit[e].at = "kept"
    BY <1>3 DEF Diary!Replace
  <2>1. CASE entry.deleted
    <3>1. edit' = [edit EXCEPT ![e] = Diary!NoEdit] /\ UNCHANGED <<entry, build, stood, crossed>>
      BY <1>3, <2>1 DEF Diary!Replace
    <3>2. DiaryType'
      BY <2>0, <3>1 DEF DiaryType, Diary!NoEdit
    <3>3. KeptBefore'
      BY <2>0, <3>1 DEF DiaryType, KeptBefore, Diary!NoEdit
    <3>4. Diary!WordingsAreKept' /\ Diary!AnswersShowTheWrite'
      BY <2>0, <3>1 DEF Diary!WordingsAreKept, Diary!AnswersShowTheWrite, Diary!ShowsChangesOf
    <3>5. QED BY <3>2, <3>3, <3>4
  <2>2. CASE ~entry.deleted
    <3>1. /\ edit' = [edit EXCEPT ![e].at = "written"]
          /\ entry' = [entry EXCEPT !.text = edit[e].to]
          /\ build' = Diary!Know("entry", {"now"}, "missed")
          /\ stood' = stood \union {edit[e].to}
          /\ crossed' = (crossed \/ entry.text # edit[e].kept)
      BY <1>3, <2>2 DEF Diary!Replace
    <3>2. edit[e].to \in Wordings /\ edit[e].kept \in revisions \union {edit[e].to}
      BY <2>0, <2>2 DEF KeptBefore
    <3>3. entry'.text = edit[e].to /\ entry'.deleted = entry.deleted
      BY <3>1 DEF DiaryType
    <3>4. DiaryType'
      BY <2>0, <3>1, <3>2, KnowReads DEF DiaryType, Diary!Sources
    <3>5. KeptBefore'
      BY <2>0, <3>1, <3>3 DEF DiaryType, KeptBefore
    <3>6. Diary!WordingsAreKept'
      BY <2>0, <3>1, <3>2, <3>3 DEF Diary!WordingsAreKept
    <3>7. Diary!AnswersShowTheWrite'
      BY <2>0, <3>1, KnowReads DEF DiaryType, Diary!AnswersShowTheWrite, Diary!ShowsChangesOf, Diary!Sources
    <3>8. QED BY <3>4, <3>5, <3>6, <3>7
  <2>3. QED BY <2>1, <2>2
<1>4. ASSUME NEW e \in Editors, Diary!Delete(e) PROVE DiaryInv'
  <2>1. /\ entry' = [entry EXCEPT !.deleted = TRUE]
        /\ build' = Diary!Know("entry", {"now"}, "missed")
        /\ edit' = [edit EXCEPT ![e].at = "written"]
        /\ UNCHANGED <<revisions, memo, stood, crossed>>
    BY <1>4 DEF Diary!Delete
  <2>2. DiaryType'
    <3>1. entry' \in [text : Wordings, deleted : BOOLEAN]
      BY <2>1 DEF DiaryType
    <3>2. edit' \in [Editors -> [at : {"away", "kept", "written"}, to : Wordings \union {Diary!Nobody},
                                kept : Wordings \union {Diary!Nobody}]]
      BY <2>1 DEF DiaryType
    <3>3. build' \in [Readers -> Reading]
      BY <2>1, KnowReads DEF DiaryType, Diary!Sources
    <3>4. QED BY <2>1, <3>1, <3>2, <3>3 DEF DiaryType
  <2>3. KeptBefore' /\ Diary!WordingsAreKept'
    BY <2>1 DEF DiaryType, KeptBefore, Diary!WordingsAreKept
  <2>4. Diary!AnswersShowTheWrite'
    BY <2>1, KnowReads DEF DiaryType, Diary!AnswersShowTheWrite, Diary!ShowsChangesOf, Diary!Sources
  <2>5. QED BY <2>2, <2>3, <2>4
<1>5. ASSUME NEW e \in Editors, Diary!FailEdit(e) PROVE DiaryInv'
  <2>1. edit' = [edit EXCEPT ![e] = Diary!NoEdit] /\ UNCHANGED <<entry, revisions, memo, stood, crossed, build>>
    BY <1>5 DEF Diary!FailEdit
  <2>2. DiaryType' /\ KeptBefore'
    BY <2>1 DEF DiaryType, KeptBefore, Diary!NoEdit
  <2>3. Diary!WordingsAreKept' /\ Diary!AnswersShowTheWrite'
    BY <2>1 DEF Diary!WordingsAreKept, Diary!AnswersShowTheWrite, Diary!ShowsChangesOf
  <2>4. QED BY <2>2, <2>3
<1>6. ASSUME NEW e \in Editors, Diary!Forget(e) PROVE DiaryInv'
  <2>1. /\ memo' = Diary!Nobody
        /\ build' = [b \in Readers |-> IF build[b].reading THEN Diary!Know("entry", {"missed"}, "less")[b]
                                        ELSE Diary!NoBuild]
        /\ edit' = [edit EXCEPT ![e] = Diary!NoEdit]
        /\ UNCHANGED <<entry, revisions, stood, crossed>>
    BY <1>6 DEF Diary!Forget, Diary!Forgotten
  <2>2. DiaryType'
    BY <2>1, KnowReads, NoBuildReads DEF DiaryType, Diary!NoEdit, Diary!Sources
  <2>3. KeptBefore' /\ Diary!WordingsAreKept'
    BY <2>1 DEF DiaryType, KeptBefore, Diary!NoEdit, Diary!WordingsAreKept
  <2>4. Diary!AnswersShowTheWrite'
    BY <2>1 DEF Diary!AnswersShowTheWrite, Diary!ShowsChangesOf
  <2>5. QED BY <2>2, <2>3, <2>4
<1>7. ASSUME Diary!Sync PROVE DiaryInv'
  <2>1. UNCHANGED memo /\ UNCHANGED Diary!edits /\ build' = Diary!Know("trades", {"now"}, "less")
    BY <1>7 DEF Diary!Sync
  <2>2. build' \in [Readers -> Reading] /\ \A b \in Readers : build'[b].knows["entry"] = build[b].knows["entry"]
    BY <2>1, KnowReads DEF DiaryType, Diary!Sources
  <2>3. QED BY <2>1, <2>2, ReadingKeepsDiary DEF DiaryType, Diary!AnswersShowTheWrite, Diary!ShowsChangesOf
<1>8. ASSUME NEW r \in Readers, Diary!Begin(r) PROVE DiaryInv'
  <2>1. /\ memo' = r /\ UNCHANGED Diary!edits
        /\ build' = [b \in Readers |-> IF b = r THEN [Diary!NoBuild EXCEPT !.reading = TRUE]
                                        ELSE IF build[b].reading THEN build[b] ELSE Diary!NoBuild]
    BY <1>8 DEF Diary!Begin
  <2>2. [Diary!NoBuild EXCEPT !.reading = TRUE] \in Reading /\ [Diary!NoBuild EXCEPT !.reading = TRUE].knows["entry"] = "nothing"
    BY DEF Diary!NoBuild, Reading, Knowledge, Diary!Sources
  <2>3. QED BY <2>1, <2>2, NoBuildReads, ReadingKeepsDiary DEF DiaryType
<1>9. ASSUME NEW r \in Readers, Diary!Finish(r) PROVE DiaryInv'
  <2>1. /\ UNCHANGED memo /\ UNCHANGED Diary!edits
        /\ build' = [build EXCEPT ![r] = Diary!Shared(r, [build[r] EXCEPT !.reading = FALSE])]
    BY <1>9 DEF Diary!Finish, DiaryType
  <2>2. /\ [build[r] EXCEPT !.reading = FALSE] \in Reading
        /\ [build[r] EXCEPT !.reading = FALSE].knows = build[r].knows
    BY DEF DiaryType, Reading
  <2>3. QED BY <2>1, <2>2, NoBuildReads, ReadingKeepsDiary
    DEF DiaryType, Diary!Shared, Diary!AnswersShowTheWrite, Diary!ShowsChangesOf
<1>10. ASSUME NEW r \in Readers, Diary!FailBuild(r) PROVE DiaryInv'
  <2>1. /\ memo' = (IF memo = r THEN Diary!Nobody ELSE memo) /\ UNCHANGED Diary!edits
        /\ build' = [build EXCEPT ![r] = Diary!NoBuild]
    BY <1>10 DEF Diary!FailBuild
  <2>2. QED
    BY <2>1, NoBuildReads, ReadingKeepsDiary DEF DiaryType, Diary!AnswersShowTheWrite, Diary!ShowsChangesOf
<1>11. ASSUME NEW r \in Readers, NEW s \in Diary!Sources, Diary!Read(r, s) PROVE DiaryInv'
  <2>1. UNCHANGED memo /\ UNCHANGED Diary!edits /\ build' = [build EXCEPT ![r].knows[s] = "now"]
    BY <1>11 DEF Diary!Read
  <2>2. /\ [build[r] EXCEPT !.knows[s] = "now"] \in Reading
        /\ [build[r] EXCEPT !.knows[s] = "now"].knows = [build[r].knows EXCEPT ![s] = "now"]
        /\ build[r].knows \in Knowledge
    BY <1>11 DEF DiaryType, Reading, Knowledge
  <2>3. build' = [build EXCEPT ![r] = [build[r] EXCEPT !.knows[s] = "now"]]
    BY <2>1
  <2>4. QED BY <2>1, <2>2, <2>3, ReadingKeepsDiary
    DEF DiaryType, Knowledge, Diary!AnswersShowTheWrite, Diary!ShowsChangesOf
<1>12. QED BY <1>1, <1>2, <1>3, <1>4, <1>5, <1>6, <1>7, <1>8, <1>9, <1>10, <1>11 DEF Diary!Next

\* In every behaviour of the journal, every wording the entry has had stands or is kept unless
\* two edits crossed, and no page is given a review that misses a write that is over.
THEOREM DiaryKept == Diary!Spec => []DiaryIsKept
<1>1. Diary!Init => DiaryInv
  <2> SUFFICES ASSUME Diary!Init PROVE DiaryInv
    OBVIOUS
  <2>1. DiaryType
    BY NoBuildReads DEF Diary!Init, DiaryType, Diary!NoEdit
  <2>2. KeptBefore
    BY DEF Diary!Init, KeptBefore, Diary!NoEdit
  <2>3. Diary!WordingsAreKept /\ Diary!AnswersShowTheWrite
    BY DEF Diary!Init, Diary!WordingsAreKept, Diary!AnswersShowTheWrite, Diary!ShowsChangesOf
  <2>4. QED BY <2>1, <2>2, <2>3 DEF DiaryInv
<1>2. DiaryInv => DiaryIsKept
  BY DEF DiaryInv, DiaryIsKept
<1>3. QED BY <1>1, <1>2, DiaryStep, PTL DEF Diary!Spec

-----------------------------------------------------------------------------
(* The copy of the trades: TradeCopy. *)

Lists == [Trades -> Bookings \union {Copy!Gone}]
Rows == [booking : Bookings \union {Copy!Gone}, removed : BOOLEAN, dismissed : BOOLEAN]
Syncs == [at : {"away", "fetched", "writing"}, list : Lists \union {{}}, left : SUBSET Trades, clean : BOOLEAN]

CopyType ==
  /\ source \in Lists
  /\ copies \in [Trades -> Rows]
  /\ sync \in [Pages -> Syncs]

\* What a page has still to write is of the list it fetched.
LeftIsListed ==
  \A p \in Pages : sync[p].at # "away" =>
    /\ sync[p].list \in Lists
    /\ sync[p].left \subseteq Copy!Listed(sync[p].list)
    /\ sync[p].at = "fetched" => sync[p].left = Copy!Listed(sync[p].list)

\* What stands in the copy as the list has it.
Stands(t, list) == ~copies[t].removed /\ copies[t].booking = list[t]

\* A page that writes and was not disturbed writes alone, and what it has written stands.
CleanIsAlone ==
  \A p \in Pages : Copy!Writing(p) /\ sync[p].clean =>
    /\ \A q \in Pages \ {p} : ~Copy!Writing(q)
    /\ \A t \in Copy!Listed(sync[p].list) \ sync[p].left : Stands(t, sync[p].list)

WholeStands ==
  ~mixed /\ (\A p \in Pages : ~Copy!Writing(p)) =>
    \A t \in Trades : IF whole[t] = Copy!Gone THEN ~Copy!Live(t) ELSE Copy!Live(t) /\ copies[t].booking = whole[t]

\* Answered is what was dismissed or has its reason.
AnsweredIsSo == \A t \in Trades : t \in answered <=> copies[t].dismissed \/ t \in reasons

CopyInv == CopyType /\ LeftIsListed /\ CleanIsAlone /\ WholeStands /\ AnsweredIsSo

\* A row is asked about as long as it is there and not removed.
LEMMA LiveRow ==
  ASSUME copies \in [Trades -> Rows], NEW t \in Trades
  PROVE  /\ copies[t].booking # Copy!Gone /\ ~copies[t].removed => Copy!Live(t)
         /\ Copy!Live(t) => ~copies[t].removed
  BY DEF Copy!Live, Copy!Inserted, Copy!NoRow, Rows

\* What a statement of p does to the other pages.
LEMMA Disturbed ==
  ASSUME sync \in [Pages -> Syncs], NEW p \in Pages, NEW next \in Syncs, Copy!Disturb(p, next)
  PROVE  /\ sync' \in [Pages -> Syncs]
         /\ sync'[p] = next
         /\ \A q \in Pages \ {p} :
              /\ sync'[q].at = sync[q].at /\ sync'[q].list = sync[q].list /\ sync'[q].left = sync[q].left
              /\ sync'[q].clean => ~Copy!Writing(q)
<1>1. ASSUME NEW q \in Pages
      PROVE  /\ [sync[q] EXCEPT !.clean = FALSE] \in Syncs
             /\ [sync[q] EXCEPT !.clean = FALSE].at = sync[q].at
             /\ [sync[q] EXCEPT !.clean = FALSE].list = sync[q].list
             /\ [sync[q] EXCEPT !.clean = FALSE].left = sync[q].left
             /\ ~[sync[q] EXCEPT !.clean = FALSE].clean
  BY DEF Syncs
<1>2. /\ sync'[p] = next
      /\ \A q \in Pages \ {p} : sync'[q] = IF Copy!Writing(q) THEN [sync[q] EXCEPT !.clean = FALSE] ELSE sync[q]
      /\ sync' = [q \in Pages |-> sync'[q]]
  BY DEF Copy!Disturb
<1>3. \A q \in Pages \ {p} : sync'[q] \in Syncs
  BY <1>1, <1>2
<1>4. \A q \in Pages \ {p} : /\ sync'[q].at = sync[q].at /\ sync'[q].list = sync[q].list /\ sync'[q].left = sync[q].left
                             /\ sync'[q].clean => ~Copy!Writing(q)
  BY <1>1, <1>2
<1>5. QED BY <1>2, <1>3, <1>4

\* A row that is dismissed or marked is the row it was otherwise.
LEMMA RowsKept ==
  ASSUME NEW c \in Rows
  PROVE  /\ [c EXCEPT !.removed = TRUE] \in Rows
         /\ [c EXCEPT !.removed = TRUE].removed
         /\ [c EXCEPT !.removed = TRUE].dismissed = c.dismissed
         /\ [c EXCEPT !.dismissed = TRUE] \in Rows
         /\ [c EXCEPT !.dismissed = TRUE].dismissed
         /\ [c EXCEPT !.dismissed = TRUE].removed = c.removed
         /\ [c EXCEPT !.dismissed = TRUE].booking = c.booking
  BY DEF Rows

\* Every statement of a sync, every answer and every change at umsatz keep the invariant.
LEMMA CopyStep == CopyInv /\ [Copy!Next]_(Copy!vars) => CopyInv'
<1> SUFFICES ASSUME CopyInv, [Copy!Next]_(Copy!vars) PROVE CopyInv'
  OBVIOUS
<1> USE DEF CopyInv
<1>1. CASE UNCHANGED Copy!vars
  BY <1>1 DEF Copy!vars, CopyType, LeftIsListed, CleanIsAlone, Stands, WholeStands, AnsweredIsSo, Copy!Writing,
              Copy!Live, Copy!Inserted
<1>2. ASSUME NEW p \in Pages, Copy!Fetch(p) PROVE CopyInv'
  <2> DEFINE next == [at |-> "fetched", list |-> source, left |-> Copy!Listed(source), clean |-> TRUE]
  <2>1. /\ sync[p].at = "away" /\ sync' = [sync EXCEPT ![p] = next]
        /\ UNCHANGED <<source, copies, reasons, whole, mixed, answered>>
    BY <1>2 DEF Copy!Fetch, Copy!goto
  <2>2. next \in Syncs
    BY DEF CopyType, Syncs, Copy!Listed
  <2>3. CopyType' /\ LeftIsListed'
    BY <2>1, <2>2 DEF CopyType, LeftIsListed, Copy!Listed
  <2>4. CleanIsAlone'
    BY <2>1, <2>2 DEF CopyType, CleanIsAlone, Stands, Copy!Writing
  <2>5. WholeStands' /\ AnsweredIsSo'
    BY <2>1 DEF CopyType, WholeStands, AnsweredIsSo, Copy!Writing, Copy!Live, Copy!Inserted
  <2>6. QED BY <2>3, <2>4, <2>5
<1>3. ASSUME NEW p \in Pages, Copy!Upsert(p) PROVE CopyInv'
  <2>1. PICK t \in sync[p].left :
          /\ copies' = [copies EXCEPT ![t] = Copy!UpsertRow(copies[t], sync[p].list[t])]
          /\ Copy!Disturb(p, [sync[p] EXCEPT !.at = "writing", !.left = sync[p].left \ {t}, !.clean = Copy!Alone(p)])
    BY <1>3 DEF Copy!Upsert, CopyType, Syncs
  <2>2. sync[p].at # "away" /\ UNCHANGED <<source, reasons, whole, mixed, answered>>
    BY <1>3 DEF Copy!Upsert
  <2>3. /\ sync[p].list \in Lists /\ sync[p].left \subseteq Copy!Listed(sync[p].list)
        /\ t \in Trades /\ sync[p].list[t] # Copy!Gone
    BY <2>1, <2>2 DEF LeftIsListed, Copy!Listed
  <2> DEFINE next == [sync[p] EXCEPT !.at = "writing", !.left = sync[p].left \ {t}, !.clean = Copy!Alone(p)]
  <2>4. next \in Syncs /\ next.at = "writing" /\ next.list = sync[p].list /\ next.left = sync[p].left \ {t}
        /\ next.clean = Copy!Alone(p)
    <3>1. Copy!Alone(p) \in BOOLEAN
      BY DEF Copy!Alone
    <3>2. ASSUME NEW b \in BOOLEAN
          PROVE  LET n == [sync[p] EXCEPT !.at = "writing", !.left = sync[p].left \ {t}, !.clean = b]
                 IN n \in Syncs /\ n.at = "writing" /\ n.list = sync[p].list /\ n.left = sync[p].left \ {t} /\ n.clean = b
      BY DEF CopyType, Syncs
    <3>3. QED BY <3>1, <3>2
  <2> HIDE DEF next
  <2>5. /\ sync' \in [Pages -> Syncs] /\ sync'[p] = next
        /\ \A q \in Pages \ {p} :
             /\ sync'[q].at = sync[q].at /\ sync'[q].list = sync[q].list /\ sync'[q].left = sync[q].left
             /\ sync'[q].clean => ~Copy!Writing(q)
    BY <2>1, <2>4, Disturbed DEF CopyType, next
  <2>6. /\ copies' \in [Trades -> Rows]
        /\ copies'[t].booking = sync[p].list[t] /\ ~copies'[t].removed /\ copies'[t].dismissed = copies[t].dismissed
        /\ \A u \in Trades \ {t} : copies'[u] = copies[u]
    BY <2>1, <2>3 DEF CopyType, Rows, Lists, Copy!UpsertRow
  <2>7. CopyType' /\ AnsweredIsSo'
    BY <2>2, <2>5, <2>6 DEF CopyType, AnsweredIsSo
  <2>8. LeftIsListed'
    BY <2>2, <2>3, <2>4, <2>5 DEF LeftIsListed, Copy!Listed
  <2>9. CleanIsAlone'
    <3> SUFFICES ASSUME NEW q \in Pages, Copy!Writing(q)', sync'[q].clean
                 PROVE  /\ \A r \in Pages \ {q} : ~Copy!Writing(r)'
                        /\ \A u \in Copy!Listed(sync'[q].list) \ sync'[q].left : Stands(u, sync[q].list)'
      BY DEF CleanIsAlone, Copy!Listed, Stands
    <3>1. q = p
      BY <2>5 DEF Copy!Writing
    <3>2. sync[p].clean /\ \A r \in Pages \ {p} : ~Copy!Writing(r)
      BY <2>4, <2>5, <3>1 DEF Copy!Alone
    <3>3. \A u \in Copy!Listed(sync[p].list) \ sync[p].left : Stands(u, sync[p].list)
      <4>1. CASE Copy!Writing(p)
        BY <3>2, <4>1 DEF CleanIsAlone
      <4>2. CASE ~Copy!Writing(p)
        BY <2>2, <4>2 DEF CopyType, Syncs, LeftIsListed, Copy!Writing
      <4>3. QED BY <4>1, <4>2
    <3>4. \A u \in Copy!Listed(sync[p].list) \ next.left : ~copies'[u].removed /\ copies'[u].booking = sync[p].list[u]
      BY <2>4, <2>6, <3>3 DEF Stands, Copy!Listed
    <3>5. \A r \in Pages \ {q} : ~Copy!Writing(r)'
      BY <2>5, <3>1, <3>2 DEF Copy!Writing
    <3>6. QED BY <2>4, <2>5, <3>1, <3>4, <3>5 DEF Stands
  <2>10. WholeStands'
    BY <2>4, <2>5 DEF WholeStands, Copy!Writing
  <2>11. QED BY <2>7, <2>8, <2>9, <2>10
<1>4. ASSUME NEW p \in Pages, Copy!Mark(p) PROVE CopyInv'
  <2>1. /\ sync[p].at # "away" /\ sync[p].left = {}
        /\ copies' = [t \in Trades |-> IF t \in Copy!Missed(p) THEN [copies[t] EXCEPT !.removed = TRUE] ELSE copies[t]]
        /\ whole' = sync[p].list /\ (mixed' <=> ~Copy!Alone(p))
        /\ Copy!Disturb(p, Copy!Away)
        /\ UNCHANGED <<source, reasons, answered>>
    BY <1>4 DEF Copy!Mark
  <2>2. Copy!Away \in Syncs /\ Copy!Away.at = "away"
    BY DEF Copy!Away, Syncs
  <2>3. /\ sync' \in [Pages -> Syncs] /\ sync'[p] = Copy!Away
        /\ \A q \in Pages \ {p} :
             /\ sync'[q].at = sync[q].at /\ sync'[q].list = sync[q].list /\ sync'[q].left = sync[q].left
             /\ sync'[q].clean => ~Copy!Writing(q)
    BY <2>1, <2>2, Disturbed DEF CopyType
  <2>4. copies' \in [Trades -> Rows] /\ \A t \in Trades : copies'[t].dismissed = copies[t].dismissed
    BY <2>1, RowsKept DEF CopyType
  <2>5. CopyType' /\ AnsweredIsSo'
    BY <2>1, <2>3, <2>4 DEF CopyType, AnsweredIsSo
  <2>6. LeftIsListed' /\ CleanIsAlone'
    BY <2>2, <2>3 DEF LeftIsListed, CleanIsAlone, Copy!Writing, Copy!Listed
  <2>7. WholeStands'
    <3> SUFFICES ASSUME Copy!Alone(p), NEW t \in Trades
                 PROVE  IF sync[p].list[t] = Copy!Gone THEN ~Copy!Live(t)'
                        ELSE Copy!Live(t)' /\ copies'[t].booking = sync[p].list[t]
      BY <2>1 DEF WholeStands
    <3>1. sync[p].list \in Lists
      BY <2>1 DEF LeftIsListed
    <3>2. CASE sync[p].list[t] = Copy!Gone
      <4>1. CASE Copy!Inserted(t)
        <5>1. copies'[t].removed
          BY <2>1, <3>2, <4>1, RowsKept DEF CopyType, Copy!Missed, Copy!Listed
        <5>2. QED BY <3>2, <5>1 DEF Copy!Live
      <4>2. CASE ~Copy!Inserted(t)
        <5>1. copies'[t] = copies[t]
          BY <2>1, <4>2 DEF Copy!Missed
        <5>2. QED BY <3>2, <4>2, <5>1 DEF Copy!Live, Copy!Inserted
      <4>3. QED BY <4>1, <4>2
    <3>3. CASE sync[p].list[t] # Copy!Gone
      <4>1. t \in Copy!Listed(sync[p].list)
        BY <3>3 DEF Copy!Listed
      <4>2. Copy!Writing(p) /\ sync[p].clean
        BY <2>1, <4>1 DEF LeftIsListed, CopyType, Syncs, Copy!Writing, Copy!Alone
      <4>3. Stands(t, sync[p].list)
        BY <2>1, <4>1, <4>2 DEF CleanIsAlone
      <4>4. copies'[t] = copies[t]
        BY <2>1, <4>1 DEF Copy!Missed
      <4>5. QED BY <3>3, <4>3, <4>4, LiveRow DEF Stands, CopyType, Copy!Live, Copy!Inserted
    <3>4. QED BY <3>2, <3>3
  <2>8. QED BY <2>5, <2>6, <2>7
<1>5. ASSUME NEW p \in Pages, Copy!Fail(p) PROVE CopyInv'
  <2>1. /\ sync' = [sync EXCEPT ![p] = Copy!Away] /\ (mixed' <=> mixed \/ Copy!Writing(p))
        /\ UNCHANGED <<source, copies, reasons, whole, answered>>
    BY <1>5 DEF Copy!Fail, Copy!goto
  <2>2. Copy!Away \in Syncs /\ Copy!Away.at = "away"
    BY DEF Copy!Away, Syncs
  <2>3. CopyType' /\ LeftIsListed' /\ AnsweredIsSo'
    BY <2>1, <2>2 DEF CopyType, LeftIsListed, AnsweredIsSo, Copy!Listed
  <2>4. CleanIsAlone'
    BY <2>1, <2>2 DEF CopyType, CleanIsAlone, Stands, Copy!Writing
  <2>5. WholeStands'
    BY <2>1, <2>2 DEF CopyType, WholeStands, Copy!Writing, Copy!Live, Copy!Inserted
  <2>6. QED BY <2>3, <2>4, <2>5
<1>6. ASSUME NEW t \in Trades, Copy!Dismiss(t) PROVE CopyInv'
  <2>1. /\ t \in Copy!openTrades /\ copies' = [copies EXCEPT ![t].dismissed = TRUE]
        /\ answered' = answered \union {t} /\ UNCHANGED <<source, sync, reasons, whole, mixed>>
    BY <1>6 DEF Copy!Dismiss, Copy!Say
  <2>2. /\ copies' \in [Trades -> Rows] /\ copies'[t].dismissed
        /\ \A u \in Trades : copies'[u].removed = copies[u].removed /\ copies'[u].booking = copies[u].booking
        /\ \A u \in Trades \ {t} : copies'[u] = copies[u]
    BY <2>1, RowsKept DEF CopyType
  <2>3. CopyType' /\ LeftIsListed' /\ AnsweredIsSo'
    BY <2>1, <2>2 DEF CopyType, LeftIsListed, AnsweredIsSo, Copy!Listed
  <2>4. CleanIsAlone'
    BY <2>1, <2>2 DEF CleanIsAlone, Stands, Copy!Writing, Copy!Listed
  <2>5. \A u \in Trades : Copy!Live(u)' <=> Copy!Live(u)
    <3>1. Copy!Live(t) /\ Copy!Live(t)'
      <4>1. ~copies'[t].removed
        BY <2>1, <2>2 DEF Copy!openTrades, Copy!Live
      <4>2. copies'[t] # Copy!NoRow
        BY <2>2 DEF Copy!NoRow
      <4>3. QED BY <2>1, <4>1, <4>2 DEF Copy!openTrades, Copy!Live, Copy!Inserted
    <3>2. QED BY <2>2, <3>1 DEF Copy!Live, Copy!Inserted
  <2>6. WholeStands'
    BY <2>1, <2>2, <2>5 DEF WholeStands, Copy!Writing
  <2>7. QED BY <2>3, <2>4, <2>6
<1>7. ASSUME NEW t \in Trades, Copy!GiveReason(t) \/ Copy!DeleteEntry(t) PROVE CopyInv'
  <2>1. UNCHANGED <<source, copies, sync, whole, mixed>>
    BY <1>7 DEF Copy!GiveReason, Copy!DeleteEntry, Copy!Say
  <2>2. AnsweredIsSo'
    BY <1>7 DEF Copy!GiveReason, Copy!DeleteEntry, AnsweredIsSo
  <2>3. CopyType' /\ LeftIsListed' /\ CleanIsAlone'
    BY <2>1 DEF CopyType, LeftIsListed, CleanIsAlone, Stands, Copy!Writing, Copy!Listed
  <2>4. WholeStands'
    BY <2>1 DEF WholeStands, Copy!Writing, Copy!Live, Copy!Inserted
  <2>5. QED BY <2>2, <2>3, <2>4
<1>8. ASSUME Copy!Rebook PROVE CopyInv'
  <2>1. source' \in Lists /\ UNCHANGED <<copies, reasons, sync, whole, mixed, answered>>
    BY <1>8 DEF Copy!Rebook, CopyType, Lists
  <2>2. CopyType' /\ LeftIsListed' /\ CleanIsAlone' /\ AnsweredIsSo'
    BY <2>1 DEF CopyType, LeftIsListed, CleanIsAlone, Stands, AnsweredIsSo, Copy!Writing, Copy!Listed
  <2>3. WholeStands'
    BY <2>1 DEF WholeStands, Copy!Writing, Copy!Live, Copy!Inserted
  <2>4. QED BY <2>2, <2>3
<1>9. QED BY <1>1, <1>2, <1>3, <1>4, <1>5, <1>6, <1>7, <1>8 DEF Copy!Next

\* The copy of the trades: whenever no sync is writing, and the last to write ran alone, it is the list
\* that sync was sent, and a trade is asked about until its owner has answered, never again.
THEOREM CopyTruth == Copy!Spec => []CopyIsTheSources
<1>1. Copy!Init => CopyInv
  <2> SUFFICES ASSUME Copy!Init PROVE CopyInv
    OBVIOUS
  <2>1. Copy!Away \in Syncs /\ Copy!Away.at = "away" /\ Copy!NoRow \in Rows /\ ~Copy!NoRow.dismissed
    BY DEF Copy!Away, Syncs, Copy!NoRow, Rows
  <2>2. CopyType
    BY <2>1 DEF Copy!Init, CopyType, Lists
  <2>3. LeftIsListed /\ CleanIsAlone
    BY <2>1 DEF Copy!Init, LeftIsListed, CleanIsAlone, Copy!Writing
  <2>4. WholeStands /\ AnsweredIsSo
    BY <2>1 DEF Copy!Init, WholeStands, AnsweredIsSo, Copy!Live, Copy!Inserted
  <2>5. QED BY <2>2, <2>3, <2>4 DEF CopyInv
<1>2. CopyInv => CopyIsTheSources
  BY DEF CopyInv, WholeStands, AnsweredIsSo, CopyIsTheSources, Copy!CopyIsTheSources, Copy!openTrades
<1>3. QED BY <1>1, <1>2, CopyStep, PTL DEF Copy!Spec

-----------------------------------------------------------------------------
(* The clicks and the queue: ViaHatchet. *)

ClickKinds == {"refreshData", "distillRefresh", "perplexityRefresh"}
ClickPlaces == {"idle", "looking", "yes", "no", "queued", "refused", "running", "done", "failed"}
ClickRecs == [pc : ClickPlaces, at : Nat, attempt : Nat, kind : ClickKinds]
Attempts == [click : Clicks, number : Nat, place : {"waiting", "begun", "calling"}]

ClickType ==
  /\ configured \in BOOLEAN /\ minute \in Nat
  /\ workers \subseteq Queue!Roles
  /\ lastLook.at \in Int /\ lastLook.ok \in BOOLEAN
  /\ clicks \in [Clicks -> ClickRecs]
  /\ attempts \subseteq Attempts
  /\ paid \in [Clicks -> Nat]
  /\ vouched \in Int /\ unattended \in Int
  /\ \A c \in Clicks : clicks[c].pc = "running" => clicks[c].attempt > 0

\* What was seen of the workers was so at its time, or later.
LooksAreTrue ==
  /\ vouched <= minute /\ unattended <= minute
  /\ IF workers = {} THEN unattended = minute ELSE vouched = minute
  /\ IF lastLook.ok THEN vouched >= lastLook.at ELSE unattended >= lastLook.at
  /\ \A c \in Clicks :
       /\ clicks[c].at <= minute
       /\ clicks[c].pc = "yes" => vouched >= clicks[c].at
       /\ clicks[c].pc = "no" => unattended >= clicks[c].at
       /\ clicks[c].pc = "queued" /\ clicks[c].attempt = 0 => clicks[c].at = 0 /\ vouched > -LookCache

\* Behind the gate nobody begins, and one calls.
GateIsKept ==
  /\ \A a \in attempts : Queue!Gated(a) => a.place # "begun"
  /\ \A a, b \in attempts :
       Queue!Gated(a) /\ a.place = "calling" /\ Queue!Gated(b) /\ b.place = "calling" => a = b

\* Only a refresh of Perplexity pays: it is tried once, and pays when it calls.
TriedOnce(c) ==
  /\ clicks[c].pc \in {"idle", "looking", "yes", "no", "queued"} =>
       /\ clicks[c].attempt = 0 /\ paid[c] = 0
       /\ \A a \in attempts : a.click # c
  /\ \A a, b \in attempts : a.click = c /\ b.click = c => a = b
  /\ \A a \in attempts : a.click = c /\ a.place # "calling" => paid[c] = 0
  /\ paid[c] <= 1

PaidForOne == \A c \in Clicks : IF clicks[c].kind = "perplexityRefresh" THEN TriedOnce(c) ELSE paid[c] = 0

ClickInv == ClickType /\ LooksAreTrue /\ GateIsKept /\ PaidForOne

LEMMA FailureKeeps ==
  ASSUME ClickType, NEW c \in Clicks, clicks[c].pc = "running"
  PROVE  LET x == Queue!afterFailure(c)
         IN /\ x \in ClickRecs /\ x.kind = clicks[c].kind /\ x.at = clicks[c].at
            /\ x.pc = "queued" => x.attempt = clicks[c].attempt /\ x.attempt <= Queue!retries(x.kind)
            /\ x.pc \in {"queued", "failed"}
  BY DEF ClickType, ClickRecs, ClickPlaces, Queue!afterFailure

\* Looking, answering, queueing, attempting, failing, and the coming and going of workers keep
\* the invariant.
LEMMA ClickStep == ClickInv /\ [Queue!Next]_(Queue!vars) => ClickInv'
<1> SUFFICES ASSUME ClickInv, [Queue!Next]_(Queue!vars) PROVE ClickInv'
  OBVIOUS
<1>0. ClickType /\ LooksAreTrue /\ GateIsKept /\ PaidForOne /\ LookCache \in Nat \ {0}
  BY ClickAssumption DEF ClickInv
\* A click that only changes its place, no attempt with it.
<1>l. ASSUME NEW c \in Clicks, NEW x \in ClickRecs, clicks' = [clicks EXCEPT ![c] = x],
             clicks[c].pc \in {"idle", "looking", "yes", "no", "queued"},
             x.kind = clicks[c].kind, x.attempt = 0 \/ x.attempt = clicks[c].attempt,
             x.pc \in {"looking", "yes", "no", "queued", "refused", "failed"},
             UNCHANGED <<configured, attempts, paid>>
      PROVE  clicks' \in [Clicks -> ClickRecs] /\ GateIsKept' /\ PaidForOne'
  <2>1. clicks' \in [Clicks -> ClickRecs] /\ clicks'[c] = x /\ \A d \in Clicks : d # c => clicks'[d] = clicks[d]
    BY <1>0, <1>l DEF ClickType
  <2>2. \A d \in Clicks : clicks'[d].kind = clicks[d].kind
    BY <2>1, <1>l
  <2>3. \A a \in attempts : Queue!Gated(a)' = Queue!Gated(a)
    BY <1>0, <2>2, <1>l DEF Queue!Gated, Queue!behindGate, ClickType, Attempts
  <2>4. GateIsKept'
    BY <1>0, <2>3, <1>l DEF GateIsKept
  <2>5. PaidForOne'
    <3> SUFFICES ASSUME NEW d \in Clicks, clicks'[d].kind = "perplexityRefresh" PROVE TriedOnce(d)'
      BY <1>0, <1>l, <2>2 DEF PaidForOne
    <3>1. TriedOnce(d)
      BY <1>0, <2>2 DEF PaidForOne
    <3>2. CASE d = c
      BY <3>1, <3>2, <2>1, <1>l DEF TriedOnce
    <3>3. CASE d # c
      BY <3>1, <3>3, <2>1, <1>l DEF TriedOnce
    <3>4. QED BY <3>2, <3>3
  <2>6. QED BY <2>1, <2>4, <2>5
\* Attempts end, and clicks with them, or are queued again; nobody calls.
<1>m. ASSUME clicks' \in [Clicks -> ClickRecs], attempts' \subseteq attempts,
             UNCHANGED <<configured, minute, lastLook, paid>>,
             \A d \in Clicks :
               \/ clicks'[d] = clicks[d]
               \/ /\ clicks[d].pc = "running" /\ clicks'[d].pc \in {"queued", "failed", "done"}
                  /\ clicks'[d].kind = clicks[d].kind /\ clicks'[d].at = clicks[d].at
                  /\ clicks'[d].pc = "queued" => /\ clicks'[d].attempt = clicks[d].attempt
                                                /\ clicks[d].attempt <= Queue!retries(clicks[d].kind),
             workers' \subseteq workers, vouched' = vouched,
             unattended' = IF workers' = workers THEN unattended ELSE IF workers' = {} THEN minute ELSE unattended
      PROVE  ClickInv'
  <2>1. \A d \in Clicks : clicks'[d].kind = clicks[d].kind
    BY <1>m
  <2>2. \A a \in attempts : Queue!Gated(a)' = Queue!Gated(a)
    BY <1>0, <2>1, <1>m DEF Queue!Gated, Queue!behindGate, ClickType, Attempts
  <2>3. GateIsKept'
    BY <1>0, <2>2, <1>m DEF GateIsKept
  <2>4. PaidForOne'
    <3> SUFFICES ASSUME NEW d \in Clicks, clicks'[d].kind = "perplexityRefresh" PROVE TriedOnce(d)'
      BY <1>0, <1>m, <2>1 DEF PaidForOne
    <3>1. TriedOnce(d) /\ clicks[d].kind = "perplexityRefresh"
      BY <1>0, <2>1 DEF PaidForOne
    <3>2. CASE clicks'[d] = clicks[d]
      BY <3>1, <3>2, <1>m DEF TriedOnce
    <3>3. CASE clicks'[d] # clicks[d]
      <4>1. clicks'[d].pc \in {"failed", "done"}
        BY <1>0, <1>m, <3>1, <3>3 DEF ClickType, ClickRecs, Queue!retries
      <4>2. QED BY <3>1, <4>1, <1>m DEF TriedOnce
    <3>4. QED BY <3>2, <3>3
  <2>5. ClickType'
    BY <1>0, <1>m DEF ClickType, ClickRecs
  <2>6. LooksAreTrue'
    <3>1. \A d \in Clicks : clicks'[d].at = clicks[d].at
      BY <1>m
    <3>2. /\ vouched' <= minute' /\ unattended' <= minute' /\ unattended' >= unattended
          /\ IF workers' = {} THEN unattended' = minute' ELSE vouched' = minute'
      BY <1>0, <1>m DEF ClickType, LooksAreTrue
    <3>3. IF lastLook'.ok THEN vouched' >= lastLook'.at ELSE unattended' >= lastLook'.at
      BY <1>0, <1>m, <3>2 DEF ClickType, LooksAreTrue
    <3>4. ASSUME NEW d \in Clicks
          PROVE  /\ clicks'[d].at <= minute'
                 /\ clicks'[d].pc = "yes" => vouched' >= clicks'[d].at
                 /\ clicks'[d].pc = "no" => unattended' >= clicks'[d].at
                 /\ clicks'[d].pc = "queued" /\ clicks'[d].attempt = 0 => clicks'[d].at = 0 /\ vouched' > -LookCache
      <4>1. clicks[d] \in ClickRecs
        BY <1>0 DEF ClickType
      <4>2. QED BY <1>0, <1>m, <3>1, <3>2, <4>1 DEF ClickType, ClickRecs, LooksAreTrue
    <3>5. QED BY <3>2, <3>3, <3>4 DEF LooksAreTrue
  <2>7. QED BY <2>3, <2>4, <2>5, <2>6 DEF ClickInv
<1>1. ASSUME NEW c \in Clicks, Queue!ClickKnown(c) PROVE ClickInv'
  <2> DEFINE place == IF lastLook.ok THEN "queued" ELSE "refused"
  <2> DEFINE x == [clicks[c] EXCEPT !.pc = place, !.at = 0]
  <2>1. clicks[c] \in ClickRecs /\ place \in ClickPlaces /\ 0 \in Nat
    BY <1>0 DEF ClickType, ClickPlaces
  <2>2. clicks' = [clicks EXCEPT ![c] = x]
    BY <1>1, <2>1 DEF Queue!ClickKnown, Queue!dispatch, Queue!over
  <2>3. clicks[c].pc = "idle" /\ place \in {"looking", "yes", "no", "queued", "refused", "failed"}
    BY <1>1 DEF Queue!ClickKnown
  <2> HIDE DEF place
  <2>4. x \in ClickRecs /\ x.pc = place /\ x.at = 0 /\ x.attempt = clicks[c].attempt /\ x.kind = clicks[c].kind
    BY <2>1 DEF ClickRecs
  <2> HIDE DEF x
  <2>5. clicks' \in [Clicks -> ClickRecs] /\ GateIsKept' /\ PaidForOne'
    BY <1>1, <1>l, <2>2, <2>3, <2>4 DEF Queue!ClickKnown
  <2>6. clicks'[c] = x /\ \A d \in Clicks : d # c => clicks'[d] = clicks[d]
    BY <1>0, <2>2 DEF ClickType
  <2>7. ClickType'
    BY <1>0, <1>1, <2>1, <2>3, <2>4, <2>5, <2>6 DEF Queue!ClickKnown, Queue!Keep, Queue!seen, ClickType, ClickRecs
  <2>8. LooksAreTrue'
    BY <1>0, <1>1, <2>1, <2>3, <2>4, <2>6 DEF Queue!ClickKnown, Queue!Keep, Queue!seen, ClickType, ClickRecs, LooksAreTrue, place
  <2>9. QED BY <2>5, <2>7, <2>8 DEF ClickInv
<1>2. ASSUME NEW c \in Clicks, Queue!ClickUnknown(c) PROVE ClickInv'
  <2> DEFINE place == "looking"
  <2> DEFINE x == [clicks[c] EXCEPT !.pc = place, !.at = minute]
  <2>1. clicks[c] \in ClickRecs /\ place \in ClickPlaces /\ minute \in Nat
    BY <1>0 DEF ClickType, ClickPlaces
  <2>2. clicks' = [clicks EXCEPT ![c] = x]
    BY <1>2, <2>1 DEF Queue!ClickUnknown, Queue!dispatch, Queue!over
  <2>3. clicks[c].pc = "idle" /\ place \in {"looking", "yes", "no", "queued", "refused", "failed"}
    BY <1>2 DEF Queue!ClickUnknown
  <2> HIDE DEF place
  <2>4. x \in ClickRecs /\ x.pc = place /\ x.at = minute /\ x.attempt = clicks[c].attempt /\ x.kind = clicks[c].kind
    BY <2>1 DEF ClickRecs
  <2> HIDE DEF x
  <2>5. clicks' \in [Clicks -> ClickRecs] /\ GateIsKept' /\ PaidForOne'
    BY <1>2, <1>l, <2>2, <2>3, <2>4 DEF Queue!ClickUnknown
  <2>6. clicks'[c] = x /\ \A d \in Clicks : d # c => clicks'[d] = clicks[d]
    BY <1>0, <2>2 DEF ClickType
  <2>7. ClickType'
    BY <1>0, <1>2, <2>1, <2>3, <2>4, <2>5, <2>6 DEF Queue!ClickUnknown, Queue!Keep, Queue!seen, ClickType, ClickRecs
  <2>8. LooksAreTrue'
    BY <1>0, <1>2, <2>1, <2>3, <2>4, <2>6 DEF Queue!ClickUnknown, Queue!Keep, Queue!seen, ClickType, ClickRecs, LooksAreTrue, place
  <2>9. QED BY <2>5, <2>7, <2>8 DEF ClickInv
<1>3. ASSUME NEW c \in Clicks, Queue!EngineLooks(c) PROVE ClickInv'
  <2> DEFINE place == IF workers # {} THEN "yes" ELSE "no"
  <2> DEFINE x == [clicks[c] EXCEPT !.pc = place]
  <2>1. clicks[c] \in ClickRecs /\ place \in ClickPlaces /\ 0 \in Nat
    BY <1>0 DEF ClickType, ClickPlaces
  <2>2. clicks' = [clicks EXCEPT ![c] = x]
    BY <1>3, <2>1 DEF Queue!EngineLooks, Queue!dispatch, Queue!over
  <2>3. clicks[c].pc = "looking" /\ place \in {"looking", "yes", "no", "queued", "refused", "failed"}
    BY <1>3 DEF Queue!EngineLooks
  <2> HIDE DEF place
  <2>4. x \in ClickRecs /\ x.pc = place /\ x.at = clicks[c].at /\ x.attempt = clicks[c].attempt /\ x.kind = clicks[c].kind
    BY <2>1 DEF ClickRecs
  <2> HIDE DEF x
  <2>5. clicks' \in [Clicks -> ClickRecs] /\ GateIsKept' /\ PaidForOne'
    BY <1>3, <1>l, <2>2, <2>3, <2>4 DEF Queue!EngineLooks
  <2>6. clicks'[c] = x /\ \A d \in Clicks : d # c => clicks'[d] = clicks[d]
    BY <1>0, <2>2 DEF ClickType
  <2>7. ClickType'
    BY <1>0, <1>3, <2>1, <2>3, <2>4, <2>5, <2>6 DEF Queue!EngineLooks, Queue!Keep, Queue!seen, ClickType, ClickRecs
  <2>8. LooksAreTrue'
    BY <1>0, <1>3, <2>1, <2>3, <2>4, <2>6 DEF Queue!EngineLooks, Queue!Keep, Queue!seen, ClickType, ClickRecs, LooksAreTrue, place
  <2>9. QED BY <2>5, <2>7, <2>8 DEF ClickInv
<1>4. ASSUME NEW c \in Clicks, Queue!Hear(c) PROVE ClickInv'
  <2> DEFINE place == IF clicks[c].pc = "yes" THEN "queued" ELSE "refused"
  <2> DEFINE x == [clicks[c] EXCEPT !.pc = place, !.at = 0]
  <2>1. clicks[c] \in ClickRecs /\ place \in ClickPlaces /\ 0 \in Nat
    BY <1>0 DEF ClickType, ClickPlaces
  <2>2. clicks' = [clicks EXCEPT ![c] = x]
    BY <1>4, <2>1 DEF Queue!Hear, Queue!dispatch, Queue!over
  <2>3. clicks[c].pc \in {"yes", "no"} /\ place \in {"looking", "yes", "no", "queued", "refused", "failed"}
    BY <1>4 DEF Queue!Hear
  <2> HIDE DEF place
  <2>4. x \in ClickRecs /\ x.pc = place /\ x.at = 0 /\ x.attempt = clicks[c].attempt /\ x.kind = clicks[c].kind
    BY <2>1 DEF ClickRecs
  <2> HIDE DEF x
  <2>5. clicks' \in [Clicks -> ClickRecs] /\ GateIsKept' /\ PaidForOne'
    BY <1>4, <1>l, <2>2, <2>3, <2>4 DEF Queue!Hear
  <2>6. clicks'[c] = x /\ \A d \in Clicks : d # c => clicks'[d] = clicks[d]
    BY <1>0, <2>2 DEF ClickType
  <2>7. ClickType'
    BY <1>0, <1>4, <2>1, <2>3, <2>4, <2>5, <2>6 DEF Queue!Hear, Queue!Keep, Queue!seen, ClickType, ClickRecs
  <2>a. lastLook'.at = clicks[c].at /\ (lastLook'.ok <=> clicks[c].pc = "yes")
    BY <1>4 DEF Queue!Hear, Queue!Keep
  <2>8. LooksAreTrue'
    BY <1>0, <1>4, <2>1, <2>3, <2>4, <2>6, <2>a DEF Queue!Hear, Queue!seen, ClickType, ClickRecs, LooksAreTrue, place
  <2>9. QED BY <2>5, <2>7, <2>8 DEF ClickInv
<1>5. ASSUME NEW c \in Clicks, Queue!LookFails(c) PROVE ClickInv'
  <2> DEFINE place == "queued"
  <2> DEFINE x == [clicks[c] EXCEPT !.pc = place, !.at = 0]
  <2>1. clicks[c] \in ClickRecs /\ place \in ClickPlaces /\ 0 \in Nat
    BY <1>0 DEF ClickType, ClickPlaces
  <2>2. clicks' = [clicks EXCEPT ![c] = x]
    BY <1>5, <2>1 DEF Queue!LookFails, Queue!dispatch, Queue!over
  <2>3. clicks[c].pc \in {"looking", "yes", "no"} /\ place \in {"looking", "yes", "no", "queued", "refused", "failed"}
    BY <1>5 DEF Queue!LookFails
  <2> HIDE DEF place
  <2>4. x \in ClickRecs /\ x.pc = place /\ x.at = 0 /\ x.attempt = clicks[c].attempt /\ x.kind = clicks[c].kind
    BY <2>1 DEF ClickRecs
  <2> HIDE DEF x
  <2>5. clicks' \in [Clicks -> ClickRecs] /\ GateIsKept' /\ PaidForOne'
    BY <1>5, <1>l, <2>2, <2>3, <2>4 DEF Queue!LookFails
  <2>6. clicks'[c] = x /\ \A d \in Clicks : d # c => clicks'[d] = clicks[d]
    BY <1>0, <2>2 DEF ClickType
  <2>7. ClickType'
    BY <1>0, <1>5, <2>1, <2>3, <2>4, <2>5, <2>6 DEF Queue!LookFails, Queue!Keep, Queue!seen, ClickType, ClickRecs
  <2>8. LooksAreTrue'
    BY <1>0, <1>5, <2>1, <2>3, <2>4, <2>6 DEF Queue!LookFails, Queue!Keep, Queue!seen, ClickType, ClickRecs, LooksAreTrue, place
  <2>9. QED BY <2>5, <2>7, <2>8 DEF ClickInv
<1>6. ASSUME NEW c \in Clicks, Queue!Start(c) PROVE ClickInv'
  <2> DEFINE n == clicks[c].attempt + 1
  <2> DEFINE x == [clicks[c] EXCEPT !.pc = "running", !.attempt = n]
  <2>0. PICK b : b = Queue!Attempt(c)
    OBVIOUS
  <2>1. clicks[c] \in ClickRecs /\ n \in Nat /\ n > 0
    BY <1>0 DEF ClickType, ClickRecs
  <2>2. clicks[c].pc \in {"idle", "queued"} /\ clicks' = [clicks EXCEPT ![c] = x]
    BY <1>6, <2>1 DEF Queue!Start
  <2>3. /\ UNCHANGED <<configured, minute, workers, lastLook, paid, vouched, unattended>>
        /\ attempts' = attempts \union {b}
    BY <1>6, <2>0 DEF Queue!Start, Queue!seen
  <2>4. /\ b \in Attempts /\ b.click = c /\ b.place # "calling"
        /\ configured /\ clicks[c].kind = "distillRefresh" => b.place = "waiting"
    BY <2>0, <2>1 DEF Queue!Attempt, Queue!behindGate, Attempts
  <2> HIDE DEF n
  <2>5. x \in ClickRecs /\ x.pc = "running" /\ x.at = clicks[c].at /\ x.attempt = n /\ x.kind = clicks[c].kind
    BY <2>1 DEF ClickRecs, ClickPlaces
  <2> HIDE DEF x
  <2>6. clicks' \in [Clicks -> ClickRecs] /\ clicks'[c] = x /\ \A d \in Clicks : d # c => clicks'[d] = clicks[d]
    BY <1>0, <2>2, <2>5 DEF ClickType
  <2>7. ClickType'
    BY <1>0, <2>1, <2>3, <2>4, <2>5, <2>6 DEF ClickType
  <2>8. LooksAreTrue'
    BY <1>0, <2>1, <2>3, <2>5, <2>6 DEF ClickType, ClickRecs, LooksAreTrue
  <2>9. \A d \in Clicks : clicks'[d].kind = clicks[d].kind
    BY <2>5, <2>6
  <2>10. \A a \in attempts : Queue!Gated(a)' = Queue!Gated(a)
    BY <1>0, <2>3, <2>9 DEF Queue!Gated, Queue!behindGate, ClickType, Attempts
  <2>11. GateIsKept'
    <3>1. Queue!Gated(b)' => b.place = "waiting"
      BY <2>3, <2>4, <2>9 DEF Queue!Gated, Queue!behindGate
    <3>2. \A e \in attempts' : (e \in attempts /\ Queue!Gated(e)' = Queue!Gated(e)) \/ e = b
      BY <2>3, <2>10
    <3>3. (\A e \in attempts : Queue!Gated(e) => e.place # "begun")'
      BY <1>0, <2>4, <3>1, <3>2 DEF GateIsKept
    <3>4. ASSUME NEW e \in attempts', NEW f \in attempts', Queue!Gated(e)', e.place = "calling", Queue!Gated(f)', f.place = "calling"
          PROVE  e = f
      <4>1. e # b /\ f # b
        BY <2>4, <3>4
      <4>2. /\ e \in attempts /\ f \in attempts /\ Queue!Gated(e) /\ Queue!Gated(f)
        BY <3>2, <3>4, <4>1
      <4>3. QED BY <1>0, <3>4, <4>2 DEF GateIsKept
    <3>5. QED BY <3>3, <3>4 DEF GateIsKept
  <2>12. PaidForOne'
    <3> SUFFICES ASSUME NEW d \in Clicks, clicks'[d].kind = "perplexityRefresh" PROVE TriedOnce(d)'
      BY <1>0, <2>3, <2>9 DEF PaidForOne
    <3>1. TriedOnce(d)
      BY <1>0, <2>9 DEF PaidForOne
    <3>2. CASE d = c
      BY <3>1, <3>2, <2>2, <2>3, <2>4, <2>5, <2>6 DEF TriedOnce
    <3>3. CASE d # c
      BY <3>1, <3>3, <2>3, <2>4, <2>6 DEF TriedOnce
    <3>4. QED BY <3>2, <3>3
  <2>13. QED BY <2>7, <2>8, <2>11, <2>12 DEF ClickInv
<1>7. ASSUME NEW c \in Clicks, Queue!TimeOut(c) PROVE ClickInv'
  <2>1. clicks[c].pc = "running" /\ clicks' = [clicks EXCEPT ![c] = Queue!afterFailure(c)]
    BY <1>7 DEF Queue!TimeOut
  <2>2. /\ clicks' \in [Clicks -> ClickRecs] /\ clicks'[c] = Queue!afterFailure(c)
        /\ \A d \in Clicks : d # c => clicks'[d] = clicks[d]
    BY <1>0, <2>1, FailureKeeps DEF ClickType
  <2>3. QED BY <1>0, <1>7, <1>m, <2>1, <2>2, FailureKeeps DEF Queue!TimeOut, Queue!seen
<1>8. ASSUME NEW c \in Clicks, Queue!GiveUp(c) PROVE ClickInv'
  <2> DEFINE place == "failed"
  <2> DEFINE x == [clicks[c] EXCEPT !.pc = place, !.attempt = 0]
  <2>1. clicks[c] \in ClickRecs /\ place \in ClickPlaces /\ 0 \in Nat
    BY <1>0 DEF ClickType, ClickPlaces
  <2>2. clicks' = [clicks EXCEPT ![c] = x]
    BY <1>8, <2>1 DEF Queue!GiveUp, Queue!dispatch, Queue!over
  <2>3. clicks[c].pc = "queued" /\ place \in {"looking", "yes", "no", "queued", "refused", "failed"}
    BY <1>8 DEF Queue!GiveUp
  <2> HIDE DEF place
  <2>4. x \in ClickRecs /\ x.pc = place /\ x.at = clicks[c].at /\ x.attempt = 0 /\ x.kind = clicks[c].kind
    BY <2>1 DEF ClickRecs
  <2> HIDE DEF x
  <2>5. clicks' \in [Clicks -> ClickRecs] /\ GateIsKept' /\ PaidForOne'
    BY <1>8, <1>l, <2>2, <2>3, <2>4 DEF Queue!GiveUp
  <2>6. clicks'[c] = x /\ \A d \in Clicks : d # c => clicks'[d] = clicks[d]
    BY <1>0, <2>2 DEF ClickType
  <2>7. ClickType'
    BY <1>0, <1>8, <2>1, <2>3, <2>4, <2>5, <2>6 DEF Queue!GiveUp, Queue!Keep, Queue!seen, ClickType, ClickRecs
  <2>8. LooksAreTrue'
    BY <1>0, <1>8, <2>1, <2>3, <2>4, <2>6 DEF Queue!GiveUp, Queue!Keep, Queue!seen, ClickType, ClickRecs, LooksAreTrue, place
  <2>9. QED BY <2>5, <2>7, <2>8 DEF ClickInv
<1>9. ASSUME NEW a \in attempts, Queue!Call(a) PROVE ClickInv'
  <2> DEFINE b == [a EXCEPT !.place = "calling"]
  <2>1. a \in Attempts /\ a.place # "calling" /\ Queue!mayCall(a)
    BY <1>0, <1>9 DEF ClickType, Queue!Call
  <2>2. b \in Attempts /\ b.click = a.click /\ b.place = "calling"
    BY <2>1 DEF Attempts
  <2>3. /\ UNCHANGED <<configured, minute, workers, lastLook, clicks, vouched, unattended>>
        /\ attempts' = (attempts \ {a}) \union {b}
        /\ paid' = IF clicks[a.click].kind = "perplexityRefresh" THEN [paid EXCEPT ![a.click] = @ + 1] ELSE paid
    BY <1>9 DEF Queue!Call, Queue!seen
  <2> HIDE DEF b
  <2>4. a.click \in Clicks
    BY <2>1 DEF Attempts
  <2>5. ClickType' /\ LooksAreTrue'
    BY <1>0, <2>2, <2>3, <2>4 DEF ClickType, LooksAreTrue
  <2>6. GateIsKept'
    <3>1. \A e \in Attempts : Queue!Gated(e)' = Queue!Gated(e)
      BY <2>3 DEF Queue!Gated
    <3>2. Queue!Gated(b) = Queue!Gated(a)
      BY <2>2 DEF Queue!Gated
    <3>3. Queue!Gated(a) => \A e \in attempts : ~(Queue!Gated(e) /\ e.place = "calling")
      BY <1>0, <2>1 DEF GateIsKept, Queue!mayCall
    <3>4. \A e \in attempts' : e \in Attempts /\ (e = b \/ e \in attempts)
      BY <1>0, <2>2, <2>3 DEF ClickType
    <3>5. QED BY <1>0, <2>2, <2>3, <3>1, <3>2, <3>3, <3>4 DEF GateIsKept
  <2>7. PaidForOne'
    <3> SUFFICES ASSUME NEW d \in Clicks
                 PROVE  (IF clicks[d].kind = "perplexityRefresh" THEN TriedOnce(d) ELSE paid[d] = 0)'
      BY DEF PaidForOne
    <3>1. CASE d = a.click /\ clicks[d].kind = "perplexityRefresh"
      <4>1. TriedOnce(d)
        BY <1>0, <3>1 DEF PaidForOne
      <4>2. paid[d] = 0 /\ paid'[d] = 1
        BY <1>0, <1>9, <2>1, <2>3, <3>1, <4>1 DEF TriedOnce, ClickType
      <4>3. \A e \in attempts' : e.click = d => e = b
        BY <1>9, <2>3, <3>1, <4>1 DEF TriedOnce
      <4>4. clicks[d].pc \notin {"idle", "looking", "yes", "no", "queued"}
        BY <1>9, <3>1, <4>1 DEF TriedOnce
      <4>5. QED BY <2>2, <2>3, <3>1, <4>2, <4>3, <4>4 DEF TriedOnce
    <3>2. CASE d # a.click \/ clicks[d].kind # "perplexityRefresh"
      <4>1. paid'[d] = paid[d]
        BY <1>0, <2>3, <3>2 DEF ClickType
      <4>2. QED BY <1>0, <2>2, <2>3, <3>2, <4>1 DEF PaidForOne, TriedOnce
    <3>3. QED BY <3>1, <3>2
  <2>8. QED BY <2>5, <2>6, <2>7 DEF ClickInv
<1>10. ASSUME NEW a \in attempts, Queue!Succeed(a) PROVE ClickInv'
  <2>1. attempts' \subseteq attempts /\ UNCHANGED <<configured, minute, workers, lastLook, paid, vouched, unattended>>
    BY <1>10 DEF Queue!Succeed, Queue!seen
  <2>2. CASE Queue!Awaited(a)
    <3> DEFINE x == [clicks[a.click] EXCEPT !.pc = "done", !.attempt = 0]
    <3>1. a.click \in Clicks /\ clicks[a.click] \in ClickRecs
      BY <1>0 DEF ClickType, Attempts
    <3>2. clicks[a.click].pc = "running" /\ clicks' = [clicks EXCEPT ![a.click] = x]
      BY <1>10, <2>2, <3>1 DEF Queue!Succeed, Queue!Awaited, Queue!over
    <3>3. x \in ClickRecs /\ x.pc = "done" /\ x.at = clicks[a.click].at /\ x.kind = clicks[a.click].kind
      BY <3>1 DEF ClickRecs, ClickPlaces
    <3> HIDE DEF x
    <3>4. clicks' \in [Clicks -> ClickRecs] /\ clicks'[a.click] = x /\ \A d \in Clicks : d # a.click => clicks'[d] = clicks[d]
      BY <1>0, <3>1, <3>2, <3>3 DEF ClickType
    <3>5. QED BY <1>0, <1>m, <2>1, <3>1, <3>2, <3>3, <3>4
  <2>3. CASE ~Queue!Awaited(a)
    BY <1>0, <1>10, <1>m, <2>1, <2>3 DEF Queue!Succeed, ClickType
  <2>4. QED BY <2>2, <2>3
<1>11. ASSUME NEW a \in attempts, Queue!Fail(a) PROVE ClickInv'
  <2>1. attempts' \subseteq attempts /\ UNCHANGED <<configured, minute, workers, lastLook, paid, vouched, unattended>>
    BY <1>11 DEF Queue!Fail, Queue!seen
  <2>2. CASE Queue!Awaited(a)
    <3>1. a.click \in Clicks /\ clicks[a.click].pc = "running"
      BY <1>0, <2>2 DEF ClickType, Attempts, Queue!Awaited
    <3>2. clicks' = [clicks EXCEPT ![a.click] = Queue!afterFailure(a.click)]
      BY <1>11, <2>2 DEF Queue!Fail
    <3>3. /\ clicks' \in [Clicks -> ClickRecs] /\ clicks'[a.click] = Queue!afterFailure(a.click)
          /\ \A d \in Clicks : d # a.click => clicks'[d] = clicks[d]
      BY <1>0, <3>1, <3>2, FailureKeeps DEF ClickType
    <3>4. QED BY <1>0, <1>m, <2>1, <3>1, <3>3, FailureKeeps
  <2>3. CASE ~Queue!Awaited(a)
    BY <1>0, <1>11, <1>m, <2>1, <2>3 DEF Queue!Fail, ClickType
  <2>4. QED BY <2>2, <2>3
<1>12. ASSUME NEW role \in Queue!Roles, Queue!WorkerDies(role) PROVE ClickInv'
  <2>1. /\ attempts' \subseteq attempts /\ UNCHANGED <<configured, minute, lastLook, paid, vouched>>
        /\ workers' \subseteq workers /\ workers' # workers
        /\ unattended' = IF workers' = {} THEN minute ELSE unattended
    BY <1>12 DEF Queue!WorkerDies
  <2>2. \A d \in Clicks :
           clicks'[d] = IF clicks[d].pc = "running" /\ Queue!roleOf(clicks[d].kind) = role
                        THEN Queue!afterFailure(d) ELSE clicks[d]
    BY <1>12 DEF Queue!WorkerDies
  <2>3. \A d \in Clicks : clicks[d] \in ClickRecs
    BY <1>0 DEF ClickType
  <2>4. \A d \in Clicks : clicks'[d] \in ClickRecs
    BY <1>0, <2>2, <2>3, FailureKeeps
  <2>5. clicks' \in [Clicks -> ClickRecs]
    BY <1>12, <2>4 DEF Queue!WorkerDies
  <2>6. ASSUME NEW d \in Clicks, clicks'[d] # clicks[d]
        PROVE  /\ clicks[d].pc = "running" /\ clicks'[d].pc \in {"queued", "failed", "done"}
               /\ clicks'[d].kind = clicks[d].kind /\ clicks'[d].at = clicks[d].at
               /\ clicks'[d].pc = "queued" => /\ clicks'[d].attempt = clicks[d].attempt
                                             /\ clicks[d].attempt <= Queue!retries(clicks[d].kind)
    <3>1. clicks[d].pc = "running" /\ clicks'[d] = Queue!afterFailure(d)
      BY <2>2, <2>6
    <3>2. QED BY <1>0, <3>1, FailureKeeps
  <2>7. QED BY <1>m, <2>1, <2>5, <2>6
<1>13. ASSUME NEW role \in Queue!Roles, Queue!WorkerStarts(role) PROVE ClickInv'
  <2>1. UNCHANGED <<configured, minute, lastLook, clicks, attempts, paid, unattended>> /\ vouched' = minute
        /\ workers' = workers \union {role}
    BY <1>13 DEF Queue!WorkerStarts
  <2>2. ClickType'
    BY <1>0, <2>1 DEF ClickType
  <2>3. GateIsKept' /\ PaidForOne'
    BY <1>0, <2>1 DEF GateIsKept, PaidForOne, TriedOnce, Queue!Gated
  <2>4. LooksAreTrue'
    BY <1>0, <2>1 DEF ClickType, ClickRecs, LooksAreTrue
  <2>5. QED BY <2>2, <2>3, <2>4 DEF ClickInv
<1>14. CASE Queue!Tick
  <2>1. UNCHANGED <<configured, workers, lastLook, clicks, attempts, paid>> /\ minute' = minute + 1
    BY <1>14 DEF Queue!Tick
  <2>2. IF workers = {} THEN unattended' = minute' /\ vouched' = vouched ELSE vouched' = minute' /\ unattended' = unattended
    BY <1>14 DEF Queue!Tick
  <2>3. ClickType'
    BY <1>0, <2>1, <2>2 DEF ClickType
  <2>4. GateIsKept' /\ PaidForOne'
    BY <1>0, <2>1 DEF GateIsKept, PaidForOne, TriedOnce, Queue!Gated
  <2>5. vouched' >= vouched /\ unattended' >= unattended /\ vouched' <= minute' /\ unattended' <= minute'
    BY <1>0, <2>1, <2>2 DEF ClickType, LooksAreTrue
  <2>6. LooksAreTrue'
    BY <1>0, <2>1, <2>2, <2>3, <2>5 DEF ClickType, ClickRecs, LooksAreTrue
  <2>7. QED BY <2>3, <2>4, <2>6 DEF ClickInv
<1>15. CASE UNCHANGED Queue!vars
  BY <1>0, <1>15 DEF Queue!vars, Queue!seen, ClickInv, ClickType, LooksAreTrue, GateIsKept, PaidForOne,
                     TriedOnce, Queue!Gated
<1>16. QED
  BY <1>1, <1>2, <1>3, <1>4, <1>5, <1>6, <1>7, <1>8, <1>9, <1>10, <1>11, <1>12, <1>13, <1>14, <1>15 DEF Queue!Next

\* Nothing is clicked and nothing seen before the start.
LEMMA ClicksBegin == Queue!Init => ClickInv
<1> SUFFICES ASSUME Queue!Init PROVE ClickInv
  OBVIOUS
<1>1. PICK kinds \in Mixes : clicks = [c \in Clicks |-> Queue!Click(kinds[c])]
  BY DEF Queue!Init
<1>2. \A c \in Clicks : /\ clicks[c] \in ClickRecs /\ clicks[c].pc = "idle" /\ clicks[c].at = 0 /\ clicks[c].attempt = 0
  BY <1>1, ClickAssumption DEF Queue!Click, ClickRecs, ClickPlaces, ClickKinds
<1>3. clicks \in [Clicks -> ClickRecs]
  BY <1>1, <1>2
<1>4. ClickType
  BY <1>2, <1>3, ClickAssumption DEF Queue!Init, ClickType, Queue!NoLook, Queue!Roles
<1>5. LooksAreTrue
  BY <1>2, ClickAssumption DEF Queue!Init, LooksAreTrue, Queue!NoLook
<1>6. GateIsKept /\ PaidForOne
  BY <1>2 DEF Queue!Init, GateIsKept, PaidForOne, TriedOnce
<1>7. QED BY <1>4, <1>5, <1>6 DEF ClickInv

\* What is known of the workers answers a click as AnswersAreRecent says.
LEMMA AnswersAreSo ==
  ASSUME ClickInv, [Queue!Next]_(Queue!vars), NEW c \in Clicks
  PROVE  LET since == (IF clicks[c].pc = "idle" THEN minute ELSE clicks[c].at) - LookCache
         IN /\ clicks'[c].pc = "refused" /\ clicks[c].pc # "refused" => unattended > since
            /\ clicks'[c].pc = "queued" /\ clicks[c].attempt = 0 => vouched' > since
<1>0. /\ ClickType /\ LooksAreTrue /\ LookCache \in Nat \ {0} /\ clicks[c] \in ClickRecs
      /\ clicks[c].attempt = 0 \/ clicks[c].attempt > 0
  BY ClickAssumption DEF ClickInv, ClickType, ClickRecs
<1> DEFINE since == (IF clicks[c].pc = "idle" THEN minute ELSE clicks[c].at) - LookCache
<1> DEFINE Answered == /\ clicks'[c].pc = "refused" /\ clicks[c].pc # "refused" => unattended > since
                       /\ clicks'[c].pc = "queued" /\ clicks[c].attempt = 0 => vouched' > since
<1>v. vouched' >= vouched /\ vouched' \in Int
  <2>1. vouched' = vouched \/ vouched' = minute \/ (vouched' = minute' /\ minute' = minute + 1)
    BY DEF Queue!Next, Queue!vars, Queue!seen, Queue!ClickKnown, Queue!ClickUnknown, Queue!EngineLooks, Queue!Hear,
           Queue!LookFails, Queue!Start, Queue!TimeOut, Queue!GiveUp, Queue!Call, Queue!Succeed, Queue!Fail,
           Queue!WorkerDies, Queue!WorkerStarts, Queue!Tick
  <2>2. QED BY <1>0, <2>1 DEF ClickType, LooksAreTrue
<1>s. ASSUME clicks'[c] = clicks[c], vouched' >= vouched PROVE Answered
  <2>1. clicks[c].pc = "queued" /\ clicks[c].attempt = 0 => vouched > -LookCache /\ clicks[c].at = 0
    BY <1>0 DEF LooksAreTrue
  <2>2. clicks[c].pc = "queued" /\ clicks[c].attempt = 0 => vouched' > since
    BY <1>0, <1>s, <1>v, <2>1 DEF ClickType
  <2>3. QED BY <1>s, <2>2
<1>f. ASSUME clicks'[c].pc \notin {"queued", "refused"} PROVE Answered
  BY <1>f
<1>r. ASSUME clicks[c].pc = "running", clicks'[c].pc \in {"queued", "failed"} PROVE Answered
  BY <1>0, <1>r DEF ClickType
<1>1. ASSUME NEW d \in Clicks, Queue!ClickKnown(d) PROVE Answered
  <2>1. d # c => Answered
    BY <1>0, <1>1, <1>s DEF ClickType, Queue!ClickKnown, Queue!dispatch, Queue!seen
  <2>2. d = c => Answered
    <3> HAVE d = c
    <3>1. clicks[c].pc = "idle" /\ minute - lastLook.at < LookCache /\ vouched' = vouched
      BY <1>1 DEF Queue!ClickKnown, Queue!seen
    <3>2. clicks'[c].pc = IF lastLook.ok THEN "queued" ELSE "refused"
      BY <1>0, <1>1 DEF Queue!ClickKnown, Queue!dispatch, ClickType, ClickRecs
    <3>3. QED BY <1>0, <3>1, <3>2 DEF ClickType, LooksAreTrue
  <2>3. QED BY <2>1, <2>2
<1>2. ASSUME NEW d \in Clicks, Queue!ClickUnknown(d) PROVE Answered
  <2>1. d # c => clicks'[c] = clicks[c] /\ vouched' = vouched
    BY <1>0, <1>2 DEF ClickType, Queue!ClickUnknown, Queue!seen
  <2>2. d = c => clicks'[c].pc = "looking"
    BY <1>0, <1>2 DEF ClickType, ClickRecs, Queue!ClickUnknown
  <2>3. QED BY <1>0, <1>s, <1>f, <2>1, <2>2 DEF ClickType
<1>3. ASSUME NEW d \in Clicks, Queue!EngineLooks(d) PROVE Answered
  <2>1. d # c => clicks'[c] = clicks[c] /\ vouched' = vouched
    BY <1>0, <1>3 DEF ClickType, Queue!EngineLooks, Queue!seen
  <2>2. d = c => clicks'[c].pc \in {"yes", "no"}
    BY <1>0, <1>3 DEF ClickType, ClickRecs, Queue!EngineLooks
  <2>3. QED BY <1>0, <1>s, <1>f, <2>1, <2>2 DEF ClickType
<1>4. ASSUME NEW d \in Clicks, Queue!Hear(d) PROVE Answered
  <2>1. d # c => clicks'[c] = clicks[c] /\ vouched' = vouched
    BY <1>0, <1>4 DEF ClickType, Queue!Hear, Queue!dispatch, Queue!seen
  <2>2. d = c => Answered
    <3> HAVE d = c
    <3>1. clicks[c].pc \in {"yes", "no"} /\ vouched' = vouched
      BY <1>4 DEF Queue!Hear, Queue!seen
    <3>2. clicks'[c].pc = IF clicks[c].pc = "yes" THEN "queued" ELSE "refused"
      BY <1>0, <1>4 DEF Queue!Hear, Queue!dispatch, ClickType, ClickRecs
    <3>3. clicks[c].at \in Nat
      BY <1>0 DEF ClickRecs
    <3>4. QED BY <1>0, <3>1, <3>2, <3>3 DEF ClickType, LooksAreTrue
  <2>3. QED BY <1>0, <1>s, <2>1, <2>2 DEF ClickType
<1>5. ASSUME NEW d \in Clicks, Queue!LookFails(d) PROVE Answered
  <2>1. d # c => clicks'[c] = clicks[c] /\ vouched' >= vouched
    BY <1>0, <1>5 DEF ClickType, LooksAreTrue, Queue!LookFails, Queue!dispatch
  <2>2. d = c => Answered
    <3> HAVE d = c
    <3>1. clicks[c].pc \in {"looking", "yes", "no"} /\ vouched' = minute
      BY <1>5 DEF Queue!LookFails
    <3>2. clicks'[c].pc = "queued"
      BY <1>0, <1>5 DEF Queue!LookFails, Queue!dispatch, ClickType, ClickRecs
    <3>3. clicks[c].at \in Nat /\ clicks[c].at <= minute
      BY <1>0 DEF ClickRecs, LooksAreTrue
    <3>4. QED BY <1>0, <3>1, <3>2, <3>3 DEF ClickType
  <2>3. QED BY <1>s, <2>1, <2>2
<1>6. ASSUME NEW d \in Clicks, Queue!Start(d) PROVE Answered
  <2>1. d # c => clicks'[c] = clicks[c]
    BY <1>0, <1>6 DEF ClickType, Queue!Start
  <2>2. d = c => clicks'[c].pc = "running"
    BY <1>0, <1>6 DEF ClickType, ClickRecs, Queue!Start
  <2>3. QED BY <1>s, <1>f, <1>v, <2>1, <2>2
<1>7. ASSUME NEW d \in Clicks, Queue!TimeOut(d) PROVE Answered
  <2>1. d # c => clicks'[c] = clicks[c]
    BY <1>0, <1>7 DEF ClickType, Queue!TimeOut
  <2>2. d = c => clicks[c].pc = "running" /\ clicks'[c] = Queue!afterFailure(c)
    BY <1>0, <1>7 DEF ClickType, Queue!TimeOut
  <2>3. QED BY <1>0, <1>s, <1>r, <1>v, <2>1, <2>2, FailureKeeps
<1>8. ASSUME NEW d \in Clicks, Queue!GiveUp(d) PROVE Answered
  <2>1. d # c => clicks'[c] = clicks[c]
    BY <1>0, <1>8 DEF ClickType, Queue!GiveUp, Queue!over
  <2>2. d = c => clicks'[c].pc = "failed"
    BY <1>0, <1>8 DEF ClickType, ClickRecs, Queue!GiveUp, Queue!over
  <2>3. QED BY <1>s, <1>f, <1>v, <2>1, <2>2
<1>10. ASSUME NEW a \in attempts, Queue!Succeed(a) PROVE Answered
  <2>1. clicks'[c] = clicks[c] \/ clicks'[c].pc = "done"
    BY <1>0, <1>10 DEF ClickType, ClickRecs, Attempts, Queue!Succeed, Queue!over
  <2>2. QED BY <1>s, <1>f, <1>v, <2>1
<1>11. ASSUME NEW a \in attempts, Queue!Fail(a) PROVE Answered
  <2>1. clicks'[c] = clicks[c] \/ (clicks[c].pc = "running" /\ clicks'[c] = Queue!afterFailure(c))
    BY <1>0, <1>11 DEF ClickType, Attempts, Queue!Fail, Queue!Awaited
  <2>2. QED BY <1>0, <1>s, <1>r, <1>v, <2>1, FailureKeeps
<1>12. ASSUME NEW role \in Queue!Roles, Queue!WorkerDies(role) PROVE Answered
  <2>1. clicks'[c] = clicks[c] \/ (clicks[c].pc = "running" /\ clicks'[c] = Queue!afterFailure(c))
    BY <1>12 DEF Queue!WorkerDies
  <2>2. QED BY <1>0, <1>s, <1>r, <1>v, <2>1, FailureKeeps
<1>13. CASE UNCHANGED clicks
  BY <1>13, <1>s, <1>v
<1>14. QED BY <1>1, <1>2, <1>3, <1>4, <1>5, <1>6, <1>7, <1>8, <1>10, <1>11, <1>12, <1>13
     DEF Queue!Next, Queue!vars, Queue!Call, Queue!WorkerStarts, Queue!Tick

\* Single jobs: a click is refused, or queued, by what was so within the ten seconds of a look;
\* one call at a time gets through the gate to Distill, and a refresh of Perplexity is paid for once.
THEOREM ClicksServed == Queue!Spec => ClicksAreServed
<1>1. ClickInv => Queue!OneGatedCall /\ Queue!PaidOnce
  <2> SUFFICES ASSUME ClickInv PROVE Queue!OneGatedCall /\ Queue!PaidOnce
    OBVIOUS
  <2>1. Queue!PaidOnce
    BY DEF ClickInv, PaidForOne, TriedOnce, Queue!PaidOnce
  <2>2. \A a, b \in {a \in Queue!AtDistill : Queue!Gated(a)} : a = b
    BY DEF ClickInv, GateIsKept, Queue!AtDistill
  <2>3. Cardinality({a \in Queue!AtDistill : Queue!Gated(a)}) \in {0, 1}
    BY <2>2, AtMostOneCounts
  <2>4. Queue!OneGatedCall
    BY <2>3 DEF Queue!OneGatedCall, Queue!Cardinality, Cardinality
  <2>5. QED BY <2>1, <2>4
<1>2. ClickInv /\ [Queue!Next]_(Queue!vars) =>
        [\A c \in Clicks :
           LET since == (IF clicks[c].pc = "idle" THEN minute ELSE clicks[c].at) - LookCache
           IN /\ clicks'[c].pc = "refused" /\ clicks[c].pc # "refused" => unattended > since
              /\ clicks'[c].pc = "queued" /\ clicks[c].attempt = 0 => vouched' > since]_(Queue!vars)
  BY AnswersAreSo
<1>3. QED
  BY <1>1, <1>2, ClicksBegin, ClickStep, PTL DEF Queue!Spec, ClicksAreServed, Queue!ClicksAreServed, Queue!AnswersAreRecent

-----------------------------------------------------------------------------
(* Numbers and lists. *)

\* Some number of a set of them is the smallest.
LEMMA SmallestOf ==
  ASSUME NEW T \in SUBSET Nat, T # {}
  PROVE  \E x \in T : \A y \in T : x <= y
<1>1. \E x \in T : \A y \in T : ~ (<<y, x>> \in OpToRel(<,Nat))
  BY NatLessThanWellFounded, WFMin
<1>2. \A x, y \in Nat : y < x => <<y, x>> \in OpToRel(<,Nat)
  BY DEF OpToRel
<1>3. \A x, y \in Nat : ~(y < x) => x <= y
  OBVIOUS
<1>4. PICK x \in T : \A y \in T : ~ (<<y, x>> \in OpToRel(<,Nat))
  BY <1>1, Zenon
<1>5. ASSUME NEW y \in T PROVE x <= y
  <2>1. x \in Nat /\ y \in Nat
    OBVIOUS
  <2>2. ~(y < x)
    BY <1>2, <1>4, <2>1, Zenon
  <2>3. QED BY <1>3, <2>1, <2>2, Zenon
<1>6. QED BY <1>5, Zenon

\* Induction over a list: what holds of its empty beginning, and of each beginning if of the
\* one before it, holds of every one, since no beginning is the first of which it does not.
LEMMA NoFirstException ==
  ASSUME NEW N \in Nat, NEW Good, 0 \in Good, \A n \in 1 .. N : n - 1 \in Good => n \in Good
  PROVE  0 .. N \subseteq Good
<1> DEFINE T == (0 .. N) \ Good
<1>1. SUFFICES T = {}
  OBVIOUS
<1>2. SUFFICES ASSUME T # {} PROVE FALSE
  OBVIOUS
<1>3. T \in SUBSET Nat
  OBVIOUS
<1>4. PICK x \in T : \A y \in T : x <= y
  BY <1>2, <1>3, SmallestOf
<1>5. x \in 1 .. N /\ x - 1 \in 0 .. N /\ ~(x <= x - 1)
  OBVIOUS
<1>6. QED BY <1>4, <1>5

\* And some number of a bounded set the largest.
LEMMA LargestOf ==
  ASSUME NEW n \in Nat, NEW T \in SUBSET (0 .. n), T # {}
  PROVE  \E x \in T : \A y \in T : x >= y
<1> DEFINE U == {n - x : x \in T}
<1>1. U \in SUBSET Nat /\ U # {}
  <2>1. \A x \in T : n - x \in Nat
    OBVIOUS
  <2>2. PICK x \in T : TRUE
    OBVIOUS
  <2>3. n - x \in U
    BY <2>2
  <2>4. QED BY <2>1, <2>3
<1> HIDE DEF U
<1>2. PICK u \in U : \A y \in U : u <= y
  BY <1>1, SmallestOf
<1>3. PICK x \in T : u = n - x
  BY <1>2 DEF U
<1>4. \A y \in T : n - y \in U
  BY DEF U
<1>5. ASSUME NEW y \in T PROVE x >= y
  <2>1. n - x <= n - y
    BY <1>2, <1>3, <1>4
  <2>2. QED BY <2>1
<1>6. QED BY <1>5

-----------------------------------------------------------------------------
(* The series of scores: ScoreSeries. *)

Cards == {Scores!Card(c, content, analysis) : c \in Scores!Codes, content \in Contents, analysis \in Nat}
PassPlaces == {"idle", "histories", "instants", "delete", "rewrite", "complete", "failed"}

ScoresType ==
  /\ now \in 0 .. ScoreTime
  /\ captured \in [Contents -> 0 .. now] /\ confirmed \in [Contents -> 0 .. now]
  /\ analyses \subseteq 1 .. now
  /\ points \in [Scores!Instants -> Cards \union {Scores!Blank}]
  /\ code \in [server : Scores!Codes, worker : Scores!Codes]
  /\ fingerprint \in Scores!Codes
  /\ scoreJob \in [pc : {"idle", "carry", "conclude", "record"}, content : Contents \union {"none"}, analysis : Nat]
  /\ scoreJob.pc # "idle" => scoreJob.content \in Contents
  /\ pass \in [pc : PassPlaces, seen : [Contents -> 0 .. now], produced : SUBSET (1 .. now), todo : SUBSET (1 .. now)]
  /\ lived \in [Scores!Instants -> (Contents \X Nat) \union {Scores!NotLived}]
  /\ recordedBy \in [Scores!Instants -> Scores!Codes \union {0}]
  /\ torn \in BOOLEAN

\* What has not come yet is blank; and without financials there is nothing at all.
NothingAhead ==
  /\ \A t \in Scores!Instants : t > now => points[t] = Scores!Blank /\ lived[t] = Scores!NotLived
  /\ (\A c \in Contents : captured[c] = 0) =>
       /\ \A c \in Contents : confirmed[c] = 0
       /\ scoreJob.pc = "idle" /\ pass.pc \notin {"instants", "delete", "rewrite"} /\ Scores!scoreInstants = {}

\* A point is of the code that recorded it, and one that a pass has written of the fingerprint's, or,
\* until the pass is complete, of the server's; a pass forgets none of them.
IsOf(t, c) == \E content \in Contents, analysis \in Nat : points[t] = Scores!Card(c, content, analysis)
CodesAreKnown ==
  /\ \A t \in Scores!scoreInstants :
       /\ recordedBy[t] # 0 => IsOf(t, recordedBy[t])
       /\ recordedBy[t] = 0 =>
            /\ pass.pc \in {"rewrite", "complete"} => IsOf(t, code.server)
            /\ pass.pc \notin {"rewrite", "complete"} /\ ~torn => IsOf(t, fingerprint)
            /\ pass.pc = "delete" => t \in pass.todo
  /\ pass.pc = "rewrite" => \A t \in pass.todo : points[t] = Scores!Blank /\ recordedBy[t] = 0

\* Unless something went wrong that the histories do not show, they say of each instant what was
\* recorded at it, and so does what the pass has read of them.
Clean == scoreMishaps \subseteq {"cut"}
KnownOf(t, seen, produced) ==
  lived[t] # Scores!NotLived => Scores!rowAsOf(seen, t) = lived[t][1] /\ Scores!cardAt(produced, t) = lived[t][2]
HistoriesAreTrue ==
  Clean =>
    /\ \A t \in Scores!Instants : KnownOf(t, captured, analyses)
    /\ pass.pc = "instants" => \A t \in Scores!Instants : KnownOf(t, pass.seen, pass.produced)
    /\ pass.pc \in {"delete", "rewrite"} =>
         \A t \in Scores!Instants : t \in pass.todo => KnownOf(t, pass.seen, pass.produced)

\* And a job works with the financials and the analysis that are the newest there.
JobIsUpToDate ==
  /\ Clean => /\ Scores!NewestOf(confirmed) = Scores!NewestOf(captured)
              /\ scoreJob.pc # "idle" => scoreJob.content = Scores!NewestOf(captured)
  /\ scoreJob.pc = "record" => scoreJob.analysis = Scores!LastOf(analyses)

\* So every point says what was recorded at its instant.
PointsSayWhatWas ==
  Clean => \A t \in Scores!scoreInstants :
             lived[t] # Scores!NotLived => \E c \in Scores!Codes : points[t] = Scores!Card(c, lived[t][1], lived[t][2])

ScoresInv == /\ ScoresType /\ NothingAhead /\ CodesAreKnown /\ HistoriesAreTrue /\ JobIsUpToDate /\ PointsSayWhatWas
             /\ Scores!InstantsSurvive
-----------------------------------------------------------------------------
\* The newest of stamps is one of them.
LEMMA NewestIs ==
  ASSUME NEW n \in Nat, NEW stamps \in [Contents -> 0 .. n], NEW some \in Contents
  PROVE  /\ Scores!NewestOf(stamps) \in Contents
         /\ \A d \in Contents : stamps[d] <= stamps[Scores!NewestOf(stamps)]
<1> DEFINE T == {stamps[c] : c \in Contents}
<1>1. T \in SUBSET (0 .. n) /\ T # {}
  OBVIOUS
<1>2. PICK x \in T : \A y \in T : x >= y
  <2> HIDE DEF T
  <2>1. QED BY <1>1, LargestOf
<1>3. PICK c \in Contents : x = stamps[c]
  BY <1>2
<1>4. \A d \in Contents : stamps[d] <= stamps[c]
  BY <1>2, <1>3
<1>5. QED BY <1>4 DEF Scores!NewestOf

\* And what is newer than all others is the newest.
LEMMA NewestIsOne ==
  ASSUME NEW stamps \in [Contents -> Nat], NEW c \in Contents, \A d \in Contents \ {c} : stamps[d] < stamps[c]
  PROVE  Scores!NewestOf(stamps) = c
<1>1. \A d \in Contents : stamps[d] <= stamps[c]
  OBVIOUS
<1>2. \A e \in Contents : (\A d \in Contents : stamps[d] <= stamps[e]) => e = c
  OBVIOUS
<1>3. QED BY <1>1, <1>2 DEF Scores!NewestOf

\* The last of some instants is one of them, or none.
LEMMA LastIs ==
  ASSUME NEW n \in Nat, NEW T \in SUBSET (1 .. n)
  PROVE  Scores!LastOf(T) \in 0 .. n
<1>1. CASE T = {}
  <2>1. Scores!LastOf(T) \in {0}
    BY <1>1 DEF Scores!LastOf
  <2>2. QED BY <2>1
<1>2. CASE T # {}
  <2>1. T \in SUBSET (0 .. n)
    OBVIOUS
  <2>2. PICK x \in T : \A y \in T : x >= y
    BY <1>2, <2>1, LargestOf
  <2>3. x \in T \union {0} /\ \A u \in T : u <= x
    BY <2>2
  <2>4. Scores!LastOf(T) \in T \union {0}
    BY <2>3 DEF Scores!LastOf
  <2>5. T \union {0} \subseteq 0 .. n
    OBVIOUS
  <2>6. QED BY <2>4, <2>5
<1>3. QED BY <1>1, <1>2

\* A later one is the last of all.
LEMMA LastIsNew ==
  ASSUME NEW n \in Nat, NEW T \in SUBSET (1 .. n), NEW m \in Nat, m > n
  PROVE  Scores!LastOf(T \union {m}) = m
<1> DEFINE U == T \union {m}
<1>1. m \in U \union {0} /\ \A u \in U : u <= m
  OBVIOUS
<1>2. \A t \in U \union {0} : (\A u \in U : u <= t) => t = m
  OBVIOUS
<1>3. QED BY <1>1, <1>2 DEF Scores!LastOf

\* The first that a pass has to do is one that it has to do.
LEMMA FirstIs ==
  ASSUME NEW T \in SUBSET Nat, T # {}
  PROVE  Scores!FirstOf(T) \in T
<1>1. PICK x \in T : \A y \in T : x <= y
  BY SmallestOf
<1>2. QED BY <1>1 DEF Scores!FirstOf

\* A card says its code, and takes the place of a blank whole.
LEMMA CardIs ==
  ASSUME NEW c \in Scores!Codes, NEW content, NEW analysis
  PROVE  LET made == Scores!Card(c, content, analysis)
         IN /\ made["score"] = <<c, content, analysis>> /\ made["score"] # Scores!Nothing /\ made # Scores!Blank
            /\ Scores!Upserted(Scores!Blank, made) = made
  BY DEF Scores!Card, Scores!Codes, Scores!Metrics, Scores!Nothing, Scores!Blank, Scores!Upserted

\* Nothing is at a blank.
LEMMA BlankIs == Scores!Blank["score"] = Scores!Nothing
  BY DEF Scores!Blank, Scores!Metrics

\* The financials in force are some that there were.
LEMMA RowIs ==
  ASSUME NEW n \in Nat, NEW seen \in [Contents -> 0 .. n], NEW t \in Nat, NEW some \in Contents, SameRun \in Nat
  PROVE  Scores!rowAsOf(seen, t) \in Contents
<1> DEFINE mask == [c \in Contents |-> IF seen[c] <= t + SameRun THEN seen[c] ELSE 0]
<1>1. mask \in [Contents -> 0 .. n]
  OBVIOUS
<1> HIDE DEF mask
<1>2. Scores!NewestOf(mask) \in Contents
  BY <1>1, NewestIs
<1>3. QED BY <1>2 DEF Scores!rowAsOf, mask

\* The analysis in force is one that there was, or none.
LEMMA CardAtIs ==
  ASSUME NEW n \in Nat, NEW produced \in SUBSET (1 .. n), NEW t
  PROVE  Scores!cardAt(produced, t) \in 0 .. n
<1>1. {u \in produced : u <= t} \in SUBSET (1 .. n)
  OBVIOUS
<1>2. QED BY <1>1, LastIs DEF Scores!cardAt

\* What is in force at the end is the newest,
LEMMA RowIsNewest ==
  ASSUME NEW n \in Nat, NEW seen \in [Contents -> 0 .. n], NEW t \in Nat, n <= t, SameRun \in Nat
  PROVE  Scores!rowAsOf(seen, t) = Scores!NewestOf(seen)
<1>1. [c \in Contents |-> IF seen[c] <= t + SameRun THEN seen[c] ELSE 0] = seen
  OBVIOUS
<1>2. QED BY <1>1 DEF Scores!rowAsOf

\* and the last.
LEMMA CardIsLast ==
  ASSUME NEW n \in Nat, NEW produced \in SUBSET (1 .. n), NEW t \in Nat, n <= t
  PROVE  Scores!cardAt(produced, t) = Scores!LastOf(produced)
<1>1. \A u \in produced : u <= t
  OBVIOUS
<1>2. {u \in produced : u <= t} = produced
  BY <1>1
<1>3. QED BY <1>2 DEF Scores!cardAt

\* What is of an earlier time is of a later one.
LEMMA TypeLater ==
  ASSUME ScoresType, NEW m \in now .. ScoreTime
  PROVE  /\ captured \in [Contents -> 0 .. m] /\ confirmed \in [Contents -> 0 .. m] /\ analyses \subseteq 1 .. m
         /\ pass \in [pc : PassPlaces, seen : [Contents -> 0 .. m], produced : SUBSET (1 .. m), todo : SUBSET (1 .. m)]
<1>1. now \in Nat /\ m \in Nat /\ now <= m
  BY ScoresAssumption DEF ScoresType
<1>2. 0 .. now \subseteq 0 .. m /\ 1 .. now \subseteq 1 .. m
  BY <1>1
<1>3. captured \in [Contents -> 0 .. m] /\ confirmed \in [Contents -> 0 .. m] /\ analyses \subseteq 1 .. m
  BY <1>2 DEF ScoresType
<1>4. pass.seen \in [Contents -> 0 .. m] /\ pass.produced \in SUBSET (1 .. m) /\ pass.todo \in SUBSET (1 .. m)
  BY <1>2 DEF ScoresType
<1>5. QED BY <1>3, <1>4 DEF ScoresType

-----------------------------------------------------------------------------
\* The beginning meets the invariant: one code, and nothing recorded.
LEMMA ScoresBegin == Scores!Init => ScoresInv
<1> SUFFICES ASSUME Scores!Init PROVE ScoresInv
  OBVIOUS
<1>1. ScoresType
  <2>1. /\ now \in 0 .. ScoreTime /\ captured \in [Contents -> 0 .. now] /\ confirmed \in [Contents -> 0 .. now]
        /\ analyses \subseteq 1 .. now
    BY ScoresAssumption DEF Scores!Init
  <2>2. /\ points \in [Scores!Instants -> Cards \union {Scores!Blank}] /\ recordedBy \in [Scores!Instants -> {0, 1, 2}]
        /\ lived \in [Scores!Instants -> (Contents \X Nat) \union {Scores!NotLived}] /\ torn \in BOOLEAN
    BY DEF Scores!Init
  <2>3. /\ code \in [server : {1, 2}, worker : {1, 2}] /\ fingerprint \in {1, 2} /\ scoreJob.pc = "idle"
        /\ scoreJob \in [pc : {"idle", "carry", "conclude", "record"}, content : Contents \union {"none"}, analysis : Nat]
    BY DEF Scores!Init, Scores!NoJob
  <2>4. pass \in [pc : PassPlaces, seen : [Contents -> 0 .. now], produced : SUBSET (1 .. now), todo : SUBSET (1 .. now)]
    BY ScoresAssumption DEF Scores!Init, Scores!Pass, PassPlaces
  <2>5. QED BY <2>1, <2>2, <2>3, <2>4 DEF ScoresType, Scores!Codes
<1>2. Scores!scoreInstants = {} /\ \A t \in Scores!Instants : lived[t] = Scores!NotLived /\ points[t] = Scores!Blank
  BY BlankIs DEF Scores!Init, Scores!scoreInstants
<1>3. pass.pc = "idle" /\ scoreJob.pc = "idle"
  BY DEF Scores!Init, Scores!Pass, Scores!NoJob
<1>4. NothingAhead
  BY <1>2, <1>3 DEF NothingAhead, Scores!Init
<1>5. CodesAreKnown /\ PointsSayWhatWas
  BY <1>2, <1>3 DEF CodesAreKnown, PointsSayWhatWas
<1>6. HistoriesAreTrue
  BY <1>2, <1>3 DEF HistoriesAreTrue, KnownOf
<1>7. JobIsUpToDate
  <2>1. confirmed = captured
    BY DEF Scores!Init
  <2>2. QED BY <1>3, <2>1 DEF JobIsUpToDate
<1>8. Scores!InstantsSurvive
  BY <1>2 DEF Scores!InstantsSurvive
<1>9. QED BY <1>1, <1>4, <1>5, <1>6, <1>7, <1>8 DEF ScoresInv

\* A fetch is the newest from now on, and too late for what was recorded before it.
LEMMA FetchKeeps ==
  ASSUME ScoresInv, NEW c \in Contents, NEW place \in {"carry", "conclude"}, Scores!Fetch(c, place)
  PROVE  ScoresInv'
<1>0. /\ ScoresType /\ NothingAhead /\ CodesAreKnown /\ HistoriesAreTrue /\ JobIsUpToDate /\ PointsSayWhatWas
      /\ Scores!InstantsSurvive /\ SameRun \in Nat /\ ScoreTime \in Nat
  BY ScoresAssumption DEF ScoresInv
<1>1. now' \in now + 1 .. ScoreTime /\ now' \in now .. ScoreTime /\ now' \in 1 .. ScoreTime /\ now \in Nat /\ now' > now
  BY <1>0 DEF ScoresType, Scores!Fetch, Scores!TimePasses, Scores!Instants
<1>2. /\ analyses' = analyses /\ points' = points /\ code' = code /\ fingerprint' = fingerprint /\ pass' = pass
      /\ lived' = lived /\ recordedBy' = recordedBy /\ torn' = torn
  BY DEF Scores!Fetch, Scores!history
<1>3. /\ captured' = IF captured[c] = 0 THEN [captured EXCEPT ![c] = now'] ELSE captured
      /\ confirmed' = [confirmed EXCEPT ![c] = now']
  BY DEF Scores!Fetch, Scores!saveSnapshot
<1>4. scoreMishaps \subseteq scoreMishaps'
  BY DEF Scores!Fetch
<1>5. scoreJob' = [scoreJob EXCEPT !.pc = place, !.content = c]
  BY DEF Scores!Fetch
<1>t. ScoresType'
  <2>1. /\ captured \in [Contents -> 0 .. now'] /\ confirmed \in [Contents -> 0 .. now'] /\ analyses \subseteq 1 .. now'
        /\ pass \in [pc : PassPlaces, seen : [Contents -> 0 .. now'], produced : SUBSET (1 .. now'), todo : SUBSET (1 .. now')]
    BY <1>0, <1>1, TypeLater
  <2>2. captured' \in [Contents -> 0 .. now'] /\ confirmed' \in [Contents -> 0 .. now']
    BY <1>1, <1>3, <2>1
  <2>3. /\ scoreJob' \in [pc : {"idle", "carry", "conclude", "record"}, content : Contents \union {"none"}, analysis : Nat]
        /\ scoreJob'.content = c
    BY <1>0, <1>5 DEF ScoresType
  <2>4. QED BY <1>0, <1>1, <1>2, <2>1, <2>2, <2>3 DEF ScoresType
<1>n. NothingAhead'
  <2>1. captured'[c] # 0
    BY <1>0, <1>1, <1>3 DEF ScoresType
  <2>2. \A t \in Scores!Instants : t > now' => t > now
    BY <1>0, <1>1 DEF Scores!Instants
  <2>3. QED BY <1>0, <1>2, <2>1, <2>2 DEF NothingAhead
<1>c. CodesAreKnown'
  BY <1>0, <1>2 DEF CodesAreKnown, IsOf, Scores!scoreInstants
<1>m. ASSUME Clean'
      PROVE  /\ captured[c] = 0 \/ c = Scores!NewestOf(captured)
             /\ captured[c] = 0 => \A t \in Scores!Instants : lived[t] # Scores!NotLived => ~(now' <= t + SameRun)
  <2>1. Scores!Misplaced(c) \subseteq {"cut"}
    BY <1>m DEF Clean, Scores!Fetch
  <2>2. "returned" \notin Scores!Misplaced(c) /\ "close" \notin Scores!Misplaced(c)
    BY <2>1
  <2>3. QED BY <2>2 DEF Scores!Misplaced
<1>h. HistoriesAreTrue'
  <2> SUFFICES ASSUME Clean' PROVE HistoriesAreTrue'
    BY DEF HistoriesAreTrue
  <2>1. Clean
    BY <1>4 DEF Clean
  <2>2. ASSUME NEW t \in Scores!Instants, lived[t] # Scores!NotLived
        PROVE  Scores!rowAsOf(captured', t) = Scores!rowAsOf(captured, t)
    <3>1. CASE captured[c] # 0
      BY <1>3, <3>1
    <3>2. CASE captured[c] = 0
      <4>1. ~(now' <= t + SameRun)
        BY <1>m, <2>2, <3>2
      <4>2. [d \in Contents |-> IF captured'[d] <= t + SameRun THEN captured'[d] ELSE 0]
              = [d \in Contents |-> IF captured[d] <= t + SameRun THEN captured[d] ELSE 0]
        BY <1>0, <1>3, <3>2, <4>1 DEF ScoresType
      <4>3. QED BY <4>2 DEF Scores!rowAsOf
    <3>3. QED BY <3>1, <3>2
  <2>3. \A t \in Scores!Instants : KnownOf(t, captured, analyses)'
    BY <1>0, <1>2, <2>1, <2>2 DEF HistoriesAreTrue, KnownOf
  <2>4. QED BY <1>0, <1>2, <2>1, <2>3 DEF HistoriesAreTrue, KnownOf
<1>j. JobIsUpToDate'
  <2>1. ASSUME Clean' PROVE Scores!NewestOf(confirmed') = c /\ Scores!NewestOf(captured') = c
    <3>1. confirmed' \in [Contents -> Nat] /\ \A d \in Contents \ {c} : confirmed'[d] < confirmed'[c]
      BY <1>0, <1>1, <1>3 DEF ScoresType
    <3>2. Scores!NewestOf(confirmed') = c
      BY <3>1, NewestIsOne
    <3>3. CASE captured[c] # 0
      BY <1>3, <1>m, <2>1, <3>2, <3>3
    <3>4. CASE captured[c] = 0
      <4>1. captured' \in [Contents -> Nat] /\ \A d \in Contents \ {c} : captured'[d] < captured'[c]
        BY <1>0, <1>1, <1>3, <3>4 DEF ScoresType
      <4>2. QED BY <3>2, <4>1, NewestIsOne
    <3>5. QED BY <3>3, <3>4
  <2>2. scoreJob'.content = c /\ scoreJob'.pc # "record"
    BY <1>0, <1>5 DEF ScoresType
  <2>3. QED BY <2>1, <2>2 DEF JobIsUpToDate
<1>p. PointsSayWhatWas'
  BY <1>0, <1>2, <1>4 DEF PointsSayWhatWas, Clean, Scores!scoreInstants
<1>s. Scores!InstantsSurvive'
  BY <1>0, <1>2, <1>4 DEF Scores!InstantsSurvive, Scores!scoreInstants
<1>9. QED BY <1>t, <1>n, <1>c, <1>h, <1>j, <1>p, <1>s DEF ScoresInv

\* What was last confirmed is what last appeared.
LEMMA ReadStoredKeeps ==
  ASSUME ScoresInv, NEW place \in {"carry", "conclude"}, Scores!ReadStored(place)
  PROVE  ScoresInv'
<1>0. /\ ScoresType /\ NothingAhead /\ CodesAreKnown /\ HistoriesAreTrue /\ JobIsUpToDate /\ PointsSayWhatWas
      /\ Scores!InstantsSurvive
  BY DEF ScoresInv
<1>1. /\ now' = now /\ captured' = captured /\ confirmed' = confirmed /\ analyses' = analyses /\ points' = points
      /\ code' = code /\ fingerprint' = fingerprint /\ pass' = pass /\ lived' = lived /\ recordedBy' = recordedBy
      /\ torn' = torn /\ scoreMishaps' = scoreMishaps
  BY DEF Scores!ReadStored, Scores!store, Scores!snapshots, Scores!history
<1>2. PICK some \in Contents : confirmed[some] # 0
  BY DEF Scores!ReadStored
<1>3. Scores!NewestOf(confirmed) \in Contents
  <2>1. now \in Nat /\ confirmed \in [Contents -> 0 .. now]
    BY <1>0, ScoresAssumption DEF ScoresType
  <2>2. QED BY <1>2, <2>1, NewestIs
<1>4. /\ scoreJob' \in [pc : {"idle", "carry", "conclude", "record"}, content : Contents \union {"none"}, analysis : Nat]
      /\ scoreJob'.content = Scores!NewestOf(confirmed) /\ scoreJob'.pc \in {"carry", "conclude"}
  BY <1>0, <1>3 DEF ScoresType, Scores!ReadStored
<1>5. ScoresType'
  BY <1>0, <1>1, <1>3, <1>4 DEF ScoresType
<1>6. NothingAhead'
  BY <1>0, <1>1, <1>2 DEF NothingAhead, Scores!scoreInstants
<1>7. CodesAreKnown' /\ PointsSayWhatWas' /\ Scores!InstantsSurvive'
  BY <1>0, <1>1 DEF CodesAreKnown, IsOf, PointsSayWhatWas, Clean, Scores!InstantsSurvive, Scores!scoreInstants
<1>8. HistoriesAreTrue'
  BY <1>0, <1>1 DEF HistoriesAreTrue, KnownOf, Clean
<1>9. JobIsUpToDate'
  BY <1>0, <1>1, <1>4 DEF JobIsUpToDate, Clean
<1>10. QED BY <1>5, <1>6, <1>7, <1>8, <1>9 DEF ScoresInv

\* An analysis is the last from now on, and too late for what was recorded before it.
LEMMA AnalysisKeeps ==
  ASSUME ScoresInv, Scores!writeAnalysis
  PROVE  ScoresInv'
<1>0. /\ ScoresType /\ NothingAhead /\ CodesAreKnown /\ HistoriesAreTrue /\ JobIsUpToDate /\ PointsSayWhatWas
      /\ Scores!InstantsSurvive /\ SameRun \in Nat /\ ScoreTime \in Nat
  BY ScoresAssumption DEF ScoresInv
<1>1. now' \in now .. ScoreTime /\ now' \in 1 .. ScoreTime /\ now \in Nat /\ now' > now
  BY <1>0 DEF ScoresType, Scores!writeAnalysis, Scores!TimePasses, Scores!Instants
<1>2. /\ captured' = captured /\ confirmed' = confirmed /\ points' = points /\ code' = code /\ fingerprint' = fingerprint
      /\ pass' = pass /\ lived' = lived /\ recordedBy' = recordedBy /\ torn' = torn /\ scoreMishaps' = scoreMishaps
  BY DEF Scores!writeAnalysis, Scores!snapshots, Scores!history
<1>3. analyses' = analyses \union {now'}
  BY DEF Scores!writeAnalysis
<1>4. /\ scoreJob' \in [pc : {"idle", "carry", "conclude", "record"}, content : Contents \union {"none"}, analysis : Nat]
      /\ scoreJob'.content = scoreJob.content /\ scoreJob'.pc = "record" /\ scoreJob'.analysis = now' /\ scoreJob.pc = "conclude"
  <2>1. now' \in Nat
    BY <1>1
  <2>2. QED BY <1>0, <2>1 DEF ScoresType, Scores!writeAnalysis
<1>5. ScoresType'
  <2>1. /\ captured \in [Contents -> 0 .. now'] /\ confirmed \in [Contents -> 0 .. now'] /\ analyses \subseteq 1 .. now'
        /\ pass \in [pc : PassPlaces, seen : [Contents -> 0 .. now'], produced : SUBSET (1 .. now'), todo : SUBSET (1 .. now')]
    BY <1>0, <1>1, TypeLater
  <2>2. analyses' \subseteq 1 .. now' /\ now' \in 0 .. ScoreTime
    BY <1>1, <1>3, <2>1
  <2>3. QED BY <1>0, <1>2, <1>4, <2>1, <2>2 DEF ScoresType
<1>6. NothingAhead'
  <2>1. \A t \in Scores!Instants : t > now' => t > now
    BY <1>0, <1>1 DEF Scores!Instants
  <2>2. QED BY <1>0, <1>2, <1>4, <2>1 DEF NothingAhead
<1>7. CodesAreKnown' /\ PointsSayWhatWas' /\ Scores!InstantsSurvive'
  BY <1>0, <1>2 DEF CodesAreKnown, IsOf, PointsSayWhatWas, Clean, Scores!InstantsSurvive, Scores!scoreInstants
<1>8. HistoriesAreTrue'
  <2>1. ASSUME NEW t \in Scores!Instants, lived[t] # Scores!NotLived
        PROVE  Scores!cardAt(analyses', t) = Scores!cardAt(analyses, t)
    <3>1. t \in Nat /\ ~(t > now)
      BY <1>0, <2>1 DEF NothingAhead, Scores!Instants
    <3>2. ~(now' <= t)
      BY <1>1, <3>1
    <3>3. {u \in analyses' : u <= t} = {u \in analyses : u <= t}
      BY <1>3, <3>2
    <3>4. QED BY <3>3 DEF Scores!cardAt
  <2>2. Clean => \A t \in Scores!Instants : KnownOf(t, captured, analyses)'
    BY <1>0, <1>2, <2>1 DEF HistoriesAreTrue, KnownOf
  <2>3. QED BY <1>0, <1>2, <2>2 DEF HistoriesAreTrue, KnownOf, Clean
<1>9. JobIsUpToDate'
  <2>1. analyses \in SUBSET (1 .. now) /\ now' \in Nat
    BY <1>0, <1>1 DEF ScoresType
  <2>2. Scores!LastOf(analyses \union {now'}) = now'
    BY <1>1, <2>1, LastIsNew
  <2>3. Scores!LastOf(analyses') = now'
    BY <1>3, <2>2
  <2>4. QED BY <1>0, <1>2, <1>4, <2>3 DEF JobIsUpToDate, Clean
<1>10. QED BY <1>5, <1>6, <1>7, <1>8, <1>9 DEF ScoresInv

\* A job records with the newest there is, at an instant that nobody has planned to rewrite.
LEMMA RecordKeeps ==
  ASSUME ScoresInv, Scores!Record
  PROVE  ScoresInv'
<1>0. /\ ScoresType /\ NothingAhead /\ CodesAreKnown /\ HistoriesAreTrue /\ JobIsUpToDate /\ PointsSayWhatWas
      /\ Scores!InstantsSurvive /\ SameRun \in Nat /\ ScoreTime \in Nat
  BY ScoresAssumption DEF ScoresInv
<1>1. /\ now' \in now .. ScoreTime /\ now' \in Scores!Instants /\ now' \in 1 .. ScoreTime /\ now \in Nat /\ now' \in Nat
      /\ now' > now
  BY <1>0 DEF ScoresType, Scores!Record, Scores!TimePasses, Scores!Instants
<1>2. /\ captured' = captured /\ confirmed' = confirmed /\ analyses' = analyses /\ code' = code
      /\ fingerprint' = fingerprint /\ pass' = pass /\ torn' = torn /\ scoreJob' = Scores!NoJob
  BY DEF Scores!Record, Scores!snapshots
<1>3. scoreJob.pc \in {"carry", "record"} /\ scoreJob.content \in Contents /\ code.worker \in Scores!Codes
  BY <1>0 DEF Scores!Record, ScoresType
<1>4. PICK latest \in Nat : latest = Scores!latestScoreCard /\ latest = Scores!LastOf(analyses)
  <2>1. Scores!LastOf(analyses) \in Nat
    BY <1>0, <1>1, LastIs DEF ScoresType
  <2>2. Scores!latestScoreCard = Scores!LastOf(analyses)
    BY <1>0, <1>3 DEF Scores!latestScoreCard, JobIsUpToDate
  <2>3. QED BY <2>1, <2>2
<1> DEFINE made == Scores!Card(code.worker, scoreJob.content, latest)
<1>5. /\ points' = [points EXCEPT ![now'] = made] /\ made \in Cards
      /\ lived' = [lived EXCEPT ![now'] = <<scoreJob.content, latest>>]
      /\ recordedBy' = [recordedBy EXCEPT ![now'] = code.worker]
      /\ made["score"] # Scores!Nothing
  <2>1. points[now'] = Scores!Blank
    BY <1>0, <1>1 DEF NothingAhead
  <2>2. Scores!Upserted(Scores!Blank, made) = made /\ made["score"] # Scores!Nothing
    BY <1>3, CardIs
  <2>3. QED BY <1>3, <1>4, <2>1, <2>2 DEF Scores!Record, Cards
<1>6. /\ points'[now'] = made /\ lived'[now'] = <<scoreJob.content, latest>> /\ recordedBy'[now'] = code.worker
      /\ \A t \in Scores!Instants : t # now' => points'[t] = points[t] /\ lived'[t] = lived[t] /\ recordedBy'[t] = recordedBy[t]
  BY <1>0, <1>1, <1>5 DEF ScoresType
<1>7. scoreMishaps \subseteq scoreMishaps' /\ (pass.pc = "instants" => "between" \in scoreMishaps')
  BY DEF Scores!Record
<1>8. \A t \in pass.todo : t # now'
  BY <1>0, <1>1 DEF ScoresType
<1> HIDE DEF made
<1>t. ScoresType'
  <2>1. /\ captured \in [Contents -> 0 .. now'] /\ confirmed \in [Contents -> 0 .. now'] /\ analyses \subseteq 1 .. now'
        /\ pass \in [pc : PassPlaces, seen : [Contents -> 0 .. now'], produced : SUBSET (1 .. now'), todo : SUBSET (1 .. now')]
    BY <1>0, <1>1, TypeLater
  <2>2. points' \in [Scores!Instants -> Cards \union {Scores!Blank}]
    BY <1>0, <1>5 DEF ScoresType
  <2>3. lived' \in [Scores!Instants -> (Contents \X Nat) \union {Scores!NotLived}]
    BY <1>0, <1>3, <1>5 DEF ScoresType
  <2>4. recordedBy' \in [Scores!Instants -> Scores!Codes \union {0}]
    BY <1>0, <1>3, <1>5 DEF ScoresType
  <2>5. scoreJob' \in [pc : {"idle", "carry", "conclude", "record"}, content : Contents \union {"none"}, analysis : Nat] /\ scoreJob'.pc = "idle"
    BY <1>2 DEF Scores!NoJob
  <2>6. now' \in 0 .. ScoreTime
    BY <1>1
  <2>7. QED BY <1>0, <1>2, <2>1, <2>2, <2>3, <2>4, <2>5, <2>6 DEF ScoresType
<1>n. NothingAhead'
  <2>1. \A t \in Scores!Instants : t > now' => t > now /\ t # now'
    BY <1>1 DEF Scores!Instants
  <2>2. ~ \A c \in Contents : captured[c] = 0
    BY <1>0, <1>3 DEF NothingAhead
  <2>3. QED BY <1>0, <1>2, <1>6, <2>1, <2>2 DEF NothingAhead
<1>c. CodesAreKnown'
  <2>1. \A t \in Scores!scoreInstants' : t = now' \/ t \in Scores!scoreInstants
    BY <1>6 DEF Scores!scoreInstants
  <2>2. ASSUME NEW t \in Scores!Instants, NEW c, t # now' PROVE IsOf(t, c)' <=> IsOf(t, c)
    BY <1>6, <2>2 DEF IsOf
  <2>3. recordedBy'[now'] # 0 /\ (\E content \in Contents, analysis \in Nat : points'[now'] = Scores!Card(recordedBy'[now'], content, analysis))
    BY <1>3, <1>6 DEF made, Scores!Codes
  <2>4. ASSUME NEW t \in Scores!scoreInstants'
        PROVE  /\ recordedBy'[t] # 0 => IsOf(t, recordedBy[t])'
               /\ recordedBy'[t] = 0 =>
                    /\ pass.pc \in {"rewrite", "complete"} => IsOf(t, code.server)'
                    /\ pass.pc \notin {"rewrite", "complete"} /\ ~torn => IsOf(t, fingerprint)'
                    /\ pass.pc = "delete" => t \in pass.todo
    <3>1. CASE t = now'
      BY <2>3, <3>1 DEF IsOf
    <3>2. CASE t # now'
      <4>1. t \in Scores!scoreInstants /\ t \in Scores!Instants
        BY <2>1, <3>2 DEF Scores!scoreInstants
      <4>2. \A c \in Scores!Codes \union {0} : IsOf(t, c) => (\E content \in Contents, analysis \in Nat : points'[t] = Scores!Card(c, content, analysis))
        BY <1>6, <3>2, <4>1 DEF IsOf
      <4>3. recordedBy[t] \in Scores!Codes \union {0} /\ code.server \in Scores!Codes /\ fingerprint \in Scores!Codes
            /\ recordedBy'[t] = recordedBy[t]
        BY <1>0, <1>6, <3>2, <4>1 DEF ScoresType
      <4>4. QED BY <1>0, <1>2, <4>1, <4>2, <4>3 DEF CodesAreKnown, IsOf
    <3>3. QED BY <3>1, <3>2
  <2>5. pass.pc = "rewrite" => \A t \in pass.todo : points'[t] = Scores!Blank /\ recordedBy'[t] = 0
    <3>1. \A t \in pass.todo : t \in Scores!Instants
      BY <1>0, <1>1 DEF ScoresType, Scores!Instants
    <3>2. QED BY <1>0, <1>6, <1>8, <3>1 DEF CodesAreKnown
  <2>6. QED BY <1>2, <2>4, <2>5 DEF CodesAreKnown
<1>h. HistoriesAreTrue'
  <2> SUFFICES ASSUME Clean' PROVE HistoriesAreTrue'
    BY DEF HistoriesAreTrue
  <2>1. Clean /\ pass.pc # "instants"
    BY <1>7 DEF Clean
  <2>2. Scores!rowAsOf(captured, now') = scoreJob.content
    <3>1. Scores!rowAsOf(captured, now') = Scores!NewestOf(captured)
      BY <1>0, <1>1, RowIsNewest DEF ScoresType
    <3>2. QED BY <1>0, <1>3, <2>1, <3>1 DEF JobIsUpToDate
  <2>3. Scores!cardAt(analyses, now') = latest
    <3>1. Scores!cardAt(analyses, now') = Scores!LastOf(analyses)
      BY <1>0, <1>1, CardIsLast DEF ScoresType
    <3>2. QED BY <1>4, <3>1
  <2>4. ASSUME NEW t \in Scores!Instants PROVE KnownOf(t, captured, analyses)'
    <3>1. CASE t = now'
      BY <1>2, <1>6, <2>2, <2>3, <3>1 DEF KnownOf
    <3>2. CASE t # now'
      BY <1>0, <1>2, <1>6, <2>1, <3>2 DEF KnownOf, HistoriesAreTrue
    <3>3. QED BY <3>1, <3>2
  <2>5. pass.pc \in {"delete", "rewrite"} =>
          \A t \in Scores!Instants : t \in pass.todo => KnownOf(t, pass.seen, pass.produced)'
    BY <1>0, <1>2, <1>6, <1>8, <2>1 DEF KnownOf, HistoriesAreTrue
  <2>6. QED BY <1>2, <2>1, <2>4, <2>5 DEF HistoriesAreTrue
<1>j. JobIsUpToDate'
  <2>1. scoreJob'.pc = "idle"
    BY <1>2 DEF Scores!NoJob
  <2>2. Clean' => Clean
    BY <1>7 DEF Clean
  <2>3. QED BY <1>0, <1>2, <2>1, <2>2 DEF JobIsUpToDate
<1>p. PointsSayWhatWas'
  <2>1. Clean' => Clean
    BY <1>7 DEF Clean
  <2>2. points'[now'] = Scores!Card(code.worker, lived'[now'][1], lived'[now'][2])
    BY <1>6 DEF made
  <2>3. QED BY <1>0, <1>3, <1>6, <2>1, <2>2 DEF PointsSayWhatWas, Scores!scoreInstants
<1>s. Scores!InstantsSurvive'
  <2>1. "cut" \notin scoreMishaps' => "cut" \notin scoreMishaps
    BY <1>7
  <2>2. \A t \in Scores!Instants : t \in Scores!scoreInstants' <=> t = now' \/ t \in Scores!scoreInstants
    BY <1>1, <1>5, <1>6 DEF Scores!scoreInstants
  <2>3. QED BY <1>0, <1>2, <1>6, <2>1, <2>2 DEF Scores!InstantsSurvive
<1>9. QED BY <1>t, <1>n, <1>c, <1>h, <1>j, <1>p, <1>s DEF ScoresInv

-----------------------------------------------------------------------------
\* A pass reads histories that are true,
LEMMA ReadHistoriesKeeps ==
  ASSUME ScoresInv, Scores!ReadHistories
  PROVE  ScoresInv'
<1>0. /\ ScoresType /\ NothingAhead /\ CodesAreKnown /\ HistoriesAreTrue /\ JobIsUpToDate /\ PointsSayWhatWas
      /\ Scores!InstantsSurvive
  BY DEF ScoresInv
<1>1. /\ now' = now /\ captured' = captured /\ confirmed' = confirmed /\ analyses' = analyses /\ points' = points
      /\ code' = code /\ fingerprint' = fingerprint /\ scoreJob' = scoreJob /\ lived' = lived /\ recordedBy' = recordedBy
      /\ torn' = torn /\ scoreMishaps' = scoreMishaps
  BY DEF Scores!ReadHistories, Scores!OnlyPass, Scores!store, Scores!snapshots
<1>2. /\ pass' \in [pc : PassPlaces, seen : [Contents -> 0 .. now], produced : SUBSET (1 .. now), todo : SUBSET (1 .. now)]
      /\ pass'.pc \in {"complete", "instants"} /\ pass.pc = "histories"
      /\ pass'.pc = "complete" <=> Scores!SnapshotInstants(captured) = {}
      /\ pass'.seen = captured /\ pass'.produced = analyses
  BY <1>0 DEF ScoresType, PassPlaces, Scores!ReadHistories
<1>3. ScoresType' /\ NothingAhead'
  <2>1. (\A c \in Contents : captured[c] = 0) => Scores!SnapshotInstants(captured) = {}
    BY DEF Scores!SnapshotInstants
  <2>2. QED BY <1>0, <1>1, <1>2, <2>1 DEF ScoresType, NothingAhead, Scores!scoreInstants
<1>4. CodesAreKnown'
  <2>1. CASE pass'.pc = "complete"
    <3>1. \A c \in Contents : captured[c] = 0
      BY <1>2, <2>1 DEF Scores!SnapshotInstants
    <3>2. Scores!scoreInstants' = {}
      BY <1>0, <1>1, <3>1 DEF NothingAhead, Scores!scoreInstants
    <3>3. QED BY <2>1, <3>2 DEF CodesAreKnown
  <2>2. CASE pass'.pc = "instants"
    BY <1>0, <1>1, <1>2, <2>2 DEF CodesAreKnown, IsOf, Scores!scoreInstants
  <2>3. QED BY <1>2, <2>1, <2>2
<1>5. HistoriesAreTrue'
  BY <1>0, <1>1, <1>2 DEF HistoriesAreTrue, KnownOf, Clean
<1>6. JobIsUpToDate' /\ PointsSayWhatWas'
  BY <1>0, <1>1 DEF JobIsUpToDate, PointsSayWhatWas, Clean, Scores!scoreInstants
<1>7. Scores!InstantsSurvive'
  BY <1>0, <1>1, <1>2 DEF Scores!InstantsSurvive, Scores!scoreInstants
<1>8. QED BY <1>3, <1>4, <1>5, <1>6, <1>7 DEF ScoresInv

\* plans every point there is,
LEMMA ReadInstantsKeeps ==
  ASSUME ScoresInv, Scores!ReadInstants
  PROVE  ScoresInv'
<1>0. /\ ScoresType /\ NothingAhead /\ CodesAreKnown /\ HistoriesAreTrue /\ JobIsUpToDate /\ PointsSayWhatWas
      /\ Scores!InstantsSurvive /\ ScoreTime \in Nat
  BY ScoresAssumption DEF ScoresInv
<1>1. /\ now' = now /\ captured' = captured /\ confirmed' = confirmed /\ analyses' = analyses /\ points' = points
      /\ code' = code /\ fingerprint' = fingerprint /\ scoreJob' = scoreJob /\ lived' = lived /\ recordedBy' = recordedBy
      /\ torn' = torn /\ scoreMishaps' = scoreMishaps
  BY DEF Scores!ReadInstants, Scores!OnlyPass, Scores!store, Scores!snapshots
<1>2. PICK todo \in SUBSET (1 .. now) : todo = Scores!SnapshotInstants(pass.seen) \union Scores!scoreInstants
  <2>1. Scores!SnapshotInstants(pass.seen) \subseteq 1 .. now
    BY <1>0 DEF ScoresType, Scores!SnapshotInstants
  <2>2. Scores!scoreInstants \subseteq 1 .. now
    <3>1. \A t \in Scores!scoreInstants : t \in 1 .. ScoreTime /\ ~(t > now)
      BY <1>0, BlankIs DEF NothingAhead, Scores!scoreInstants, Scores!Instants
    <3>2. QED BY <1>0, <3>1 DEF ScoresType
  <2>3. QED BY <2>1, <2>2
<1>3. /\ pass' \in [pc : PassPlaces, seen : [Contents -> 0 .. now], produced : SUBSET (1 .. now), todo : SUBSET (1 .. now)]
      /\ pass'.pc = "delete" /\ pass.pc = "instants" /\ pass'.todo = todo
      /\ pass'.seen = pass.seen /\ pass'.produced = pass.produced
  BY <1>0, <1>2 DEF ScoresType, PassPlaces, Scores!ReadInstants
<1>4. ScoresType' /\ NothingAhead'
  BY <1>0, <1>1, <1>3 DEF ScoresType, NothingAhead, Scores!scoreInstants
<1>5. CodesAreKnown'
  BY <1>0, <1>1, <1>2, <1>3 DEF CodesAreKnown, IsOf, Scores!scoreInstants
<1>6. HistoriesAreTrue'
  BY <1>0, <1>1, <1>3 DEF HistoriesAreTrue, KnownOf, Clean
<1>7. JobIsUpToDate' /\ PointsSayWhatWas'
  BY <1>0, <1>1 DEF JobIsUpToDate, PointsSayWhatWas, Clean, Scores!scoreInstants
<1>8. Scores!InstantsSurvive'
  BY <1>0, <1>1, <1>3 DEF Scores!InstantsSurvive, Scores!scoreInstants
<1>9. QED BY <1>4, <1>5, <1>6, <1>7, <1>8 DEF ScoresInv

\* clears those,
LEMMA DeleteKeeps ==
  ASSUME ScoresInv, Scores!Delete
  PROVE  ScoresInv'
<1>0. /\ ScoresType /\ NothingAhead /\ CodesAreKnown /\ HistoriesAreTrue /\ JobIsUpToDate /\ PointsSayWhatWas
      /\ Scores!InstantsSurvive /\ ScoreTime \in Nat
  BY ScoresAssumption DEF ScoresInv
<1>1. /\ now' = now /\ captured' = captured /\ confirmed' = confirmed /\ analyses' = analyses
      /\ code' = code /\ fingerprint' = fingerprint /\ scoreJob' = scoreJob /\ lived' = lived
      /\ torn' = torn /\ scoreMishaps' = scoreMishaps
  BY DEF Scores!Delete, Scores!OnlyPass, Scores!store, Scores!snapshots
<1>2. /\ points' = [t \in Scores!Instants |-> IF t \in pass.todo THEN Scores!Blank ELSE points[t]]
      /\ recordedBy' = [t \in Scores!Instants |-> IF t \in pass.todo THEN 0 ELSE recordedBy[t]]
  BY DEF Scores!Delete
<1>3. /\ pass' \in [pc : PassPlaces, seen : [Contents -> 0 .. now], produced : SUBSET (1 .. now), todo : SUBSET (1 .. now)]
      /\ pass'.pc = "rewrite" /\ pass.pc = "delete" /\ pass'.todo = pass.todo
      /\ pass'.seen = pass.seen /\ pass'.produced = pass.produced
  BY <1>0 DEF ScoresType, PassPlaces, Scores!Delete
<1>4. /\ pass.todo \subseteq Scores!Instants
      /\ \A t \in Scores!scoreInstants' : /\ t \in Scores!scoreInstants /\ t \in Scores!Instants /\ t \notin pass.todo
                                           /\ points'[t] = points[t] /\ recordedBy'[t] = recordedBy[t]
  <2>1. pass.todo \subseteq Scores!Instants
    BY <1>0 DEF ScoresType, Scores!Instants
  <2>2. QED BY <1>2, <2>1, BlankIs DEF Scores!scoreInstants
<1>t. ScoresType'
  <2>1. /\ points' \in [Scores!Instants -> Cards \union {Scores!Blank}]
        /\ recordedBy' \in [Scores!Instants -> Scores!Codes \union {0}]
    BY <1>0, <1>2 DEF ScoresType
  <2>2. QED BY <1>0, <1>1, <1>3, <2>1 DEF ScoresType
<1>n. NothingAhead'
  BY <1>0, <1>1, <1>2, <1>3, <1>4 DEF NothingAhead
<1>c. CodesAreKnown'
  <2>1. \A t \in Scores!scoreInstants' : recordedBy'[t] # 0 /\ IsOf(t, recordedBy[t])
    BY <1>0, <1>3, <1>4 DEF CodesAreKnown
  <2>2. \A t \in Scores!scoreInstants' : recordedBy'[t] # 0 /\ IsOf(t, recordedBy[t])'
    BY <1>4, <2>1 DEF IsOf
  <2>3. QED BY <1>2, <1>3, <1>4, <2>2 DEF CodesAreKnown
<1>h. HistoriesAreTrue'
  BY <1>0, <1>1, <1>3 DEF HistoriesAreTrue, KnownOf, Clean
<1>j. JobIsUpToDate' /\ PointsSayWhatWas'
  BY <1>0, <1>1, <1>4 DEF JobIsUpToDate, PointsSayWhatWas, Clean
<1>s. Scores!InstantsSurvive'
  BY <1>0, <1>1, <1>2, <1>3 DEF Scores!InstantsSurvive, Scores!scoreInstants
<1>9. QED BY <1>t, <1>n, <1>c, <1>h, <1>j, <1>s DEF ScoresInv

\* writes each again with the code of its server,
LEMMA RewriteKeeps ==
  ASSUME ScoresInv, Scores!Rewrite
  PROVE  ScoresInv'
<1>0. /\ ScoresType /\ NothingAhead /\ CodesAreKnown /\ HistoriesAreTrue /\ JobIsUpToDate /\ PointsSayWhatWas
      /\ Scores!InstantsSurvive /\ SameRun \in Nat /\ ScoreTime \in Nat
  BY ScoresAssumption DEF ScoresInv
<1>1. /\ now' = now /\ captured' = captured /\ confirmed' = confirmed /\ analyses' = analyses
      /\ code' = code /\ fingerprint' = fingerprint /\ scoreJob' = scoreJob /\ lived' = lived
      /\ recordedBy' = recordedBy /\ torn' = torn /\ scoreMishaps' = scoreMishaps
  BY DEF Scores!Rewrite, Scores!OnlyPass, Scores!store, Scores!snapshots
<1>2. PICK at \in pass.todo : at = Scores!FirstOf(pass.todo) /\ at \in 1 .. now /\ at \in Scores!Instants /\ at \in Nat
  <2>1. pass.todo \in SUBSET Nat /\ pass.todo # {} /\ pass.todo \subseteq 1 .. now /\ pass.todo \subseteq Scores!Instants
    BY <1>0 DEF ScoresType, Scores!Rewrite, Scores!Instants
  <2>2. QED BY <2>1, FirstIs
<1>3. PICK content : content = Scores!rowAsOf(pass.seen, at)
  OBVIOUS
<1>4. PICK analysis : analysis = Scores!cardAt(pass.produced, at)
  OBVIOUS
<1>5. content \in Contents /\ analysis \in Nat
  <2>1. PICK some \in Contents : TRUE
    BY <1>0 DEF NothingAhead, Scores!Rewrite
  <2>2. content \in Contents
    BY <1>0, <1>2, <1>3, <2>1, RowIs DEF ScoresType
  <2>3. analysis \in 0 .. now
    BY <1>0, <1>2, <1>4, CardAtIs DEF ScoresType
  <2>4. QED BY <2>2, <2>3
<1> DEFINE made == Scores!Card(code.server, content, analysis)
<1>6. pass.pc = "rewrite" /\ points[at] = Scores!Blank /\ code.server \in Scores!Codes
  BY <1>0, <1>2 DEF Scores!Rewrite, CodesAreKnown, ScoresType
<1>7. points' = [points EXCEPT ![at] = made] /\ made["score"] # Scores!Nothing /\ made \in Cards
  <2>1. Scores!Upserted(Scores!Blank, made) = made /\ made["score"] # Scores!Nothing
    BY <1>6, CardIs
  <2>2. QED BY <1>2, <1>3, <1>4, <1>5, <1>6, <2>1 DEF Scores!Rewrite, Cards
<1>8. /\ points'[at] = made
      /\ \A t \in Scores!Instants : t # at => points'[t] = points[t]
      /\ \A t \in Scores!Instants : t \in Scores!scoreInstants' <=> t = at \/ t \in Scores!scoreInstants
      /\ Scores!scoreInstants' \subseteq Scores!Instants
  <2>1. points'[at] = made /\ \A t \in Scores!Instants : t # at => points'[t] = points[t]
    BY <1>0, <1>2, <1>7 DEF ScoresType
  <2>2. QED BY <1>2, <1>7, <2>1 DEF Scores!scoreInstants
<1>9. /\ pass' \in [pc : PassPlaces, seen : [Contents -> 0 .. now], produced : SUBSET (1 .. now), todo : SUBSET (1 .. now)]
      /\ pass'.pc \in {"rewrite", "complete"} /\ pass'.todo = pass.todo \ {at}
      /\ pass'.pc = "complete" => pass.todo = {at}
      /\ pass'.seen = pass.seen /\ pass'.produced = pass.produced
  BY <1>0, <1>2 DEF ScoresType, PassPlaces, Scores!Rewrite
<1> HIDE DEF made
<1>t. ScoresType'
  <2>1. points' \in [Scores!Instants -> Cards \union {Scores!Blank}]
    BY <1>0, <1>7 DEF ScoresType
  <2>2. QED BY <1>0, <1>1, <1>9, <2>1 DEF ScoresType
<1>n. NothingAhead'
  <2>1. ~(at > now)
    BY <1>0, <1>2 DEF ScoresType
  <2>2. ~ \A c \in Contents : captured[c] = 0
    BY <1>0, <1>6 DEF NothingAhead
  <2>3. QED BY <1>0, <1>1, <1>8, <2>1, <2>2 DEF NothingAhead
<1>c. CodesAreKnown'
  <2>1. recordedBy[at] = 0 /\ points'[at] = Scores!Card(code.server, content, analysis)
    BY <1>0, <1>6, <1>8 DEF CodesAreKnown, made
  <2>2. ASSUME NEW t \in Scores!scoreInstants'
        PROVE  /\ recordedBy[t] # 0 => (\E x \in Contents, a \in Nat : points'[t] = Scores!Card(recordedBy[t], x, a))
               /\ recordedBy[t] = 0 => (\E x \in Contents, a \in Nat : points'[t] = Scores!Card(code.server, x, a))
    <3>1. CASE t = at
      BY <1>5, <2>1, <3>1
    <3>2. CASE t # at
      BY <1>0, <1>6, <1>8, <3>2 DEF CodesAreKnown, IsOf
    <3>3. QED BY <3>1, <3>2
  <2>3. \A t \in pass'.todo : points'[t] = Scores!Blank /\ recordedBy[t] = 0
    <3>1. \A t \in pass'.todo : t \in pass.todo /\ t # at /\ t \in Scores!Instants
      BY <1>0, <1>9 DEF ScoresType, Scores!Instants
    <3>2. QED BY <1>0, <1>6, <1>8, <3>1 DEF CodesAreKnown
  <2>4. QED BY <1>1, <1>9, <2>2, <2>3 DEF CodesAreKnown, IsOf
<1>h. HistoriesAreTrue'
  BY <1>0, <1>1, <1>6, <1>9 DEF HistoriesAreTrue, KnownOf, Clean
<1>j. JobIsUpToDate'
  BY <1>0, <1>1 DEF JobIsUpToDate, Clean
<1>p. PointsSayWhatWas'
  <2>1. Clean /\ lived[at] # Scores!NotLived => content = lived[at][1] /\ analysis = lived[at][2]
    BY <1>0, <1>2, <1>3, <1>4, <1>6 DEF HistoriesAreTrue, KnownOf
  <2>2. Clean /\ lived[at] # Scores!NotLived => points'[at] = Scores!Card(code.server, lived[at][1], lived[at][2])
    BY <1>8, <2>1 DEF made
  <2>3. QED BY <1>0, <1>1, <1>6, <1>8, <2>2 DEF PointsSayWhatWas, Clean
<1>s. Scores!InstantsSurvive'
  BY <1>0, <1>1, <1>8, <1>9 DEF Scores!InstantsSurvive
<1>10. QED BY <1>t, <1>n, <1>c, <1>h, <1>j, <1>p, <1>s DEF ScoresInv

\* and says so at its end.
LEMMA StoreFingerprintKeeps ==
  ASSUME ScoresInv, Scores!StoreFingerprint
  PROVE  ScoresInv'
<1>0. /\ ScoresType /\ NothingAhead /\ CodesAreKnown /\ HistoriesAreTrue /\ JobIsUpToDate /\ PointsSayWhatWas
      /\ Scores!InstantsSurvive /\ ScoreTime \in Nat
  BY ScoresAssumption DEF ScoresInv
<1>1. /\ now' = now /\ captured' = captured /\ confirmed' = confirmed /\ analyses' = analyses /\ points' = points
      /\ code' = code /\ fingerprint' = code.server /\ scoreJob' = scoreJob /\ lived' = lived
      /\ recordedBy' = recordedBy /\ torn' = FALSE /\ scoreMishaps' = scoreMishaps
  BY DEF Scores!StoreFingerprint, Scores!OnlyPass, Scores!store, Scores!snapshots
<1>2. /\ pass' \in [pc : PassPlaces, seen : [Contents -> 0 .. now], produced : SUBSET (1 .. now), todo : SUBSET (1 .. now)]
      /\ pass'.pc = "idle" /\ pass.pc = "complete"
  <2>1. now \in Nat
    BY <1>0 DEF ScoresType
  <2>2. QED BY <2>1 DEF PassPlaces, Scores!StoreFingerprint, Scores!Pass
<1>3. ScoresType' /\ NothingAhead'
  BY <1>0, <1>1, <1>2 DEF ScoresType, NothingAhead, Scores!scoreInstants
<1>4. CodesAreKnown'
  BY <1>0, <1>1, <1>2 DEF CodesAreKnown, IsOf, Scores!scoreInstants
<1>5. HistoriesAreTrue'
  BY <1>0, <1>1, <1>2 DEF HistoriesAreTrue, KnownOf, Clean
<1>6. JobIsUpToDate' /\ PointsSayWhatWas'
  BY <1>0, <1>1 DEF JobIsUpToDate, PointsSayWhatWas, Clean, Scores!scoreInstants
<1>7. Scores!InstantsSurvive'
  BY <1>0, <1>1, <1>2 DEF Scores!InstantsSurvive, Scores!scoreInstants
<1>8. QED BY <1>3, <1>4, <1>5, <1>6, <1>7 DEF ScoresInv

\* A pass that ends where it is, whatever code the server has from now on.
LEMMA CutKeeps ==
  ASSUME ScoresInv, NEW place \in {"failed", "idle", "histories"}, Scores!Cut(place),
         UNCHANGED <<Scores!store, points, fingerprint, scoreJob, Scores!history>>,
         code' \in [server : Scores!Codes, worker : Scores!Codes]
  PROVE  ScoresInv'
<1>0. /\ ScoresType /\ NothingAhead /\ CodesAreKnown /\ HistoriesAreTrue /\ JobIsUpToDate /\ PointsSayWhatWas
      /\ Scores!InstantsSurvive /\ ScoreTime \in Nat
  BY ScoresAssumption DEF ScoresInv
<1>1. /\ now' = now /\ captured' = captured /\ confirmed' = confirmed /\ analyses' = analyses /\ points' = points
      /\ fingerprint' = fingerprint /\ scoreJob' = scoreJob /\ lived' = lived /\ recordedBy' = recordedBy
  BY DEF Scores!store, Scores!snapshots, Scores!history
<1>2. /\ pass' \in [pc : PassPlaces, seen : [Contents -> 0 .. now], produced : SUBSET (1 .. now), todo : SUBSET (1 .. now)]
      /\ pass'.pc = place
  <2>1. now \in Nat
    BY <1>0 DEF ScoresType
  <2>2. QED BY <2>1 DEF PassPlaces, Scores!Cut, Scores!Pass
<1>3. /\ torn' \in BOOLEAN /\ (~torn' => ~torn /\ pass.pc \notin {"rewrite", "complete"})
      /\ scoreMishaps \subseteq scoreMishaps' /\ (pass.pc = "rewrite" => "cut" \in scoreMishaps')
  BY <1>0 DEF Scores!Cut, ScoresType
<1>4. Clean' => Clean
  BY <1>3 DEF Clean
<1>5. ScoresType' /\ NothingAhead'
  BY <1>0, <1>1, <1>2, <1>3 DEF ScoresType, NothingAhead, Scores!scoreInstants
<1>6. CodesAreKnown'
  BY <1>0, <1>1, <1>2, <1>3 DEF CodesAreKnown, IsOf, Scores!scoreInstants
<1>7. HistoriesAreTrue'
  BY <1>0, <1>1, <1>2, <1>4 DEF HistoriesAreTrue, KnownOf
<1>8. JobIsUpToDate' /\ PointsSayWhatWas'
  BY <1>0, <1>1, <1>4 DEF JobIsUpToDate, PointsSayWhatWas, Scores!scoreInstants
<1>9. Scores!InstantsSurvive'
  BY <1>0, <1>1, <1>2, <1>3 DEF Scores!InstantsSurvive, Scores!scoreInstants
<1>10. QED BY <1>5, <1>6, <1>7, <1>8, <1>9 DEF ScoresInv

\* A worker that starts again has no job.
LEMMA BootWorkerKeeps ==
  ASSUME ScoresInv, NEW c \in Scores!Codes, Scores!BootWorker(c)
  PROVE  ScoresInv'
<1>0. /\ ScoresType /\ NothingAhead /\ CodesAreKnown /\ HistoriesAreTrue /\ JobIsUpToDate /\ PointsSayWhatWas
      /\ Scores!InstantsSurvive
  BY DEF ScoresInv
<1>1. /\ now' = now /\ captured' = captured /\ confirmed' = confirmed /\ analyses' = analyses /\ points' = points
      /\ fingerprint' = fingerprint /\ pass' = pass /\ lived' = lived /\ recordedBy' = recordedBy
      /\ torn' = torn /\ scoreMishaps' = scoreMishaps
  BY DEF Scores!BootWorker, Scores!store, Scores!snapshots, Scores!history
<1>2. code' \in [server : Scores!Codes, worker : Scores!Codes] /\ code'.server = code.server
  BY <1>0 DEF ScoresType, Scores!BootWorker
<1>3. /\ scoreJob' \in [pc : {"idle", "carry", "conclude", "record"}, content : Contents \union {"none"}, analysis : Nat]
      /\ scoreJob'.pc = "idle"
  BY DEF Scores!BootWorker, Scores!NoJob
<1>4. ScoresType' /\ NothingAhead'
  BY <1>0, <1>1, <1>2, <1>3 DEF ScoresType, NothingAhead, Scores!scoreInstants
<1>5. CodesAreKnown' /\ PointsSayWhatWas' /\ Scores!InstantsSurvive'
  BY <1>0, <1>1, <1>2 DEF CodesAreKnown, IsOf, PointsSayWhatWas, Clean, Scores!InstantsSurvive, Scores!scoreInstants
<1>6. HistoriesAreTrue'
  BY <1>0, <1>1 DEF HistoriesAreTrue, KnownOf, Clean
<1>7. JobIsUpToDate'
  BY <1>0, <1>1, <1>3 DEF JobIsUpToDate, Clean
<1>8. QED BY <1>4, <1>5, <1>6, <1>7 DEF ScoresInv

-----------------------------------------------------------------------------
\* Every step of a job, of the pass and of the two processes keeps the invariant.
LEMMA ScoresStep == ScoresInv /\ [Scores!Next]_(Scores!vars) => ScoresInv'
<1> SUFFICES ASSUME ScoresInv, [Scores!Next]_(Scores!vars) PROVE ScoresInv'
  OBVIOUS
<1>1. CASE Scores!JobStep
  BY <1>1, FetchKeeps, ReadStoredKeeps, AnalysisKeeps, RecordKeeps DEF Scores!JobStep
<1>2. CASE Scores!PassStep
  BY <1>2, ReadHistoriesKeeps, ReadInstantsKeeps, DeleteKeeps, RewriteKeeps, StoreFingerprintKeeps DEF Scores!PassStep
<1>3. CASE Scores!PassFails
  <2>1. code' \in [server : Scores!Codes, worker : Scores!Codes]
    BY <1>3 DEF Scores!PassFails, Scores!OnlyPass, ScoresInv, ScoresType
  <2>2. UNCHANGED <<Scores!store, points, fingerprint, scoreJob, Scores!history>> /\ Scores!Cut("failed")
    BY <1>3 DEF Scores!PassFails, Scores!OnlyPass, Scores!history
  <2>3. QED BY <2>1, <2>2, CutKeeps
<1>4. ASSUME NEW c \in Scores!Codes, Scores!BootServer(c) PROVE ScoresInv'
  <2>1. code' \in [server : Scores!Codes, worker : Scores!Codes]
    BY <1>4 DEF Scores!BootServer, ScoresInv, ScoresType
  <2>2. UNCHANGED <<Scores!store, points, fingerprint, scoreJob, Scores!history>>
    BY <1>4 DEF Scores!BootServer
  <2>3. PICK place \in {"failed", "idle", "histories"} : Scores!Cut(place)
    BY <1>4 DEF Scores!BootServer
  <2>4. QED BY <2>1, <2>2, <2>3, CutKeeps
<1>5. CASE UNCHANGED Scores!vars
  BY <1>5 DEF Scores!vars, Scores!store, Scores!snapshots, Scores!history, ScoresInv, ScoresType, NothingAhead,
     CodesAreKnown, IsOf, HistoriesAreTrue, KnownOf, Clean, JobIsUpToDate, PointsSayWhatWas, Scores!InstantsSurvive,
     Scores!scoreInstants
<1>6. QED BY <1>1, <1>2, <1>3, <1>4, <1>5, BootWorkerKeeps DEF Scores!Next

\* rescoreIfScoringChanged: a series whose fingerprint is the server's is on one code, and says of
\* every instant what was known at it; and no instant that was recorded is gone, unless a pass was cut.
THEOREM SeriesKept == Scores!Spec => []SeriesIsWhole
<1>1. ScoresInv => SeriesIsWhole
  <2> SUFFICES ASSUME ScoresInv PROVE SeriesIsWhole
    OBVIOUS
  <2>0. ScoresType /\ CodesAreKnown /\ PointsSayWhatWas /\ Scores!InstantsSurvive
    BY DEF ScoresInv
  <2>1. ASSUME pass.pc = "idle", fingerprint = code.server, ~torn,
               NEW t \in Scores!scoreInstants, recordedBy[t] \in {0, fingerprint}
        PROVE  LET point == points[t]["score"]
               IN /\ points[t] = Scores!Card(fingerprint, point[2], point[3])
                  /\ (scoreMishaps \subseteq {"cut"} /\ lived[t] # Scores!NotLived) =>
                         point[2] = lived[t][1] /\ point[3] = lived[t][2]
    <3>1. fingerprint \in Scores!Codes /\ fingerprint # 0
      BY <2>0 DEF ScoresType, Scores!Codes
    <3>2. PICK x \in Contents, a \in Nat : points[t] = Scores!Card(fingerprint, x, a)
      BY <2>0, <2>1, <3>1 DEF CodesAreKnown, IsOf
    <3>3. points[t]["score"] = <<fingerprint, x, a>>
      BY <3>1, <3>2, CardIs
    <3>4. scoreMishaps \subseteq {"cut"} /\ lived[t] # Scores!NotLived =>
            points[t]["score"][2] = lived[t][1] /\ points[t]["score"][3] = lived[t][2]
      <4>1. SUFFICES ASSUME scoreMishaps \subseteq {"cut"}, lived[t] # Scores!NotLived
                     PROVE  points[t]["score"][2] = lived[t][1] /\ points[t]["score"][3] = lived[t][2]
        OBVIOUS
      <4>2. PICK c \in Scores!Codes : points[t] = Scores!Card(c, lived[t][1], lived[t][2])
        BY <2>0, <4>1 DEF PointsSayWhatWas, Clean
      <4>3. points[t]["score"] = <<c, lived[t][1], lived[t][2]>>
        BY <4>2, CardIs
      <4>4. QED BY <4>3
    <3>5. QED BY <3>2, <3>3, <3>4
  <2>2. QED BY <2>0, <2>1 DEF SeriesIsWhole, Scores!SeriesIsWhole, Scores!SeriesIsOnOneCode
<1>2. QED BY <1>1, ScoresBegin, ScoresStep, PTL DEF Scores!Spec

-----------------------------------------------------------------------------
(* The research that is bought: ResearchBrief. *)

PromptVersions == [facts : Nat, debate : Nat]
DebateRecs == [at : Nat, under : Nat, born : Nat]
BriefRecs == [model : Models, hash : {"parts", "whole"} \X PromptVersions, at : Nat, under : PromptVersions,
              debate : DebateRecs \union {Research!NoDebate}, seen : Nat]
DueRecs == [pc : {"due"}, model : Models, stored : BriefRecs \union {Research!None}]
AskedRecs == [pc : {"asked"}, by : {"analysis", "click"}, brief : BriefRecs]

ResearchType ==
  /\ today \in Nat /\ begun \in Nat /\ prompts \in PromptVersions
  /\ briefs \in [BOOLEAN -> BriefRecs \union {Research!None}]
  /\ asking \in [Askers -> {Research!Idle} \union DueRecs \union AskedRecs]

\* A debate that may stand beside facts of a day and a prompt.
YoungEnough(debate, day, version) ==
  /\ debate \in DebateRecs
  /\ debate.born = debate.at /\ debate.under = version
  /\ day - debate.at <= DebateMaxAge

\* A brief was asked for under one state of the prompts, and says so; whatever debate it
\* kept was young enough then.
Bought(brief) ==
  /\ brief \in BriefRecs
  /\ brief.hash \in {<<"parts", brief.under>>, <<"whole", brief.under>>}
  /\ brief.model # Deep => brief.hash = <<"parts", brief.under>>
  /\ brief.debate # Research!NoDebate => YoungEnough(brief.debate, brief.at, brief.under.debate)

\* Deep research and regular briefs each have their slot.
SlotsAreKept ==
  \A deep \in BOOLEAN : briefs[deep] # Research!None => Bought(briefs[deep]) /\ (briefs[deep].model = Deep) = deep

AskingIsBought ==
  \A j \in Askers :
    /\ asking[j].pc = "due" => asking[j].stored = Research!None \/ Bought(asking[j].stored)
    /\ asking[j].pc = "asked" => Bought(asking[j].brief)

ResearchInv == ResearchType /\ SlotsAreKept /\ AskingIsBought /\ Research!ServedIsOfItsTime

LEMMA BriefsDiffer ==
  ASSUME NEW b \in BriefRecs
  PROVE  b # Research!None /\ b.model # "none"
BY ResearchAssumption DEF BriefRecs, Research!None

LEMMA DebatesDiffer ==
  ASSUME NEW d \in DebateRecs
  PROVE  d # Research!NoDebate
BY DEF DebateRecs, Research!NoDebate

LEMMA FetchedIsBought ==
  ASSUME ResearchType, NEW model \in Models, NEW debateKept,
         debateKept = Research!NoDebate \/ YoungEnough(debateKept, today, prompts.debate)
  PROVE  Bought(Research!fetchPerplexity(model, debateKept)) /\ Research!fetchPerplexity(model, debateKept).model = model
<1> DEFINE b == Research!fetchPerplexity(model, debateKept)
           new == IF debateKept # Research!NoDebate THEN debateKept ELSE Research!DebateOfToday
<1>1. today \in Nat /\ prompts \in PromptVersions /\ prompts.debate \in Nat
  BY DEF ResearchType, PromptVersions
<1>2. YoungEnough(Research!DebateOfToday, today, prompts.debate)
  BY <1>1, ResearchAssumption DEF YoungEnough, Research!DebateOfToday, DebateRecs
<1>3. YoungEnough(new, today, prompts.debate) /\ new \in DebateRecs
  BY <1>2 DEF YoungEnough
<1>4. CASE model = Deep
  <2>1. b = [model |-> model, hash |-> <<"whole", prompts>>, at |-> today, under |-> prompts,
             debate |-> Research!NoDebate, seen |-> today]
    BY <1>4 DEF Research!fetchPerplexity, Research!Brief, Research!WHOLE_PROMPT_HASH
  <2>2. b \in BriefRecs
    BY <2>1, <1>1 DEF BriefRecs
  <2>3. QED BY <2>1, <2>2, <1>4 DEF Bought
<1>5. CASE model # Deep
  <2> HIDE DEF new
  <2>1. b = [model |-> model, hash |-> <<"parts", prompts>>, at |-> today, under |-> prompts,
             debate |-> new, seen |-> today]
    BY <1>5 DEF Research!fetchPerplexity, Research!Brief, Research!PERPLEXITY_PROMPT_HASH, new
  <2>2. b \in BriefRecs
    BY <2>1, <1>1, <1>3 DEF BriefRecs
  <2>3. QED BY <2>1, <2>2, <1>3, <1>5 DEF Bought
<1>6. QED BY <1>4, <1>5

LEMMA ReusedIsYoung ==
  ASSUME ResearchType, NEW model, NEW b, b = Research!None \/ Bought(b)
  PROVE  \/ Research!reusableDebate(b, model) = Research!NoDebate
         \/ YoungEnough(Research!reusableDebate(b, model), today, prompts.debate)
BY DEF Research!reusableDebate, Bought, YoungEnough

LEMMA ReadIsBought ==
  ASSUME ResearchType, SlotsAreKept, NEW deep \in BOOLEAN, NEW maxAge,
         Research!within(briefs[deep], maxAge) # Research!None
  PROVE  /\ Research!within(briefs[deep], maxAge) = briefs[deep]
         /\ Bought(briefs[deep]) /\ (briefs[deep].model = Deep) = deep
         /\ today - briefs[deep].seen <= maxAge
BY DEF SlotsAreKept, Research!within

\* Whatever is gone on with is of its time, and no report stands beside itself.
LEMMA GoneOnWith ==
  ASSUME ResearchType, SlotsAreKept, NEW model \in Models, NEW b,
         b = Research!None \/ (Bought(b) /\ b.model = model),
         served' = Research!Now(b, model)
  PROVE  Research!ServedIsOfItsTime'
<1> SUFFICES ASSUME b # Research!None PROVE Research!ServedIsOfItsTime'
  BY DEF Research!ServedIsOfItsTime, Research!Now
<1>1. served'.brief = b /\ served'.deep = Research!getDeepResearchStored(model)
  BY DEF Research!Now
<1>2. b \in BriefRecs /\ b.at \in Nat /\ b.model = model
  BY DEF Bought, BriefRecs
<1>3. b.debate # Research!NoDebate =>
        b.at - b.debate.born <= DebateMaxAge /\ b.debate.under = b.under.debate
  BY <1>2 DEF Bought, YoungEnough
<1>4. b # Research!getDeepResearchStored(model)
  <2>1. CASE Research!getDeepResearchStored(model) = Research!None
    BY <2>1
  <2>2. CASE Research!getDeepResearchStored(model) # Research!None
    <3>1. model # Deep /\ Research!getDeepResearchStored(model) = Research!within(briefs[TRUE], DeepMaxAge)
      BY <2>2 DEF Research!getDeepResearchStored
    <3>2. Research!getDeepResearchStored(model).model = Deep
      BY <2>2, <3>1, ReadIsBought
    <3>3. QED BY <1>2, <3>1, <3>2
  <2>3. QED BY <2>1, <2>2
<1>5. QED BY <1>1, <1>3, <1>4 DEF Research!ServedIsOfItsTime

LEMMA SeenIsBought ==
  ASSUME ResearchType, NEW b, Bought(b)
  PROVE  Bought([b EXCEPT !.seen = today]) /\ [b EXCEPT !.seen = today].model = b.model
<1> DEFINE c == [b EXCEPT !.seen = today]
<1>1. b \in BriefRecs /\ today \in Nat
  BY DEF Bought, ResearchType
<1>2. /\ c \in BriefRecs /\ c.model = b.model /\ c.hash = b.hash /\ c.at = b.at
      /\ c.under = b.under /\ c.debate = b.debate
  BY <1>1 DEF BriefRecs
<1>3. QED BY <1>2 DEF Bought

LEMMA StoredIsKept ==
  ASSUME ResearchType, SlotsAreKept, NEW b, Bought(b), Research!writePerplexity(b)
  PROVE  SlotsAreKept' /\ briefs' \in [BOOLEAN -> BriefRecs \union {Research!None}]
<1> DEFINE c == [b EXCEPT !.seen = today]
           slot == b.model = Deep
<1>1. Bought(c) /\ c.model = b.model /\ c \in BriefRecs
  BY SeenIsBought DEF Bought
<1>2. slot \in BOOLEAN /\ briefs' = [briefs EXCEPT ![slot] = c]
  BY DEF Research!writePerplexity
<1> HIDE DEF c
<1>3. PICK s \in BOOLEAN : s = (b.model = Deep) /\ briefs' = [briefs EXCEPT ![s] = c]
  BY <1>2
<1>4. briefs' \in [BOOLEAN -> BriefRecs \union {Research!None}]
  BY <1>1, <1>3 DEF ResearchType
<1>5. ASSUME NEW deep \in BOOLEAN, briefs'[deep] # Research!None
      PROVE  Bought(briefs'[deep]) /\ (briefs'[deep].model = Deep) = deep
  <2>1. CASE deep = s
    <3>1. briefs'[deep] = c
      BY <1>3, <2>1 DEF ResearchType
    <3>2. QED BY <3>1, <1>1, <1>3, <2>1
  <2>2. CASE deep # s
    <3>1. briefs'[deep] = briefs[deep]
      BY <1>3, <2>2 DEF ResearchType
    <3>2. QED BY <3>1, <1>5 DEF SlotsAreKept
  <2>3. QED BY <2>1, <2>2
<1>6. SlotsAreKept'
  BY <1>5 DEF SlotsAreKept, Bought, YoungEnough
<1>7. QED BY <1>4, <1>6

LEMMA ResearchBegins == Research!Init => ResearchInv
<1> SUFFICES ASSUME Research!Init PROVE ResearchInv
  OBVIOUS
<1> USE DEF Research!Init
<1>1. ResearchType
  BY DEF ResearchType, PromptVersions
<1>2. SlotsAreKept
  BY DEF SlotsAreKept
<1>3. AskingIsBought
  BY DEF AskingIsBought, Research!Idle
<1>4. Research!ServedIsOfItsTime
  BY DEF Research!ServedIsOfItsTime, Research!NotServed
<1>5. QED BY <1>1, <1>2, <1>3, <1>4 DEF ResearchInv

\* One job has moved to another place.
LEMMA OneAsks ==
  ASSUME ResearchType, AskingIsBought, NEW j \in Askers, NEW x, asking' = [asking EXCEPT ![j] = x],
         \/ x = Research!Idle
         \/ x \in DueRecs /\ (x.stored = Research!None \/ Bought(x.stored))
         \/ x \in AskedRecs /\ Bought(x.brief)
  PROVE  AskingIsBought' /\ asking' \in [Askers -> {Research!Idle} \union DueRecs \union AskedRecs]
<1>1. asking' \in [Askers -> {Research!Idle} \union DueRecs \union AskedRecs]
  BY DEF ResearchType
<1>2. ASSUME NEW k \in Askers
      PROVE  /\ asking'[k].pc = "due" => asking'[k].stored = Research!None \/ Bought(asking'[k].stored)
             /\ asking'[k].pc = "asked" => Bought(asking'[k].brief)
  <2>1. CASE k = j
    <3>1. asking'[k] = x
      BY <2>1 DEF ResearchType
    <3>2. QED BY <3>1 DEF Research!Idle, DueRecs, AskedRecs
  <2>2. CASE k # j
    <3>1. asking'[k] = asking[k]
      BY <2>2 DEF ResearchType
    <3>2. QED BY <3>1 DEF AskingIsBought
  <2>3. QED BY <2>1, <2>2
<1>3. AskingIsBought'
  BY <1>2 DEF AskingIsBought, Bought, YoungEnough
<1>4. QED BY <1>1, <1>3

\* What is in hand at a place.
LEMMA InHand ==
  ASSUME ResearchType, AskingIsBought, NEW j \in Askers
  PROVE  /\ asking[j].pc = "due" => /\ asking[j] \in DueRecs /\ asking[j].model \in Models
                                    /\ asking[j].stored = Research!None \/ Bought(asking[j].stored)
         /\ asking[j].pc = "asked" => /\ asking[j] \in AskedRecs /\ Bought(asking[j].brief)
                                      /\ asking[j].brief.model \in Models
BY DEF ResearchType, AskingIsBought, DueRecs, AskedRecs, BriefRecs, Research!Idle

LEMMA ResearchStep == ResearchInv /\ [Research!Next]_(Research!vars) => ResearchInv'
<1> SUFFICES ASSUME ResearchInv, [Research!Next]_(Research!vars) PROVE ResearchInv'
  OBVIOUS
<1>0. ResearchType /\ SlotsAreKept /\ AskingIsBought /\ Research!ServedIsOfItsTime
  BY DEF ResearchInv
<1>s. UNCHANGED briefs => SlotsAreKept' /\ briefs' \in [BOOLEAN -> BriefRecs \union {Research!None}]
  BY <1>0 DEF ResearchType, SlotsAreKept, Bought, YoungEnough
<1>a. UNCHANGED asking => AskingIsBought' /\ asking' \in [Askers -> {Research!Idle} \union DueRecs \union AskedRecs]
  BY <1>0 DEF ResearchType, AskingIsBought, Bought, YoungEnough
<1>v. UNCHANGED served => Research!ServedIsOfItsTime'
  BY <1>0 DEF Research!ServedIsOfItsTime
<1>b. ASSUME NEW j, Research!Begins(j) PROVE begun' \in Nat
  BY <1>0, <1>b DEF Research!Begins, ResearchType
<1>1. ASSUME NEW j \in Askers, NEW model \in Models, Research!Serve(j, model) PROVE ResearchInv'
  <2>1. PICK deep \in BOOLEAN : deep = (model = Deep)
    OBVIOUS
  <2>2. Research!within(briefs[deep], MaxAge) # Research!None /\ Research!readPerplexity(model) = Research!within(briefs[deep], MaxAge)
    BY <1>1, <2>1 DEF Research!Serve, Research!Hit, Research!readPerplexity
  <2>3. Bought(briefs[deep]) /\ (briefs[deep].model = Deep) = deep /\ Research!readPerplexity(model) = briefs[deep]
    BY <1>0, <2>2, ReadIsBought
  <2>4. served' = [brief |-> briefs[deep], deep |-> Research!getDeepResearchStored(model)]
    BY <1>1, <2>3 DEF Research!Serve, Research!Now
  <2>5. briefs[deep] \in BriefRecs
    BY <2>3 DEF Bought
  <2>6. briefs[deep] # Research!getDeepResearchStored(model)
    <3>1. CASE Research!getDeepResearchStored(model) = Research!None
      BY <3>1, <2>5, BriefsDiffer
    <3>2. CASE Research!getDeepResearchStored(model) # Research!None
      <4>1. model # Deep /\ Research!getDeepResearchStored(model) = Research!within(briefs[TRUE], DeepMaxAge)
        BY <3>2 DEF Research!getDeepResearchStored
      <4>2. Research!getDeepResearchStored(model).model = Deep
        BY <1>0, <3>2, <4>1, ReadIsBought
      <4>3. QED BY <4>1, <4>2, <2>1, <2>3
    <3>3. QED BY <3>1, <3>2
  <2>7. Research!ServedIsOfItsTime'
    BY <2>3, <2>4, <2>6 DEF Research!ServedIsOfItsTime, Bought, YoungEnough
  <2>8. UNCHANGED <<today, prompts, briefs, asking>> /\ begun' \in Nat
    BY <1>1, <1>b DEF Research!Serve
  <2>9. QED BY <1>0, <1>s, <1>a, <2>7, <2>8 DEF ResearchInv, ResearchType
<1>2. ASSUME NEW j \in Askers, NEW model \in Models, Research!Miss(j, model) PROVE ResearchInv'
  <2> DEFINE read == Research!readPerplexity(model)
             x == [pc |-> "due", model |-> model, stored |-> read]
  <2>1. PICK deep \in BOOLEAN : deep = (model = Deep)
    OBVIOUS
  <2>2. read = Research!None \/ (Bought(read) /\ read \in BriefRecs)
    BY <1>0, <2>1, ReadIsBought DEF Research!readPerplexity, Bought
  <2>3. asking' = [asking EXCEPT ![j] = x]
    BY <1>2 DEF Research!Miss
  <2>4. x \in DueRecs /\ (x.stored = Research!None \/ Bought(x.stored))
    BY <2>2 DEF DueRecs
  <2> HIDE DEF x
  <2>5. AskingIsBought' /\ asking' \in [Askers -> {Research!Idle} \union DueRecs \union AskedRecs]
    BY <1>0, <2>3, <2>4, OneAsks
  <2>6. UNCHANGED <<today, prompts, briefs, served>> /\ begun' \in Nat
    BY <1>2, <1>b DEF Research!Miss
  <2>7. QED BY <1>0, <1>s, <1>v, <2>5, <2>6 DEF ResearchInv, ResearchType
<1>3. ASSUME NEW j \in Askers, NEW model \in Models, Research!Refresh(j, model) PROVE ResearchInv'
  <2> DEFINE b == Research!fetchPerplexity(model, Research!NoDebate)
             x == [pc |-> "asked", by |-> "click", brief |-> b]
  <2>1. Bought(b) /\ b \in BriefRecs
    BY <1>0, FetchedIsBought DEF Bought
  <2>2. asking' = [asking EXCEPT ![j] = x]
    BY <1>3 DEF Research!Refresh
  <2> HIDE DEF b
  <2>3. x \in AskedRecs /\ Bought(x.brief)
    BY <2>1 DEF AskedRecs
  <2> HIDE DEF x
  <2>5. AskingIsBought' /\ asking' \in [Askers -> {Research!Idle} \union DueRecs \union AskedRecs]
    BY <1>0, <2>2, <2>3, OneAsks
  <2>6. UNCHANGED <<today, prompts, briefs, served>> /\ begun' \in Nat
    BY <1>3, <1>b DEF Research!Refresh
  <2>7. QED BY <1>0, <1>s, <1>v, <2>5, <2>6 DEF ResearchInv, ResearchType
<1>4. ASSUME NEW j \in Askers, Research!Ask(j) PROVE ResearchInv'
  <2> DEFINE newest == IF asking[j].stored # Research!None THEN asking[j].stored ELSE briefs[FALSE]
             debateKept == Research!reusableDebate(newest, asking[j].model)
             b == Research!fetchPerplexity(asking[j].model, debateKept)
             x == [pc |-> "asked", by |-> "analysis", brief |-> b]
  <2>1. asking[j].model \in Models /\ (asking[j].stored = Research!None \/ Bought(asking[j].stored))
    BY <1>0, <1>4, InHand DEF Research!Ask
  <2>2. newest = Research!None \/ Bought(newest)
    BY <1>0, <2>1 DEF SlotsAreKept
  <2> HIDE DEF newest
  <2>3. debateKept = Research!NoDebate \/ YoungEnough(debateKept, today, prompts.debate)
    BY <1>0, <2>2, ReusedIsYoung
  <2> HIDE DEF debateKept
  <2>4. Bought(b) /\ b \in BriefRecs
    BY <1>0, <2>1, <2>3, FetchedIsBought DEF Bought
  <2>5. asking' = [asking EXCEPT ![j] = x]
    BY <1>4 DEF Research!Ask, debateKept, newest
  <2> HIDE DEF b
  <2>6. x \in AskedRecs /\ Bought(x.brief)
    BY <2>4 DEF AskedRecs
  <2> HIDE DEF x
  <2>7. AskingIsBought' /\ asking' \in [Askers -> {Research!Idle} \union DueRecs \union AskedRecs]
    BY <1>0, <2>5, <2>6, OneAsks
  <2>8. UNCHANGED <<today, prompts, briefs, served, begun>>
    BY <1>4 DEF Research!Ask
  <2>9. QED BY <1>0, <1>s, <1>v, <2>7, <2>8 DEF ResearchInv, ResearchType
<1>5. ASSUME NEW j \in Askers, Research!Answered(j) PROVE ResearchInv'
  <2> DEFINE b == asking[j].brief
             c == [b EXCEPT !.seen = today]
  <2>1. Bought(b) /\ b.model \in Models
    BY <1>0, <1>5, InHand DEF Research!Answered
  <2>2. SlotsAreKept' /\ briefs' \in [BOOLEAN -> BriefRecs \union {Research!None}]
    BY <1>0, <1>5, <2>1, StoredIsKept DEF Research!Answered
  <2>3. AskingIsBought' /\ asking' \in [Askers -> {Research!Idle} \union DueRecs \union AskedRecs]
    BY <1>0, <1>5, OneAsks DEF Research!Answered
  <2>4. Bought(c) /\ c.model = b.model
    BY <1>0, <2>1, SeenIsBought
  <2>5. served' = Research!Now(c, b.model) \/ UNCHANGED served
    BY <1>5 DEF Research!Answered
  <2>6. Research!ServedIsOfItsTime'
    <3>1. CASE served' = Research!Now(c, b.model)
      <4> HIDE DEF c
      <4>1. QED BY <1>0, <2>1, <2>4, <3>1, GoneOnWith
    <3>2. QED BY <2>5, <3>1, <1>v
  <2>7. UNCHANGED <<today, prompts, begun>>
    BY <1>5 DEF Research!Answered
  <2>8. QED BY <1>0, <2>2, <2>3, <2>6, <2>7 DEF ResearchInv, ResearchType
<1>6. ASSUME NEW j \in Askers, Research!Refused(j) PROVE ResearchInv'
  <2>1. AskingIsBought' /\ asking' \in [Askers -> {Research!Idle} \union DueRecs \union AskedRecs]
    BY <1>0, <1>6, OneAsks DEF Research!Refused
  <2>2. Research!ServedIsOfItsTime'
    BY <1>6, <1>v DEF Research!Refused, Research!ServedIsOfItsTime, Research!Now
  <2>3. UNCHANGED <<today, prompts, briefs, begun>>
    BY <1>6 DEF Research!Refused
  <2>4. QED BY <1>0, <1>s, <2>1, <2>2, <2>3 DEF ResearchInv, ResearchType
<1>7. ASSUME NEW j \in Askers, Research!Paste(j) PROVE ResearchInv'
  <2> DEFINE b == Research!Brief(Deep, Research!PERPLEXITY_PROMPT_HASH, today, Research!NoDebate)
  <2>1. b = [model |-> Deep, hash |-> <<"parts", prompts>>, at |-> today, under |-> prompts,
             debate |-> Research!NoDebate, seen |-> today]
    BY DEF Research!Brief, Research!PERPLEXITY_PROMPT_HASH
  <2>2. b \in BriefRecs
    BY <1>0, <2>1, ResearchAssumption DEF BriefRecs, ResearchType
  <2>3. Bought(b)
    BY <2>1, <2>2 DEF Bought
  <2>4. Research!writePerplexity(b)
    BY <1>7 DEF Research!Paste
  <2> HIDE DEF b
  <2>5. SlotsAreKept' /\ briefs' \in [BOOLEAN -> BriefRecs \union {Research!None}]
    BY <1>0, <2>3, <2>4, StoredIsKept
  <2>6. UNCHANGED <<today, prompts, asking, served>> /\ begun' \in Nat
    BY <1>7, <1>b DEF Research!Paste
  <2>7. QED BY <1>0, <1>a, <1>v, <2>5, <2>6 DEF ResearchInv, ResearchType
<1>8. ASSUME Research!Deploy PROVE ResearchInv'
  <2>1. asking' \in [Askers -> {Research!Idle} \union DueRecs \union AskedRecs] /\ AskingIsBought'
    BY <1>8 DEF Research!Deploy, AskingIsBought, Research!Idle
  <2>2. prompts' \in PromptVersions
    BY <1>0, <1>8 DEF Research!Deploy, ResearchType, PromptVersions
  <2>3. UNCHANGED <<today, briefs, served, begun>>
    BY <1>8 DEF Research!Deploy
  <2>4. QED BY <1>0, <1>s, <1>v, <2>1, <2>2, <2>3 DEF ResearchInv, ResearchType
<1>9. CASE Research!NextDay
  <2>1. today' \in Nat /\ UNCHANGED <<prompts, briefs, asking, served, begun>>
    BY <1>0, <1>9 DEF Research!NextDay, ResearchType
  <2>2. QED BY <1>0, <1>s, <1>a, <1>v, <2>1 DEF ResearchInv, ResearchType
<1>10. CASE UNCHANGED Research!vars
  BY <1>0, <1>s, <1>a, <1>v, <1>10 DEF Research!vars, ResearchInv, ResearchType
<1>11. QED BY <1>1, <1>2, <1>3, <1>4, <1>5, <1>6, <1>7, <1>8, <1>9, <1>10 DEF Research!Next

\* A job that has to ask has just missed.
LEMMA DueHasMissed ==
  ASSUME ResearchInv, Research!Next, NEW j \in Askers, Research!Due(j)
  PROVE  \E model \in Models : Research!Miss(j, model) /\ asking'[j].model = model
<1>0. ResearchType /\ asking[j] = Research!Idle /\ asking'[j] # Research!Idle /\ asking'[j].pc = "due"
  BY DEF ResearchInv, Research!Due
<1>1. ASSUME NEW k \in Askers, NEW model \in Models, Research!Miss(k, model) PROVE k = j /\ asking'[j].model = model
  BY <1>0, <1>1 DEF Research!Miss, ResearchType
<1>2. ASSUME NEW k \in Askers, NEW model \in Models, Research!Refresh(k, model) PROVE FALSE
  BY <1>0, <1>2 DEF Research!Refresh, ResearchType
<1>3. ASSUME NEW k \in Askers, Research!Ask(k) PROVE FALSE
  BY <1>0, <1>3 DEF Research!Ask, ResearchType, Research!Idle
<1>4. ASSUME NEW k \in Askers, Research!Answered(k) PROVE FALSE
  BY <1>0, <1>4 DEF Research!Answered, ResearchType
<1>5. ASSUME NEW k \in Askers, Research!Refused(k) PROVE FALSE
  BY <1>0, <1>5 DEF Research!Refused, ResearchType
<1>6. ASSUME Research!Deploy PROVE FALSE
  BY <1>0, <1>6 DEF Research!Deploy
<1>7. ASSUME UNCHANGED asking PROVE FALSE
  BY <1>0, <1>7
<1>8. QED BY <1>1, <1>2, <1>3, <1>4, <1>5, <1>6, <1>7
     DEF Research!Next, Research!Serve, Research!Paste, Research!NextDay

LEMMA WindowIsHonoured ==
  ASSUME ResearchInv, Research!Next, NEW j \in Askers, Research!Due(j), Research!StillGood(asking'[j].model)
  PROVE  asking'[j].model = Deep
<1>0. ResearchType /\ SlotsAreKept
  BY DEF ResearchInv
<1>1. PICK model \in Models : Research!Miss(j, model) /\ asking'[j].model = model
  BY DueHasMissed
<1>2. PICK deep \in BOOLEAN : deep = (model = Deep)
  OBVIOUS
<1>3. /\ briefs[deep] # Research!None /\ today - briefs[deep].seen <= MaxAge
      /\ briefs[deep].under = prompts
  BY <1>1, <1>2 DEF Research!StillGood
<1>4. Bought(briefs[deep]) /\ (briefs[deep].model = Deep) = deep
  BY <1>0, <1>3 DEF SlotsAreKept
<1>5. Research!readPerplexity(model) = briefs[deep]
  BY <1>2, <1>3 DEF Research!readPerplexity, Research!within
<1>6. briefs[deep].hash # <<"parts", prompts>>
  BY <1>1, <1>3, <1>5 DEF Research!Miss, Research!Hit, Research!PERPLEXITY_PROMPT_HASH
<1>7. briefs[deep].model = Deep
  BY <1>3, <1>4, <1>6 DEF Bought
<1>8. QED BY <1>1, <1>2, <1>4, <1>7

LEMMA HitIsCurrent ==
  ASSUME ResearchInv, Research!Next, begun' = begun + 1, served' # served
  PROVE  served'.brief.under = prompts /\ today - served'.brief.seen <= MaxAge
<1>0. ResearchType /\ SlotsAreKept /\ begun \in Nat
  BY DEF ResearchInv, ResearchType
<1>1. PICK j \in Askers, model \in Models : Research!Serve(j, model)
  <2>1. begun' # begun
    BY <1>0
  <2>2. QED BY <2>1 DEF Research!Next, Research!Miss, Research!Refresh, Research!Ask, Research!Answered,
               Research!Refused, Research!Paste, Research!Deploy, Research!NextDay
<1>2. PICK deep \in BOOLEAN : deep = (model = Deep)
  OBVIOUS
<1>3. Research!within(briefs[deep], MaxAge) # Research!None /\ Research!readPerplexity(model) = Research!within(briefs[deep], MaxAge)
  BY <1>1, <1>2 DEF Research!Serve, Research!Hit, Research!readPerplexity
<1>4. /\ Bought(briefs[deep]) /\ Research!readPerplexity(model) = briefs[deep]
      /\ today - briefs[deep].seen <= MaxAge
  BY <1>0, <1>3, ReadIsBought
<1>5. briefs[deep].hash = <<"parts", prompts>>
  BY <1>1, <1>4 DEF Research!Serve, Research!Hit, Research!PERPLEXITY_PROMPT_HASH
<1>6. briefs[deep].under = prompts
  BY <1>4, <1>5 DEF Bought
<1>7. served'.brief = briefs[deep]
  BY <1>1, <1>4 DEF Research!Serve, Research!Now
<1>8. QED BY <1>4, <1>6, <1>7

\* Research: a regular model is asked only when its brief is due, what is served without
\* asking answers the question of the code and is in its window, and no debate is older
\* than its own, however many briefs have passed it on.
THEOREM ResearchServed == Research!Spec => ResearchIsOfItsTime
<1>1. ResearchInv /\ [Research!Next]_(Research!vars) => [Research!ServedIsOfItsTime']_(Research!vars)
  BY ResearchStep DEF ResearchInv
<1>2. ResearchInv /\ [Research!Next]_(Research!vars) =>
        [\A j \in Askers : Research!Due(j) /\ Research!StillGood(asking'[j].model) =>
            asking'[j].model = Deep]_(Research!vars)
  BY WindowIsHonoured
<1>3. ResearchInv /\ [Research!Next]_(Research!vars) =>
        [\A j \in Askers : (begun' = begun + 1 /\ served' # served) =>
            served'.brief.under = prompts /\ today - served'.brief.seen <= MaxAge]_(Research!vars)
  BY HitIsCurrent
<1>4. QED BY <1>1, <1>2, <1>3, ResearchBegins, ResearchStep, PTL
     DEF Research!Spec, ResearchIsOfItsTime, Research!ResearchIsOfItsTime, Research!RegularHonourTheWindow, Research!ServedIsCurrent

-----------------------------------------------------------------------------
(* The verdict on a stock: FactorScore and VerdictPipeline. *)

ReadsAreTyped == material \in Materials /\ reads \in [Verdict!Samples -> Reads \union {Verdict!Failed, Verdict!Due}]

\* What is shown is what the card that stands makes of the payload at this age, or tells of a
\* correction for which there is no narrative.
ShownIsByAge ==
  stage = "stored" =>
    \/ shown = Verdict!rescore(payload, card, ageDays)
    \/ ~card.narrative.read /\ card.requested # 0

VerdictInv == ReadsAreTyped /\ ShownIsByAge /\ (stage # "stored" => ageDays = 0)

\* The table, read off.
LEMMA KnotsAre ==
  /\ Len(Verdict!Knots) = 13
  /\ Verdict!Knots[1] = <<300, 300>>
  /\ Verdict!Knots[2] = <<350, 349>>
  /\ Verdict!Knots[3] = <<400, 392>>
  /\ Verdict!Knots[4] = <<450, 427>>
  /\ Verdict!Knots[5] = <<500, 452>>
  /\ Verdict!Knots[6] = <<550, 470>>
  /\ Verdict!Knots[7] = <<600, 481>>
  /\ Verdict!Knots[8] = <<650, 488>>
  /\ Verdict!Knots[9] = <<700, 493>>
  /\ Verdict!Knots[10] = <<750, 496>>
  /\ Verdict!Knots[11] = <<800, 497>>
  /\ Verdict!Knots[12] = <<900, 499>>
  /\ Verdict!Knots[13] = <<2440, 500>>
BY DEF Verdict!Knots

\* Saturation bends down, to five points at most, and keeps the order of what is told apart here.
SaturatedWithin(x, y) ==
  /\ y \in Int /\ 300 <= y /\ y <= 500 /\ y <= x
  /\ x >= 350 => y >= 349
  /\ x >= 400 => y >= 392

\* And its inverse bends up.
UnsaturatedWithin(y, x) ==
  /\ x \in Int /\ x >= y
  /\ y <= 350 => x <= y + 40
  /\ y >= 427 => x >= 450
  /\ y >= 452 => x >= 500

\* The line from c at a to d at b, in whole numbers.
LineFrom(a, b, c, d, x) == c + ((x - a) * (d - c)) \div (b - a)

\* Which of the knots a number lies between, on the side i, and the line there to the side j.
KnotAt(n, i) == Verdict!Knots[n][i]
Lies(x, i, n) == KnotAt(n, i) <= x /\ x <= KnotAt(n + 1, i)
Line(x, i, j, n) == LineFrom(KnotAt(n, i), KnotAt(n + 1, i), KnotAt(n, j), KnotAt(n + 1, j), x)
OnALine(x, i, j) == \E n \in 1 .. 12 : Lies(x, i, n) /\ Verdict!Between(x, i, j) = Line(x, i, j, n)

LEMMA BetweenIsALine ==
  ASSUME NEW x \in Int, NEW i \in {1, 2}, NEW j \in {1, 2}, KnotAt(1, i) <= x, x <= KnotAt(13, i)
  PROVE  OnALine(x, i, j)
<1>0. \A n \in 1 .. 13 : KnotAt(n, i) \in Int
  BY KnotsAre DEF KnotAt
<1>1. \E n \in 1 .. 12 : Lies(x, i, n)
  <2> DEFINE Good == {n \in 0 .. 12 : x <= KnotAt(n + 1, i) => x = KnotAt(1, i) \/ \E m \in 1 .. n : Lies(x, i, m)}
  <2>1. 0 \in Good
    BY <1>0
  <2>2. ASSUME NEW n \in 1 .. 12, n - 1 \in Good PROVE n \in Good
    <3>1. SUFFICES ASSUME x <= KnotAt(n + 1, i), x # KnotAt(1, i) PROVE \E m \in 1 .. n : Lies(x, i, m)
      OBVIOUS
    <3>2. CASE x <= KnotAt(n, i)
      <4>1. PICK m \in 1 .. n - 1 : Lies(x, i, m)
        BY <2>2, <3>1, <3>2
      <4>2. QED BY <4>1
    <3>3. CASE ~(x <= KnotAt(n, i))
      <4>1. KnotAt(n, i) \in Int
        BY <1>0
      <4>2. Lies(x, i, n)
        BY <3>1, <3>3, <4>1 DEF Lies
      <4>3. QED BY <4>2
    <3>4. QED BY <3>2, <3>3
  <2> HIDE DEF Good
  <2>3. 0 .. 12 \subseteq Good
    BY <2>1, <2>2, NoFirstException
  <2>4. x = KnotAt(1, i) \/ \E m \in 1 .. 12 : Lies(x, i, m)
    <3>1. 12 \in Good
      BY <2>3
    <3>2. QED BY <3>1 DEF Good
  <2>5. x = KnotAt(1, i) => Lies(x, i, 1)
    BY KnotsAre DEF Lies, KnotAt
  <2>6. QED BY <2>4, <2>5
<1> DEFINE k == CHOOSE n \in 1 .. 12 : Lies(x, i, n)
<1>2. k \in 1 .. 12 /\ Lies(x, i, k)
  BY <1>1
<1>3. Verdict!Between(x, i, j) = Line(x, i, j, k)
  BY KnotsAre DEF Verdict!Between, Lies, Line, LineFrom, KnotAt
<1> HIDE DEF k
<1>4. QED BY <1>2, <1>3 DEF OnALine

LEMMA SaturationIsBetween ==
  ASSUME NEW x \in Int, 300 <= x, x <= 2440
  PROVE  SaturatedWithin(x, Verdict!Between(x, 1, 2))
<1> DEFINE On(n) == Lies(x, 1, n) => SaturatedWithin(x, Line(x, 1, 2, n))
<1> USE KnotsAre DEF Lies, Line, LineFrom, KnotAt, SaturatedWithin
<1>1. On(1)
  OBVIOUS
<1>2. On(2)
  OBVIOUS
<1>3. On(3)
  OBVIOUS
<1>4. On(4)
  OBVIOUS
<1>5. On(5)
  OBVIOUS
<1>6. On(6)
  OBVIOUS
<1>7. On(7)
  OBVIOUS
<1>8. On(8)
  OBVIOUS
<1>9. On(9)
  OBVIOUS
<1>10. On(10)
  OBVIOUS
<1>11. On(11)
  OBVIOUS
<1>12. On(12)
  OBVIOUS
<1>13. \A n \in 1 .. 12 : On(n)
  <2> HIDE DEF On
  <2>1. QED BY <1>1, <1>2, <1>3, <1>4, <1>5, <1>6, <1>7, <1>8, <1>9, <1>10, <1>11, <1>12
<1>14. OnALine(x, 1, 2)
  BY BetweenIsALine
<1>15. QED BY <1>13, <1>14 DEF OnALine

LEMMA UnsaturationIsBetween ==
  ASSUME NEW y \in Int, 300 <= y, y <= 500
  PROVE  UnsaturatedWithin(y, Verdict!Between(y, 2, 1))
<1> DEFINE On(n) == Lies(y, 2, n) => UnsaturatedWithin(y, Line(y, 2, 1, n))
<1> USE KnotsAre DEF Lies, Line, LineFrom, KnotAt, UnsaturatedWithin
<1>1. On(1)
  OBVIOUS
<1>2. On(2)
  OBVIOUS
<1>3. On(3)
  OBVIOUS
<1>4. On(4)
  OBVIOUS
<1>5. On(5)
  OBVIOUS
<1>6. On(6)
  OBVIOUS
<1>7. On(7)
  OBVIOUS
<1>8. On(8)
  OBVIOUS
<1>9. On(9)
  OBVIOUS
<1>10. On(10)
  OBVIOUS
<1>11. On(11)
  OBVIOUS
<1>12. On(12)
  OBVIOUS
<1>13. \A n \in 1 .. 12 : On(n)
  <2> HIDE DEF On
  <2>1. QED BY <1>1, <1>2, <1>3, <1>4, <1>5, <1>6, <1>7, <1>8, <1>9, <1>10, <1>11, <1>12
<1>14. OnALine(y, 2, 1)
  BY BetweenIsALine
<1>15. QED BY <1>13, <1>14 DEF OnALine

LEMMA SaturateIs ==
  ASSUME NEW x \in Int
  PROVE  /\ Verdict!saturate(x) \in Int
         /\ -300 <= x /\ x <= 300 => Verdict!saturate(x) = x
         /\ x > 300 => SaturatedWithin(Verdict!Within(0, 2440, x), Verdict!saturate(x))
         /\ x < -300 => SaturatedWithin(Verdict!Within(0, 2440, -x), -Verdict!saturate(x))
<1> DEFINE a == Verdict!Abs(x)
           w == Verdict!Within(0, 2440, a)
           far == Verdict!Between(w, 1, 2)
<1>1. a \in Int /\ a = IF x < 0 THEN -x ELSE x
  BY DEF Verdict!Abs
<1>2. Verdict!Knots[Len(Verdict!Knots)][1] = 2440
  BY KnotsAre
<1>3. -300 <= x /\ x <= 300 => Verdict!saturate(x) = x
  BY <1>1 DEF Verdict!saturate, Verdict!Bent
<1>4. ASSUME x > 300 \/ x < -300
      PROVE  SaturatedWithin(w, far) /\ Verdict!saturate(x) = IF x < 0 THEN -far ELSE far
  <2>1. w \in Int /\ 300 <= w /\ w <= 2440
    BY <1>1, <1>4 DEF Verdict!Within
  <2> HIDE DEF w
  <2>2. SaturatedWithin(w, far)
    BY <2>1, SaturationIsBetween
  <2>3. Verdict!saturate(x) = IF x < 0 THEN -far ELSE far
    BY <1>1, <1>2, <1>4 DEF Verdict!saturate, Verdict!Bent, w
  <2>4. QED BY <2>2, <2>3
<1> HIDE DEF far
<1>5. x > 300 => SaturatedWithin(Verdict!Within(0, 2440, x), Verdict!saturate(x))
  BY <1>1, <1>4
<1>6. x < -300 => SaturatedWithin(Verdict!Within(0, 2440, -x), -Verdict!saturate(x))
  <2> SUFFICES ASSUME x < -300 PROVE SaturatedWithin(Verdict!Within(0, 2440, -x), -Verdict!saturate(x))
    OBVIOUS
  <2>1. far \in Int /\ Verdict!saturate(x) = -far /\ a = -x
    BY <1>1, <1>4 DEF SaturatedWithin
  <2>2. -Verdict!saturate(x) = far
    BY <2>1
  <2>3. QED BY <1>4, <2>1, <2>2
<1>7. Verdict!saturate(x) \in Int
  BY <1>3, <1>4 DEF SaturatedWithin
<1>8. QED BY <1>3, <1>5, <1>6, <1>7

LEMMA UnsaturateIs ==
  ASSUME NEW y \in Int
  PROVE  /\ Verdict!unsaturate(y) \in Int
         /\ -300 <= y /\ y <= 300 => Verdict!unsaturate(y) = y
         /\ y > 300 => UnsaturatedWithin(Verdict!Within(0, 500, y), Verdict!unsaturate(y))
         /\ y < -300 => UnsaturatedWithin(Verdict!Within(0, 500, -y), -Verdict!unsaturate(y))
<1> DEFINE a == Verdict!Abs(y)
           w == Verdict!Within(0, 500, a)
           far == Verdict!Between(w, 2, 1)
<1>1. a \in Int /\ a = IF y < 0 THEN -y ELSE y
  BY DEF Verdict!Abs
<1>2. Verdict!Knots[Len(Verdict!Knots)][2] = 500
  BY KnotsAre
<1>3. -300 <= y /\ y <= 300 => Verdict!unsaturate(y) = y
  BY <1>1 DEF Verdict!unsaturate, Verdict!Bent
<1>4. ASSUME y > 300 \/ y < -300
      PROVE  UnsaturatedWithin(w, far) /\ Verdict!unsaturate(y) = IF y < 0 THEN -far ELSE far
  <2>1. w \in Int /\ 300 <= w /\ w <= 500
    BY <1>1, <1>4 DEF Verdict!Within
  <2> HIDE DEF w
  <2>2. UnsaturatedWithin(w, far)
    BY <2>1, UnsaturationIsBetween
  <2>3. Verdict!unsaturate(y) = IF y < 0 THEN -far ELSE far
    BY <1>1, <1>2, <1>4 DEF Verdict!unsaturate, Verdict!Bent, w
  <2>4. QED BY <2>2, <2>3
<1> HIDE DEF far
<1>5. y > 300 => UnsaturatedWithin(Verdict!Within(0, 500, y), Verdict!unsaturate(y))
  BY <1>1, <1>4
<1>6. y < -300 => UnsaturatedWithin(Verdict!Within(0, 500, -y), -Verdict!unsaturate(y))
  <2> SUFFICES ASSUME y < -300 PROVE UnsaturatedWithin(Verdict!Within(0, 500, -y), -Verdict!unsaturate(y))
    OBVIOUS
  <2>1. far \in Int /\ Verdict!unsaturate(y) = -far /\ a = -y
    BY <1>1, <1>4 DEF UnsaturatedWithin
  <2>2. -Verdict!unsaturate(y) = far
    BY <2>1
  <2>3. QED BY <1>4, <2>1, <2>2
<1>7. Verdict!unsaturate(y) \in Int
  BY <1>3, <1>4 DEF UnsaturatedWithin
<1>8. QED BY <1>3, <1>5, <1>6, <1>7

\* From a blend d above neutral over the linear u and a correction q to s.
Corrected(d, q, u, s) ==
  /\ 0 <= d /\ -100 <= q /\ q <= 100
  /\ d <= 300 => u = d
  /\ d > 300 => UnsaturatedWithin(Verdict!Within(0, 500, d), u)
  /\ u + q <= 300 => s = u + q
  /\ u + q > 300 => SaturatedWithin(Verdict!Within(0, 2440, u + q), s)

LEMMA CorrectionAbove ==
  ASSUME NEW d \in Int, NEW q \in Int, NEW u \in Int, NEW s \in Int, Corrected(d, q, u, s)
  PROVE  s >= Verdict!Within(0, 500, d) - 149 /\ s <= Verdict!Within(0, 500, d) + 149
<1>0. Corrected(d, q, u, s)
  OBVIOUS
<1> USE <1>0 DEF Corrected
<1> DEFINE w == Verdict!Within(0, 500, d)
           x == Verdict!Within(0, 2440, u + q)
<1>1. w \in Int /\ w = IF d > 500 THEN 500 ELSE d
  BY DEF Verdict!Within
<1>2. u + q > 300 => x \in Int /\ x = IF u + q > 2440 THEN 2440 ELSE u + q
  BY DEF Verdict!Within
<1>3. d > 300 => UnsaturatedWithin(w, u)
  OBVIOUS
<1>4. u + q > 300 => SaturatedWithin(x, s)
  OBVIOUS
<1> SUFFICES s >= w - 149 /\ s <= w + 149
  OBVIOUS
<1> HIDE DEF w, x
<1>5. CASE d <= 300
  BY <1>1, <1>2, <1>4, <1>5 DEF SaturatedWithin
<1>6. CASE d > 300 /\ u + q <= 300
  BY <1>1, <1>3, <1>6 DEF UnsaturatedWithin
<1>7. CASE d > 300 /\ u + q > 300
  <2>1. u >= w /\ (w <= 350 => u <= w + 40) /\ (w >= 427 => u >= 450) /\ (w >= 452 => u >= 500)
    BY <1>3, <1>7 DEF UnsaturatedWithin
  <2>2. 300 <= s /\ s <= 500 /\ s <= u + q /\ (u + q >= 350 => s >= 349) /\ (u + q >= 400 => s >= 392)
    BY <1>2, <1>4, <1>7 DEF SaturatedWithin
  <2>3. w <= 500
    BY <1>1
  <2>4. s <= w + 149
    BY <1>1, <2>1, <2>2
  <2>5. s >= w - 149
    BY <1>1, <2>1, <2>2, <2>3
  <2>6. QED BY <2>4, <2>5
<1>8. QED BY <1>5, <1>6, <1>7

\* However far a blend is out, a correction of a point at most moves it by less than a band is wide.
LEMMA CorrectionIsBounded ==
  ASSUME NEW d \in Int, NEW q \in Int, -100 <= q, q <= 100
  PROVE  LET s == Verdict!saturate(Verdict!unsaturate(d) + q)
         IN /\ s \in Int
            /\ s >= Verdict!Within(-500, 500, d) - 149 /\ s <= Verdict!Within(-500, 500, d) + 149
<1> DEFINE u == Verdict!unsaturate(d)
           s == Verdict!saturate(u + q)
<1>1. /\ u \in Int
      /\ -300 <= d /\ d <= 300 => u = d
      /\ d > 300 => UnsaturatedWithin(Verdict!Within(0, 500, d), u)
      /\ d < -300 => UnsaturatedWithin(Verdict!Within(0, 500, -d), -u)
  BY UnsaturateIs
<1> HIDE DEF u
<1>2. /\ s \in Int
      /\ -300 <= u + q /\ u + q <= 300 => s = u + q
      /\ u + q > 300 => SaturatedWithin(Verdict!Within(0, 2440, u + q), s)
      /\ u + q < -300 => SaturatedWithin(Verdict!Within(0, 2440, -(u + q)), -s)
  <2>1. u + q \in Int
    BY <1>1
  <2>2. QED BY <2>1, SaturateIs
<1> HIDE DEF s
<1> DEFINE w == Verdict!Within(-500, 500, d)
<1>3. CASE d >= 0
  <2>1. w = Verdict!Within(0, 500, d)
    BY <1>3 DEF Verdict!Within
  <2>2. u + q <= 300 => s = u + q
    BY <1>1, <1>2, <1>3 DEF UnsaturatedWithin, Verdict!Within
  <2>3. /\ u \in Int /\ s \in Int /\ 0 <= d
        /\ d <= 300 => u = d
        /\ d > 300 => UnsaturatedWithin(Verdict!Within(0, 500, d), u)
        /\ u + q > 300 => SaturatedWithin(Verdict!Within(0, 2440, u + q), s)
    BY <1>1, <1>2, <1>3
  <2> HIDE DEF w
  <2>4. Corrected(d, q, u, s)
    BY <2>2, <2>3 DEF Corrected
  <2>5. s >= Verdict!Within(0, 500, d) - 149 /\ s <= Verdict!Within(0, 500, d) + 149
    BY <2>3, <2>4, CorrectionAbove
  <2>6. QED BY <2>1, <2>3, <2>5 DEF s, u, w
<1>4. CASE d < 0
  <2> DEFINE e == -d
             p == -q
             v == -u
             t == -s
  <2>1. e \in Int /\ p \in Int /\ v \in Int /\ t \in Int /\ 0 <= e /\ -100 <= p /\ p <= 100 /\ -(u + q) = v + p
    BY <1>1, <1>2, <1>4
  <2>2. w = -Verdict!Within(0, 500, e) /\ Verdict!Within(0, 500, e) \in Int
    BY <1>4 DEF Verdict!Within
  <2>3. (e <= 300 => v = e) /\ (e > 300 => UnsaturatedWithin(Verdict!Within(0, 500, e), v))
    BY <1>1, <1>4
  <2>4. (v + p <= 300 => t = v + p)
    BY <1>1, <1>2, <1>4 DEF UnsaturatedWithin, Verdict!Within
  <2>5. v + p > 300 => SaturatedWithin(Verdict!Within(0, 2440, v + p), t)
    <3>1. v + p > 300 => u + q < -300
      BY <1>1
    <3>2. QED BY <1>2, <2>1, <3>1
  <2> HIDE DEF e, p, v, t
  <2>c. Corrected(e, p, v, t)
    BY <2>1, <2>3, <2>4, <2>5 DEF Corrected
  <2>6. t >= Verdict!Within(0, 500, e) - 149 /\ t <= Verdict!Within(0, 500, e) + 149
    BY <2>1, <2>c, CorrectionAbove
  <2>7. s >= w - 149 /\ s <= w + 149
    BY <1>2, <2>2, <2>6 DEF t
  <2>8. QED BY <1>2, <2>7 DEF s, u, w
<1>5. QED BY <1>3, <1>4

\* The bands, counted.
LEMMA BandsCounted ==
  ASSUME NEW x \in Int
  PROVE  Verdict!verdictForScore(x) =
           IF x < 20 THEN 0 ELSE IF x < 35 THEN 1 ELSE IF x < 65 THEN 2 ELSE IF x < 80 THEN 3 ELSE 4
<1> DEFINE S == {min \in {20, 35, 65, 80} : x >= min}
<1>0. Verdict!verdictForScore(x) = Cardinality(S)
  BY DEF Verdict!verdictForScore, Verdict!Cardinality, Cardinality
<1>1. /\ IsFiniteSet({20}) /\ Cardinality({20}) = 1
      /\ IsFiniteSet({20, 35}) /\ Cardinality({20, 35}) = 2
      /\ IsFiniteSet({20, 35, 65}) /\ Cardinality({20, 35, 65}) = 3
      /\ Cardinality({20, 35, 65, 80}) = 4
  <2>1. IsFiniteSet({20}) /\ Cardinality({20}) = 1
    BY FS_Singleton
  <2> DEFINE two == {20} \union {35}
             three == two \union {65}
             four == three \union {80}
  <2>2. {20, 35} = two /\ {20, 35, 65} = three /\ {20, 35, 65, 80} = four
    OBVIOUS
  <2>3. 35 \notin {20} /\ 65 \notin two /\ 80 \notin three
    OBVIOUS
  <2>4. IsFiniteSet(two) /\ Cardinality(two) = 2
    BY <2>1, <2>3, FS_AddElement
  <2> HIDE DEF two
  <2>5. IsFiniteSet(three) /\ Cardinality(three) = 3
    BY <2>3, <2>4, FS_AddElement
  <2> HIDE DEF three
  <2>6. Cardinality(four) = 4
    BY <2>3, <2>5, FS_AddElement
  <2> HIDE DEF four
  <2>7. QED BY <2>1, <2>2, <2>4, <2>5, <2>6
<1>2. CASE x < 20
  <2>1. S = {}
    BY <1>2
  <2>2. QED BY <1>0, <1>2, <2>1, FS_EmptySet
<1>3. CASE 20 <= x /\ x < 35
  <2>1. S = {20}
    BY <1>3
  <2>2. QED BY <1>0, <1>1, <1>3, <2>1
<1>4. CASE 35 <= x /\ x < 65
  <2>1. S = {20, 35}
    BY <1>4
  <2>2. QED BY <1>0, <1>1, <1>4, <2>1
<1>5. CASE 65 <= x /\ x < 80
  <2>1. S = {20, 35, 65}
    BY <1>5
  <2>2. QED BY <1>0, <1>1, <1>5, <2>1
<1>6. CASE 80 <= x
  <2>1. S = {20, 35, 65, 80}
    BY <1>6
  <2>2. QED BY <1>0, <1>1, <1>6, <2>1
<1>7. QED BY <1>2, <1>3, <1>4, <1>5, <1>6

\* A correction moves the verdict by one band at most, whatever the blend.
LEMMA OneBandAtMost ==
  ASSUME NEW b \in Int, NEW q \in Int, -100 <= q, q <= 100
  PROVE  LET final == Verdict!published(500 + Verdict!saturate(Verdict!unsaturate(b - 500) + q))
         IN Verdict!Abs(Verdict!verdictForScore(final) - Verdict!verdictForScore(Verdict!published(b))) <= 1
<1> DEFINE s == Verdict!saturate(Verdict!unsaturate(b - 500) + q)
           final == Verdict!published(500 + s)
           plain == Verdict!published(b)
           w == Verdict!Within(-500, 500, b - 500)
<1>1. s \in Int /\ s >= w - 149 /\ s <= w + 149
  <2>1. b - 500 \in Int
    OBVIOUS
  <2>2. QED BY <2>1, CorrectionIsBounded
<1> HIDE DEF s
<1>2. w \in Int /\ w = IF b < 0 THEN -500 ELSE IF b > 1000 THEN 500 ELSE b - 500
  BY DEF Verdict!Within
<1>3. plain \in Int /\ 10 * plain <= w + 505 /\ 10 * plain > w + 495
  BY <1>2 DEF Verdict!published, Verdict!Within
<1> HIDE DEF w
<1>4. /\ final \in Int /\ final >= 0 /\ final <= 100
      /\ s < -500 => final = 0
      /\ s > 500 => final = 100
      /\ -500 <= s /\ s <= 500 => 10 * final <= s + 505 /\ 10 * final > s + 495
  BY <1>1 DEF Verdict!published, Verdict!Within
<1>5. -500 <= w /\ w <= 500
  BY <1>2
<1> HIDE DEF final, plain
<1>6. final - plain <= 15 /\ plain - final <= 15
  <2>0. plain >= 0 /\ plain <= 100
    BY <1>2, <1>3, <1>5
  <2>1. CASE s < -500
    BY <1>1, <1>2, <1>3, <1>4, <1>5, <2>0, <2>1
  <2>2. CASE s > 500
    BY <1>1, <1>2, <1>3, <1>4, <1>5, <2>0, <2>2
  <2>3. CASE -500 <= s /\ s <= 500
    BY <1>1, <1>2, <1>3, <1>4, <2>3
  <2>4. QED BY <1>1, <2>1, <2>2, <2>3
<1> DEFINE band == Verdict!verdictForScore(final)
           before == Verdict!verdictForScore(plain)
<1>7. /\ band = IF final < 20 THEN 0 ELSE IF final < 35 THEN 1 ELSE IF final < 65 THEN 2 ELSE IF final < 80 THEN 3 ELSE 4
      /\ before = IF plain < 20 THEN 0 ELSE IF plain < 35 THEN 1 ELSE IF plain < 65 THEN 2 ELSE IF plain < 80 THEN 3 ELSE 4
  BY <1>3, <1>4, BandsCounted
<1> HIDE DEF band, before
<1>8. band - before <= 1 /\ before - band <= 1 /\ band \in Int /\ before \in Int
  BY <1>3, <1>4, <1>6, <1>7
<1>9. Verdict!Abs(band - before) <= 1
  BY <1>8 DEF Verdict!Abs
<1>10. QED BY <1>9 DEF band, before, final, plain, s
LEMMA SameCount == \A A : Verdict!Cardinality(A) = Cardinality(A)
BY DEF Verdict!Cardinality, Cardinality

\* The pillars weigh whole numbers, and agree to a share.
LEMMA PillarsCount ==
  ASSUME NEW s \in [Verdict!Pillars -> -1 .. 10]
  PROVE  /\ Verdict!net(s) \in Int
         /\ Verdict!gross(s) \in Nat
         /\ Verdict!scoredWeight(s) \in Nat
         /\ (\E p \in Verdict!Pillars : s[p] # -1) => Verdict!scoredWeight(s) > 0
<1>1. \A p \in Verdict!Pillars : s[p] \in Int /\ Verdict!Abs(s[p] - 5) \in Nat
  BY DEF Verdict!Abs
<1> DEFINE a(p) == IF s[p] = -1 THEN 0 ELSE Verdict!PILLAR_WEIGHTS[p]
           b(p) == IF s[p] = -1 THEN 0 ELSE Verdict!PILLAR_WEIGHTS[p] * (s[p] - 5)
           c(p) == IF s[p] = -1 THEN 0 ELSE Verdict!PILLAR_WEIGHTS[p] * Verdict!Abs(s[p] - 5)
<1>2. \A p \in Verdict!Pillars : Verdict!PILLAR_WEIGHTS[p] \in 2 .. 6
  BY DEF Verdict!PILLAR_WEIGHTS, Verdict!Pillars
<1>3. \A p \in Verdict!Pillars : a(p) \in Nat /\ (s[p] # -1 => a(p) > 0)
  BY <1>2
<1>x. \A x \in 2 .. 6 : \A y \in Int : x * y \in Int /\ (y \in Nat => x * y \in Nat)
  OBVIOUS
<1>4. \A p \in Verdict!Pillars : b(p) \in Int /\ c(p) \in Nat
  BY <1>1, <1>2, <1>x
<1>5. /\ Verdict!scoredWeight(s) = a("valuation") + a("quality") + a("health") + a("consensus") + a("momentum") + a("revisions")
      /\ Verdict!net(s) = b("valuation") + b("quality") + b("health") + b("consensus") + b("momentum") + b("revisions")
      /\ Verdict!gross(s) = c("valuation") + c("quality") + c("health") + c("consensus") + c("momentum") + c("revisions")
  BY DEF Verdict!scoredWeight, Verdict!net, Verdict!gross, Verdict!OverPillars, Verdict!Pillars, Verdict!Blind
<1> HIDE DEF a, b, c
<1>6. Verdict!Pillars = {"valuation", "quality", "health", "consensus", "momentum", "revisions"}
  BY DEF Verdict!Pillars
<1>7. QED BY <1>3, <1>4, <1>5, <1>6

LEMMA AgreementCounts ==
  ASSUME NEW s \in [Verdict!Pillars -> -1 .. 10]
  PROVE  Verdict!agreement(s) \in Nat
<1>1. Verdict!net(s) \in Int /\ Verdict!gross(s) \in Nat
  BY PillarsCount
<1>2. 100 * Verdict!Abs(Verdict!net(s)) \in Nat
  BY <1>1 DEF Verdict!Abs
<1>3. \A x \in Nat : \A y \in Nat \ {0} : x \div y \in Nat
  OBVIOUS
<1>4. QED BY <1>1, <1>2, <1>3 DEF Verdict!agreement

\* The distances netted are no more than those not netted.
LEMMA NetWithinGross ==
  ASSUME NEW s \in [Verdict!Pillars -> -1 .. 10]
  PROVE  Verdict!net(s) <= Verdict!gross(s) /\ -Verdict!gross(s) <= Verdict!net(s)
<1> DEFINE b(q) == IF s[q] = -1 THEN 0 ELSE Verdict!PILLAR_WEIGHTS[q] * (s[q] - 5)
           c(q) == IF s[q] = -1 THEN 0 ELSE Verdict!PILLAR_WEIGHTS[q] * Verdict!Abs(s[q] - 5)
<1>1. \A q \in Verdict!Pillars : b(q) \in Int /\ c(q) \in Int /\ b(q) <= c(q) /\ -c(q) <= b(q)
  <2>1. SUFFICES ASSUME NEW q \in Verdict!Pillars, s[q] # -1
                 PROVE  b(q) \in Int /\ c(q) \in Int /\ b(q) <= c(q) /\ -c(q) <= b(q)
    OBVIOUS
  <2>2. PICK k \in Nat : k = Verdict!PILLAR_WEIGHTS[q]
    BY DEF Verdict!PILLAR_WEIGHTS, Verdict!Pillars
  <2>3. PICK x \in Int : x = s[q] - 5
    OBVIOUS
  <2>4. Verdict!Abs(x) = x \/ Verdict!Abs(x) = -x
    BY DEF Verdict!Abs
  <2>5. Verdict!Abs(x) \in Nat
    BY DEF Verdict!Abs
  <2>6. k * x \in Int /\ k * Verdict!Abs(x) \in Nat /\ k * (-x) = -(k * x)
    BY <2>5
  <2>7. b(q) = k * x /\ c(q) = k * Verdict!Abs(x)
    BY <2>1, <2>2, <2>3
  <2> HIDE DEF b, c
  <2>8. QED BY <2>4, <2>6, <2>7
<1>2. /\ Verdict!net(s) = b("valuation") + b("quality") + b("health") + b("consensus") + b("momentum") + b("revisions")
      /\ Verdict!gross(s) = c("valuation") + c("quality") + c("health") + c("consensus") + c("momentum") + c("revisions")
  BY DEF Verdict!net, Verdict!gross, Verdict!OverPillars, Verdict!Blind, Verdict!Pillars
<1> HIDE DEF b, c
<1>3. QED BY <1>1, <1>2 DEF Verdict!Pillars

\* Full strength: the larger of two bounds, at least twice the net distance.
LEMMA FullStrengthIs ==
  ASSUME NEW s \in [Verdict!Pillars -> -1 .. 10], Verdict!scoredWeight(s) > 0
  PROVE  /\ Verdict!fullStrength(s) \in Nat /\ Verdict!fullStrength(s) > 0
         /\ Verdict!fullStrength(s) \in {3 * Verdict!scoredWeight(s), 2 * Verdict!gross(s)}
         /\ 3 * Verdict!scoredWeight(s) <= Verdict!fullStrength(s) /\ 2 * Verdict!gross(s) <= Verdict!fullStrength(s)
         /\ 2 * Verdict!Abs(Verdict!net(s)) <= Verdict!fullStrength(s)
         /\ Verdict!Abs(Verdict!net(s)) \in Nat
<1> DEFINE x == 3 * Verdict!scoredWeight(s)
           y == 2 * Verdict!gross(s)
           n == Verdict!net(s)
<1>1. n \in Int /\ x \in Nat /\ y \in Nat /\ x > 0 /\ Verdict!gross(s) \in Nat
  BY PillarsCount
<1>2. 2 * Verdict!Abs(n) <= y /\ Verdict!Abs(n) \in Nat
  BY <1>1, NetWithinGross DEF Verdict!Abs
<1> HIDE DEF x, y, n
<1>3. \E z \in {x, y} : \A w \in {x, y} : z >= w
  BY <1>1
<1>4. Verdict!Max({x, y}) \in {x, y} /\ Verdict!Max({x, y}) >= x /\ Verdict!Max({x, y}) >= y
  BY <1>3 DEF Verdict!Max
<1>5. Verdict!fullStrength(s) = Verdict!Max({x, y})
  BY DEF Verdict!fullStrength, x, y
<1>6. QED BY <1>1, <1>2, <1>4, <1>5 DEF x, y, n

\* What the lenses agree on stretches a score, and never shrinks it.
LEMMA ConvictionCounts ==
  ASSUME NEW s \in [Verdict!Pillars -> -1 .. 10]
  PROVE  Verdict!conviction(s) \in Nat
<1>1. CASE Verdict!Scored(s) = {}
  <2>1. Verdict!Cardinality(Verdict!Scored(s)) = 0
    BY <1>1, SameCount, FS_EmptySet
  <2>2. QED BY <2>1 DEF Verdict!conviction
<1>2. CASE Verdict!Scored(s) # {}
  <2>1. Verdict!scoredWeight(s) > 0
    BY <1>2, PillarsCount DEF Verdict!Scored, Verdict!Blind
  <2>2. Verdict!fullStrength(s) \in Nat \ {0} /\ 1200 * Verdict!Abs(Verdict!net(s)) \in Nat
    BY <2>1, FullStrengthIs
  <2>3. \A m \in Nat : \A n \in Nat \ {0} : 1000 + m \div n \in Nat
    OBVIOUS
  <2>4. QED BY <2>2, <2>3 DEF Verdict!conviction
<1>3. QED BY <1>1, <1>2

LEMMA FactorCounts ==
  ASSUME NEW f \in Payloads
  PROVE  Verdict!factorScore(f) \in Int
<1> DEFINE s == f.pillars
           weight == Verdict!scoredWeight(s)
<1>1. s \in [Verdict!Pillars -> -1 .. 10] /\ f.composite \in Nat
  BY VerdictAssumption
<1>2. Verdict!net(s) \in Int /\ weight \in Nat
  BY <1>1, PillarsCount
<1>3. Verdict!conviction(s) \in Int
  BY <1>1, ConvictionCounts
<1>4. Verdict!confidence(f) \in Int
  <2>1. Verdict!qualityFactor(f) \in Int /\ Verdict!freshnessFactor(f) \in Int /\ 110 + 9 * f.composite \in Int
    BY <1>1 DEF Verdict!qualityFactor, Verdict!freshnessFactor
  <2>2. \A w, x, y, z \in Int : (w * x * y * z) \div 400000 \in Int
    OBVIOUS
  <2>3. QED BY <1>2, <2>1, <2>2 DEF Verdict!confidence
<1>5. Verdict!shrink(f) \in Int
  BY <1>4 DEF Verdict!shrink
<1>6. Verdict!deviation(f) \in Int
  <2>1. CASE weight = 0
    BY <2>1 DEF Verdict!deviation
  <2>2. CASE weight # 0
    <3> DEFINE d == (Verdict!Abs(Verdict!net(s)) * Verdict!shrink(f) * Verdict!conviction(s)) \div (10000 * weight)
    <3>1. Verdict!Abs(Verdict!net(s)) \in Int
      BY <1>2 DEF Verdict!Abs
    <3>2. \A x, y, z \in Int : \A n \in Nat \ {0} : (x * y * z) \div n \in Int
      OBVIOUS
    <3>3. 10000 * weight \in Nat \ {0}
      BY <1>2, <2>2
    <3>4. d \in Int
      BY <1>3, <1>5, <3>1, <3>2, <3>3
    <3>5. Verdict!deviation(f) = IF Verdict!net(s) < 0 THEN -d ELSE d
      BY <2>2 DEF Verdict!deviation
    <3> HIDE DEF d
    <3>6. QED BY <3>4, <3>5
  <2>3. QED BY <2>1, <2>2
<1>7. 500 + Verdict!saturate(Verdict!deviation(f)) \in Int
  BY <1>6, SaturateIs
<1>8. QED BY <1>7 DEF Verdict!factorScore, Verdict!published, Verdict!Within

LEMMA BlendCounts ==
  ASSUME NEW f \in Payloads, NEW x \in Int, NEW n \in Nat
  PROVE  Verdict!blend(f, x, n) \in Int
<1> DEFINE w == Verdict!factorWeight(f)
           v == Verdict!narrativeWeight(x, n)
<1>1. w \in Nat \ {0}
  BY AgreementCounts, VerdictAssumption DEF Verdict!factorWeight
<1>2. v \in Nat
  BY DEF Verdict!narrativeWeight
<1>3. Verdict!factorScore(f) \in Int
  BY FactorCounts
<1>4. \A a, b, c \in Int : \A d \in Nat \ {0} : \A e \in Nat : (10 * (a * b + e * c)) \div (d + e) \in Int
  OBVIOUS
<1> HIDE DEF w, v
<1>5. (10 * (w * Verdict!factorScore(f) + v * x)) \div (w + v) \in Int
  BY <1>1, <1>2, <1>3, <1>4
<1>6. QED BY <1>5 DEF Verdict!blend, w, v
\* Of at most three numbers there is a greatest and a least.
LEMMA Ordered ==
  ASSUME NEW f, NEW I \in SUBSET (1 .. 3), I # {}, \A i \in I : f[i] \in Int
  PROVE  (\E i \in I : \A j \in I : f[i] >= f[j]) /\ (\E i \in I : \A j \in I : f[i] <= f[j])
<1>1. \E i \in I : \A j \in I : f[i] >= f[j]
  <2> SUFFICES ASSUME \A i \in I : \E j \in I : f[j] > f[i] PROVE FALSE
    OBVIOUS
  <2>1. PICK i \in I : TRUE
    OBVIOUS
  <2>2. PICK j \in I : f[j] > f[i]
    OBVIOUS
  <2>3. PICK k \in I : f[k] > f[j]
    OBVIOUS
  <2>4. PICK l \in I : f[l] > f[k]
    OBVIOUS
  <2>5. i # j /\ i # k /\ i # l /\ j # k /\ j # l /\ k # l
    BY <2>2, <2>3, <2>4
  <2>6. QED BY <2>5
<1>2. \E i \in I : \A j \in I : f[i] <= f[j]
  <2> SUFFICES ASSUME \A i \in I : \E j \in I : f[j] < f[i] PROVE FALSE
    OBVIOUS
  <2>1. PICK i \in I : TRUE
    OBVIOUS
  <2>2. PICK j \in I : f[j] < f[i]
    OBVIOUS
  <2>3. PICK k \in I : f[k] < f[j]
    OBVIOUS
  <2>4. PICK l \in I : f[l] < f[k]
    OBVIOUS
  <2>5. i # j /\ i # k /\ i # l /\ j # k /\ j # l /\ k # l
    BY <2>2, <2>3, <2>4
  <2>6. QED BY <2>5
<1>3. QED BY <1>1, <1>2

LEMMA Extremes ==
  ASSUME NEW f, NEW I \in SUBSET (1 .. 3), I # {}, \A i \in I : f[i] \in Int
  PROVE  LET S == {f[i] : i \in I}
         IN /\ Verdict!Max(S) \in S /\ Verdict!Max(S) \in Int /\ \A x \in S : x <= Verdict!Max(S)
            /\ Verdict!Min(S) \in S /\ Verdict!Min(S) \in Int /\ \A x \in S : Verdict!Min(S) <= x
<1> DEFINE S == {f[i] : i \in I}
<1>1. (\E x \in S : \A y \in S : x >= y) /\ (\E x \in S : \A y \in S : x <= y) /\ \A x \in S : x \in Int
  BY Ordered
<1> HIDE DEF S
<1>2. Verdict!Max(S) \in S /\ \A x \in S : Verdict!Max(S) >= x
  BY <1>1 DEF Verdict!Max
<1>3. Verdict!Min(S) \in S /\ \A x \in S : Verdict!Min(S) <= x
  BY <1>1 DEF Verdict!Min
<1>4. Verdict!Max(S) \in Int /\ Verdict!Min(S) \in Int
  BY <1>1, <1>2, <1>3
<1>5. \A x \in S : x <= Verdict!Max(S)
  BY <1>1, <1>2, <1>4
<1>6. QED BY <1>2, <1>3, <1>4, <1>5 DEF S

\* The sets of at most three.
One(A, i) == IF i \in A THEN 1 ELSE 0
Count(A) == One(A, 1) + One(A, 2) + One(A, 3)

LEMMA CountIsSmall == \A A : Count(A) \in 0 .. 3
BY DEF Count, One

LEMMA CountedByHand ==
  ASSUME NEW A \in SUBSET (1 .. 3)
  PROVE  Verdict!Cardinality(A) = Count(A)
<1> DEFINE two == A \intersect {1, 2}
           first == A \intersect {1}
<1>0. \A x \in A : x \in {1, 2, 3}
  OBVIOUS
<1>1. IsFiniteSet(first) /\ Cardinality(first) = One(A, 1)
  <2>1. CASE 1 \in A
    <3>1. first = {1}
      BY <2>1
    <3>2. QED BY <2>1, <3>1, FS_Singleton DEF One
  <2>2. CASE 1 \notin A
    <3>1. first = {}
      BY <2>2
    <3>2. QED BY <2>2, <3>1, FS_EmptySet DEF One
  <2>3. QED BY <2>1, <2>2
<1>2. IsFiniteSet(two) /\ Cardinality(two) = One(A, 1) + One(A, 2)
  <2>1. CASE 2 \in A
    <3>1. two = first \union {2} /\ 2 \notin first
      BY <2>1
    <3> HIDE DEF two, first
    <3>2. IsFiniteSet(two) /\ Cardinality(two) = Cardinality(first) + 1
      BY <1>1, <3>1, FS_AddElement
    <3>3. QED BY <1>1, <2>1, <3>2 DEF One
  <2>2. CASE 2 \notin A
    <3>1. two = first
      BY <2>2
    <3>2. QED BY <1>1, <2>2, <3>1 DEF One
  <2>3. QED BY <2>1, <2>2
<1>3. IsFiniteSet(A) /\ Cardinality(A) = Count(A)
  <2>1. CASE 3 \in A
    <3>0. \A x : x \in A <=> x \in two \/ x = 3
      BY <1>0, <2>1
    <3>1. A = two \union {3} /\ 3 \notin two
      BY <3>0
    <3> HIDE DEF two, first
    <3>2. IsFiniteSet(A) /\ Cardinality(A) = Cardinality(two) + 1
      BY <1>2, <3>1, FS_AddElement
    <3>3. QED BY <1>2, <2>1, <3>2 DEF One, Count
  <2>2. CASE 3 \notin A
    <3>1. two = A
      BY <1>0, <2>2
    <3>2. QED BY <1>2, <2>2, <3>1 DEF One, Count
  <2>3. QED BY <2>1, <2>2
<1>4. QED BY <1>3, SameCount

\* The middle one of at most three scores.
IsMiddle(f, I, v) ==
  /\ Count({i \in I : f[i] < v}) <= (Count(I) - 1) \div 2
  /\ (Count(I) - 1) \div 2 < Count({i \in I : f[i] <= v})

LEMMA MiddleExists ==
  ASSUME NEW f, NEW I \in SUBSET (1 .. 3), I # {}, \A i \in I : f[i] \in Int
  PROVE  \E i \in I : IsMiddle(f, I, f[i])
<1>1. \A i \in I : i \in {1, 2, 3}
  OBVIOUS
<1>2. (3 - 1) \div 2 = 1 /\ (2 - 1) \div 2 = 0 /\ (1 - 1) \div 2 = 0
  OBVIOUS
<1>3. CASE 1 \in I /\ 2 \in I /\ 3 \in I
  <2>1. (Count(I) - 1) \div 2 = 1
    BY <1>2, <1>3 DEF Count, One
  <2>2. CASE IsMiddle(f, I, f[1]) \/ IsMiddle(f, I, f[2]) \/ IsMiddle(f, I, f[3])
    BY <1>3, <2>2
  <2>3. QED BY <1>3, <2>1, <2>2 DEF IsMiddle, Count, One
<1>4. ASSUME NEW i \in I, \A j \in I : f[i] <= f[j], ~(1 \in I /\ 2 \in I /\ 3 \in I)
      PROVE  IsMiddle(f, I, f[i])
  <2>1. (Count(I) - 1) \div 2 = 0
    BY <1>1, <1>2, <1>4 DEF Count, One
  <2>2. Count({j \in I : f[j] < f[i]}) = 0
    BY <1>4 DEF Count, One
  <2>3. Count({j \in I : f[j] <= f[i]}) > 0
    BY <1>1, <1>4 DEF Count, One
  <2>4. QED BY <2>1, <2>2, <2>3 DEF IsMiddle
<1>5. CASE ~(1 \in I /\ 2 \in I /\ 3 \in I)
  <2>1. \E i \in I : \A j \in I : f[i] <= f[j]
    BY Ordered
  <2>2. QED BY <1>4, <1>5, <2>1
<1>6. QED BY <1>3, <1>5

\* It does not lie below two of them, nor above.
LEMMA MiddleIsBetween ==
  ASSUME NEW f, NEW I \in SUBSET (1 .. 3), \A i \in I : f[i] \in Int, NEW v \in Int, IsMiddle(f, I, v),
         NEW p \in I, NEW q \in I, p # q
  PROVE  ~(v < f[p] /\ v < f[q]) /\ ~(f[p] < v /\ f[q] < v)
<1> DEFINE below == {i \in I : f[i] < v}
           upTo == {i \in I : f[i] <= v}
           m == (Count(I) - 1) \div 2
<1>1. Count(below) <= m /\ m < Count(upTo)
  BY DEF IsMiddle
<1>2. Count(I) \in 2 .. 3 /\ Count(I) \in Int
  BY DEF Count, One
<1>3. m \in 0 .. 1 /\ (Count(I) = 2 => m = 0) /\ (Count(I) = 3 => m = 1)
  BY <1>2
<1>4. ASSUME v < f[p] /\ v < f[q] PROVE FALSE
  <2>1. p \notin upTo /\ q \notin upTo /\ upTo \in SUBSET I
    BY <1>4
  <2> HIDE DEF upTo, m
  <2>2. Count(upTo) <= Count(I) - 2
    BY <2>1 DEF Count, One
  <2>3. QED BY <1>1, <1>2, <1>3, <2>2, CountIsSmall
<1>5. ASSUME f[p] < v /\ f[q] < v PROVE FALSE
  <2>1. p \in below /\ q \in below
    BY <1>5
  <2> HIDE DEF below, m
  <2>2. Count(below) >= 2
    BY <2>1 DEF Count, One
  <2>3. QED BY <1>1, <1>3, <2>2, CountIsSmall
<1>6. QED BY <1>4, <1>5
\* A correction that has been limited stays as it is, and nothing of it is lost at full weight.
LEMMA LimitedOnce ==
  ASSUME NEW a \in Int
  PROVE  /\ Verdict!requested(a) \in Int
         /\ Verdict!requested(Verdict!requested(a)) = Verdict!requested(a)
         /\ (Verdict!requested(a) * 100) \div 100 = Verdict!requested(a)
         /\ Verdict!requested(0) = 0
<1>1. Verdict!requested(a) \in Int
  BY DEF Verdict!requested, Verdict!Within, Verdict!ADJUSTMENT_LIMIT
<1>2. Verdict!requested(Verdict!requested(a)) = Verdict!requested(a) /\ Verdict!requested(0) = 0
  BY DEF Verdict!requested, Verdict!Within, Verdict!ADJUSTMENT_LIMIT
<1>3. \A x \in Int : (x * 100) \div 100 = x
  OBVIOUS
<1>4. QED BY <1>1, <1>2, <1>3

\* Every source weighs a whole number.
LEMMA MaterialCounts ==
  ASSUME NEW m \in Materials
  PROVE  Verdict!materialConfidence(m) \in Nat
<1> DEFINE company == CASE m.company = "dossier" -> 20 [] m.company = "insights" -> 10 [] OTHER -> 0
           perplexity == Verdict!reportShare(m.perplexity)
           deep == Verdict!reportShare(m.deep)
<1>1. company \in Int
  OBVIOUS
<1>2. ASSUME NEW n \in Int PROVE Verdict!reportShare(n) \in Int
  <2>1. (100 * n) \div 6 \in Int
    OBVIOUS
  <2>2. Verdict!Within(0, 100, (100 * n) \div 6) \in Int
    BY <2>1 DEF Verdict!Within
  <2>3. QED BY <2>2 DEF Verdict!reportShare, Verdict!None, Verdict!Prose
<1>3. perplexity \in Int /\ deep \in Int
  BY <1>2, VerdictAssumption
<1> HIDE DEF company, perplexity, deep
<1>4. (60 * perplexity) \div 100 \in Int /\ (30 * deep) \div 100 \in Int
  BY <1>3
<1>5. Verdict!sourceWeight(m) \in Int
  BY <1>1, <1>4 DEF Verdict!sourceWeight, company, perplexity, deep
<1>6. Verdict!recencyFactor(m.age) \in Nat
  BY DEF Verdict!recencyFactor, Verdict!Undated
<1>7. Verdict!Within(0, 100, Verdict!sourceWeight(m)) \in Nat
  BY <1>5 DEF Verdict!Within
<1>8. \A x, y \in Nat : (x * y) \div 100 \in Nat
  OBVIOUS
<1>9. QED BY <1>6, <1>7, <1>8 DEF Verdict!materialConfidence

LEMMA ReadsScore ==
  ASSUME ReadsAreTyped, NEW i \in Verdict!Samples
  PROVE  Verdict!narrativeScoreFrom(reads[i]) \in Int
<1>1. reads[i] \in Reads \/ reads[i] \in {Verdict!Failed, Verdict!Due}
  BY DEF ReadsAreTyped
<1>2. ASSUME reads[i] \in {Verdict!Failed, Verdict!Due} PROVE Verdict!narrativeScoreFrom(reads[i]) \in Int
  <2>1. Len(reads[i]) = 1
    BY <1>2 DEF Verdict!Failed, Verdict!Due
  <2>2. Verdict!narrativeScoreFrom(reads[i]) = -1
    BY <2>1 DEF Verdict!narrativeScoreFrom, Verdict!Abstains
  <2>3. QED BY <2>2
<1>3. QED BY <1>1, <1>2, VerdictAssumption

LEMMA ConfidenceCounts ==
  ASSUME ReadsAreTyped
  PROVE  Verdict!confidenceFactor(reads) \in Nat
<1> DEFINE I == Verdict!scoring(reads)
           f == [i \in 1 .. 3 |-> Verdict!narrativeScoreFrom(reads[i])]
<1>1. I \in SUBSET (1 .. 3)
  BY DEF Verdict!scoring, Verdict!Answered, ReadsAreTyped, Verdict!Samples
<1>2. \A i \in I : f[i] \in Int
  BY <1>1, ReadsScore DEF Verdict!Samples
<1>3. Verdict!ScoresOf(reads) = {f[i] : i \in I}
  BY <1>1 DEF Verdict!ScoresOf
<1>4. CASE I = {}
  <2>1. Verdict!Cardinality(I) = 0
    BY <1>4, FS_EmptySet DEF Verdict!Cardinality, Cardinality
  <2>2. QED BY <2>1 DEF Verdict!confidenceFactor
<1>5. CASE I # {}
  <2> DEFINE S == Verdict!ScoresOf(reads)
             spread == Verdict!Within(0, 30, Verdict!Max(S) - Verdict!Min(S))
  <2> HIDE DEF I, f
  <2>1. Verdict!Max(S) \in Int /\ Verdict!Min(S) \in Int
    BY <1>1, <1>2, <1>3, <1>5, Extremes
  <2>2. spread \in 0 .. 30
    BY <2>1 DEF Verdict!Within
  <2> HIDE DEF spread
  <2>3. 100 - (100 * spread) \div 60 \in Nat
    BY <2>2
  <2>4. QED BY <2>3 DEF Verdict!confidenceFactor, spread
<1>6. QED BY <1>4, <1>5

\* The median is the middle one of the scores.
ScoreOfRead == [i \in 1 .. 3 |-> Verdict!narrativeScoreFrom(reads[i])]

LEMMA MedianIsMiddle ==
  ASSUME ReadsAreTyped, Verdict!scoring(reads) # {}
  PROVE  /\ Verdict!medianScore(reads) \in Int
         /\ IsMiddle(ScoreOfRead, Verdict!scoring(reads), Verdict!medianScore(reads))
<1> DEFINE I == Verdict!scoring(reads)
           f == ScoreOfRead
           S == Verdict!ScoresOf(reads)
           P(v) == /\ Verdict!Cardinality({i \in I : Verdict!narrativeScoreFrom(reads[i]) < v}) <= (Verdict!Cardinality(I) - 1) \div 2
                   /\ (Verdict!Cardinality(I) - 1) \div 2 < Verdict!Cardinality({i \in I : Verdict!narrativeScoreFrom(reads[i]) <= v})
<1>1. I \in SUBSET (1 .. 3)
  BY DEF Verdict!scoring, Verdict!Answered, ReadsAreTyped, Verdict!Samples
<1>2. \A i \in I : f[i] \in Int /\ f[i] = Verdict!narrativeScoreFrom(reads[i])
  BY <1>1, ReadsScore DEF Verdict!Samples, ScoreOfRead
<1>3. S = {f[i] : i \in I}
  BY <1>1, <1>2 DEF Verdict!ScoresOf
<1>4. Verdict!medianScore(reads) = CHOOSE v \in S : P(v)
  BY DEF Verdict!medianScore
<1>5. ASSUME NEW v PROVE P(v) <=> IsMiddle(f, I, v)
  <2> HIDE DEF I, f
  <2>1. /\ {i \in I : Verdict!narrativeScoreFrom(reads[i]) < v} = {i \in I : f[i] < v}
        /\ {i \in I : Verdict!narrativeScoreFrom(reads[i]) <= v} = {i \in I : f[i] <= v}
    BY <1>2
  <2>2. /\ {i \in I : f[i] < v} \in SUBSET (1 .. 3)
        /\ {i \in I : f[i] <= v} \in SUBSET (1 .. 3)
    BY <1>1
  <2>3. QED BY <1>1, <2>1, <2>2, CountedByHand DEF IsMiddle
<1> HIDE DEF I, f, S, P
<1>6. \E i \in I : IsMiddle(f, I, f[i])
  BY <1>1, <1>2, MiddleExists DEF I
<1>7. \E v \in S : P(v)
  BY <1>3, <1>5, <1>6
<1>8. Verdict!medianScore(reads) \in S /\ P(Verdict!medianScore(reads))
  BY <1>4, <1>7
<1>9. QED BY <1>2, <1>3, <1>5, <1>8 DEF f, I

LEMMA NarrativeCounts ==
  ASSUME ReadsAreTyped
  PROVE  /\ Verdict!Narrative.score \in Int /\ Verdict!Narrative.confidence \in Nat
         /\ Verdict!Narrative.read \in BOOLEAN
<1>1. CASE Verdict!materialEmpty(material) \/ Verdict!Answered(reads) = {}
  BY <1>1 DEF Verdict!Narrative, Verdict!NoNarrative, Verdict!Abstains
<1>2. CASE ~(Verdict!materialEmpty(material) \/ Verdict!Answered(reads) = {})
  <2> DEFINE c == (Verdict!materialConfidence(material) * Verdict!confidenceFactor(reads)) \div 100
  <2>1. Verdict!Narrative = [read |-> TRUE, score |-> Verdict!combineNarrativeReads(reads), confidence |-> c]
    BY <1>2 DEF Verdict!Narrative
  <2>2. c \in Nat
    <3>1. \A x, y \in Nat : (x * y) \div 100 \in Nat
      OBVIOUS
    <3>2. Verdict!materialConfidence(material) \in Nat
      BY MaterialCounts DEF ReadsAreTyped
    <3>3. QED BY <3>1, <3>2, ConfidenceCounts
  <2> HIDE DEF c
  <2>3. Verdict!combineNarrativeReads(reads) \in Int
    <3>1. CASE Verdict!MostAbstain(reads)
      BY <3>1 DEF Verdict!combineNarrativeReads, Verdict!Abstains
    <3>2. CASE ~Verdict!MostAbstain(reads)
      <4>1. Verdict!Answered(reads) \in SUBSET (1 .. 3) /\ Verdict!scoring(reads) \in SUBSET (1 .. 3)
        BY DEF Verdict!scoring, Verdict!Answered, ReadsAreTyped, Verdict!Samples
      <4>2. Verdict!scoring(reads) # {}
        <5>1. SUFFICES ASSUME Verdict!scoring(reads) = {} PROVE Verdict!MostAbstain(reads)
          BY <3>2
        <5>2. Verdict!Cardinality(Verdict!scoring(reads)) = 0 /\ Verdict!Cardinality(Verdict!Answered(reads)) \in 0 .. 3
          BY <4>1, <5>1, CountedByHand, CountIsSmall DEF Count, One
        <5>3. QED BY <1>2, <5>1, <5>2 DEF Verdict!MostAbstain
      <4>3. QED BY <3>2, <4>2, MedianIsMiddle DEF Verdict!combineNarrativeReads
    <3>3. QED BY <3>1, <3>2
  <2>4. QED BY <2>1, <2>2, <2>3
<1>3. QED BY <1>1, <1>2

\* What the analysis made of the reads is what a look within the week makes of its card.
LEMMA FreshIsWhole ==
  ASSUME ReadsAreTyped, NEW a \in Int, NEW f, NEW c,
         c = [narrative |-> Verdict!Narrative, requested |-> Verdict!requested(a)],
         c.narrative.read \/ c.requested = 0
  PROVE  Verdict!rescore(f, c, 0) =
           Verdict!blendScores(f, Verdict!Narrative.score, Verdict!Narrative.confidence, a)
<1> DEFINE n == Verdict!Narrative
           q == Verdict!requested(a)
<1>1. /\ q \in Int /\ Verdict!requested(q) = q /\ (q * 100) \div 100 = q /\ Verdict!requested(0) = 0
  BY LimitedOnce
<1>2. n.confidence \in Int
  <2>1. CASE n = Verdict!NoNarrative
    BY <2>1 DEF Verdict!NoNarrative
  <2>2. CASE n.confidence = (Verdict!materialConfidence(material) * Verdict!confidenceFactor(reads)) \div 100
    <3>1. Verdict!materialConfidence(material) \in Int
      BY MaterialCounts DEF ReadsAreTyped
    <3>2. \A x, y \in Int : (x * y) \div 100 \in Int
      OBVIOUS
    <3>3. QED BY <2>2, <3>1, <3>2, ConfidenceCounts
  <2>3. QED BY <2>1, <2>2 DEF Verdict!Narrative
<1>3. n.read \/ (n.confidence = 0 /\ n.read = FALSE)
  BY DEF Verdict!Narrative, Verdict!NoNarrative
<1>4. c.narrative = n /\ c.requested = q
  OBVIOUS
<1>5. Verdict!recencyFactor(0) = 100
  BY DEF Verdict!recencyFactor, Verdict!Undated
<1> HIDE DEF n, q
<1>6. CASE n.read
  <2>1. Verdict!decay(c, 0) = 100
    BY <1>4, <1>5, <1>6 DEF Verdict!decay
  <2>2. (n.confidence * 100) \div 100 = n.confidence
    BY <1>2
  <2>3. Verdict!rescore(f, c, 0) = Verdict!blendScores(f, n.score, n.confidence, q)
    BY <1>1, <1>4, <2>1, <2>2 DEF Verdict!rescore
  <2>4. Verdict!blendScores(f, n.score, n.confidence, q) = Verdict!blendScores(f, n.score, n.confidence, a)
    BY <1>1 DEF Verdict!blendScores, q
  <2>5. QED BY <2>3, <2>4 DEF n
<1>7. CASE ~n.read
  <2>1. Verdict!decay(c, 0) = 0 /\ n.confidence = 0 /\ q = 0
    BY <1>3, <1>4, <1>7 DEF Verdict!decay
  <2>2. (0 * 0) \div 100 = 0
    OBVIOUS
  <2>3. Verdict!rescore(f, c, 0) = Verdict!blendScores(f, n.score, n.confidence, 0)
    BY <1>4, <2>1, <2>2 DEF Verdict!rescore
  <2>4. Verdict!blendScores(f, n.score, n.confidence, 0) = Verdict!blendScores(f, n.score, n.confidence, a)
    BY <1>1, <2>1 DEF Verdict!blendScores, q
  <2>5. QED BY <2>3, <2>4 DEF n
<1>8. QED BY <1>6, <1>7

LEMMA VerdictBegins == Verdict!Init => VerdictInv
BY DEF Verdict!Init, VerdictInv, ReadsAreTyped, ShownIsByAge

LEMMA VerdictStep == VerdictInv /\ [Verdict!Next]_(Verdict!vars) => VerdictInv'
<1> SUFFICES ASSUME VerdictInv, [Verdict!Next]_(Verdict!vars) PROVE VerdictInv'
  OBVIOUS
<1>0. ReadsAreTyped /\ ShownIsByAge
  BY DEF VerdictInv
<1>1. ASSUME NEW i \in Verdict!Samples, Verdict!Read(i) PROVE VerdictInv'
  <2>1. PICK r \in Reads \union {Verdict!Failed} : reads' = [reads EXCEPT ![i] = r]
    BY <1>1 DEF Verdict!Read
  <2>2. reads' \in [Verdict!Samples -> Reads \union {Verdict!Failed, Verdict!Due}]
    BY <1>0, <2>1 DEF ReadsAreTyped
  <2>3. QED
    BY <1>0, <1>1, <2>2 DEF VerdictInv, ReadsAreTyped, ShownIsByAge, Verdict!Read, Verdict!rescore, Verdict!decay
<1>2. ASSUME Verdict!Synthesise PROVE VerdictInv'
  <2>1. PICK a \in Adjustments \union {0} :
           /\ shown' = Verdict!blendScores(payload, Verdict!Narrative.score, Verdict!Narrative.confidence, a)
           /\ card' = [narrative |-> Verdict!Narrative, requested |-> Verdict!requested(a)]
    BY <1>2 DEF Verdict!Synthesise, Verdict!blendScores
  <2>2. a \in Int
    <3>1. \A b \in Adjustments \union {0} : b \in Int
      BY VerdictAssumption
    <3>2. QED BY <2>1, <3>1
  <2>3. ReadsAreTyped'
    BY <1>0, <1>2 DEF Verdict!Synthesise, ReadsAreTyped
  <2>4. payload' = payload /\ ageDays' = 0 /\ stage' = "stored"
    BY <1>2 DEF VerdictInv, Verdict!Synthesise
  <2>5. card'.narrative.read \/ card'.requested = 0 => shown' = Verdict!rescore(payload, card', 0)
    BY <1>0, <2>1, <2>2, FreshIsWhole
  <2>6. card'.requested = Verdict!requested(a) /\ card'.narrative.read \in BOOLEAN
    BY <2>1 DEF Verdict!Narrative, Verdict!NoNarrative
  <2>7. ShownIsByAge'
    BY <2>4, <2>5 DEF ShownIsByAge, Verdict!rescore, Verdict!decay, Verdict!recencyFactor
  <2>8. QED BY <2>3, <2>4, <2>7 DEF VerdictInv
<1>3. ASSUME Verdict!Carry PROVE VerdictInv'
  <2>1. PICK f, age : /\ payload' = f /\ ageDays' = age
                      /\ shown' = Verdict!rescore(f, card, age)
    BY <1>3 DEF Verdict!Carry, Verdict!latestScoreCard
  <2>2. stage = "stored" /\ UNCHANGED <<material, reads, stage, card>>
    BY <1>3 DEF Verdict!Carry
  <2>3. shown' = Verdict!rescore(payload, card, ageDays)'
    BY <2>1, <2>2
  <2>4. QED BY <1>0, <2>2, <2>3 DEF VerdictInv, ReadsAreTyped, ShownIsByAge
<1>4. CASE UNCHANGED Verdict!vars
  BY <1>0, <1>4 DEF VerdictInv, ReadsAreTyped, ShownIsByAge, Verdict!vars
<1>5. QED BY <1>1, <1>2, <1>3, <1>4 DEF Verdict!Next

\* The verdict between two analyses: the same data at the same age give the same headline, and
\* within the week the one the analysis told, but for a correction without a narrative.
THEOREM VerdictCarried == Verdict!Spec => CarryIsByAge
<1>1. VerdictInv /\ [Verdict!Next]_(Verdict!vars) =>
        [stage = "stored" /\ payload' = payload /\ Verdict!recencyFactor(ageDays') = Verdict!recencyFactor(ageDays)
           => \/ shown' = shown
              \/ ~card.narrative.read /\ card.requested # 0]_(Verdict!vars)
  <2> SUFFICES ASSUME VerdictInv, Verdict!Next, stage = "stored", payload' = payload,
                      Verdict!recencyFactor(ageDays') = Verdict!recencyFactor(ageDays)
               PROVE  shown' = shown \/ (~card.narrative.read /\ card.requested # 0)
    OBVIOUS
  <2>1. Verdict!Carry
    BY DEF Verdict!Next, Verdict!Read, Verdict!Synthesise
  <2>2. PICK f, age : /\ payload' = f /\ ageDays' = age
                      /\ shown' = Verdict!rescore(f, card, age)
    BY <2>1 DEF Verdict!Carry, Verdict!latestScoreCard
  <2>3. shown' = Verdict!rescore(payload, card, ageDays)
    BY <2>2 DEF Verdict!rescore, Verdict!decay
  <2>4. QED BY <2>3 DEF VerdictInv, ShownIsByAge
<1>2. QED BY <1>1, VerdictBegins, VerdictStep, PTL DEF Verdict!Spec, CarryIsByAge, Verdict!CarryIsByAge

\* What is shown is a blend of the payload, and the card is of the reads; where there is nothing
\* to read, nothing was.
VoicesInv ==
  /\ payload \in Payloads
  /\ card.narrative.score \in Int /\ card.narrative.confidence \in Nat /\ card.requested \in Int
  /\ Verdict!materialEmpty(material) => \A i \in Verdict!Samples : reads[i] = Verdict!Due
  /\ stage = "stored" =>
       /\ card.narrative = Verdict!Narrative
       /\ \E x \in Int, n \in Nat, a \in Int : shown = Verdict!blendScores(payload, x, n, a)

LEMMA VoicesBegin == Verdict!Init => VoicesInv
BY DEF Verdict!Init, VoicesInv, Verdict!NoCard, Verdict!NoNarrative, Verdict!Abstains

LEMMA VoicesStep == VerdictInv /\ VoicesInv /\ [Verdict!Next]_(Verdict!vars) => VoicesInv'
<1> SUFFICES ASSUME VerdictInv, VoicesInv, [Verdict!Next]_(Verdict!vars) PROVE VoicesInv'
  OBVIOUS
<1>0. ReadsAreTyped
  BY DEF VerdictInv
<1>1. ASSUME NEW i \in Verdict!Samples, Verdict!Read(i) PROVE VoicesInv'
  <2>1. ~Verdict!materialEmpty(material) /\ stage = "reads" /\ UNCHANGED <<payload, material, stage, card>>
    BY <1>1 DEF Verdict!Read
  <2>2. ~Verdict!materialEmpty(material')
    BY <2>1
  <2>3. QED BY <2>1, <2>2 DEF VoicesInv
<1>2. ASSUME Verdict!Synthesise PROVE VoicesInv'
  <2> DEFINE x == Verdict!Narrative.score
             n == Verdict!Narrative.confidence
  <2>1. PICK a \in Adjustments \union {0} :
           /\ shown' = Verdict!blendScores(payload, x, n, a)
           /\ card' = [narrative |-> Verdict!Narrative, requested |-> Verdict!requested(a)]
    BY <1>2 DEF Verdict!Synthesise, Verdict!blendScores
  <2>2. a \in Int /\ x \in Int /\ n \in Nat /\ Verdict!requested(a) \in Int
    <3> HIDE DEF x, n
    <3>1. \A b \in Adjustments \union {0} : b \in Int
      BY VerdictAssumption
    <3>2. a \in Int
      BY <3>1
    <3>3. QED BY <1>0, <3>2, NarrativeCounts, LimitedOnce DEF x, n
  <2>3. UNCHANGED <<payload, material, reads>>
    BY <1>2 DEF Verdict!Synthesise
  <2>4. Verdict!Narrative' = Verdict!Narrative /\ Verdict!materialEmpty(material') = Verdict!materialEmpty(material)
    BY <2>3 DEF Verdict!Narrative
  <2>5. \E y \in Int, m \in Nat, b \in Int : shown' = Verdict!blendScores(payload', y, m, b)
    <3> HIDE DEF x, n
    <3>1. shown' = Verdict!blendScores(payload', x, n, a)
      BY <2>1, <2>3
    <3>2. QED BY <2>2, <3>1
  <2>6. card'.narrative = Verdict!Narrative' /\ card'.requested = Verdict!requested(a)
    BY <2>1, <2>4
  <2>7. QED BY <2>2, <2>3, <2>4, <2>5, <2>6 DEF VoicesInv
<1>3. ASSUME Verdict!Carry PROVE VoicesInv'
  <2>1. PICK f \in Payloads, age \in CardAges : /\ payload' = f /\ ageDays' = age
                                            /\ shown' = Verdict!rescore(f, card, age)
    BY <1>3 DEF Verdict!Carry, Verdict!latestScoreCard
  <2>2. stage = "stored" /\ UNCHANGED <<material, reads, stage, card>>
    BY <1>3 DEF Verdict!Carry
  <2> DEFINE decay == Verdict!decay(card, age)
             n == (card.narrative.confidence * decay) \div 100
             a == (card.requested * decay) \div 100
  <2>3. decay \in Nat
    BY DEF Verdict!decay, Verdict!recencyFactor, Verdict!Undated
  <2>4. n \in Nat /\ a \in Int
    <3>1. \A y, z \in Nat : (y * z) \div 100 \in Nat
      OBVIOUS
    <3>2. \A y, z \in Int : (y * z) \div 100 \in Int
      OBVIOUS
    <3> HIDE DEF decay
    <3>3. QED BY <2>3, <3>1, <3>2 DEF VoicesInv
  <2>5. shown' = Verdict!blendScores(payload', card.narrative.score, n, a)
    BY <2>1 DEF Verdict!rescore
  <2> HIDE DEF n, a
  <2>6. \E y \in Int, m \in Nat, b \in Int : shown' = Verdict!blendScores(payload', y, m, b)
    BY <2>4, <2>5 DEF VoicesInv
  <2>7. Verdict!Narrative' = Verdict!Narrative /\ Verdict!materialEmpty(material') = Verdict!materialEmpty(material)
    BY <2>2 DEF Verdict!Narrative
  <2>8. QED BY <2>1, <2>2, <2>6, <2>7 DEF VoicesInv
<1>4. CASE UNCHANGED Verdict!vars
  <2>1. UNCHANGED <<payload, material, reads, stage, card, shown>>
    BY <1>4 DEF Verdict!vars
  <2>2. Verdict!Narrative' = Verdict!Narrative /\ Verdict!materialEmpty(material') = Verdict!materialEmpty(material)
    BY <2>1 DEF Verdict!Narrative
  <2>3. QED BY <2>1, <2>2 DEF VoicesInv
<1>5. QED BY <1>1, <1>2, <1>3, <1>4 DEF Verdict!Next

\* A blend decides by its own band and the next at most, and keeps the caps.
LEMMA BlendKeepsTheCaps ==
  ASSUME NEW f \in Payloads, NEW x \in Int, NEW n \in Nat, NEW a \in Int
  PROVE  LET moved == Verdict!blendScores(f, x, n, a)
         IN /\ Verdict!Abs(Verdict!verdictForScore(moved.score) - Verdict!verdictForScore(Verdict!published(moved.blend))) <= 1
            /\ "hold-ceiling" \in Verdict!capsOf(f) => moved.verdict <= 2
            /\ "no-strong" \in Verdict!capsOf(f) => moved.verdict \in 1 .. 3
<1> DEFINE b == Verdict!blend(f, x, n)
           q == Verdict!requested(a)
           final == Verdict!published(500 + Verdict!saturate(Verdict!unsaturate(b - 500) + q))
           moved == Verdict!blendScores(f, x, n, a)
<1>1. b \in Int /\ q \in Int /\ -100 <= q /\ q <= 100
  BY BlendCounts DEF Verdict!requested, Verdict!Within, Verdict!ADJUSTMENT_LIMIT
<1>2. moved.blend = b /\ moved.score = final /\ moved.verdict = Verdict!capVerdict(Verdict!verdictForScore(final), Verdict!capsOf(f))
  BY DEF Verdict!blendScores
<1>3. final \in Int
  <2>1. Verdict!unsaturate(b - 500) + q \in Int
    BY <1>1, UnsaturateIs
  <2>2. 500 + Verdict!saturate(Verdict!unsaturate(b - 500) + q) \in Int
    BY <2>1, SaturateIs
  <2>3. QED BY <2>2 DEF Verdict!published, Verdict!Within
<1> HIDE DEF b, q, moved
<1>4. Verdict!Abs(Verdict!verdictForScore(final) - Verdict!verdictForScore(Verdict!published(b))) <= 1
  BY <1>1, OneBandAtMost
<1> HIDE DEF final
<1>5. Verdict!verdictForScore(final) \in 0 .. 4
  BY <1>3, BandsCounted
<1>6. /\ "hold-ceiling" \in Verdict!capsOf(f) => moved.verdict <= 2
      /\ "no-strong" \in Verdict!capsOf(f) => moved.verdict \in 1 .. 3
  BY <1>2, <1>5 DEF Verdict!capVerdict, Verdict!Within
<1>7. QED BY <1>2, <1>4, <1>6 DEF moved

\* Among the reads a narrative is of the middle: between any two of three that score.
LEMMA MedianIsBetween ==
  ASSUME VerdictInv, VoicesInv, stage = "stored", NEW i \in Verdict!Samples,
         Verdict!Cardinality(Verdict!scoring(reads) \ {i}) = 2
  PROVE  LET others == {Verdict!narrativeScoreFrom(reads[j]) : j \in Verdict!scoring(reads) \ {i}}
         IN Verdict!Min(others) <= card.narrative.score /\ card.narrative.score <= Verdict!Max(others)
<1> DEFINE I == Verdict!scoring(reads)
           J == I \ {i}
           f == ScoreOfRead
           others == {Verdict!narrativeScoreFrom(reads[j]) : j \in J}
           v == Verdict!medianScore(reads)
<1>0. ReadsAreTyped /\ card.narrative = Verdict!Narrative
  BY DEF VerdictInv, VoicesInv
<1>1. I \in SUBSET (1 .. 3) /\ Verdict!Answered(reads) \in SUBSET (1 .. 3) /\ I \subseteq Verdict!Answered(reads)
  BY <1>0 DEF Verdict!scoring, Verdict!Answered, ReadsAreTyped, Verdict!Samples
<1>2. \A j \in I : f[j] \in Int /\ f[j] = Verdict!narrativeScoreFrom(reads[j])
  BY <1>0, <1>1, ReadsScore DEF Verdict!Samples, ScoreOfRead
<1>3. J \in SUBSET (1 .. 3) /\ Count(J) = 2 /\ J \subseteq I
  <2>1. J \in SUBSET (1 .. 3)
    BY <1>1
  <2>2. QED BY <2>1, CountedByHand
<1>4. others = {f[j] : j \in J}
  BY <1>2, <1>3
<1> HIDE DEF I, f
<1>5. PICK p \in J, q \in J : p # q
  <2> HIDE DEF J
  <2>1. (1 \in J /\ 2 \in J) \/ (1 \in J /\ 3 \in J) \/ (2 \in J /\ 3 \in J)
    BY <1>3 DEF Count, One
  <2>2. QED BY <2>1
<1> HIDE DEF J
<1>6. Verdict!materialEmpty(material) = FALSE
  <2> SUFFICES ASSUME Verdict!materialEmpty(material) PROVE FALSE
    BY DEF Verdict!materialEmpty
  <2>1. p \in Verdict!Samples /\ reads[p] = <<4>>
    BY <1>3 DEF VoicesInv, Verdict!Samples, Verdict!Due
  <2>2. Verdict!narrativeScoreFrom(reads[p]) = Verdict!Abstains
    BY <2>1 DEF Verdict!narrativeScoreFrom
  <2>3. QED BY <1>3, <2>2 DEF I, Verdict!scoring
<1>7. ~Verdict!MostAbstain(reads)
  <2>1. Count(I) >= 2
    BY <1>1, <1>3, <1>5 DEF Count, One
  <2>2. Verdict!Cardinality(I) >= 2 /\ Verdict!Cardinality(I) \in Int /\ Verdict!Cardinality(Verdict!Answered(reads)) \in 0 .. 3
    BY <1>1, <2>1, CountedByHand, CountIsSmall
  <2>3. QED BY <2>2 DEF Verdict!MostAbstain, I
<1>8. card.narrative.score = v
  <2>1. Verdict!Answered(reads) # {}
    BY <1>1, <1>3
  <2>2. QED BY <1>0, <1>6, <1>7, <2>1 DEF Verdict!Narrative, Verdict!combineNarrativeReads
<1>9. v \in Int /\ IsMiddle(f, I, v)
  BY <1>0, <1>3, MedianIsMiddle DEF I, f
<1> HIDE DEF v
<1>10. ~(v < f[p] /\ v < f[q]) /\ ~(f[p] < v /\ f[q] < v)
  BY <1>1, <1>2, <1>3, <1>5, <1>9, MiddleIsBetween
<1>11. /\ Verdict!Max(others) \in Int /\ \A x \in others : x <= Verdict!Max(others)
       /\ Verdict!Min(others) \in Int /\ \A x \in others : Verdict!Min(others) <= x
  <2>1. J # {} /\ \A j \in J : f[j] \in Int
    BY <1>2, <1>3
  <2>2. LET S == {f[j] : j \in J}
        IN /\ Verdict!Max(S) \in S /\ Verdict!Max(S) \in Int /\ \A x \in S : x <= Verdict!Max(S)
           /\ Verdict!Min(S) \in S /\ Verdict!Min(S) \in Int /\ \A x \in S : Verdict!Min(S) <= x
    <3> HIDE DEF others
    <3>1. QED BY <1>3, <2>1, Extremes
  <2>3. QED BY <1>4, <2>2
<1>12. f[p] \in others /\ f[q] \in others /\ f[p] \in Int /\ f[q] \in Int
  BY <1>2, <1>3, <1>4
<1> HIDE DEF others
<1>13. Verdict!Min(others) <= v /\ v <= Verdict!Max(others)
  BY <1>9, <1>10, <1>11, <1>12
<1>14. QED BY <1>8, <1>13 DEF others, J, I

\* One read that scores is outvoted by two that abstain.
LEMMA AbstentionIsAVote ==
  ASSUME VerdictInv, VoicesInv, stage = "stored",
         Verdict!Cardinality(Verdict!Answered(reads)) = 3, Verdict!Cardinality(Verdict!scoring(reads)) = 1
  PROVE  card.narrative.score = Verdict!Abstains
<1>1. Verdict!MostAbstain(reads)
  BY DEF Verdict!MostAbstain
<1>2. card.narrative = Verdict!Narrative
  BY DEF VoicesInv
<1>3. QED BY <1>1, <1>2 DEF Verdict!Narrative, Verdict!NoNarrative, Verdict!combineNarrativeReads

\* The verdict of one analysis: the synthesis moves it by one band at most, the narrative is of
\* the middle of its reads, and nobody talks past the caps.
THEOREM VoicesBalanced == Verdict!Spec => []NoSingleVoiceDecides
<1>1. VerdictInv /\ VoicesInv => NoSingleVoiceDecides
  <2> SUFFICES ASSUME VerdictInv, VoicesInv, stage = "stored" PROVE NoSingleVoiceDecides
    BY DEF NoSingleVoiceDecides, Verdict!NoSingleVoiceDecides
  <2>1. PICK x \in Int, n \in Nat, a \in Int : shown = Verdict!blendScores(payload, x, n, a)
    BY DEF VoicesInv
  <2>2. payload \in Payloads
    BY DEF VoicesInv
  <2>3. /\ Verdict!Abs(Verdict!verdictForScore(shown.score) - Verdict!verdictForScore(Verdict!published(shown.blend))) <= 1
        /\ "hold-ceiling" \in Verdict!capsOf(payload) => shown.verdict <= 2
        /\ "no-strong" \in Verdict!capsOf(payload) => shown.verdict \in 1 .. 3
    BY <2>1, <2>2, BlendKeepsTheCaps
  <2>4. QED BY <2>3, MedianIsBetween, AbstentionIsAVote DEF NoSingleVoiceDecides, Verdict!NoSingleVoiceDecides
<1>2. QED BY <1>1, VerdictBegins, VerdictStep, VoicesBegin, VoicesStep, PTL DEF Verdict!Spec

-----------------------------------------------------------------------------
(* Positions and decisions: what is told of a whole list. *)

\* A list of steps has a course: what is there after each beginning of it.
Runs(X, start, N, F) == {f \in [0 .. N -> X] : f[0] = start /\ \A n \in 1 .. N : f[n] = F[n][f[n - 1]]}

LEMMA StepsHaveACourse ==
  ASSUME NEW X, NEW start \in X, NEW N \in Nat, NEW F \in [1 .. N -> [X -> X]]
  PROVE  Runs(X, start, N, F) # {}
<1> DEFINE Good == {m \in 0 .. N : Runs(X, start, m, F) # {}}
<1>1. 0 \in Good
  <2>1. [k \in 0 .. 0 |-> start] \in Runs(X, start, 0, F)
    BY DEF Runs
  <2>2. QED BY <2>1
<1>2. ASSUME NEW m \in 1 .. N, m - 1 \in Good PROVE m \in Good
  <2>1. PICK f : f \in Runs(X, start, m - 1, F)
    BY <1>2
  <2>2. f \in [0 .. m - 1 -> X] /\ f[0] = start /\ \A n \in 1 .. m - 1 : f[n] = F[n][f[n - 1]]
    BY <2>1 DEF Runs
  <2> DEFINE g == [k \in 0 .. m |-> IF k = m THEN F[m][f[m - 1]] ELSE f[k]]
  <2>3. F[m][f[m - 1]] \in X
    BY <2>2
  <2>4. /\ \A k \in 0 .. m : k # m => k \in 0 .. m - 1
        /\ \A k \in 1 .. m : k - 1 \in 0 .. m /\ k - 1 # m /\ (k # m => k \in 1 .. m - 1)
        /\ 0 \in 0 .. m /\ 0 # m
    OBVIOUS
  <2>5. g \in [0 .. m -> X]
    BY <2>2, <2>3, <2>4
  <2>6. g[0] = start /\ \A n \in 1 .. m : g[n] = F[n][g[n - 1]]
    <3>1. g[0] = start
      BY <2>2, <2>4
    <3>2. ASSUME NEW n \in 1 .. m PROVE g[n] = F[n][g[n - 1]]
      <4>1. g[n - 1] = f[n - 1] /\ n \in 0 .. m
        BY <2>4
      <4>2. CASE n = m
        BY <4>1, <4>2
      <4>3. CASE n # m
        <5>1. g[n] = f[n] /\ n \in 1 .. m - 1
          BY <2>4, <4>1, <4>3
        <5> HIDE DEF g
        <5>2. QED BY <2>2, <4>1, <5>1
      <4>4. QED BY <4>2, <4>3
    <3>3. QED BY <3>1, <3>2
  <2>7. g \in Runs(X, start, m, F)
    BY <2>5, <2>6 DEF Runs
  <2>8. QED BY <2>7
<1> HIDE DEF Good
<1>3. 0 .. N \subseteq Good
  BY <1>1, <1>2, NoFirstException
<1>4. N \in Good
  BY <1>3
<1>5. QED BY <1>4 DEF Good
-----------------------------------------------------------------------------
(* The positions and the decisions: what is computed of the books. *)

TradeRecs == [kind : STRING, quantity : Nat, price : Nat, euro : BOOLEAN]

PositionRecs == [quantity : Nat, cost : Nat, per : Nat \ {0}, euro : BOOLEAN, opened : Nat, decided : BOOLEAN]

\* After each of the first trades.
Course(trades, m, f) ==
  f = [n \in 0 .. m |-> IF n = 0 THEN Copy!Flat ELSE Copy!AfterTrade(f[n - 1], trades[n], n)]

\* What a trade makes of a position: it is opened anew where nothing was held.
LEMMA TradeIs ==
  ASSUME NEW b \in PositionRecs, NEW t \in TradeRecs, NEW n \in Nat \ {0}
  PROVE  LET p == Copy!AfterTrade(b, t, n)
             sold == Copy!Lower(t.quantity, b.quantity)
         IN /\ p \in PositionRecs
            /\ t.kind # "sell" /\ b.quantity = 0 =>
                  /\ p.quantity = t.quantity /\ p.cost = t.quantity * t.price /\ p.per = 1
                  /\ p.euro = t.euro /\ p.opened = n
            /\ t.kind # "sell" /\ b.quantity # 0 =>
                  /\ p.quantity = b.quantity + t.quantity /\ p.cost = b.cost + t.quantity * t.price * b.per
                  /\ p.per = b.per /\ p.euro = (b.euro /\ t.euro) /\ p.opened = b.opened
            /\ t.kind = "sell" /\ b.quantity = 0 => p.quantity = 0
            /\ t.kind = "sell" /\ b.quantity # 0 =>
                  /\ p.quantity = b.quantity - sold /\ p.cost = b.cost * (b.quantity - sold)
                  /\ p.per = b.per * b.quantity /\ p.euro = b.euro /\ p.opened = b.opened
<1> DEFINE p == Copy!AfterTrade(b, t, n)
           sold == Copy!Lower(t.quantity, b.quantity)
<1>1. /\ b.quantity \in Nat /\ b.cost \in Nat /\ b.per \in Nat \ {0} /\ b.euro \in BOOLEAN
      /\ b.opened \in Nat /\ b.decided \in BOOLEAN
      /\ t.quantity \in Nat /\ t.price \in Nat /\ t.euro \in BOOLEAN
  BY DEF PositionRecs, TradeRecs
<1>2. sold \in 0 .. b.quantity
  BY <1>1 DEF Copy!Lower
<1>3. CASE t.kind # "sell" /\ b.quantity = 0
  <2>1. p = [quantity |-> 0 + t.quantity, cost |-> 0 + t.quantity * t.price * 1, per |-> 1, euro |-> TRUE /\ t.euro,
             opened |-> n, decided |-> FALSE \/ t.kind \in {"buy", "sell"}]
    BY <1>1, <1>3 DEF Copy!AfterTrade, Copy!Flat
  <2>2. t.quantity * t.price \in Nat
    BY <1>1
  <2>3. QED BY <1>1, <1>3, <2>1, <2>2 DEF PositionRecs
<1>4. CASE t.kind # "sell" /\ b.quantity # 0
  <2>1. p = [quantity |-> b.quantity + t.quantity, cost |-> b.cost + t.quantity * t.price * b.per, per |-> b.per,
             euro |-> b.euro /\ t.euro, opened |-> b.opened, decided |-> b.decided \/ t.kind \in {"buy", "sell"}]
    BY <1>1, <1>4 DEF Copy!AfterTrade, PositionRecs
  <2>2. b.cost + t.quantity * t.price * b.per \in Nat
    BY <1>1
  <2>3. QED BY <1>1, <1>4, <2>1, <2>2 DEF PositionRecs
<1>5. CASE t.kind = "sell" /\ b.quantity = 0
  <2>1. p = [quantity |-> 0, cost |-> 0, per |-> 1, euro |-> TRUE, opened |-> n, decided |-> TRUE]
    BY <1>1, <1>5 DEF Copy!AfterTrade, Copy!Flat
  <2>2. QED BY <1>1, <1>5, <2>1 DEF PositionRecs
<1>6. CASE t.kind = "sell" /\ b.quantity # 0
  <2>1. p = [quantity |-> b.quantity - sold, cost |-> b.cost * (b.quantity - sold), per |-> b.per * b.quantity,
             euro |-> b.euro, opened |-> b.opened, decided |-> TRUE]
    BY <1>1, <1>6 DEF Copy!AfterTrade, Copy!lessShare, PositionRecs
  <2>2. b.quantity - sold \in Nat /\ b.cost * (b.quantity - sold) \in Nat /\ b.per * b.quantity \in Nat \ {0}
    BY <1>1, <1>2, <1>6
  <2>3. QED BY <1>1, <1>6, <2>1, <2>2 DEF PositionRecs
<1>7. QED BY <1>3, <1>4, <1>5, <1>6

LEMMA CourseExists ==
  ASSUME NEW trades \in Seq(TradeRecs)
  PROVE  \E f : Course(trades, Len(trades), f)
<1> DEFINE N == Len(trades)
           F == [n \in 1 .. N |-> [b \in PositionRecs |-> Copy!AfterTrade(b, trades[n], n)]]
<1>1. N \in Nat /\ \A n \in 1 .. N : trades[n] \in TradeRecs /\ n \in Nat \ {0}
  OBVIOUS
<1>2. Copy!Flat \in PositionRecs
  BY DEF Copy!Flat, PositionRecs
<1>3. F \in [1 .. N -> [PositionRecs -> PositionRecs]]
  <2>1. \A n \in 1 .. N, b \in PositionRecs : Copy!AfterTrade(b, trades[n], n) \in PositionRecs
    BY <1>1, TradeIs
  <2>2. QED BY <2>1
<1>4. \A n \in 1 .. N, b \in PositionRecs : F[n][b] = Copy!AfterTrade(b, trades[n], n)
  OBVIOUS
<1> HIDE DEF F, N
<1>5. PICK f \in [0 .. N -> PositionRecs] : f[0] = Copy!Flat /\ \A n \in 1 .. N : f[n] = F[n][f[n - 1]]
  <2>1. Runs(PositionRecs, Copy!Flat, N, F) # {}
    BY <1>1, <1>2, <1>3, StepsHaveACourse
  <2>2. QED BY <2>1 DEF Runs
<1>6. \A n \in 1 .. N : f[n] = Copy!AfterTrade(f[n - 1], trades[n], n)
  <2>1. \A n \in 1 .. N : n - 1 \in 0 .. N
    BY <1>1
  <2>2. QED BY <1>4, <1>5, <2>1
<1>7. f = [n \in 0 .. N |-> IF n = 0 THEN Copy!Flat ELSE Copy!AfterTrade(f[n - 1], trades[n], n)]
  <2>1. \A n \in 0 .. N : n # 0 => n \in 1 .. N
    BY <1>1
  <2>2. QED BY <1>5, <1>6, <2>1
<1>8. QED BY <1>7 DEF Course, N

\* The position after some trades is that of a course of them.
LEMMA PositionIsOfTheCourse ==
  ASSUME NEW trades \in Seq(TradeRecs)
  PROVE  \E f : Course(trades, Len(trades), f) /\ Copy!positionOf(trades) = f[Len(trades)]
<1> DEFINE f == CHOOSE g : Course(trades, Len(trades), g)
<1>1. Course(trades, Len(trades), f)
  BY CourseExists
<1>2. Copy!positionOf(trades) = f[Len(trades)]
  BY DEF Course, Copy!positionOf
<1>3. QED BY <1>1, <1>2, Zenon

-----------------------------------------------------------------------------
\* The sum of q over the members of s up to k.
Totals(q, s, m, f) == f = [k \in 0 .. m |-> IF k = 0 THEN 0 ELSE f[k - 1] + (IF k \in s THEN q[k] ELSE 0)]

LEMMA TotalsExist ==
  ASSUME NEW N \in Nat, NEW q \in [1 .. N -> Int], NEW s
  PROVE  \E f : Totals(q, s, N, f)
<1> DEFINE F == [n \in 1 .. N |-> [sum \in Int |-> sum + (IF n \in s THEN q[n] ELSE 0)]]
<1>1. F \in [1 .. N -> [Int -> Int]]
  OBVIOUS
<1>2. \A n \in 1 .. N, sum \in Int : F[n][sum] = sum + (IF n \in s THEN q[n] ELSE 0)
  OBVIOUS
<1> HIDE DEF F
<1>3. PICK f \in [0 .. N -> Int] : f[0] = 0 /\ \A n \in 1 .. N : f[n] = F[n][f[n - 1]]
  <2>1. Runs(Int, 0, N, F) # {}
    <3>1. 0 \in Int
      OBVIOUS
    <3>2. QED BY <1>1, <3>1, StepsHaveACourse
  <2>2. QED BY <2>1 DEF Runs
<1>4. \A n \in 0 .. N : n # 0 => n \in 1 .. N /\ n - 1 \in 0 .. N
  OBVIOUS
<1>5. f = [n \in 0 .. N |-> IF n = 0 THEN 0 ELSE f[n - 1] + (IF n \in s THEN q[n] ELSE 0)]
  BY <1>2, <1>3, <1>4
<1>6. QED BY <1>5 DEF Totals

Total(q, s, N) == (CHOOSE f : Totals(q, s, N, f))[N]

\* It is the sum of what is left without one of them, and that one.
LEMMA TotalOfTheRest ==
  ASSUME NEW N \in Nat, NEW q \in [1 .. N -> Int], NEW s \in SUBSET (1 .. N)
  PROVE  /\ s = {} => Total(q, s, N) = 0
         /\ \A x \in s : Total(q, s, N) = q[x] + Total(q, s \ {x}, N)
         /\ Total(q, s, N) \in Int
<1>1. PICK f : f = CHOOSE g : Totals(q, s, N, g)
  OBVIOUS
<1>2. Totals(q, s, N, f)
  BY <1>1, TotalsExist
<1>3. \A k \in 0 .. N : f[k] = IF k = 0 THEN 0 ELSE f[k - 1] + (IF k \in s THEN q[k] ELSE 0)
  BY <1>2 DEF Totals
<1>4. Total(q, s, N) = f[N]
  BY <1>1 DEF Total
<1>5. 0 .. N \subseteq {k \in 0 .. N : f[k] \in Int}
  <2> DEFINE Good == {k \in 0 .. N : f[k] \in Int}
  <2>1. 0 \in Good
    BY <1>3
  <2>2. \A n \in 1 .. N : n - 1 \in Good => n \in Good
    BY <1>3
  <2> HIDE DEF Good
  <2>3. 0 .. N \subseteq Good
    BY <2>1, <2>2, NoFirstException
  <2>4. QED BY <2>3 DEF Good
<1>6. ASSUME s = {} PROVE f[N] = 0
  <2> DEFINE Good == {k \in 0 .. N : f[k] = 0}
  <2>1. 0 \in Good
    BY <1>3
  <2>2. \A n \in 1 .. N : n - 1 \in Good => n \in Good
    BY <1>3, <1>6
  <2> HIDE DEF Good
  <2>3. 0 .. N \subseteq Good
    BY <2>1, <2>2, NoFirstException
  <2>4. QED BY <2>3 DEF Good
<1>7. ASSUME NEW x \in s PROVE f[N] = q[x] + Total(q, s \ {x}, N)
  <2>1. PICK g : g = CHOOSE h : Totals(q, s \ {x}, N, h)
    OBVIOUS
  <2>2. Totals(q, s \ {x}, N, g)
    BY <2>1, TotalsExist
  <2>3. \A k \in 0 .. N : g[k] = IF k = 0 THEN 0 ELSE g[k - 1] + (IF k \in s \ {x} THEN q[k] ELSE 0)
    BY <2>2 DEF Totals
  <2> DEFINE Good == {k \in 0 .. N : g[k] \in Int /\ f[k] = g[k] + (IF x <= k THEN q[x] ELSE 0)}
  <2>4. x \in 1 .. N /\ q[x] \in Int
    OBVIOUS
  <2>5. 0 \in Good
    BY <1>3, <2>3, <2>4
  <2>6. ASSUME NEW n \in 1 .. N, n - 1 \in Good PROVE n \in Good
    <3>1. g[n - 1] \in Int /\ f[n - 1] = g[n - 1] + (IF x <= n - 1 THEN q[x] ELSE 0)
      BY <2>6
    <3>2. f[n] = f[n - 1] + (IF n \in s THEN q[n] ELSE 0) /\ g[n] = g[n - 1] + (IF n \in s \ {x} THEN q[n] ELSE 0)
      BY <1>3, <2>3
    <3>3. q[n] \in Int
      OBVIOUS
    <3>4. CASE n = x
      BY <3>1, <3>2, <3>3, <3>4
    <3>5. CASE n # x
      BY <3>1, <3>2, <3>3, <3>5, <2>4
    <3>6. QED BY <3>4, <3>5
  <2> HIDE DEF Good
  <2>7. N \in Good
    <3>1. 0 .. N \subseteq Good
      BY <2>5, <2>6, NoFirstException
    <3>2. QED BY <3>1
  <2>8. f[N] = g[N] + q[x] /\ g[N] \in Int
    BY <2>7, <2>4 DEF Good
  <2>9. Total(q, s \ {x}, N) = g[N]
    BY <2>1 DEF Total
  <2>10. QED BY <2>8, <2>9, <2>4
<1>8. QED BY <1>4, <1>5, <1>6, <1>7

\* Whichever member is taken away next.
LEMMA SumsAreTotals ==
  ASSUME NEW N \in Nat, NEW trades, \A i \in 1 .. N : trades[i].quantity \in Int, NEW I \in SUBSET (1 .. N)
  PROVE  Copy!MapThenSumSet(LAMBDA i : trades[i].quantity, I) = Total([i \in 1 .. N |-> trades[i].quantity], I, N)
<1> DEFINE q == [i \in 1 .. N |-> trades[i].quantity]
           tot == [s \in SUBSET I |-> Total(q, s, N)]
           Sums(f) == f = [s \in SUBSET I |-> IF s = {} THEN 0
                              ELSE trades[CHOOSE x \in s : TRUE].quantity + f[s \ {CHOOSE x \in s : TRUE}]]
           iter == CHOOSE f : Sums(f)
<1>1. Copy!MapThenSumSet(LAMBDA i : trades[i].quantity, I) = iter[I]
  BY DEF Copy!MapThenSumSet, Copy!MapThenFoldSet
<1>2. Sums(tot)
  <2>1. \A s \in SUBSET I : tot[s] = IF s = {} THEN 0
              ELSE trades[CHOOSE x \in s : TRUE].quantity + tot[s \ {CHOOSE x \in s : TRUE}]
    <3>1. SUFFICES ASSUME NEW s \in SUBSET I
                   PROVE  tot[s] = IF s = {} THEN 0
                            ELSE trades[CHOOSE x \in s : TRUE].quantity + tot[s \ {CHOOSE x \in s : TRUE}]
      OBVIOUS
    <3>2. q \in [1 .. N -> Int] /\ s \in SUBSET (1 .. N)
      OBVIOUS
    <3>3. CASE s = {}
      BY <3>2, <3>3, TotalOfTheRest
    <3>4. CASE s # {}
      <4>1. PICK x : x = CHOOSE y \in s : TRUE
        OBVIOUS
      <4>2. x \in s
        BY <3>4, <4>1
      <4>3. s \ {x} \in SUBSET I /\ x \in 1 .. N
        BY <4>2
      <4>4. Total(q, s, N) = q[x] + Total(q, s \ {x}, N)
        <5> HIDE DEF q
        <5>1. QED BY <3>2, <4>2, TotalOfTheRest
      <4>5. q[x] = trades[x].quantity
        BY <4>3
      <4>6. tot[s] = Total(q, s, N) /\ tot[s \ {x}] = Total(q, s \ {x}, N)
        BY <4>3
      <4> HIDE DEF q, tot
      <4>7. QED BY <3>4, <4>1, <4>4, <4>5, <4>6
    <3>5. QED BY <3>3, <3>4
  <2>2. tot = [s \in SUBSET I |-> tot[s]]
    OBVIOUS
  <2> HIDE DEF tot
  <2>3. QED BY <2>1, <2>2
<1>3. Sums(iter)
  <2> HIDE DEF Sums, tot
  <2>1. QED BY <1>2
<1>4. \A s \in SUBSET I : iter[s] = IF s = {} THEN 0
          ELSE trades[CHOOSE x \in s : TRUE].quantity + iter[s \ {CHOOSE x \in s : TRUE}]
  BY <1>3
<1>5. \A s \in SUBSET I : tot[s] = IF s = {} THEN 0
          ELSE trades[CHOOSE x \in s : TRUE].quantity + tot[s \ {CHOOSE x \in s : TRUE}]
  BY <1>2
<1>6. IsFiniteSet(I) /\ Cardinality(I) \in Nat
  <2>1. IsFiniteSet(1 .. N)
    BY FS_Interval
  <2>2. IsFiniteSet(I)
    BY <2>1, FS_Subset
  <2>3. QED BY <2>2, FS_CardinalityType
<1> DEFINE Good == {n \in 0 .. Cardinality(I) : \A s \in SUBSET I : Cardinality(s) = n => iter[s] = tot[s]}
<1> HIDE DEF iter, tot, q, Sums
<1>7. 0 \in Good
  <2>1. \A s \in SUBSET I : Cardinality(s) = 0 => s = {}
    BY <1>6, FS_Subset, FS_EmptySet
  <2>2. iter[{}] = 0 /\ tot[{}] = 0 /\ {} \in SUBSET I
    BY <1>4, <1>5
  <2>3. \A s \in SUBSET I : Cardinality(s) = 0 => iter[s] = tot[s]
    BY <2>1, <2>2
  <2>4. 0 \in 0 .. Cardinality(I)
    BY <1>6
  <2>5. QED BY <2>3, <2>4
<1>8. ASSUME NEW n \in 1 .. Cardinality(I), n - 1 \in Good PROVE n \in Good
  <2>1. SUFFICES ASSUME NEW s \in SUBSET I, Cardinality(s) = n PROVE iter[s] = tot[s]
    <3>1. n \in 0 .. Cardinality(I)
      BY <1>6
    <3>2. QED BY <3>1
  <2>2. s # {}
    BY <2>1, <1>6, FS_EmptySet
  <2>3. PICK x : x = CHOOSE y \in s : TRUE
    OBVIOUS
  <2>4. x \in s /\ s \ {x} \in SUBSET I
    BY <2>2, <2>3
  <2>5. IsFiniteSet(s)
    BY <1>6, FS_Subset
  <2>6. Cardinality(s \ {x}) = n - 1
    BY <2>1, <2>4, <2>5, FS_RemoveElement
  <2>7. iter[s \ {x}] = tot[s \ {x}]
    BY <1>8, <2>4, <2>6
  <2>8. iter[s] = trades[x].quantity + iter[s \ {x}]
    BY <1>4, <2>2, <2>3
  <2>9. tot[s] = trades[x].quantity + tot[s \ {x}]
    BY <1>5, <2>2, <2>3
  <2>10. QED BY <2>7, <2>8, <2>9
<1> HIDE DEF Good
<1>9. Cardinality(I) \in Good
  BY <1>6, <1>7, <1>8, NoFirstException
<1>10. iter[I] = tot[I]
  BY <1>9 DEF Good
<1>11. tot[I] = Total(q, I, N)
  BY DEF tot
<1>12. QED BY <1>1, <1>10, <1>11 DEF q, iter, Sums

-----------------------------------------------------------------------------
\* The position of a beginning of the trades is the one a course of them all has there.
LEMMA PositionAfter ==
  ASSUME NEW trades \in Seq(TradeRecs), NEW f, Course(trades, Len(trades), f), NEW m \in 0 .. Len(trades)
  PROVE  Copy!positionOf(SubSeq(trades, 1, m)) = f[m]
<1> DEFINE s == SubSeq(trades, 1, m)
<1>1. Len(s) = m /\ s \in Seq(TradeRecs) /\ \A k \in 1 .. m : s[k] = trades[k]
  OBVIOUS
<1> HIDE DEF s
<1>2. PICK g : Course(s, m, g) /\ Copy!positionOf(s) = g[m]
  BY <1>1, PositionIsOfTheCourse
<1>3. \A k \in 0 .. m : g[k] = IF k = 0 THEN Copy!Flat ELSE Copy!AfterTrade(g[k - 1], s[k], k)
  BY <1>2 DEF Course
<1>4. \A k \in 0 .. Len(trades) : f[k] = IF k = 0 THEN Copy!Flat ELSE Copy!AfterTrade(f[k - 1], trades[k], k)
  BY DEF Course
<1> DEFINE Good == {k \in 0 .. m : g[k] = f[k]}
<1>5. 0 \in Good
  BY <1>3, <1>4
<1>6. ASSUME NEW k \in 1 .. m, k - 1 \in Good PROVE k \in Good
  <2>1. g[k - 1] = f[k - 1]
    BY <1>6
  <2>2. k \in 0 .. m /\ k \in 0 .. Len(trades) /\ k # 0 /\ s[k] = trades[k]
    BY <1>1
  <2>3. g[k] = Copy!AfterTrade(g[k - 1], s[k], k) /\ f[k] = Copy!AfterTrade(f[k - 1], trades[k], k)
    BY <1>3, <1>4, <2>2
  <2>4. QED BY <2>1, <2>2, <2>3
<1> HIDE DEF Good
<1>7. 0 .. m \subseteq Good
  BY <1>5, <1>6, NoFirstException
<1>8. QED BY <1>2, <1>7 DEF Good, s

-----------------------------------------------------------------------------
Purchases(trades, k, m) == {i \in k .. m : trades[i].kind # "sell"}
Sold(trades, k, m) == {i \in k .. m : trades[i].kind = "sell"}
TotalOf(trades, I) == Total([i \in 1 .. Len(trades) |-> trades[i].quantity], I, Len(trades))

\* What is held after m trades adds up.
Held(trades, m, p) ==
  /\ p \in PositionRecs
  /\ p.quantity > 0 =>
       /\ p.opened \in 1 .. m
       /\ p.quantity = TotalOf(trades, Purchases(trades, p.opened, m)) - TotalOf(trades, Sold(trades, p.opened, m))
       /\ \E i \in Purchases(trades, p.opened, m) : p.per * p.quantity * trades[i].price <= p.cost
       /\ \E i \in Purchases(trades, p.opened, m) : p.cost <= p.per * p.quantity * trades[i].price
       /\ p.euro = (\A i \in Purchases(trades, p.opened, m) : trades[i].euro)

LEMMA TotalOfOneMore ==
  ASSUME NEW trades \in Seq(TradeRecs), NEW I \in SUBSET (1 .. Len(trades)), NEW m \in 1 .. Len(trades), m \notin I
  PROVE  TotalOf(trades, I \union {m}) = trades[m].quantity + TotalOf(trades, I) /\ TotalOf(trades, I) \in Int
<1> DEFINE q == [i \in 1 .. Len(trades) |-> trades[i].quantity]
           J == I \union {m}
<1>1. Len(trades) \in Nat /\ q \in [1 .. Len(trades) -> Int] /\ q[m] = trades[m].quantity
  <2>1. \A i \in 1 .. Len(trades) : trades[i] \in TradeRecs
    OBVIOUS
  <2>2. \A i \in 1 .. Len(trades) : trades[i].quantity \in Int
    BY <2>1 DEF TradeRecs
  <2>3. QED BY <2>2
<1>2. J \in SUBSET (1 .. Len(trades)) /\ m \in J /\ J \ {m} = I
  OBVIOUS
<1> HIDE DEF q, J
<1>3. Total(q, J, Len(trades)) = q[m] + Total(q, J \ {m}, Len(trades))
  BY <1>1, <1>2, TotalOfTheRest
<1>4. Total(q, I, Len(trades)) \in Int
  BY <1>1, TotalOfTheRest
<1>5. QED BY <1>1, <1>2, <1>3, <1>4 DEF TotalOf, q, J

\* A price between two others, weighed.
LEMMA Weighed ==
  /\ \A per, q, t, price, other, cost \in Nat :
        /\ price <= other /\ per * q * other <= cost => per * (q + t) * price <= cost + t * price * per
        /\ other <= price /\ per * q * other <= cost => per * (q + t) * other <= cost + t * price * per
        /\ price <= other /\ cost <= per * q * other => cost + t * price * per <= per * (q + t) * other
        /\ other <= price /\ cost <= per * q * other => cost + t * price * per <= per * (q + t) * price
  /\ \A per, q, left, price, cost \in Nat :
        /\ per * q * price <= cost => (per * q) * left * price <= cost * left
        /\ cost <= per * q * price => cost * left <= (per * q) * left * price
<1>1. \A a, b, c \in Nat : a <= b => c * a <= c * b
  OBVIOUS
<1>2. ASSUME NEW per \in Nat, NEW q \in Nat, NEW t \in Nat, NEW price \in Nat, NEW other \in Nat, NEW cost \in Nat
      PROVE  /\ price <= other /\ per * q * other <= cost => per * (q + t) * price <= cost + t * price * per
             /\ other <= price /\ per * q * other <= cost => per * (q + t) * other <= cost + t * price * per
             /\ price <= other /\ cost <= per * q * other => cost + t * price * per <= per * (q + t) * other
             /\ other <= price /\ cost <= per * q * other => cost + t * price * per <= per * (q + t) * price
  <2>1. /\ per * (q + t) * price = per * q * price + per * t * price
        /\ per * (q + t) * other = per * q * other + per * t * other
        /\ t * price * per = per * t * price
    OBVIOUS
  <2>2. per * q \in Nat /\ per * t \in Nat
    OBVIOUS
  <2>3. /\ price <= other => per * q * price <= per * q * other /\ per * t * price <= per * t * other
        /\ other <= price => per * q * other <= per * q * price /\ per * t * other <= per * t * price
    BY <1>1, <2>2
  <2>4. /\ per * q * price \in Nat /\ per * q * other \in Nat /\ per * t * price \in Nat /\ per * t * other \in Nat
    OBVIOUS
  <2>5. \A a, b, c, d \in Nat :
          /\ a <= b /\ b <= cost => a + c <= cost + c
          /\ b <= cost /\ d <= c => b + d <= cost + c
          /\ cost <= b /\ c <= d => cost + c <= b + d
          /\ b <= a /\ cost <= b => cost + c <= a + c
    OBVIOUS
  <2>6. QED BY <2>1, <2>3, <2>4, <2>5
<1>3. ASSUME NEW per \in Nat, NEW q \in Nat, NEW left \in Nat, NEW price \in Nat, NEW cost \in Nat
      PROVE  /\ per * q * price <= cost => (per * q) * left * price <= cost * left
             /\ cost <= per * q * price => cost * left <= (per * q) * left * price
  <2>1. (per * q) * left * price = left * (per * q * price) /\ cost * left = left * cost /\ per * q * price \in Nat
    OBVIOUS
  <2>2. QED BY <1>1, <2>1
<1>4. QED BY <1>2, <1>3

LEMMA HeldStep ==
  ASSUME NEW trades \in Seq(TradeRecs), NEW m \in 1 .. Len(trades), NEW b, Held(trades, m - 1, b)
  PROVE  LET p == Copy!AfterTrade(b, trades[m], m)
         IN /\ Held(trades, m, p)
            /\ p.quantity > 0 /\ trades[m].kind = "sell" =>
                  /\ p.cost * b.per * b.quantity = b.cost * p.per * p.quantity
                  /\ p.opened = b.opened
<1> DEFINE t == trades[m]
           p == Copy!AfterTrade(b, t, m)
           sold == Copy!Lower(t.quantity, b.quantity)
           k == b.opened
           were == Purchases(trades, k, m - 1)
           gone == Sold(trades, k, m - 1)
<1>1. t \in TradeRecs /\ m \in Nat \ {0} /\ b \in PositionRecs
  BY DEF Held
<1>2. /\ p \in PositionRecs
      /\ t.kind # "sell" /\ b.quantity = 0 =>
            /\ p.quantity = t.quantity /\ p.cost = t.quantity * t.price /\ p.per = 1
            /\ p.euro = t.euro /\ p.opened = m
      /\ t.kind # "sell" /\ b.quantity # 0 =>
            /\ p.quantity = b.quantity + t.quantity /\ p.cost = b.cost + t.quantity * t.price * b.per
            /\ p.per = b.per /\ p.euro = (b.euro /\ t.euro) /\ p.opened = b.opened
      /\ t.kind = "sell" /\ b.quantity = 0 => p.quantity = 0
      /\ t.kind = "sell" /\ b.quantity # 0 =>
            /\ p.quantity = b.quantity - sold /\ p.cost = b.cost * (b.quantity - sold)
            /\ p.per = b.per * b.quantity /\ p.euro = b.euro /\ p.opened = b.opened
  BY <1>1, TradeIs
<1> HIDE DEF p, sold
<1>3. /\ b.quantity \in Nat /\ b.cost \in Nat /\ b.per \in Nat \ {0} /\ b.euro \in BOOLEAN /\ b.opened \in Nat
      /\ t.quantity \in Nat /\ t.price \in Nat /\ t.euro \in BOOLEAN
  BY <1>1 DEF PositionRecs, TradeRecs
<1>4. b.quantity # 0 =>
        /\ k \in 1 .. m - 1
        /\ b.quantity = TotalOf(trades, were) - TotalOf(trades, gone)
        /\ \E i \in were : b.per * b.quantity * trades[i].price <= b.cost
        /\ \E i \in were : b.cost <= b.per * b.quantity * trades[i].price
        /\ b.euro = (\A i \in were : trades[i].euro)
  <2>1. b.quantity # 0 => b.quantity > 0
    BY <1>3
  <2>2. QED BY <2>1 DEF Held
<1>5. \A i \in 1 .. Len(trades) : trades[i].price \in Nat /\ trades[i].euro \in BOOLEAN
  <2>1. \A i \in 1 .. Len(trades) : trades[i] \in TradeRecs
    OBVIOUS
  <2>2. QED BY <2>1 DEF TradeRecs
<1>6. m \in 1 .. Len(trades) /\ t = trades[m]
  OBVIOUS
<1>7. CASE b.quantity = 0 /\ t.kind = "sell"
  <2>1. p.quantity = 0 /\ ~(p.quantity > 0)
    BY <1>2, <1>7
  <2>2. Held(trades, m, p)
    BY <1>2, <2>1 DEF Held
  <2>3. QED BY <2>1, <2>2 DEF p, t
<1>8. CASE b.quantity = 0 /\ t.kind # "sell"
  <2>1. Purchases(trades, m, m) = {m} /\ Sold(trades, m, m) = {}
    BY <1>8 DEF Purchases, Sold
  <2>2. TotalOf(trades, {} \union {m}) = trades[m].quantity + TotalOf(trades, {})
    BY TotalOfOneMore
  <2>3. TotalOf(trades, {}) \in Int /\ {} \union {m} = {m}
    BY TotalOfOneMore
  <2>4. TotalOf(trades, {m}) - TotalOf(trades, {}) = t.quantity
    BY <1>3, <2>2, <2>3
  <2>5. p.per * p.quantity * t.price = p.cost
    BY <1>2, <1>3, <1>8
  <2>6. p.cost \in Nat
    BY <1>2 DEF PositionRecs
  <2> HIDE DEF p, t
  <2>7. p.quantity = TotalOf(trades, {m}) - TotalOf(trades, {}) /\ p.opened \in 1 .. m
    BY <1>1, <1>2, <1>8, <2>4
  <2>8. /\ \E i \in {m} : p.per * p.quantity * trades[i].price <= p.cost
        /\ \E i \in {m} : p.cost <= p.per * p.quantity * trades[i].price
    BY <1>6, <2>5, <2>6
  <2>9. p.euro = (\A i \in {m} : trades[i].euro)
    BY <1>2, <1>3, <1>5, <1>6, <1>8
  <2>10. p.opened = m
    BY <1>2, <1>8
  <2>11. Held(trades, m, p)
    BY <1>2, <2>1, <2>7, <2>8, <2>9, <2>10 DEF Held
  <2>12. QED BY <2>11, <1>8 DEF p, t
<1>9. CASE b.quantity # 0
  <2>0. /\ k \in 1 .. m - 1 /\ k \in 1 .. m /\ m \in Nat /\ m \notin k .. m - 1
        /\ k .. m - 1 \subseteq 1 .. Len(trades) /\ k .. m = (k .. m - 1) \union {m}
        /\ b.quantity = TotalOf(trades, were) - TotalOf(trades, gone)
    <3>1. k \in 1 .. m - 1 /\ b.quantity = TotalOf(trades, were) - TotalOf(trades, gone)
      BY <1>4, <1>9
    <3>2. \A c \in Int, n \in Int, l \in Int : c \in 1 .. n - 1 /\ n \in 1 .. l =>
             /\ c \in 1 .. n /\ n \notin c .. n - 1 /\ c .. n - 1 \subseteq 1 .. l /\ c .. n = (c .. n - 1) \union {n}
      OBVIOUS
    <3>3. m \in Nat /\ Len(trades) \in Int /\ k \in Int
      BY <1>3
    <3> HIDE DEF k, were, gone
    <3>4. QED BY <3>1, <3>2, <3>3
  <2>1. were \in SUBSET (1 .. Len(trades)) /\ gone \in SUBSET (1 .. Len(trades)) /\ m \notin were /\ m \notin gone
    <3> HIDE DEF k
    <3>1. QED BY <2>0 DEF Purchases, Sold
  <2>2. /\ TotalOf(trades, were \union {m}) = t.quantity + TotalOf(trades, were) /\ TotalOf(trades, were) \in Int
        /\ TotalOf(trades, gone \union {m}) = t.quantity + TotalOf(trades, gone) /\ TotalOf(trades, gone) \in Int
    <3> HIDE DEF were, gone
    <3>1. QED BY <2>1, <1>6, TotalOfOneMore
  <2>3. PICK lo \in were : b.per * b.quantity * trades[lo].price <= b.cost
    BY <1>4, <1>9
  <2>4. PICK hi \in were : b.cost <= b.per * b.quantity * trades[hi].price
    BY <1>4, <1>9
  <2>5. trades[lo].price \in Nat /\ trades[hi].price \in Nat
    BY <1>5, <2>1
  <2>6. CASE t.kind # "sell"
    <3>1. Purchases(trades, k, m) = were \union {m} /\ Sold(trades, k, m) = gone
      <4> HIDE DEF k
      <4>1. QED BY <2>0, <2>6 DEF Purchases, Sold
    <3> DEFINE more == Purchases(trades, k, m)
    <3>2. /\ p.quantity = b.quantity + t.quantity /\ p.cost = b.cost + t.quantity * t.price * b.per
          /\ p.per = b.per /\ p.euro = (b.euro /\ t.euro) /\ p.opened = k
      BY <1>2, <1>9, <2>6
    <3> HIDE DEF p, t, were, gone, k
    <3>3. p.opened \in 1 .. m
      BY <2>0, <3>2
    <3>4. p.quantity = TotalOf(trades, more) - TotalOf(trades, gone)
      BY <1>3, <2>0, <2>2, <3>1, <3>2
    <3>5. \E i \in more : p.per * p.quantity * trades[i].price <= p.cost
      <4>1. CASE t.price <= trades[lo].price
        <5>1. b.per * (b.quantity + t.quantity) * t.price <= b.cost + t.quantity * t.price * b.per
          BY Weighed, <1>3, <2>3, <2>5, <4>1
        <5>2. p.per * p.quantity * trades[m].price <= p.cost
          BY <1>6, <3>2, <5>1
        <5>3. QED BY <3>1, <5>2
      <4>2. CASE trades[lo].price <= t.price
        <5>1. b.per * (b.quantity + t.quantity) * trades[lo].price <= b.cost + t.quantity * t.price * b.per
          BY Weighed, <1>3, <2>3, <2>5, <4>2
        <5>2. QED BY <3>1, <3>2, <5>1, <2>3
      <4>3. QED BY <1>3, <2>5, <4>1, <4>2
    <3>6. \E i \in more : p.cost <= p.per * p.quantity * trades[i].price
      <4>1. CASE t.price <= trades[hi].price
        <5>1. b.cost + t.quantity * t.price * b.per <= b.per * (b.quantity + t.quantity) * trades[hi].price
          BY Weighed, <1>3, <2>4, <2>5, <4>1
        <5>2. QED BY <3>1, <3>2, <5>1, <2>4
      <4>2. CASE trades[hi].price <= t.price
        <5>1. b.cost + t.quantity * t.price * b.per <= b.per * (b.quantity + t.quantity) * t.price
          BY Weighed, <1>3, <2>4, <2>5, <4>2
        <5>2. p.cost <= p.per * p.quantity * trades[m].price
          BY <1>6, <3>2, <5>1
        <5>3. QED BY <3>1, <5>2
      <4>3. QED BY <1>3, <2>5, <4>1, <4>2
    <3>7. p.euro = (\A i \in more : trades[i].euro)
      <4>1. (\A i \in more : trades[i].euro) = ((\A i \in were : trades[i].euro) /\ trades[m].euro)
        BY <3>1
      <4>2. QED BY <1>4, <1>6, <1>9, <3>2, <4>1
    <3>8. Held(trades, m, p)
      BY <1>2, <3>1, <3>2, <3>3, <3>4, <3>5, <3>6, <3>7 DEF Held
    <3>9. QED BY <3>8, <2>6, <1>6 DEF p, t
  <2>7. CASE t.kind = "sell"
    <3>1. Purchases(trades, k, m) = were /\ Sold(trades, k, m) = gone \union {m}
      <4> HIDE DEF k
      <4>1. QED BY <2>0, <2>7 DEF Purchases, Sold
    <3>2. /\ p.quantity = b.quantity - sold /\ p.cost = b.cost * (b.quantity - sold)
          /\ p.per = b.per * b.quantity /\ p.euro = b.euro /\ p.opened = k
      BY <1>2, <1>9, <2>7
    <3>3. p.quantity \in Nat
      BY <1>2 DEF PositionRecs
    <3>4. p.quantity > 0 => sold = t.quantity
      <4>1. sold = IF t.quantity < b.quantity THEN t.quantity ELSE b.quantity
        BY DEF sold, Copy!Lower
      <4> HIDE DEF t
      <4>2. QED BY <1>3, <3>2, <4>1
    <3> HIDE DEF p, t, were, gone, k, sold
    <3>5. p.opened \in 1 .. m
      BY <2>0, <3>2
    <3>6. p.quantity > 0 => p.quantity = TotalOf(trades, were) - TotalOf(trades, gone \union {m})
      BY <1>3, <2>0, <2>2, <3>2, <3>3, <3>4
    <3>7. p.cost = b.cost * p.quantity
      BY <3>2
    <3>8. p.per * p.quantity * trades[lo].price <= p.cost
      <4>1. (b.per * b.quantity) * p.quantity * trades[lo].price <= b.cost * p.quantity
        BY Weighed, <1>3, <2>3, <2>5, <3>3
      <4>2. QED BY <3>2, <3>7, <4>1
    <3>9. p.cost <= p.per * p.quantity * trades[hi].price
      <4>1. b.cost * p.quantity <= (b.per * b.quantity) * p.quantity * trades[hi].price
        BY Weighed, <1>3, <2>4, <2>5, <3>3
      <4>2. QED BY <3>2, <3>7, <4>1
    <3>10. p.euro = (\A i \in were : trades[i].euro)
      BY <1>4, <1>9, <3>2
    <3>11. p.cost * b.per * b.quantity = b.cost * p.per * p.quantity
      BY <1>3, <3>2, <3>3, <3>7
    <3>12. Held(trades, m, p)
      BY <1>2, <2>3, <2>4, <3>1, <3>2, <3>5, <3>6, <3>8, <3>9, <3>10 DEF Held
    <3>13. QED BY <3>2, <3>11, <3>12 DEF p, t, k
  <2>8. QED BY <2>6, <2>7
<1>10. QED BY <1>7, <1>8, <1>9

LEMMA CourseIsHeld ==
  ASSUME NEW trades \in Seq(TradeRecs), NEW f, Course(trades, Len(trades), f)
  PROVE  \A m \in 0 .. Len(trades) : Held(trades, m, f[m])
<1>1. \A k \in 0 .. Len(trades) : f[k] = IF k = 0 THEN Copy!Flat ELSE Copy!AfterTrade(f[k - 1], trades[k], k)
  BY DEF Course
<1> DEFINE Good == {k \in 0 .. Len(trades) : Held(trades, k, f[k])}
<1>2. 0 \in Good
  <2>1. Copy!Flat \in PositionRecs /\ Copy!Flat.quantity = 0
    BY DEF Copy!Flat, PositionRecs
  <2>2. Held(trades, 0, Copy!Flat)
    BY <2>1 DEF Held
  <2>3. 0 \in 0 .. Len(trades)
    OBVIOUS
  <2>4. QED BY <1>1, <2>2, <2>3
<1>3. ASSUME NEW k \in 1 .. Len(trades), k - 1 \in Good PROVE k \in Good
  <2>1. Held(trades, k - 1, f[k - 1])
    BY <1>3
  <2>2. Held(trades, k, Copy!AfterTrade(f[k - 1], trades[k], k))
    BY <2>1, HeldStep
  <2>3. k \in 0 .. Len(trades) /\ k # 0
    OBVIOUS
  <2>4. QED BY <1>1, <2>2, <2>3
<1> HIDE DEF Good
<1>4. 0 .. Len(trades) \subseteq Good
  <2>1. Len(trades) \in Nat
    OBVIOUS
  <2>2. QED BY <1>2, <1>3, <2>1, NoFirstException
<1>5. QED BY <1>4 DEF Good

LEMMA PositionsDoAddUp ==
  ASSUME NEW trades \in Seq(TradeRecs)
  PROVE  Copy!PositionsAddUp(trades)
<1>1. PICK f : Course(trades, Len(trades), f)
  BY CourseExists
<1> SUFFICES ASSUME NEW n \in 1 .. Len(trades)
             PROVE  LET p == Copy!positionOf(SubSeq(trades, 1, n))
                        before == Copy!positionOf(SubSeq(trades, 1, n - 1))
                        bought == {i \in p.opened .. n : trades[i].kind # "sell"}
                        sold == {i \in p.opened .. n : trades[i].kind = "sell"}
                        Shares(I) == Copy!MapThenSumSet(LAMBDA i : trades[i].quantity, I)
                    IN p.quantity > 0 =>
                         /\ p.quantity = Shares(bought) - Shares(sold)
                         /\ \E i \in bought : p.per * p.quantity * trades[i].price <= p.cost
                         /\ \E i \in bought : p.cost <= p.per * p.quantity * trades[i].price
                         /\ p.euro = (\A i \in bought : trades[i].euro)
                         /\ trades[n].kind = "sell" =>
                               /\ p.cost * before.per * before.quantity = before.cost * p.per * p.quantity
                               /\ p.opened = before.opened
  BY DEF Copy!PositionsAddUp
<1>2. n \in 0 .. Len(trades) /\ n - 1 \in 0 .. Len(trades) /\ n # 0
  OBVIOUS
<1>3. Copy!positionOf(SubSeq(trades, 1, n)) = f[n] /\ Copy!positionOf(SubSeq(trades, 1, n - 1)) = f[n - 1]
  BY <1>1, <1>2, PositionAfter
<1>4. Held(trades, n, f[n]) /\ Held(trades, n - 1, f[n - 1])
  BY <1>1, <1>2, CourseIsHeld
<1>5. f[n] = Copy!AfterTrade(f[n - 1], trades[n], n)
  BY <1>1, <1>2 DEF Course
<1>6. f[n].quantity > 0 /\ trades[n].kind = "sell" =>
         /\ f[n].cost * f[n - 1].per * f[n - 1].quantity = f[n - 1].cost * f[n].per * f[n].quantity
         /\ f[n].opened = f[n - 1].opened
  BY <1>4, <1>5, HeldStep
<1>7. ASSUME NEW I \in SUBSET (1 .. n)
      PROVE  Copy!MapThenSumSet(LAMBDA i : trades[i].quantity, I) = TotalOf(trades, I)
  <2>1. \A i \in 1 .. Len(trades) : trades[i] \in TradeRecs
    OBVIOUS
  <2>2. \A i \in 1 .. Len(trades) : trades[i].quantity \in Int
    BY <2>1 DEF TradeRecs
  <2>3. I \in SUBSET (1 .. Len(trades)) /\ Len(trades) \in Nat
    OBVIOUS
  <2>4. QED BY <2>2, <2>3, SumsAreTotals DEF TotalOf
<1>8. ASSUME f[n].quantity > 0
      PROVE  /\ f[n].opened \in 1 .. n
             /\ Purchases(trades, f[n].opened, n) \in SUBSET (1 .. n)
             /\ Sold(trades, f[n].opened, n) \in SUBSET (1 .. n)
  <2>1. f[n].opened \in 1 .. n
    BY <1>4, <1>8 DEF Held
  <2>2. f[n].opened .. n \subseteq 1 .. n
    BY <2>1
  <2>3. QED BY <2>1, <2>2 DEF Purchases, Sold
<1>9. ASSUME f[n].quantity > 0
      PROVE  f[n].quantity = Copy!MapThenSumSet(LAMBDA i : trades[i].quantity, Purchases(trades, f[n].opened, n))
                             - Copy!MapThenSumSet(LAMBDA i : trades[i].quantity, Sold(trades, f[n].opened, n))
  BY <1>4, <1>7, <1>8, <1>9 DEF Held
<1>10. QED BY <1>3, <1>4, <1>6, <1>9 DEF Held, Purchases, Sold

-----------------------------------------------------------------------------
EntryRecs == [kind : STRING, symbols : Seq(STRING), day : Int, tradeIds : SUBSET Nat]
DealRecs == [day : Int, side : STRING, symbol : STRING, ids : SUBSET Nat]
DecisionRecs(D) == [entry : EntryRecs \union {Diary!NoEntry}, symbol : STRING, deal : SUBSET D]

\* Of the deals, each that is taken is in one decision, and no other is in any.
Once(out, taken, D) ==
  /\ out \in Seq(DecisionRecs(D)) /\ taken \in SUBSET D
  /\ \A j \in DOMAIN out : out[j].deal \subseteq taken
  /\ \A d \in taken : \E i \in DOMAIN out : /\ out[i].deal = {d}
                                            /\ \A j \in DOMAIN out : out[j].deal = {d} => j = i
ListedOnce(D) == {list \in [out : Seq(DecisionRecs(D)), taken : SUBSET D] : Once(list.out, list.taken, D)}

\* Nothing is taken back.
Keeps(out, more) == DOMAIN out \subseteq DOMAIN more /\ \A j \in DOMAIN out : more[j] = out[j]

Tells(out, deals, of, symbol) ==
  \E n \in DOMAIN out : /\ out[n].entry = of /\ out[n].symbol = symbol
                        /\ \A d \in out[n].deal : deals[d].side = of.kind /\ deals[d].symbol = symbol

LEMMA KeepingIs ==
  /\ \A a : Keeps(a, a)
  /\ \A a, b, c : Keeps(a, b) /\ Keeps(b, c) => Keeps(a, c)
  /\ \A a, b, deals, of, symbol : Keeps(a, b) /\ Tells(a, deals, of, symbol) => Tells(b, deals, of, symbol)
<1>1. \A a : Keeps(a, a)
  BY DEF Keeps
<1>2. \A a, b, c : Keeps(a, b) /\ Keeps(b, c) => Keeps(a, c)
  BY DEF Keeps
<1>3. ASSUME NEW a, NEW b, NEW deals, NEW of, NEW symbol, Keeps(a, b), Tells(a, deals, of, symbol)
      PROVE  Tells(b, deals, of, symbol)
  <2>1. PICK n \in DOMAIN a : /\ a[n].entry = of /\ a[n].symbol = symbol
                              /\ \A d \in a[n].deal : deals[d].side = of.kind /\ deals[d].symbol = symbol
    BY <1>3 DEF Tells
  <2>2. n \in DOMAIN b /\ b[n] = a[n]
    BY <1>3 DEF Keeps
  <2>3. QED BY <2>1, <2>2 DEF Tells
<1>4. QED BY <1>1, <1>2, <1>3

\* A decision more, with a deal that none has yet, or with none.
Addable(out, taken, last, D) ==
  /\ Once(out, taken, D) /\ last \in DecisionRecs(D)
  /\ last.deal \intersect taken = {} /\ \A d, e \in last.deal : d = e

Added(out, taken, last, D) ==
  /\ Once(Append(out, last), taken \union last.deal, D)
  /\ Keeps(out, Append(out, last))
  /\ Len(out) + 1 \in DOMAIN Append(out, last) /\ Append(out, last)[Len(out) + 1] = last

LEMMA OneMore ==
  ASSUME NEW D, NEW out, NEW taken, NEW last, Addable(out, taken, last, D)
  PROVE  Added(out, taken, last, D)
<1> USE DEF Addable
<1> DEFINE more == Append(out, last)
           N == Len(out) + 1
<1>1. out \in Seq(DecisionRecs(D)) /\ taken \in SUBSET D
  BY DEF Once
<1>2. /\ more \in Seq(DecisionRecs(D)) /\ N \in DOMAIN more /\ more[N] = last
      /\ DOMAIN more = DOMAIN out \union {N} /\ N \notin DOMAIN out
      /\ \A j \in DOMAIN out : more[j] = out[j]
  BY <1>1
<1>3. last.deal \in SUBSET D
  BY DEF DecisionRecs
<1> HIDE DEF more, N
<1>4. \A j \in DOMAIN more : more[j].deal \subseteq taken \union last.deal
  BY <1>2 DEF Once
<1>5. ASSUME NEW d \in taken \union last.deal
      PROVE  \E i \in DOMAIN more : /\ more[i].deal = {d}
                                    /\ \A j \in DOMAIN more : more[j].deal = {d} => j = i
  <2>1. CASE d \in taken
    <3>1. PICK i \in DOMAIN out : /\ out[i].deal = {d}
                                  /\ \A j \in DOMAIN out : out[j].deal = {d} => j = i
      BY <2>1 DEF Once
    <3>2. last.deal # {d}
      BY <2>1
    <3>3. QED BY <1>2, <3>1, <3>2
  <2>2. CASE d \in last.deal
    <3>1. last.deal = {d} /\ d \notin taken
      BY <2>2
    <3>2. \A j \in DOMAIN out : out[j].deal # {d}
      BY <3>1 DEF Once
    <3>3. N \in DOMAIN more /\ more[N].deal = {d}
      BY <1>2, <3>1
    <3>4. \A j \in DOMAIN more : more[j].deal = {d} => j = N
      BY <1>2, <3>2
    <3>5. QED BY <3>3, <3>4
  <2>3. QED BY <2>1, <2>2
<1>6. Once(more, taken \union last.deal, D)
  BY <1>1, <1>2, <1>3, <1>4, <1>5 DEF Once
<1>7. QED BY <1>2, <1>6 DEF Added, Keeps, more, N

LEMMA TakeForKeeps ==
  ASSUME NEW deals \in Seq(DealRecs), NEW list \in ListedOnce(DOMAIN deals), NEW of \in EntryRecs, NEW symbol \in STRING
  PROVE  LET next == Diary!TakeFor(list, of, symbol, deals)
         IN /\ next \in ListedOnce(DOMAIN deals)
            /\ Keeps(list.out, next.out)
            /\ Tells(next.out, deals, of, symbol)
<1> DEFINE D == DOMAIN deals
           mine == {d \in Diary!Free(deals, list.taken) : Diary!Meant(of, symbol, deals[d])}
           deal == {d \in mine : \A other \in mine : d <= other}
           last == [entry |-> of, symbol |-> symbol, deal |-> deal]
           next == Diary!TakeFor(list, of, symbol, deals)
<1>1. next = [out |-> Append(list.out, last), taken |-> list.taken \union deal]
  BY DEF Diary!TakeFor
<1>2. mine \subseteq D \ list.taken /\ \A d \in mine : deals[d].side = of.kind /\ deals[d].symbol = symbol
  BY DEF Diary!Free, Diary!Meant
<1>3. deal \subseteq mine /\ D \subseteq Int
  OBVIOUS
<1>4. \A d, e \in deal : d <= e /\ e <= d
  OBVIOUS
<1>5. list.out \in Seq(DecisionRecs(D)) /\ list.taken \in SUBSET D /\ Once(list.out, list.taken, D)
  BY DEF ListedOnce
<1> HIDE DEF mine, deal, next, D
<1>6. \A d, e \in deal : d = e
  <2>1. \A d, e \in Int : d <= e /\ e <= d => d = e
    OBVIOUS
  <2>2. deal \subseteq Int
    BY <1>2, <1>3
  <2>3. QED BY <1>4, <2>1, <2>2
<1>7. last \in DecisionRecs(D) /\ last.deal \intersect list.taken = {} /\ last.deal = deal
  BY <1>2, <1>3 DEF DecisionRecs
<1>8. last.entry = of /\ last.symbol = symbol /\ \A d \in last.deal : deals[d].side = of.kind /\ deals[d].symbol = symbol
  BY <1>2, <1>3
<1> HIDE DEF last
<1>9. Added(list.out, list.taken, last, D)
  <2>1. Addable(list.out, list.taken, last, D)
    BY <1>5, <1>6, <1>7 DEF Addable
  <2>2. QED BY <2>1, OneMore
<1>10. next.out = Append(list.out, last) /\ next.taken = list.taken \union last.deal
  BY <1>1, <1>7
<1>11. next \in ListedOnce(D)
  <2>1. Append(list.out, last) \in Seq(DecisionRecs(D)) /\ list.taken \union deal \in SUBSET D
    BY <1>7, <1>9 DEF Added, Once
  <2>2. next \in [out : Seq(DecisionRecs(D)), taken : SUBSET D]
    BY <1>1, <2>1
  <2>3. QED BY <2>2, <1>9, <1>10 DEF Added, ListedOnce
<1>12. Tells(next.out, deals, of, symbol)
  BY <1>8, <1>9, <1>10 DEF Added, Tells
<1>13. QED BY <1>9, <1>10, <1>11, <1>12 DEF Added, next, D

LEMMA DecideKeeps ==
  ASSUME NEW deals \in Seq(DealRecs), NEW list \in ListedOnce(DOMAIN deals), NEW of \in EntryRecs
  PROVE  LET next == Diary!Decide(list, of, deals)
         IN /\ next \in ListedOnce(DOMAIN deals)
            /\ Keeps(list.out, next.out)
            /\ of.kind # "note" => \A k \in DOMAIN of.symbols : Tells(next.out, deals, of, of.symbols[k])
<1> DEFINE N == Len(of.symbols)
           X == ListedOnce(DOMAIN deals)
           After(f) == f = [n \in 0 .. N |-> IF n = 0 THEN list
                                             ELSE Diary!TakeFor(f[n - 1], of, of.symbols[n], deals)]
           F == [n \in 1 .. N |-> [b \in X |-> Diary!TakeFor(b, of, of.symbols[n], deals)]]
           f == CHOOSE g : After(g)
<1>1. of.symbols \in Seq(STRING)
  BY DEF EntryRecs
<1>2. N \in Nat /\ DOMAIN of.symbols = 1 .. N /\ \A n \in 1 .. N : of.symbols[n] \in STRING
  BY <1>1
<1>3. Diary!Decide(list, of, deals) = IF of.kind = "note" THEN list ELSE f[N]
  BY DEF Diary!Decide
<1>4. /\ \A n \in 1 .. N, b \in X : Diary!TakeFor(b, of, of.symbols[n], deals) \in X
      /\ \A n \in 1 .. N, b \in X : Keeps(b.out, Diary!TakeFor(b, of, of.symbols[n], deals).out)
      /\ \A n \in 1 .. N, b \in X : Tells(Diary!TakeFor(b, of, of.symbols[n], deals).out, deals, of, of.symbols[n])
  BY <1>2, TakeForKeeps
<1>5. F \in [1 .. N -> [X -> X]]
  <2> HIDE DEF N, X
  <2>1. QED BY <1>4
<1>6. \A n \in 1 .. N, b \in X : F[n][b] = Diary!TakeFor(b, of, of.symbols[n], deals)
  OBVIOUS
<1>7. list \in X
  OBVIOUS
<1> HIDE DEF F, N, X
<1>8. PICK g \in [0 .. N -> X] : g[0] = list /\ \A n \in 1 .. N : g[n] = F[n][g[n - 1]]
  <2>1. Runs(X, list, N, F) # {}
    BY <1>2, <1>5, <1>7, StepsHaveACourse
  <2>2. QED BY <2>1 DEF Runs
<1>9. \A n \in 0 .. N : n # 0 => n \in 1 .. N /\ n - 1 \in 0 .. N
  BY <1>2
<1>10. After(g)
  BY <1>6, <1>8, <1>9
<1>11. After(f)
  <2> HIDE DEF After
  <2>1. QED BY <1>10
<1>12. \A n \in 0 .. N : f[n] = IF n = 0 THEN list ELSE Diary!TakeFor(f[n - 1], of, of.symbols[n], deals)
  BY <1>11
<1> HIDE DEF f
<1> DEFINE Good == {n \in 0 .. N : /\ f[n] \in X /\ Keeps(list.out, f[n].out)
                                   /\ \A k \in 1 .. n : Tells(f[n].out, deals, of, of.symbols[k])}
<1>13. 0 \in Good
  <2>1. f[0] = list /\ 0 \in 0 .. N
    BY <1>2, <1>12
  <2>2. QED BY <1>7, <2>1, KeepingIs
<1>14. ASSUME NEW n \in 1 .. N, n - 1 \in Good PROVE n \in Good
  <2>1. /\ f[n - 1] \in X /\ Keeps(list.out, f[n - 1].out)
        /\ \A k \in 1 .. n - 1 : Tells(f[n - 1].out, deals, of, of.symbols[k])
    BY <1>14
  <2>2. n \in 0 .. N /\ n # 0 /\ \A k \in 1 .. n : k # n => k \in 1 .. n - 1
    BY <1>2
  <2>3. f[n] = Diary!TakeFor(f[n - 1], of, of.symbols[n], deals)
    BY <1>12, <2>2
  <2>4. f[n] \in X /\ Keeps(f[n - 1].out, f[n].out) /\ Tells(f[n].out, deals, of, of.symbols[n])
    BY <1>4, <2>1, <2>3
  <2>5. Keeps(list.out, f[n].out)
    BY <2>1, <2>4, KeepingIs
  <2>6. \A k \in 1 .. n : Tells(f[n].out, deals, of, of.symbols[k])
    BY <2>1, <2>2, <2>4, KeepingIs
  <2>7. QED BY <2>2, <2>4, <2>5, <2>6
<1> HIDE DEF Good
<1>15. N \in Good
  <2>1. 0 .. N \subseteq Good
    BY <1>2, <1>13, <1>14, NoFirstException
  <2>2. QED BY <1>2, <2>1
<1>16. /\ f[N] \in X /\ Keeps(list.out, f[N].out)
       /\ \A k \in 1 .. N : Tells(f[N].out, deals, of, of.symbols[k])
  BY <1>15 DEF Good
<1>17. CASE of.kind = "note"
  BY <1>3, <1>7, <1>17, KeepingIs DEF X
<1>18. CASE of.kind # "note"
  BY <1>2, <1>3, <1>16, <1>18 DEF X
<1>19. QED BY <1>17, <1>18

\* Every stock of the entries is told of.
LEMMA WrittenTells ==
  ASSUME NEW deals \in Seq(DealRecs), NEW entries \in Seq(EntryRecs)
  PROVE  LET all == Diary!Written(entries, deals)
         IN /\ all \in ListedOnce(DOMAIN deals)
            /\ \A e \in DOMAIN entries : entries[e].kind # "note" =>
                 \A k \in DOMAIN entries[e].symbols : Tells(all.out, deals, entries[e], entries[e].symbols[k])
<1> DEFINE N == Len(entries)
           X == ListedOnce(DOMAIN deals)
           start == [out |-> <<>>, taken |-> {}]
           After(f) == f = [n \in 0 .. N |-> IF n = 0 THEN start ELSE Diary!Decide(f[n - 1], entries[n], deals)]
           F == [n \in 1 .. N |-> [b \in X |-> Diary!Decide(b, entries[n], deals)]]
           f == CHOOSE g : After(g)
           All(list, e) == entries[e].kind # "note" =>
                 \A k \in DOMAIN entries[e].symbols : Tells(list.out, deals, entries[e], entries[e].symbols[k])
<1>1. N \in Nat /\ DOMAIN entries = 1 .. N /\ \A n \in 1 .. N : entries[n] \in EntryRecs
  OBVIOUS
<1>2. Diary!Written(entries, deals) = f[N]
  BY DEF Diary!Written
<1>3. /\ \A n \in 1 .. N, b \in X : Diary!Decide(b, entries[n], deals) \in X
      /\ \A n \in 1 .. N, b \in X : Keeps(b.out, Diary!Decide(b, entries[n], deals).out)
      /\ \A n \in 1 .. N, b \in X : All(Diary!Decide(b, entries[n], deals), n)
  BY <1>1, DecideKeeps
<1>4. F \in [1 .. N -> [X -> X]]
  <2> HIDE DEF N, X
  <2>1. QED BY <1>3
<1>5. \A n \in 1 .. N, b \in X : F[n][b] = Diary!Decide(b, entries[n], deals)
  OBVIOUS
<1>6. start \in X
  <2>1. <<>> \in Seq(DecisionRecs(DOMAIN deals)) /\ DOMAIN <<>> = {}
    OBVIOUS
  <2>2. Once(<<>>, {}, DOMAIN deals)
    BY <2>1 DEF Once
  <2>3. QED BY <2>1, <2>2 DEF ListedOnce
<1>7. \A e \in 1 .. N, a, b \in X : Keeps(a.out, b.out) /\ All(a, e) => All(b, e)
  BY KeepingIs
<1> HIDE DEF F, N, X, start, All
<1>8. PICK g \in [0 .. N -> X] : g[0] = start /\ \A n \in 1 .. N : g[n] = F[n][g[n - 1]]
  <2>1. Runs(X, start, N, F) # {}
    BY <1>1, <1>4, <1>6, StepsHaveACourse
  <2>2. QED BY <2>1 DEF Runs
<1>9. \A n \in 0 .. N : n # 0 => n \in 1 .. N /\ n - 1 \in 0 .. N
  BY <1>1
<1>10. After(g)
  BY <1>5, <1>8, <1>9
<1>11. After(f)
  <2> HIDE DEF After
  <2>1. QED BY <1>10
<1>12. \A n \in 0 .. N : f[n] = IF n = 0 THEN start ELSE Diary!Decide(f[n - 1], entries[n], deals)
  BY <1>11
<1> HIDE DEF f
<1> DEFINE Good == {n \in 0 .. N : f[n] \in X /\ \A e \in 1 .. n : All(f[n], e)}
<1>13. 0 \in Good
  <2>1. f[0] = start /\ 0 \in 0 .. N
    BY <1>1, <1>12
  <2>2. QED BY <1>6, <2>1
<1>14. ASSUME NEW n \in 1 .. N, n - 1 \in Good PROVE n \in Good
  <2>1. f[n - 1] \in X /\ \A e \in 1 .. n - 1 : All(f[n - 1], e)
    BY <1>14
  <2>2. n \in 0 .. N /\ n # 0 /\ \A e \in 1 .. n : e # n => e \in 1 .. n - 1 /\ e \in 1 .. N
    BY <1>1
  <2>3. f[n] = Diary!Decide(f[n - 1], entries[n], deals)
    BY <1>12, <2>2
  <2>4. f[n] \in X /\ Keeps(f[n - 1].out, f[n].out) /\ All(f[n], n)
    BY <1>3, <2>1, <2>3
  <2>5. \A e \in 1 .. n : All(f[n], e)
    BY <1>7, <2>1, <2>2, <2>4
  <2>6. QED BY <2>2, <2>4, <2>5
<1> HIDE DEF Good
<1>15. N \in Good
  <2>1. 0 .. N \subseteq Good
    BY <1>1, <1>13, <1>14, NoFirstException
  <2>2. QED BY <1>1, <2>1
<1>16. f[N] \in X /\ \A e \in 1 .. N : All(f[N], e)
  BY <1>15 DEF Good
<1>17. QED BY <1>1, <1>2, <1>16 DEF X, All

LEMMA DecisionsDoCountOnce ==
  ASSUME NEW deals \in Seq(DealRecs), NEW entries \in Seq(EntryRecs)
  PROVE  Diary!DecisionsCountOnce(entries, deals)
<1> DEFINE N == Len(deals)
           D == DOMAIN deals
           X == Seq(DecisionRecs(D))
           all == Diary!Written(entries, deals)
           rest(n) == [entry |-> Diary!NoEntry, symbol |-> deals[n].symbol, deal |-> {n}]
           Next_(out, n) == IF n \in all.taken THEN out ELSE Append(out, rest(n))
           After(f) == f = [n \in 0 .. N |-> IF n = 0 THEN all.out ELSE IF n \in all.taken THEN f[n - 1]
                                             ELSE Append(f[n - 1], rest(n))]
           F == [n \in 1 .. N |-> [b \in X |-> Next_(b, n)]]
           f == CHOOSE g : After(g)
<1>1. N \in Nat /\ D = 1 .. N /\ \A n \in 1 .. N : deals[n].symbol \in STRING
  <2>1. \A n \in 1 .. N : deals[n] \in DealRecs
    OBVIOUS
  <2>2. QED BY <2>1 DEF DealRecs
<1>2. Diary!decisionsFrom(entries, deals) = f[N]
  BY DEF Diary!decisionsFrom
<1>3. all \in ListedOnce(D)
  BY WrittenTells
<1>4. \A e \in DOMAIN entries : entries[e].kind # "note" =>
          \A k \in DOMAIN entries[e].symbols : Tells(all.out, deals, entries[e], entries[e].symbols[k])
  BY WrittenTells
<1>5. all.out \in X /\ all.taken \in SUBSET D /\ Once(all.out, all.taken, D)
  BY <1>3 DEF ListedOnce
<1> HIDE DEF all
<1>6. \A n \in 1 .. N : rest(n) \in DecisionRecs(D) /\ rest(n).deal = {n}
  BY <1>1 DEF DecisionRecs
<1> HIDE DEF rest
<1>7. \A n \in 1 .. N, b \in X : Next_(b, n) \in X
  <2> HIDE DEF D
  <2>1. QED BY <1>6
<1>8. F \in [1 .. N -> [X -> X]]
  <2> HIDE DEF N, X, Next_
  <2>1. QED BY <1>7
<1>9. \A n \in 1 .. N, b \in X : F[n][b] = Next_(b, n)
  OBVIOUS
<1> HIDE DEF F, N, X
<1>10. PICK g \in [0 .. N -> X] : g[0] = all.out /\ \A n \in 1 .. N : g[n] = F[n][g[n - 1]]
  <2>1. Runs(X, all.out, N, F) # {}
    BY <1>1, <1>5, <1>8, StepsHaveACourse
  <2>2. QED BY <2>1 DEF Runs
<1>11. \A n \in 0 .. N : n # 0 => n \in 1 .. N /\ n - 1 \in 0 .. N
  BY <1>1
<1>12. After(g)
  BY <1>9, <1>10, <1>11
<1>13. After(f)
  <2> HIDE DEF After
  <2>1. QED BY <1>12
<1>14. \A n \in 0 .. N : f[n] = IF n = 0 THEN all.out ELSE Next_(f[n - 1], n)
  BY <1>13
<1> HIDE DEF f, D
<1> DEFINE Good == {n \in 0 .. N : Once(f[n], all.taken \union 1 .. n, D) /\ Keeps(all.out, f[n])}
<1>15. 0 \in Good
  <2>1. f[0] = all.out /\ 0 \in 0 .. N /\ all.taken \union 1 .. 0 = all.taken
    BY <1>1, <1>14
  <2>2. QED BY <1>5, <2>1, KeepingIs
<1>16. ASSUME NEW n \in 1 .. N, n - 1 \in Good PROVE n \in Good
  <2>1. Once(f[n - 1], all.taken \union 1 .. n - 1, D) /\ Keeps(all.out, f[n - 1])
    BY <1>16
  <2>2. n \in 0 .. N /\ n # 0 /\ n \notin 1 .. n - 1 /\ 1 .. n = (1 .. n - 1) \union {n}
    BY <1>1
  <2>3. f[n] = Next_(f[n - 1], n)
    BY <1>14, <2>2
  <2>4. CASE n \in all.taken
    <3>1. all.taken \union 1 .. n = all.taken \union 1 .. n - 1 /\ f[n] = f[n - 1]
      BY <2>2, <2>3, <2>4
    <3>2. QED BY <2>1, <2>2, <3>1
  <2>5. CASE n \notin all.taken
    <3>1. rest(n) \in DecisionRecs(D) /\ rest(n).deal \intersect (all.taken \union 1 .. n - 1) = {}
      BY <1>6, <2>2, <2>5
    <3>2. \A d, e \in rest(n).deal : d = e
      BY <1>6
    <3>3. Added(f[n - 1], all.taken \union 1 .. n - 1, rest(n), D)
      <4>1. Addable(f[n - 1], all.taken \union 1 .. n - 1, rest(n), D)
        BY <2>1, <3>1, <3>2 DEF Addable
      <4>2. QED BY <4>1, OneMore
    <3>4. f[n] = Append(f[n - 1], rest(n))
      BY <2>3, <2>5
    <3>5. (all.taken \union 1 .. n - 1) \union rest(n).deal = all.taken \union 1 .. n
      BY <1>6, <2>2
    <3>6. QED BY <2>1, <2>2, <3>3, <3>4, <3>5, KeepingIs DEF Added
  <2>6. QED BY <2>4, <2>5
<1> HIDE DEF Good
<1>17. N \in Good
  <2>1. 0 .. N \subseteq Good
    BY <1>1, <1>15, <1>16, NoFirstException
  <2>2. QED BY <1>1, <2>1
<1> DEFINE dec == Diary!decisionsFrom(entries, deals)
<1>18. Once(dec, all.taken \union 1 .. N, D) /\ Keeps(all.out, dec)
  BY <1>2, <1>17 DEF Good
<1> HIDE DEF dec
<1>19. ASSUME NEW d \in D PROVE Diary!Cardinality({n \in DOMAIN dec : dec[n].deal = {d}}) = 1
  <2>1. PICK i \in DOMAIN dec : dec[i].deal = {d} /\ \A j \in DOMAIN dec : dec[j].deal = {d} => j = i
    BY <1>1, <1>18 DEF Once
  <2>2. {n \in DOMAIN dec : dec[n].deal = {d}} = {i}
    BY <2>1
  <2>3. Cardinality({i}) = 1
    BY FS_Singleton
  <2>4. Diary!Cardinality({i}) = Cardinality({i})
    BY DEF Diary!Cardinality, Cardinality
  <2>5. QED BY <2>2, <2>3, <2>4
<1>20. ASSUME NEW e \in DOMAIN entries, entries[e].kind # "note", NEW k \in DOMAIN entries[e].symbols
       PROVE  LET symbol == entries[e].symbols[k]
              IN \E n \in DOMAIN dec :
                     /\ dec[n].entry = entries[e] /\ dec[n].symbol = symbol
                     /\ \A d \in dec[n].deal : deals[d].side = entries[e].kind /\ deals[d].symbol = symbol
  <2>1. Tells(dec, deals, entries[e], entries[e].symbols[k])
    BY <1>4, <1>18, <1>20, KeepingIs
  <2>2. QED BY <2>1 DEF Tells
<1>21. QED BY <1>19, <1>20 DEF Diary!DecisionsCountOnce, D, dec

\* TradesAddUp: what is held is what was bought and not sold since it was last at zero, at a
\* cost between those of two of its purchases, and every decision is counted once, for any
\* trades in any order, any entries and any deals.
THEOREM BooksAddUp ==
  ASSUME booked \in Seq(TradeRecs), written.entries \in Seq(EntryRecs), written.deals \in Seq(DealRecs)
  PROVE  TradesAddUp
<1>1. Copy!PositionsAddUp(booked)
  BY PositionsDoAddUp
<1>2. Diary!DecisionsCountOnce(written.entries, written.deals)
  BY DecisionsDoCountOnce
<1>3. QED BY <1>1, <1>2 DEF TradesAddUp

-----------------------------------------------------------------------------
(* The translation to UTC: hours and weekdays turn together. *)

PartRecs == [kind : STRING, lo : Int, hi : Int, step : SUBSET Nat]
ExpressionRecs == [hour : SUBSET PartRecs, dow : SUBSET PartRecs, dated : BOOLEAN, offset : Int]

LEMMA ExpandIsWithin ==
  ASSUME NEW field \in SUBSET PartRecs, NEW min \in Int, NEW max \in Int
  PROVE  Cron!expand(field, min, max) \subseteq min .. max
<1>1. SUFFICES ASSUME Cron!Understood(field, min, max), NEW p \in field,
                      NEW v \in Cron!first(p, min) .. Cron!last(p, max)
               PROVE  v \in min .. max
  BY DEF Cron!expand
<1>2. p.lo \in Int /\ p.hi \in Int
  BY DEF PartRecs
<1>3. Cron!first(p, min) \in Int /\ Cron!last(p, max) \in Int
  BY <1>2 DEF Cron!first, Cron!last
<1>4. min <= Cron!first(p, min) /\ Cron!last(p, max) <= max
  BY <1>1 DEF Cron!Understood
<1>5. QED BY <1>3, <1>4

\* An hour of the week, turned: its weekday moves with the midnights its hour crosses.
LEMMA WeekTurns ==
  /\ \A d, x \in Int : (24 * d + x) % 168 = 24 * ((d + (x \div 24)) % 7) + (x % 24)
  /\ \A d, x \in Int : (d + x) % 7 \in 0 .. 6 /\ x % 24 \in 0 .. 23 /\ x \div 24 \in Int
  /\ \A w \in 0 .. 6, c \in Int : (w - c) % 7 \in 0 .. 6 /\ (((w - c) % 7) + c) % 7 = w
<1>1. \A d, x \in Int : (24 * d + x) % 168 = 24 * ((d + (x \div 24)) % 7) + (x % 24)
  <2>1. SUFFICES ASSUME NEW d \in Int, NEW x \in Int
                 PROVE  (24 * d + x) % 168 = 24 * ((d + (x \div 24)) % 7) + (x % 24)
    OBVIOUS
  <2>2. PICK c \in Int, r \in 0 .. 23 : x = 24 * c + r /\ x \div 24 = c /\ x % 24 = r
    OBVIOUS
  <2>3. PICK k \in Int, m \in 0 .. 6 : d + c = 7 * k + m /\ (d + c) % 7 = m
    OBVIOUS
  <2>4. 24 * d + x = 168 * k + (24 * m + r) /\ 24 * m + r \in 0 .. 167
    BY <2>2, <2>3
  <2>5. QED BY <2>2, <2>3, <2>4
<1>2. \A d, x \in Int : (d + x) % 7 \in 0 .. 6 /\ x % 24 \in 0 .. 23 /\ x \div 24 \in Int
  OBVIOUS
<1>3. \A w \in 0 .. 6, c \in Int : (w - c) % 7 \in 0 .. 6 /\ (((w - c) % 7) + c) % 7 = w
  OBVIOUS
<1>4. QED BY <1>1, <1>2, <1>3

\* The hours of a day cross one midnight at most more than another.
LEMMA CrossingsAre ==
  ASSUME NEW e \in ExpressionRecs
  PROVE  /\ Cron!Hours(e) \subseteq 0 .. 23 /\ Cron!Weekdays(e) \subseteq 0 .. 6 /\ Cron!shift(e) \in Int
         /\ \A h, g \in Cron!Hours(e) :
               /\ (h - Cron!shift(e)) % 24 = (g - Cron!shift(e)) % 24 => h = g
               /\ (h - Cron!shift(e)) \div 24 < (g - Cron!shift(e)) \div 24 =>
                     (g - Cron!shift(e)) \div 24 = (h - Cron!shift(e)) \div 24 + 1
         /\ Cron!Cardinality(Cron!crossings(e)) > 1 => \E c, d \in Cron!crossings(e) : c < d
         /\ \A c, d \in Cron!crossings(e) : c # d => Cron!Cardinality(Cron!crossings(e)) > 1
<1> DEFINE s == Cron!shift(e)
           H == Cron!Hours(e)
           C == Cron!crossings(e)
<1>1. e.hour \in SUBSET PartRecs /\ e.dow \in SUBSET PartRecs /\ e.offset \in Int
  BY DEF ExpressionRecs
<1>2. s \in Int
  BY <1>1 DEF Cron!shift
<1>3. H \subseteq 0 .. 23
  BY <1>1, ExpandIsWithin DEF Cron!Hours
<1>4. Cron!Weekdays(e) \subseteq 0 .. 6
  <2>1. Cron!expand(e.dow, 0, 7) \subseteq 0 .. 7
    BY <1>1, ExpandIsWithin
  <2>2. \A d \in 0 .. 7 : d % 7 \in 0 .. 6
    OBVIOUS
  <2>3. QED BY <2>1, <2>2 DEF Cron!Weekdays
<1>5. C = {(h - s) \div 24 : h \in H}
  BY DEF Cron!crossings
<1> HIDE DEF s, H, C
<1>6. \A h, g \in 0 .. 23 : /\ (h - s) % 24 = (g - s) % 24 => h = g
                            /\ (h - s) \div 24 < (g - s) \div 24 => (g - s) \div 24 = (h - s) \div 24 + 1
                            /\ (h - s) \div 24 \in {(0 - s) \div 24, (0 - s) \div 24 + 1}
  BY <1>2
<1>7. C \subseteq {(0 - s) \div 24, (0 - s) \div 24 + 1} /\ (0 - s) \div 24 \in Int
  BY <1>2, <1>3, <1>5, <1>6
<1>8. Cron!Cardinality(C) = Cardinality(C)
  BY DEF Cron!Cardinality, Cardinality
<1>9. ASSUME NEW c \in C, NEW d \in C, c # d PROVE Cardinality(C) > 1
  <2>1. C = {c} \union {d} /\ d \notin {c}
    BY <1>7, <1>9
  <2>2. IsFiniteSet({c}) /\ Cardinality({c}) = 1
    BY FS_Singleton
  <2>3. Cardinality({c} \union {d}) = Cardinality({c}) + 1
    BY <2>1, <2>2, FS_AddElement
  <2>4. QED BY <2>1, <2>2, <2>3
<1>10. ASSUME Cardinality(C) > 1 PROVE \E c, d \in C : c < d
  <2>1. SUFFICES ASSUME \A c, d \in C : ~(c < d) PROVE FALSE
    OBVIOUS
  <2>2. \A c, d \in C : c \in Int /\ d \in Int
    BY <1>7
  <2>3. \A c, d \in C : c = d
    BY <2>1, <2>2
  <2>4. C = {} \/ \E c : C = {c}
    BY <2>3
  <2>5. Cardinality(C) \in {0, 1}
    BY <2>4, FS_EmptySet, FS_Singleton
  <2>6. QED BY <1>10, <2>5
<1>11. \A c, d \in C : c # d => Cardinality(C) > 1
  BY <1>9
<1>12. QED BY <1>2, <1>3, <1>4, <1>6, <1>8, <1>10, <1>11 DEF s, H, C

\* The hours of the week in UTC, by the day and the hour they are written for.
LEMMA FiresInUtcIs ==
  ASSUME NEW e \in ExpressionRecs
  PROVE  Cron!FiresInUtc(e) = {24 * ((d + ((h - Cron!shift(e)) \div 24)) % 7) + ((h - Cron!shift(e)) % 24) :
                                  d \in Cron!Weekdays(e), h \in Cron!Hours(e)}
<1> DEFINE s == Cron!shift(e)
           Turned(i) == (i - s) % 168
           At(d, h) == 24 * ((d + ((h - s) \div 24)) % 7) + ((h - s) % 24)
<1>1. Cron!Hours(e) \subseteq 0 .. 23 /\ Cron!Weekdays(e) \subseteq 0 .. 6 /\ s \in Int
  BY CrossingsAre
<1>2. Cron!FiresInUtc(e) = {Turned(i) : i \in {24 * d + h : d \in Cron!Weekdays(e), h \in Cron!Hours(e)}}
  BY DEF Cron!FiresInUtc, Cron!FiresInZone
<1> HIDE DEF s
<1>3. ASSUME NEW d \in Cron!Weekdays(e), NEW h \in Cron!Hours(e) PROVE Turned(24 * d + h) = At(d, h)
  <2>1. d \in Int /\ h - s \in Int /\ (24 * d + h) - s = 24 * d + (h - s)
    BY <1>1
  <2>2. (24 * d + (h - s)) % 168 = 24 * ((d + ((h - s) \div 24)) % 7) + ((h - s) % 24)
    BY <2>1, WeekTurns
  <2>3. QED BY <2>1, <2>2
<1> HIDE DEF Turned, At
<1>4. Cron!FiresInUtc(e) = {At(d, h) : d \in Cron!Weekdays(e), h \in Cron!Hours(e)}
  BY <1>2, <1>3
<1>5. QED BY <1>4 DEF At, s

\* What is installed fires when the settings say.
LEMMA TranslatedFires ==
  ASSUME NEW e \in ExpressionRecs, ~Cron!Declined(e)
  PROVE  e.offset % 60 = 0 /\ Cron!FiresTranslated(e) = Cron!FiresInUtc(e)
<1> DEFINE s == Cron!shift(e)
           H == Cron!Hours(e)
           W == Cron!Weekdays(e)
           C == Cron!crossings(e)
           At(d, h) == 24 * ((d + ((h - s) \div 24)) % 7) + ((h - s) % 24)
<1>1. H \subseteq 0 .. 23 /\ W \subseteq 0 .. 6 /\ s \in Int /\ e.offset \in Int
  BY CrossingsAre DEF ExpressionRecs
<1>2. Cron!FiresInUtc(e) = {At(d, h) : d \in W, h \in H}
  BY FiresInUtcIs
<1>3. CASE e.offset = 0
  <2>1. s = 0
    BY <1>3 DEF Cron!shift
  <2> DEFINE Plain(d, h) == 24 * d + h
  <2>2. Cron!FiresTranslated(e) = {Plain(d, h) : d \in W, h \in H}
    BY <1>3 DEF Cron!FiresTranslated
  <2>3. \A d \in 0 .. 6, h \in 0 .. 23 : At(d, h) = Plain(d, h)
    BY <2>1
  <2> HIDE DEF At, Plain, W, H, s
  <2>4. \A d \in W, h \in H : At(d, h) = Plain(d, h)
    BY <1>1, <2>3
  <2>5. Cron!FiresInUtc(e) = {Plain(d, h) : d \in W, h \in H}
    BY <1>2, <2>4
  <2>6. 0 % 60 = 0
    OBVIOUS
  <2>7. e.offset % 60 = 0
    BY <1>3, <2>6
  <2>8. Cron!FiresTranslated(e) = Cron!FiresInUtc(e)
    BY <2>2, <2>5
  <2>9. QED BY <2>7, <2>8
<1>4. CASE e.offset # 0
  <2>1. e.offset % 60 = 0 /\ H # {} /\ (e.dow = Cron!Unrestricted \/ ~(Cron!Cardinality(C) > 1))
    BY <1>4 DEF Cron!Declined
  <2>2. Cron!FiresTranslated(e) = {24 * d + h : d \in Cron!shiftedWeekdays(e), h \in {(g - s) % 24 : g \in H}}
    BY <1>4 DEF Cron!FiresTranslated, Cron!shiftedHours
  <2>3. C = {(h - s) \div 24 : h \in H}
    BY DEF Cron!crossings
  <2>4. CASE e.dow = Cron!Unrestricted
    <3>1. Cron!shiftedWeekdays(e) = 0 .. 6
      BY <2>4 DEF Cron!shiftedWeekdays
    <3>2. W = 0 .. 6
      <4>1. Cron!expand(e.dow, 0, 7) = 0 .. 7
        BY <2>4 DEF Cron!expand, Cron!Unrestricted, Cron!Every, Cron!NoStep, Cron!Understood, Cron!first, Cron!last,
                    Cron!stepOf
      <4>2. \A d \in 0 .. 6 : d % 7 = d /\ d \in 0 .. 7
        OBVIOUS
      <4>3. \A d \in 0 .. 7 : d % 7 \in 0 .. 6
        OBVIOUS
      <4>4. QED BY <4>1, <4>2, <4>3 DEF Cron!Weekdays
    <3> DEFINE V == Cron!shiftedWeekdays(e)
               R == {(g - s) % 24 : g \in H}
               Sum(v, r) == 24 * v + r
    <3> HIDE DEF s, H, W, C, V
    <3>3. ASSUME NEW d \in W, NEW h \in H
          PROVE  At(d, h) \in {Sum(v, r) : v \in V, r \in R}
      <4>1. d \in Int /\ h - s \in Int
        BY <1>1
      <4>2. (d + ((h - s) \div 24)) % 7 \in 0 .. 6
        BY <4>1, WeekTurns
      <4>3. At(d, h) = Sum((d + ((h - s) \div 24)) % 7, (h - s) % 24) /\ (h - s) % 24 \in R
        OBVIOUS
      <4> HIDE DEF At, Sum, R
      <4>4. QED BY <3>1, <4>2, <4>3 DEF V
    <3>4. ASSUME NEW v \in V, NEW r \in R
          PROVE  Sum(v, r) \in {At(d, g) : d \in W, g \in H}
      <4>0. PICK h \in H : r = (h - s) % 24
        OBVIOUS
      <4>1. (h - s) \div 24 \in Int
        BY <1>1
      <4> DEFINE d == (v - ((h - s) \div 24)) % 7
      <4>2. d \in W /\ (d + ((h - s) \div 24)) % 7 = v
        BY <3>1, <3>2, <4>1, WeekTurns DEF V
      <4> HIDE DEF d
      <4>3. At(d, h) = Sum(v, r)
        BY <4>0, <4>2
      <4> HIDE DEF At, Sum
      <4>4. QED BY <4>2, <4>3
    <3>5. Cron!FiresTranslated(e) = {Sum(v, r) : v \in V, r \in R}
      BY <2>2 DEF V
    <3> HIDE DEF At, Sum, R
    <3>6. {At(d, h) : d \in W, h \in H} \subseteq {Sum(v, r) : v \in V, r \in R}
      BY <3>3
    <3>7. {Sum(v, r) : v \in V, r \in R} \subseteq {At(d, h) : d \in W, h \in H}
      BY <3>4
    <3>8. {At(d, h) : d \in W, h \in H} = {Sum(v, r) : v \in V, r \in R}
      BY <3>6, <3>7
    <3>9. QED BY <1>2, <2>1, <3>5, <3>8
  <2>5. CASE e.dow # Cron!Unrestricted
    <3>1. \A c, d \in C : c = d
      BY <2>1, <2>5, CrossingsAre
    <3>2. PICK c : C = {c}
      <4>1. C # {}
        BY <2>1, <2>3
      <4>2. PICK c \in C : TRUE
        BY <4>1
      <4>3. C = {c}
        BY <3>1
      <4>4. QED BY <4>3
    <3>3. \A h \in H : (h - s) \div 24 = c
      BY <2>3, <3>2
    <3>4. Cron!shiftedWeekdays(e) = {(d + c) % 7 : d \in W}
      BY <2>5, <3>2 DEF Cron!shiftedWeekdays
    <3>5. \A d \in W, h \in H : At(d, h) = 24 * ((d + c) % 7) + ((h - s) % 24)
      BY <3>3
    <3> HIDE DEF s, H, W, C, At
    <3>6. {At(d, h) : d \in W, h \in H} = {24 * ((d + c) % 7) + ((h - s) % 24) : d \in W, h \in H}
      BY <3>5
    <3>7. {24 * v + r : v \in {(d + c) % 7 : d \in W}, r \in {(g - s) % 24 : g \in H}}
             = {24 * ((d + c) % 7) + ((h - s) % 24) : d \in W, h \in H}
      OBVIOUS
    <3>8. QED BY <1>2, <2>1, <2>2, <3>4, <3>6, <3>7
  <2>6. QED BY <2>4, <2>5
<1>5. QED BY <1>3, <1>4

\* Hours that cross different midnights can be said of every day only.
LEMMA SayableIsDaily ==
  ASSUME NEW e \in ExpressionRecs, Cron!Sayable(Cron!FiresInUtc(e)), Cron!Weekdays(e) # {},
         NEW c \in Cron!crossings(e), NEW n \in Cron!crossings(e), c < n
  PROVE  Cron!Weekdays(e) = 0 .. 6
<1> DEFINE s == Cron!shift(e)
           H == Cron!Hours(e)
           W == Cron!Weekdays(e)
           Week == Cron!FiresInUtc(e)
           At(d, h) == 24 * ((d + ((h - s) \div 24)) % 7) + ((h - s) % 24)
<1>1. H \subseteq 0 .. 23 /\ W \subseteq 0 .. 6 /\ s \in Int
  BY CrossingsAre
<1>2. Week = {At(d, h) : d \in W, h \in H}
  BY FiresInUtcIs
<1>3. PICK h \in H, g \in H : (h - s) \div 24 = c /\ (g - s) \div 24 = n
  BY DEF Cron!crossings
<1>4. n = c + 1 /\ \A k \in H : (k - s) % 24 = (g - s) % 24 => k = g
  BY <1>3, CrossingsAre
<1>5. \A i, j \in Week : 24 * (i \div 24) + (j % 24) \in Week
  BY DEF Cron!Sayable
<1> HIDE DEF s, H, W, Week
<1>6. c \in Int
  BY <1>1, <1>3
<1>7. \A d \in W, k \in H : /\ (d + ((k - s) \div 24)) % 7 \in 0 .. 6 /\ (k - s) % 24 \in 0 .. 23
                            /\ At(d, k) \div 24 = (d + ((k - s) \div 24)) % 7
                            /\ At(d, k) % 24 = (k - s) % 24
  <2>1. SUFFICES ASSUME NEW d \in W, NEW k \in H
                 PROVE  /\ (d + ((k - s) \div 24)) % 7 \in 0 .. 6 /\ (k - s) % 24 \in 0 .. 23
                        /\ At(d, k) \div 24 = (d + ((k - s) \div 24)) % 7
                        /\ At(d, k) % 24 = (k - s) % 24
    OBVIOUS
  <2>2. (d + ((k - s) \div 24)) % 7 \in 0 .. 6 /\ (k - s) % 24 \in 0 .. 23
    BY <1>1, WeekTurns
  <2>3. \A v \in 0 .. 6, r \in 0 .. 23 : (24 * v + r) \div 24 = v /\ (24 * v + r) % 24 = r
    OBVIOUS
  <2>4. QED BY <2>2, <2>3
<1>8. ASSUME NEW w \in W PROVE (w + 6) % 7 \in W
  <2>1. At(w, h) \in Week /\ At(w, g) \in Week
    BY <1>2
  <2>2. 24 * ((w + c) % 7) + ((g - s) % 24) \in Week
    <3>1. At(w, h) \div 24 = (w + c) % 7 /\ At(w, g) % 24 = (g - s) % 24
      BY <1>3, <1>7
    <3> HIDE DEF At
    <3>2. QED BY <1>5, <2>1, <3>1
  <2>3. PICK v \in W, k \in H : 24 * ((w + c) % 7) + ((g - s) % 24) = At(v, k)
    BY <1>2, <2>2
  <2>4. /\ (w + c) % 7 \in 0 .. 6 /\ (g - s) % 24 \in 0 .. 23
        /\ (v + ((k - s) \div 24)) % 7 \in 0 .. 6 /\ (k - s) % 24 \in 0 .. 23
    BY <1>3, <1>7
  <2>5. \A a, b \in 0 .. 6, q, r \in 0 .. 23 : 24 * a + q = 24 * b + r => a = b /\ q = r
    OBVIOUS
  <2>6. (w + c) % 7 = (v + ((k - s) \div 24)) % 7 /\ (g - s) % 24 = (k - s) % 24
    BY <2>3, <2>4, <2>5
  <2>7. (v + c + 1) % 7 = (w + c) % 7
    <3>1. (k - s) \div 24 = c + 1
      BY <1>3, <1>4, <2>6
    <3>2. v \in Int /\ v + (c + 1) = v + c + 1
      BY <1>1, <1>6
    <3>3. QED BY <2>6, <3>1, <3>2
  <2>8. v = (w + 6) % 7
    <3>1. v \in 0 .. 6 /\ w \in 0 .. 6
      BY <1>1
    <3>2. QED BY <1>6, <2>7, <3>1
  <2>9. QED BY <2>8
<1>9. /\ (0 \in W => 6 \in W) /\ (6 \in W => 5 \in W) /\ (5 \in W => 4 \in W) /\ (4 \in W => 3 \in W)
      /\ (3 \in W => 2 \in W) /\ (2 \in W => 1 \in W) /\ (1 \in W => 0 \in W)
  <2>1. /\ (0 + 6) % 7 = 6 /\ (6 + 6) % 7 = 5 /\ (5 + 6) % 7 = 4 /\ (4 + 6) % 7 = 3
        /\ (3 + 6) % 7 = 2 /\ (2 + 6) % 7 = 1 /\ (1 + 6) % 7 = 0
    OBVIOUS
  <2>2. \A w \in W : (w + 6) % 7 \in W
    BY <1>8
  <2>3. QED BY <2>1, <2>2
<1>10. W # {} /\ \A w \in W : w \in {0, 1, 2, 3, 4, 5, 6}
  BY <1>1 DEF W
<1>11. \A v \in {0, 1, 2, 3, 4, 5, 6} : v \in W
  BY <1>9, <1>10
<1>12. W = 0 .. 6
  <2>1. \A v \in 0 .. 6 : v \in {0, 1, 2, 3, 4, 5, 6}
    OBVIOUS
  <2>2. 0 .. 6 \subseteq W
    BY <1>11, <2>1
  <2>3. QED BY <1>1, <2>2
<1>13. QED BY <1>12 DEF W

\* TranslationIsFaithful: what is installed fires when the settings say, and what is declined
\* has a reason, for any expression and any zone.
THEOREM InstalledIsFaithful == ASSUME cron \in ExpressionRecs PROVE TranslationIsFaithful
<1>1. CASE ~Cron!Declined(cron)
  BY <1>1, TranslatedFires DEF TranslationIsFaithful, Cron!TranslationIsFaithful
<1>2. CASE Cron!Declined(cron)
  <2>1. SUFFICES ASSUME cron.offset % 60 = 0, ~cron.dated, Cron!Hours(cron) # {}, Cron!Weekdays(cron) # {},
                        Cron!Sayable(Cron!FiresInUtc(cron))
                 PROVE  Cron!Weekdays(cron) = 0 .. 6
    BY <1>2, Zenon DEF TranslationIsFaithful, Cron!TranslationIsFaithful
  <2>2. Cron!expand(cron.dow, 0, 7) # {}
    BY <2>1 DEF Cron!Weekdays
  <2>3. Cron!Cardinality(Cron!crossings(cron)) > 1
    BY <1>2, <2>1, <2>2 DEF Cron!Declined
  <2>4. PICK c \in Cron!crossings(cron), n \in Cron!crossings(cron) : c < n
    BY <2>3, CrossingsAre
  <2>5. QED BY <2>1, <2>4, SayableIsDaily
<1>3. QED BY <1>1, <1>2

-----------------------------------------------------------------------------
(* The factor score climbs with its evidence. *)

FactorRecs == [pillars : [Verdict!Pillars -> -1 .. 10], composite : Nat, severity : STRING, stale : BOOLEAN,
               uncovered : BOOLEAN, beneish : STRING, distress : BOOLEAN]

\* A line that does not fall stays between its ends, and climbs.
Climbs(a, b, c, d, x, y) ==
  LineFrom(a, b, c, d, x) \in c .. d /\ LineFrom(a, b, c, d, x) <= LineFrom(a, b, c, d, y)

Rises(a, b, c, d, x, y) ==
  {a, b, c, d, x, y} \subseteq Int /\ a < b /\ c <= d /\ a <= x /\ x <= y /\ y <= b

LEMMA LineClimbs ==
  ASSUME NEW a, NEW b, NEW c, NEW d, NEW x, NEW y, Rises(a, b, c, d, x, y)
  PROVE  Climbs(a, b, c, d, x, y)
<1>0. /\ a \in Int /\ b \in Int /\ c \in Int /\ d \in Int /\ x \in Int /\ y \in Int
      /\ a < b /\ c <= d /\ a <= x /\ x <= y /\ y <= b
  BY DEF Rises
<1>1. \A m, n \in Nat, k \in Nat \ {0} : m <= n => m \div k <= n \div k /\ m \div k \in Nat
  OBVIOUS
<1>2. \A m \in Nat, k \in Nat \ {0} : (k * m) \div k = m
  OBVIOUS
<1>3. \A u, v, w \in Nat : u <= v => u * w <= v * w /\ u * w \in Nat
  OBVIOUS
<1>5. /\ x - a \in Nat /\ y - a \in Nat /\ d - c \in Nat /\ b - a \in Nat \ {0}
      /\ x - a <= y - a /\ x - a <= b - a
  BY <1>0
<1> DEFINE u == x - a
           v == y - a
           w == d - c
           k == b - a
<1>6. d = c + w
  BY <1>0
<1> HIDE DEF u, v, w, k
<1>7. u \in Nat /\ v \in Nat /\ w \in Nat /\ k \in Nat \ {0} /\ u <= v /\ u <= k
  BY <1>5 DEF u, v, w, k
<1>8. u * w <= v * w /\ u * w <= k * w /\ u * w \in Nat /\ v * w \in Nat /\ k * w \in Nat
  BY <1>3, <1>7
<1>9. (u * w) \div k <= (v * w) \div k /\ (u * w) \div k <= w /\ (u * w) \div k \in Nat /\ (v * w) \div k \in Nat
  BY <1>1, <1>2, <1>7, <1>8
<1>10. c + (u * w) \div k \in c .. d /\ c + (u * w) \div k <= c + (v * w) \div k
  BY <1>0, <1>6, <1>7, <1>9
<1>11. QED BY <1>10 DEF Climbs, LineFrom, u, v, w, k

LEMMA KnotsClimb ==
  ASSUME NEW i \in {1, 2}
  PROVE  /\ \A n \in 1 .. 13 : KnotAt(n, i) \in Int
         /\ \A n \in 1 .. 12 : KnotAt(n, i) < KnotAt(n + 1, i)
         /\ \A m, n \in 1 .. 13 : m <= n => KnotAt(m, i) <= KnotAt(n, i)
<1>1. \A n \in 1 .. 13 : KnotAt(n, i) \in Int
  BY KnotsAre DEF KnotAt
<1>2. \A n \in 1 .. 12 : KnotAt(n, i) < KnotAt(n + 1, i)
  BY KnotsAre DEF KnotAt
<1>3. ASSUME NEW m \in 1 .. 13
      PROVE  \A n \in 1 .. 13 : m <= n => KnotAt(m, i) <= KnotAt(n, i)
  <2> DEFINE Good == {n \in 0 .. 13 : m <= n => KnotAt(m, i) <= KnotAt(n, i)}
  <2>1. 0 \in Good
    OBVIOUS
  <2>2. ASSUME NEW n \in 1 .. 13, n - 1 \in Good PROVE n \in Good
    <3>1. SUFFICES ASSUME m <= n, m # n PROVE KnotAt(m, i) <= KnotAt(n, i)
      BY <1>1
    <3>2. n - 1 \in 1 .. 12 /\ m <= n - 1 /\ (n - 1) + 1 = n
      BY <3>1
    <3>3. KnotAt(m, i) <= KnotAt(n - 1, i) /\ KnotAt(n - 1, i) < KnotAt(n, i)
      BY <1>2, <2>2, <3>2
    <3>4. QED BY <1>1, <3>2, <3>3
  <2> HIDE DEF Good
  <2>3. 0 .. 13 \subseteq Good
    BY <2>1, <2>2, NoFirstException
  <2>4. QED BY <2>3 DEF Good
<1>4. QED BY <1>1, <1>2, <1>3

LEMMA BetweenClimbs ==
  ASSUME NEW x \in Int, NEW y \in Int, 300 <= x, x <= y, y <= 2440
  PROVE  Verdict!Between(x, 1, 2) <= Verdict!Between(y, 1, 2)
<1>1. OnALine(x, 1, 2) /\ OnALine(y, 1, 2)
  BY BetweenIsALine, KnotsAre DEF KnotAt
<1>2. PICK m \in 1 .. 12 : Lies(x, 1, m) /\ Verdict!Between(x, 1, 2) = Line(x, 1, 2, m)
  BY <1>1 DEF OnALine
<1>3. PICK n \in 1 .. 12 : Lies(y, 1, n) /\ Verdict!Between(y, 1, 2) = Line(y, 1, 2, n)
  BY <1>1 DEF OnALine
<1>4. /\ \A k \in 1 .. 12, i \in {1, 2} : KnotAt(k, i) \in Int /\ KnotAt(k + 1, i) \in Int /\ KnotAt(k, i) < KnotAt(k + 1, i)
      /\ \A k, l \in 1 .. 13, i \in {1, 2} : k <= l => KnotAt(k, i) <= KnotAt(l, i)
  <2>1. \A k \in 1 .. 12 : k \in 1 .. 13 /\ k + 1 \in 1 .. 13
    OBVIOUS
  <2>2. QED BY <2>1, KnotsClimb
<1>5. \A k \in 1 .. 12 : \A u, v \in Int : KnotAt(k, 1) <= u /\ u <= v /\ v <= KnotAt(k + 1, 1) =>
          Line(u, 1, 2, k) \in KnotAt(k, 2) .. KnotAt(k + 1, 2) /\ Line(u, 1, 2, k) <= Line(v, 1, 2, k)
  <2> SUFFICES ASSUME NEW k \in 1 .. 12, NEW u \in Int, NEW v \in Int,
                      KnotAt(k, 1) <= u, u <= v, v <= KnotAt(k + 1, 1)
               PROVE  Line(u, 1, 2, k) \in KnotAt(k, 2) .. KnotAt(k + 1, 2) /\ Line(u, 1, 2, k) <= Line(v, 1, 2, k)
    OBVIOUS
  <2>1. /\ KnotAt(k, 1) \in Int /\ KnotAt(k + 1, 1) \in Int /\ KnotAt(k, 2) \in Int /\ KnotAt(k + 1, 2) \in Int
        /\ KnotAt(k, 1) < KnotAt(k + 1, 1) /\ KnotAt(k, 2) <= KnotAt(k + 1, 2)
    BY <1>4
  <2>2. Rises(KnotAt(k, 1), KnotAt(k + 1, 1), KnotAt(k, 2), KnotAt(k + 1, 2), u, v)
    BY <2>1 DEF Rises
  <2>3. Climbs(KnotAt(k, 1), KnotAt(k + 1, 1), KnotAt(k, 2), KnotAt(k + 1, 2), u, v)
    BY ONLY <2>2, LineClimbs
  <2>4. QED BY <2>3 DEF Climbs, Line
<1>6. KnotAt(m, 1) <= x /\ x <= KnotAt(m + 1, 1) /\ KnotAt(n, 1) <= y /\ y <= KnotAt(n + 1, 1)
  BY <1>2, <1>3 DEF Lies
<1>7. /\ Line(x, 1, 2, m) \in KnotAt(m, 2) .. KnotAt(m + 1, 2) /\ Line(y, 1, 2, n) \in KnotAt(n, 2) .. KnotAt(n + 1, 2)
      /\ \A k \in {m, n}, i \in {1, 2} : KnotAt(k, i) \in Int /\ KnotAt(k + 1, i) \in Int
  BY <1>4, <1>5, <1>6
<1>8. CASE m < n
  <2>1. KnotAt(m + 1, 2) <= KnotAt(n, 2)
    BY <1>4, <1>8
  <2>2. QED BY <1>2, <1>3, <1>7, <2>1
<1>9. CASE m = n
  BY <1>2, <1>3, <1>5, <1>6, <1>9
<1>10. CASE n < m
  <2>1. KnotAt(n + 1, 1) <= KnotAt(m, 1)
    BY <1>4, <1>10
  <2>2. x = y
    BY <1>6, <1>7, <2>1
  <2>3. Verdict!Between(x, 1, 2) \in Int
    BY <1>2, <1>7
  <2>4. QED BY <2>2, <2>3
<1>11. QED BY <1>8, <1>9, <1>10

LEMMA SaturateClimbs ==
  ASSUME NEW x \in Int, NEW y \in Int, x <= y
  PROVE  /\ Verdict!saturate(x) \in Int /\ Verdict!saturate(y) \in Int
         /\ Verdict!saturate(x) <= Verdict!saturate(y)
<1>1. Verdict!saturate(x) \in Int /\ Verdict!saturate(y) \in Int
  BY SaturateIs
<1>2. \A z \in Int : /\ -300 <= z /\ z <= 300 => Verdict!saturate(z) = z
                     /\ z > 300 => Verdict!saturate(z) >= 300
                     /\ z < -300 => Verdict!saturate(z) <= -300
  BY SaturateIs DEF SaturatedWithin
<1> DEFINE far(z) == Verdict!Between(Verdict!Within(0, 2440, z), 1, 2)
<1>3. \A z \in Int : /\ z > 300 => Verdict!saturate(z) = far(z)
                     /\ z < -300 => Verdict!saturate(z) = -far(-z)
  <2>1. Verdict!Knots[Len(Verdict!Knots)][1] = 2440
    BY KnotsAre
  <2>2. \A z \in Int : Verdict!Abs(z) = IF z < 0 THEN -z ELSE z
    BY DEF Verdict!Abs
  <2>3. SUFFICES ASSUME NEW z \in Int
                 PROVE  /\ z > 300 => Verdict!saturate(z) = far(z)
                        /\ z < -300 => Verdict!saturate(z) = -far(-z)
    OBVIOUS
  <2>4. Verdict!saturate(z) = IF Verdict!Abs(z) <= 300 THEN z
                              ELSE IF z < 0 THEN -far(Verdict!Abs(z)) ELSE far(Verdict!Abs(z))
    BY <2>1 DEF Verdict!saturate, Verdict!Bent
  <2> HIDE DEF far
  <2>5. QED BY <2>2, <2>4
<1>4. \A z \in Int : z > 300 => /\ Verdict!Within(0, 2440, z) \in Int
                                /\ 300 <= Verdict!Within(0, 2440, z) /\ Verdict!Within(0, 2440, z) <= 2440
  BY DEF Verdict!Within
<1>5. \A u, v \in Int : u <= v => Verdict!Within(0, 2440, u) <= Verdict!Within(0, 2440, v)
  BY DEF Verdict!Within
<1>6. ASSUME NEW u \in Int, NEW v \in Int, 300 < u, u <= v PROVE far(u) <= far(v)
  <2>1. v > 300 /\ u > 300
    BY <1>6
  <2>2. QED BY <1>4, <1>5, <1>6, <2>1, BetweenClimbs
<1> HIDE DEF far
<1>7. CASE x > 300
  <2>1. y > 300
    BY <1>7
  <2>2. far(x) <= far(y)
    BY <1>6, <1>7
  <2>3. QED BY <1>1, <1>3, <1>7, <2>1, <2>2
<1>8. CASE y < -300
  <2>1. x < -300 /\ -x \in Int /\ -y \in Int /\ 300 < -y /\ -y <= -x
    BY <1>8
  <2>2. far(-y) <= far(-x)
    BY <1>6, <2>1
  <2>3. Verdict!saturate(x) = -far(-x) /\ Verdict!saturate(y) = -far(-y)
    BY <1>3, <1>8, <2>1
  <2>4. far(-x) \in Int /\ far(-y) \in Int
    <3>1. -x > 300 /\ -y > 300
      BY <2>1
    <3>2. QED BY <1>3, <2>1, <3>1, SaturateIs
  <2>5. QED BY <2>2, <2>3, <2>4
<1>9. CASE ~(x > 300) /\ ~(y < -300)
  BY <1>1, <1>2, <1>9
<1>10. QED BY <1>1, <1>7, <1>8, <1>9

\* Evidence w further on, over a full strength at most twice that larger, is no weaker.
LEMMA StrengthHolds ==
  ASSUME NEW n \in Nat, NEW w \in Nat, NEW F \in Nat, NEW G \in Nat, 0 < F, 0 < G, 2 * n <= F, G <= F + 2 * w
  PROVE  (1200 * n) \div F <= (1200 * (n + w)) \div G
<1>1. \A m \in Nat, k \in Nat \ {0} : m \div k \in Nat /\ k * (m \div k) <= m
  OBVIOUS
<1>2. \A m, r \in Nat, k \in Nat \ {0} : k * r <= m => r <= m \div k
  <2>1. SUFFICES ASSUME NEW m \in Nat, NEW r \in Nat, NEW k \in Nat \ {0}, k * r <= m PROVE r <= m \div k
    OBVIOUS
  <2>2. \A g, h \in Nat : g <= h => g \div k <= h \div k
    OBVIOUS
  <2>3. (k * r) \div k = r /\ k * r \in Nat
    OBVIOUS
  <2>4. QED BY <2>1, <2>2, <2>3
<1>3. PICK q \in Nat : q = (1200 * n) \div F
  BY <1>1
<1>4. F * q <= 1200 * n
  BY <1>1, <1>3
<1>5. q <= 600
  <2>1. 1200 * n <= 600 * F
    OBVIOUS
  <2>2. ASSUME q >= 601 PROVE F * q > 600 * F
    <3>1. \A g, h \in Nat : g <= h => F * g <= F * h
      OBVIOUS
    <3>2. F * 601 <= F * q
      BY <2>2, <3>1
    <3>3. F * 601 > 600 * F
      OBVIOUS
    <3>4. F * q \in Nat
      OBVIOUS
    <3>5. QED BY <3>2, <3>3, <3>4
  <2>3. F * q \in Nat
    OBVIOUS
  <2>4. QED BY <1>4, <2>1, <2>2, <2>3
<1>6. G * q <= 1200 * (n + w)
  <2>1. G * q <= (F + 2 * w) * q
    <3>1. \A g, h \in Nat : g <= h => g * q <= h * q
      OBVIOUS
    <3>2. F + 2 * w \in Nat
      OBVIOUS
    <3>3. QED BY <3>1, <3>2
  <2>2. (F + 2 * w) * q = F * q + 2 * (w * q)
    OBVIOUS
  <2>3. w * q <= w * 600
    <3>1. \A g, h \in Nat : g <= h => w * g <= w * h
      OBVIOUS
    <3>2. QED BY <1>5, <3>1
  <2>4. G * q \in Nat /\ F * q \in Nat /\ w * q \in Nat
    OBVIOUS
  <2>5. QED BY <1>4, <2>1, <2>2, <2>3, <2>4
<1>7. q <= (1200 * (n + w)) \div G
  BY <1>2, <1>6
<1>8. QED BY <1>3, <1>7

\* How far a score is pulled from neutral: further, the further each of the three goes.
Pull(n, trust, stretch, weight) == (n * trust * stretch) \div (10000 * weight)

LEMMA PullIs ==
  ASSUME NEW n \in Nat, NEW t \in Nat, NEW c \in Nat, NEW W \in Nat, 0 < W
  PROVE  Pull(n, t, c, W) \in Nat
<1>1. \A a, b \in Nat : a * b \in Nat
  OBVIOUS
<1>2. n * t * c \in Nat /\ 10000 * W \in Nat \ {0}
  BY <1>1
<1>3. \A a \in Nat, k \in Nat \ {0} : a \div k \in Nat
  OBVIOUS
<1>4. QED BY <1>2, <1>3 DEF Pull

LEMMA PullClimbs ==
  ASSUME NEW n \in Nat, NEW m \in Nat, NEW t \in Nat, NEW u \in Nat, NEW c \in Nat, NEW d \in Nat,
         NEW W \in Nat, 0 < W, n <= m, t <= u, c <= d
  PROVE  Pull(n, t, c, W) <= Pull(m, u, d, W)
<1>1. \A g, h, k, l \in Nat : g <= h /\ k <= l => g * k \in Nat /\ h * l \in Nat /\ g * k <= h * l
  <2>1. SUFFICES ASSUME NEW g \in Nat, NEW h \in Nat, NEW k \in Nat, NEW l \in Nat, g <= h, k <= l
                 PROVE  g * k \in Nat /\ h * l \in Nat /\ g * k <= h * l
    OBVIOUS
  <2>2. \A a, b, r \in Nat : a <= b => a * r \in Nat /\ a * r <= b * r /\ r * a <= r * b
    OBVIOUS
  <2>3. g * k <= h * k /\ h * k <= h * l /\ g * k \in Nat /\ h * k \in Nat /\ h * l \in Nat
    BY <2>1, <2>2
  <2>4. QED BY <2>3
<1>2. n * t \in Nat /\ m * u \in Nat /\ n * t <= m * u
  BY <1>1
<1>3. n * t * c \in Nat /\ m * u * d \in Nat /\ n * t * c <= m * u * d
  BY <1>1, <1>2
<1>4. \A a, b \in Nat, k \in Nat \ {0} : a <= b => a \div k <= b \div k /\ a \div k \in Nat
  OBVIOUS
<1>5. 10000 * W \in Nat \ {0}
  OBVIOUS
<1>6. QED BY <1>3, <1>4, <1>5 DEF Pull

\* One pillar a point better.
Raised(s, p) == [s EXCEPT ![p] = @ + 1]

\* What that does to the sums: the same pillars scored, and both distances move by its weight.
LEMMA RaisedSums ==
  ASSUME NEW s \in [Verdict!Pillars -> -1 .. 10], NEW p \in Verdict!Pillars, s[p] # -1, s[p] < 10
  PROVE  \E w \in 1 .. 6 :
             /\ Verdict!scoredWeight(Raised(s, p)) = Verdict!scoredWeight(s)
             /\ Verdict!net(Raised(s, p)) = Verdict!net(s) + w
             /\ \/ Verdict!gross(Raised(s, p)) = Verdict!gross(s) + w
                \/ Verdict!gross(s) = Verdict!gross(Raised(s, p)) + w
<1> DEFINE r == Raised(s, p)
           w == Verdict!PILLAR_WEIGHTS[p]
           a(t, q) == IF t[q] = -1 THEN 0 ELSE Verdict!PILLAR_WEIGHTS[q]
           b(t, q) == IF t[q] = -1 THEN 0 ELSE Verdict!PILLAR_WEIGHTS[q] * (t[q] - 5)
           c(t, q) == IF t[q] = -1 THEN 0 ELSE Verdict!PILLAR_WEIGHTS[q] * Verdict!Abs(t[q] - 5)
<1>1. \A q \in Verdict!Pillars : Verdict!PILLAR_WEIGHTS[q] \in 1 .. 6
  BY DEF Verdict!PILLAR_WEIGHTS, Verdict!Pillars
<1>2. /\ r \in [Verdict!Pillars -> -1 .. 10] /\ r[p] = s[p] + 1 /\ s[p] \in 0 .. 9
      /\ \A q \in Verdict!Pillars : q # p => r[q] = s[q]
  BY DEF Raised
<1>3. \A t \in {s, r} : \A q \in Verdict!Pillars : a(t, q) \in Int /\ b(t, q) \in Int /\ c(t, q) \in Int
  <2>1. \A x \in Int : Verdict!Abs(x) \in Int
    BY DEF Verdict!Abs
  <2>2. \A x, y \in Int : x * y \in Int
    OBVIOUS
  <2>3. SUFFICES ASSUME NEW t \in {s, r}, NEW q \in Verdict!Pillars
                 PROVE  a(t, q) \in Int /\ b(t, q) \in Int /\ c(t, q) \in Int
    OBVIOUS
  <2>4. t[q] \in Int /\ t[q] - 5 \in Int /\ Verdict!PILLAR_WEIGHTS[q] \in Int
    BY <1>1, <1>2
  <2>5. QED BY <2>1, <2>2, <2>4
<1>4. a(r, p) = a(s, p) /\ b(r, p) = b(s, p) + w
  <2>1. r[p] # -1 /\ s[p] # -1
    BY <1>2
  <2>2. \A k, x \in Int : k * (x + 1 - 5) = k * (x - 5) + k
    OBVIOUS
  <2>3. w * (s[p] + 1 - 5) = w * (s[p] - 5) + w
    BY <1>1, <1>2, <2>2
  <2>4. QED BY <1>2, <2>1, <2>3
<1>5. c(r, p) = c(s, p) + w \/ c(s, p) = c(r, p) + w
  <2>1. r[p] # -1 /\ s[p] # -1
    BY <1>2
  <2>2. \/ Verdict!Abs(r[p] - 5) = Verdict!Abs(s[p] - 5) + 1
        \/ Verdict!Abs(s[p] - 5) = Verdict!Abs(r[p] - 5) + 1
    BY <1>2 DEF Verdict!Abs
  <2>3. \A k, x \in Int : k * (x + 1) = k * x + k
    OBVIOUS
  <2>4. w \in Int /\ Verdict!Abs(r[p] - 5) \in Int /\ Verdict!Abs(s[p] - 5) \in Int
    BY <1>1, <1>2 DEF Verdict!Abs
  <2>5. QED BY <2>1, <2>2, <2>3, <2>4
<1>6. \A q \in Verdict!Pillars : q # p => a(r, q) = a(s, q) /\ b(r, q) = b(s, q) /\ c(r, q) = c(s, q)
  BY <1>2
<1>7. \A t \in {s, r} :
          /\ Verdict!scoredWeight(t) = a(t, "valuation") + a(t, "quality") + a(t, "health") + a(t, "consensus")
                                       + a(t, "momentum") + a(t, "revisions")
          /\ Verdict!net(t) = b(t, "valuation") + b(t, "quality") + b(t, "health") + b(t, "consensus")
                                       + b(t, "momentum") + b(t, "revisions")
          /\ Verdict!gross(t) = c(t, "valuation") + c(t, "quality") + c(t, "health") + c(t, "consensus")
                                       + c(t, "momentum") + c(t, "revisions")
  BY DEF Verdict!scoredWeight, Verdict!net, Verdict!gross, Verdict!OverPillars, Verdict!Blind, Verdict!Pillars
<1>8. w \in 1 .. 6
  BY <1>1
<1> HIDE DEF r, w, a, b, c
<1>9. /\ Verdict!scoredWeight(r) = Verdict!scoredWeight(s)
      /\ Verdict!net(r) = Verdict!net(s) + w
      /\ Verdict!gross(r) = Verdict!gross(s) + w \/ Verdict!gross(s) = Verdict!gross(r) + w
  BY <1>3, <1>4, <1>5, <1>6, <1>7, <1>8 DEF Verdict!Pillars
<1>10. QED BY <1>8, <1>9 DEF r

\* Stretch and distance, one more scored point apart: the further side is stretched no less.
LEMMA ConvictionClimbs ==
  ASSUME NEW s \in [Verdict!Pillars -> -1 .. 10], NEW r \in [Verdict!Pillars -> -1 .. 10], NEW w \in 1 .. 6,
         Verdict!scoredWeight(s) > 0, Verdict!scoredWeight(r) = Verdict!scoredWeight(s),
         Verdict!Scored(r) = Verdict!Scored(s),
         \/ Verdict!gross(r) = Verdict!gross(s) + w
         \/ Verdict!gross(s) = Verdict!gross(r) + w,
         Verdict!Abs(Verdict!net(r)) = Verdict!Abs(Verdict!net(s)) + w
  PROVE  /\ Verdict!conviction(s) \in Nat
         /\ Verdict!conviction(r) \in Nat
         /\ Verdict!conviction(s) <= Verdict!conviction(r)
<1> DEFINE F == Verdict!fullStrength(s)
           G == Verdict!fullStrength(r)
           n == Verdict!Abs(Verdict!net(s))
<1>1. /\ F \in Nat /\ F > 0 /\ F \in {3 * Verdict!scoredWeight(s), 2 * Verdict!gross(s)}
      /\ 3 * Verdict!scoredWeight(s) <= F /\ 2 * Verdict!gross(s) <= F /\ 2 * n <= F /\ n \in Nat
  BY FullStrengthIs
<1>2. G \in Nat /\ G > 0 /\ G \in {3 * Verdict!scoredWeight(r), 2 * Verdict!gross(r)}
  BY FullStrengthIs
<1>3. Verdict!gross(s) \in Nat /\ Verdict!gross(r) \in Nat /\ Verdict!scoredWeight(s) \in Nat
  BY PillarsCount
<1> HIDE DEF F, G, n
<1>4. G <= F + 2 * w
  BY <1>1, <1>2, <1>3
<1>5. (1200 * n) \div F <= (1200 * (n + w)) \div G
  BY <1>1, <1>2, <1>4, StrengthHolds
<1>6. (1200 * n) \div F \in Nat /\ (1200 * (n + w)) \div G \in Nat
  <2>1. \A a \in Nat, k \in Nat \ {0} : a \div k \in Nat
    OBVIOUS
  <2>2. 1200 * n \in Nat /\ 1200 * (n + w) \in Nat /\ F \in Nat \ {0} /\ G \in Nat \ {0}
    BY <1>1, <1>2
  <2>3. QED BY <2>1, <2>2
<1>7. CASE Verdict!Cardinality(Verdict!Scored(s)) >= 3
  <2>1. /\ Verdict!conviction(s) = 1000 + (1200 * n) \div F
        /\ Verdict!conviction(r) = 1000 + (1200 * (n + w)) \div G
    BY <1>7 DEF Verdict!conviction, F, G, n
  <2>2. QED BY <1>5, <1>6, <2>1
<1>8. CASE ~(Verdict!Cardinality(Verdict!Scored(s)) >= 3)
  <2>1. Verdict!conviction(s) = 1000 /\ Verdict!conviction(r) = 1000
    BY <1>8 DEF Verdict!conviction
  <2>2. QED BY <2>1
<1>9. QED BY <1>7, <1>8

\* The trust in a payload counts, and climbs with the weight of what is known.
LEMMA TrustClimbs ==
  ASSUME NEW f \in FactorRecs, NEW c \in Nat, f.composite <= c
  PROVE  /\ Verdict!shrink(f) \in Nat
         /\ Verdict!shrink([f EXCEPT !.composite = c]) \in Nat
         /\ Verdict!shrink(f) <= Verdict!shrink([f EXCEPT !.composite = c])
<1> DEFINE g == [f EXCEPT !.composite = c]
           W == Verdict!scoredWeight(f.pillars)
           q == Verdict!qualityFactor(f)
           t == Verdict!freshnessFactor(f)
<1>1. /\ f.pillars \in [Verdict!Pillars -> -1 .. 10] /\ f.composite \in Nat
      /\ g.pillars = f.pillars /\ g.composite = c
      /\ g.severity = f.severity /\ g.stale = f.stale
  BY DEF FactorRecs
<1>2. W \in Nat
  BY <1>1, PillarsCount
<1>3. q \in Nat /\ t \in Nat
  BY DEF Verdict!qualityFactor, Verdict!freshnessFactor
<1>4. Verdict!qualityFactor(g) = q /\ Verdict!freshnessFactor(g) = t
  BY <1>1, Zenon DEF Verdict!qualityFactor, Verdict!freshnessFactor
<1>5. /\ Verdict!confidence(f) = (W * (110 + 9 * f.composite) * q * t) \div 400000
      /\ Verdict!confidence(g) = (W * (110 + 9 * c) * q * t) \div 400000
  BY <1>1, <1>4 DEF Verdict!confidence
<1> HIDE DEF g, W, q, t
<1>6. \A a, b, k \in Nat : a <= b => /\ k * a \in Nat /\ k * b \in Nat /\ k * a <= k * b
                                     /\ a * k \in Nat /\ b * k \in Nat /\ a * k <= b * k
  OBVIOUS
<1>7. PICK a \in Nat : a = 110 + 9 * f.composite
  BY <1>1
<1>8. PICK b \in Nat : b = 110 + 9 * c
  OBVIOUS
<1>9. a <= b
  BY <1>1, <1>7, <1>8
<1>10. W * a \in Nat /\ W * b \in Nat /\ W * a <= W * b
  BY <1>2, <1>6, <1>9
<1>11. W * a * q \in Nat /\ W * b * q \in Nat /\ W * a * q <= W * b * q
  BY <1>3, <1>6, <1>10
<1>12. W * a * q * t \in Nat /\ W * b * q * t \in Nat /\ W * a * q * t <= W * b * q * t
  BY <1>3, <1>6, <1>11
<1>13. \A m, k \in Nat : m <= k => m \div 400000 \in Nat /\ k \div 400000 \in Nat /\ m \div 400000 <= k \div 400000
  OBVIOUS
<1>14. Verdict!confidence(f) \in Nat /\ Verdict!confidence(g) \in Nat /\ Verdict!confidence(f) <= Verdict!confidence(g)
  BY <1>5, <1>7, <1>8, <1>12, <1>13
<1>15. QED BY <1>14 DEF Verdict!shrink, g

\* What is published climbs, and fifty is neutral.
LEMMA PublishedClimbs ==
  /\ \A x, y \in Int : x <= y => /\ Verdict!published(x) \in Int /\ Verdict!published(y) \in Int
                                 /\ Verdict!published(x) <= Verdict!published(y)
  /\ Verdict!published(500) = 50
<1>1. /\ \A x \in Int : Verdict!Within(0, 1000, x) \in Nat
      /\ \A x, y \in Int : x <= y => Verdict!Within(0, 1000, x) <= Verdict!Within(0, 1000, y)
  BY DEF Verdict!Within
<1>2. \A m, n \in Nat : m <= n => (m + 5) \div 10 \in Int /\ (n + 5) \div 10 \in Int /\ (m + 5) \div 10 <= (n + 5) \div 10
  OBVIOUS
<1>3. Verdict!published(500) = 50
  BY DEF Verdict!published, Verdict!Within
<1>4. ASSUME NEW x \in Int, NEW y \in Int, x <= y
      PROVE  /\ Verdict!published(x) \in Int /\ Verdict!published(y) \in Int
             /\ Verdict!published(x) <= Verdict!published(y)
  <2>1. PICK m \in Nat : m = Verdict!Within(0, 1000, x)
    BY <1>1
  <2>2. PICK n \in Nat : n = Verdict!Within(0, 1000, y)
    BY <1>1
  <2>3. m <= n
    BY <1>1, <1>4, <2>1, <2>2
  <2>4. Verdict!published(x) = (m + 5) \div 10 /\ Verdict!published(y) = (n + 5) \div 10
    BY <2>1, <2>2 DEF Verdict!published
  <2>5. QED BY <1>2, <2>3, <2>4
<1>5. QED BY <1>3, <1>4

\* The linear deviation, by the sign of the net distance.
LEMMA DeviationIs ==
  ASSUME NEW f, Verdict!scoredWeight(f.pillars) # 0
  PROVE  LET n == Verdict!net(f.pillars)
             d == Pull(Verdict!Abs(n), Verdict!shrink(f), Verdict!conviction(f.pillars), Verdict!scoredWeight(f.pillars))
         IN Verdict!deviation(f) = IF n < 0 THEN -d ELSE d
BY DEF Verdict!deviation, Pull

\* The further the deviation, the higher the score.
LEMMA ScoreFollows ==
  ASSUME NEW f, NEW g, Verdict!deviation(f) \in Int, Verdict!deviation(g) \in Int,
         Verdict!deviation(f) <= Verdict!deviation(g)
  PROVE  /\ Verdict!factorScore(f) <= Verdict!factorScore(g)
         /\ Verdict!deviation(f) >= 0 => 50 <= Verdict!factorScore(f)
         /\ Verdict!deviation(g) <= 0 => Verdict!factorScore(g) <= 50
<1> DEFINE x == Verdict!deviation(f)
           y == Verdict!deviation(g)
<1>1. x \in Int /\ y \in Int /\ x <= y
  OBVIOUS
<1>2. Verdict!factorScore(f) = Verdict!published(500 + Verdict!saturate(x))
  BY DEF Verdict!factorScore
<1>3. Verdict!factorScore(g) = Verdict!published(500 + Verdict!saturate(y))
  BY DEF Verdict!factorScore
<1> HIDE DEF x, y
<1>4. \A u, v \in Int : u <= v =>
         /\ Verdict!saturate(u) \in Int /\ Verdict!saturate(v) \in Int /\ Verdict!saturate(u) <= Verdict!saturate(v)
  BY SaturateClimbs
<1>5. Verdict!saturate(0) = 0
  BY SaturateIs
<1>6. \A u, v \in Int : u <= v => Verdict!published(500 + Verdict!saturate(u)) <= Verdict!published(500 + Verdict!saturate(v))
  <2>1. SUFFICES ASSUME NEW u \in Int, NEW v \in Int, u <= v
                 PROVE  Verdict!published(500 + Verdict!saturate(u)) <= Verdict!published(500 + Verdict!saturate(v))
    OBVIOUS
  <2>2. PICK a \in Int : a = 500 + Verdict!saturate(u)
    BY <1>4, <2>1
  <2>3. PICK b \in Int : b = 500 + Verdict!saturate(v)
    BY <1>4, <2>1
  <2>4. a <= b
    BY <1>4, <2>1, <2>2, <2>3
  <2>5. Verdict!published(a) <= Verdict!published(b)
    BY <2>4, PublishedClimbs
  <2>6. QED BY <2>2, <2>3, <2>5
<1>7. Verdict!published(500 + Verdict!saturate(0)) = 50
  BY <1>5, PublishedClimbs
<1>8. /\ Verdict!factorScore(f) <= Verdict!factorScore(g)
      /\ 0 <= x => 50 <= Verdict!factorScore(f)
      /\ y <= 0 => Verdict!factorScore(g) <= 50
  BY <1>1, <1>2, <1>3, <1>6, <1>7
<1>9. QED BY <1>1, <1>8 DEF x, y

\* The trust in a payload is that of its data, not of its scores.
LEMMA SameTrust ==
  ASSUME NEW f, NEW g, g.composite = f.composite, g.severity = f.severity, g.stale = f.stale,
         Verdict!scoredWeight(g.pillars) = Verdict!scoredWeight(f.pillars)
  PROVE  Verdict!shrink(g) = Verdict!shrink(f)
<1>1. Verdict!qualityFactor(g) = Verdict!qualityFactor(f)
  BY Zenon DEF Verdict!qualityFactor
<1>2. Verdict!freshnessFactor(g) = Verdict!freshnessFactor(f)
  BY Zenon DEF Verdict!freshnessFactor
<1>3. Verdict!confidence(g) = Verdict!confidence(f)
  BY <1>1, <1>2 DEF Verdict!confidence
<1>4. QED BY <1>3 DEF Verdict!shrink

\* A pillar a point better moves the deviation up.
LEMMA BetterClimbs ==
  ASSUME NEW f \in FactorRecs, NEW p \in Verdict!Pillars, f.pillars[p] # -1, f.pillars[p] < 10,
         NEW g, g = Verdict!Better(f, p)
  PROVE  /\ Verdict!deviation(f) \in Int
         /\ Verdict!deviation(g) \in Int
         /\ Verdict!deviation(f) <= Verdict!deviation(g)
<1> DEFINE s == f.pillars
           r == Raised(s, p)
           W == Verdict!scoredWeight(s)
           T == Verdict!shrink(f)
           n == Verdict!net(s)
           m == Verdict!net(r)
           a == Verdict!Abs(n)
           b == Verdict!Abs(m)
           c == Verdict!conviction(s)
           d == Verdict!conviction(r)
<1>1. /\ s \in [Verdict!Pillars -> -1 .. 10] /\ r \in [Verdict!Pillars -> -1 .. 10] /\ f.composite \in Nat
      /\ Verdict!Scored(r) = Verdict!Scored(s)
  BY DEF FactorRecs, Raised, Verdict!Scored, Verdict!Blind
<1>2. g.pillars = r /\ g.composite = f.composite /\ g.severity = f.severity /\ g.stale = f.stale
  BY DEF FactorRecs, Verdict!Better, Raised
<1>3. PICK w \in 1 .. 6 : /\ Verdict!scoredWeight(r) = W
                          /\ m = n + w
                          /\ \/ Verdict!gross(r) = Verdict!gross(s) + w
                             \/ Verdict!gross(s) = Verdict!gross(r) + w
  BY <1>1, RaisedSums
<1>4. n \in Int /\ m \in Int /\ W \in Nat /\ W > 0
  BY <1>1, PillarsCount
<1>5. a = (IF n < 0 THEN -n ELSE n) /\ b = (IF m < 0 THEN -m ELSE m)
  BY DEF Verdict!Abs
<1>6. c \in Nat /\ d \in Nat
  BY <1>1, <1>3, <1>4, ConvictionCounts
<1>7. T \in Nat
  <2>1. f.composite <= f.composite
    BY <1>1
  <2>2. QED BY <1>1, <2>1, TrustClimbs
<1>8. Verdict!shrink(g) = T
  BY <1>2, <1>3, SameTrust, Zenon
<1>9. Verdict!deviation(f) = IF n < 0 THEN -Pull(a, T, c, W) ELSE Pull(a, T, c, W)
  BY <1>4, DeviationIs
<1>10. Verdict!deviation(g) = IF m < 0 THEN -Pull(b, T, d, W) ELSE Pull(b, T, d, W)
  BY <1>2, <1>3, <1>4, <1>8, DeviationIs
<1>11. 0 <= n => c <= d
  <2>1. SUFFICES ASSUME 0 <= n PROVE c <= d
    OBVIOUS
  <2>2. b = a + w
    BY <1>3, <1>4, <1>5, <2>1
  <2>3. QED BY <1>1, <1>3, <1>4, <2>2, ConvictionClimbs
<1>12. m <= 0 => d <= c
  <2>1. SUFFICES ASSUME m <= 0 PROVE d <= c
    OBVIOUS
  <2>2. a = b + w
    BY <1>3, <1>4, <1>5, <2>1
  <2>3. QED BY <1>1, <1>3, <1>4, <2>2, ConvictionClimbs
<1> HIDE DEF W, T, n, m, a, b, c, d
<1>13. a \in Nat /\ b \in Nat
  BY <1>4, <1>5
<1>14. 0 < W /\ T <= T /\ W \in Nat
  BY <1>4, <1>7
<1>15. Pull(a, T, c, W) \in Nat /\ Pull(b, T, d, W) \in Nat
  BY <1>6, <1>7, <1>13, <1>14, PullIs
<1>16. CASE 0 <= n
  <2>1. a <= b /\ c <= d /\ ~(n < 0) /\ ~(m < 0)
    BY <1>3, <1>4, <1>5, <1>11, <1>16
  <2>2. Pull(a, T, c, W) <= Pull(b, T, d, W)
    BY <1>6, <1>7, <1>13, <1>14, <2>1, PullClimbs
  <2>3. QED BY <1>9, <1>10, <1>15, <2>1, <2>2
<1>17. CASE m <= 0
  <2>1. b <= a /\ d <= c /\ n < 0
    BY <1>3, <1>4, <1>5, <1>12, <1>17
  <2>2. Pull(b, T, d, W) <= Pull(a, T, c, W)
    BY <1>6, <1>7, <1>13, <1>14, <2>1, PullClimbs
  <2>3. CASE m < 0
    BY <1>9, <1>10, <1>15, <2>1, <2>2, <2>3
  <2>4. CASE ~(m < 0)
    <3>1. b = 0
      BY <1>4, <1>5, <1>17, <2>4
    <3>2. Pull(b, T, d, W) = 0
      <4>1. \A k \in Nat \ {0} : 0 \div k = 0
        OBVIOUS
      <4>2. b * T * d = 0 /\ 10000 * W \in Nat \ {0}
        BY <1>4, <1>6, <1>7, <3>1
      <4>3. QED BY <4>1, <4>2 DEF Pull
    <3>3. QED BY <1>9, <1>10, <1>15, <2>1, <2>4, <3>2
  <2>5. QED BY <2>3, <2>4
<1>18. CASE n < 0 /\ 0 < m
  BY <1>4, <1>9, <1>10, <1>15, <1>18
<1>19. QED BY <1>4, <1>16, <1>17, <1>18

\* More trust moves a deviation no nearer to neutral.
LEMMA TrustMovesAway ==
  ASSUME NEW f \in FactorRecs, NEW g, g = [f EXCEPT !.composite = @ + 1]
  PROVE  /\ Verdict!deviation(f) \in Int /\ Verdict!deviation(g) \in Int
         /\ \/ 0 <= Verdict!deviation(f) /\ Verdict!deviation(f) <= Verdict!deviation(g)
            \/ Verdict!deviation(f) <= 0 /\ Verdict!deviation(g) <= Verdict!deviation(f)
<1> DEFINE s == f.pillars
           W == Verdict!scoredWeight(s)
           T == Verdict!shrink(f)
           U == Verdict!shrink(g)
           n == Verdict!net(s)
           a == Verdict!Abs(n)
           c == Verdict!conviction(s)
<1>1. s \in [Verdict!Pillars -> -1 .. 10] /\ f.composite \in Nat /\ g.pillars = s
  BY DEF FactorRecs
<1>2. n \in Int /\ W \in Nat /\ a \in Nat
  BY <1>1, PillarsCount DEF Verdict!Abs
<1>3. T \in Nat /\ U \in Nat /\ T <= U
  <2>1. PICK k \in Nat : k = f.composite + 1
    BY <1>1
  <2>2. f.composite <= k /\ g = [f EXCEPT !.composite = k]
    BY <1>1, <2>1
  <2>3. QED BY <2>2, TrustClimbs
<1>4. CASE W = 0
  <2>1. Verdict!deviation(f) = 0 /\ Verdict!deviation(g) = 0
    BY <1>1, <1>4 DEF Verdict!deviation
  <2>2. QED BY <2>1
<1>5. CASE W # 0
  <2>1. Verdict!deviation(f) = IF n < 0 THEN -Pull(a, T, c, W) ELSE Pull(a, T, c, W)
    BY <1>5, DeviationIs
  <2>2. Verdict!deviation(g) = IF n < 0 THEN -Pull(a, U, c, W) ELSE Pull(a, U, c, W)
    BY <1>1, <1>5, DeviationIs
  <2>3. c \in Nat
    BY <1>1, <1>2, <1>5, ConvictionCounts
  <2> HIDE DEF W, T, U, n, a, c
  <2>4. 0 < W /\ a <= a /\ c <= c
    BY <1>2, <1>5, <2>3
  <2>5. Pull(a, T, c, W) \in Nat /\ Pull(a, U, c, W) \in Nat
    BY <1>2, <1>3, <2>3, <2>4, PullIs
  <2>6. Pull(a, T, c, W) <= Pull(a, U, c, W)
    BY <1>2, <1>3, <2>3, <2>4, PullClimbs
  <2>7. QED BY <1>2, <2>1, <2>2, <2>5, <2>6
<1>6. QED BY <1>4, <1>5

\* FactorScore, for whatever payload: a pillar that gains a point never lowers the
\* factor score, and more trust in the data never moves it towards neutral.
THEOREM ScoreClimbs == ASSUME factor \in FactorRecs PROVE ScoreIsMonotone
<1> DEFINE f == factor
<1>1. ASSUME NEW p \in {q \in Verdict!Scored(f.pillars) : f.pillars[q] < 10}
      PROVE  Verdict!factorScore(Verdict!Better(f, p)) >= Verdict!factorScore(f)
  <2>1. p \in Verdict!Pillars /\ f.pillars[p] # -1 /\ f.pillars[p] < 10
    BY DEF Verdict!Scored, Verdict!Blind
  <2>2. /\ Verdict!deviation(f) \in Int /\ Verdict!deviation(Verdict!Better(f, p)) \in Int
        /\ Verdict!deviation(f) <= Verdict!deviation(Verdict!Better(f, p))
    BY <2>1, BetterClimbs
  <2>3. Verdict!factorScore(f) <= Verdict!factorScore(Verdict!Better(f, p))
    BY <2>2, ScoreFollows
  <2>4. \A x, y : x <= y => y >= x
    OBVIOUS
  <2>5. QED BY <2>3, <2>4
<1> DEFINE g == [f EXCEPT !.composite = @ + 1]
<1>2. \/ 50 <= Verdict!factorScore(f) /\ Verdict!factorScore(f) <= Verdict!factorScore(g)
      \/ 50 >= Verdict!factorScore(f) /\ Verdict!factorScore(f) >= Verdict!factorScore(g)
  <2> HIDE DEF f, g
  <2>1. f \in FactorRecs /\ g = [f EXCEPT !.composite = @ + 1]
    BY DEF f, g
  <2>2. /\ Verdict!deviation(f) \in Int /\ Verdict!deviation(g) \in Int
        /\ \/ 0 <= Verdict!deviation(f) /\ Verdict!deviation(f) <= Verdict!deviation(g)
           \/ Verdict!deviation(f) <= 0 /\ Verdict!deviation(g) <= Verdict!deviation(f)
    BY <2>1, TrustMovesAway
  <2>3. CASE 0 <= Verdict!deviation(f) /\ Verdict!deviation(f) <= Verdict!deviation(g)
    <3>1. Verdict!deviation(f) >= 0
      BY <2>3
    <3>2. 50 <= Verdict!factorScore(f) /\ Verdict!factorScore(f) <= Verdict!factorScore(g)
      BY <2>2, <2>3, <3>1, ScoreFollows
    <3>3. QED BY <3>2
  <2>4. CASE Verdict!deviation(f) <= 0 /\ Verdict!deviation(g) <= Verdict!deviation(f)
    <3>1. Verdict!factorScore(g) <= Verdict!factorScore(f) /\ Verdict!factorScore(f) <= 50
      BY <2>2, <2>4, ScoreFollows
    <3>2. \A x, y : x <= y => y >= x
      OBVIOUS
    <3>3. QED BY <3>1, <3>2
  <2>5. QED BY <2>2, <2>3, <2>4
<1>3. QED BY <1>1, <1>2 DEF ScoreIsMonotone, Verdict!ScoreIsMonotone

-----------------------------------------------------------------------------
(* The page in the browser: Workbench. *)

\* What is asked for is of the open stock, and an analysis of the settings beside it.
PageKinds == {"list", "bundle", "analysis"}
AskedOf(requested, stock, with) == requested \subseteq {Browser!Request(what, stock, with) : what \in PageKinds}

\* What is shown is of the open stock, and an analysis of these settings or about to be.
ShownOf(p, requested, stock, with) ==
  /\ p = [bundle |-> p.bundle, failed |-> p.failed, analysis |-> p.analysis]
  /\ p.bundle \in {NoStock, stock}
  /\ p.analysis # Browser!NoAnalysis =>
       /\ p.analysis.of = stock
       /\ p.analysis.with = with \/ Browser!Request("analysis", stock, with) \in requested

ViewInv == AskedOf(requests, selected, settings) /\ ShownOf(page, requests, selected, settings)

\* What disables a button, and what ends it.
StreamInv ==
  /\ stream = [run |-> stream.run, of |-> stream.of, with |-> stream.with, pc |-> stream.pc]
  /\ loading => stream # Browser!NoStream \/ turning.by = "select"
HeaderInv ==
  /\ \A r \in refreshes : r = [click |-> r.click, of |-> r.of, everything |-> r.everything, pc |-> r.pc, by |-> r.by]
  /\ refreshing => \E r \in refreshes : r.by = "header"

PageInv == ViewInv /\ StreamInv /\ HeaderInv /\ happened \in Nat

\* Settings change by a choice, before there is one, or to the proxy's in the dialog.
Chosen ==
  settings' # settings =>
    ~touched \/ happened' # happened \/ (dialog = "asking" /\ settings' = Proxied[settings])
Counts == happened' \in {happened, happened + 1}

\* A stock opens: nothing of the one before is shown or asked for, and no header waits.
LEMMA StockOpens ==
  ASSUME ViewInv, HeaderInv, NEW s, Browser!Selects(s)
  PROVE  ViewInv' /\ HeaderInv' /\ settings' = settings
<1>1. settings' = settings /\ selected' = s
  BY DEF Browser!Selects
<1>2. CASE s = selected
  <2>1. UNCHANGED <<page, requests, refreshing, refreshes>>
    BY <1>2 DEF Browser!Selects, Browser!shown, Browser!clicked
  <2>2. ViewInv'
    BY <1>1, <1>2, <2>1 DEF ViewInv, AskedOf, ShownOf
  <2>3. QED BY <1>1, <2>1, <2>2 DEF HeaderInv
<1>3. CASE s # selected
  <2>1. /\ page' = Browser!Blank
        /\ requests' = IF s = NoStock THEN {} ELSE Browser!Asked(PageKinds, s, settings)
        /\ Browser!HeaderLeaves(IF s = NoStock THEN "nowhere" ELSE "page")
    BY <1>3 DEF Browser!Selects, PageKinds
  <2>2. AskedOf(requests', s, settings)
    BY <2>1 DEF ViewInv, AskedOf, Browser!Asked, Browser!Request
  <2>3. ShownOf(page', requests', s, settings)
    BY <2>1 DEF ShownOf, Browser!Blank
  <2>4. HeaderInv'
    BY <2>1 DEF HeaderInv, Browser!HeaderLeaves
  <2>5. QED BY <1>1, <2>2, <2>3, <2>4 DEF ViewInv
<1>4. QED BY <1>2, <1>3

\* What is open is asked for anew.
LEMMA PageReloads ==
  ASSUME ViewInv, NEW kinds \in SUBSET PageKinds, Browser!Reload(kinds, settings), UNCHANGED <<selected, settings>>
  PROVE  ViewInv'
<1>1. page'.bundle = page.bundle /\ page'.analysis = page.analysis
      /\ page' = [bundle |-> page.bundle, failed |-> page'.failed, analysis |-> page.analysis]
  BY DEF ViewInv, ShownOf, Browser!Reload
<1>2. AskedOf(requests', selected, settings)
  BY DEF ViewInv, AskedOf, Browser!Reload, Browser!Asked, Browser!Request
<1>3. Browser!Request("analysis", selected, settings) \in requests =>
         Browser!Request("analysis", selected, settings) \in requests'
  BY DEF ViewInv, AskedOf, Browser!Reload, Browser!Asked, Browser!Request
<1>4. ShownOf(page', requests', selected, settings)
  BY <1>1, <1>3 DEF ViewInv, ShownOf
<1>5. QED BY <1>2, <1>4 DEF ViewInv

\* Other settings: the analysis beside them is asked for.
LEMMA SettingsChange ==
  ASSUME ViewInv, NEW w, settings' = w, selected' = selected, page' = page,
         NEW gone, requests' = Browser!Asked({"analysis"}, selected, w) \ gone,
         \A r \in gone : r.what # "analysis"
  PROVE  ViewInv'
<1>1. ASSUME NEW r \in requests' PROVE \E what \in PageKinds : r = Browser!Request(what, selected, w)
  <2>1. CASE r = Browser!Request("analysis", selected, w)
    BY <2>1 DEF PageKinds
  <2>2. CASE r \in requests /\ r.what # "analysis"
    <3>1. PICK what \in PageKinds : r = Browser!Request(what, selected, settings)
      BY <2>2 DEF ViewInv, AskedOf
    <3>2. what # "analysis"
      BY <2>2, <3>1 DEF Browser!Request
    <3>3. QED BY <3>1, <3>2 DEF Browser!Request
  <2>3. QED BY <2>1, <2>2 DEF Browser!Asked
<1>2. Browser!Request("analysis", selected, w) \in requests'
  BY DEF Browser!Asked, Browser!Request
<1>3. ShownOf(page', requests', selected, w)
  BY <1>2 DEF ViewInv, ShownOf
<1>4. AskedOf(requests', selected, w)
  BY <1>1 DEF AskedOf
<1>5. QED BY <1>3, <1>4 DEF ViewInv, AskedOf, ShownOf

\* An answer is of what is open; the settings it brings were not chosen.
LEMMA PageAnswered ==
  ASSUME PageInv, NEW r \in requests, Browser!Answer(r)
  PROVE  ViewInv' /\ HeaderInv' /\ Chosen /\ Counts
<1>1. selected' = selected
  BY DEF Browser!Answer, Browser!StaysPut
<1>2. PICK what \in PageKinds : r = Browser!Request(what, selected, settings)
  BY DEF PageInv, ViewInv, AskedOf
<1>3. r.of = selected /\ r.what = what /\ (what = "analysis" => r.with = settings)
  BY <1>2 DEF Browser!Request
<1>4. Browser!Request("analysis", selected, settings).what = "analysis"
  BY DEF Browser!Request
<1>5. AskedOf(requests \ {r}, selected, settings)
  BY DEF PageInv, ViewInv, AskedOf
<1>6. page = [bundle |-> page.bundle, failed |-> page.failed, analysis |-> page.analysis]
  BY DEF PageInv, ViewInv, ShownOf
<1>7. CASE Browser!SettingsFollow(r)
  <2>1. r.what = "list" /\ page' = page /\ UNCHANGED <<touched, refreshing, refreshes, happened>>
    BY <1>7 DEF Browser!SettingsFollow, Browser!clicked, Browser!Over
  <2>2. CASE touched \/ inStore[r.of] = NoStock \/ inStore[r.of] = settings
    <3>1. settings' = settings /\ requests' = requests \ {r}
      BY <1>7, <2>2 DEF Browser!SettingsFollow, Browser!Over
    <3>2. ShownOf(page', requests', selected, settings)
      BY <1>4, <2>1, <3>1 DEF PageInv, ViewInv, ShownOf
    <3>3. QED BY <1>1, <1>5, <2>1, <3>1, <3>2 DEF ViewInv, HeaderInv, PageInv, Chosen, Counts
  <2>3. CASE ~(touched \/ inStore[r.of] = NoStock \/ inStore[r.of] = settings)
    <3>1. settings' = inStore[r.of] /\ requests' = Browser!Asked({"analysis"}, selected, inStore[r.of]) \ {r}
      BY <1>7, <2>3 DEF Browser!SettingsFollow
    <3>2. ViewInv'
      <4> DEFINE gone == {r}
      <4>1. \A x \in gone : x.what # "analysis"
        BY <2>1
      <4>2. requests' = Browser!Asked({"analysis"}, selected, inStore[r.of]) \ gone
        BY <3>1
      <4> HIDE DEF gone
      <4>3. QED BY <1>1, <2>1, <3>1, <4>1, <4>2, SettingsChange DEF PageInv
    <3>3. QED BY <2>1, <2>3, <3>2 DEF HeaderInv, PageInv, Chosen, Counts
  <2>4. QED BY <2>2, <2>3
<1>8. CASE Browser!BundleComes(r)
  <2>1. /\ r.what = "bundle" /\ page' = [page EXCEPT !.bundle = r.of] /\ requests' = requests \ {r}
        /\ UNCHANGED <<settings, touched, refreshing, refreshes, happened>>
    BY <1>8 DEF Browser!BundleComes, Browser!Over, Browser!choice, Browser!clicked
  <2>2. page' = [bundle |-> selected, failed |-> page.failed, analysis |-> page.analysis]
    BY <1>3, <1>6, <2>1
  <2>3. ShownOf(page', requests', selected, settings)
    BY <1>4, <2>1, <2>2 DEF PageInv, ViewInv, ShownOf
  <2>4. QED BY <1>1, <1>5, <2>1, <2>3 DEF ViewInv, HeaderInv, PageInv, Chosen, Counts
<1>9. CASE Browser!BundleFails(r)
  <2>1. /\ r.what = "bundle" /\ page' = [page EXCEPT !.failed = TRUE] /\ requests' = requests \ {r}
        /\ UNCHANGED <<settings, touched>> /\ happened' = happened + 1 /\ Browser!HeaderLeaves("page")
    BY <1>9 DEF Browser!BundleFails, Browser!Over, Browser!choice, Browser!Happens
  <2>2. page' = [bundle |-> page.bundle, failed |-> TRUE, analysis |-> page.analysis]
    BY <1>6, <2>1
  <2>3. ShownOf(page', requests', selected, settings)
    BY <1>4, <2>1, <2>2 DEF PageInv, ViewInv, ShownOf
  <2>4. HeaderInv'
    BY <2>1 DEF PageInv, HeaderInv, Browser!HeaderLeaves
  <2>5. QED BY <1>1, <1>5, <2>1, <2>3, <2>4 DEF ViewInv, Chosen, Counts
<1>10. CASE Browser!AnalysisComes(r)
  <2>1. PICK answer \in {Browser!NoAnalysis, [of |-> r.of, with |-> r.with]} : page' = [page EXCEPT !.analysis = answer]
    BY <1>10 DEF Browser!AnalysisComes
  <2>2. /\ r.what = "analysis" /\ requests' = requests \ {r}
        /\ UNCHANGED <<settings, touched, refreshing, refreshes, happened>>
    BY <1>10 DEF Browser!AnalysisComes, Browser!Over, Browser!choice, Browser!clicked
  <2>3. page' = [bundle |-> page.bundle, failed |-> page.failed, analysis |-> answer]
    BY <1>6, <2>1
  <2>4. answer # Browser!NoAnalysis => answer.of = selected /\ answer.with = settings
    BY <1>3, <2>1, <2>2
  <2>5. ShownOf(page', requests', selected, settings)
    BY <2>3, <2>4 DEF PageInv, ViewInv, ShownOf
  <2>6. QED BY <1>1, <1>5, <2>2, <2>5 DEF ViewInv, HeaderInv, PageInv, Chosen, Counts
<1>11. QED BY <1>7, <1>8, <1>9, <1>10 DEF Browser!Answer

\* What a step leaves alone.
LEMMA PageStays ==
  ASSUME PageInv
  PROVE  /\ UNCHANGED <<selected, settings, page, requests>> => ViewInv' /\ Chosen
         /\ UNCHANGED <<loading, stream, turning>> => StreamInv'
         /\ UNCHANGED <<refreshing, refreshes>> => HeaderInv'
         /\ Counts => happened' \in Nat
<1>1. UNCHANGED <<selected, settings, page, requests>> => ViewInv' /\ Chosen
  BY DEF PageInv, ViewInv, AskedOf, ShownOf, Chosen
<1>2. UNCHANGED <<loading, stream, turning>> => StreamInv'
  BY DEF PageInv, StreamInv
<1>3. UNCHANGED <<refreshing, refreshes>> => HeaderInv'
  BY DEF PageInv, HeaderInv
<1>4. Counts => happened' \in Nat
  BY DEF PageInv, Counts
<1>5. QED BY <1>1, <1>2, <1>3, <1>4

\* Going about: no run is lost that the page says is loading, unless a turn is to come.
LEMMA PageTurns ==
  ASSUME PageInv,
         \/ \E s \in Stocks : Browser!handleSelectSymbol(s) \/ Browser!openFromPage(s)
         \/ Browser!Close \/ Browser!openTab \/ Browser!navigate
  PROVE  PageInv' /\ Chosen
<1>1. /\ UNCHANGED <<selected, settings, page, requests, refreshing, refreshes, loading>>
      /\ turning = Browser!NoTurn /\ happened' = happened + 1
  BY DEF Browser!handleSelectSymbol, Browser!openFromPage, Browser!Close, Browser!openTab, Browser!navigate, Browser!Elsewhere,
         Browser!choice, Browser!shown, Browser!clicked, Browser!PageActs, Browser!UserActs, Browser!Happens
<1>2. \/ stream' = stream
      \/ stream' = Browser!NoStream /\ turning'.by = "select"
  BY DEF Browser!handleSelectSymbol, Browser!openFromPage, Browser!Close, Browser!openTab, Browser!navigate,
         Browser!closeOverlay, Browser!abandonAndTurn
<1>3. StreamInv'
  <2>1. turning.by # "select"
    BY <1>1 DEF Browser!NoTurn
  <2>2. CASE stream' = stream
    BY <1>1, <2>1, <2>2 DEF PageInv, StreamInv
  <2>3. CASE stream' = Browser!NoStream /\ turning'.by = "select"
    BY <2>3 DEF StreamInv, Browser!NoStream
  <2>4. QED BY <1>2, <2>2, <2>3
<1>4. QED BY <1>1, <1>3, PageStays DEF PageInv, Counts

LEMMA PageArrives ==
  ASSUME PageInv, Browser!TransitionApplies \/ \E to : Browser!onHashChange(to)
  PROVE  PageInv' /\ Chosen
<1>1. \E s : Browser!Selects(s)
  BY DEF Browser!TransitionApplies, Browser!setSelected, Browser!onHashChange
<1>2. ViewInv' /\ HeaderInv' /\ settings' = settings
  BY <1>1, StockOpens DEF PageInv
<1>3. StreamInv' /\ Counts
  <2>1. CASE Browser!TransitionApplies
    <3>1. /\ loading' = IF turning.by = "select" THEN FALSE ELSE loading
          /\ stream' = stream /\ happened' = happened
      BY <2>1 DEF Browser!TransitionApplies
    <3>2. QED BY <3>1 DEF PageInv, StreamInv, Counts
  <2>2. CASE \E to : Browser!onHashChange(to)
    <3>1. UNCHANGED <<turning, loading, stream>> /\ happened' = happened + 1
      BY <2>2 DEF Browser!onHashChange, Browser!runs, Browser!UserActs, Browser!Happens
    <3>2. QED BY <3>1, PageStays DEF Counts
  <2>3. QED BY <2>1, <2>2
<1>4. QED BY <1>2, <1>3, PageStays DEF PageInv, Chosen

\* Adding and deleting.
LEMMA PageRunsErrands ==
  ASSUME PageInv,
         \/ \E s \in Stocks : Browser!addStock(s) \/ Browser!handleDelete(s)
         \/ Browser!Added \/ Browser!onDeleted \/ Browser!ErrandFails
  PROVE  PageInv' /\ Chosen
<1>1. UNCHANGED <<turning, loading, stream>> /\ Counts
  BY DEF Browser!addStock, Browser!handleDelete, Browser!Added, Browser!onDeleted, Browser!ErrandFails,
         Browser!OnErrand, Browser!runs, Browser!PageActs, Browser!UserActs, Browser!Happens, Counts
<1>2. ViewInv' /\ HeaderInv' /\ Chosen
  <2>1. CASE Browser!Waits
    <3>1. UNCHANGED <<selected, settings, page, requests, refreshing, refreshes>>
      BY <2>1 DEF Browser!Waits, Browser!choice, Browser!shown, Browser!clicked
    <3>2. QED BY <3>1, PageStays
  <2>2. CASE \E s : Browser!Selects(s)
    BY <2>2, StockOpens DEF PageInv, Chosen
  <2>3. CASE Browser!Added /\ adding = selected
    <3>1. Browser!Reload({"bundle", "analysis"}, settings) /\ UNCHANGED <<selected, settings, refreshing, refreshes>>
      BY <2>3 DEF Browser!Added, Browser!refreshTick, Browser!choice, Browser!clicked
    <3>2. {"bundle", "analysis"} \in SUBSET PageKinds
      BY DEF PageKinds
    <3>3. ViewInv'
      BY <3>1, <3>2, PageReloads DEF PageInv
    <3>4. QED BY <3>1, <3>3, PageStays DEF Chosen
  <2>4. \/ Browser!Waits
        \/ \E s : Browser!Selects(s)
        \/ Browser!Added /\ adding = selected
    BY DEF Browser!addStock, Browser!handleDelete, Browser!Added, Browser!onDeleted, Browser!ErrandFails,
           Browser!setSelected
  <2>5. QED BY <2>1, <2>2, <2>3, <2>4
<1>3. QED BY <1>1, <1>2, PageStays DEF PageInv

\* Other settings, or the same, beside what is left alone.
LEMMA SettingsAreNew ==
  ASSUME ViewInv, NEW w, Browser!NewSettings(w), selected' = selected, selected # NoStock
  PROVE  ViewInv'
<1>1. settings' = w
  BY DEF Browser!NewSettings
<1>2. CASE w = settings
  <2>1. UNCHANGED <<selected, settings, page, requests>>
    BY <1>1, <1>2 DEF Browser!NewSettings, Browser!shown
  <2>2. QED BY <2>1 DEF ViewInv, AskedOf, ShownOf
<1>3. CASE w # settings
  <2> DEFINE gone == {}
  <2>1. page' = page /\ requests' = Browser!Asked({"analysis"}, selected, w) \ gone
    BY <1>3 DEF Browser!NewSettings, Browser!Reload
  <2>2. \A r \in gone : r.what # "analysis"
    OBVIOUS
  <2> HIDE DEF gone
  <2>3. QED BY <1>1, <2>1, <2>2, SettingsChange
<1>4. QED BY <1>2, <1>3

\* Choices, the dialog they are made in, and answers.
LEMMA PageFollowsItsUser ==
  ASSUME PageInv,
         \/ Browser!OpenDialog \/ Browser!CloseDialog \/ Browser!ModelsKnown \/ Browser!ModelsUnknown
         \/ \E w \in Combinations : Browser!handleSettingsChange(w)
         \/ \E r \in requests : Browser!Answer(r)
  PROVE  PageInv' /\ Chosen
<1>1. CASE \E w \in Combinations : Browser!handleSettingsChange(w)
  <2>1. PICK w \in Combinations : Browser!handleSettingsChange(w)
    BY <1>1
  <2>2. /\ UNCHANGED <<selected, turning, loading, stream, refreshing, refreshes>> /\ happened' = happened + 1
        /\ Browser!NewSettings(w) /\ selected # NoStock /\ settings' = w
    BY <2>1 DEF Browser!handleSettingsChange, Browser!StaysPut, Browser!runs, Browser!clicked, Browser!UserActs,
              Browser!Happens, Browser!NewSettings
  <2>3. ViewInv'
    BY <2>2, SettingsAreNew DEF PageInv
  <2>4. happened' # happened
    BY <2>2 DEF PageInv
  <2>5. QED BY <2>2, <2>3, <2>4, PageStays DEF PageInv, Chosen, Counts
<1>2. CASE \E r \in requests : Browser!Answer(r)
  <2>1. UNCHANGED <<turning, loading, stream>>
    BY <1>2 DEF Browser!Answer, Browser!StaysPut, Browser!runs
  <2>2. QED BY <1>2, <2>1, PageAnswered, PageStays DEF PageInv
<1>3. CASE Browser!OpenDialog \/ Browser!CloseDialog \/ Browser!ModelsUnknown
  <2>1. UNCHANGED <<selected, settings, page, requests, turning, loading, stream, refreshing, refreshes>> /\ Counts
    BY <1>3 DEF Browser!OpenDialog, Browser!CloseDialog, Browser!ModelsUnknown, Browser!StaysPut, Browser!runs,
              Browser!shown, Browser!clicked, Browser!PageActs, Browser!UserActs, Browser!Happens, Counts
  <2>2. QED BY <2>1, PageStays DEF PageInv
<1>4. CASE Browser!ModelsKnown
  <2>1. /\ UNCHANGED <<selected, turning, loading, stream, refreshing, refreshes, happened>> /\ selected # NoStock
        /\ Browser!NewSettings(Proxied[settings]) /\ dialog = "asking" /\ settings' = Proxied[settings]
    BY <1>4 DEF Browser!ModelsKnown, Browser!StaysPut, Browser!runs, Browser!clicked, Browser!NewSettings
  <2>2. ViewInv'
    BY <2>1, SettingsAreNew DEF PageInv
  <2>3. QED BY <2>1, <2>2, PageStays DEF PageInv, Chosen, Counts
<1>5. QED BY <1>1, <1>2, <1>3, <1>4

\* A run: while the page says that it is loading there is a stream, or a turn to come.
LEMMA RunStarts ==
  ASSUME NEW s, Browser!startAnalyze(s)
  PROVE  StreamInv'
<1>1. stream' = [run |-> started', of |-> s, with |-> settings, pc |-> "open"]
  BY DEF Browser!startAnalyze
<1>2. stream'.pc = "open"
  BY <1>1
<1>3. stream' # Browser!NoStream
  BY <1>2 DEF Browser!NoStream
<1>4. QED BY <1>1, <1>3 DEF StreamInv

LEMMA StreamGoesOn ==
  ASSUME StreamInv, NEW event, event # "closed", stream' = [stream EXCEPT !.pc = event], UNCHANGED <<loading, turning>>
  PROVE  StreamInv'
<1>1. stream' = [run |-> stream.run, of |-> stream.of, with |-> stream.with, pc |-> event]
  BY DEF StreamInv
<1>2. stream'.pc = event
  BY <1>1
<1>3. stream' # Browser!NoStream
  BY <1>2 DEF Browser!NoStream
<1>4. QED BY <1>1, <1>3 DEF StreamInv

LEMMA PageRuns ==
  ASSUME PageInv,
         \/ Browser!Run \/ \E w \in working : Browser!Finishes(w) \/ Browser!Fails(w)
         \/ Browser!onResult \/ Browser!onDone \/ Browser!onError
  PROVE  PageInv' /\ Chosen
<1>1. UNCHANGED <<selected, settings, touched, turning, refreshing, refreshes>> /\ Counts
  BY DEF Browser!Run, Browser!Finishes, Browser!Fails, Browser!onResult, Browser!onDone, Browser!onError,
         Browser!AtTheServer, Browser!InTheBrowser, Browser!choice, Browser!clicked, Browser!UserActs,
         Browser!Happens, Counts
<1>2. ViewInv'
  <2>1. CASE Browser!refreshTick
    <3>1. {"bundle", "analysis"} \in SUBSET PageKinds
      BY DEF PageKinds
    <3>2. QED BY <1>1, <2>1, <3>1, PageReloads DEF PageInv, Browser!refreshTick
  <2>2. CASE UNCHANGED <<page, requests>>
    BY <1>1, <2>2, PageStays
  <2>3. QED BY <2>1, <2>2 DEF Browser!Run, Browser!Finishes, Browser!Fails, Browser!onResult, Browser!onDone,
                    Browser!onError, Browser!AtTheServer, Browser!shown
<1>3. StreamInv'
  <2>1. CASE Browser!Run
    BY <2>1, RunStarts DEF Browser!Run
  <2>2. CASE \E w \in working : Browser!Finishes(w) \/ Browser!Fails(w)
    <3>1. PICK w \in working, event \in {"result", "error"} : Browser!Heard(w, event) /\ loading' = loading
      BY <2>2 DEF Browser!Finishes, Browser!Fails, Browser!AtTheServer
    <3>2. CASE stream.run = w.run
      BY <1>1, <3>1, <3>2, StreamGoesOn DEF PageInv, Browser!Heard
    <3>3. CASE stream.run # w.run
      BY <1>1, <3>1, <3>3, PageStays DEF Browser!Heard
    <3>4. QED BY <3>2, <3>3
  <2>3. CASE Browser!onResult
    <3>1. stream' = [stream EXCEPT !.pc = "done"] /\ loading' = loading
      BY <2>3 DEF Browser!onResult
    <3>2. QED BY <1>1, <3>1, StreamGoesOn DEF PageInv
  <2>4. CASE Browser!onDone \/ Browser!onError
    BY <2>4 DEF Browser!onDone, Browser!onError, StreamInv, Browser!NoStream
  <2>5. QED BY <2>1, <2>2, <2>3, <2>4
<1>4. QED BY <1>1, <1>2, <1>3, PageStays DEF PageInv, Chosen

\* A refresh: while the header says that it is refreshing there is one that it clicked.
LEMMA PageRefreshes ==
  ASSUME PageInv,
         \/ \E everything \in BOOLEAN : Browser!Refresh(everything)
         \/ \E r \in refreshes : Browser!Queued(r) \/ Browser!Refreshed(r) \/ Browser!NotRefreshed(r)
         \/ Browser!pollActivity
  PROVE  PageInv' /\ Chosen
<1>1. UNCHANGED <<selected, settings, touched, turning>> /\ Counts
  BY DEF Browser!Refresh, Browser!Queued, Browser!Refreshed, Browser!NotRefreshed, Browser!pollActivity,
         Browser!HeaderAnswered, Browser!Beside, Browser!choice, Browser!PageActs, Browser!UserActs, Browser!Happens, Counts
<1>2. ViewInv'
  <2>1. CASE Browser!localRefresh
    <3>1. {"bundle"} \in SUBSET PageKinds
      BY DEF PageKinds
    <3>2. QED BY <1>1, <2>1, <3>1, PageReloads DEF PageInv, Browser!localRefresh
  <2>2. CASE UNCHANGED <<page, requests>>
    BY <1>1, <2>2, PageStays
  <2>3. QED BY <2>1, <2>2 DEF Browser!Refresh, Browser!Queued, Browser!Refreshed, Browser!NotRefreshed,
                    Browser!pollActivity, Browser!shown
<1>3. StreamInv'
  <2>1. CASE \E s : Browser!startAnalyze(s)
    BY <2>1, RunStarts
  <2>2. CASE UNCHANGED <<loading, stream>>
    BY <1>1, <2>2, PageStays
  <2>3. QED BY <2>1, <2>2 DEF Browser!Refresh, Browser!Queued, Browser!Refreshed, Browser!NotRefreshed,
                    Browser!pollActivity, Browser!runs
<1>4. HeaderInv'
  <2>1. CASE \E everything \in BOOLEAN : Browser!Refresh(everything)
    <3>1. PICK everything \in BOOLEAN :
              refreshes' = refreshes \union {[click |-> happened', of |-> selected, everything |-> everything,
                                             pc |-> "sent", by |-> "header"]}
      BY <2>1 DEF Browser!Refresh
    <3> DEFINE new == [click |-> happened', of |-> selected, everything |-> everything, pc |-> "sent", by |-> "header"]
    <3>2. new \in refreshes' /\ new.by = "header"
      BY <3>1
    <3>3. new = [click |-> new.click, of |-> new.of, everything |-> new.everything, pc |-> new.pc, by |-> new.by]
      OBVIOUS
    <3> HIDE DEF new
    <3>4. refreshes' = refreshes \union {new}
      BY <3>1 DEF new
    <3>5. QED BY <3>2, <3>3, <3>4 DEF PageInv, HeaderInv
  <2>2. CASE \E r \in refreshes : Browser!Queued(r)
    <3>1. PICK r \in refreshes : Browser!Queued(r)
      BY <2>2
    <3> DEFINE new == [r EXCEPT !.pc = "queued"]
    <3>2. refreshes' = (refreshes \ {r}) \union {new} /\ refreshing' = refreshing
      BY <3>1 DEF Browser!Queued
    <3>3. new = [click |-> r.click, of |-> r.of, everything |-> r.everything, pc |-> "queued", by |-> r.by]
      BY DEF PageInv, HeaderInv
    <3> HIDE DEF new
    <3>4. /\ new = [click |-> new.click, of |-> new.of, everything |-> new.everything, pc |-> new.pc, by |-> new.by]
          /\ new.by = r.by
      BY <3>3
    <3>5. QED BY <3>2, <3>4 DEF PageInv, HeaderInv
  <2>3. CASE \E r \in refreshes : Browser!HeaderAnswered(r)
    <3>1. PICK r \in refreshes : /\ refreshes' = refreshes \ {r}
                                 /\ refreshing' = IF r.by = "header" THEN FALSE ELSE refreshing
      BY <2>3 DEF Browser!HeaderAnswered
    <3>2. QED BY <3>1 DEF PageInv, HeaderInv
  <2>4. CASE Browser!pollActivity
    BY <2>4, PageStays DEF Browser!pollActivity, Browser!clicked
  <2>5. QED BY <2>1, <2>2, <2>3, <2>4 DEF Browser!Refreshed, Browser!NotRefreshed
<1>5. QED BY <1>1, <1>2, <1>3, <1>4, PageStays DEF PageInv, Chosen

LEMMA PageStep == PageInv /\ Browser!Next => PageInv' /\ Chosen
  BY PageTurns, PageArrives, PageRunsErrands, PageFollowsItsUser, PageRuns, PageRefreshes
  DEF Browser!Next, Browser!UserStep

LEMMA PageBegins == Browser!Init => PageInv
<1> SUFFICES ASSUME Browser!Init PROVE PageInv
  OBVIOUS
<1>1. ViewInv
  BY DEF Browser!Init, ViewInv, AskedOf, ShownOf, Browser!Blank, PageKinds
<1>2. StreamInv /\ HeaderInv /\ happened \in Nat
  BY DEF Browser!Init, StreamInv, HeaderInv, Browser!NoStream
<1>3. QED BY <1>1, <1>2 DEF PageInv

\* Workbench, PageKeepsUp: whatever the user does meanwhile and in whatever order the answers come,
\* the page shows the stock that is open and the analysis of its settings, no choice is undone by
\* an answer but that of the models in its own dialog, and what disables a button is yet to end.
THEOREM PageIsTheUsers == Browser!Spec => PageKeepsUp
<1>1. PageInv => Browser!NothingIsStuck /\ Browser!ShowsTheSelected
  BY DEF PageInv, StreamInv, HeaderInv, ViewInv, ShownOf, Browser!NothingIsStuck, Browser!ShowsTheSelected
<1>2. PageInv /\ [Browser!Next]_(Browser!vars) => PageInv'
  <2>1. CASE Browser!Next
    BY <2>1, PageStep
  <2>2. CASE UNCHANGED Browser!vars
    <3>1. UNCHANGED <<selected, settings, page, requests, loading, stream, turning, refreshing, refreshes, happened>>
      BY <2>2 DEF Browser!vars, Browser!choice, Browser!shown, Browser!runs, Browser!clicked
    <3>2. SUFFICES ASSUME PageInv PROVE PageInv'
      OBVIOUS
    <3>3. QED BY <3>1, <3>2, PageStays DEF PageInv
  <2>3. QED BY <2>1, <2>2
<1>3. PageInv /\ [Browser!Next]_(Browser!vars) =>
        [touched /\ touched' /\ selected' = selected /\ settings' # settings =>
           happened' # happened \/ (dialog = "asking" /\ settings' = Proxied[settings])]_(Browser!vars)
  BY PageStep DEF Chosen
<1>4. QED BY <1>1, <1>2, <1>3, PageBegins, PTL DEF Browser!Spec, PageKeepsUp, Browser!PageKeepsUp, Browser!ChoiceStands

=============================================================================
