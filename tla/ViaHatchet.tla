----------------------------- MODULE ViaHatchet ------------------------------
(***************************************************************************)
(* A click on its way through the queue (src/src/hatchet/via.ts,           *)
(* hatchet/activity.ts, hatchet/tasks/single.ts): a look at the workers,   *)
(* kept for a while, decides whether the job is queued or refused; a       *)
(* worker of its role takes it up, behind a gate where it goes to Distill; *)
(* attempts fail, time out and go on as JavaScript, or die with their      *)
(* worker.  Without Hatchet the job runs where it was clicked.             *)
(***************************************************************************)
EXTENDS Integers, FiniteSets

CONSTANTS Clicks,
          Mixes,       \* what they may be of
          LookCache,   \* LOOK_CACHE_MS
          MaxTime,     \* bound: the clock
          MaxFaults    \* bound: failures, timeouts, dead workers and looks nobody answers

Roles == {"general", "distill"}

VARIABLES configured,  \* isHatchetConfigured()
          clock,
          workers,     \* the roles somebody listens in
          lastLook,
          clicks,      \* what was clicked, when, and how far it is
          attempts,    \* the executions under way, given up or not
          paid,        \* history: calls to Perplexity, by click
          vouched, unattended,   \* history: when last somebody listened or a look failed; when last nobody did
          faults

vars == <<configured, clock, workers, lastLook, clicks, attempts, paid, vouched, unattended, faults>>
seen == <<vouched, unattended>>

NoLook == [at |-> -LookCache, ok |-> FALSE]
Click(kind) == [pc |-> "idle", at |-> 0, attempt |-> 0, kind |-> kind]

Init == /\ configured \in BOOLEAN
        /\ clock = 0
        /\ workers \in IF configured THEN SUBSET Roles ELSE {{}}
        /\ lastLook = NoLook
        /\ \E kind \in Mixes : clicks = [c \in Clicks |-> Click(kind[c])]
        /\ attempts = {}
        /\ paid = [c \in Clicks |-> 0]
        /\ vouched = IF workers # {} THEN 0 ELSE -LookCache
        /\ unattended = IF workers = {} THEN 0 ELSE -LookCache
        /\ faults = 0

-----------------------------------------------------------------------------
(* The tasks. *)

roleOf(kind) == IF kind = "distillRefresh" THEN "distill" ELSE "general"

\* Mutated: what was paid for is tried again as everything else.
retriesAlike(kind) == 2

\* A refresh of Perplexity is a decision to pay for one call.
retries(kind) == IF kind = "perplexityRefresh" THEN 0 ELSE 2

\* Only the refresh of Distill itself goes there behind the gate; that of the data
\* takes Distill along.
behindGate(kind) == kind = "distillRefresh"
goesToDistill(kind) == kind \in {"distillRefresh", "refreshData"}

Gated(a) == configured /\ behindGate(clicks[a.click].kind)
AtDistill == {a \in attempts : a.place = "calling" /\ goesToDistill(clicks[a.click].kind)}

Fault == faults < MaxFaults /\ faults' = faults + 1

-----------------------------------------------------------------------------
(* Is anyone home? *)

\* The queue takes the job, or NoWorkerError answers.
dispatch(c, ok) == clicks' = [clicks EXCEPT ![c].pc = IF ok THEN "queued" ELSE "refused", ![c].at = 0]

\* A look that is still good.
ClickKnown(c) ==
    /\ clicks[c].pc = "idle" /\ configured
    /\ clock - lastLook.at < LookCache
    /\ dispatch(c, lastLook.ok)
    /\ UNCHANGED <<configured, clock, workers, lastLook, attempts, paid, seen, faults>>

\* Or none: workers.list is asked, and awaited.
ClickUnknown(c) ==
    /\ clicks[c].pc = "idle" /\ configured
    /\ clock - lastLook.at >= LookCache
    /\ clicks' = [clicks EXCEPT ![c].pc = "looking", ![c].at = clock]
    /\ UNCHANGED <<configured, clock, workers, lastLook, attempts, paid, seen, faults>>

\* The engine looks, some time before its answer is heard.
EngineLooks(c) ==
    /\ clicks[c].pc = "looking"
    /\ clicks' = [clicks EXCEPT ![c].pc = IF workers # {} THEN "yes" ELSE "no"]
    /\ UNCHANGED <<configured, clock, workers, lastLook, attempts, paid, seen, faults>>

\* Mutated: a look counts from the moment it was heard of.
KeepFromNow(c) == lastLook' = [at |-> clock, ok |-> clicks[c].pc = "yes"]

\* It is as old as the question, whatever was heard since.
Keep(c) == lastLook' = [at |-> clicks[c].at, ok |-> clicks[c].pc = "yes"]

Hear(c) ==
    /\ clicks[c].pc \in {"yes", "no"}
    /\ Keep(c)
    /\ dispatch(c, clicks[c].pc = "yes")
    /\ UNCHANGED <<configured, clock, workers, attempts, paid, seen, faults>>

\* Cannot tell: the request is let through.
LookFails(c) ==
    /\ clicks[c].pc \in {"looking", "yes", "no"} /\ Fault
    /\ lastLook' = [at |-> clicks[c].at, ok |-> TRUE]
    /\ vouched' = clock
    /\ dispatch(c, TRUE)
    /\ UNCHANGED <<configured, clock, workers, attempts, paid, unattended>>

-----------------------------------------------------------------------------
(* The job. *)

Attempt(c) == [click |-> c, number |-> clicks[c].attempt + 1,
               place |-> IF configured /\ behindGate(clicks[c].kind) THEN "waiting" ELSE "begun"]

\* A worker of its role takes it up; without Hatchet the click does.
Start(c) ==
    /\ IF configured THEN clicks[c].pc = "queued" /\ roleOf(clicks[c].kind) \in workers
                     ELSE clicks[c].pc = "idle"
    /\ clicks' = [clicks EXCEPT ![c].pc = "running", ![c].attempt = @ + 1]
    /\ attempts' = attempts \union {Attempt(c)}
    /\ UNCHANGED <<configured, clock, workers, lastLook, paid, seen, faults>>

\* Mutated: nobody waits for a gate.
mayCallAtOnce(a) == TRUE

\* distillGate.run: one at a time in its process.
mayCall(a) == a.place = "begun" \/ ~\E b \in attempts : Gated(b) /\ b.place = "calling"

Call(a) ==
    /\ a \in attempts /\ a.place # "calling"
    /\ mayCall(a)
    /\ attempts' = (attempts \ {a}) \union {[a EXCEPT !.place = "calling"]}
    /\ paid' = IF clicks[a.click].kind = "perplexityRefresh" THEN [paid EXCEPT ![a.click] = @ + 1] ELSE paid
    /\ UNCHANGED <<configured, clock, workers, lastLook, clicks, seen, faults>>

\* Whether somebody still waits for this attempt.
Awaited(a) == clicks[a.click].pc = "running" /\ clicks[a.click].attempt = a.number

\* A failed attempt is queued again while there are retries; one that was not queued has none.
afterFailure(c) ==
    IF configured /\ clicks[c].attempt <= retries(clicks[c].kind)
    THEN [clicks[c] EXCEPT !.pc = "queued"] ELSE [clicks[c] EXCEPT !.pc = "failed", !.attempt = 0]

over(c, how) == clicks' = [clicks EXCEPT ![c].pc = how, ![c].attempt = 0]

Succeed(a) ==
    /\ a \in attempts /\ a.place = "calling"
    /\ attempts' = attempts \ {a}
    /\ IF Awaited(a) THEN over(a.click, "done") ELSE UNCHANGED clicks
    /\ UNCHANGED <<configured, clock, workers, lastLook, paid, seen, faults>>

Fail(a) ==
    /\ a \in attempts /\ a.place # "waiting" /\ Fault
    /\ attempts' = attempts \ {a}
    /\ clicks' = IF Awaited(a) THEN [clicks EXCEPT ![a.click] = afterFailure(a.click)] ELSE clicks
    /\ UNCHANGED <<configured, clock, workers, lastLook, paid, seen>>

\* executionTimeout: the queue gives the attempt up; its JavaScript goes on, and keeps its
\* place at the gate.
TimeOut(c) ==
    /\ configured /\ clicks[c].pc = "running" /\ Fault
    /\ clicks' = [clicks EXCEPT ![c] = afterFailure(c)]
    /\ UNCHANGED <<configured, clock, workers, lastLook, attempts, paid, seen>>

\* scheduleTimeout: nobody has taken it up in time.
GiveUp(c) ==
    /\ clicks[c].pc = "queued"
    /\ over(c, "failed")
    /\ UNCHANGED <<configured, clock, workers, lastLook, attempts, paid, seen, faults>>

-----------------------------------------------------------------------------
(* The workers, and the time. *)

WorkerDies(role) ==
    /\ role \in workers /\ Fault
    /\ workers' = workers \ {role}
    /\ unattended' = IF workers' = {} THEN clock ELSE unattended
    /\ attempts' = {a \in attempts : roleOf(clicks[a.click].kind) # role}
    /\ clicks' = [c \in Clicks |-> IF clicks[c].pc = "running" /\ roleOf(clicks[c].kind) = role
                                   THEN afterFailure(c) ELSE clicks[c]]
    /\ UNCHANGED <<configured, clock, lastLook, paid, vouched>>

WorkerStarts(role) ==
    /\ configured /\ role \notin workers
    /\ workers' = workers \union {role}
    /\ vouched' = clock
    /\ UNCHANGED <<configured, clock, lastLook, clicks, attempts, paid, unattended, faults>>

Tick ==
    /\ configured /\ clock < MaxTime
    /\ \E c \in Clicks : clicks[c].pc \in {"idle", "looking", "yes", "no"}
    /\ clock' = clock + 1
    /\ IF workers = {} THEN unattended' = clock' /\ UNCHANGED vouched
                       ELSE vouched' = clock' /\ UNCHANGED unattended
    /\ UNCHANGED <<configured, workers, lastLook, clicks, attempts, paid, faults>>

Next == \/ \E c \in Clicks : \/ ClickKnown(c) \/ ClickUnknown(c) \/ EngineLooks(c) \/ Hear(c) \/ LookFails(c)
                             \/ Start(c) \/ TimeOut(c) \/ GiveUp(c)
        \/ \E a \in attempts : Call(a) \/ Succeed(a) \/ Fail(a)
        \/ \E role \in Roles : WorkerDies(role) \/ WorkerStarts(role)
        \/ Tick

Spec == Init /\ [][Next]_vars

-----------------------------------------------------------------------------
(* Properties *)

\* However looks cross, and however long they take: a click is refused only if nobody
\* listened at some moment of the ten seconds before it, or later; and queued only if
\* somebody did, or a look failed.
AnswersAreRecent ==
    [][\A c \in Clicks :
           LET since == (IF clicks[c].pc = "idle" THEN clock ELSE clicks[c].at) - LookCache
           IN /\ clicks'[c].pc = "refused" /\ clicks[c].pc # "refused" => unattended > since
              /\ clicks'[c].pc = "queued" /\ clicks[c].attempt = 0 => vouched' > since]_vars

\* The attempts behind the gate, retries and those given up among them, reach Distill one
\* at a time; and no click is paid for twice, whatever fails after it was.
OneGatedCall == Cardinality({a \in AtDistill : Gated(a)}) <= 1
PaidOnce == \A c \in Clicks : paid[c] <= 1

\* Together: what a click may count on.
ClicksAreServed == AnswersAreRecent /\ [](OneGatedCall /\ PaidOnce)

\* "A Distill refresh clicked while the nightly run was going gave two concurrent calls to a
\* machine meant to take one ... fixed simply by the work happening in the worker"
\* (single.ts:5-15).  Violated: a data refresh takes Distill along in the general worker,
\* behind no gate.
OneCallAtDistill == configured => Cardinality(AtDistill) <= 1

\* "An unattended queue must say so rather than hang" (via.ts:27).  Violated: a worker of any
\* role answers for all of them.
QueuedIsAttended ==
    [][\A c \in Clicks : clicks[c].pc = "looking" /\ clicks'[c].pc = "yes" =>
           roleOf(clicks[c].kind) \in workers]_vars

=============================================================================
