----------------------------- MODULE HatchetRun -----------------------------
(***************************************************************************)
(* The pipeline on Hatchet: the parent task and its stages                 *)
(* (src/src/hatchet/tasks/pipeline.ts), the trigger and the stop of        *)
(* src/src/scheduler.ts, and the rows of src/src/db/admin.ts they share.   *)
(*                                                                         *)
(* Four actors: the triggers (a click, or Hatchet's own cron), the parent  *)
(* in the worker, the stages on their workers, and the API process with    *)
(* its stop button and its restarts.  The queue itself is Hatchet: a task  *)
(* is queued, runs, and settles once; a cancelled or timed-out attempt is  *)
(* over for the queue while its JavaScript goes on (a straggler).          *)
(*                                                                         *)
(* The bounded pool that walks the universe is SettledPool.tla; here it is *)
(* reduced to its question, whether the row is still open.                 *)
(***************************************************************************)
EXTENDS Naturals, Sequences, FiniteSets

CONSTANTS
  Runs,          \* executions of the pipeline task
  CronRuns,      \* those that Hatchet's cron triggers; the others are clicks
  Symbols,       \* the watchlist
  Stages,        \* stages of a symbol: data, distill, analysis
  Retries,       \* retry budget of a stage
  ReferenceSize, \* reference symbols of a full run
  NoRun,
  MaxTimeouts, MaxBoots, MaxLost, MaxStops   \* bounds on the misfortunes

ASSUME StagesAssumption == Stages \in Nat \ {0} /\ Retries \in Nat
ASSUME ReferenceAssumption == ReferenceSize \in Nat
ASSUME NoRunAssumption  == NoRun \notin Runs /\ CronRuns \subseteq Runs

VARIABLES
  parent,     \* the trigger and the pipeline task of each run
  row,        \* the table runs
  opened,     \* the rows in the order of started_at
  plan,       \* the symbols of the run
  full,       \* it is the whole watchlist, not a hand-picked subset
  chain,      \* runSymbol: where each symbol of each run is
  stragglers, \* attempts the queue has given up and JavaScript has not
  steps,      \* run_steps: the rows of each stage of each symbol
  refs,       \* reference symbols the run has not started
  stopping,   \* the stop request in progress in the API process
  messaged, timedOut, timeouts, boots, lost, stops   \* history and bounds

queue   == <<chain, stragglers, steps>>
bounds  == <<timedOut, timeouts, boots, lost, stops>>
vars    == <<parent, row, opened, plan, full, queue, refs, stopping, messaged, bounds>>

Executing == {"starting", "watchlist", "message", "universe", "closing"}
Closed    == {"ok", "partial", "failed", "stopped"}

goto(r, p) == parent' = [parent EXCEPT ![r] = p]

(* isPipelineRunningInDb: the newest row, and only it. *)
RunningInDb == opened # <<>> /\ row[opened[Len(opened)]] = "running"

Idle == [stage |-> 1, at |-> "between", attempt |-> 0, failed |-> FALSE]

Settled(r) == \A s \in plan[r] : chain[r][s].at \in {"done", "rejected"}

-----------------------------------------------------------------------------

Init ==
  /\ parent = [r \in Runs |-> "none"]
  /\ row = [r \in Runs |-> "none"]
  /\ opened = <<>>
  /\ plan = [r \in Runs |-> {}]
  /\ full = [r \in Runs |-> FALSE]
  /\ chain = [r \in Runs |-> [s \in Symbols |-> Idle]]
  /\ stragglers = {}
  /\ steps = [r \in Runs |-> [s \in Symbols |-> [k \in 1 .. Stages |-> <<>>]]]
  /\ refs = [r \in Runs |-> 0]
  /\ stopping = [phase |-> "none", run |-> NoRun]
  /\ messaged = {}
  /\ timedOut = {} /\ timeouts = 0 /\ boots = 0 /\ lost = 0 /\ stops = 0

----------------------------------- (* triggers *) ---------------------------

(* runPipelineOnHatchet: the newest row is read, and a running one refuses. *)
Ask(r) ==
  /\ r \notin CronRuns /\ parent[r] = "none"
  /\ goto(r, IF RunningInDb THEN "refused" ELSE "asked")
  /\ UNCHANGED <<row, opened, plan, full, queue, refs, stopping, messaged, bounds>>

(* runNoWait: the task is queued; its row does not exist yet. *)
Enqueue(r) ==
  /\ parent[r] = "asked"
  /\ goto(r, "queued")
  /\ UNCHANGED <<row, opened, plan, full, queue, refs, stopping, messaged, bounds>>

(* Hatchet's cron triggers the task directly and asks nobody. *)
CronFires(r) ==
  /\ r \in CronRuns /\ parent[r] = "none"
  /\ goto(r, "queued")
  /\ UNCHANGED <<row, opened, plan, full, queue, refs, stopping, messaged, bounds>>

---------------------------------- (* the parent *) --------------------------

(* A worker takes the task: config, dossier sync, watchlist, universe, ages. *)
Begin(r) ==
  /\ parent[r] = "queued"
  /\ goto(r, "starting")
  /\ UNCHANGED <<row, opened, plan, full, queue, refs, stopping, messaged, bounds>>

(* One of those reads rejects: the task fails and has left no row. *)
FailToStart(r) ==
  /\ parent[r] = "starting"
  /\ goto(r, "over")
  /\ UNCHANGED <<row, opened, plan, full, queue, refs, stopping, messaged, bounds>>

(* startRun, and the chains of all symbols set off together. *)
OpenRow(r) ==
  /\ parent[r] = "starting"
  /\ \/ /\ \E S \in SUBSET Symbols \ {{}} : plan' = [plan EXCEPT ![r] = S]
        /\ UNCHANGED <<full, refs>>
     \/ /\ plan' = [plan EXCEPT ![r] = Symbols]
        /\ full' = [full EXCEPT ![r] = TRUE]
        /\ refs' = [refs EXCEPT ![r] = ReferenceSize]
  /\ row' = [row EXCEPT ![r] = "running"]
  /\ opened' = Append(opened, r)
  /\ goto(r, "watchlist")
  /\ UNCHANGED <<queue, stopping, messaged, bounds>>

(* Mutated: Promise.all over the symbols instead of allSettled. *)
LeaveOnFirstRejection(r) ==
  /\ parent[r] = "watchlist"
  /\ Settled(r) \/ \E s \in plan[r] : chain[r][s].at = "rejected"
  /\ goto(r, IF full[r] THEN "message" ELSE "universe")
  /\ UNCHANGED <<row, opened, plan, full, queue, refs, stopping, messaged, bounds>>

(* Mutated: the parent waits for every chain to succeed. *)
LeaveOnSuccess(r) ==
  /\ parent[r] = "watchlist"
  /\ \A s \in plan[r] : chain[r][s].at = "done"
  /\ goto(r, IF full[r] THEN "message" ELSE "universe")
  /\ UNCHANGED <<row, opened, plan, full, queue, refs, stopping, messaged, bounds>>

(* allSettled: every chain has come to its end, whichever. *)
LeaveWatchlist(r) ==
  /\ parent[r] = "watchlist"
  /\ Settled(r)
  /\ goto(r, IF full[r] THEN "message" ELSE "universe")
  /\ UNCHANGED <<row, opened, plan, full, queue, refs, stopping, messaged, bounds>>

(* sendDigest and watchDepot, after every full run, stopped or not. *)
SendMessage(r) ==
  /\ parent[r] = "message"
  /\ messaged' = messaged \cup {r}
  /\ goto(r, "universe")
  /\ UNCHANGED <<row, opened, plan, full, queue, refs, stopping, bounds>>

(* The pool's next item, while isRunActive says so. *)
NextReference(r) ==
  /\ parent[r] = "universe" /\ refs[r] > 0 /\ row[r] = "running"
  /\ refs' = [refs EXCEPT ![r] = @ - 1]
  /\ UNCHANGED <<parent, row, opened, plan, full, queue, stopping, messaged, bounds>>

EndUniverse(r) ==
  /\ parent[r] = "universe" /\ (refs[r] = 0 \/ row[r] # "running")
  /\ goto(r, "closing")
  /\ UNCHANGED <<row, opened, plan, full, queue, refs, stopping, messaged, bounds>>

(* Mutated: finishRun without its guard on an open row. *)
FinishUnguarded(r, status) == row' = [row EXCEPT ![r] = status]

(* finishRun: the first to close a row decides how it ended. *)
finishRun(r, status) == row' = [row EXCEPT ![r] = IF @ = "running" THEN status ELSE @]

(* isRunActive rejects: the pool rejects with it, and the catch closes the row. *)
UniverseThrows(r) ==
  /\ parent[r] = "universe" /\ refs[r] > 0
  /\ finishRun(r, "partial")
  /\ goto(r, "over")
  /\ UNCHANGED <<opened, plan, full, queue, refs, stopping, messaged, bounds>>

(* What the parent counts: chains that rejected and stages that reported failure. *)
AnyFailed(r) == \E s \in plan[r] : chain[r][s].at = "rejected" \/ chain[r][s].failed

(* The end of the task.  An UPDATE that fails lands in the catch, whose own
   finishRun says partial. *)
Close(r) ==
  /\ parent[r] = "closing"
  /\ \E status \in {"partial"} \cup (IF AnyFailed(r) THEN {} ELSE {"ok"}) : finishRun(r, status)
  /\ goto(r, "over")
  /\ UNCHANGED <<opened, plan, full, queue, refs, stopping, messaged, bounds>>

(* The worker dies under the parent.  With retries: 0 nobody takes the task up
   again, and no other process knows its row. *)
LoseParent(r) ==
  /\ parent[r] \in Executing
  /\ lost < MaxLost
  /\ lost' = lost + 1
  /\ goto(r, "lost")
  /\ UNCHANGED <<row, opened, plan, full, queue, refs, stopping, messaged,
                 timedOut, timeouts, boots, stops>>

---------------------------------- (* the stages *) --------------------------

setChain(r, s, c) == chain' = [chain EXCEPT ![r][s] = c]

(* runSymbol: the stage is queued once the one before has settled. *)
QueueStage(r, s) ==
  /\ parent[r] = "watchlist" /\ s \in plan[r] /\ chain[r][s].at = "between"
  /\ setChain(r, s, [chain[r][s] EXCEPT !.at = "queued", !.attempt = 0])
  /\ UNCHANGED <<parent, row, opened, plan, full, stragglers, steps, refs, stopping,
                 messaged, bounds>>

StartStage(r, s) ==
  /\ chain[r][s].at = "queued"
  /\ setChain(r, s, [chain[r][s] EXCEPT !.at = "running"])
  /\ UNCHANGED <<parent, row, opened, plan, full, stragglers, steps, refs, stopping,
                 messaged, bounds>>

(* The stage's task fulfilled: the chain goes on, or is done. *)
Fulfilled(c) == IF c.stage = Stages THEN [c EXCEPT !.at = "done"]
            ELSE [c EXCEPT !.at = "between", !.stage = @ + 1]

(* The attempt threw: another one while the budget lasts, else the chain ends. *)
Thrown(c) == IF c.attempt < Retries THEN [c EXCEPT !.at = "queued", !.attempt = @ + 1]
             ELSE [c EXCEPT !.at = "rejected"]

record(r, s, k, status) == steps' = [steps EXCEPT ![r][s][k] = Append(@, status)]

(* Mutated: settle records a failure it is about to retry. *)
SettleRecordsEveryFailure(r, s) ==
  LET c == chain[r][s] IN
  /\ c.at = "running"
  /\ \/ /\ record(r, s, c.stage, "ok")
        /\ setChain(r, s, Fulfilled(c))
     \/ /\ record(r, s, c.stage, "failed")
        /\ setChain(r, s, IF c.attempt < Retries THEN Thrown(c)
                          ELSE [Fulfilled(c) EXCEPT !.failed = TRUE])
  /\ UNCHANGED <<parent, row, opened, plan, full, stragglers, refs, stopping, messaged, bounds>>

(* settle: success is recorded (and so is a skip, here the same); a failure is
   thrown while attempts remain and recorded once they are spent, and then the
   next stage follows all the same. *)
Settle(r, s) ==
  LET c == chain[r][s] IN
  /\ c.at = "running"
  /\ \/ /\ record(r, s, c.stage, "ok")
        /\ setChain(r, s, Fulfilled(c))
     \/ /\ c.attempt = Retries
        /\ record(r, s, c.stage, "failed")
        /\ setChain(r, s, [Fulfilled(c) EXCEPT !.failed = TRUE])
     \/ /\ c.attempt < Retries
        /\ setChain(r, s, Thrown(c))
        /\ UNCHANGED steps
  /\ UNCHANGED <<parent, row, opened, plan, full, stragglers, refs, stopping, messaged, bounds>>

(* The config or the insert of the row fails: whatever the step did, the
   attempt throws. *)
FailToRecord(r, s) ==
  /\ chain[r][s].at = "running"
  /\ setChain(r, s, Thrown(chain[r][s]))
  /\ UNCHANGED <<parent, row, opened, plan, full, stragglers, steps, refs, stopping,
                 messaged, bounds>>

Attempt(r, s) == [run |-> r, symbol |-> s, stage |-> chain[r][s].stage,
                  attempt |-> chain[r][s].attempt]

(* executionTimeout: the queue gives the attempt up, its JavaScript runs on. *)
ExecutionTimeout(r, s) ==
  /\ chain[r][s].at = "running" /\ timeouts < MaxTimeouts
  /\ stragglers' = stragglers \cup {Attempt(r, s)}
  /\ setChain(r, s, Thrown(chain[r][s]))
  /\ timedOut' = timedOut \cup {<<r, s, chain[r][s].stage>>}
  /\ timeouts' = timeouts + 1
  /\ UNCHANGED <<parent, row, opened, plan, full, steps, refs, stopping, messaged,
                 boots, lost, stops>>

(* scheduleTimeout: it waited too long and is cancelled unstarted. *)
QueueTimeout(r, s) ==
  /\ chain[r][s].at = "queued" /\ timeouts < MaxTimeouts
  /\ setChain(r, s, [chain[r][s] EXCEPT !.at = "rejected"])
  /\ timeouts' = timeouts + 1
  /\ UNCHANGED <<parent, row, opened, plan, full, stragglers, steps, refs, stopping, messaged,
                 timedOut, boots, lost, stops>>

(* A straggler comes to its own settle: it records, or it throws at nobody. *)
StragglerEnds(a) ==
  /\ a \in stragglers
  /\ stragglers' = stragglers \ {a}
  /\ \/ record(a.run, a.symbol, a.stage, "ok")
     \/ a.attempt = Retries /\ record(a.run, a.symbol, a.stage, "failed")
     \/ UNCHANGED steps
  /\ UNCHANGED <<parent, row, opened, plan, full, chain, refs, stopping, messaged, bounds>>

-------------------------------- (* the API process *) -----------------------

(* stopHatchetRun reads the newest row; one that is closed is nothing to stop. *)
ReadForStop ==
  /\ stopping.phase = "none" /\ RunningInDb /\ stops < MaxStops
  /\ stopping' = [phase |-> "read", run |-> opened[Len(opened)]]
  /\ stops' = stops + 1
  /\ UNCHANGED <<parent, row, opened, plan, full, queue, refs, messaged,
                 timedOut, timeouts, boots, lost>>

(* runs.cancel by the run's metadata: every stage that is queued or running. *)
Cancel ==
  LET r == stopping.run
      live == {s \in plan[r] : chain[r][s].at \in {"queued", "running"}}
  IN
  /\ stopping.phase = "read"
  /\ stragglers' = stragglers \cup {Attempt(r, s) : s \in {t \in live : chain[r][t].at = "running"}}
  /\ chain' = [chain EXCEPT ![r] =
       [s \in Symbols |-> IF s \in live THEN [@[s] EXCEPT !.at = "rejected"] ELSE @[s]]]
  /\ stopping' = [stopping EXCEPT !.phase = "cancelled"]
  /\ UNCHANGED <<parent, row, opened, plan, full, steps, refs, messaged, bounds>>

(* The cancel call rejects: the request ends with nothing done. *)
CancelFails ==
  /\ stopping.phase = "read"
  /\ stopping' = [phase |-> "none", run |-> NoRun]
  /\ UNCHANGED <<parent, row, opened, plan, full, queue, refs, messaged, bounds>>

CloseStopped ==
  /\ stopping.phase = "cancelled"
  /\ finishRun(stopping.run, "stopped")
  /\ stopping' = [phase |-> "none", run |-> NoRun]
  /\ UNCHANGED <<parent, opened, plan, full, queue, refs, messaged, bounds>>

(* The API process restarts: a stop in progress is lost with it, and
   recoverInterruptedRuns closes every open row before it serves again. *)
ApiRestarts ==
  /\ boots < MaxBoots
  /\ boots' = boots + 1
  /\ row' = [r \in Runs |-> IF row[r] = "running" THEN "failed" ELSE row[r]]
  /\ stopping' = [phase |-> "none", run |-> NoRun]
  /\ UNCHANGED <<parent, opened, plan, full, queue, refs, messaged,
                 timedOut, timeouts, lost, stops>>

-----------------------------------------------------------------------------

ParentStep(r) ==
  \/ Enqueue(r) \/ Begin(r) \/ FailToStart(r) \/ OpenRow(r) \/ LeaveWatchlist(r)
  \/ SendMessage(r) \/ NextReference(r) \/ EndUniverse(r) \/ UniverseThrows(r)
  \/ Close(r)

StageStep(r, s) == QueueStage(r, s) \/ StartStage(r, s) \/ Settle(r, s) \/ FailToRecord(r, s)

Next ==
  \/ \E r \in Runs :
       \/ Ask(r) \/ CronFires(r) \/ ParentStep(r) \/ LoseParent(r)
       \/ \E s \in Symbols : StageStep(r, s) \/ ExecutionTimeout(r, s) \/ QueueTimeout(r, s)
  \/ \E a \in stragglers : StragglerEnds(a)
  \/ ReadForStop \/ Cancel \/ CancelFails \/ CloseStopped
  \/ ApiRestarts

Spec == Init /\ [][Next]_vars

(* The queue serves what it holds, and every attempt ends or is timed out. *)
FairSpec ==
  /\ Spec
  /\ \A r \in Runs : WF_vars(ParentStep(r))
  /\ \A r \in Runs, s \in Symbols : WF_vars(StageStep(r, s))

-----------------------------------------------------------------------------
(* The shape of the rows, the chains and the stop in progress. *)
TypeOK ==
  /\ parent \in [Runs -> Executing \cup {"none", "asked", "refused", "queued", "over", "lost"}]
  /\ row \in [Runs -> Closed \cup {"none", "running"}]
  /\ opened \in Seq(Runs)
  /\ plan \in [Runs -> SUBSET Symbols]
  /\ full \in [Runs -> BOOLEAN]
  /\ chain \in [Runs -> [Symbols ->
       [stage : 1 .. Stages, attempt : 0 .. Retries, failed : BOOLEAN,
        at : {"between", "queued", "running", "done", "rejected"}]]]
  /\ stragglers \subseteq
       [run : Runs, symbol : Symbols, stage : 1 .. Stages, attempt : 0 .. Retries]
  /\ steps \in [Runs -> [Symbols -> [1 .. Stages -> Seq({"ok", "failed"})]]]
  /\ refs \in [Runs -> 0 .. ReferenceSize]
  /\ stopping \in [phase : {"none", "read", "cancelled"}, run : Runs \cup {NoRun}]
  /\ messaged \subseteq Runs

(* No stage is queued or runs before each earlier stage of its symbol has left
   its row: each reads what the one before wrote (pipeline.ts, lines 14-16). *)
StagesInOrder ==
  \A r \in Runs, s \in Symbols :
    chain[r][s].at \in {"queued", "running"} =>
      \A k \in 1 .. (chain[r][s].stage - 1) : steps[r][s][k] # <<>>

(* A stage leaves one row, its final outcome, however often it was retried and
   even when it was cancelled under way, unless an attempt timed out
   (pipeline.ts, the comment on settle). *)
OneOutcomePerStep ==
  \A r \in Runs, s \in Symbols, k \in 1 .. Stages :
    Len(steps[r][s][k]) > 1 => <<r, s, k>> \in timedOut

(* A run closed as ok has seen every stage of every planned symbol succeed. *)
OkMeansEverything ==
  \A r \in Runs : row[r] = "ok" =>
    \A s \in plan[r] : /\ chain[r][s].at = "done"
                       /\ \A k \in 1 .. Stages : "ok" \in {steps[r][s][k][i] :
                                                            i \in DOMAIN steps[r][s][k]}

(* Together: a stage begins behind the one outcome of the stage before it, and
   what the stages came to is what the row says. *)
OutcomesAddUp == StagesInOrder /\ OneOutcomePerStep /\ OkMeansEverything

(* One dead ticker costs its own symbol and nothing else: the parent does not
   go on before every chain has come to its own end (the comment on allSettled). *)
WholeWatchlistSettles ==
  \A r \in Runs : parent[r] \in {"message", "universe", "closing", "over"} => Settled(r)

(* A finished run does not get re-finished (finishRun): stop, restart and the
   parent race for a row, and whoever closes it first is not overruled. *)
FirstCloserWins == [][\A r \in Runs : row[r] \in Closed => row'[r] = row[r]]_vars

(* An open row is closed some day. *)
RowIsClosed == \A r \in Runs : (row[r] = "running") ~> (row[r] \in Closed)

(* The header of scheduler.ts (lines 8-10): a second trigger, cron or manual,
   is refused while a run is active. *)
OneRunAtATime == Cardinality({r \in Runs : parent[r] \in Executing}) <= 1

(* reapStaleRuns closes rows that no process is executing (admin.ts, lines
   227-233); on Hatchet a run survives a restart of the API process
   (scheduler.ts, lines 98-99). *)
ReapedRunsAreDead == \A r \in Runs : row[r] = "failed" => parent[r] \notin Executing

(* The task mirrors the serial walk (pipeline.ts, line 4), where a stopped run
   sends no message (scheduler.ts, line 162): a run whose row was closed as
   stopped during the watchlist does not go on to the message. *)
StoppedRunIsSilent ==
  [][\A r \in Runs :
       row[r] = "stopped" /\ parent[r] = "watchlist" => parent'[r] # "message"]_vars

(* Stopping stops the rest of the watchlist (scheduler.ts, lines 282-287): only
   what was in flight is finished. *)
StopReachesTheQueue ==
  [][\A r \in Runs, s \in Symbols :
       row[r] = "stopped" => ~(chain[r][s].at = "between" /\ chain'[r][s].at = "queued")]_vars

=============================================================================
