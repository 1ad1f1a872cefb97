# Verification of stock-cli

TLA+ modules for the concurrent and fault-tolerant parts of this repository,
TLC configurations that check them on small instances, and theorems about them
proved with TLAPS. Paths are relative to the repository; the server's code is
under `src/` there.

## 1. Inventory

### What runs

Stock-cli analyses a watchlist of stocks. A deployment has these parts:

- the **API process** (`src/server.ts`): routes for the web frontend and, without
  Hatchet, the nightly pipeline in the same process;
- one or more **Hatchet workers** (`src/hatchet/worker.ts`, roles in
  `src/hatchet/roles.ts`), when `HATCHET_CLIENT_TOKEN` is set: they execute the
  pipeline, its stages and the single jobs from Hatchet's queue;
- **Postgres**, shared by all of them: `runs`, `run_steps`, the symbols, the
  ledger of dossier switches, recorded analyses and prices;
- **Distill**, an external service that builds dossiers per company and sector,
  switched on and off per entity by this program;
- the **command line** (`src/cli.ts`) and the **web frontend** (`web/`).

The processes share no memory. They interact through rows, through Hatchet's
queue, and through the switches at Distill.

### Components, their state and what is hard about them

| component | state | operations | hard | what makes it correct |
|---|---|---|---|---|
| gate (`src/hatchet/gate.ts`) | counter, queue of resolvers | acquire, release | the microtask between a slot and its use | at most N hold a slot, no lost wake-up, first come first served |
| settled pool (`src/utils/pool.ts`) | shared counter, outcomes | claim, ask, run | the answer of `keepGoing` is old when used; it may throw | each item once; a stop costs one item a worker |
| in-process scheduler (`src/scheduler.ts`) | `activeRun`, `stopRequested`, the row | trigger, walk, stop, crash, boot | four awaits between guard and claim; every write may fail | one run, the slot always freed, a truthful row |
| Hatchet pipeline (`src/hatchet/tasks/pipeline.ts`) | parent, stages, `runs`, `run_steps` | trigger, stages with retries and timeouts, stop, restart, lost worker | four actors write one row | order, one outcome per step, first closer wins |
| dossier switches (`src/distill-dossiers.ts`, `src/distill-content.ts`, `src/db/admin.ts`) | watchlist, ledger, cached ids, the switches themselves | follow jobs, heal on read, full sync | snapshots, lost answers, merges, shared entities | in the end exactly what is watched is on |
| schedule installation (`src/scheduler.ts`, `src/hatchet/cron.ts`) | the known task, the tasks that tick, Hatchet's crons | save, boot, `applySchedule` | not guarded against itself; a half-failed exchange; what the settings admit and node-cron does not | one cron, and the stored one |
| rate window (`src/utils/rate-window.ts`) | timestamps of the last requests, a chain of turns | take, look, sleep | timers early and late, callers behind a sleeper | never more than N in a window, in order, everybody gets through |
| cron translation (`src/hatchet/cron-utc.ts`) | none | cron and zone to UTC | hours and weekdays cross midnight together, or not at all | it fires when the original does, or is declined |
| verdict pipeline (`src/score-service.ts`, `src/analysis/score.ts`, `src/analysis/verdict.ts`) | the card a refresh carries on | three reads, synthesis, refresh | any model call fails; the parts multiply | better evidence never lowers the factor score; no single voice decides |
| re-scoring (`src/db/rescore.ts`, `src/db/store.ts`) | points, snapshots, documents, fingerprint | refresh, analysis, pass | two kinds of code at once; delete, then write | one code, nothing that was recorded gone |
| verdict alerts (`src/alerts.ts`) | verdict points, recorded flips, announced verdict | record, look, send | several writers, restarts, a re-score that rewrites the points | an alert once, for a verdict that lasted |
| morning message (`src/digest.ts`) and night watch (`src/depot-watch-service.ts`) | what was sent, what was announced | compose, send, write down | a crash in between | told once, and nothing remembered untold |
| reference universe (`src/universe.ts`, `src/db/store.ts`) | lists, members, the departed, order of refreshes | fetch, settle, rotate | fetches fail one by one, members leave while due | everybody's turn comes |
| symbol store (`src/db/store.ts`) | rows, a cache of ids per process | upsert, delete, resolve | a cache per process, no invalidation across | the watchlist is the user's |
| depot check (`src/depot-check-service.ts`) | a status, a result, the kept checks | start, progress, finish, reconcile | single flight; progress that may land late; boots whose reads fail silently | a result is kept, *running* means at work |
| backtest (`src/backtest-service.ts`, `src/backtest/lock.ts`, `src/backtest/run.ts`) | child process, advisory lock, status | start, exit, reconcile, run | the lock is taken to ask, the status written as it was read; kills, restarts | one backtest, nobody at work called dead, never stuck |
| calibration (`src/calibration-service.ts`, `src/db/calibrate.ts`) | child process, status, proposal | start, exit, look | no lock: a child that outlives its server, or dies behind its last word | the status is the outcome |
| trades (`src/trades-service.ts`, `src/db/trades-store.ts`, `src/analysis/depot.ts`) | the copy of umsatz's trades | sync, answer, count | row by row, three pages at once | the copy is the source's; positions add up |
| journal and review (`src/db/journal-store.ts`, `src/journal-service.ts`, `src/review-service.ts`, `src/analysis/review.ts`) | an entry, its revisions, a shared reading | edit, delete, read | statements without a transaction; a promise shared while it is made | no wording lost, no answer older than the last write, each decision once |
| market rates (`src/data/fred.ts`, `src/data/damodaran.ts`) | a reading per process, what was last observed | fetch, fall back, record | falls back to what was recorded, and records it | what is recorded was read |
| jobs through Hatchet (`src/hatchet/via.ts`, `activity.ts`) | cached look at the workers | queue or run here | the look is old when used | done once, by somebody |
| the page of a stock (`web/src/App.tsx` and its components) | the open stock, settings, one stream, refreshes | select, run, refresh, add, delete, go back | answers and ends come when another stock is open | what is shown is of the open stock; a choice stands, also while its dialog asks for the models; nothing stays disabled |
| valuation and signals, backtest statistics, other data clients, models, search, output, command line | none shared, or values | arithmetic, I/O, wording | – | numerical tests and goldens of the repository cover these |

The hazards of this code, each with its line and the properties that watch it,
are listed in `PROJECT.json`.

## 2. The modules

    Semaphore  <--implements--  Gate          GateProofs
                                SettledPool   SettledPoolProofs
                                InProcessRun  InProcessRunProofs
                                HatchetRun    HatchetRunProofs
                                DossierLedger DossierLedgerProofs
                 MarketRates -- RateWindow    RateWindowProofs
                 PointInTime -- BacktestRun   BacktestRunProofs

    Services     ServicesProofs
                 Digest  DepotWatch  SymbolStore  DepotCheck  CalibrationRun
                 TradeCopy  Journal  ScheduleInstall  CronUtc  ViaHatchet
                 ScoreSeries  ResearchBrief  Workbench
                 FactorScore  <--  VerdictPipeline

    MCServices   Services and
                 VerdictAlerts  Universe

Each `MC...` module gives values to constants that a `.cfg` cannot write down;
each `.cfg` is one question. Where a module holds an instance of another with which it
shares no state (`Services`, and the pairs joined by a dash above), a behaviour of its `MC...` module
is one of either, and `part` names which. Definitions marked *Mutated* are plausible bugs of
the definition behind them. No property uses them; they are there to see each
property fail.

### Gate and Semaphore

`Gate` is the class of that name, one action per critical section:
`AcquireFree` and `AcquireWait` are the two branches of `acquire`, `HandOver`
and `Free` those of `release`, `Begin` is the resumption of the awaiting caller
in a later microtask. JavaScript runs a callback to its end, so each is atomic;
between a slot and its use anything may happen, which is what the place
`granted` is for. `Semaphore` is the promise behind it, a set of holders that
never outgrows the limit; `Sem!Spec` is the refinement, with
`held <- Holders`.

Checked (`gate`, five callers on two slots, so that three queue up and a
hand-over, a second one before the first resumed, and an acquire in between all
occur): no starvation, and the refinement. The bound, and that no slot is free
beside a queue, are proved. Fairness: a resolved promise resumes, and the gated
work ends, since every client behind the gates carries a timeout.

### SettledPool

`settledPool`: workers that share `next`. Claiming and calling `keepGoing` is
one synchronous stretch (`Claim`); the row is read elsewhere (`Read`) and the
answer used later (`Start`, `Return`), so `Stop` fits between. `ReadFails` is a
`keepGoing` that rejects, outside the `try`: `Promise.all` rejects while the
other workers go on. Checked (`pool`, three workers, four items, a stop and
failures at any moment).

### InProcessRun

`runPipeline` without Hatchet. `pc` is where a call of it stands between two
awaits:

| places | code |
|---|---|
| `preparing` | the guard has passed; settings, symbols and universe are awaited |
| `opened` | `startRun` has inserted the row; the slot is not yet claimed |
| `syncing` | the slot is claimed, `stopRequested` cleared; the dossier sync is awaited |
| `watchlist`, `symbol` | between two symbols, and inside one |
| `message` | the digest |
| `universe`, `reference` | the rotation of reference stocks |
| `closing`, `closed` | `finishRun` in the `finally`, then the release of the slot |

`FailToRecord` is a database write that throws anywhere in the walk; the row may
also fail to be closed (`unclosed`). `RequestStop` is the stop button; `Crash`
and `Boot` are the container's restart with `recoverInterruptedRuns` before the
port is bound. Steps are their outcome: `src/pipeline/steps.ts` reports failure
and never throws. `raced`, `asked` and `unclosed` are history: `raced` says that
a call passed the guard while another stood before its claim.

Checked (`in_process`, two triggers, two symbols, one reference stock, one
crash). Two triggers suffice for the race and for the second run after the
first; two symbols for a stop between them, and one reference stock for the
universe's loop, which is the watchlist's. Fairness: awaits settle, and the
container is restarted.

### HatchetRun

Four actors: triggers (a click asks `isPipelineRunningInDb`, Hatchet's cron asks
nobody), the parent task, the stages, and the API process with its stop button
(`ReadForStop`, `Cancel`, `CloseStopped` are its awaits) and its restarts.
`chain` is `runSymbol`: the stage a symbol is at, and whether it is between two
stages, queued, running, done or rejected. `Settle` is the function of that name:
a failure is thrown while attempts remain and recorded once they are spent.
`ExecutionTimeout` gives an attempt up for the queue while its JavaScript goes on
as one of the `stragglers`. `LoseParent` is a worker that dies under the parent,
which has `retries: 0`. `UniverseThrows` is an error in the parent after the
watchlist, which closes the row as failed.

Reduced: the universe's pool is its question whether the row is still open (the
pool itself is `SettledPool`); the outcome *skipped* of a step counts as ok, as
in `settle`; a database that fails twice in a row at the close is left out.

Checked: `hatchet` (one run, two symbols, two stages, one retry, one each of
timeout, API restart, lost worker and stop; the two symbols are symmetric, no
liveness is checked there): `OutcomesAddUp` is the order of stages, one outcome
per step and a truthful *ok*, `WholeWatchlistSettles` that one dead ticker does
not end the others;
`hatchet_pair` (a cron run and a clicked one over one symbol) for the
race to close a row, and that it is closed while the worker lives. Two stages stand
for three: between-stage behaviour is the same for each.

### DossierLedger

Variables on our side: the watchlist, the ids cached in `distill_entities`, the
ledger `distill_dossiers`; on Distill's: the entity behind each subject
(`registry`) and the switches that are `on`. A *subject* is a company or a
sector. `proc` holds every follow job and the sync with their local variables,
one step per await:

    look -> intent -> [drop] -> push -> [resolve] -> put -> answered | thrown -> next

`Look` is `knownEntityId`, `Intent` `recordDossierIntent`, `Push...`, `Resolve` and
`Put...` are `pushSwitch` with its answers (done, 409, 404 and its one repeat,
5xx, no answer, rejected key), `RecordJob` and `SyncRecord` are
`recordDossierOutcome`. `Delete` runs through its intent before `deleteSymbol`
cascades the cached id away (`Drop`) and then follows. `Heal` is the read of the dossier's
content that finds a watched subject off. `SyncStart` and `SyncPlan` take the two
snapshots of `syncWatchlistDossiers`; `SyncSpare` is the rule for shared
entities; `SyncRetire` drops rows at the end.

Left out: attempt counts and texts, the column `desired` (no decision reads it),
the states other than *ineligible* (likewise), the base URL (one deployment).
`Merge` is Distill's own housekeeping, written from how the code answers a 404.

Checked: `dossiers` (two stocks, one sector, one job at a time, one refused
request, one entity that answers 409, one merge, two changes to the watchlist):
whatever is on is wanted, remembered or about to be, and in the end nothing
unwanted is on. `dossiers_faults` (two stocks that are one entity, a follow job
and the sync interleaved at every await, one failure of any kind): what is
wanted is on in the end. Two changes are an add and a delete of the same stock,
or a delete and an add of its twin. Fairness: a promise chain that began goes on
until it dies; pipeline runs recur on their cron, each syncs and each reads the
content of every watched subject, hence strong fairness of `SyncStart` and
`Heal`.

### RateWindow

`take()` chains a turn behind the one before it (`Take`; calls are numbered in
the order of `take()`), and a turn is a loop whose stretch between two awaits is
one action: `Go` shifts what has left the window, counts the call and resolves;
`Sleep` shifts and sets a timer for the moment the oldest call leaves. `Tick`
moves the clock. A timer may fire `Early` milliseconds before the clock agrees
(Node's timers and `Date.now` are different clocks), which sends the turn round
the loop again, and up to `MaxLate` late. `Reset` is `reset()`, which only tests
of the repository call. Assumed: `Date.now` does not jump. `made` is history.

Checked (`rate_window`, six calls, two in any three milliseconds, timers one early
or up to two late, two resets): calls come at any moment, so that bursts, gaps of every length up to the window, a call exactly at its edge, a
sleeper with others behind it, and early and late timers all occur. Fairness:
microtasks and due timers run, time passes.

**MarketRates**, the care for a source's answers as `RateWindow` is for its calls, is the
instance `Market`: one process, a clock to four, one restart, so that every
reading, premium and midnight runs out once. A rate is the moment it was read at, so a fallback is
visible as an old number and the built-in constant as less than all. A fetch ends within a
step of the clock (its timeout is eight seconds, a step is an hour), and a
refresh records what it was given within the next. `RatesAreReadings`: what is recorded under a day
was read on it or within the reach of a reading before.

### BacktestRun

The server, the terminals and the runs themselves. `ask` is where each
`startBacktest` and each reconcile stands between two awaits; `Probe` and
`Unlock` are `backtestRunning()`, which takes the lock and gives it back.
`exit` is the listener of each child: `HandleExit`, `ReadAfterExit` and
`MarkFailed` are its callback and the two awaits behind it. A run boots, takes
the lock or ends with code 2 (`TakeLock`), sets its `startedAt` and reports
(`Begin`), sends progress notes that nobody awaits (`Note`, `Land`), reports its
end (`End`), gives the lock back and waits for what is under way (`Exit`).
`Regret` is the second report, after an unlock that failed. The status is the
run whose `startedAt` it carries, and its state; `older` stands for the
comparison of `startedAt` in the listener. `Restart` is the server's end
and boot, `Kill` anything that ends a run. A statement may fail wherever one is
sent; with it its connection is gone, and Postgres notices at once or later
(`Broken`, `Notice`). A run whose own lock connection breaks between statements
ends with an unhandled error, which is a `Kill`.

Left out: the phases' wording, `finishedAt` and `peakMb`; the log file; the
monthly cron beyond the start it makes.

Checked (`backtest`, two starts, one terminal, one page that looks again and
again, two processes, two faults of any kind, one progress note under way):
mutual exclusion, the child, who is called interrupted or failed, and that the
status settles. Two processes are enough for one that is late beside one at
work. Fairness: callbacks run, statements reach Postgres, a run that works
comes to an end, and somebody looks at the page again (at the latest the next
boot does).

**PointInTime**, what a run knows of a company on a past day, is the instance `Facts`, which shares
no state with the runs. Four ticks a quarter: it ends, a split may follow, it is reported, late or
amended or followed by a split. `revenue` and `diluted` are the raw facts of all filings;
`extractLine`, `knownOn`, `trailingTwelveMonths`, `fiscalYears` and the splits are the code's
functions over them. The run has reports on six quarters, from the end of a fiscal year to the first after the
next, and any two upsets: all forms of a report, and a trailing year over each. In it each quarter sells another
power of two (`Sales`), so that a sum of quarters names them. Tolerances of days, years of 53 weeks and
changes of the fiscal year are left out. `FiguresAreOfTheirDay`: no hindsight, no blind spot, trailing years of
four quarters, shares on one basis unless a split came between.

### Services and MCServices: the services beside the pipeline

Seventeen modules model what goes on around the pipeline. They share no state with
each other in the model, so two runs check them all, divided by the work there is (`services_fair` has
those that promise something for the end): `part` names the one that a
behaviour explores, `In...` keeps the others as they began, and an invariant of a
part holds trivially elsewhere. `Services` holds the parts whose promises are proved, for
sizes that are its constants; `MCServices` extends it, the `.cfg` gives the sizes, and the other
parts join. `mishaps` is a history of what has gone wrong so far in a part; a property names the mishaps that excuse it, so that it
says exactly what a fault costs and nothing is excused by leaving it out.

| part | bounds | why they are enough |
|---|---|---|
| `alerts` | two writers, two verdicts, a tick a night, settling from one to the next, a window of two, one fault or re-score | a flip that reverts before it settles, one that settles, one that leaves the window, and a re-score of any part of it under either look |
| `digest` | two events, two senders, a window of two days, one fault | an event archived late, one too old, and two messages at once |
| `watch` | two signals, two watches, one fault | a signal that clears while another stays |
| `symbol` | two jobs in one process or two, two rows ever, one fault | delete and re-add under a job, and the cache of either process |
| `universe` | two indices, four symbols, batches of two, a grace of a day, one fault | a member that leaves and returns, a second share of one company, a dead ticker |
| `check` | three runs, two faults | a new check, the manager asked again, a crash in either |
| `calibration` | three runs, two faults | an orphan beside a second run, and a third after both |
| `scores` | four instants, two contents, runs of one tick, two faults | two runs apart or close together, a deploy between them, a cut pass and its repetition |
| `verdict` | five payloads, four materials, three answers a read may give, three corrections, ages of 0, 7 and 30 days | every cap, every sort of material, every way for calls to fail |
| `trades` | two trades, two pages, one correction, two answers, one fault | crossed and interrupted syncs, a trade that goes and returns |
| `journal` | two editors, two readers, two writes, one fault | crossed edits, a write while a reading is made |
| `schedule` | the call at boot and two saves, two failed requests, one restart, with and without Hatchet, with the cron in Hatchet ours or another deployment's | one call meets what a failed one left behind |
| `research` | two jobs at a time, three in all, two models, three days, one rewritten prompt | a brief, a second that keeps its debate, a third that must not |
| `clicks` | two clicks of three mixes, a worker for each of two roles, three faults | three faults spend all retries of a job; two looks cross |
| `cron`, `factor`, `positions`, `decisions` | every expression of up to two parts a field and seven offsets; four scores in six pillars; four trades in a row; up to two entries over five groups of trades | pure functions, every input an initial state |
| `page` | two stocks, two settings, one of them the proxy's, a history of two places, three clicks or failures | one stock switched for another under a run, a refresh, an add or a delete, with every answer in any order |

Fairness is stated for the two parts that promise something for the end: looks
come to an end, time passes and the nightly refresh keeps coming (`alerts`), the
night comes round and a refresh comes to an end (`universe`); the pipeline's cron
is what justifies both.

**VerdictAlerts.** `series` holds the recorded verdicts by age. A refresh or an analysis
takes its instant (`Begin`) and records at it later (`Insert`), behind the snapshots
it saves first, so that another may have overtaken it; `Look` are the steps of `noteVerdict`: read
the points and what was announced, record flips, send if the verdict has settled, write down. Two
writers interleave at every await. Beside them a re-score deletes the points of some span (`Clear`)
and writes them again one by one, with any verdict or none (`Rewrite`), and looks at
nothing. `mishaps` says when verdicts were recorded or re-scored under a look or behind a newer one
(`crossed`), and that some were re-scored at all (`rescored`). A flip that a re-score makes has no
row, and a row whose flip it takes away stays, so rows are held to the series until
then; messages are held to chain in any case. That the next look tells of what a re-score
changed is in section 4. Two instants are never the same: the code's are milliseconds.

**Digest, DepotWatch.** Both send, then write down. `Fresh` is the rule of a first
message without memory; a refused webhook, a failed statement and a death sit
between any two awaits. The depot's notes and all wording are left out.

**SymbolStore.** One symbol, its row, the id cache of each process, and the jobs
that write through it: adds, refreshes of watchlist and universe, Distill's
resolution, and the DELETE handler. `Upsert` is the statement of that name with its
`ON CONFLICT`; a child row written with a dead id fails at its foreign key.

**Universe.** The night fetches each index, keeps the last good list of one that
fails, and settles who left; the rotation takes the members whose refresh is the
oldest. Instants are kept as their order. A state that could not be written and a refresh that failed behind
`writeFinancials` are not told from the other failures.

**DepotCheck.** `pending` are progress writes of the run's workers. `readStateJson` answers
null when a read fails, so a reconcile may overlook a result or a status (`ReadResult`, `ReadStatus`);
`due` and `unsettled` are history and say that this, or a failed write, left something undone. Assumed:
the statements of the reconcile at boot end before the model calls of a
run that was started meanwhile do.

**CalibrationRun.** The server's child and what it says of itself; a child that
outlives its server goes on as an orphan, since nothing locks. Between the word *done* (`SayDone`) and
its `Exit` with 0 the child still logs and closes its pool: one that dies there is heard of as a failure.

**ScoreSeries.** One stock's points under refreshes and analyses, which record
live, and under the pass that recomputes every point with new code:
`Delete`, then one `Rewrite` an instant. A card is the code, the financials and the
analysis it carries. `lived`, `recordedBy` and `torn` are history. The pass's rates and peers, its skip for days without
prices and its loop over symbols are left out, and so is the deletion of an analysis.

**CronUtc.** `cronToUtc` as sets of hours and weekdays, against the week turned by
the offset.

**FactorScore, VerdictPipeline.** `FactorScore` is the arithmetic from six pillars to a
score, in integers: conviction, saturation, trust, caps, blend, combination of
reads. `VerdictPipeline` is one analysis (`ReadAnswers`, `ReadFails`, `Synthesize`,
`SynthesisFails`, ...) and the refreshes that carry its card on. The default
`adjustmentLimit` is modelled; the configured maximum of three points could move
a verdict by more than a band.

**TradeCopy.** `source` is umsatz, `rows` our copy; `sync` holds each page's list
and what of it is still to write. `whole` is the list last written by one sync
alone, `torn` that it was written over in part since. Trades are taken in their
order; that trades of one day go by row id is not modelled.

**Journal.** One entry, its revisions, and the shared promise of the review:
`build[r].knows` says of each source whether a reading has yet to read it, has read
it as it is, has missed a change under way, or knows less than a change that is
over. The memo's five minutes may run out at any moment.

**ScheduleInstall.** `applySchedule` as called at boot and after each save, with its
awaits: `Destroy`, `ReadConfig`, then with Hatchet `List`, `DeleteCron`/`DeleteFails`,
`Translate`, `Create`/`HatchetFails`, else `Install`. `ticking` are the node-cron
tasks that fire whether or not the module still knows them (`task`). A schedule
is its kind (off, expressible in UTC, only in its own zone, or bad: five words or a zone that
the settings admit and node-cron does not) and the save that stored it. A call may reject behind the
task it destroyed, when the settings cannot be read or the zone is unknown (`Rejects`: `hurt`, as a failed
request is), and installs nothing where `HATCHET_SCHEDULE_ENABLED` leaves the cron in
Hatchet to another deployment (`ours`). Checked one call at a time; the answer is about what fires when no call is
under way. The repair of stored settings that no longer parse is left out.

**ResearchBrief.** What is stored of one stock in the two slots, the regular brief and
deep research, each with the prompts it was asked under, and of its debate when it was
really bought (`born`, a history). An analysis is served (`Serve`) or misses and asks
(`Miss`, `Ask`, `Answered`, `Refused`), the button asks in any case (`Refresh`), a report
is pasted (`Paste`). A `Deploy` rewrites one part's prompt. The windows are a day where
the settings have weeks; refusals, cut-off answers and prices of a call are left out, as is
who wins where two jobs store in one instant.

**ViaHatchet.** `clicks` is how far each click is, `attempts` the executions under way,
which outlive the queue's patience. A look is asked (`ClickUnknown`), made by the engine
(`EngineLooks`) and heard (`Hear`) apart. `mayCall` is the gate, whose queue is `Gate`'s.
The deployment has a worker for each role; a single `all` worker, whose gates bound the same
calls, and the rate limits of Hatchet are left out.

**Workbench.** The page is `App` with the stock it shows (`page`), the requests whose answers still
count (`asking`: an effect's cleanup takes the older ones out), the one stream that is heard and the
analyses the server works on all the same (`working`). A refresh knows whose it is (`by`): of the
header that is there, of the page it was in, or of nobody who listens. A click that a view transition
applies is applied by `TransitionApplies`. Hatchet is configured, so that the queue tells who is
busy; a poll is instantaneous; an add or a delete waits for the one before. `dialog` is the one in which
settings are chosen: it covers the page, asks for the models when it is mounted, and behind a
LiteLLM gateway puts the gateway's model into the settings by itself (`ModelsKnown`, `Proxied`). The list, the progress
lines, the other dialogs and the button of the error page are left out.

What each property says is in the comment above it. In short: `VerdictsAreTold`
(flips recorded once until a re-score, messages chain, what holds is announced in the end),
`NewsIsToldOnce` (events, and signals of the depot), `StoreFollowsTheUser` (the watchlist is
the user's, dead ids heal), `EveryMemberHasItsTurn` (grace, rotation),
`CheckTellsTheTruth` (but for what a failed statement left undone), `OutcomeStands` (unless the run died
behind its word), `SeriesIsWhole`, `TranslationIsFaithful`,
`ScoreIsMonotone`, `NoSingleVoiceDecides`, `CarryIsByAge`, `CopyIsTheSources`,
`TradesAddUp` (positions and decisions), `DiaryIsKept` (wordings are kept, reviews show them),
`ScheduleIsKept` (one cron unless a request failed, and the stored one unless its call failed),
`ResearchIsOfItsTime` (bought when due, debate and prompt of its brief), `ClicksAreServed` (answered by
a look of the last ten seconds, one gated call at a time, paid once), `PageKeepsUp` (what is shown is of the
open stock and its settings, a choice is not undone but by its own dialog, what is disabled has an end to come).

## 3. The runs

| run | configuration | distinct states | shows |
|---|---|---|---|
| `gate` | MCGate.cfg | 650 | the waiting gate is a fair semaphore |
| `pool` | MCSettledPool.cfg | 290 k | no item twice, none lost; every call settles |
| `in_process` | MCInProcessRun.cfg | 620 k | one run unless raced, the slot freed, truthful rows, kept stops |
| `hatchet` | MCHatchetRun.cfg | 560 k | outcomes add up, the rest of the watchlist settles |
| `hatchet_pair` | MCHatchetRunPair.cfg | 140 k | first closer wins; rows are closed |
| `dossiers` | MCDossierLedger.cfg | 420 k | switches are remembered; nothing unwanted stays on |
| `dossiers_faults` | MCDossierLedgerFaults.cfg | 660 k | everything wanted is on in the end |
| `rate_window` | MCRateWindow.cfg | 120 k | never too many, and everybody gets through; a recorded rate was read |
| `backtest` | MCBacktestRun.cfg | 725 k | one at a time; nobody at work is called dead; the status settles; past days without hindsight |
| `services` | MCServices.cfg | 1.0 M | the services beside the pipeline, see the table above |
| `services_fair` | MCServicesFair.cfg | 480 k | alerts and universe under fairness; trades and journal |
| `hatchet_reap` | MCHatchetRunReap.cfg | – | *violated*, see below |

`CHECK_DEADLOCK FALSE` stands wherever the modelled system may rightly stop: all
triggers used up, the pool resolved, the bounds spent. The gate never stops, and
is checked for deadlock.

## 4. Where code and comments disagree

One run shows one promise of a comment that the code does not keep, and
`PROJECT.json` quotes the lines: **a restart closes the row of a living run**
(`hatchet_reap`, `ReapedRunsAreDead`). `reapStaleRuns` at boot takes every open row
for orphaned; with Hatchet its run goes on in the worker, and the next click is let
in.

Further configurations reproduce others with `tlc -continue -config <cfg> <module>`
(TLC does not look behind a state that violates one of several properties, so
`RepeatedPassRestores` shows once `FailureKeepsTheSeries` is taken out of the list; with `Parts` narrowed to
the part of one property and the others taken out, each shows within a minute or so):

| configuration | property | what it shows |
|---|---|---|
| MCHatchetRunStop.cfg | StoppedRunIsSilent | a run stopped during the watchlist still sends its message |
| MCHatchetRunStop.cfg | StopReachesTheQueue | a symbol between two stages escapes the cancel |
| MCServicesDivergences.cfg | AtMostOneCron | two overlapping `applySchedule` calls both install; the first task ticks on unknown |
| MCServicesDivergences.cfg | OneAlwaysOwnsIt | "one of the two always owns it" (`scheduler.ts:370`): an expression that `CRON_RE` admits (`app-config.ts:32`) and `cron.validate` refuses is saved, and installed nowhere |
| MCServicesDivergences.cfg | DeadRunIsInterrupted | "a run this process did not finish … is marked interrupted at the next boot" (`depot-check-service.ts:12`): a status that cannot be read is answered with null (`depot-check-state.ts:19`), and stays on *running* |
| MCServicesDivergences.cfg | ExitSpeaksForTheSilent | "killed, or crashed before it could say so" (`calibration-service.ts:49`): the listener writes its exit code over the *done* of a child that died while it closed its pool, and over the error that one has told |
| MCServicesDivergences.cfg | DeploysAreNoNews | "that is a deploy, not news about the companies" (`alerts.ts:15`): the re-score rewrites the series and not what was announced, so the next look that finds its verdict settled sends a message, where the series shows no flip |
| MCServicesDivergences.cfg | OnlyTheUserTouches | "user-initiated settings change" (`web/src/App.tsx:345`): the dialog's effect (`AnalysisModal.tsx:96`) calls the same handler when the models are known, over a choice made before that, and marks the settings as chosen |
| MCServicesDivergences.cfg | ReturnIsNews | a signal that clears is "forgotten" and news again (`depot-watch.ts:25`): after a night whose message was refused, nothing is written down, so one that cleared and returned is still remembered |
| MCServicesDivergences.cfg | OneCompanyOnce | "one company must not count twice" (`universe.ts:51`): where an earlier index takes the company in, the later listing leaves the union, and as a departed member it is scored for the grace period beside the new one |
| MCServicesDivergences.cfg | FailureKeepsTheSeries | "the series keeps its previous numbers" (`server.ts:1921`): the pass deletes a stock's points before it writes the new ones |
| MCServicesDivergences.cfg | RepeatedPassRestores | "an interrupted one is repeated next start" (`rescore.ts:399`): the instants are read from the points that are gone |
| MCServicesDivergences.cfg | CorrectionOutlivesTheRefresh | a correction without a narrative has decay 0, so the first refresh takes it back (`score-service.ts:515`) |
| MCServicesDivergences.cfg | EmptyMeansNothing | "nothing to summarise" (`score-service.ts:72`): a structured report with no independent item weighs 0 and is not read |
| MCServicesDivergences.cfg | EveryWordingIsKept | "keeping the one it replaces" (`journal-store.ts:69`): of two edits that cross, one copies the wording and the other's is lost |
| MCServicesDivergences.cfg | AnswersShowTheSync | "a journal entry or a sync clears it at once" (`review-service.ts:60`): a sync begun by another page clears nothing, and the review is up to five minutes old |
| MCServicesDivergences.cfg | LinkedTradesAreOneDecision | "an entry linked to trades is one decision with them" (`review.ts:60`): the first free group by link *or* nearness is taken, so an entry linked to Wednesday's purchase gets Monday's |
| MCServicesDivergences.cfg | AnalysesHonourTheWindow | "every analysis honours it; the explicit refresh is the one way past it" (`perplexity-service.ts:11`): deep research is stored under `WHOLE_PROMPT_HASH` (`data/perplexity.ts:1019`) and compared with `PERPLEXITY_PROMPT_HASH` (`perplexity-service.ts:42`), so an analysis that asks for it buys it each time |
| MCServicesDivergences.cfg | OneCallAtDistill | "fixed simply by the work happening in the worker" (`hatchet/tasks/single.ts:5-15`): a data refresh takes Distill along (`refresh.ts:150`) in the general worker, behind no gate, beside the one call of the distill worker |
| MCServicesDivergences.cfg | QueuedIsAttended | "an unattended queue must say so rather than hang" (`via.ts:27`): a worker of any role answers for all, so a job for a missing role is queued and waits |
| MCServicesDivergences.cfg | RunsAreOfTheSelected | "every run starts from the stock already selected" (`web/src/App.tsx:449`): one behind a refresh starts when that is over, of the stock it was clicked for, with the settings of the one open by then, and its stream takes the place of that one's |
| MCServicesDivergences.cfg | SwitchingAbandonsTheRun | "switching symbols (or starting a new run) bumps it" (`App.tsx:141`): back, forward and a stock just added do not, and the progress of the run goes on under the other stock's name |
| MCServicesDivergences.cfg | OneRefreshPerStock | "clicking again would queue a second one" (`StockHeader.tsx:79`): back on the stock before the next poll, the button is ready |
| MCServicesDivergences.cfg | OnlyTheDeletedIsClosed | a delete that answers late compares with the stock that was open when it was clicked (`App.tsx:667`), and closes the one that is open now |

Others appear with other constants in a configuration of the project:

| configuration | changed | property violated | what it shows |
|---|---|---|---|
| MCInProcessRun.cfg | – | OneRunAtATime | two triggers between the guard (`scheduler.ts:103`) and the claim (`:130`) both walk |
| MCHatchetRunPair.cfg | – | OneRunAtATime | cron and click run side by side; the header promises a refusal |
| MCHatchetRunPair.cfg | `MaxLost = 1`, `MaxBoots = 0` | RowIsClosed | a worker lost under the parent leaves the row open until the API boots |
| MCBacktestRun.cfg | `Clicks = 0`, `MaxRuns = 1`, `MaxFaults = 0`, `MaxNotes = 0` | InterruptsTheRunning | a reconcile that read *running* before the run ended takes the lock after it, and writes *interrupted* over *done* |
| MCBacktestRun.cfg | in the place of `FiguresAreOfTheirDay` | SharesAreOnTodaysBasis | "shares on today's basis" (`backtest/payload.ts:174`): a count is multiplied by the splits since its period, also when it was filed, restated, after them |
| MCBacktestRun.cfg | in the place of `FiguresAreOfTheirDay` | GrowthIsOverAYear | "twelve months ending a year before the newest" (`backtest/payload.ts:166`): where a piece is missing an older fiscal year stands in, and the growth is over more than a year |
| MCDossierLedgerFaults.cfg | `Companies = {a}`, `Jobs = {j1, j2}`, `FaultKinds = {}`, `MaxFaults = 0` | UnwatchedGoesOff | two follow jobs of one stock record in the wrong order |
| MCDossierLedger.cfg | `FirstRegistry <- Shared`, `FaultKinds = {"die"}`, `Ineligible = {}`, `MaxChanges = 3`, `MaxMerges = 0` | WantedSideWins | the rule for shared entities (`distill-dossiers.ts:531`) looks only at what *this* sync switched on; a settled twin is not in that set, and its entity is switched off until the next sync |
| MCDossierLedger.cfg | `FaultKinds = {"key"}`, `MaxFaults = 1`, `MaxMerges = 0` | UnwatchedGoesOff | a rejected key: the catch of `dossiersFollow` records `entityId: null`, the upsert sets rather than merges it, and nobody knows the switch that is still on |
| MCDossierLedger.cfg | `FaultKinds = {"lost", "server"}`, `MaxFaults = 2`, `MaxMerges = 0` | OnIsRemembered | an unheard *on*, then a failed *off*: the row is retired as never on |
| MCDossierLedgerFaults.cfg | `FaultKinds = {}`, `MaxFaults = 0`, `MaxChanges = 1`, `MaxMerges = 1` | WatchedIsServed | the 404 of a merged entity is swallowed by `readBlock` |
| MCServices.cfg | `Parts = {"schedule"}` | AtMostOneCron | a cron whose delete failed fires beside the new one |
| MCServicesFair.cfg | `Parts = {"universe"}`, `batchSize = 1` | EveryMemberHasItsTurn | a delisted ticker is always the oldest (`store.ts:470`) and takes the one place for good |

`MCServices.cfg` with `Parts = {"symbol"}` and `ServerJobs = {"a"}` puts one job into
the process that deletes and one into another; it passes. So does `Parts = {"scores"}` with
`ScoreFaults = 3`, on 360 k states.

The positive runs are built around these: `OneRunUnlessRaced` and
`OneCronUnlessFailed` (in `ScheduleIsKept`) say exactly what is lost where, the schedule is
applied one call at a time, the dossier runs leave out the one kind of fault that breaks the
property they check, and `InterruptedIsOver` speaks of runs at work.

Traits that no comment calls wrong, and that are in the models:

- Backtest: a look holds the lock itself for a moment, in which a start is
  refused and a new run ends with code 2 although nothing runs; two starts that
  pass the check together both spawn, and `child` is the second one's, until either
  ends; and a progress note sent before the end may land behind it, so that *done*
  reads *running* until the next look calls it *interrupted*.
- Re-scoring: a pass that is cut just before the code is rolled back leaves a half on the other
  code, for the fingerprint still names the old one, and so does what a worker recorded with new code
  before such a rollback (it takes a third fault to see); what a worker with old code
  records after the pass stays; financials that return to an earlier content are re-scored as the
  content between; and within the fifteen minutes of one run the pass takes the
  later financials.
- Score: at exactly 10.0 a correction of −1 is inert; a lone read of three that
  answers decides with full confidence; the hold ceiling includes the
  no-strong cap (`score.ts:1314`) on the buying side only; and better fundamentals may
  lower the *blended* headline where the prose is better still, because their
  agreement raises their own weight.
- Research: two fetches of one text are two documents, since the hash takes in when each was
  made; that a repeated synthesis "touches `last_seen_at` and nothing else" (`store.ts:737`) never happens.
- Slots: one call at a time "survives a second replica" (`hatchet/roles.ts:7`) of the distill worker
  only as one a replica, since slots and gates are per process.
- The page: a run that begins in the frame a view transition waits for loses its *loading*, so that a
  second one may be started beside it.
- A past day: while only the comparative of a restated quarter has been filed, a trailing year takes
  the old fiscal year and the new prior year to date.
- Trades: an interrupted or a crossed sync leaves a mix until the next whole one.

## 5. What is proved

TLAPS proves, for every value of the constants that meets the module's
assumptions:

- **GateProofs.** `IInv` (types, the counter equals the slots owned, no idle slot
  beside a queue, the queue is exactly the parked callers, each once) is
  inductive; `AtMostLimit`, `NoIdleSlotWhileQueued` and the refinement of
  `Semaphore` follow. The queue's clause is needed because a hand-over makes the
  head a holder: were it queued twice, or not parked, the counter would drift.
  Assumed: a positive limit and finitely many callers.
- **SettledPoolProofs.** `IInv` adds to the properties that a busy worker's item
  is counted and an uncounted one untouched (`CountedOnce`), that a worker which
  started an item after the stop reads no more *yes* (`YesIsOld`), and, while
  nothing was stopped or thrown, that workers leave only an exhausted list and
  every counted item is settled or in a hand (`NoneLost`). From it
  `EachItemOnce`, and that a stop costs at most one more item a worker
  (`StopBoundsTheRest`). Assumed: a natural
  number of items, and a worker if there is one.
- **InProcessRunProofs.** `IInv` strengthens the safety properties by: one call
  at most is under way unless raced, a walking one owns the slot (`OneUnderWay`,
  `WalkerOwnsSlot`), a result exists only at the close (`ResultComesLast`),
  memory and row each tell the truth (`BothTruthful`), nothing is walked by a
  dead process, message and universe come behind the watchlist, and the flag
  and the history of stops agree. From it `OneRunUnlessRaced`, `RowsTellTheTruth`
  and its parts, and the action property `StopIsKept`. Assumed: natural sizes, and that `null` is no call.
  The same module proves the safety halves of what a walk comes by, each a system of its own there (instances
  `Reference` and `Alerts`):
  - *Universe* (`GraceInv`, theorem `LeaversAreScored`): unless a membership was not read, the stored lists are the last
    that were fetched, who is listed has not departed, and who is not has departed no longer ago than he was
    last listed. The last is what keeps a grace alive through a night whose index is down. Assumed: a natural grace.
  - *VerdictAlerts* (`AlertsInv`, theorem `FlipsAreTold`): unless looks crossed, one looks at a time (`Alone`), at the
    newest verdict, its own, and the one before it as long as that is in the window (`SeesTheNewest`: midnight may pass
    under a look, and the older verdict may leave the window with it), and goes where it has a reason to (`HasReason`); the
    receiver was told what is announced, or what is about to be (`TellsInOrder`); until a re-score, every verdict but the one
    that is looked at has the row it should (`RowsAreRight`), and who is about to record holds an instant of his own
    at which nothing stands (`InstantsAreApart`), which is why recording overwrites no point that has its row. Assumed:
    a window of a tick at least (the code's is days, a look takes seconds), and that no verdict is none.

- **RateWindowProofs.** `Inv` adds that the turns form one chain in the order of
  their `take()` (`Chain`), that everybody before a turn which has looked is through
  (`OneAtATime`), and that `sent` is the end of the history `made`, what is missing
  from it having left the window (`SentIsTheWindow`). From it
  `AtMostLimitPerWindow`, `ServedInOrder`, and that nobody sleeps longer than he
  must (`SleepIsNeeded`, theorem `NoIdleSleep`).
  Assumed: a positive limit and window.
  Of the instance *MarketRates* (`RatesInv`): what a process holds was read within the reach of a reading
  and not after now (`ReadingsAreRecent`), and what the store or a reading said of a rate
  is in the memory the process falls back to (`KnownIsRemembered`); from it `RatesAreReadings`. Assumed: positive
  lives and days, and a retry no later than a reading's end, as the constants of `fred.ts` are.
- **BacktestRunProofs.** `IInv` adds that whoever works or has yet to give the
  lock back has it (`HolderHasLock`), that only runs that have begun are read or
  written of (`OnlyBegunAreKnown`), that a look which got the lock has read of a
  run that is over (`SeenIsOver`: this is what makes the stale write harmless to
  a run at work, since no run that has begun takes the lock again), and that a
  listener which marks a run has heard of a crash and read of a younger run
  (`ListenersHeard`). From it `OneRunWorks`, `ChildIsHeard`, `InterruptedIsOver`
  and `FailedIsOver`, and `WorkIsNotCalledDead`, which is the last two. Assumed: names of processes are distinct.
  Of the instance *PointInTime*, `FiguresAreOfTheirDay` (theorem `FiguresWereKnown`): what is filed is filed today,
  and says one thing a period, tag and day (`FactsInv`), so that what a past day is told is a choice among what had
  been filed before it and depends on nothing later. A report is only due for a quarter that is over
  (`Calendar`); from that the spans that are filed are over when they are filed, a split stands in the count
  filed after it, and, until a quarter is restated, every figure is the sum of what its span sold
  (`BooksInv`), which is why a fiscal year, with the year to date and less the same of the year before, is
  what its four quarters sold. Assumed: the quarters are in their order, and sales and ratio are whole numbers.

- **HatchetRunProofs.** `IInv` adds to `OneOutcomePerStep` and `WholeWatchlistSettles` where
  everybody stands: a run that has not opened its row has no symbols, a chain has a
  row behind every stage it left and none at the stages to come (`InPlace`: a
  chain without a failure has an *ok* there), and what the queue has given up is
  behind its chain: it timed out there, or it is the one attempt that a stop took from
  the chain, which ended with it (`StragglersBehind`). Without the last clause two
  attempts of one stage could both write its outcome; it is also what makes a row at the
  stage a chain is still at a trace of a timeout. `OutcomesAddUp` follows, that the parent
  settles behind the whole watchlist, and the action property `FirstCloserWins`.
  Assumed: natural numbers of stages, retries and reference stocks.
- **DossierLedgerProofs.** `LedgerInv` adds that one process at most is at work
  (`OneAtATime`); that whatever is on is remembered by
  a row or by an answer yet to be written (`NothingIsForgotten`), because whoever
  pushes, puts or records goes by the id its row remembers and so overwrites no other
  memory (`GoesByTheRow`); that the
  sync's plan names rows of the ledger with their ids and nothing else
  (`PlanIsOfTheLedger`); and that a row the sync is about to drop remembers nothing, or an
  entity that another, settled row remembers (`RetiredIsKeptElsewhere`). TLC checked
  it on both registries of the model first. `OnIsRemembered` follows. Assumed: jobs and syncs do not overlap (`~Overlapping`) and
  what fails is a refusal (`FaultKinds` within `{"server"}`), as in the run `dossiers`,
  since with deaths, lost answers, rejected keys or crossing calls the
  property is false (section 4); `None` and `NoRow` are no entity and no row; finitely many sectors.
- **ServicesProofs.** Thirteen services, each with an inductive invariant over its own
  variables, and four functions of theirs for any input:
  - *ScheduleInstall* (`PlanInv`): one call at a time; once it has destroyed the task nothing
    ticks until it installs, and behind its reading it holds the stored schedule
    (`OneCall`); where Hatchet is not configured, or its cron is another deployment's, it asks
    Hatchet nothing (`WithoutHatchet`); unless a request failed, it has found every cron there was
    (`CronsAreFound`). Assumed: calls do not overlap (`~Overlapping`), as in the run; of two
    that do, both install (`AtMostOneCron`, section 4).
  - *DepotCheck* (`CheckInv`): a result nobody has to keep any more is kept unless a save or the read of it failed,
    what is about to be kept is the result shown, and progress under way is of the run at work.
    *CalibrationRun* (`CalibrationInv`): an end that was reported is that of its run, no look
    is about to call the server's child interrupted (`ChildIsAlive`), whose exit is written down has ended (`EndsAreEnds`), two work at once
    only where that was noted, and a run that works on its own has its proposal stored.
    Assumed for both: a natural bound on the runs.
  - *DepotWatch* (`WatchInv`): unless looks overlap or a memory was lost, one looks at a
    time, at what stands and what is remembered, and what was told stands and is remembered
    unless it is just being written. *Digest* (`MessageInv`): the feed of a message lies within
    the window plus the one midnight it may see, which is why dropping keys
    older than that tells nothing twice. Assumed: a natural window.
  - *Journal* (`DiaryInv`): whoever is about to replace a wording has kept the one that stands, or
    writes the same. *TradeCopy* (`CopyInv`): a page that writes and was not disturbed
    writes alone, and what it has written of its list stands; answered is exactly what
    was dismissed or has its reason.
  - *SymbolStore* (`StoreInv`): until a delete overtakes it, a job finds what it was planned
    for, on the row it was planned for (`AsPlanned`); whoever was added is there or an add that
    will make it so is under way (`AddIsOnItsWay`); ids that were not deleted are those of the row (`IdsAreLive`).
    Assumed: each job belongs to one process.
  - *ViaHatchet* (`ClickInv`): what was seen of the workers was so when it was seen or
    later (`LooksAreTrue`), which is what a click answered from the cached look has to
    go by; behind a gate nobody is between its slot and its call (`GateIsKept`); and a refresh of
    Perplexity has one attempt at most, and has paid only once it called (`TriedOnce`).
    Assumed: a look that is kept for some time, and clicks of the three kinds modelled.
  - *ScoreSeries* (`ScoresInv`, checked by TLC with three faults before it was proved): a point
    is of the code that recorded it, or, once a pass has written it, of the fingerprint's or of the
    pass under way, which plans every one of them (`CodesAreKnown`); unless financials returned or came
    too close, the histories say of each instant what was recorded at it, and so
    does what the pass has read of them (`HistoriesAreTrue`); a job records from the newest there
    is (`JobIsUpToDate`). The first of these showed that the history of foreign points was
    kept too roughly: it is now the code that recorded each. Assumed: natural times.
  - *ResearchBrief* (`ResearchInv`): a brief was asked for under one state of the prompts and says
    so, and whatever debate it kept was young enough then (`Bought`); that holds of a brief
    on its way as well, which is what a job that read the slot before it was written
    goes by; deep research and regular briefs each have their slot (`SlotsAreKept`). Assumed:
    windows are natural numbers (the settings give 1 to 365 days), and deep research is one of the models.
  - *VerdictPipeline* (`VerdictInv`, `VoicesInv`): what is shown is what the card makes of the payload
    at its age, or tells of a correction without a narrative (`ShownIsByAge`); it is a blend
    of the payload, the card is of the reads, and where there was nothing to read, nothing was
    read. That a correction moves the verdict by one band (`OneBandAtMost`) is arithmetic over
    *FactorScore*: the table of the saturation is read segment by segment, so that undoing it,
    adding a point and applying it again moves a deviation by less than a band is
    wide (`CorrectionIsBounded`). Of three reads, the middle one lies between any two
    (`MiddleIsBetween`). Assumed: whole numbers, six pillars of -1 to 10, and that a read has a whole
    score, because it is a fold over ratings.
  - *Workbench* (`PageInv`, theorem `PageIsTheUsers`): what is asked for is of the open stock and, if an analysis,
    of its settings, since opening a stock, a choice and a reload each take the older requests
    out; what is shown is of the stock, too (`ViewInv`). Whatever disables a button is a stream that is heard, a
    transition about to apply, or a refresh of the header that is there (`StreamInv`, `HeaderInv`). The
    settings change by a choice, where none was made, or by the dialog that asks for the models (`Chosen`). Assumed: nothing.
  - *TranslationIsFaithful* (*CronUtc*, `InstalledIsFaithful`): hours and weekdays turn together by one of at
    most two crossings of midnight, so that where there is one, turning the weekdays by it fires in the same
    instants of the week, and where there are two and not every day, no pair of sets says it. For any lists, ranges
    and steps of numbers and any offset.
  - *ScoreIsMonotone* (*FactorScore*, `ScoreClimbs`): products and quotients of several variables, one at
    a time. Better evidence raises what the pillars say by at least half of what it
    raises their full strength (`StrengthHolds`), the quotients keep the order of what is
    divided (`PullClimbs`), and the table of the saturation climbs within a segment and from one to
    the next (`BetweenClimbs`). For any pillars from -1 to 10 and any trust in the data.
  - *TradesAddUp* (*TradeCopy* and *Journal*, `BooksAddUp`): positions and decisions are told of a list of
    any length by a function over its beginnings. Such a function exists because a list of steps has a course
    (`StepsHaveACourse`); what holds of each beginning is shown by the least one of which it
    would not (`NoFirstException`), and a sum over a set of places is the running total of them (`SumsAreTotals`).
    So a position is held to what was bought and sold since it was last at zero (`HeldStep`), and each step of the
    decisions keeps every group once (`DecideKeeps`). For any sequences of trades, entries and deals.

Of these invariants the safety properties were checked by TLC first. The types and
the parts that strengthen them are left to the proofs, and no run repeats them. Only
model-checked:

- all liveness (`NoStarvation`, `PoolSettles`, `SlotIsFreed`, `RowIsClosed`,
  `UnwatchedGoesOff`, `WatchedIsServed`, `EveryCallGetsThrough`, `StatusSettles`): fairness and ENABLED are
  beyond the prover;
- of `VerdictsAreTold` and `EveryMemberHasItsTurn` the half that promises an end (`HoldingIsAnnounced`,
  `RotationComesRound`): the other half is proved, as said above of *InProcessRunProofs*.

Nothing here rests on induction over data, nor on RECURSIVE operators: what is computed along a list
or a calendar is written as a function over its beginnings, and reasoned about by its least exception.

## 6. Plan

Every safety property of the runs is proved, under the assumptions said above. What is left to model are the other shared readings
(`macro.ts:133`, `finnhub.ts:34`, the memo of the stock's history, discovery), which follow
`MarketRates` and `Journal`.

## 7. Not modelled

- **Market arithmetic** (`src/analysis` apart from the score's composition and the
  review, `src/backtest` apart from its service and what was known on a past day): formulas over real numbers and long
  price series, with no state, no ordering and no partial failure. TLC's integers
  would show nothing of them, and goldens of the repository pin them down.
- **Clients of third parties** (`src/data`, `src/llm`, `src/providers`, `src/search`) apart
  from the market rates, the research brief, EDGAR's facts and the rate window: they fetch and parse. What a caller
  sees of them – an answer, a refusal, a timeout – is in the models of the callers.
- **Prompts, wording, views** (`src/output`, `web/` apart from the page of a stock), the command line, migrations
  and one-off studies: layout and text, or statements that run once.
- **Reading routes** of `server.ts`: each answers from rows that are modelled where
  they are written, and decides nothing.
- The analysis as a click of its own and the view of the queue (`hatchet/activity.ts`). The notes a user
  leaves on a depot check, the EDGAR index and the stored settings are rows with
  one writer.

The modules therefore cover a small share of the repository's lines, most
of which are such arithmetic, clients, views and tests. What coordinates – the two
schedulers, the queue, the switches at Distill, the locks, the alerts, the shared
rows – is covered.
