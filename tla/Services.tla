------------------------------ MODULE Services ------------------------------
(***************************************************************************)
(* Services beside the pipeline, for any number of runs, pages, readers,   *)
(* editors, senders, jobs, clicks and calls: what they are and what each   *)
(* promises.  Each is a module of its own, and no variable belongs to two  *)
(* of them, so a behaviour of one says nothing of the others.              *)
(***************************************************************************)
EXTENDS Integers, FiniteSets, Sequences

CONSTANTS
  MaxFaults,                          \* bound: what fails, for each part
  Events, Senders, Lookback,                                                        \* digest
  Signals, Watchers,                                                                \* watch
  Procs, Server, Jobs, home, MaxIds,                                                \* symbol
  MaxRuns, MaxRunFaults,                                                            \* check, calibration
  Trades, Bookings, Decided, Pages, MaxChanges, MaxAnswers,                         \* trades
  Wordings, Editors, Readers, MaxWrites,                                            \* journal
  Saves, AtBoot, NoTask, HatchetModes, Overlapping, MaxFailures, MaxRestarts,       \* schedule
  Clicks, Mixes, LookCache, ClickTime, ClickFaults,                                 \* clicks
  Contents, SameRun, ScoreTime, ScoreFaults,                                        \* scores
  Askers, Models, Deep, MaxAge, DebateMaxAge, DeepMaxAge, MaxDays, MaxAsked, MaxDeploys,    \* research
  Payloads, Materials, Reads, Adjustments, CardAges,                                  \* verdict
  Stocks, NoStock, Combinations, Default, Proxied, Cached, MaxDepth, MaxEvents        \* page

ASSUME SizesAssumption == MaxRuns \in Nat /\ Lookback \in Nat /\ HatchetModes \subseteq BOOLEAN
ASSUME HomeAssumption  == home \in [Jobs -> Procs] /\ Server \in Procs
ASSUME ClickAssumption == /\ LookCache \in Nat \ {0}
                          /\ \A kinds \in Mixes : \A c \in Clicks :
                                 kinds[c] \in {"refreshData", "distillRefresh", "perplexityRefresh"}
ASSUME ScoresAssumption == SameRun \in Nat /\ ScoreTime \in Nat
ASSUME ResearchAssumption == /\ Deep \in Models /\ "none" \notin Models
                             /\ {MaxAge, DebateMaxAge, DeepMaxAge} \subseteq Nat

VARIABLES
  old, archived, sent, send, told, skipped, messageMishaps, messageFaults,          \* digest
  standing, remembered, watch, alarms, heard, watchMishaps, watchFaults,            \* watch
  row, lastId, cached, job, delete, wanted, revived, late, storeMishaps, storeFaults,        \* symbol
  checkStatus, result, kept, run, pending, reconcile, checks, due, unsettled, checkFaults,   \* check
  child, runs, phase, status, proposal, exits, look, reported,
  calibrationMishaps, calibrationFaults,                                            \* calibration
  source, copies, reasons, sync, changes, replies, whole, mixed, answered, copyFaults,       \* trades
  entry, revisions, edit, memo, build, writes, stood, crossed, diaryFaults,         \* journal
  hatchet, ours, scheduled, task, ticking, crons, pc, config, found, hurt, failures, boots,        \* schedule
  configured, minute, workers, lastLook, clicks, attempts, paid, vouched, unattended,
  clickFaults,                                                                      \* clicks
  now, captured, confirmed, analyses, points, code, fingerprint, scoreJob, pass,
  lived, recordedBy, torn, scoreMishaps, scoreFaults,                               \* scores
  today, prompts, briefs, asking, served, begun, deploys,                           \* research
  payload, material, reads, stage, card, ageDays, shown,                            \* verdict
  cron, factor, booked, written,                                                    \* inputs of pure functions
  places, here, view, selected, turning, settings, touched, dialog, inStore, page, requests, loading, stream,
  working, started, refreshing, refreshes, activity, adding, deleting, happened     \* page

Message == INSTANCE Digest WITH mishaps <- messageMishaps, faults <- messageFaults

Depot == INSTANCE DepotWatch WITH mishaps <- watchMishaps, faults <- watchFaults

Store == INSTANCE SymbolStore WITH mishaps <- storeMishaps, faults <- storeFaults

Check == INSTANCE DepotCheck
         WITH MaxFaults <- MaxRunFaults, status <- checkStatus, runs <- checks, faults <- checkFaults

Calibration == INSTANCE CalibrationRun
               WITH MaxFaults <- MaxRunFaults, mishaps <- calibrationMishaps, faults <- calibrationFaults

Copy == INSTANCE TradeCopy
        WITH rows <- copies, answers <- replies, torn <- mixed, faults <- copyFaults

Diary == INSTANCE Journal WITH faults <- diaryFaults

Plan == INSTANCE ScheduleInstall WITH Boot <- AtBoot, stored <- scheduled, restarts <- boots

Queue == INSTANCE ViaHatchet
         WITH MaxTime <- ClickTime, MaxFaults <- ClickFaults, clock <- minute, faults <- clickFaults

Scores == INSTANCE ScoreSeries
          WITH MaxTime <- ScoreTime, MaxFaults <- ScoreFaults, job <- scoreJob,
               mishaps <- scoreMishaps, faults <- scoreFaults

Research == INSTANCE ResearchBrief WITH Jobs <- Askers, MaxJobs <- MaxAsked

Verdict == INSTANCE VerdictPipeline WITH Days <- CardAges

Cron == INSTANCE CronUtc

Browser == INSTANCE Workbench
           WITH None <- NoStock, at <- here, newest <- inStore, asking <- requests

\* What a card is made of: whole numbers, and reads that have a score.
ASSUME VerdictAssumption ==
  /\ \A m \in Materials : {m.perplexity, m.deep, m.age} \subseteq Int
  /\ \A f \in Payloads : f.pillars \in [Verdict!Pillars -> -1 .. 10] /\ f.composite \in Nat
  /\ \A r \in Reads : Verdict!narrativeScoreFrom(r) \in Int
  /\ Adjustments \subseteq Int

-----------------------------------------------------------------------------
(* What they promise; the properties are told where they are defined. *)

\* Digest and DepotWatch: no event is sent twice, none is counted that was not sent; a signal
\* is told once while it stands, and nothing is remembered untold.
NewsIsToldOnce == Message!EventsAreToldOnce /\ Depot!SignalsAreToldOnce

\* SymbolStore: what was added is on the watchlist, and nothing else but what a
\* job brought back that a delete overtook; a dead id heals with the next refresh.
StoreFollowsTheUser == Store!StoreFollowsTheUser

\* DepotCheck: the result shown is kept, and running means that somebody is at work.
CheckTellsTheTruth == Check!CheckTellsTheTruth

\* CalibrationRun: one at a time, and the status is the outcome.
OutcomeStands == Calibration!OutcomeStands

\* TradeCopy: the copy is what umsatz sent, and a trade is asked about until it is answered.
CopyIsTheSources == Copy!CopyIsTheSources

\* Journal: every wording an entry had stands or is kept, and the review shows every change
\* that was over when it was asked for.
DiaryIsKept == Diary!WordingsAreKept /\ Diary!AnswersShowTheWrite

\* ScheduleInstall: what fires is the stored schedule, once.
ScheduleIsKept == Plan!ScheduleIsKept

\* ViaHatchet: a click is answered by what is so, one call at a time, and paid for once.
ClicksAreServed == Queue!ClicksAreServed

\* ScoreSeries: after a complete pass the series is on one code, as known at each
\* instant, and none that was recorded is gone.
SeriesIsWhole == Scores!SeriesIsWhole

\* ResearchBrief: research is bought when it is due, and of its time when it is read.
ResearchIsOfItsTime == Research!ResearchIsOfItsTime

\* VerdictPipeline: no read, no synthesis decides alone, and none talks past a cap; what is
\* carried forward ages with the read.
NoSingleVoiceDecides == Verdict!NoSingleVoiceDecides
CarryIsByAge == Verdict!CarryIsByAge

\* CronUtc: the translated expression fires when the one of the settings does.
TranslationIsFaithful == Cron!TranslationIsFaithful(cron)

\* FactorScore: better evidence never lowers the factor score.
ScoreIsMonotone == Verdict!ScoreIsMonotone(factor)

\* TradeCopy and Journal: a position is what its trades add up to, at their average cost;
\* no trade is left out of the decisions or counted twice.
TradesAddUp == /\ Copy!PositionsAddUp(booked)
               /\ Diary!DecisionsCountOnce(written.entries, written.deals)

\* Workbench: what is shown is of the stock that is open, a choice of settings stands, and
\* what is disabled has an end to come.
PageKeepsUp == Browser!PageKeepsUp

=============================================================================
