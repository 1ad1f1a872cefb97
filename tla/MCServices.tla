----------------------------- MODULE MCServices ------------------------------
(***************************************************************************)
(* The services beside the pipeline, each explored on its own: the parts   *)
(* share no state, so a behaviour is a behaviour of the one part that was  *)
(* chosen at its start, while the others stay as they began.  The parts of *)
(* Services get their sizes here and in the cfg; mishaps and faults are of *)
(* whichever other part was chosen.                                        *)
(***************************************************************************)
EXTENDS Services, SequencesExt

CONSTANTS Parts, batchSize, ServerJobs

VARIABLES part, mishaps, faults,
          series, rows, announced, cleared, note, toldVerdict,                   \* alerts
          index, stored, order, batch, lastGood, since, turn                     \* universe

alertsVars == <<series, rows, announced, cleared, note, toldVerdict>>
digestVars == <<old, archived, sent, send, told, skipped, messageMishaps, messageFaults>>
watchVars == <<standing, remembered, watch, alarms, heard, watchMishaps, watchFaults>>
symbolVars == <<row, lastId, cached, job, delete, wanted, revived, late, storeMishaps, storeFaults>>
universeVars == <<index, stored, order, batch, lastGood, since, turn>>
checkVars == <<checkStatus, result, kept, run, pending, reconcile, checks, due, unsettled, checkFaults>>
calibrationVars == <<child, runs, phase, status, proposal, exits, look, reported, calibrationMishaps, calibrationFaults>>
tradesVars == <<source, copies, reasons, sync, changes, replies, whole, mixed, answered, copyFaults>>
journalVars == <<entry, revisions, edit, memo, build, writes, stood, crossed, diaryFaults>>
inputVars == <<cron, factor, booked, written>>
scheduleVars == <<hatchet, ours, scheduled, task, ticking, crons, pc, config, found, hurt, failures, boots>>
researchVars == <<today, prompts, briefs, asking, served, begun, deploys>>
clickVars == <<configured, minute, workers, lastLook, clicks, attempts, paid, vouched, unattended, clickFaults>>
pageVars == <<places, here, view, selected, turning, settings, touched, dialog, inStore, page, requests, loading, stream,
              working, started, refreshing, refreshes, activity, adding, deleting, happened>>
jobVars == <<pageVars, scheduleVars, researchVars, clickVars>>
bookVars == <<tradesVars, journalVars, inputVars>>
otherVars == <<bookVars, jobVars>>
verdictVars == <<payload, material, reads, stage, card, ageDays, shown>>
scoreVars == <<now, captured, confirmed, analyses, points, code, fingerprint, scoreJob, pass, lived, recordedBy, torn,
               scoreMishaps, scoreFaults>>

vars == <<part, mishaps, faults, alertsVars, digestVars, watchVars, symbolVars, universeVars,
          checkVars, calibrationVars, scoreVars, verdictVars, otherVars>>

-----------------------------------------------------------------------------
(* The payloads: what the lenses see, and what is known of the data. *)

Lenses(a, b, c, d, e, f) ==
    [valuation |-> a, quality |-> b, health |-> c, consensus |-> d, momentum |-> e, revisions |-> f]
Clean(lenses) == [pillars |-> lenses, composite |-> 9, severity |-> "none", stale |-> FALSE, uncovered |-> FALSE,
                  beneish |-> "clean", distress |-> FALSE]

\* All lenses agree, disagree, are half blind; and what caps them.
Agreed == Clean(Lenses(9, 9, 10, 8, 9, 9))
StoredPayloads ==
    {Agreed, Clean(Lenses(0, 8, 9, 5, 4, 2)),
     [Agreed EXCEPT !.beneish = "flagged", !.severity = "error", !.stale = TRUE],
     [Clean(Lenses(1, 0, 1, 2, 1, 0)) EXCEPT !.distress = TRUE, !.beneish = "explained"],
     [Clean(Lenses(7, -1, 8, -1, -1, -1)) EXCEPT !.uncovered = TRUE, !.severity = "warn"]}

\* Nothing scored, by data that is complete.
Unknown == [Clean(Lenses(-1, -1, -1, -1, -1, -1)) EXCEPT !.composite = 10]

Evidence == {[Clean(lenses) EXCEPT !.composite = c] :
                 lenses \in [DOMAIN Agreed.pillars -> {-1, 1, 4, 9}], c \in {0, 7}}

\* Nothing, a report of claims only, an old report of prose, all there is.
NothingFound == [company |-> "none", sectors |-> FALSE, briefing |-> FALSE, search |-> FALSE,
                 perplexity |-> -2, deep |-> -2, age |-> -1]
FoundMaterials ==
    {NothingFound, [NothingFound EXCEPT !.perplexity = 0, !.age = 1],
     [NothingFound EXCEPT !.deep = -1, !.briefing = TRUE, !.age = 30],
     [company |-> "dossier", sectors |-> TRUE, briefing |-> TRUE, search |-> TRUE,
      perplexity |-> 6, deep |-> 3, age |-> 1]}

\* Nothing rated, two that agree, three that do not; corrections beyond the limit and within it.
SomeReads == {<<>>, <<2, 2>>, <<-2, -1, 0>>}
AskedAdjustments == {-300, -60, 100}

-----------------------------------------------------------------------------
(* The parts and their bounds; those of Services have theirs in the cfg. *)

\* Two clicks on Distill, on Distill and on the data, on the data and on Perplexity.
ClickMixes == {[c1 |-> "distillRefresh", c2 |-> "distillRefresh"],
               [c1 |-> "distillRefresh", c2 |-> "refreshData"],
               [c1 |-> "perplexityRefresh", c2 |-> "refreshData"]}

\* Refreshes run in a worker, or in the server, which also deletes.
Home == [j \in Jobs |-> IF j \in ServerJobs THEN "server" ELSE "worker"]

\* A tick is a night: a verdict settles from one to the next, two are looked back on.
Alerts == INSTANCE VerdictAlerts
          WITH Verdicts <- {"buy", "hold"}, None <- "none", Writers <- {"api", "worker"},
               Settle <- 1, Window <- 2, MaxGap <- 1, MaxFaults <- 1, told <- toldVerdict

\* An index changes one member, another lists a second share of a company; one
\* ticker is delisted.
Reference == INSTANCE Universe
             WITH Symbols <- {"a", "d", "x", "y"}, Suffixed <- {"x", "y"},
                  root <- [s \in {"a", "d", "x", "y"} |-> IF s \in {"x", "y"} THEN "AIR" ELSE s],
                  Eligible <- <<{{"a", "d"}, {"a", "x"}}, {{"y"}}>>, Dead <- {"d"},
                  Sources <- 2, Grace <- 1, MaxFaults <- 1

\* One of the stocks has an analysis of other settings than a page begins with.
CachedOfA == [s \in Stocks |-> IF s = "A" THEN "x" ELSE NoStock]
\* Behind a proxy whose model is the default one.
ProxiedModels == [w \in Combinations |-> Default]

-----------------------------------------------------------------------------
(* The trades of an asset, in their order, and what the journal says of some. *)

Booked(kind, quantity, price) == [kind |-> kind, quantity |-> quantity, price |-> price, euro |-> kind # "spin-off"]
AnyTrades == {Booked("buy", 1, 1), Booked("buy", 3, 4), Booked("spin-off", 3, 1),
             Booked("sell", 1, 2), Booked("sell", 2, 2), Booked("sell", 3, 1)}

Deal(day, side, symbol, ids) == [day |-> day, side |-> side, symbol |-> symbol, ids |-> ids]
AllDeals == <<Deal(1, "buy", "A", {1}), Deal(3, "buy", "A", {2, 3}), Deal(3, "sell", "A", {4}),
              Deal(3, "buy", "B", {5}), Deal(9, "buy", "A", {6})>>
Deals == {SelectSeq(AllDeals, LAMBDA deal : deal \in some) : some \in SUBSET ToSet(AllDeals)}

Entries == [kind : {"buy", "sell"}, symbols : {<<"A">>, <<"B", "A">>}, day : {2, 9}, tradeIds : {{}, {1}, {2, 6}}]
           \union {[kind |-> "note", symbols |-> <<"A">>, day |-> 2, tradeIds |-> {1}]}

-----------------------------------------------------------------------------
(* The expressions: one or two parts a field, understood or not. *)

Fields(parts) == {{p, q} : p \in parts, q \in parts}

HourFields == Fields({Cron!Every({}), Cron!Every({6}), Cron!One(0), Cron!One(23), Cron!Span(1, 5, {2}),
                      Cron!Onwards(20, 2), Cron!One(24)})
WeekdayFields == Fields({Cron!Every({}), Cron!Every({1}), Cron!One(0), Cron!One(7), Cron!Span(1, 5, {}),
                         Cron!One(6), Cron!Span(5, 1, {})})
Offsets == {-600, -60, 0, 60, 120, 330, 840}

Expressions == [hour : HourFields, dow : WeekdayFields, dated : BOOLEAN, offset : Offsets]
Dated == [hour |-> {Cron!One(0)}, dow |-> {Cron!Every({})}, dated |-> TRUE, offset |-> 60]

-----------------------------------------------------------------------------

\* Only the chosen part has more than one beginning.
Init == /\ part \in Parts
        /\ Alerts!Init /\ Message!Init /\ Depot!Init /\ Store!Init /\ Check!Init /\ Calibration!Init
        /\ Scores!Init
        /\ Reference!Init /\ (part # "universe" => index = <<{"a", "d"}, {"y"}>>)
        /\ cron \in IF part = "cron" THEN Expressions ELSE {Dated}
        /\ Verdict!Init /\ (part # "verdict" => payload = Agreed /\ material = NothingFound)
        /\ factor \in IF part = "factor" THEN Evidence ELSE {Unknown}
        /\ Copy!Init /\ (part # "trades" => source = [t \in {"t1", "t2"} |-> "bought"])
        /\ Diary!Init /\ (part # "journal" => entry.text = "a")
        /\ booked \in IF part = "positions" THEN [1 .. 4 -> AnyTrades] ELSE {<<>>}
        /\ written \in IF part = "decisions" THEN [entries : BoundedSeq(Entries, 2), deals : Deals]
                       ELSE {[entries |-> <<>>, deals |-> <<>>]}
        /\ Plan!Init /\ (part # "schedule" => ~hatchet /\ scheduled.kind = "off")
        /\ Research!Init
        /\ Queue!Init
        /\ (part # "clicks" => ~configured /\ \A c \in {"c1", "c2"} : clicks[c].kind = "distillRefresh")
        \* Loaded with a stock in its address; the list is a click away.
        /\ Browser!Init /\ selected = "A"

InAlerts == /\ part = "alerts"
            /\ UNCHANGED <<part, digestVars, watchVars, symbolVars, universeVars, checkVars, calibrationVars, scoreVars, verdictVars, otherVars>>
InDigest == /\ part = "digest"
            /\ UNCHANGED <<part, mishaps, faults, alertsVars, watchVars, symbolVars, universeVars, checkVars, calibrationVars, scoreVars, verdictVars, otherVars>>
InWatch == /\ part = "watch"
           /\ UNCHANGED <<part, mishaps, faults, alertsVars, digestVars, symbolVars, universeVars, checkVars, calibrationVars, scoreVars, verdictVars, otherVars>>
InSymbol == /\ part = "symbol"
            /\ UNCHANGED <<part, mishaps, faults, alertsVars, digestVars, watchVars, universeVars, checkVars, calibrationVars, scoreVars, verdictVars, otherVars>>
InUniverse == /\ part = "universe"
              /\ UNCHANGED <<part, alertsVars, digestVars, watchVars, symbolVars, checkVars, calibrationVars, scoreVars, verdictVars, otherVars>>
InCheck == /\ part = "check"
           /\ UNCHANGED <<part, mishaps, faults, alertsVars, digestVars, watchVars, symbolVars, universeVars,
                          calibrationVars, scoreVars, verdictVars, otherVars>>
InCalibration == /\ part = "calibration"
                 /\ UNCHANGED <<part, mishaps, faults, alertsVars, digestVars, watchVars, symbolVars, universeVars, checkVars, scoreVars, verdictVars, otherVars>>
InScores == /\ part = "scores"
            /\ UNCHANGED <<part, mishaps, faults, alertsVars, digestVars, watchVars, symbolVars, universeVars, checkVars,
                           calibrationVars, verdictVars, otherVars>>
InVerdict == /\ part = "verdict"
             /\ UNCHANGED <<part, mishaps, faults, alertsVars, digestVars, watchVars, symbolVars, universeVars,
                            checkVars, calibrationVars, scoreVars, otherVars>>

\* What the books keep is not told by the services.
BesideBooks == UNCHANGED <<part, mishaps, faults, alertsVars, digestVars, watchVars, symbolVars, universeVars,
                           checkVars, calibrationVars, scoreVars, verdictVars, inputVars, jobVars>>
InTrades == part = "trades" /\ BesideBooks /\ UNCHANGED journalVars
InJournal == part = "journal" /\ BesideBooks /\ UNCHANGED tradesVars

BesideJobs == UNCHANGED <<part, mishaps, alertsVars, digestVars, watchVars, symbolVars, universeVars,
                          checkVars, calibrationVars, scoreVars, verdictVars, bookVars>>
InSchedule == part = "schedule" /\ BesideJobs /\ UNCHANGED <<faults, pageVars, researchVars, clickVars>>
InResearch == part = "research" /\ BesideJobs /\ UNCHANGED <<faults, pageVars, scheduleVars, clickVars>>
InClicks == part = "clicks" /\ BesideJobs /\ UNCHANGED <<faults, pageVars, scheduleVars, researchVars>>
InPage == part = "page" /\ BesideJobs /\ UNCHANGED <<faults, scheduleVars, researchVars, clickVars>>

Next == \/ InAlerts /\ Alerts!Next
        \/ InDigest /\ Message!Next
        \/ InWatch /\ Depot!Next
        \/ InSymbol /\ Store!Next
        \/ InUniverse /\ Reference!Next
        \/ InCheck /\ Check!Next
        \/ InCalibration /\ Calibration!Next
        \/ InScores /\ Scores!Next
        \/ InVerdict /\ Verdict!Next
        \/ InTrades /\ Copy!Next
        \/ InJournal /\ Diary!Next
        \/ InSchedule /\ Plan!Next
        \/ InResearch /\ Research!Next
        \/ InClicks /\ Queue!Next
        \/ InPage /\ Browser!Next

Spec == Init /\ [][Next]_vars

\* The fairness of the two parts that promise something for the end.
Fairness ==
    /\ \A w \in {"api", "worker"} :
           WF_alertsVars(part = "alerts" /\ (Alerts!Look(w) \/ \E v \in {"buy", "hold"} : Alerts!Insert(w, v)))
    /\ WF_alertsVars(part = "alerts" /\ \E w \in {"api", "worker"} : Alerts!Begin(w))
    /\ WF_alertsVars(part = "alerts" /\ Alerts!Tick)
    /\ WF_universeVars(part = "universe" /\ Reference!GoodNight)
    /\ WF_universeVars(part = "universe" /\ Reference!RefreshStep)

FairSpec == Spec /\ Fairness

-----------------------------------------------------------------------------
(* The properties of the parts; what they say is told where they are defined. *)

\* VerdictAlerts: every flip is recorded once, messages chain without a gap or a
\* repetition, and a verdict that holds is announced in the end.
VerdictsAreTold == Alerts!FlipsAreToldInOrder /\ (part = "alerts" => Alerts!HoldingIsAnnounced)
\* VerdictAlerts, violated: a deploy is no news (MCServicesDivergences.cfg).
DeploysAreNoNews == Alerts!DeploysAreNoNews
\* DepotWatch, violated: a signal that returns is news (MCServicesDivergences.cfg).
ReturnIsNews == Depot!ReturnIsNews
\* Universe: every member that stays has its turn again and again, and who leaves
\* is scored for the grace period.
EveryMemberHasItsTurn ==
    []Reference!LeaversKeepTheirGrace /\ (part = "universe" => Reference!RotationComesRound)
\* Universe, violated: one company is counted once (MCServicesDivergences.cfg).
OneCompanyOnce == Reference!OneCompanyOnce
\* ScoreSeries, violated: a pass that failed leaves the series as it was, and one
\* that is repeated restores it (MCServicesDivergences.cfg).
FailureKeepsTheSeries == Scores!FailureKeepsTheSeries
RepeatedPassRestores == Scores!RepeatedPassRestores
\* VerdictPipeline, violated: a correction outlives the next refresh, and what is
\* empty has no sources (MCServicesDivergences.cfg).
CorrectionOutlivesTheRefresh == Verdict!CorrectionOutlivesTheRefresh
EmptyMeansNothing == Verdict!EmptyMeansNothing
\* Journal, violated: wordings survive crossing edits, a sync clears the review, and an
\* entry is one decision with the trades it names (MCServicesDivergences.cfg).
EveryWordingIsKept == Diary!EveryWordingIsKept
AnswersShowTheSync == Diary!AnswersShowTheSync
LinkedTradesAreOneDecision ==
    part = "decisions" => Diary!LinkedTradesAreOneDecision(written.entries, written.deals)
\* DepotCheck, violated: a run that died under its server is marked interrupted at boot.
DeadRunIsInterrupted == Check!DeadRunIsInterrupted
\* CalibrationRun, violated: the exit listener speaks only for a child that said nothing.
ExitSpeaksForTheSilent == Calibration!ExitSpeaksForTheSilent
\* ScheduleInstall, violated when calls overlap: one scheduler or the other, never both; and
\* of a schedule node-cron refuses: one of the two always owns it.
AtMostOneCron == Plan!AtMostOneCron
OneAlwaysOwnsIt == Plan!OneAlwaysOwnsIt
\* ResearchBrief, violated: every analysis honours the window (MCServicesDivergences.cfg).
AnalysesHonourTheWindow == Research!AnalysesHonourTheWindow
\* ViaHatchet, violated: one call at Distill at a time, and what is queued has somebody to
\* take it up (MCServicesDivergences.cfg).
OneCallAtDistill == Queue!OneCallAtDistill
QueuedIsAttended == Queue!QueuedIsAttended
\* Workbench, violated: a run is of the open stock and ends with the switch to another; one
\* refresh per stock; a delete closes no other stock (MCServicesDivergences.cfg).
RunsAreOfTheSelected == Browser!RunsAreOfTheSelected
SwitchingAbandonsTheRun == Browser!SwitchingAbandonsTheRun
OneRefreshPerStock == Browser!OneRefreshPerStock
OnlyTheDeletedIsClosed == Browser!OnlyTheDeletedIsClosed
\* And the settings are flagged as chosen by a dialog nobody has touched.
OnlyTheUserTouches == Browser!OnlyTheUserTouches

=============================================================================
