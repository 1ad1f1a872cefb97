------------------------------ MODULE Workbench ------------------------------
(***************************************************************************)
(* The page in the browser (src/web/src/App.tsx with AnalysisView,         *)
(* AnalysisModal, StockHeader and StockRail) and what it has under way at the server: the *)
(* stock that is open and the settings for a run on it, the one analysis   *)
(* it streams, its refreshes, and its answers, which come in any order     *)
(* while the user goes on to the next stock, back, or away.                *)
(*                                                                         *)
(* An effect runs with the render it belongs to, as React flushes those of *)
(* a click; what a view transition wraps is applied a frame later.         *)
(***************************************************************************)
EXTENDS Integers, Sequences

CONSTANTS Stocks, None,
          Combinations, Default,   \* settings a run can have, and DEFAULT_SETTINGS
          Proxied,            \* each with the model of the LiteLLM proxy in it; itself without one
          Cached,             \* those of the newest stored analysis, by stock
          MaxDepth,           \* bound: the browser's history
          MaxEvents           \* bound: what the user does, and what fails

VARIABLES places, at,         \* the history, and where in it the page is
          view, selected,
          turning,            \* a view transition that is not applied yet
          settings, touched,
          dialog,             \* AnalysisModal: closed, asking for the models, or open behind that
          newest,             \* server: the settings of the newest stored analysis
          page,               \* AnalysisView: the bundle and the analysis it shows
          asking,             \* its requests that still count
          loading, stream,    \* the run that is streamed
          working, started,   \* server: analyses under way; how many there have been
          refreshing,         \* the header's own flag
          refreshes,          \* and what has been clicked in it, or in one before it
          activity,           \* the stocks that the last poll found busy
          adding, deleting,
          happened            \* how much the user did, and how much failed

route == <<places, at, view>>
choice == <<settings, touched, dialog>>
shown == <<page, asking>>
runs == <<loading, stream, working, started>>
clicked == <<refreshing, refreshes>>
errands == <<adding, deleting>>
vars == <<route, selected, turning, choice, newest, shown, runs, clicked, activity, errands, happened>>

Page == "page"   \* every view but the list and a stock
NoAnalysis == [of |-> None, with |-> None]
Blank == [bundle |-> None, failed |-> FALSE, analysis |-> NoAnalysis]
NoStream == [run |-> 0, of |-> None, with |-> None, pc |-> "closed"]
NoDelete == [of |-> None, seen |-> None]
NoTurn == [to |-> None, by |-> "nobody"]

-----------------------------------------------------------------------------
(* What a page asks for. *)

Request(what, of, with) == [what |-> what, of |-> of, with |-> IF what = "analysis" THEN with ELSE None]

\* Mutated: an answer counts for whatever is open when it comes.
AskedAll(kinds, of, with) == asking \union {Request(what, of, with) : what \in kinds}

\* An effect asks anew, and its cleanup cancels what it asked before.
Asked(kinds, of, with) ==
    {r \in asking : r.what \notin kinds} \union {Request(what, of, with) : what \in kinds}

Init == /\ selected \in Stocks \union {None}
        /\ places = <<selected>> /\ at = 1
        /\ view = IF selected = None THEN "overview" ELSE "analysis"
        /\ turning = NoTurn
        /\ settings = Default /\ touched = FALSE /\ dialog = "closed"
        /\ newest = Cached
        /\ page = Blank
        /\ asking = IF selected = None THEN {}
                    ELSE {Request(what, selected, Default) : what \in {"list", "bundle", "analysis"}}
        /\ loading = FALSE /\ stream = NoStream
        /\ working = {} /\ started = 0
        /\ refreshing = FALSE /\ refreshes = {}
        /\ activity = {}
        /\ adding = None /\ deleting = NoDelete
        /\ happened = 0

\* A new run of the effects without a new stock: the data, or the analysis too.
Reload(kinds, with) ==
    /\ asking' = IF selected = None THEN asking ELSE Asked(kinds, selected, with)
    /\ page' = IF "bundle" \in kinds THEN [page EXCEPT !.failed = FALSE] ELSE page

refreshTick == Reload({"bundle", "analysis"}, settings)
localRefresh == Reload({"bundle"}, settings)

\* The header goes with its stock, or with the page; who clicked in it is answered nowhere.
HeaderLeaves(place) ==
    /\ refreshing' = FALSE
    /\ refreshes' = {[r EXCEPT !.by = IF r.by = "nowhere" THEN r.by ELSE place] : r \in refreshes}

\* The stock that is open, with all effects that depend on it.  A dialog that is
\* open lies over every stock, and is mounted anew behind none.
Selects(s) ==
    /\ selected' = s
    /\ IF s = selected
       THEN UNCHANGED <<touched, dialog, shown, clicked>>
       ELSE /\ dialog' = IF dialog # "closed" /\ None \in {s, selected} THEN "asking" ELSE dialog
            /\ touched' = IF s = None THEN touched ELSE FALSE
            /\ page' = Blank
            /\ asking' = IF s = None THEN {} ELSE Asked({"list", "bundle", "analysis"}, s, settings)
            /\ HeaderLeaves(IF s = None THEN "nowhere" ELSE "page")
    /\ UNCHANGED settings

\* The place in the history is replaced.
writeRoute(s) ==
    /\ view' = IF s = None THEN "overview" ELSE "analysis"
    /\ places' = [places EXCEPT ![at] = s]
    /\ at' = at

setSelected(s) == Selects(s) /\ writeRoute(s)

-----------------------------------------------------------------------------
(* Going about. *)

\* No click falls into the frame that an earlier one still waits for.
Happens == happened < MaxEvents /\ happened' = happened + 1
UserActs == turning = NoTurn /\ Happens

\* On the page itself: a dialog covers it, and its keys stand down.
PageActs == UserActs /\ dialog = "closed"

closeOverlay == turning' = [to |-> None, by |-> "close"] /\ UNCHANGED <<route, stream>>

abandonAndTurn(s) == turning' = [to |-> s, by |-> "select"] /\ stream' = NoStream

Elsewhere == UNCHANGED <<selected, choice, newest, shown, loading, working, started, clicked, activity, errands>>

\* A click on the open stock closes it; on any other, the run is abandoned.
handleSelectSymbol(s) ==
    /\ PageActs
    /\ view # Page
    /\ IF view = "analysis" /\ selected = s THEN closeOverlay ELSE abandonAndTurn(s) /\ UNCHANGED route
    /\ Elsewhere

Close ==
    /\ PageActs
    /\ view = Page \/ (view = "analysis" /\ selected # None)
    /\ closeOverlay
    /\ Elsewhere

Pushed == at < MaxDepth /\ places' = Append(SubSeq(places, 1, at), places[at]) /\ at' = at + 1

openFromPage(s) == PageActs /\ view = Page /\ Pushed /\ abandonAndTurn(s) /\ UNCHANGED view /\ Elsewhere

openTab == /\ PageActs /\ view = "analysis" /\ selected # None /\ Pushed
           /\ UNCHANGED <<view, turning, stream>> /\ Elsewhere

\* A frame later.
TransitionApplies ==
    /\ turning # NoTurn
    /\ turning' = NoTurn
    /\ setSelected(turning.to)
    /\ loading' = IF turning.by = "select" THEN FALSE ELSE loading
    /\ UNCHANGED <<newest, stream, working, started, activity, errands, happened>>

\* Another page; the stock stays open behind it.
navigate ==
    /\ PageActs
    /\ view # Page
    /\ view' = Page
    /\ places' = [places EXCEPT ![at] = Page]
    /\ UNCHANGED <<at, turning, stream>>
    /\ Elsewhere

\* Back and forward: the hash is read, and nothing else is done.
onHashChange(to) ==
    /\ UserActs
    /\ to \in DOMAIN places
    /\ at' = to
    /\ Selects(IF places[to] \in Stocks THEN places[to] ELSE None)
    /\ view' = IF places[to] = Page THEN Page ELSE IF places[to] = None THEN "overview" ELSE "analysis"
    /\ UNCHANGED <<places, turning, newest, runs, activity, errands>>

-----------------------------------------------------------------------------
(* Adding and deleting, which both end with another stock open, or none. *)

OnErrand == UNCHANGED <<turning, newest, runs, activity>>
Waits == UNCHANGED <<route, selected, choice, shown, clicked>>

addStock(s) == /\ PageActs /\ adding = None /\ ~loading
               /\ adding' = s
               /\ Waits /\ OnErrand /\ UNCHANGED deleting

\* A stock that is open already is asked for anew.
Added == /\ adding # None
         /\ adding' = None
         /\ writeRoute(adding)
         /\ IF adding = selected THEN refreshTick /\ UNCHANGED <<selected, choice, clicked>>
                                 ELSE Selects(adding)
         /\ OnErrand /\ UNCHANGED <<deleting, happened>>

\* From the rail; what was open is what was open when it was clicked.
handleDelete(s) == /\ PageActs /\ view = "analysis" /\ deleting.of = None
                   /\ deleting' = [of |-> s, seen |-> selected]
                   /\ Waits /\ OnErrand /\ UNCHANGED adding

onDeleted ==
    /\ deleting.of # None
    /\ deleting' = NoDelete
    /\ newest' = [newest EXCEPT ![deleting.of] = None]
    /\ IF deleting.seen = deleting.of THEN setSelected(None) ELSE Waits
    /\ UNCHANGED <<turning, runs, activity, adding, happened>>

\* Neither does more than say so when it fails.
ErrandFails ==
    /\ Happens
    /\ \/ adding # None /\ adding' = None /\ UNCHANGED deleting
       \/ deleting.of # None /\ deleting' = NoDelete /\ UNCHANGED adding
    /\ Waits /\ OnErrand

-----------------------------------------------------------------------------
(* Settings and their dialog, and what the page is answered. *)

\* Settings say which analysis is shown.
NewSettings(w) == settings' = w /\ (IF w = settings THEN UNCHANGED shown ELSE Reload({"analysis"}, w))

StaysPut == UNCHANGED <<route, selected, turning, newest, runs, activity, errands>>

\* Mounted, it asks for the models at once.
OpenDialog ==
    /\ PageActs
    /\ selected # None /\ view = "analysis"
    /\ dialog' = "asking"
    /\ UNCHANGED <<settings, touched, shown, clicked>> /\ StaysPut

CloseDialog ==
    /\ turning = NoTurn
    /\ selected # None /\ dialog # "closed"
    /\ dialog' = "closed"
    /\ UNCHANGED <<settings, touched, shown, clicked, happened>> /\ StaysPut

\* A choice in the dialog; a stored analysis picked there closes it.
handleSettingsChange(w) ==
    /\ UserActs
    /\ selected # None /\ dialog # "closed"
    /\ dialog' \in {dialog, "closed"}
    /\ touched' = TRUE
    /\ NewSettings(w)
    /\ StaysPut /\ UNCHANGED clicked

\* The effect behind the models: settings that name another model than the
\* proxy's follow it, as if the user had said so.
ModelsKnown ==
    /\ selected # None /\ dialog = "asking"
    /\ dialog' = "open"
    /\ touched' = (touched \/ Proxied[settings] # settings)
    /\ NewSettings(Proxied[settings])
    /\ StaysPut /\ UNCHANGED <<clicked, happened>>

ModelsUnknown ==
    /\ selected # None /\ dialog = "asking" /\ Happens
    /\ dialog' = "open"
    /\ UNCHANGED <<settings, touched, shown, clicked>> /\ StaysPut

Over(r) == asking' = asking \ {r}

\* The settings of the newest analysis, unless the user has chosen since.
SettingsFollow(r) ==
    /\ r.what = "list"
    /\ IF touched \/ newest[r.of] = None \/ newest[r.of] = settings
       THEN Over(r) /\ UNCHANGED <<page, settings>>
       ELSE /\ settings' = newest[r.of]
            /\ asking' = Asked({"analysis"}, selected, newest[r.of]) \ {r}
            /\ page' = page
    /\ UNCHANGED <<touched, dialog, clicked, happened>>

BundleComes(r) ==
    /\ r.what = "bundle"
    /\ page' = [page EXCEPT !.bundle = r.of]
    /\ Over(r) /\ UNCHANGED <<choice, clicked, happened>>

\* In the place of the page, an error.
BundleFails(r) ==
    /\ r.what = "bundle" /\ Happens
    /\ page' = [page EXCEPT !.failed = TRUE]
    /\ HeaderLeaves("page")
    /\ Over(r) /\ UNCHANGED choice

\* None, when there is none with these settings or the request fails.
AnalysisComes(r) ==
    /\ r.what = "analysis"
    /\ \E found \in {NoAnalysis, [of |-> r.of, with |-> r.with]} :
          /\ newest[r.of] = None => found = NoAnalysis
          /\ page' = [page EXCEPT !.analysis = found]
    /\ Over(r) /\ UNCHANGED <<choice, clicked, happened>>

Answer(r) == /\ SettingsFollow(r) \/ BundleComes(r) \/ BundleFails(r) \/ AnalysisComes(r)
             /\ StaysPut

-----------------------------------------------------------------------------
(* A run. *)

\* It supersedes the run before, which goes on at the server.
startAnalyze(s) ==
    /\ started' = started + 1
    /\ loading' = TRUE
    /\ stream' = [run |-> started', of |-> s, with |-> settings, pc |-> "open"]
    /\ working' = working \union {[run |-> started', of |-> s, with |-> settings]}

\* From the page, or from the dialog, which closes.
Run == /\ UserActs
       /\ selected # None /\ view = "analysis" /\ ~loading
       /\ startAnalyze(selected)
       /\ dialog' = "closed"
       /\ UNCHANGED <<route, selected, turning, settings, touched, newest, shown, clicked, activity, errands>>

AtTheServer == UNCHANGED <<route, selected, turning, choice, shown, loading, started, clicked, activity, errands>>

\* The server is done with one, and writes to the stream of it that is open.
Heard(w, pc) == stream' = IF stream.run = w.run THEN [stream EXCEPT !.pc = pc] ELSE stream

Finishes(w) == /\ working' = working \ {w}
               /\ newest' = [newest EXCEPT ![w.of] = w.with]
               /\ Heard(w, "result")
               /\ AtTheServer /\ UNCHANGED happened

Fails(w) == /\ Happens
            /\ working' = working \ {w}
            /\ Heard(w, "error")
            /\ AtTheServer /\ UNCHANGED newest

InTheBrowser == UNCHANGED <<route, selected, turning, choice, newest, working, started, clicked, activity, errands>>

onResult == /\ stream.pc = "result"
            /\ stream' = [stream EXCEPT !.pc = "done"]
            /\ refreshTick
            /\ InTheBrowser /\ UNCHANGED <<loading, happened>>

onDone == /\ stream.pc = "done"
          /\ stream' = NoStream /\ loading' = FALSE
          /\ refreshTick
          /\ InTheBrowser /\ UNCHANGED happened

\* An error from the server, or the connection is gone.
onError == /\ stream # NoStream
           /\ IF stream.pc = "error" THEN UNCHANGED happened ELSE Happens
           /\ stream' = NoStream /\ loading' = FALSE
           /\ UNCHANGED shown
           /\ InTheBrowser

-----------------------------------------------------------------------------
(* The header's refresh: of the data, or of the data and then the analysis. *)

Header == page.bundle # None /\ ~page.failed /\ view = "analysis"
busy == refreshing \/ selected \in activity

Beside == UNCHANGED <<route, selected, turning, choice, newest, activity, errands>>

Refresh(everything) ==
    /\ PageActs
    /\ Header /\ ~busy
    /\ everything => ~loading
    /\ refreshing' = TRUE
    /\ refreshes' = refreshes \union {[click |-> happened', of |-> selected, everything |-> everything,
                                       pc |-> "sent", by |-> "header"]}
    /\ Beside /\ UNCHANGED <<shown, runs>>

\* The task exists.
Queued(r) ==
    /\ r.pc = "sent"
    /\ refreshes' = (refreshes \ {r}) \union {[r EXCEPT !.pc = "queued"]}
    /\ Beside /\ UNCHANGED <<shown, runs, refreshing, happened>>

HeaderAnswered(r) ==
    /\ refreshes' = refreshes \ {r}
    /\ refreshing' = IF r.by = "header" THEN FALSE ELSE refreshing
    /\ Beside

\* The order of the night: data first, then the analysis.
Refreshed(r) ==
    /\ r.pc = "queued"
    /\ HeaderAnswered(r)
    /\ IF r.by = "nowhere" THEN UNCHANGED shown ELSE localRefresh
    /\ IF r.everything THEN startAnalyze(r.of) ELSE UNCHANGED runs
    /\ UNCHANGED happened

NotRefreshed(r) == HeaderAnswered(r) /\ Happens /\ UNCHANGED <<shown, runs>>

\* Every five seconds, and when something is known to have changed; a poll that
\* fails finds nobody busy.
pollActivity ==
    /\ \/ activity' = {r.of : r \in {x \in refreshes : x.pc = "queued"}} \union {w.of : w \in working}
          /\ UNCHANGED happened
       \/ activity' = {} /\ Happens
    /\ UNCHANGED <<route, selected, turning, choice, newest, shown, runs, clicked, errands>>

-----------------------------------------------------------------------------

UserStep == \/ \E s \in Stocks : handleSelectSymbol(s) \/ openFromPage(s) \/ addStock(s) \/ handleDelete(s)
            \/ Close \/ openTab \/ navigate \/ onHashChange(at - 1) \/ onHashChange(at + 1)
            \/ OpenDialog \/ CloseDialog \/ \E w \in Combinations : handleSettingsChange(w)
            \/ Run \/ \E everything \in BOOLEAN : Refresh(everything)

Next == \/ UserStep
        \/ ModelsKnown \/ ModelsUnknown
        \/ TransitionApplies \/ Added \/ onDeleted \/ ErrandFails
        \/ \E r \in asking : Answer(r)
        \/ \E w \in working : Finishes(w) \/ Fails(w)
        \/ onResult \/ onDone \/ onError
        \/ \E r \in refreshes : Queued(r) \/ Refreshed(r) \/ NotRefreshed(r)
        \/ pollActivity

Spec == Init /\ [][Next]_vars

-----------------------------------------------------------------------------
(* Properties *)

\* No button stays disabled for ever: what disables one has an end that is yet to
\* come, however a run, a refresh and the next click cross.
NothingIsStuck == /\ loading => stream # NoStream \/ turning.by = "select"
                  /\ refreshing => \E r \in refreshes : r.by = "header"

\* "Cancellation flag prevents a stale response from clobbering a newer symbol's
\* state" (AnalysisView.tsx:151-153): what is shown is of the stock that is open, and
\* the analysis of the settings beside it or about to be.
ShowsTheSelected ==
    /\ page.bundle \in {None, selected}
    /\ page.analysis # NoAnalysis =>
           /\ page.analysis.of = selected
           /\ page.analysis.with = settings \/ Request("analysis", selected, settings) \in asking

\* "don't clobber their in-progress choice with the cached default" (App.tsx:363):
\* settings the user has chosen change by another choice or with the stock, or to
\* the proxy's model by the dialog in which they were chosen; no answer about the
\* stock, no run and no refresh undoes them.
ChoiceStands ==
    [][touched /\ touched' /\ selected' = selected /\ settings' # settings =>
           happened' # happened \/ (dialog = "asking" /\ settings' = Proxied[settings])]_vars

\* Together: the page keeps up with its user.
PageKeepsUp == [](NothingIsStuck /\ ShowsTheSelected) /\ ChoiceStands

\* Violated: "user-initiated settings change -- flag it so the auto-switch effect
\* yields" (App.tsx:345).  Behind a LiteLLM proxy the dialog changes and flags them
\* by itself, over a choice made before it knew the models.
OnlyTheUserTouches ==
    [][touched' /\ selected' = selected /\ (~touched \/ settings' # settings) => happened' # happened]_vars

\* Violated: "every run starts from the stock already selected" (App.tsx:449-450).
\* One that follows a refresh starts when that is over, of the stock it was clicked
\* for, with the settings of the one that is open by then, and ends the run of that.
RunsAreOfTheSelected == [][started' # started => stream'.of = selected]_vars

\* Violated: "switching symbols (or starting a new run) bumps it" (App.tsx:141-143).
\* Back, forward and a stock just added switch the symbol, and the run's progress
\* goes on under the other one's name.
SwitchingAbandonsTheRun == [][selected' \notin {selected, None} => stream' = NoStream]_vars

\* Violated: a button that looks ready, "and clicking again would queue a second
\* one" (StockHeader.tsx:78-80).  Back on the stock, the flag is gone and the poll yet to come.
OneRefreshPerStock == \A r, q \in refreshes : r.of = q.of => r = q

\* Violated: a delete closes what it deleted.  It closes whatever is open by then.
OnlyTheDeletedIsClosed ==
    [][deleting.of # None /\ deleting'.of = None => selected' = selected \/ selected = deleting.of]_vars

=============================================================================
