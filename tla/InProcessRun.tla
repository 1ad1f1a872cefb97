---------------------------- MODULE InProcessRun ----------------------------
(***************************************************************************)
(* The pipeline without Hatchet: runPipeline, startPipeline, requestStop   *)
(* and recoverInterruptedRuns of src/src/scheduler.ts, on the rows of      *)
(* src/src/db/admin.ts.                                                    *)
(*                                                                         *)
(* Each trigger, the cron's tick or a POST /api/jobs/run, is one call of   *)
(* runPipeline.  Calls interleave wherever the code awaits; between two    *)
(* awaits a call is atomic.  A step of a symbol reports failure and never  *)
(* throws (src/src/pipeline/steps.ts), a database write may.               *)
(*                                                                         *)
(* raced, asked and unclosed are history: they only name what happened.    *)
(***************************************************************************)
EXTENDS Naturals, FiniteSets

CONSTANTS
  Calls,         \* the triggers that may arrive
  NoRun,         \* activeRun = null
  WatchlistSize, \* symbols of a full run
  ReferenceSize, \* bound on the reference batch of a full run
  MaxCrashes     \* bound on the crashes of the process

ASSUME SizesAssumption == {WatchlistSize, ReferenceSize, MaxCrashes} \subseteq Nat
ASSUME NoRunAssumption == NoRun \notin Calls

VARIABLES
  up,            \* the API process has booted
  activeRun,     \* scheduler.ts: the call whose JobRun is the active one
  stopRequested, \* scheduler.ts
  runs,          \* the table runs: the status of the row each call opened
  pc,            \* where each call is
  explicit,      \* the call was given a hand-picked subset
  todo,          \* watchlist symbols the call has not started
  refs,          \* reference symbols the call has not started
  attention,     \* a watchlist step of the call failed
  outcome,       \* run.status in memory
  raced, asked, unclosed, crashes

slot    == <<activeRun, stopRequested>>
walk    == <<explicit, todo, refs, attention, outcome>>
history == <<raced, asked, unclosed, crashes>>
vars    == <<up, slot, runs, pc, walk, history>>

Preparing == {"preparing", "opened"}
Walking   == {"syncing", "watchlist", "symbol", "message", "universe", "reference",
              "closing", "closed"}
Ended     == {"ended", "refused", "thrown", "dead"}
Statuses  == {"running", "ok", "partial", "failed", "stopped"}

(* The runs that hold, or believe they hold, the single slot. *)
Walks == {c \in Calls : pc[c] \in Walking}

goto(c, p) == pc' = [pc EXCEPT ![c] = p]

-----------------------------------------------------------------------------

Init ==
  /\ up = TRUE
  /\ activeRun = NoRun
  /\ stopRequested = FALSE
  /\ runs = [c \in Calls |-> "none"]
  /\ pc = [c \in Calls |-> "idle"]
  /\ explicit = [c \in Calls |-> FALSE]
  /\ todo = [c \in Calls |-> 0]
  /\ refs = [c \in Calls |-> 0]
  /\ attention = [c \in Calls |-> FALSE]
  /\ outcome = [c \in Calls |-> "running"]
  /\ raced = FALSE
  /\ asked = {}
  /\ unclosed = {}
  /\ crashes = 0

(* Mutated: the busy guard is dropped. *)
TriggerAlways(c) ==
  /\ up /\ pc[c] = "idle"
  /\ goto(c, "preparing")
  /\ raced' = (raced \/ \E d \in Calls : pc[d] \in Preparing)
  /\ UNCHANGED <<up, slot, runs, walk, asked, unclosed, crashes>>

(* A trigger meets the busy guard, and nothing but the guard. *)
Trigger(c) ==
  /\ up /\ pc[c] = "idle"
  /\ goto(c, IF activeRun # NoRun THEN "refused" ELSE "preparing")
  /\ raced' = (raced \/ (activeRun = NoRun /\ \E d \in Calls : pc[d] \in Preparing))
  /\ UNCHANGED <<up, slot, runs, walk, asked, unclosed, crashes>>

(* readAppConfig, scheduledSymbols and referenceBatch answer, and startRun
   inserts the row.  A hand-picked run has no universe, and a universe that
   cannot be read is an empty one. *)
OpenRow(c) ==
  /\ pc[c] = "preparing"
  /\ \/ /\ explicit' = [explicit EXCEPT ![c] = TRUE]
        /\ \E n \in 1 .. WatchlistSize : todo' = [todo EXCEPT ![c] = n]
        /\ UNCHANGED refs
     \/ /\ todo' = [todo EXCEPT ![c] = WatchlistSize]
        /\ \E n \in 0 .. ReferenceSize : refs' = [refs EXCEPT ![c] = n]
        /\ UNCHANGED explicit
  /\ runs' = [runs EXCEPT ![c] = "running"]
  /\ goto(c, "opened")
  /\ UNCHANGED <<up, slot, attention, outcome, history>>

(* One of those awaits rejects: the call throws before it claimed anything. *)
FailToOpen(c) ==
  /\ pc[c] = "preparing"
  /\ goto(c, "thrown")
  /\ UNCHANGED <<up, slot, runs, walk, history>>

(* startRun resolves: the slot is claimed, and an earlier stop forgotten. *)
Claim(c) ==
  /\ pc[c] = "opened"
  /\ activeRun' = c
  /\ stopRequested' = FALSE
  /\ goto(c, "syncing")
  /\ UNCHANGED <<up, runs, walk, history>>

(* syncWatchlistDossiers settles; its failure is a warning. *)
Synced(c) ==
  /\ pc[c] = "syncing"
  /\ goto(c, "watchlist")
  /\ UNCHANGED <<up, slot, runs, walk, history>>

(* The check at the top of either loop.  A stopped watchlist sends no message,
   and the universe's loop is left by the same flag: no await in between. *)
SeeStop(c) ==
  /\ stopRequested
  /\ \/ pc[c] = "watchlist" /\ todo[c] > 0
     \/ pc[c] = "universe" /\ refs[c] > 0
  /\ outcome' = [outcome EXCEPT ![c] = "stopped"]
  /\ goto(c, "closing")
  /\ UNCHANGED <<up, slot, runs, explicit, todo, refs, attention, history>>

(* Mutated: the next symbol starts without a look at the stop. *)
StartSymbolUnasked(c) ==
  /\ pc[c] = "watchlist" /\ todo[c] > 0
  /\ todo' = [todo EXCEPT ![c] = @ - 1]
  /\ goto(c, "symbol")
  /\ UNCHANGED <<up, slot, runs, explicit, refs, attention, outcome, history>>

(* The next symbol of the watchlist, no stop having been seen. *)
StartSymbol(c) ==
  /\ pc[c] = "watchlist" /\ todo[c] > 0 /\ ~stopRequested
  /\ todo' = [todo EXCEPT ![c] = @ - 1]
  /\ goto(c, "symbol")
  /\ UNCHANGED <<up, slot, runs, explicit, refs, attention, outcome, history>>

(* processSymbol: the three steps are through and recorded. *)
EndSymbol(c) ==
  /\ pc[c] = "symbol"
  /\ \E bad \in BOOLEAN : attention' = [attention EXCEPT ![c] = @ \/ bad]
  /\ goto(c, "watchlist")
  /\ UNCHANGED <<up, slot, runs, explicit, todo, refs, outcome, history>>

(* The watchlist is through.  Only a full run has a message and a universe. *)
EndWatchlist(c) ==
  /\ pc[c] = "watchlist" /\ todo[c] = 0
  /\ goto(c, IF explicit[c] THEN "universe" ELSE "message")
  /\ UNCHANGED <<up, slot, runs, walk, history>>

(* sendDigest and watchDepot settle; their failures are warnings. *)
EndMessage(c) ==
  /\ pc[c] = "message"
  /\ goto(c, "universe")
  /\ UNCHANGED <<up, slot, runs, walk, history>>

StartReference(c) ==
  /\ pc[c] = "universe" /\ refs[c] > 0 /\ ~stopRequested
  /\ refs' = [refs EXCEPT ![c] = @ - 1]
  /\ goto(c, "reference")
  /\ UNCHANGED <<up, slot, runs, explicit, todo, attention, outcome, history>>

(* A reference step that failed is nobody's morning problem (needsAttention). *)
EndReference(c) ==
  /\ pc[c] = "reference"
  /\ goto(c, "universe")
  /\ UNCHANGED <<up, slot, runs, walk, history>>

EndUniverse(c) ==
  /\ pc[c] = "universe" /\ refs[c] = 0
  /\ outcome' = [outcome EXCEPT ![c] = IF attention[c] THEN "partial" ELSE "ok"]
  /\ goto(c, "closing")
  /\ UNCHANGED <<up, slot, runs, explicit, todo, refs, attention, history>>

(* setRunSymbol or recordRunSteps throws: the rest of the run is given up. *)
FailToRecord(c) ==
  /\ pc[c] \in {"symbol", "reference"}
  /\ outcome' = [outcome EXCEPT ![c] = "failed"]
  /\ goto(c, "closing")
  /\ UNCHANGED <<up, slot, runs, explicit, todo, refs, attention, history>>

(* finishRun, guarded on an open row; a rejected UPDATE is a warning. *)
CloseRow(c) ==
  /\ pc[c] = "closing"
  /\ \/ /\ runs' = [runs EXCEPT ![c] = IF @ = "running" THEN outcome[c] ELSE @]
        /\ UNCHANGED unclosed
     \/ /\ unclosed' = unclosed \cup {c}
        /\ UNCHANGED runs
  /\ goto(c, "closed")
  /\ UNCHANGED <<up, slot, walk, raced, asked, crashes>>

(* Mutated: the slot is freed on the way out of try, not in finally. *)
ReleaseUnlessFailed(c) ==
  /\ pc[c] = "closed"
  /\ activeRun' = IF outcome[c] = "failed" THEN activeRun ELSE NoRun
  /\ stopRequested' = FALSE
  /\ goto(c, "ended")
  /\ UNCHANGED <<up, runs, walk, history>>

(* The end of finally: whoever's the slot is, it is freed. *)
Release(c) ==
  /\ pc[c] = "closed"
  /\ activeRun' = NoRun
  /\ stopRequested' = FALSE
  /\ goto(c, "ended")
  /\ UNCHANGED <<up, runs, walk, history>>

(* requestStop with a run active; without one it answers false. *)
RequestStop ==
  /\ up /\ activeRun # NoRun
  /\ stopRequested' = TRUE
  /\ asked' = asked \cup {activeRun}
  /\ UNCHANGED <<up, activeRun, runs, pc, walk, raced, unclosed, crashes>>

(* The process dies with its memory; the rows stay. *)
Crash ==
  /\ up /\ crashes < MaxCrashes
  /\ up' = FALSE
  /\ activeRun' = NoRun
  /\ stopRequested' = FALSE
  /\ pc' = [c \in Calls |-> IF pc[c] \in Preparing \cup Walking THEN "dead" ELSE pc[c]]
  /\ crashes' = crashes + 1
  /\ UNCHANGED <<runs, walk, raced, asked, unclosed>>

(* Mutated: the server starts without recoverInterruptedRuns. *)
BootWithoutReaping ==
  /\ ~up
  /\ up' = TRUE
  /\ UNCHANGED <<slot, runs, pc, walk, history>>

(* prepareDatabase: every row still marked running is closed as failed before
   the port is bound. *)
Boot ==
  /\ ~up
  /\ up' = TRUE
  /\ runs' = [c \in Calls |-> IF runs[c] = "running" THEN "failed" ELSE runs[c]]
  /\ UNCHANGED <<slot, pc, walk, history>>

Progress(c) ==
  \/ OpenRow(c) \/ FailToOpen(c) \/ Claim(c) \/ Synced(c)
  \/ SeeStop(c) \/ StartSymbol(c) \/ EndSymbol(c) \/ EndWatchlist(c) \/ EndMessage(c)
  \/ StartReference(c) \/ EndReference(c) \/ EndUniverse(c) \/ FailToRecord(c)
  \/ CloseRow(c) \/ Release(c)

Next ==
  \/ \E c \in Calls : Trigger(c) \/ Progress(c)
  \/ RequestStop
  \/ Crash
  \/ Boot

Spec == Init /\ [][Next]_vars

(* Every await settles (the clients behind the steps carry timeouts), and a
   crashed container is restarted. *)
FairSpec == Spec /\ (\A c \in Calls : WF_vars(Progress(c))) /\ WF_vars(Boot)

-----------------------------------------------------------------------------
(* The shape of the scheduler's module state, the rows and the calls. *)
TypeOK ==
  /\ up \in BOOLEAN
  /\ activeRun \in Calls \cup {NoRun}
  /\ stopRequested \in BOOLEAN
  /\ runs \in [Calls -> Statuses \cup {"none"}]
  /\ pc \in [Calls -> {"idle"} \cup Preparing \cup Walking \cup Ended]
  /\ explicit \in [Calls -> BOOLEAN]
  /\ todo \in [Calls -> 0 .. WatchlistSize]
  /\ refs \in [Calls -> 0 .. ReferenceSize]
  /\ attention \in [Calls -> BOOLEAN]
  /\ outcome \in [Calls -> Statuses]
  /\ raced \in BOOLEAN
  /\ asked \subseteq Calls /\ unclosed \subseteq Calls
  /\ crashes \in 0 .. MaxCrashes

(* The header of scheduler.ts (lines 8-10): a second trigger is refused while a
   run is active, since two runs would do the same work twice. *)
OneRunAtATime == Cardinality(Walks) <= 1

(* What the guard does give: two runs walk at once only in a process where one
   call passed the guard while another stood between its guard and its claim. *)
OneRunUnlessRaced == raced \/ OneRunAtATime

(* The slot never points at a run that is over: a stale one would refuse every
   trigger until the next restart. *)
SlotNeverStale == activeRun # NoRun => activeRun \in Walks

(* A row closed by its own run tells what happened to it: ok and partial mean
   that everything planned was walked, partial that a watchlist step failed,
   stopped that somebody asked. *)
StatusTellsTheTruth ==
  \A c \in Calls :
    /\ runs[c] \in {"ok", "partial"} => todo[c] = 0 /\ refs[c] = 0
    /\ runs[c] = "ok" => ~attention[c]
    /\ runs[c] = "partial" => attention[c]
    /\ runs[c] = "stopped" /\ ~raced => c \in asked

(* The digest and the universe wait for the whole watchlist, and neither
   belongs to a hand-picked run (runPipeline, the comment on the message). *)
WatchlistFirst ==
  \A c \in Calls :
    /\ pc[c] = "message" => todo[c] = 0 /\ ~explicit[c]
    /\ pc[c] = "reference" => todo[c] = 0 /\ ~explicit[c]

(* In a booted process an open row is being walked, or its UPDATE was lost:
   what a crash left open is closed before the next trigger is taken. *)
OpenRowsAreWalked ==
  up => \A c \in Calls :
          runs[c] = "running" =>
            pc[c] \in (Walking \ {"closed"}) \cup {"opened"} \/ c \in unclosed

(* Together: slot, open rows and closed rows agree with what is walked. *)
RowsTellTheTruth == SlotNeverStale /\ StatusTellsTheTruth /\ OpenRowsAreWalked

(* An accepted stop is kept: the run asked to stop starts no further symbol,
   whatever else is triggered meanwhile, unless the slot was raced for. *)
StopIsKept ==
  [][\A c \in asked :
       ~raced => ~(pc[c] \in {"watchlist", "universe"}
                     /\ pc'[c] \in {"symbol", "reference"})]_vars

(* The slot is freed: by the run's end, however it ends, or by the restart. *)
SlotIsFreed == (activeRun # NoRun) ~> (activeRun = NoRun)

-----------------------------------------------------------------------------
(* The parts of the inductive invariant behind the safety properties above. *)

(* Before it closes, a call has no result, and its row is as old as it says. *)
EarlyPlaces == {"idle"} \cup Preparing \cup (Walking \ {"closing", "closed"})
ResultComesLast ==
  \A c \in Calls :
    /\ pc[c] \in EarlyPlaces => outcome[c] = "running"
    /\ pc[c] \in {"idle", "preparing"} => runs[c] = "none"
    /\ pc[c] \in EarlyPlaces \ {"idle", "preparing"} => runs[c] = "running"
    /\ pc[c] = "closing" => outcome[c] # "running"

(* The results of memory and row say the truth, each on its own. *)
Truthful(status, c) ==
  /\ status \in {"ok", "partial"} => todo[c] = 0 /\ refs[c] = 0
  /\ status = "ok" => ~attention[c]
  /\ status = "partial" => attention[c]
  /\ status = "stopped" /\ ~raced => c \in asked
BothTruthful == \A c \in Calls : Truthful(runs[c], c) /\ Truthful(outcome[c], c)

(* Nothing is walked by a process that is down. *)
DownIsIdle == ~up => \A c \in Calls : pc[c] \notin Preparing \cup Walking

(* Without a race one call at most is under way, and a walking one owns the slot. *)
OneUnderWay ==
  ~raced => \A c, d \in Calls :
    pc[c] \in Preparing \cup Walking /\ pc[d] \in Preparing \cup Walking => c = d
WalkerOwnsSlot == ~raced => \A c \in Walks : activeRun = c

(* The message and the universe come behind the watchlist of a full run. *)
BehindTheWatchlist ==
  \A c \in Calls :
    /\ pc[c] \in {"message", "universe", "reference"} => todo[c] = 0
    /\ pc[c] \in {"message", "reference"} => ~explicit[c]
    /\ explicit[c] => refs[c] = 0
    /\ pc[c] \in {"idle", "preparing"} => refs[c] = 0 /\ ~explicit[c]

(* The flag and the history of stops agree. *)
StopsAreRemembered ==
  /\ stopRequested => activeRun \in asked
  /\ \A c \in asked :
       /\ pc[c] \notin {"idle"} \cup Preparing
       /\ ~raced /\ pc[c] \in Walking => stopRequested

IInv ==
  /\ TypeOK
  /\ SlotNeverStale
  /\ DownIsIdle
  /\ OneUnderWay
  /\ WalkerOwnsSlot
  /\ ResultComesLast
  /\ BothTruthful
  /\ BehindTheWatchlist
  /\ StopsAreRemembered
  /\ OpenRowsAreWalked

=============================================================================
