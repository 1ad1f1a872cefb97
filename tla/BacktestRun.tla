---------------------------- MODULE BacktestRun ----------------------------
(***************************************************************************)
(* The backtest as the server runs it: src/src/backtest-service.ts, the    *)
(* advisory lock of src/src/backtest/lock.ts and the main program of       *)
(* src/src/backtest/run.ts.                                                *)
(*                                                                         *)
(* A run is a process of its own, spawned by the server or started from a  *)
(* terminal.  Runs and server share two things in Postgres: the advisory   *)
(* lock, which ends with the process that holds it, and the status in      *)
(* app_state, which everybody writes whole.  The server asks whether a run *)
(* is going by taking the lock itself and giving it back, and acts on what *)
(* it read before.  An action is the code between two awaits, or one       *)
(* statement in Postgres.                                                  *)
(*                                                                         *)
(* What a run reads of a company is PointInTime, and moves on its own: it  *)
(* is no part of Spec.                                                     *)
(***************************************************************************)
EXTENDS Integers, FiniteSets

CONSTANTS
  Clicks,      \* how often startBacktest is called, by button or cron
  Terminals,   \* runs started from a terminal
  Looks,       \* requests that reconcile the status, again and again
  Null,
  MaxRuns,     \* bound: processes started, by the server and from terminals
  MaxFaults,   \* bound: kills, restarts of the server, statements that fail
  MaxNotes     \* bound: progress notes of a run under way at once

(* Starts are numbered as they come; the process a start spawns has its    *)
(* number.  Who may ask whether a run is going: starts and looks.          *)
Starts == 1 .. Clicks
Runs   == Starts \cup Terminals
Askers == Starts \cup Looks

(* The lock as a run holds it, as somebody who asks does, as a connection  *)
(* does that broke and Postgres has not noticed, and not held.             *)
Run(r)    == <<"run", r>>
Asking(a) == <<"asking", a>>
Broken    == <<"broken">>
Unlocked  == <<>>

ASSUME NamesAssumption ==
  /\ Clicks \in Nat
  /\ Starts \cap Terminals = {} /\ Starts \cap Looks = {} /\ Null \notin Runs \cup Askers
ASSUME BoundsAssumption ==
  MaxRuns \in Nat /\ MaxFaults \in Nat /\ MaxNotes \in Nat

VARIABLES
  lock,        \* who holds the advisory lock: a run, or who asks for one
  status,      \* backtest.status: its state, and the run whose startedAt it has
  child,       \* the server's child
  ask,         \* where each startBacktest and each reconcileBacktestStatus is
  exit,        \* where the server's exit listener of each start is
  older,       \* per start: the runs that had begun when it spawned its own
  seen,        \* per asker: the run of the status that was read
  run,         \* where each run is
  code,        \* how each run ends
  began,       \* the runs that have set their startedAt
  notes,       \* per run: progress notes on their way to Postgres
  faults

server == <<child, ask, exit, older, seen>>
runs   == <<run, code, began, notes>>
vars   == <<lock, status, server, runs, faults>>

Alive(r)   == run[r] \notin {"none", "exited"}
Working(r) == run[r] \in {"locked", "working"}

Init ==
  /\ lock = Unlocked
  /\ status = [state |-> "none", run |-> Null]
  /\ child = Null
  /\ ask = [a \in Askers |-> "idle"]
  /\ exit = [s \in Starts |-> "none"]
  /\ older = [s \in Starts |-> {}]
  /\ seen = [a \in Askers |-> Null]
  /\ run = [r \in Runs |-> "none"]
  /\ code = [r \in Runs |-> "none"]
  /\ notes = [r \in Runs |-> 0]
  /\ began = {}
  /\ faults = 0

Fault == faults < MaxFaults /\ faults' = faults + 1

(* writeBacktestStatus: wherever it is called, a failure is swallowed.     *)
Write(s) ==
  \/ status' = s /\ UNCHANGED faults
  \/ Fault /\ UNCHANGED status

(* A process more. *)
Room == Cardinality({r \in Runs : run[r] # "none"}) < MaxRuns

goto(a, place) == ask' = [ask EXCEPT ![a] = place]

(* The call returns: a start is refused, a look may be repeated. *)
Leave(a) ==
  /\ goto(a, IF a \in Starts THEN "refused" ELSE "idle")
  /\ seen' = [seen EXCEPT ![a] = Null]

-----------------------------------------------------------------------------
(* backtestRunning(): take the lock, give it back. *)

(* Mutated: it says that nothing is running. *)
ProbeNothing(a) ==
  /\ ask[a] = "probing"
  /\ IF lock = Unlocked THEN lock' = Asking(a) /\ goto(a, "unlocking")
                    ELSE UNCHANGED lock /\ goto(a, "free")
  /\ UNCHANGED <<status, child, exit, older, seen, runs, faults>>

(* pg_try_advisory_lock: somebody who has it is taken for a run; a failed  *)
(* statement fails the call, whether or not it took the lock.              *)
Probe(a) ==
  /\ ask[a] = "probing"
  /\ \/ lock = Unlocked /\ lock' = Asking(a) /\ goto(a, "unlocking") /\ UNCHANGED <<seen, faults>>
     \/ lock # Unlocked /\ Leave(a) /\ UNCHANGED <<lock, faults>>
     \/ Fault /\ Leave(a) /\ lock' \in {lock, IF lock = Unlocked THEN Broken ELSE lock}
  /\ UNCHANGED <<status, child, exit, older, runs>>

(* pg_advisory_unlock; the caller resumes in a later callback. *)
Unlock(a) ==
  /\ ask[a] = "unlocking"
  /\ lock' = Unlocked
  /\ goto(a, "free")
  /\ UNCHANGED <<status, child, exit, older, seen, runs, faults>>

UnlockFails(a) ==
  /\ ask[a] = "unlocking" /\ Fault
  /\ lock' \in {Unlocked, Broken}
  /\ Leave(a)
  /\ UNCHANGED <<status, child, exit, older, runs>>

Notice ==
  /\ lock = Broken
  /\ lock' = Unlocked
  /\ UNCHANGED <<status, server, runs, faults>>

-----------------------------------------------------------------------------
(* startBacktest, from the button or the monthly cron. *)

Ask(s) ==
  /\ ask[s] = "idle" /\ \A t \in Starts : t < s => ask[t] # "idle"
  /\ IF child = Null THEN goto(s, "probing") /\ UNCHANGED seen ELSE Leave(s)
  /\ UNCHANGED <<lock, status, child, exit, older, runs, faults>>

(* Nobody asks again whether there is a child by now. *)
Spawn(s) ==
  /\ s \in Starts /\ ask[s] = "free" /\ Room
  /\ goto(s, "spawned")
  /\ child' = s
  /\ exit' = [exit EXCEPT ![s] = "listening"]
  /\ older' = [older EXCEPT ![s] = began]
  /\ run' = [run EXCEPT ![s] = "booting"]
  /\ UNCHANGED <<lock, status, seen, code, began, notes, faults>>

(* The directory or the log cannot be opened: the request fails. *)
SpawnFails(s) ==
  /\ s \in Starts /\ ask[s] = "free"
  /\ Leave(s)
  /\ UNCHANGED <<lock, status, child, exit, older, runs, faults>>

(* Mutated: a run that found the lock taken leaves the child where it is. *)
HandleExitUnlessBusy(s) ==
  /\ exit[s] = "listening" /\ run[s] = "exited"
  /\ child' = IF code[s] = "busy" THEN child ELSE Null
  /\ exit' = [exit EXCEPT ![s] = IF code[s] \in {"ok", "busy"} THEN "done" ELSE "reading"]
  /\ UNCHANGED <<lock, status, ask, older, seen, runs, faults>>

(* child.on('exit'): there is no child any more, whichever it was. *)
HandleExit(s) ==
  /\ exit[s] = "listening" /\ run[s] = "exited"
  /\ child' = Null
  /\ exit' = [exit EXCEPT ![s] = IF code[s] \in {"ok", "busy"} THEN "done" ELSE "reading"]
  /\ UNCHANGED <<lock, status, ask, older, seen, runs, faults>>

(* A status that still says running, of a run that began after the spawn;  *)
(* one that cannot be read counts as none.                                 *)
ReadAfterExit(s) ==
  /\ exit[s] = "reading"
  /\ \/ /\ status.state = "running" /\ status.run \notin older[s]
        /\ exit' = [exit EXCEPT ![s] = "marking"]
        /\ seen' = [seen EXCEPT ![s] = status.run]
        /\ UNCHANGED faults
     \/ /\ status.state # "running" \/ status.run \in older[s]
        /\ exit' = [exit EXCEPT ![s] = "done"]
        /\ UNCHANGED <<seen, faults>>
     \/ Fault /\ exit' = [exit EXCEPT ![s] = "done"] /\ UNCHANGED seen
  /\ UNCHANGED <<lock, status, child, ask, older, runs>>

MarkFailed(s) ==
  /\ exit[s] = "marking"
  /\ exit' = [exit EXCEPT ![s] = "done"]
  /\ Write([state |-> "failed", run |-> seen[s]])
  /\ seen' = [seen EXCEPT ![s] = Null]
  /\ UNCHANGED <<lock, child, ask, older, runs>>

-----------------------------------------------------------------------------
(* reconcileBacktestStatus, at boot and with every look at the page. *)

Read(k) ==
  /\ k \in Looks /\ ask[k] = "idle"
  /\ status.state = "running"
  /\ seen' = [seen EXCEPT ![k] = status.run]
  /\ goto(k, "read")
  /\ UNCHANGED <<lock, status, child, exit, older, runs, faults>>

Judge(k) ==
  /\ ask[k] = "read"
  /\ IF child = Null THEN goto(k, "probing") /\ UNCHANGED seen ELSE Leave(k)
  /\ UNCHANGED <<lock, status, child, exit, older, runs, faults>>

(* The status is written whole, from what was read. *)
Interrupt(k) ==
  /\ k \in Looks /\ ask[k] = "free"
  /\ Write([state |-> "interrupted", run |-> seen[k]])
  /\ Leave(k)
  /\ UNCHANGED <<lock, child, exit, older, runs>>

(* The server ends and boots again: what it awaited and listened for is    *)
(* gone, and Postgres frees what it held; the runs are processes of their  *)
(* own.                                                                    *)
Restart ==
  /\ Fault
  /\ lock' = IF lock \in {Asking(a) : a \in Askers} THEN Unlocked ELSE lock
  /\ child' = Null
  /\ ask' = [a \in Askers |-> IF a \in Looks THEN "idle"
                              ELSE IF ask[a] = "idle" THEN "idle" ELSE "refused"]
  /\ exit' = [s \in Starts |-> IF exit[s] = "none" THEN "none" ELSE "done"]
  /\ seen' = [a \in Askers |-> Null]
  /\ UNCHANGED <<status, older, runs>>

-----------------------------------------------------------------------------
(* The run. *)

Report(r, state) == Write([state |-> state, run |-> r])

Launch(r) ==
  /\ r \in Terminals /\ run[r] = "none" /\ Room
  /\ run' = [run EXCEPT ![r] = "booting"]
  /\ UNCHANGED <<lock, status, server, code, began, notes, faults>>

(* Mutated: the answer to the lock is not looked at. *)
TakeLockAnyway(r) ==
  /\ run[r] = "booting"
  /\ lock' = Run(r)
  /\ run' = [run EXCEPT ![r] = "locked"]
  /\ UNCHANGED <<status, server, code, began, notes, faults>>

(* The lock, or exit 2. *)
TakeLock(r) ==
  /\ run[r] = "booting"
  /\ IF lock = Unlocked
     THEN lock' = Run(r) /\ run' = [run EXCEPT ![r] = "locked"] /\ UNCHANGED code
     ELSE /\ run' = [run EXCEPT ![r] = "exited"]
          /\ code' = [code EXCEPT ![r] = "busy"]
          /\ UNCHANGED lock
  /\ UNCHANGED <<status, server, began, notes, faults>>

(* It fails before it has a status to report. *)
FailEarly(r) ==
  /\ run[r] = "booting"
  /\ run' = [run EXCEPT ![r] = "exited"]
  /\ code' = [code EXCEPT ![r] = "error"]
  /\ UNCHANGED <<lock, status, server, began, notes, faults>>

Begin(r) ==
  /\ run[r] = "locked"
  /\ run' = [run EXCEPT ![r] = "working"]
  /\ began' = began \cup {r}
  /\ Report(r, "running")
  /\ UNCHANGED <<lock, server, code, notes>>

(* onProgress: the note is sent, and not waited for. *)
Note(r) ==
  /\ run[r] = "working" /\ notes[r] < MaxNotes
  /\ notes' = [notes EXCEPT ![r] = @ + 1]
  /\ UNCHANGED <<lock, status, server, run, code, began, faults>>

(* A note reaches Postgres, on a connection of its own. *)
Land(r) ==
  /\ notes[r] > 0
  /\ notes' = [notes EXCEPT ![r] = @ - 1]
  /\ Report(r, "running")
  /\ UNCHANGED <<lock, server, run, code, began>>

(* Done or failed, and so reported; the lock is still held. *)
End(r) ==
  /\ run[r] = "working"
  /\ run' = [run EXCEPT ![r] = "reported"]
  /\ \E c \in {"ok", "error"} :
       /\ code' = [code EXCEPT ![r] = c]
       /\ Report(r, IF c = "ok" THEN "done" ELSE "failed")
  /\ UNCHANGED <<lock, server, began, notes>>

Release(r) ==
  /\ run[r] = "reported"
  /\ lock' = Unlocked
  /\ run' = [run EXCEPT ![r] = "released"]
  /\ UNCHANGED <<status, server, code, began, notes, faults>>

(* The unlock fails: after a good run the catch has yet to say so, after a *)
(* failed one it goes on to the exit; the connection is of no more use.    *)
ReleaseFails(r) ==
  /\ run[r] = "reported" /\ Fault
  /\ run' = [run EXCEPT ![r] = IF code[r] = "ok" THEN "sorry" ELSE "released"]
  /\ code' = [code EXCEPT ![r] = "error"]
  /\ lock' \in {lock, Unlocked}
  /\ UNCHANGED <<status, server, began, notes>>

Regret(r) ==
  /\ run[r] = "sorry"
  /\ run' = [run EXCEPT ![r] = "released"]
  /\ Report(r, "failed")
  /\ UNCHANGED <<lock, server, code, began, notes>>

(* closePool() waits for the notes under way; a lock kept ends here. *)
Exit(r) ==
  /\ run[r] = "released" /\ notes[r] = 0
  /\ run' = [run EXCEPT ![r] = "exited"]
  /\ lock' = IF lock = Run(r) THEN Unlocked ELSE lock
  /\ UNCHANGED <<status, server, code, began, notes, faults>>

(* Out of memory, a signal, a deploy: the notes under way may land yet. *)
Kill(r) ==
  /\ Alive(r) /\ Fault
  /\ run' = [run EXCEPT ![r] = "exited"]
  /\ code' = [code EXCEPT ![r] = "killed"]
  /\ lock' = IF lock = Run(r) THEN Unlocked ELSE lock
  /\ \E n \in 0 .. notes[r] : notes' = [notes EXCEPT ![r] = n]
  /\ UNCHANGED <<status, server, began>>

-----------------------------------------------------------------------------

AskStep(a) == Probe(a) \/ Unlock(a) \/ UnlockFails(a)
StartStep(s) == Spawn(s) \/ SpawnFails(s) \/ HandleExit(s) \/ ReadAfterExit(s) \/ MarkFailed(s)
LookStep(k) == Read(k) \/ Judge(k) \/ Interrupt(k)
RunStep(r) ==
  \/ TakeLock(r) \/ FailEarly(r) \/ Begin(r) \/ End(r)
  \/ Release(r) \/ ReleaseFails(r) \/ Regret(r) \/ Exit(r)

Next ==
  \/ \E a \in Askers : AskStep(a)
  \/ \E s \in Starts : Ask(s) \/ StartStep(s)
  \/ \E k \in Looks : LookStep(k)
  \/ \E r \in Runs : Launch(r) \/ Note(r) \/ RunStep(r) \/ Land(r) \/ Kill(r)
  \/ Restart
  \/ Notice

Spec == Init /\ [][Next]_vars

(* Callbacks run, statements reach Postgres, a run that works comes to an  *)
(* end, Postgres notices a broken connection, and somebody looks at the    *)
(* page again.                                                             *)
Fairness ==
  /\ \A a \in Askers : WF_vars(AskStep(a))
  /\ \A s \in Starts : WF_vars(StartStep(s))
  /\ \A k \in Looks : WF_vars(LookStep(k))
  /\ \A r \in Runs : WF_vars(RunStep(r)) /\ WF_vars(Land(r))
  /\ WF_vars(Notice)

FairSpec == Spec /\ Fairness

-----------------------------------------------------------------------------

Places == {"idle", "read", "probing", "unlocking", "free", "refused", "spawned"}

RunPlaces ==
  {"none", "booting", "locked", "working", "reported", "sorry", "released", "exited"}

Statuses == [state : {"none"}, run : {Null}]
       \cup [state : {"running", "done", "failed", "interrupted"}, run : Runs]

TypeOK ==
  /\ lock \in {Unlocked, Broken} \cup {Run(r) : r \in Runs} \cup {Asking(a) : a \in Askers}
  /\ status \in Statuses
  /\ child \in Starts \cup {Null}
  /\ ask \in [Askers -> Places]
  /\ exit \in [Starts -> {"none", "listening", "reading", "marking", "done"}]
  /\ older \in [Starts -> SUBSET Runs]
  /\ seen \in [Askers -> Runs \cup {Null}]
  /\ run \in [Runs -> RunPlaces]
  /\ code \in [Runs -> {"none", "ok", "error", "busy", "killed"}]
  /\ notes \in [Runs -> 0 .. MaxNotes]
  /\ began \subseteq Runs
  /\ faults \in 0 .. MaxFaults
  /\ \A a \in Askers : lock = Asking(a) <=> (ask[a] = "unlocking")

(* "One backtest at a time, across every process" (lock.ts, line 2), with  *)
(* servers that take the same lock to ask, kills and restarts.             *)
OneRunWorks ==
  \A q, r \in Runs : Working(q) /\ Working(r) => q = r

(* child is set only while the exit of that process is still to be heard,  *)
(* so that it never refuses a start or stops a reconcile for good.         *)
ChildIsHeard == child # Null => exit[child] = "listening"

(* Nobody calls a run interrupted that goes on, however stale the status   *)
(* it read and whoever took the lock since.                                *)
InterruptedIsOver ==
  status.state = "interrupted" => ~Working(status.run)

(* A run at work is called failed only if a process spawned before it      *)
(* began has crashed: the exit of an earlier one leaves its status alone.  *)
FailedIsOver ==
  status.state = "failed" /\ Working(status.run) =>
    \E s \in Starts : code[s] \in {"error", "killed"} /\ status.run \notin older[s]

(* Together: no run at work is called dead for what another did.           *)
WorkIsNotCalledDead == InterruptedIsOver /\ FailedIsOver

(* "A status still running with no run holding the lock is a run that died *)
(* with its process" (backtest-service.ts, lines 79-80): what is called    *)
(* interrupted was running until then.  It does not hold: the status is    *)
(* read before the lock is asked, and written as it was read.              *)
InterruptsTheRunning ==
  [][status'.state = "interrupted" /\ status' # status =>
       status.state = "running" /\ status.run = status'.run]_vars

(* The status does not go on saying running after the last run: whether    *)
(* it was killed, could not write its end, or the server that would have   *)
(* heard of it was restarted, some look puts it right.                     *)
StatusSettles == <>[](status.state # "running")

-----------------------------------------------------------------------------
(* What a run knows of a company on a past day. *)

CONSTANTS FirstQuarter, LastQuarter, Sales, Correction, Ratio, MaxUpsets

(* The quarters are in their order, and what is sold in them, and a split, *)
(* are whole numbers.                                                      *)
WholeBooks ==
  /\ FirstQuarter \in Nat /\ LastQuarter \in Nat /\ FirstQuarter <= LastQuarter
  /\ Sales \in [(FirstQuarter - 7) .. LastQuarter -> Int] /\ Ratio \in Int
ASSUME BooksAssumption == WholeBooks

VARIABLES now, revenue, diluted, sold, tags, splits, due, upsets, restated

Facts == INSTANCE PointInTime

(* PointInTime: the figures of a past day are those that were known on it. *)
FiguresAreOfTheirDay == Facts!FiguresAreOfTheirDay

=============================================================================
