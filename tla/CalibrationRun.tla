--------------------------- MODULE CalibrationRun ----------------------------
(***************************************************************************)
(* The calibration of a deployment (src/src/calibration-service.ts): the   *)
(* server spawns the script of src/src/db/calibrate.ts as a child process, *)
(* hears of its exit, and judges a status that says running by whether it  *)
(* has a child.  Unlike the backtest there is no lock: a child that        *)
(* outlives its server is unknown to the next one.                         *)
(***************************************************************************)
EXTENDS Integers

CONSTANTS MaxRuns,     \* bound: runs ever started
          MaxFaults    \* bound: runs killed, statements that fail, restarts

VARIABLES child,       \* the run whose exit the server will hear of, 0 for none
          runs,        \* runs started so far
          phase,       \* where the process of each run stands
          status,      \* calibration status in app_state, and the run it is of
          proposal,    \* the run the stored proposal is of
          exits,       \* runs whose exit the server has heard of and is writing down
          look,        \* calibrationOverview, and the status it has read
          reported,    \* history: the runs that have said done
          mishaps,     \* history: what has gone wrong so far
          faults

vars == <<child, runs, phase, status, proposal, exits, look, reported, mishaps, faults>>

Runs == 1 .. MaxRuns
Working == {r \in Runs : phase[r] \in {"spawned", "working", "proposed", "done", "failing"}}
Fault == faults < MaxFaults /\ faults' = faults + 1
NoLook == [pc |-> "idle", of |-> 0]

Init == /\ child = 0
        /\ runs = 0
        /\ phase = [r \in Runs |-> "none"]
        /\ status = [state |-> "none", of |-> 0]
        /\ proposal = 0
        /\ exits = {}
        /\ look = NoLook
        /\ reported = {}
        /\ mishaps = {}
        /\ faults = 0

goto(r, p) == phase' = [phase EXCEPT ![r] = p]

-----------------------------------------------------------------------------
(* The server. *)

startCalibration ==
    /\ child = 0
    /\ runs < MaxRuns
    /\ runs' = runs + 1
    /\ child' = runs'
    /\ goto(runs', "spawned")
    /\ mishaps' = IF Working # {} THEN mishaps \union {"beside"} ELSE mishaps
    /\ UNCHANGED <<status, proposal, exits, look, reported, faults>>

\* The exit event: a code other than 0 is written down as a failure.
HearExit ==
    /\ child # 0
    /\ phase[child] \in {"exited", "broken"}
    /\ exits' = IF phase[child] = "broken" THEN exits \union {child} ELSE exits
    /\ child' = 0
    /\ UNCHANGED <<runs, phase, status, proposal, look, reported, mishaps, faults>>

\* That write, which nobody awaits, lands or fails.
MarkFailed(r) ==
    /\ r \in exits
    /\ exits' = exits \ {r}
    /\ \/ status' = [state |-> "failed", of |-> r] /\ UNCHANGED faults
       \/ Fault /\ UNCHANGED status
    /\ UNCHANGED <<child, runs, phase, proposal, look, reported, mishaps>>

\* calibrationOverview: the status, and behind its answer the child.
ReadStatus ==
    /\ look.pc = "idle"
    /\ status.state = "running"
    /\ look' = [pc |-> "judge", of |-> status.of]
    /\ UNCHANGED <<child, runs, phase, status, proposal, exits, reported, mishaps, faults>>

\* Mutated: the child is not asked for.
JudgeAlone ==
    /\ look.pc = "judge"
    /\ look' = [look EXCEPT !.pc = "write"]
    /\ UNCHANGED <<child, runs, phase, status, proposal, exits, reported, mishaps, faults>>

Judge ==
    /\ look.pc = "judge"
    /\ look' = IF child = 0 THEN [look EXCEPT !.pc = "write"] ELSE NoLook
    /\ UNCHANGED <<child, runs, phase, status, proposal, exits, reported, mishaps, faults>>

\* What was read goes back as interrupted, whatever the status says by now; a
\* write that fails fails the look.
Interrupt ==
    /\ look.pc = "write"
    /\ look' = NoLook
    /\ \/ /\ status' = [state |-> "interrupted", of |-> look.of]
          /\ mishaps' = IF status # [state |-> "running", of |-> look.of]
                        THEN mishaps \union {"stale"} ELSE mishaps
          /\ UNCHANGED faults
       \/ Fault /\ UNCHANGED <<status, mishaps>>
    /\ UNCHANGED <<child, runs, phase, proposal, exits, reported>>

\* A restart of the server forgets the child, which may go on or go with it.
Restart ==
    /\ Fault
    /\ child' = 0
    /\ exits' = {}
    /\ look' = NoLook
    /\ \/ UNCHANGED phase
       \/ phase' = [r \in Runs |-> IF r \in Working THEN "broken" ELSE phase[r]]
    /\ UNCHANGED <<runs, status, proposal, reported, mishaps>>

-----------------------------------------------------------------------------
(* The child. *)

SayRunning(r) ==
    /\ phase[r] = "spawned"
    /\ status' = [state |-> "running", of |-> r]
    /\ goto(r, "working")
    /\ UNCHANGED <<child, runs, proposal, exits, look, reported, mishaps, faults>>

\* The proposal first, and the word that it is there behind it.
Propose(r) ==
    /\ phase[r] = "working"
    /\ proposal' = r
    /\ goto(r, "proposed")
    /\ UNCHANGED <<child, runs, status, exits, look, reported, mishaps, faults>>

SayDone(r) ==
    /\ phase[r] = "proposed"
    /\ status' = [state |-> "done", of |-> r]
    /\ reported' = reported \union {r}
    /\ goto(r, "done")
    /\ UNCHANGED <<child, runs, proposal, exits, look, mishaps, faults>>

\* Behind its word it logs, closes its pool and exits with 0.
Exit(r) ==
    /\ phase[r] = "done"
    /\ goto(r, "exited")
    /\ UNCHANGED <<child, runs, status, proposal, exits, look, reported, mishaps, faults>>

\* The work, a statement or the closing of the pool fails.
Break(r) ==
    /\ phase[r] \in {"spawned", "working", "proposed", "done"}
    /\ Fault
    /\ goto(r, "failing")
    /\ UNCHANGED <<child, runs, status, proposal, exits, look, reported, mishaps>>

\* It says so itself, a write that may fail as well, and exits with 1.
SayFailed(r) ==
    /\ phase[r] = "failing"
    /\ \/ status' = [state |-> "failed", of |-> r] /\ UNCHANGED faults
       \/ Fault /\ UNCHANGED status
    /\ goto(r, "broken")
    /\ UNCHANGED <<child, runs, proposal, exits, look, reported, mishaps>>

Killed(r) ==
    /\ r \in Working
    /\ Fault
    /\ goto(r, "broken")
    /\ UNCHANGED <<child, runs, status, proposal, exits, look, reported, mishaps>>

RunStep(r) == SayRunning(r) \/ Propose(r) \/ SayDone(r) \/ Exit(r) \/ SayFailed(r)
Look == ReadStatus \/ Judge \/ Interrupt

Next == \/ startCalibration
        \/ HearExit
        \/ Look
        \/ Restart
        \/ \E r \in Runs : MarkFailed(r) \/ RunStep(r) \/ Break(r) \/ Killed(r)

Spec == Init /\ [][Next]_vars

-----------------------------------------------------------------------------
(* Properties *)

\* "Start a calibration unless one is going": two work at once only where one
\* has outlived the server that would have heard of its end.  And a run the
\* server has is not called interrupted.  When all is over and written down, the
\* status is the outcome of the run it is of: it says done only where the run
\* said so, with its proposal stored, and of a run that said so it says nothing
\* else unless that run died, or failed to close its pool, behind its word.  A
\* look that writes back what it read too late is what breaks the last, and a
\* run beside another.
OutcomeStands ==
    /\ \A r, s \in Working : r # s => "beside" \in mishaps
    /\ status.state = "interrupted" => status.of # child
    /\ (mishaps = {} /\ Working = {} /\ exits = {} /\ look.pc # "write" /\ status.of # 0) =>
        /\ status.state = "done" => status.of \in reported /\ proposal = status.of
        /\ status.of \in reported =>
            status.state = "done" \/ (status.state = "failed" /\ phase[status.of] = "broken")

\* The exit listener speaks for a child that was "killed, or crashed before it
\* could say so".  Violated: it writes over the done of a child that died behind
\* its word, and over the error of one that has told it.
ExitSpeaksForTheSilent ==
    status.of \in exits => status.state \notin {"done", "failed"}

=============================================================================
