----------------------------- MODULE DepotCheck ------------------------------
(***************************************************************************)
(* The depot check of the server (src/src/depot-check-service.ts): one run *)
(* at a time behind a flag, its progress and its result in app_state, each *)
(* result kept in depot_checks, and the reconcile at boot that sees to     *)
(* what a dead process left behind.                                        *)
(*                                                                         *)
(* A result is the check it belongs to (generatedAt) and its version: the  *)
(* manager asked again makes a new version of the same check.              *)
(***************************************************************************)
EXTENDS Integers

CONSTANTS MaxRuns,     \* bound: runs ever started
          MaxFaults    \* bound: statements that fail and processes that die

VARIABLES status,      \* the state in app_state
          result,      \* the result in app_state; check 0 is none
          kept,        \* depot_checks: the version kept of each check, 0 for none
          run,         \* the run behind the flag
          pending,     \* progress writes under way; their order is not kept
          reconcile,   \* reconcileDepotCheck, and what it has read
          runs,        \* runs started so far
          due,         \* history: nobody kept the last result: its save failed, or a boot could not read it
          unsettled,   \* history: the last word of a run was lost, or a boot could not read it
          faults

vars == <<status, result, kept, run, pending, reconcile, runs, due, unsettled, faults>>

NoResult == [check |-> 0, version |-> 0]

Init == /\ status = "none"
        /\ result = NoResult
        /\ kept = [c \in 1 .. MaxRuns |-> 0]
        /\ run = [pc |-> "idle", mine |-> NoResult]
        /\ pending = 0
        /\ reconcile = [pc |-> "idle", read |-> NoResult]
        /\ runs = 0
        /\ due = FALSE
        /\ unsettled = FALSE
        /\ faults = 0

running == run.pc # "idle"
goto(pc) == run' = [run EXCEPT !.pc = pc]
Fault == faults < MaxFaults /\ faults' = faults + 1

\* saveDepotCheck: the same check again replaces the kept one.
Keep(r) == kept' = [kept EXCEPT ![r.check] = r.version]

-----------------------------------------------------------------------------
(* startRun, and the two kinds of runs. *)

\* A new check, or the manager asked again on the last one; the first status is written.
Start(kind) ==
    /\ ~running
    /\ runs < MaxRuns
    /\ kind = "manager" => result # NoResult
    /\ runs' = runs + 1
    /\ run' = [pc |-> "starting",
               mine |-> [check |-> IF kind = "check" THEN runs + 1 ELSE result.check, version |-> runs + 1]]
    /\ unsettled' = FALSE
    /\ UNCHANGED <<status, result, kept, pending, reconcile, due, faults>>

\* The awaited first save; one that fails is logged.
StatusRunning ==
    /\ run.pc = "starting"
    /\ goto("working")
    /\ \/ status' = "running" /\ UNCHANGED faults
       \/ Fault /\ UNCHANGED status
    /\ UNCHANGED <<result, kept, pending, reconcile, runs, due, unsettled>>

\* One of the workers notes its progress.
Note ==
    /\ run.pc = "working"
    /\ pending < 2
    /\ pending' = pending + 1
    /\ UNCHANGED <<status, result, kept, run, reconcile, runs, due, unsettled, faults>>

\* It lands, saying running; each worker awaits its own.
Land ==
    /\ pending > 0
    /\ pending' = pending - 1
    /\ status' = "running"
    /\ UNCHANGED <<result, kept, run, reconcile, runs, due, unsettled, faults>>

LoseNote ==
    /\ pending > 0
    /\ Fault
    /\ pending' = pending - 1
    /\ UNCHANGED <<status, result, kept, run, reconcile, runs, due, unsettled>>

\* The result is written when all work is done.  A run is minutes of model
\* calls: the two statements of the reconcile are through by then.
WriteResult ==
    /\ run.pc = "working"
    /\ pending = 0
    /\ reconcile.pc = "idle"
    /\ result' = run.mine
    /\ goto("keep")
    /\ UNCHANGED <<status, kept, pending, reconcile, runs, due, unsettled, faults>>

\* The work or the write of the result fails.
RunFails ==
    /\ run.pc = "working"
    /\ pending = 0
    /\ reconcile.pc = "idle"
    /\ Fault
    /\ goto("failing")
    /\ UNCHANGED <<status, result, kept, pending, reconcile, runs, due, unsettled>>

KeepResult ==
    /\ run.pc = "keep"
    /\ Keep(run.mine)
    /\ due' = FALSE
    /\ goto("ending")
    /\ UNCHANGED <<status, result, pending, reconcile, runs, unsettled, faults>>

KeepFails ==
    /\ run.pc = "keep"
    /\ Fault
    /\ due' = TRUE
    /\ goto("failing")
    /\ UNCHANGED <<status, result, kept, pending, reconcile, runs, unsettled>>

\* The last save, and then the flag; a save that fails is logged.
End ==
    /\ run.pc \in {"ending", "failing"}
    /\ run' = [pc |-> "idle", mine |-> NoResult]
    /\ \/ status' = (IF run.pc = "ending" THEN "done" ELSE "failed") /\ UNCHANGED <<unsettled, faults>>
       \/ Fault /\ unsettled' = TRUE /\ UNCHANGED status
    /\ UNCHANGED <<result, kept, pending, reconcile, runs, due>>

-----------------------------------------------------------------------------
(* Death and boot. *)

\* The process dies and a new one boots: what was issued has landed or is lost.
Boot ==
    /\ Fault
    /\ status' \in {status} \union (IF pending > 0 THEN {"running"} ELSE {})
    /\ run' = [pc |-> "idle", mine |-> NoResult]
    /\ pending' = 0
    /\ reconcile' = [pc |-> "result", read |-> NoResult]
    /\ unsettled' = FALSE
    /\ UNCHANGED <<result, kept, runs, due>>

\* Mutated: the reconcile leaves the result alone.
ReadNoResult ==
    /\ reconcile.pc = "result"
    /\ reconcile' = [reconcile EXCEPT !.pc = "status"]
    /\ UNCHANGED <<status, result, kept, run, pending, runs, due, unsettled, faults>>

\* A server that is up takes requests beside its reconcile.  A read that fails
\* is answered with null: the reconcile goes on as if there were no result.
ReadResult ==
    /\ reconcile.pc = "result"
    /\ \/ /\ reconcile' = [pc |-> IF result = NoResult THEN "status" ELSE "save", read |-> result]
          /\ UNCHANGED <<due, faults>>
       \/ /\ Fault
          /\ reconcile' = [pc |-> "status", read |-> NoResult]
          /\ due' = TRUE
    /\ UNCHANGED <<status, result, kept, run, pending, runs, unsettled>>

SaveResult ==
    /\ reconcile.pc = "save"
    /\ reconcile' = [reconcile EXCEPT !.pc = "status"]
    /\ \/ Keep(reconcile.read) /\ due' = FALSE /\ UNCHANGED faults
       \/ Fault /\ due' = TRUE /\ UNCHANGED kept
    /\ UNCHANGED <<status, result, run, pending, runs, unsettled>>

\* The status, and behind its answer the flag.  Null again when the read fails:
\* the reconcile is over, and a status left on running stays.
ReadStatus ==
    /\ reconcile.pc = "status"
    /\ \/ /\ reconcile' = [pc |-> IF status = "running" /\ ~running THEN "interrupt" ELSE "idle", read |-> NoResult]
          /\ UNCHANGED <<unsettled, faults>>
       \/ /\ Fault
          /\ reconcile' = [pc |-> "idle", read |-> NoResult]
          /\ unsettled' = ~running
    /\ UNCHANGED <<status, result, kept, run, pending, runs, due>>

Interrupt ==
    /\ reconcile.pc = "interrupt"
    /\ reconcile' = [reconcile EXCEPT !.pc = "idle"]
    /\ \/ status' = "interrupted" /\ UNCHANGED <<unsettled, faults>>
       \/ Fault /\ unsettled' = ~running /\ UNCHANGED status
    /\ UNCHANGED <<result, kept, run, pending, runs, due>>

RunStep == StatusRunning \/ Land \/ WriteResult \/ KeepResult \/ End
BootStep == ReadResult \/ SaveResult \/ ReadStatus \/ Interrupt

Next == \/ \E kind \in {"check", "manager"} : Start(kind)
        \/ RunStep \/ Note \/ LoseNote \/ RunFails \/ KeepFails
        \/ Boot \/ BootStep

Spec == Init /\ [][Next]_vars

-----------------------------------------------------------------------------
(* Properties *)

\* The result the page shows is kept in depot_checks, in its latest version, as
\* soon as nothing is under way: a death between the two writes is made up for
\* at the next boot.  Only a save that failed, or a boot that could not read what
\* to keep, leaves a gap.
ResultIsKept ==
    (~running /\ reconcile.pc = "idle" /\ ~due /\ result # NoResult) =>
        kept[result.check] = result.version

\* A status says running only while a run or the reconcile is at work, unless
\* the last word of a run was lost or a boot could not read the status: no late
\* progress revives one that is over, and what a dead process left is closed.
RunningMeansAtWork ==
    (status = "running" \/ pending > 0) => (running \/ reconcile.pc # "idle" \/ unsettled)

\* Together: what the status and the result say is so, and stays.
CheckTellsTheTruth == ResultIsKept /\ RunningMeansAtWork

\* "A run this process did not finish is marked interrupted at the next boot":
\* where the reconcile is over and nothing runs, nothing is left on running.
\* Violated: a status it cannot read, or cannot write, stays.
DeadRunIsInterrupted ==
    [][(reconcile.pc # "idle" /\ reconcile'.pc = "idle" /\ ~running) => status' # "running"]_vars

=============================================================================
