------------------------- MODULE BacktestRunProofs -------------------------
(***************************************************************************)
(* For any number of starts, runs, looks and faults: one backtest works at *)
(* a time, the server's child is one whose exit it will hear, and nobody   *)
(* calls a run interrupted that goes on, or failed that nothing crashed.   *)
(* Below, what the run reads: for any company, the figures of a past day   *)
(* are those that were known on it.                                        *)
(***************************************************************************)
EXTENDS BacktestRun, FiniteSetTheorems, WellFoundedInduction, TLAPS

-----------------------------------------------------------------------------

(* Whoever works, or has yet to give the lock back, has it.                *)
HolderHasLock ==
  \A r \in Runs : run[r] \in {"locked", "working", "reported"} => lock = Run(r)

(* What anybody has read or written of a run, its startedAt stands.        *)
OnlyBegunAreKnown ==
  /\ \A r \in Runs : run[r] \in {"none", "booting", "locked"} => r \notin began
  /\ \A r \in Runs : run[r] \in {"working", "reported", "sorry", "released"} => r \in began
  /\ \A r \in Runs : notes[r] > 0 => r \in began
  /\ status.state # "none" => status.run \in began
  /\ \A k \in Looks : ask[k] \in {"read", "probing", "unlocking", "free"} => seen[k] \in began
  /\ \A s \in Starts : exit[s] = "marking" => seen[s] \in began

(* A look that got the lock has read of a run that is over.                *)
SeenIsOver ==
  \A k \in Looks : ask[k] \in {"unlocking", "free"} => ~Working(seen[k])

(* A start is at work before its process is there; a listener that reads   *)
(* has heard of a crash, and marks no older run.  A run has a code once it *)
(* is over.                                                                *)
ListenersHeard ==
  /\ \A s \in Starts : ask[s] \in {"idle", "probing", "unlocking", "free"} =>
       run[s] = "none" /\ exit[s] = "none"
  /\ \A s \in Starts : exit[s] \in {"reading", "marking"} =>
       run[s] = "exited" /\ code[s] \in {"error", "killed"}
  /\ \A s \in Starts : exit[s] = "marking" => seen[s] \notin older[s]
  /\ \A r \in Runs : run[r] \in {"none", "booting", "locked", "working"} => code[r] = "none"
  /\ \A r \in Runs : run[r] \in {"reported", "sorry", "released", "exited"} => code[r] # "none"

IInv ==
  /\ TypeOK
  /\ HolderHasLock
  /\ OnlyBegunAreKnown
  /\ SeenIsOver
  /\ ListenersHeard
  /\ ChildIsHeard
  /\ InterruptedIsOver
  /\ FailedIsOver

-----------------------------------------------------------------------------

(* The names under which the lock is held are different.                   *)
LEMMA LockNames ==
  /\ \A r : Run(r) # Unlocked
  /\ \A a : Asking(a) # Unlocked
  /\ \A r, a : Run(r) # Asking(a)
  /\ Broken # Unlocked /\ (\A r : Run(r) # Broken) /\ (\A a : Asking(a) # Broken)
  /\ \A q, r : Run(q) = Run(r) => q = r
  /\ \A a, b : Asking(a) = Asking(b) => a = b
BY DEF Run, Asking, Broken, Unlocked

(* A call that returns changes its own place and what it has read.         *)
LEMMA Leaving ==
  ASSUME TypeOK, NEW a \in Askers, Leave(a)
  PROVE  /\ ask' \in [Askers -> Places]
         /\ seen' \in [Askers -> Runs \cup {Null}]
         /\ ask'[a] \in {"idle", "refused"}
         /\ a \in Starts => ask'[a] = "refused"
         /\ \A b \in Askers : b # a => ask'[b] = ask[b] /\ seen'[b] = seen[b]
<1>1. /\ ask \in [Askers -> Places] /\ seen \in [Askers -> Runs \cup {Null}]
  BY DEF TypeOK
<1>2. PICK p \in {"idle", "refused"} :
        ask' = [ask EXCEPT ![a] = p] /\ (a \in Starts => p = "refused")
  BY DEF Leave, goto
<1>3. seen' = [seen EXCEPT ![a] = Null]
  BY DEF Leave
<1>4. QED
  BY <1>1, <1>2, <1>3 DEF Places

(* And the invariant with them, as long as nothing else moves: a lock is   *)
(* not its own or goes with it, and it waits neither to read nor to write. *)
LEMMA LeavingInv ==
  ASSUME IInv, NEW a \in Askers, Leave(a),
         \/ ask[a] # "unlocking" /\ UNCHANGED lock
         \/ lock \in {Unlocked, Asking(a)} /\ lock' \in {Unlocked, Broken},
         UNCHANGED <<status, child, exit, older, runs>>, faults' \in 0 .. MaxFaults,
         a \in Starts => exit[a] # "marking"
  PROVE  IInv'
<1>1. /\ ask' \in [Askers -> Places]
      /\ seen' \in [Askers -> Runs \cup {Null}]
      /\ ask'[a] \in {"idle", "refused"}
      /\ a \in Starts => ask'[a] = "refused"
      /\ \A b \in Askers : b # a => ask'[b] = ask[b] /\ seen'[b] = seen[b]
  BY Leaving DEF IInv
<1>2. TypeOK'
  <2>1. \A b \in Askers : lock' = Asking(b) <=> ask'[b] = "unlocking"
    BY <1>1, LockNames DEF IInv, TypeOK
  <2>2. lock' \in {Unlocked, Broken} \cup {Run(r) : r \in Runs} \cup {Asking(b) : b \in Askers}
    BY DEF IInv, TypeOK
  <2>3. QED
    BY <1>1, <2>1, <2>2 DEF IInv, TypeOK, runs
<1>3. OnlyBegunAreKnown'
  BY <1>1 DEF IInv, OnlyBegunAreKnown, runs, Askers
<1>4. SeenIsOver'
  BY <1>1 DEF IInv, SeenIsOver, Working, runs, Askers
<1>5. ListenersHeard'
  BY <1>1 DEF IInv, ListenersHeard, runs, Askers
<1>6. HolderHasLock' /\ ChildIsHeard' /\ InterruptedIsOver' /\ FailedIsOver'
  BY LockNames
  DEF IInv, HolderHasLock, ChildIsHeard, InterruptedIsOver, FailedIsOver, Working, runs
<1>7. QED
  BY <1>2, <1>3, <1>4, <1>5, <1>6 DEF IInv

(* A failed statement counts.                                              *)
LEMMA Faults ==
  ASSUME TypeOK, Fault \/ UNCHANGED faults
  PROVE  faults' \in 0 .. MaxFaults
BY BoundsAssumption DEF TypeOK, Fault

(* Whoever gets the lock finds nobody at work.                             *)
LEMMA ProbeInv == ASSUME IInv, NEW a \in Askers, Probe(a) PROVE IInv'
<1>1. CASE lock = Unlocked /\ lock' = Asking(a) /\ goto(a, "unlocking") /\ UNCHANGED <<seen, faults>>
  <2>1. /\ ask \in [Askers -> Places] /\ ask[a] = "probing"
        /\ ask' = [ask EXCEPT ![a] = "unlocking"]
        /\ UNCHANGED <<status, child, exit, older, runs, seen, faults>>
    BY <1>1 DEF IInv, TypeOK, Probe, goto
  <2>2. TypeOK'
    <3>1. ask' \in [Askers -> Places]
      BY <2>1 DEF Places
    <3>2. \A b \in Askers : lock' = Asking(b) <=> ask'[b] = "unlocking"
      BY <1>1, <2>1, LockNames DEF IInv, TypeOK
    <3>3. QED
      BY <1>1, <2>1, <3>1, <3>2 DEF IInv, TypeOK, runs
  <2>3. OnlyBegunAreKnown'
    BY <2>1 DEF IInv, OnlyBegunAreKnown, Askers, runs
  <2>4. SeenIsOver' /\ HolderHasLock'
    <3>1. \A r \in Runs : run[r] \notin {"locked", "working", "reported"}
      BY <1>1, LockNames DEF IInv, HolderHasLock
    <3>2. \A k \in Looks : ask'[k] \in {"unlocking", "free"} => seen[k] \in Runs
      BY <2>1 DEF IInv, TypeOK, OnlyBegunAreKnown, Askers
    <3>3. QED
      BY <2>1, <3>1, <3>2 DEF SeenIsOver, HolderHasLock, Working, runs
  <2>5. ListenersHeard'
    BY <2>1 DEF IInv, ListenersHeard, Askers, runs
  <2>6. ChildIsHeard' /\ InterruptedIsOver' /\ FailedIsOver'
    BY <2>1 DEF IInv, ChildIsHeard, InterruptedIsOver, FailedIsOver, Working, runs
  <2>7. QED
    BY <2>2, <2>3, <2>4, <2>5, <2>6 DEF IInv
<1>2. CASE /\ Leave(a)
           /\ UNCHANGED lock \/ (lock = Unlocked /\ lock' = Broken)
           /\ Fault \/ UNCHANGED faults
  <2>1. faults' \in 0 .. MaxFaults
    BY <1>2, Faults DEF IInv
  <2>2. a \in Starts => exit[a] # "marking"
    BY DEF IInv, ListenersHeard, Probe
  <2>3. QED
    BY <1>2, <2>1, <2>2, LeavingInv DEF Probe
<1>3. QED
  BY <1>1, <1>2 DEF Probe

(* The lock given back was the asker's own.                                *)
LEMMA UnlockInv == ASSUME IInv, NEW a \in Askers, Unlock(a) PROVE IInv'
<1>1. TypeOK'
  BY NamesAssumption, LockNames, BoundsAssumption
  DEF IInv, TypeOK, Runs, Askers, Starts, Places, Statuses, Unlock, goto, runs
<1>2. HolderHasLock'
  BY NamesAssumption, LockNames
  DEF IInv, HolderHasLock, TypeOK, Runs, Askers, Starts, Unlock, goto, runs
<1>3. OnlyBegunAreKnown'
  BY DEF IInv, OnlyBegunAreKnown, Unlock, goto, runs
<1>4. SeenIsOver'
  BY DEF IInv, SeenIsOver, Working, Unlock, goto, runs
<1>5. ListenersHeard'
  BY DEF IInv, ListenersHeard, Unlock, goto, runs
<1>6. ChildIsHeard' /\ InterruptedIsOver' /\ FailedIsOver'
  BY DEF IInv, ChildIsHeard, InterruptedIsOver, FailedIsOver, Working, Unlock, runs
<1>7. QED
  BY <1>1, <1>2, <1>3, <1>4, <1>5, <1>6 DEF IInv

(* A lock that cannot be given back was the asker's own, too.              *)
LEMMA UnlockFailsInv == ASSUME IInv, NEW a \in Askers, UnlockFails(a) PROVE IInv'
<1>1. lock = Asking(a) /\ (a \in Starts => exit[a] # "marking")
  BY DEF IInv, TypeOK, ListenersHeard, UnlockFails
<1>2. faults' \in 0 .. MaxFaults
  BY Faults DEF IInv, UnlockFails
<1>3. QED
  BY <1>1, <1>2, LeavingInv DEF UnlockFails

(* A broken connection holds the lock for nobody.                          *)
LEMMA NoticeInv == ASSUME IInv, Notice PROVE IInv'
<1>1. TypeOK'
  BY LockNames DEF IInv, TypeOK, Notice, server, runs
<1>2. HolderHasLock'
  BY LockNames DEF IInv, HolderHasLock, Notice, runs
<1>3. OnlyBegunAreKnown' /\ SeenIsOver' /\ ListenersHeard'
  BY DEF IInv, OnlyBegunAreKnown, SeenIsOver, ListenersHeard, Working, Notice, server, runs
<1>4. ChildIsHeard' /\ InterruptedIsOver' /\ FailedIsOver'
  BY DEF IInv, ChildIsHeard, InterruptedIsOver, FailedIsOver, Working, Notice, server, runs
<1>5. QED
  BY <1>1, <1>2, <1>3, <1>4 DEF IInv

(* A start with a child about is refused.                                  *)
LEMMA AskInv == ASSUME IInv, NEW s \in Starts, Ask(s) PROVE IInv'
<1>1. CASE child # Null
  <2>1. exit[s] # "marking" /\ faults' \in 0 .. MaxFaults
    BY Faults DEF IInv, ListenersHeard, Ask
  <2>2. QED
    BY <1>1, <2>1, LeavingInv DEF Ask, Askers
<1>2. CASE child = Null
  <2>1. /\ ask' = [ask EXCEPT ![s] = "probing"] /\ ask[s] = "idle" /\ s \in Askers
        /\ UNCHANGED <<lock, status, child, exit, older, seen, runs, faults>>
    BY <1>2 DEF Ask, goto, Askers
  <2>2. TypeOK'
    BY <2>1 DEF IInv, TypeOK, Places, runs
  <2>3. OnlyBegunAreKnown'
    BY <2>1, NamesAssumption DEF IInv, TypeOK, OnlyBegunAreKnown, Askers, runs
  <2>4. SeenIsOver' /\ ListenersHeard'
    BY <2>1 DEF IInv, TypeOK, SeenIsOver, ListenersHeard, Working, Askers, runs
  <2>5. HolderHasLock' /\ ChildIsHeard' /\ InterruptedIsOver' /\ FailedIsOver'
    BY <2>1 DEF IInv, HolderHasLock, ChildIsHeard, InterruptedIsOver, FailedIsOver,
       Working, runs
  <2>6. QED
    BY <2>2, <2>3, <2>4, <2>5 DEF IInv
<1>3. QED
  BY <1>1, <1>2

(* The process spawned is one nobody knows of yet.                         *)
LEMMA SpawnInv == ASSUME IInv, NEW s \in Starts, Spawn(s) PROVE IInv'
<1>1. TypeOK'
  BY DEF IInv, TypeOK, Places, RunPlaces, Spawn, goto, Room
<1>2. HolderHasLock'
  BY DEF IInv, HolderHasLock, Spawn, goto, Room
<1>3. OnlyBegunAreKnown'
  BY NamesAssumption
  DEF IInv, OnlyBegunAreKnown, ListenersHeard, TypeOK, Runs, Askers, Spawn, goto
<1>4. SeenIsOver'
  BY DEF IInv, SeenIsOver, Working, Spawn, goto, Room
<1>5. ListenersHeard'
  BY NamesAssumption, LockNames
  DEF IInv, ListenersHeard, TypeOK, Runs, Askers, Starts, Spawn, goto, Room
<1>6. ChildIsHeard'
  BY DEF IInv, ChildIsHeard, TypeOK, Spawn, goto, Room
<1>7. InterruptedIsOver'
  BY DEF IInv, InterruptedIsOver, Working, Spawn, goto, Room
<1>8. FailedIsOver'
  BY DEF IInv, FailedIsOver, ListenersHeard, TypeOK, Runs, Askers, Working, Spawn, goto
<1>9. QED
  BY <1>1, <1>2, <1>3, <1>4, <1>5, <1>6, <1>7, <1>8 DEF IInv

(* The start that fails has no listener.                                   *)
LEMMA SpawnFailsInv == ASSUME IInv, NEW s \in Starts, SpawnFails(s) PROVE IInv'
<1>1. exit[s] # "marking" /\ faults' \in 0 .. MaxFaults
  BY Faults DEF IInv, ListenersHeard, SpawnFails
<1>2. QED
  BY <1>1, LeavingInv DEF SpawnFails, Askers

(* The child that is forgotten has exited.                                 *)
LEMMA HandleExitInv == ASSUME IInv, NEW s \in Starts, HandleExit(s) PROVE IInv'
<1>1. PICK e \in {"done", "reading"} :
        /\ exit' = [exit EXCEPT ![s] = e]
        /\ e = "reading" => code[s] \notin {"ok", "busy"}
  BY DEF HandleExit
<1>2. /\ run[s] = "exited" /\ child' = Null
      /\ UNCHANGED <<lock, status, ask, older, seen, runs, faults>>
      /\ exit \in [Starts -> {"none", "listening", "reading", "marking", "done"}]
  BY DEF IInv, TypeOK, HandleExit
<1>3. TypeOK'
  BY <1>1, <1>2 DEF IInv, TypeOK, runs
<1>4. OnlyBegunAreKnown' /\ SeenIsOver'
  BY <1>1, <1>2 DEF IInv, OnlyBegunAreKnown, SeenIsOver, Working, runs
<1>5. ListenersHeard'
  <2>1. code[s] \in {"error", "killed"} \/ e = "done"
    BY <1>1, <1>2 DEF IInv, TypeOK, ListenersHeard, Runs
  <2>2. \A t \in Starts : exit'[t] = exit[t] \/ (t = s /\ exit'[t] = e)
    BY <1>1, <1>2
  <2>3. ask[s] \notin {"idle", "probing", "unlocking", "free"}
    BY <1>2 DEF IInv, ListenersHeard
  <2>4. QED
    BY <1>2, <2>1, <2>2, <2>3 DEF IInv, ListenersHeard, runs
<1>6. HolderHasLock' /\ ChildIsHeard' /\ InterruptedIsOver' /\ FailedIsOver'
  BY <1>2 DEF IInv, HolderHasLock, ChildIsHeard, InterruptedIsOver, FailedIsOver,
     Working, runs
<1>7. QED
  BY <1>3, <1>4, <1>5, <1>6 DEF IInv

(* A listener marks a run that began after its own spawn.                  *)
LEMMA ReadAfterExitInv == ASSUME IInv, NEW s \in Starts, ReadAfterExit(s) PROVE IInv'
<1>1. /\ exit[s] = "reading" /\ s \in Askers /\ s \notin Looks
      /\ exit \in [Starts -> {"none", "listening", "reading", "marking", "done"}]
      /\ seen \in [Askers -> Runs \cup {Null}]
      /\ UNCHANGED <<lock, status, child, ask, older, runs>>
      /\ faults' \in 0 .. MaxFaults
  BY NamesAssumption, Faults DEF IInv, TypeOK, ReadAfterExit, Askers
<1>2. PICK e \in {"done", "marking"} : exit' = [exit EXCEPT ![s] = e]
  BY DEF ReadAfterExit
<1>3. /\ seen' \in [Askers -> Runs \cup {Null}]
      /\ \A a \in Askers : a # s => seen'[a] = seen[a]
      /\ e = "marking" => seen'[s] \in began /\ seen'[s] \notin older[s]
  <2>1. CASE seen' = [seen EXCEPT ![s] = status.run] /\ status.state = "running" /\ status.run \notin older[s]
    <3>1. status.run \in began /\ status.run \in Runs
      BY <2>1 DEF IInv, TypeOK, OnlyBegunAreKnown
    <3>2. QED
      BY <1>1, <2>1, <3>1
  <2>2. CASE seen' = seen /\ exit' = [exit EXCEPT ![s] = "done"]
    BY <1>1, <1>2, <2>2
  <2>3. QED
    BY <2>1, <2>2 DEF ReadAfterExit
<1>4. \A t \in Starts : exit'[t] = exit[t] \/ (t = s /\ exit'[t] = e)
  BY <1>1, <1>2
<1>5. TypeOK'
  BY <1>1, <1>2, <1>3 DEF IInv, TypeOK, runs
<1>6. OnlyBegunAreKnown' /\ SeenIsOver'
  <2>1. \A k \in Looks : seen'[k] = seen[k]
    BY <1>1, <1>3 DEF Askers
  <2>2. \A t \in Starts : exit'[t] = "marking" => seen'[t] \in began
    BY <1>1, <1>3, <1>4 DEF IInv, OnlyBegunAreKnown, Askers
  <2>3. QED
    BY <1>1, <2>1, <2>2 DEF IInv, OnlyBegunAreKnown, SeenIsOver, Working, runs
<1>7. ListenersHeard'
  <2>1. \A t \in Starts : exit'[t] = "marking" => seen'[t] \notin older[t]
    BY <1>1, <1>3, <1>4 DEF IInv, ListenersHeard, Askers
  <2>2. QED
    BY <1>1, <1>4, <2>1 DEF IInv, ListenersHeard, runs
<1>8. ChildIsHeard'
  BY <1>1, <1>2 DEF IInv, TypeOK, ChildIsHeard
<1>9. HolderHasLock' /\ InterruptedIsOver' /\ FailedIsOver'
  BY <1>1 DEF IInv, HolderHasLock, InterruptedIsOver, FailedIsOver, Working, runs
<1>10. QED
  BY <1>5, <1>6, <1>7, <1>8, <1>9 DEF IInv

(* The listener that marks a run failed has heard of a crash.              *)
LEMMA MarkFailedInv == ASSUME IInv, NEW s \in Starts, MarkFailed(s) PROVE IInv'
<1>1. /\ exit[s] = "marking" /\ s \in Askers /\ s \notin Looks
      /\ exit' = [exit EXCEPT ![s] = "done"]
      /\ seen' = [seen EXCEPT ![s] = Null]
      /\ exit \in [Starts -> {"none", "listening", "reading", "marking", "done"}]
      /\ seen \in [Askers -> Runs \cup {Null}]
      /\ UNCHANGED <<lock, child, ask, older, runs>>
  BY NamesAssumption DEF IInv, TypeOK, MarkFailed, Askers
<1>2. /\ seen[s] \in began /\ seen[s] \in Runs /\ seen[s] \notin older[s]
      /\ code[s] \in {"error", "killed"}
  BY <1>1 DEF IInv, TypeOK, OnlyBegunAreKnown, ListenersHeard
<1>3. status' = status \/ status' = [state |-> "failed", run |-> seen[s]]
  BY DEF MarkFailed, Write
<1>4. TypeOK'
  <2>1. status' \in Statuses /\ faults' \in 0 .. MaxFaults
    BY <1>2, <1>3, Faults DEF IInv, TypeOK, Statuses, MarkFailed, Write
  <2>2. QED
    BY <1>1, <2>1 DEF IInv, TypeOK, runs
<1>5. OnlyBegunAreKnown'
  BY <1>1, <1>2, <1>3 DEF IInv, OnlyBegunAreKnown, Askers, runs
<1>6. SeenIsOver' /\ ListenersHeard'
  BY <1>1 DEF IInv, SeenIsOver, ListenersHeard, Working, Askers, runs
<1>7. ChildIsHeard' /\ HolderHasLock'
  BY <1>1 DEF IInv, ChildIsHeard, HolderHasLock, runs
<1>8. InterruptedIsOver'
  BY <1>1, <1>3 DEF IInv, InterruptedIsOver, Working, runs
<1>9. FailedIsOver'
  BY <1>1, <1>2, <1>3 DEF IInv, FailedIsOver, Working, runs
<1>10. QED
  BY <1>4, <1>5, <1>6, <1>7, <1>8, <1>9 DEF IInv

(* A status that says running names a run that has begun.                  *)
LEMMA ReadInv == ASSUME IInv, NEW k \in Looks, Read(k) PROVE IInv'
<1>1. /\ ask[k] = "idle" /\ k \in Askers /\ k \notin Starts
      /\ ask' = [ask EXCEPT ![k] = "read"]
      /\ seen' = [seen EXCEPT ![k] = status.run]
      /\ ask \in [Askers -> Places] /\ seen \in [Askers -> Runs \cup {Null}]
      /\ UNCHANGED <<lock, status, child, exit, older, runs, faults>>
  BY NamesAssumption DEF IInv, TypeOK, Read, goto, Askers
<1>2. status.run \in began /\ status.run \in Runs
  BY DEF IInv, TypeOK, OnlyBegunAreKnown, Read
<1>3. /\ ask' \in [Askers -> Places]
      /\ seen' \in [Askers -> Runs \cup {Null}]
      /\ ask'[k] = "read" /\ seen'[k] = status.run
      /\ \A b \in Askers : b # k => ask'[b] = ask[b] /\ seen'[b] = seen[b]
  BY <1>1, <1>2 DEF Places
<1>4. TypeOK'
  <2>1. \A b \in Askers : lock' = Asking(b) <=> ask'[b] = "unlocking"
    BY <1>1, <1>3 DEF IInv, TypeOK
  <2>2. QED
    BY <1>1, <1>3, <2>1 DEF IInv, TypeOK, runs
<1>5. OnlyBegunAreKnown'
  BY <1>1, <1>2, <1>3 DEF IInv, OnlyBegunAreKnown, Askers, runs
<1>6. SeenIsOver' /\ ListenersHeard'
  BY <1>1, <1>3 DEF IInv, SeenIsOver, ListenersHeard, Working, Askers, runs
<1>7. HolderHasLock' /\ ChildIsHeard' /\ InterruptedIsOver' /\ FailedIsOver'
  BY <1>1 DEF IInv, HolderHasLock, ChildIsHeard, InterruptedIsOver, FailedIsOver,
     Working, runs
<1>8. QED
  BY <1>4, <1>5, <1>6, <1>7 DEF IInv

(* A look that finds a child is over.                                      *)
LEMMA JudgeInv == ASSUME IInv, NEW k \in Looks, Judge(k) PROVE IInv'
<1>1. CASE child # Null
  <2>1. k \notin Starts /\ faults' \in 0 .. MaxFaults
    BY Faults, NamesAssumption DEF IInv, Judge
  <2>2. QED
    BY <1>1, <2>1, LeavingInv DEF Judge, Askers
<1>2. CASE child = Null
  <2>1. /\ ask' = [ask EXCEPT ![k] = "probing"] /\ ask[k] = "read" /\ k \in Askers
        /\ UNCHANGED <<lock, status, child, exit, older, seen, runs, faults>>
    BY <1>2 DEF Judge, goto, Askers
  <2>2. TypeOK'
    BY <2>1 DEF IInv, TypeOK, Places, runs
  <2>3. OnlyBegunAreKnown'
    BY <2>1 DEF IInv, TypeOK, OnlyBegunAreKnown, Askers, runs
  <2>4. SeenIsOver' /\ ListenersHeard'
    BY <2>1, NamesAssumption DEF IInv, TypeOK, SeenIsOver, ListenersHeard, Working,
       Askers, runs
  <2>5. HolderHasLock' /\ ChildIsHeard' /\ InterruptedIsOver' /\ FailedIsOver'
    BY <2>1 DEF IInv, HolderHasLock, ChildIsHeard, InterruptedIsOver, FailedIsOver,
       Working, runs
  <2>6. QED
    BY <2>2, <2>3, <2>4, <2>5 DEF IInv
<1>3. QED
  BY <1>1, <1>2

(* The run a look calls interrupted is over.                               *)
LEMMA InterruptInv == ASSUME IInv, NEW k \in Looks, Interrupt(k) PROVE IInv'
<1>1. /\ ask[k] = "free" /\ k \in Askers /\ k \notin Starts
      /\ UNCHANGED <<lock, child, exit, older, runs>>
  BY NamesAssumption DEF Interrupt, Askers
<1>2. /\ ask' \in [Askers -> Places]
      /\ seen' \in [Askers -> Runs \cup {Null}]
      /\ ask'[k] \in {"idle", "refused"}
      /\ \A b \in Askers : b # k => ask'[b] = ask[b] /\ seen'[b] = seen[b]
  BY <1>1, Leaving DEF IInv, Interrupt
<1>3. seen[k] \in began /\ seen[k] \in Runs /\ ~Working(seen[k])
  BY <1>1 DEF IInv, TypeOK, OnlyBegunAreKnown, SeenIsOver
<1>4. status' = status \/ status' = [state |-> "interrupted", run |-> seen[k]]
  BY DEF Interrupt, Write
<1>5. TypeOK'
  <2>1. status' \in Statuses /\ faults' \in 0 .. MaxFaults
    BY <1>3, <1>4, Faults DEF IInv, TypeOK, Statuses, Interrupt, Write
  <2>2. \A b \in Askers : lock' = Asking(b) <=> ask'[b] = "unlocking"
    BY <1>1, <1>2 DEF IInv, TypeOK
  <2>3. QED
    BY <1>1, <1>2, <2>1, <2>2 DEF IInv, TypeOK, runs
<1>6. OnlyBegunAreKnown'
  BY <1>1, <1>2, <1>3, <1>4 DEF IInv, OnlyBegunAreKnown, Askers, runs
<1>7. SeenIsOver' /\ ListenersHeard'
  BY <1>1, <1>2 DEF IInv, SeenIsOver, ListenersHeard, Working, Askers, runs
<1>8. ChildIsHeard' /\ HolderHasLock'
  BY <1>1 DEF IInv, ChildIsHeard, HolderHasLock, runs
<1>9. InterruptedIsOver'
  BY <1>1, <1>3, <1>4 DEF IInv, InterruptedIsOver, Working, runs
<1>10. FailedIsOver'
  BY <1>1, <1>4 DEF IInv, FailedIsOver, Working, runs
<1>11. QED
  BY <1>5, <1>6, <1>7, <1>8, <1>9, <1>10 DEF IInv

(* What dies with the server holds no invariant up.                        *)
LEMMA RestartInv == ASSUME IInv, Restart PROVE IInv'
<1>1. TypeOK'
  BY NamesAssumption, LockNames, BoundsAssumption
  DEF IInv, TypeOK, Runs, Askers, Starts, Places, Statuses, Restart, Fault, runs
<1>2. HolderHasLock'
  BY NamesAssumption, LockNames
  DEF IInv, HolderHasLock, TypeOK, Runs, Askers, Starts, Restart, Fault, runs
<1>3. OnlyBegunAreKnown'
  BY NamesAssumption, LockNames
  DEF IInv, OnlyBegunAreKnown, TypeOK, Runs, Askers, Starts, Restart, Fault, runs
<1>4. SeenIsOver'
  BY NamesAssumption, LockNames
  DEF IInv, SeenIsOver, TypeOK, Runs, Askers, Starts, Working, Restart, Fault, runs
<1>5. ListenersHeard'
  BY NamesAssumption, LockNames
  DEF IInv, ListenersHeard, TypeOK, Runs, Askers, Starts, Restart, Fault, runs
<1>6. ChildIsHeard'
  BY DEF IInv, ChildIsHeard, Restart, Fault, runs
<1>7. InterruptedIsOver' /\ FailedIsOver'
  BY DEF IInv, InterruptedIsOver, FailedIsOver, Working, Restart, runs
<1>8. QED
  BY <1>1, <1>2, <1>3, <1>4, <1>5, <1>6, <1>7 DEF IInv

(* A run from a terminal is one nobody knows of yet.                       *)
LEMMA LaunchInv == ASSUME IInv, NEW r \in Runs, Launch(r) PROVE IInv'
<1>1. TypeOK'
  BY DEF IInv, TypeOK, RunPlaces, Launch, Room, server
<1>2. HolderHasLock'
  BY DEF IInv, HolderHasLock, Launch, Room, server
<1>3. OnlyBegunAreKnown'
  BY DEF IInv, OnlyBegunAreKnown, Launch, Room, server
<1>4. SeenIsOver'
  BY DEF IInv, SeenIsOver, Working, Launch, Room, server
<1>5. ListenersHeard'
  BY NamesAssumption, LockNames
  DEF IInv, ListenersHeard, TypeOK, Runs, Askers, Starts, Launch, Room, server
<1>6. InterruptedIsOver'
  BY DEF IInv, InterruptedIsOver, Working, Launch, Room, server
<1>7. FailedIsOver'
  BY DEF IInv, FailedIsOver, Working, Launch, Room, server
<1>8. ChildIsHeard'
  BY DEF IInv, ChildIsHeard, Launch, server
<1>9. QED
  BY <1>1, <1>2, <1>3, <1>4, <1>5, <1>6, <1>7, <1>8 DEF IInv

(* A run works only after it got the lock.                                 *)
LEMMA TakeLockInv == ASSUME IInv, NEW r \in Runs, TakeLock(r) PROVE IInv'
<1>1. /\ run[r] = "booting" /\ r \notin began
      /\ UNCHANGED <<status, server, began, notes, faults>>
      /\ run \in [Runs -> RunPlaces]
      /\ code \in [Runs -> {"none", "ok", "error", "busy", "killed"}]
  BY DEF IInv, TypeOK, OnlyBegunAreKnown, TakeLock
<1>2. PICK p \in {"locked", "exited"}, c \in {"busy", code[r]} :
        /\ run' = [run EXCEPT ![r] = p] /\ code' = [code EXCEPT ![r] = c]
        /\ p = "locked" => c = code[r] /\ lock = Unlocked /\ lock' = Run(r)
        /\ p = "exited" => c = "busy" /\ UNCHANGED lock
  <2>1. CASE lock = Unlocked
    BY <1>1, <2>1 DEF TakeLock
  <2>2. CASE lock # Unlocked
    BY <2>2 DEF TakeLock
  <2>3. QED
    BY <2>1, <2>2
<1>3. \A q \in Runs : q # r => run'[q] = run[q] /\ code'[q] = code[q]
  BY <1>1, <1>2
<1>4. run'[r] = p /\ code'[r] = c
  BY <1>1, <1>2
<1>5. TypeOK'
  <2>1. /\ run' \in [Runs -> RunPlaces]
        /\ code' \in [Runs -> {"none", "ok", "error", "busy", "killed"}]
    BY <1>1, <1>2 DEF RunPlaces
  <2>2. /\ lock' \in {Unlocked, Broken} \cup {Run(q) : q \in Runs} \cup {Asking(a) : a \in Askers}
        /\ \A a \in Askers : lock' = Asking(a) <=> ask[a] = "unlocking"
    BY <1>2, LockNames DEF IInv, TypeOK
  <2>3. QED
    BY <1>1, <2>1, <2>2 DEF IInv, TypeOK, server
<1>6. HolderHasLock'
  BY <1>2, <1>3, <1>4, LockNames DEF IInv, HolderHasLock
<1>7. OnlyBegunAreKnown'
  BY <1>1, <1>3, <1>4 DEF IInv, OnlyBegunAreKnown, server
<1>8. SeenIsOver' /\ InterruptedIsOver'
  <2>1. \A q \in began : ~Working(q) => ~Working(q)'
    BY <1>1, <1>3 DEF Working, IInv, TypeOK
  <2>2. status.state = "interrupted" => status.run \in began
    BY DEF IInv, OnlyBegunAreKnown
  <2>3. \A k \in Looks : ask[k] \in {"unlocking", "free"} => seen[k] \in began
    BY DEF IInv, OnlyBegunAreKnown
  <2>4. QED
    BY <1>1, <2>1, <2>2, <2>3 DEF IInv, SeenIsOver, InterruptedIsOver, Working, server
<1>9. ListenersHeard'
  BY <1>1, <1>2, <1>3, <1>4 DEF IInv, ListenersHeard, server, Runs
<1>10. FailedIsOver'
  <2>1. ASSUME status.state = "failed", Working(status.run)'
        PROVE  \E s \in Starts : code'[s] \in {"error", "killed"} /\ status.run \notin older[s]
    <3>1. status.run \in began /\ status.run # r /\ began \subseteq Runs
      BY <1>1, <2>1 DEF IInv, TypeOK, OnlyBegunAreKnown
    <3>2. Working(status.run)
      BY <1>1, <1>3, <2>1, <3>1 DEF Working
    <3>3. PICK s \in Starts : code[s] \in {"error", "killed"} /\ status.run \notin older[s]
      BY <2>1, <3>2 DEF IInv, FailedIsOver
    <3>4. s # r
      BY <1>1, <3>3 DEF IInv, ListenersHeard
    <3>5. QED
      BY <1>3, <3>3, <3>4 DEF Runs
  <2>2. QED
    BY <1>1, <2>1 DEF FailedIsOver, server, Working
<1>11. ChildIsHeard'
  BY <1>1 DEF IInv, ChildIsHeard, server
<1>12. QED
  BY <1>5, <1>6, <1>7, <1>8, <1>9, <1>10, <1>11 DEF IInv

(* A run that fails early leaves no trace but its code.                    *)
LEMMA FailEarlyInv == ASSUME IInv, NEW r \in Runs, FailEarly(r) PROVE IInv'
<1>1. TypeOK'
  BY DEF IInv, TypeOK, RunPlaces, FailEarly, server
<1>2. HolderHasLock'
  BY DEF IInv, HolderHasLock, FailEarly, server
<1>3. OnlyBegunAreKnown'
  BY DEF IInv, OnlyBegunAreKnown, FailEarly, server
<1>4. SeenIsOver'
  BY DEF IInv, SeenIsOver, Working, FailEarly, server
<1>5. ListenersHeard'
  BY DEF IInv, ListenersHeard, TypeOK, FailEarly, server
<1>6. InterruptedIsOver'
  BY DEF IInv, InterruptedIsOver, Working, FailEarly, server
<1>7. FailedIsOver'
  BY DEF IInv, FailedIsOver, Working, FailEarly, server
<1>8. ChildIsHeard'
  BY DEF IInv, ChildIsHeard, FailEarly, server
<1>9. QED
  BY <1>1, <1>2, <1>3, <1>4, <1>5, <1>6, <1>7, <1>8 DEF IInv

(* A run that begins is nobody's, and its status is its own.               *)
LEMMA BeginInv == ASSUME IInv, NEW r \in Runs, Begin(r) PROVE IInv'
<1>1. TypeOK'
  BY NamesAssumption, LockNames, BoundsAssumption
  DEF IInv, TypeOK, RunPlaces, Runs, Askers, Starts, Statuses, Begin, Report, Write, Fault,
      server
<1>2. HolderHasLock'
  BY DEF IInv, HolderHasLock, Begin, Report, Write, Fault, server
<1>3. OnlyBegunAreKnown'
  BY DEF IInv, OnlyBegunAreKnown, TypeOK, Begin, Report, Write, Fault, server
<1>4. SeenIsOver'
  BY DEF IInv, SeenIsOver, Working, Begin, Report, Write, Fault, server
<1>5. ListenersHeard'
  BY DEF IInv, ListenersHeard, Begin, Report, Write, Fault, server
<1>6. InterruptedIsOver'
  BY DEF IInv, InterruptedIsOver, Working, Begin, Report, Write, Fault, server
<1>7. FailedIsOver'
  BY DEF IInv, FailedIsOver, Working, Begin, Report, Write, Fault, server
<1>8. ChildIsHeard'
  BY DEF IInv, ChildIsHeard, Begin, server
<1>9. QED
  BY <1>1, <1>2, <1>3, <1>4, <1>5, <1>6, <1>7, <1>8 DEF IInv

(* A note is of a run that has begun.                                      *)
LEMMA NoteInv == ASSUME IInv, NEW r \in Runs, Note(r) PROVE IInv'
<1>1. /\ r \in began
      /\ notes' \in [Runs -> 0 .. MaxNotes]
      /\ \A q \in Runs : q # r => notes'[q] = notes[q]
      /\ UNCHANGED <<lock, status, server, run, code, began, faults>>
  BY BoundsAssumption DEF IInv, TypeOK, OnlyBegunAreKnown, Note
<1>2. TypeOK'
  BY <1>1 DEF IInv, TypeOK, server
<1>3. OnlyBegunAreKnown'
  BY <1>1 DEF IInv, OnlyBegunAreKnown, server
<1>4. HolderHasLock' /\ SeenIsOver' /\ ListenersHeard'
  BY <1>1 DEF IInv, HolderHasLock, SeenIsOver, ListenersHeard, Working, server
<1>5. ChildIsHeard' /\ InterruptedIsOver' /\ FailedIsOver'
  BY <1>1 DEF IInv, ChildIsHeard, InterruptedIsOver, FailedIsOver, Working, server
<1>6. QED
  BY <1>2, <1>3, <1>4, <1>5 DEF IInv

(* A note that lands, however late, says running.                          *)
LEMMA LandInv == ASSUME IInv, NEW r \in Runs, Land(r) PROVE IInv'
<1>1. /\ r \in began
      /\ notes' \in [Runs -> 0 .. MaxNotes]
      /\ \A q \in Runs : notes'[q] > 0 => notes[q] > 0
      /\ UNCHANGED <<lock, server, run, code, began>>
  BY BoundsAssumption DEF IInv, TypeOK, OnlyBegunAreKnown, Land
<1>2. \/ status' = status
      \/ status' = [state |-> "running", run |-> r]
  BY DEF Land, Report, Write
<1>3. TypeOK'
  <2>1. status' \in Statuses /\ faults' \in 0 .. MaxFaults
    BY <1>2, Faults DEF IInv, TypeOK, Statuses, Land, Report, Write
  <2>2. QED
    BY <1>1, <2>1 DEF IInv, TypeOK, server
<1>4. OnlyBegunAreKnown'
  BY <1>1, <1>2 DEF IInv, OnlyBegunAreKnown, server
<1>5. HolderHasLock' /\ SeenIsOver' /\ ListenersHeard'
  BY <1>1 DEF IInv, HolderHasLock, SeenIsOver, ListenersHeard, Working, server
<1>6. ChildIsHeard' /\ InterruptedIsOver' /\ FailedIsOver'
  BY <1>1, <1>2 DEF IInv, ChildIsHeard, InterruptedIsOver, FailedIsOver, Working, server
<1>7. QED
  BY <1>3, <1>4, <1>5, <1>6 DEF IInv

(* The end is reported while the lock is held.                             *)
LEMMA EndInv == ASSUME IInv, NEW r \in Runs, End(r) PROVE IInv'
<1>1. /\ run[r] = "working" /\ code[r] = "none" /\ r \in began
      /\ UNCHANGED <<lock, server, began, notes>>
      /\ run \in [Runs -> RunPlaces]
      /\ code \in [Runs -> {"none", "ok", "error", "busy", "killed"}]
  BY DEF IInv, TypeOK, OnlyBegunAreKnown, ListenersHeard, End
<1>2. \/ status' = status
      \/ \E state \in {"done", "failed"} : status' = [state |-> state, run |-> r]
  BY DEF End, Report, Write
<1>3. /\ run' \in [Runs -> RunPlaces]
      /\ code' \in [Runs -> {"none", "ok", "error", "busy", "killed"}]
      /\ run'[r] = "reported" /\ code'[r] \in {"ok", "error"}
      /\ \A q \in Runs : q # r => run'[q] = run[q] /\ code'[q] = code[q]
  BY <1>1 DEF End, RunPlaces
<1>4. TypeOK'
  <2>1. status' \in Statuses /\ faults' \in 0 .. MaxFaults
    BY <1>2, Faults DEF IInv, TypeOK, Statuses, End, Report, Write
  <2>2. QED
    BY <1>1, <1>3, <2>1 DEF IInv, TypeOK, server
<1>5. HolderHasLock' /\ ListenersHeard'
  BY <1>1, <1>3 DEF IInv, HolderHasLock, ListenersHeard, Runs, server
<1>6. OnlyBegunAreKnown'
  BY <1>1, <1>2, <1>3 DEF IInv, OnlyBegunAreKnown, server
<1>7. SeenIsOver' /\ InterruptedIsOver'
  <2>1. \A q \in Runs : ~Working(q) => ~Working(q)'
    BY <1>1, <1>3 DEF Working
  <2>2. /\ status.state = "interrupted" => status.run \in Runs
        /\ \A k \in Looks : ask[k] \in {"unlocking", "free"} => seen[k] \in Runs
    BY DEF IInv, TypeOK, OnlyBegunAreKnown
  <2>3. QED
    BY <1>1, <1>2, <2>1, <2>2 DEF IInv, SeenIsOver, InterruptedIsOver, Working, server
<1>8. FailedIsOver'
  <2>1. ASSUME status'.state = "failed", Working(status.run)', status' = status
        PROVE  \E s \in Starts : code'[s] \in {"error", "killed"} /\ status.run \notin older[s]
    <3>1. status.run \in Runs /\ Working(status.run)
      BY <1>1, <1>3, <2>1 DEF IInv, TypeOK, OnlyBegunAreKnown, Working
    <3>2. PICK s \in Starts : code[s] \in {"error", "killed"} /\ status.run \notin older[s]
      BY <2>1, <3>1 DEF IInv, FailedIsOver
    <3>3. QED
      BY <1>1, <1>3, <3>2 DEF Runs
  <2>2. status' # status => status'.run = r /\ ~Working(r)'
    BY <1>1, <1>2, <1>3 DEF Working
  <2>3. QED
    BY <1>1, <2>1, <2>2 DEF FailedIsOver, server
<1>9. ChildIsHeard'
  BY <1>1 DEF IInv, ChildIsHeard, server
<1>10. QED
  BY <1>4, <1>5, <1>6, <1>7, <1>8, <1>9 DEF IInv

(* A run that gives the lock back has reported.                            *)
LEMMA ReleaseInv == ASSUME IInv, NEW r \in Runs, Release(r) PROVE IInv'
<1>1. TypeOK'
  BY LockNames DEF IInv, TypeOK, RunPlaces, HolderHasLock, Release, server
<1>2. HolderHasLock'
  BY NamesAssumption, LockNames
  DEF IInv, HolderHasLock, TypeOK, Runs, Askers, Starts, Release, server
<1>3. OnlyBegunAreKnown'
  BY DEF IInv, OnlyBegunAreKnown, Release, server
<1>4. SeenIsOver'
  BY DEF IInv, SeenIsOver, Working, Release, server
<1>5. ListenersHeard'
  BY DEF IInv, ListenersHeard, Release, server
<1>6. InterruptedIsOver'
  BY DEF IInv, InterruptedIsOver, Working, Release, server
<1>7. FailedIsOver'
  BY DEF IInv, FailedIsOver, Working, Release, server
<1>8. ChildIsHeard'
  BY DEF IInv, ChildIsHeard, Release, server
<1>9. QED
  BY <1>1, <1>2, <1>3, <1>4, <1>5, <1>6, <1>7, <1>8 DEF IInv

(* So has one that cannot give it back, and it needs the lock no more.     *)
LEMMA ReleaseFailsInv == ASSUME IInv, NEW r \in Runs, ReleaseFails(r) PROVE IInv'
<1>1. /\ run[r] = "reported" /\ r \in began /\ run \in [Runs -> RunPlaces]
      /\ code \in [Runs -> {"none", "ok", "error", "busy", "killed"}]
      /\ lock = Run(r) /\ lock' \in {lock, Unlocked}
      /\ UNCHANGED <<status, server, began, notes>>
  BY DEF IInv, TypeOK, OnlyBegunAreKnown, HolderHasLock, ReleaseFails
<1>2. /\ run' \in [Runs -> RunPlaces] /\ run'[r] \in {"sorry", "released"}
      /\ code' \in [Runs -> {"none", "ok", "error", "busy", "killed"}] /\ code'[r] = "error"
      /\ \A q \in Runs : q # r => run'[q] = run[q] /\ code'[q] = code[q]
  BY <1>1 DEF ReleaseFails, RunPlaces
<1>3. TypeOK'
  <2>1. faults' \in 0 .. MaxFaults
    BY Faults DEF IInv, ReleaseFails
  <2>2. /\ lock' \in {Unlocked, Broken} \cup {Run(q) : q \in Runs} \cup {Asking(a) : a \in Askers}
        /\ \A a \in Askers : lock' = Asking(a) <=> ask[a] = "unlocking"
    BY <1>1, LockNames DEF IInv, TypeOK
  <2>3. QED
    BY <1>1, <1>2, <2>1, <2>2 DEF IInv, TypeOK, server
<1>4. HolderHasLock'
  BY <1>1, <1>2, LockNames DEF IInv, HolderHasLock
<1>5. OnlyBegunAreKnown'
  BY <1>1, <1>2 DEF IInv, OnlyBegunAreKnown, server
<1>6. ListenersHeard'
  BY <1>1, <1>2 DEF IInv, ListenersHeard, Runs, server
<1>7. SeenIsOver' /\ InterruptedIsOver'
  <2>1. \A q \in Runs : ~Working(q) => ~Working(q)'
    BY <1>1, <1>2 DEF Working
  <2>2. /\ status.state = "interrupted" => status.run \in Runs
        /\ \A k \in Looks : ask[k] \in {"unlocking", "free"} => seen[k] \in Runs
    BY DEF IInv, TypeOK, OnlyBegunAreKnown
  <2>3. QED
    BY <1>1, <2>1, <2>2 DEF IInv, SeenIsOver, InterruptedIsOver, Working, server
<1>8. FailedIsOver'
  <2>1. ASSUME status.state = "failed", Working(status.run)'
        PROVE  \E s \in Starts : code'[s] \in {"error", "killed"} /\ status.run \notin older[s]
    <3>1. status.run \in Runs /\ Working(status.run)
      BY <1>1, <1>2, <2>1 DEF IInv, TypeOK, OnlyBegunAreKnown, Working
    <3>2. PICK s \in Starts : code[s] \in {"error", "killed"} /\ status.run \notin older[s]
      BY <2>1, <3>1 DEF IInv, FailedIsOver
    <3>3. QED
      BY <1>1, <1>2, <3>2 DEF Runs
  <2>2. QED
    BY <1>1, <2>1 DEF FailedIsOver, Working, server
<1>9. ChildIsHeard'
  BY <1>1 DEF IInv, ChildIsHeard, server
<1>10. QED
  BY <1>3, <1>4, <1>5, <1>6, <1>7, <1>8, <1>9 DEF IInv

(* What it says of itself in the end is true, whoever has the lock by now. *)
LEMMA RegretInv == ASSUME IInv, NEW r \in Runs, Regret(r) PROVE IInv'
<1>1. /\ run[r] = "sorry" /\ code[r] # "none" /\ r \in began
      /\ run \in [Runs -> RunPlaces]
      /\ UNCHANGED <<lock, server, code, began, notes>>
  BY DEF IInv, TypeOK, OnlyBegunAreKnown, ListenersHeard, Regret
<1>2. \/ status' = status
      \/ status' = [state |-> "failed", run |-> r]
  BY DEF Regret, Report, Write
<1>3. /\ run' \in [Runs -> RunPlaces] /\ run'[r] = "released"
      /\ \A q \in Runs : q # r => run'[q] = run[q]
  BY <1>1 DEF Regret, RunPlaces
<1>4. \A q \in Runs : Working(q)' <=> Working(q)
  BY <1>1, <1>3 DEF Working
<1>5. TypeOK'
  <2>1. status' \in Statuses /\ faults' \in 0 .. MaxFaults
    BY <1>2, Faults DEF IInv, TypeOK, Statuses, Regret, Report, Write
  <2>2. QED
    BY <1>1, <1>3, <2>1 DEF IInv, TypeOK, server
<1>6. HolderHasLock' /\ OnlyBegunAreKnown' /\ ListenersHeard'
  BY <1>1, <1>2, <1>3
  DEF IInv, HolderHasLock, OnlyBegunAreKnown, ListenersHeard, Runs, server
<1>7. SeenIsOver' /\ InterruptedIsOver' /\ FailedIsOver'
  <2>1. /\ status.state # "none" => status.run \in Runs
        /\ \A k \in Looks : ask[k] \in {"unlocking", "free"} => seen[k] \in Runs
    BY DEF IInv, TypeOK, OnlyBegunAreKnown
  <2>2. ~Working(r)'
    BY <1>3 DEF Working
  <2>3. SeenIsOver'
    BY <1>1, <1>4, <2>1 DEF IInv, SeenIsOver, Working, server
  <2>4. CASE status' = status
    BY <1>1, <1>4, <2>1, <2>3, <2>4 DEF IInv, InterruptedIsOver, FailedIsOver, Working, server
  <2>5. CASE status' = [state |-> "failed", run |-> r]
    BY <2>2, <2>3, <2>5 DEF InterruptedIsOver, FailedIsOver, Working
  <2>6. QED
    BY <1>2, <2>4, <2>5
<1>8. ChildIsHeard'
  BY <1>1 DEF IInv, ChildIsHeard, server
<1>9. QED
  BY <1>5, <1>6, <1>7, <1>8 DEF IInv

(* With the process goes its lock, if it has it.                           *)
LEMMA ExitInv == ASSUME IInv, NEW r \in Runs, Exit(r) PROVE IInv'
<1>1. TypeOK'
  BY NamesAssumption, LockNames, BoundsAssumption
  DEF IInv, TypeOK, RunPlaces, Runs, Askers, Starts, Statuses, Exit, server
<1>2. HolderHasLock'
  BY NamesAssumption, LockNames
  DEF IInv, HolderHasLock, TypeOK, Runs, Askers, Starts, Exit, server
<1>3. OnlyBegunAreKnown'
  BY DEF IInv, OnlyBegunAreKnown, Exit, server
<1>4. SeenIsOver'
  BY DEF IInv, SeenIsOver, Working, Exit, server
<1>5. ListenersHeard'
  BY DEF IInv, ListenersHeard, Exit, server
<1>6. InterruptedIsOver'
  BY DEF IInv, InterruptedIsOver, Working, Exit, server
<1>7. FailedIsOver'
  BY DEF IInv, FailedIsOver, Working, Exit, server
<1>8. ChildIsHeard'
  BY DEF IInv, ChildIsHeard, Exit, server
<1>9. QED
  BY <1>1, <1>2, <1>3, <1>4, <1>5, <1>6, <1>7, <1>8 DEF IInv

(* And so it does when it is killed.                                       *)
LEMMA KillInv == ASSUME IInv, NEW r \in Runs, Kill(r) PROVE IInv'
<1>1. TypeOK'
  <2>1. /\ run' \in [Runs -> RunPlaces]
        /\ code' \in [Runs -> {"none", "ok", "error", "busy", "killed"}]
        /\ faults' \in 0 .. MaxFaults
    BY Faults DEF IInv, TypeOK, Kill, RunPlaces
  <2>2. notes' \in [Runs -> 0 .. MaxNotes]
    BY BoundsAssumption DEF IInv, TypeOK, Kill
  <2>3. /\ lock' \in {Unlocked, Broken} \cup {Run(q) : q \in Runs} \cup {Asking(a) : a \in Askers}
        /\ \A a \in Askers : lock' = Asking(a) <=> ask[a] = "unlocking"
    BY LockNames DEF IInv, TypeOK, Kill
  <2>4. QED
    BY <2>1, <2>2, <2>3 DEF IInv, TypeOK, Kill, server
<1>2. HolderHasLock'
  BY NamesAssumption, LockNames
  DEF IInv, HolderHasLock, TypeOK, Runs, Askers, Starts, Kill, Alive, Fault, server
<1>3. OnlyBegunAreKnown'
  BY DEF IInv, OnlyBegunAreKnown, TypeOK, Kill, Alive, Fault, server
<1>4. SeenIsOver'
  BY DEF IInv, SeenIsOver, Working, Kill, Alive, Fault, server
<1>5. ListenersHeard'
  BY DEF IInv, ListenersHeard, TypeOK, Kill, Alive, Fault, server
<1>6. InterruptedIsOver'
  BY DEF IInv, InterruptedIsOver, Working, Kill, Alive, Fault, server
<1>7. FailedIsOver'
  BY DEF IInv, FailedIsOver, Working, Kill, Alive, Fault, server
<1>8. ChildIsHeard'
  BY DEF IInv, ChildIsHeard, Kill, server
<1>9. QED
  BY <1>1, <1>2, <1>3, <1>4, <1>5, <1>6, <1>7, <1>8 DEF IInv

-----------------------------------------------------------------------------

(* At first nothing runs and nothing is known.                             *)
LEMMA InitInv == Init => IInv
<1>1. Init => TypeOK
  BY NamesAssumption, BoundsAssumption, LockNames DEF Init, TypeOK, Places, RunPlaces, Statuses,
     Unlocked
<1>2. Init => /\ HolderHasLock /\ OnlyBegunAreKnown /\ SeenIsOver /\ ListenersHeard
              /\ ChildIsHeard /\ InterruptedIsOver /\ FailedIsOver
  BY NamesAssumption
  DEF Init, HolderHasLock, OnlyBegunAreKnown, SeenIsOver, ListenersHeard, ChildIsHeard,
      InterruptedIsOver, FailedIsOver, Working, Runs, Starts, Askers
<1>3. QED
  BY <1>1, <1>2 DEF IInv

(* The inductive invariant of the backtest service.                        *)
THEOREM BacktestInvariant == Spec => []IInv
<1>1. IInv /\ UNCHANGED vars => IInv'
  BY DEF IInv, TypeOK, HolderHasLock, OnlyBegunAreKnown, SeenIsOver, ListenersHeard,
         ChildIsHeard, InterruptedIsOver, FailedIsOver, Working, vars, server, runs
<1>2. ASSUME IInv, NEW a \in Askers, AskStep(a) PROVE IInv'
  BY <1>2, ProbeInv, UnlockInv, UnlockFailsInv DEF AskStep
<1>3. ASSUME IInv, NEW s \in Starts, Ask(s) \/ StartStep(s) PROVE IInv'
  BY <1>3, AskInv, SpawnInv, SpawnFailsInv, HandleExitInv, ReadAfterExitInv, MarkFailedInv
  DEF StartStep
<1>4. ASSUME IInv, NEW k \in Looks, LookStep(k) PROVE IInv'
  BY <1>4, ReadInv, JudgeInv, InterruptInv DEF LookStep
<1>5. ASSUME IInv, NEW r \in Runs, Launch(r) \/ Note(r) \/ RunStep(r) \/ Land(r) \/ Kill(r)
      PROVE  IInv'
  BY <1>5, LaunchInv, NoteInv, LandInv, KillInv, TakeLockInv, FailEarlyInv, BeginInv,
     EndInv,
     ReleaseInv, ReleaseFailsInv, RegretInv, ExitInv DEF RunStep
<1>6. IInv /\ [Next]_vars => IInv'
  BY <1>1, <1>2, <1>3, <1>4, <1>5, RestartInv, NoticeInv DEF Next
<1>7. QED
  BY InitInv, <1>6, PTL DEF Spec

(* Two backtests never work at once, whoever started them.                 *)
THEOREM OneBacktest == Spec => []OneRunWorks
<1>1. IInv => OneRunWorks
  BY LockNames DEF IInv, HolderHasLock, OneRunWorks, Working
<1>2. QED
  BY <1>1, BacktestInvariant, PTL

(* The server has a child only while it will hear of its exit.             *)
THEOREM ChildIsForgotten == Spec => []ChildIsHeard
<1>1. IInv => ChildIsHeard
  BY DEF IInv
<1>2. QED
  BY <1>1, BacktestInvariant, PTL

(* A run at work is never called interrupted.                              *)
THEOREM NobodyInterruptsWork == Spec => []InterruptedIsOver
<1>1. IInv => InterruptedIsOver
  BY DEF IInv
<1>2. QED
  BY <1>1, BacktestInvariant, PTL

(* A run at work is called failed only after a crash of a younger start.   *)
THEOREM NobodyFailsWork == Spec => []FailedIsOver
<1>1. IInv => FailedIsOver
  BY DEF IInv
<1>2. QED
  BY <1>1, BacktestInvariant, PTL

(* No run at work is called dead for what another run did.                 *)
THEOREM NobodyBuriesWork == Spec => []WorkIsNotCalledDead
<1>1. QED
  BY NobodyInterruptsWork, NobodyFailsWork, PTL DEF WorkIsNotCalledDead

-----------------------------------------------------------------------------
(* What a backtest knows of a past day: PointInTime. *)

\* Some number of a set of them is the smallest.
LEMMA SmallestOf ==
  ASSUME NEW T \in SUBSET Nat, T # {}
  PROVE  \E x \in T : \A y \in T : x <= y
<1>1. \E x \in T : \A y \in T : ~ (<<y, x>> \in OpToRel(<,Nat))
  BY NatLessThanWellFounded, WFMin
<1>2. \A x, y \in Nat : y < x => <<y, x>> \in OpToRel(<,Nat)
  BY DEF OpToRel
<1>3. \A x, y \in Nat : ~(y < x) => x <= y
  OBVIOUS
<1>4. PICK x \in T : \A y \in T : ~ (<<y, x>> \in OpToRel(<,Nat))
  BY <1>1, Zenon
<1>5. ASSUME NEW y \in T PROVE x <= y
  <2>1. x \in Nat /\ y \in Nat
    OBVIOUS
  <2>2. ~(y < x)
    BY <1>2, <1>4, <2>1, Zenon
  <2>3. QED BY <1>3, <2>1, <2>2, Zenon
<1>6. QED BY <1>5, Zenon

\* Induction over a list: what holds of its empty beginning, and of each beginning if of the
\* one before it, holds of every one, since no beginning is the first of which it does not.
LEMMA NoFirstException ==
  ASSUME NEW N \in Nat, NEW Good, 0 \in Good, \A n \in 1 .. N : n - 1 \in Good => n \in Good
  PROVE  0 .. N \subseteq Good
<1> DEFINE T == (0 .. N) \ Good
<1>1. SUFFICES T = {}
  OBVIOUS
<1>2. SUFFICES ASSUME T # {} PROVE FALSE
  OBVIOUS
<1>3. T \in SUBSET Nat
  OBVIOUS
<1>4. PICK x \in T : \A y \in T : x <= y
  BY <1>2, <1>3, SmallestOf
<1>5. x \in 1 .. N /\ x - 1 \in 0 .. N /\ ~(x <= x - 1)
  OBVIOUS
<1>6. QED BY <1>4, <1>5

\* A list of steps has a course: what is there after each beginning of it.
Courses(X, start, N, F) == {f \in [0 .. N -> X] : f[0] = start /\ \A n \in 1 .. N : f[n] = F[n][f[n - 1]]}

LEMMA StepsHaveACourse ==
  ASSUME NEW X, NEW start \in X, NEW N \in Nat, NEW F \in [1 .. N -> [X -> X]]
  PROVE  Courses(X, start, N, F) # {}
<1> DEFINE Good == {m \in 0 .. N : Courses(X, start, m, F) # {}}
<1>1. 0 \in Good
  <2>1. [k \in 0 .. 0 |-> start] \in Courses(X, start, 0, F)
    BY DEF Courses
  <2>2. QED BY <2>1
<1>2. ASSUME NEW m \in 1 .. N, m - 1 \in Good PROVE m \in Good
  <2>1. PICK f : f \in Courses(X, start, m - 1, F)
    BY <1>2
  <2>2. f \in [0 .. m - 1 -> X] /\ f[0] = start /\ \A n \in 1 .. m - 1 : f[n] = F[n][f[n - 1]]
    BY <2>1 DEF Courses
  <2> DEFINE g == [k \in 0 .. m |-> IF k = m THEN F[m][f[m - 1]] ELSE f[k]]
  <2>3. F[m][f[m - 1]] \in X
    BY <2>2
  <2>4. /\ \A k \in 0 .. m : k # m => k \in 0 .. m - 1
        /\ \A k \in 1 .. m : k - 1 \in 0 .. m /\ k - 1 # m /\ (k # m => k \in 1 .. m - 1)
        /\ 0 \in 0 .. m /\ 0 # m
    OBVIOUS
  <2>5. g \in [0 .. m -> X]
    BY <2>2, <2>3, <2>4
  <2>6. g[0] = start /\ \A n \in 1 .. m : g[n] = F[n][g[n - 1]]
    <3>1. g[0] = start
      BY <2>2, <2>4
    <3>2. ASSUME NEW n \in 1 .. m PROVE g[n] = F[n][g[n - 1]]
      <4>1. g[n - 1] = f[n - 1] /\ n \in 0 .. m
        BY <2>4
      <4>2. CASE n = m
        BY <4>1, <4>2
      <4>3. CASE n # m
        <5>1. g[n] = f[n] /\ n \in 1 .. m - 1
          BY <2>4, <4>1, <4>3
        <5> HIDE DEF g
        <5>2. QED BY <2>2, <4>1, <5>1
      <4>4. QED BY <4>2, <4>3
    <3>3. QED BY <3>1, <3>2
  <2>7. g \in Courses(X, start, m, F)
    BY <2>5, <2>6 DEF Courses
  <2>8. QED BY <2>7
<1> HIDE DEF Good
<1>3. 0 .. N \subseteq Good
  BY <1>1, <1>2, NoFirstException
<1>4. N \in Good
  BY <1>3
<1>5. QED BY <1>4 DEF Good

\* What the splits make of a share: the factors of two spells multiply.
Shares(n, f) == f = [k \in 0 .. n |-> IF k = 0 THEN 1 ELSE Ratio * f[k - 1]]

LEMMA SharesAre ==
  ASSUME Ratio \in Int, NEW n \in Nat
  PROVE  \E f \in [0 .. n -> Int] : Shares(n, f) /\ Facts!SharesAfter(n) = f[n]
<1> DEFINE F == [k \in 1 .. n |-> [x \in Int |-> Ratio * x]]
<1>1. F \in [1 .. n -> [Int -> Int]] /\ 1 \in Int
  OBVIOUS
<1>2. PICK f \in [0 .. n -> Int] : f[0] = 1 /\ \A k \in 1 .. n : f[k] = F[k][f[k - 1]]
  <2> HIDE DEF F
  <2>1. Courses(Int, 1, n, F) # {}
    BY <1>1, StepsHaveACourse
  <2>2. QED BY <2>1 DEF Courses
<1>3. \A k \in 0 .. n : k # 0 => k \in 1 .. n /\ k - 1 \in 0 .. n
  OBVIOUS
<1>4. ASSUME NEW k \in 1 .. n PROVE f[k] = Ratio * f[k - 1]
  <2>1. k - 1 \in 0 .. n /\ k \in 0 .. n /\ k # 0
    OBVIOUS
  <2>2. f[k - 1] \in Int
    BY <2>1
  <2>3. F[k][f[k - 1]] = Ratio * f[k - 1]
    BY <2>2
  <2> HIDE DEF F
  <2>4. QED BY <1>2, <2>3
<1>5. Shares(n, f)
  BY <1>2, <1>3, <1>4 DEF Shares
<1>6. PICK g : g = CHOOSE h : Shares(n, h)
  OBVIOUS
<1>7. Shares(n, g)
  BY <1>5, <1>6
<1>8. Facts!SharesAfter(n) = g[n]
  BY <1>6 DEF Facts!SharesAfter, Shares
<1>9. 0 .. n \subseteq {k \in 0 .. n : g[k] \in Int}
  <2> DEFINE Good == {k \in 0 .. n : g[k] \in Int}
  <2>1. 0 \in Good
    BY <1>7 DEF Shares
  <2>2. ASSUME NEW k \in 1 .. n, k - 1 \in Good PROVE k \in Good
    <3>1. g[k] = Ratio * g[k - 1] /\ g[k - 1] \in Int
      BY <1>7, <2>2 DEF Shares
    <3>2. QED BY <3>1
  <2> HIDE DEF Good
  <2>3. 0 .. n \subseteq Good
    BY <2>1, <2>2, NoFirstException
  <2>4. QED BY <2>3 DEF Good
<1>10. g \in [0 .. n -> Int]
  BY <1>7, <1>9 DEF Shares
<1>11. QED BY <1>7, <1>8, <1>10

LEMMA SharesStep ==
  ASSUME NEW n \in Nat, NEW f \in [0 .. n -> Int], Shares(n, f)
  PROVE  f[0] = 1 /\ \A k \in 1 .. n : f[k] = Ratio * f[k - 1] /\ f[k - 1] \in Int
<1>1. \A k \in 0 .. n : f[k] = IF k = 0 THEN 1 ELSE Ratio * f[k - 1]
  BY DEF Shares
<1>2. ASSUME NEW k \in 1 .. n PROVE f[k] = Ratio * f[k - 1] /\ f[k - 1] \in Int
  <2>1. k - 1 \in 0 .. n /\ k \in 0 .. n /\ k # 0
    OBVIOUS
  <2>2. QED BY <1>1, <2>1
<1>3. QED BY <1>1, <1>2

LEMMA SharesMultiply ==
  ASSUME Ratio \in Int, NEW m \in Nat, NEW n \in Nat
  PROVE  Facts!SharesAfter(m) * Facts!SharesAfter(n) = Facts!SharesAfter(m + n)
<1>1. PICK f \in [0 .. m -> Int] : Shares(m, f) /\ Facts!SharesAfter(m) = f[m]
  BY SharesAre
<1>2. PICK g \in [0 .. n -> Int] : Shares(n, g) /\ Facts!SharesAfter(n) = g[n]
  BY SharesAre
<1>3. m + n \in Nat
  OBVIOUS
<1>4. PICK h \in [0 .. (m + n) -> Int] : Shares(m + n, h) /\ Facts!SharesAfter(m + n) = h[m + n]
  BY <1>3, SharesAre
<1>5. f[0] = 1 /\ \A k \in 1 .. m : f[k] = Ratio * f[k - 1] /\ f[k - 1] \in Int
  BY <1>1, SharesStep
<1>6. g[0] = 1 /\ \A k \in 1 .. n : g[k] = Ratio * g[k - 1] /\ g[k - 1] \in Int
  BY <1>2, SharesStep
<1>7. h[0] = 1 /\ \A k \in 1 .. m + n : h[k] = Ratio * h[k - 1] /\ h[k - 1] \in Int
  BY <1>4, <1>3, SharesStep
<1>8. h[m] = f[m]
  <2> DEFINE Good == {k \in 0 .. m : h[k] = f[k]}
  <2>1. 0 \in Good
    BY <1>5, <1>7
  <2>2. ASSUME NEW k \in 1 .. m, k - 1 \in Good PROVE k \in Good
    <3>1. k \in 1 .. m + n
      OBVIOUS
    <3>2. QED BY <1>5, <1>7, <2>2, <3>1
  <2> HIDE DEF Good
  <2>3. 0 .. m \subseteq Good
    BY <2>1, <2>2, NoFirstException
  <2>4. m \in Good
    BY <2>3
  <2>5. QED BY <2>4 DEF Good
<1>9. h[m + n] = h[m] * g[n]
  <2> DEFINE Good == {k \in 0 .. n : h[m + k] = h[m] * g[k]}
  <2>1. h[m] \in Int /\ \A a, b, c \in Int : a * (b * c) = b * (a * c)
    OBVIOUS
  <2>2. 0 \in Good
    BY <1>6, <2>1
  <2>3. ASSUME NEW k \in 1 .. n, k - 1 \in Good PROVE k \in Good
    <3>1. h[m + (k - 1)] = h[m] * g[k - 1]
      BY <2>3
    <3>2. m + k \in 1 .. m + n /\ m + (k - 1) = (m + k) - 1
      OBVIOUS
    <3>3. h[m + k] = Ratio * h[(m + k) - 1]
      BY <1>7, <3>2
    <3>4. g[k] = Ratio * g[k - 1] /\ g[k - 1] \in Int
      BY <1>6
    <3>5. Ratio * (h[m] * g[k - 1]) = h[m] * (Ratio * g[k - 1])
      BY <2>1, <3>4
    <3>6. h[m + k] = h[m] * g[k]
      BY <3>1, <3>2, <3>3, <3>4, <3>5
    <3>7. QED BY <3>6
  <2> HIDE DEF Good
  <2>4. 0 .. n \subseteq Good
    BY <2>2, <2>3, NoFirstException
  <2>5. n \in Good
    BY <2>4
  <2>6. QED BY <2>5 DEF Good
<1>10. QED BY <1>1, <1>2, <1>4, <1>8, <1>9

\* What is sold in some quarters, added up in their order.
Share(books, first, s, k) == IF first + k \in s THEN books[first + k] ELSE 0
Totals(books, first, N, s, f) == f = [k \in 0 .. N |-> IF k = 0 THEN 0 ELSE f[k - 1] + Share(books, first, s, k)]
Total(books, first, N, s) == (CHOOSE f : Totals(books, first, N, s, f))[N]

Adds(books, first, N, s, f) ==
  /\ f \in [0 .. N -> Int] /\ f[N] = Total(books, first, N, s)
  /\ f[0] = 0 /\ \A k \in 1 .. N : f[k] = f[k - 1] + Share(books, first, s, k)

LEMMA TotalsExist ==
  ASSUME NEW first \in Int, NEW N \in Nat, NEW books \in [(first + 1) .. (first + N) -> Int], NEW s
  PROVE  \E f : Adds(books, first, N, s, f)
<1> DEFINE F == [k \in 1 .. N |-> [x \in Int |-> x + Share(books, first, s, k)]]
<1>1. \A k \in 1 .. N : Share(books, first, s, k) \in Int
  BY DEF Share
<1>2. F \in [1 .. N -> [Int -> Int]] /\ 0 \in Int
  BY <1>1
<1>3. PICK f \in [0 .. N -> Int] : f[0] = 0 /\ \A k \in 1 .. N : f[k] = F[k][f[k - 1]]
  <2> HIDE DEF F
  <2>1. Courses(Int, 0, N, F) # {}
    BY <1>2, StepsHaveACourse
  <2>2. QED BY <2>1 DEF Courses
<1>4. \A k \in 0 .. N : k # 0 => k \in 1 .. N /\ k - 1 \in 0 .. N
  OBVIOUS
<1>5. ASSUME NEW k \in 1 .. N PROVE f[k] = f[k - 1] + Share(books, first, s, k)
  <2>1. f[k - 1] \in Int
    BY <1>4
  <2>2. F[k][f[k - 1]] = f[k - 1] + Share(books, first, s, k)
    BY <2>1
  <2> HIDE DEF F
  <2>3. QED BY <1>3, <2>2
<1>6. Totals(books, first, N, s, f)
  BY <1>3, <1>4, <1>5 DEF Totals
<1>7. PICK g : g = CHOOSE h : Totals(books, first, N, s, h)
  OBVIOUS
<1>8. Totals(books, first, N, s, g) /\ g[N] = Total(books, first, N, s)
  BY <1>6, <1>7 DEF Total
<1>9. g[0] = 0 /\ \A k \in 1 .. N : g[k] = g[k - 1] + Share(books, first, s, k)
  BY <1>4, <1>8 DEF Totals
<1>10. 0 .. N \subseteq {k \in 0 .. N : g[k] \in Int}
  <2> DEFINE Good == {k \in 0 .. N : g[k] \in Int}
  <2>1. 0 \in Good
    BY <1>9
  <2>2. \A k \in 1 .. N : k - 1 \in Good => k \in Good
    BY <1>1, <1>9
  <2> HIDE DEF Good
  <2>3. 0 .. N \subseteq Good
    BY <2>1, <2>2, NoFirstException
  <2>4. QED BY <2>3 DEF Good
<1>11. g \in [0 .. N -> Int]
  BY <1>8, <1>10 DEF Totals
<1>12. QED BY <1>8, <1>9, <1>11 DEF Adds

LEMMA TotalIsInt ==
  ASSUME NEW first \in Int, NEW N \in Nat, NEW books \in [(first + 1) .. (first + N) -> Int], NEW s
  PROVE  Total(books, first, N, s) \in Int
<1>1. PICK f : Adds(books, first, N, s, f)
  BY TotalsExist
<1>2. f[N] \in Int /\ f[N] = Total(books, first, N, s)
  BY <1>1 DEF Adds
<1>3. QED BY <1>2

LEMMA TotalOfNone ==
  ASSUME NEW first \in Int, NEW N \in Nat, NEW books \in [(first + 1) .. (first + N) -> Int]
  PROVE  Total(books, first, N, {}) = 0
<1>1. PICK f : Adds(books, first, N, {}, f)
  BY TotalsExist
<1> DEFINE Good == {k \in 0 .. N : f[k] = 0}
<1>2. 0 \in Good
  BY <1>1 DEF Adds
<1>3. \A k \in 1 .. N : k - 1 \in Good => k \in Good
  BY <1>1 DEF Adds, Share
<1> HIDE DEF Good
<1>4. 0 .. N \subseteq Good
  BY <1>2, <1>3, NoFirstException
<1>5. N \in Good
  BY <1>4
<1>6. QED BY <1>1, <1>5 DEF Good, Adds

LEMMA TotalOfOne ==
  ASSUME NEW first \in Int, NEW N \in Nat, NEW books \in [(first + 1) .. (first + N) -> Int],
         NEW x \in (first + 1) .. (first + N)
  PROVE  Total(books, first, N, {x}) = books[x]
<1>1. PICK f : Adds(books, first, N, {x}, f)
  BY TotalsExist
<1>2. PICK v \in Int : v = books[x]
  OBVIOUS
<1> DEFINE Good == {k \in 0 .. N : f[k] = IF x <= first + k THEN v ELSE 0}
<1>3. 0 \in Good
  BY <1>1 DEF Adds
<1>4. ASSUME NEW k \in 1 .. N, k - 1 \in Good PROVE k \in Good
  <2>1. Share(books, first, {x}, k) = IF first + k = x THEN v ELSE 0
    BY <1>2 DEF Share
  <2>2. f[k] = f[k - 1] + (IF first + k = x THEN v ELSE 0) /\ k - 1 \in 0 .. N /\ k \in 0 .. N
    BY <1>1, <2>1 DEF Adds
  <2>3. f[k - 1] = IF x <= first + (k - 1) THEN v ELSE 0
    BY <1>4
  <2>4. QED BY <2>2, <2>3
<1> HIDE DEF Good
<1>5. 0 .. N \subseteq Good
  BY <1>3, <1>4, NoFirstException
<1>6. N \in Good
  BY <1>5
<1>7. f[N] = v
  BY <1>6 DEF Good
<1>8. QED BY <1>1, <1>2, <1>7 DEF Adds

Apart(s, t) == s \cap t = {}

LEMMA TotalOfTwo ==
  ASSUME NEW first \in Int, NEW N \in Nat, NEW books \in [(first + 1) .. (first + N) -> Int],
         NEW s, NEW t, Apart(s, t)
  PROVE  Total(books, first, N, s \union t) = Total(books, first, N, s) + Total(books, first, N, t)
<1>1. PICK f : Adds(books, first, N, s, f)
  BY TotalsExist
<1>2. PICK g : Adds(books, first, N, t, g)
  BY TotalsExist
<1>3. PICK h : Adds(books, first, N, s \union t, h)
  BY TotalsExist
<1> DEFINE Good == {k \in 0 .. N : h[k] = f[k] + g[k]}
<1>4. 0 \in Good
  BY <1>1, <1>2, <1>3 DEF Adds
<1>5. ASSUME NEW k \in 1 .. N, k - 1 \in Good PROVE k \in Good
  <2>1. Share(books, first, s \union t, k) = Share(books, first, s, k) + Share(books, first, t, k)
    <3>1. first + k \in (first + 1) .. (first + N)
      OBVIOUS
    <3>2. books[first + k] \in Int
      BY <3>1
    <3>3. first + k \notin s \/ first + k \notin t
      BY DEF Apart
    <3>4. QED BY <3>2, <3>3 DEF Share
  <2>2. Share(books, first, s, k) \in Int /\ Share(books, first, t, k) \in Int
    BY DEF Share
  <2>3. h[k - 1] = f[k - 1] + g[k - 1] /\ f[k - 1] \in Int /\ g[k - 1] \in Int
    <3>1. k - 1 \in 0 .. N
      OBVIOUS
    <3>2. QED BY <1>1, <1>2, <1>5, <3>1 DEF Adds
  <2>4. /\ f[k] = f[k - 1] + Share(books, first, s, k) /\ g[k] = g[k - 1] + Share(books, first, t, k)
        /\ h[k] = h[k - 1] + Share(books, first, s \union t, k)
    BY <1>1, <1>2, <1>3 DEF Adds
  <2>5. h[k] = f[k] + g[k]
    BY <2>1, <2>2, <2>3, <2>4
  <2>6. QED BY <2>5
<1> HIDE DEF Good
<1>6. 0 .. N \subseteq Good
  BY <1>4, <1>5, NoFirstException
<1>7. N \in Good
  BY <1>6
<1>8. h[N] = f[N] + g[N]
  BY <1>7 DEF Good
<1>9. QED BY <1>1, <1>2, <1>3, <1>8 DEF Adds

\* Whichever quarter is added next.
LEMMA SumsAreTotals ==
  ASSUME NEW first \in Int, NEW N \in Nat, NEW books \in [(first + 1) .. (first + N) -> Int],
         NEW I \in SUBSET ((first + 1) .. (first + N))
  PROVE  Facts!MapThenSumSet(LAMBDA q : books[q], I) = Total(books, first, N, I)
<1> DEFINE tot == [s \in SUBSET I |-> Total(books, first, N, s)]
           Sums(f) == f = [s \in SUBSET I |-> IF s = {} THEN 0
                              ELSE books[CHOOSE x \in s : TRUE] + f[s \ {CHOOSE x \in s : TRUE}]]
           iter == CHOOSE f : Sums(f)
<1>1. Facts!MapThenSumSet(LAMBDA q : books[q], I) = iter[I]
  BY DEF Facts!MapThenSumSet, Facts!MapThenFoldSet
<1>2. Sums(tot)
  <2>1. \A s \in SUBSET I : tot[s] = IF s = {} THEN 0
              ELSE books[CHOOSE x \in s : TRUE] + tot[s \ {CHOOSE x \in s : TRUE}]
    <3>1. SUFFICES ASSUME NEW s \in SUBSET I
                   PROVE  tot[s] = IF s = {} THEN 0
                            ELSE books[CHOOSE x \in s : TRUE] + tot[s \ {CHOOSE x \in s : TRUE}]
      OBVIOUS
    <3>2. CASE s = {}
      BY <3>2, TotalOfNone
    <3>3. CASE s # {}
      <4>1. PICK x : x = CHOOSE y \in s : TRUE
        OBVIOUS
      <4>2. x \in s
        BY <3>3, <4>1
      <4>3. s \ {x} \in SUBSET I /\ x \in (first + 1) .. (first + N) /\ {x} \cap (s \ {x}) = {} /\ {x} \union (s \ {x}) = s
        BY <4>2
      <4>4. Total(books, first, N, s) = Total(books, first, N, {x}) + Total(books, first, N, s \ {x})
        <5> HIDE DEF tot, Sums, iter
        <5>1. PICK one, rest : one = {x} /\ rest = s \ {x}
          OBVIOUS
        <5>2. Apart(one, rest) /\ one \union rest = s
          BY <4>3, <5>1 DEF Apart
        <5>3. Total(books, first, N, one \union rest) = Total(books, first, N, one) + Total(books, first, N, rest)
          BY <5>2, TotalOfTwo
        <5>4. QED BY <5>1, <5>2, <5>3
      <4>5. Total(books, first, N, {x}) = books[x]
        <5> HIDE DEF tot, Sums, iter
        <5>1. x \in (first + 1) .. (first + N)
          BY <4>3
        <5>2. QED BY <5>1, TotalOfOne
      <4>6. tot[s] = Total(books, first, N, s) /\ tot[s \ {x}] = Total(books, first, N, s \ {x})
        BY <4>3
      <4> HIDE DEF tot
      <4>7. QED BY <3>3, <4>1, <4>4, <4>5, <4>6
    <3>4. QED BY <3>2, <3>3
  <2>2. tot = [s \in SUBSET I |-> tot[s]]
    OBVIOUS
  <2> HIDE DEF tot
  <2>3. QED BY <2>1, <2>2
<1>3. Sums(iter)
  <2> HIDE DEF Sums, tot
  <2>1. QED BY <1>2
<1>4. \A s \in SUBSET I : iter[s] = IF s = {} THEN 0
          ELSE books[CHOOSE x \in s : TRUE] + iter[s \ {CHOOSE x \in s : TRUE}]
  BY <1>3
<1>5. \A s \in SUBSET I : tot[s] = IF s = {} THEN 0
          ELSE books[CHOOSE x \in s : TRUE] + tot[s \ {CHOOSE x \in s : TRUE}]
  BY <1>2
<1>6. IsFiniteSet(I) /\ Cardinality(I) \in Nat
  <2>1. IsFiniteSet((first + 1) .. (first + N))
    BY FS_Interval
  <2>2. IsFiniteSet(I)
    BY <2>1, FS_Subset
  <2>3. QED BY <2>2, FS_CardinalityType
<1> DEFINE Good == {n \in 0 .. Cardinality(I) : \A s \in SUBSET I : Cardinality(s) = n => iter[s] = tot[s]}
<1> HIDE DEF iter, tot, Sums
<1>7. 0 \in Good
  <2>1. \A s \in SUBSET I : Cardinality(s) = 0 => s = {}
    BY <1>6, FS_Subset, FS_EmptySet
  <2>2. iter[{}] = 0 /\ tot[{}] = 0 /\ {} \in SUBSET I
    BY <1>4, <1>5
  <2>3. \A s \in SUBSET I : Cardinality(s) = 0 => iter[s] = tot[s]
    BY <2>1, <2>2
  <2>4. 0 \in 0 .. Cardinality(I)
    BY <1>6
  <2>5. QED BY <2>3, <2>4
<1>8. ASSUME NEW n \in 1 .. Cardinality(I), n - 1 \in Good PROVE n \in Good
  <2>1. SUFFICES ASSUME NEW s \in SUBSET I, Cardinality(s) = n PROVE iter[s] = tot[s]
    <3>1. n \in 0 .. Cardinality(I)
      BY <1>6
    <3>2. QED BY <3>1
  <2>2. s # {}
    <3>1. Cardinality({}) = 0
      BY FS_EmptySet
    <3>2. n # 0
      OBVIOUS
    <3>3. QED BY <2>1, <3>1, <3>2
  <2>3. PICK x : x = CHOOSE y \in s : TRUE
    OBVIOUS
  <2>4. x \in s /\ s \ {x} \in SUBSET I
    BY <2>2, <2>3
  <2>5. IsFiniteSet(s)
    BY <1>6, FS_Subset
  <2>6. Cardinality(s \ {x}) = n - 1
    BY <2>1, <2>4, <2>5, FS_RemoveElement
  <2>7. iter[s \ {x}] = tot[s \ {x}]
    BY <1>8, <2>4, <2>6
  <2>8. iter[s] = books[x] + iter[s \ {x}] /\ tot[s] = books[x] + tot[s \ {x}]
    BY <1>4, <1>5, <2>2, <2>3
  <2>9. QED BY <2>7, <2>8
<1> HIDE DEF Good
<1>9. Cardinality(I) \in Good
  <2>1. PICK c \in Nat : c = Cardinality(I)
    BY <1>6
  <2>2. 0 .. c \subseteq Good
    BY <1>7, <1>8, <2>1, NoFirstException
  <2>3. QED BY <2>1, <2>2
<1>10. iter[I] = tot[I]
  BY <1>9 DEF Good
<1>11. tot[I] = Total(books, first, N, I)
  BY DEF tot
<1>12. QED BY <1>1, <1>10, <1>11 DEF iter, Sums

\* Of a period, a filing says one thing under a tag.
OneFigure(raw) ==
  /\ \A f \in raw : f.filed \in Nat /\ f.rank \in Nat
  /\ \A f, g \in raw : Facts!SamePeriod(f, g) /\ f.filed = g.filed /\ f.rank = g.rank => f.val = g.val

\* The facts of the first tag in each filing, and of them those that repeat the one before.
FirstTags(raw) == {f \in raw : \A g \in raw : (Facts!SamePeriod(f, g) /\ f.filed = g.filed) => f.rank <= g.rank}
Repeats(facts, f) ==
  \E g \in Facts!Before(facts, f) : g.val = f.val /\ \A h \in Facts!Before(facts, f) : h.filed <= g.filed

LEMMA LineIs ==
  ASSUME NEW raw
  PROVE  Facts!extractLine(raw) = {f \in FirstTags(raw) : ~Repeats(FirstTags(raw), f)}
BY DEF Facts!extractLine, FirstTags, Repeats

LEMMA OneOfAFiling ==
  ASSUME NEW raw, OneFigure(raw), NEW f \in FirstTags(raw), NEW g \in FirstTags(raw),
         Facts!SamePeriod(f, g), f.filed = g.filed
  PROVE  f.val = g.val
<1>1. f \in raw /\ g \in raw /\ f.rank \in Nat /\ g.rank \in Nat
  BY DEF FirstTags, OneFigure
<1>2. Facts!SamePeriod(g, f)
  BY DEF Facts!SamePeriod
<1>3. f.rank <= g.rank /\ g.rank <= f.rank
  BY <1>1, <1>2 DEF FirstTags
<1>4. f.rank = g.rank
  BY <1>1, <1>3
<1>5. QED BY <1>1, <1>4 DEF OneFigure

\* Of some facts of a list, one is filed last, before the day that is looked at.
LEMMA LatestOf ==
  ASSUME NEW raw, OneFigure(raw), NEW some \in SUBSET raw, some # {}, NEW day \in Nat,
         \A f \in some : f.filed < day
  PROVE  \E f \in some : \A g \in some : g.filed <= f.filed
<1> DEFINE T == {day - f.filed : f \in some}
<1>1. \A f \in some : f.filed \in Nat /\ f.filed < day /\ day - f.filed \in Nat
  BY DEF OneFigure
<1>2. T \in SUBSET Nat /\ T # {}
  BY <1>1
<1>3. PICK x \in T : \A y \in T : x <= y
  <2> HIDE DEF T
  <2>1. QED BY <1>2, SmallestOf
<1>4. PICK f \in some : x = day - f.filed
  BY <1>3
<1>5. ASSUME NEW g \in some PROVE g.filed <= f.filed
  <2>1. day - f.filed <= day - g.filed
    BY <1>3, <1>4
  <2>2. QED BY <1>1, <2>1
<1>6. QED BY <1>5

\* What a period is known by on a day: its newest filing before it, and there the first tag.
Newest(f, raw, day) ==
  /\ f \in FirstTags(raw) /\ f.filed < day
  /\ \A g \in raw : Facts!SamePeriod(f, g) /\ g.filed < day => g.filed <= f.filed

Stands(f, raw, day) ==
  \E e \in Facts!knownOn(Facts!extractLine(raw), day) : Facts!SamePeriod(f, e) /\ e.val = f.val

\* It stands in the line, in the first of the filings that say the same.
LEMMA NewestStands ==
  ASSUME NEW raw, OneFigure(raw), NEW day \in Nat, NEW f, Newest(f, raw, day)
  PROVE  Stands(f, raw, day)
<1> DEFINE P == FirstTags(raw)
           Same(e) == \A h \in P : Facts!SamePeriod(f, h) /\ e.filed <= h.filed /\ h.filed <= f.filed => h.val = f.val
           Since == {e \in P : Facts!SamePeriod(f, e) /\ e.filed <= f.filed /\ Same(e)}
           T == {e.filed : e \in Since}
<1>1. /\ f \in P /\ P \subseteq raw /\ \A e \in P : e.filed \in Nat
      /\ \A e, h \in P : Facts!SamePeriod(e, h) /\ e.filed = h.filed => e.val = h.val
  <2>1. f \in P /\ P \subseteq raw /\ \A e \in P : e.filed \in Nat
    BY DEF Newest, FirstTags, OneFigure
  <2>2. QED BY <2>1, OneOfAFiling
<1>2. \A d, e, h : Facts!SamePeriod(d, e) /\ Facts!SamePeriod(d, h) => Facts!SamePeriod(e, h) /\ Facts!SamePeriod(e, d)
  BY DEF Facts!SamePeriod
<1>3. \A d, e, h : Facts!SamePeriod(d, e) /\ Facts!SamePeriod(e, h) => Facts!SamePeriod(d, h)
  BY DEF Facts!SamePeriod
<1>4. \A g \in raw : Facts!SamePeriod(f, g) /\ g.filed < day => g.filed <= f.filed
  BY DEF Newest
<1> HIDE DEF P
<1>5. f \in Since
  <2>1. Facts!SamePeriod(f, f) /\ f.filed <= f.filed
    BY <1>1 DEF Facts!SamePeriod
  <2>2. Same(f)
    <3>1. SUFFICES ASSUME NEW h \in P, Facts!SamePeriod(f, h), f.filed <= h.filed, h.filed <= f.filed PROVE h.val = f.val
      OBVIOUS
    <3>2. h.filed = f.filed
      BY <1>1, <3>1
    <3>3. QED BY <1>1, <3>1, <3>2
  <2>3. QED BY <1>1, <2>1, <2>2
<1> HIDE DEF Same
<1>6. T \in SUBSET Nat /\ T # {}
  BY <1>1, <1>5
<1>7. PICK x \in T : \A y \in T : x <= y
  <2> HIDE DEF T
  <2>1. QED BY <1>6, SmallestOf
<1>8. PICK e \in Since : x = e.filed
  BY <1>7
<1>9. /\ e \in P /\ Facts!SamePeriod(f, e) /\ e.filed <= f.filed /\ Same(e)
      /\ e.filed \in Nat /\ f.filed \in Nat /\ \A d \in Since : e.filed <= d.filed
  BY <1>1, <1>7, <1>8
<1> HIDE DEF T, Since
<1>10. e.val = f.val
  BY <1>1, <1>9 DEF Same
<1>11. ~Repeats(P, e)
  <2>1. SUFFICES ASSUME Repeats(P, e) PROVE FALSE
    OBVIOUS
  <2>2. PICK g \in Facts!Before(P, e) : g.val = e.val /\ \A h \in Facts!Before(P, e) : h.filed <= g.filed
    BY <2>1 DEF Repeats
  <2>3. g \in P /\ Facts!SamePeriod(e, g) /\ g.filed < e.filed /\ g.filed \in Nat
    BY <1>1, <2>2 DEF Facts!Before
  <2>4. Same(g)
    <3>1. SUFFICES ASSUME NEW h \in P, Facts!SamePeriod(f, h), g.filed <= h.filed, h.filed <= f.filed PROVE h.val = f.val
      BY DEF Same
    <3>2. h.filed \in Nat /\ Facts!SamePeriod(e, h) /\ Facts!SamePeriod(g, h)
      BY <1>1, <1>2, <1>9, <2>3, <3>1
    <3>3. CASE e.filed <= h.filed
      BY <1>9, <3>1, <3>3 DEF Same
    <3>4. CASE h.filed < e.filed
      <4>1. h \in Facts!Before(P, e)
        BY <3>2, <3>4 DEF Facts!Before
      <4>2. h.filed = g.filed
        BY <2>2, <2>3, <3>1, <3>2, <4>1
      <4>3. QED BY <1>1, <1>10, <2>2, <2>3, <3>2, <4>2
    <3>5. QED BY <1>9, <3>2, <3>3, <3>4
  <2>5. g \in Since
    <3>1. Facts!SamePeriod(f, g) /\ g.filed <= f.filed
      BY <1>3, <1>9, <2>3
    <3>2. QED BY <2>3, <2>4, <3>1 DEF Since
  <2>6. e.filed <= g.filed
    BY <1>9, <2>5
  <2>7. QED BY <1>9, <2>3, <2>6
<1>12. e.filed < day
  <2>1. f.filed < day
    BY DEF Newest
  <2>2. QED BY <1>9, <2>1
<1>13. ASSUME NEW h \in Facts!extractLine(raw), Facts!SamePeriod(e, h), h.filed < day
       PROVE  h.filed <= e.filed
  <2>1. SUFFICES ASSUME ~(h.filed <= e.filed) PROVE FALSE
    OBVIOUS
  <2>2. h \in P /\ ~Repeats(P, h) /\ h \in raw /\ h.filed \in Nat
    BY <1>1, LineIs DEF P
  <2>3. Facts!SamePeriod(f, h) /\ Facts!SamePeriod(h, e) /\ h.filed <= f.filed /\ e.filed < h.filed
    BY <1>2, <1>3, <1>4, <1>9, <1>13, <2>1, <2>2
  <2> DEFINE B == Facts!Before(P, h)
  <2>4. \A b \in B : b \in P /\ Facts!SamePeriod(h, b) /\ b.filed < h.filed
    BY DEF Facts!Before
  <2>5. e \in B
    BY <1>9, <2>3 DEF Facts!Before
  <2> HIDE DEF B
  <2>6. B \in SUBSET raw /\ B # {} /\ \A b \in B : b.filed < h.filed
    BY <1>1, <2>4, <2>5
  <2>7. PICK g \in B : \A b \in B : b.filed <= g.filed
    BY <2>2, <2>6, LatestOf
  <2>8. e.filed <= g.filed /\ g \in P /\ Facts!SamePeriod(f, g) /\ g.filed \in Nat /\ g.filed <= f.filed
    BY <1>1, <1>3, <1>9, <2>2, <2>3, <2>4, <2>5, <2>7
  <2>9. g.val = f.val /\ h.val = f.val
    <3>1. e.filed <= h.filed
      BY <1>9, <2>2, <2>3
    <3>2. QED BY <1>9, <2>2, <2>3, <2>8, <3>1 DEF Same
  <2>10. Repeats(P, h)
    BY <2>7, <2>9 DEF Repeats, B
  <2>11. QED BY <2>2, <2>10
<1>14. e \in Facts!extractLine(raw)
  BY <1>9, <1>11, LineIs DEF P
<1>15. e \in Facts!knownOn(Facts!extractLine(raw), day)
  BY <1>12, <1>13, <1>14 DEF Facts!knownOn
<1>16. QED BY <1>9, <1>10, <1>15 DEF Stands

\* Said of a day is what its newest filing before it said, of every period that had one.
LEMMA SaidIsNewest ==
  ASSUME NEW raw, OneFigure(raw), NEW day \in Nat
  PROVE  /\ \A f \in Facts!saidBefore(raw, day) : Newest(f, raw, day)
         /\ \A e \in raw : e.filed < day => \E f \in Facts!saidBefore(raw, day) : Facts!SamePeriod(e, f)
<1> DEFINE then == {f \in raw : f.filed < day}
<1>0. \A f \in raw : f.filed \in Nat /\ f.rank \in Nat
  BY DEF OneFigure
<1>1. Facts!saidBefore(raw, day) =
        {f \in then : \A g \in then : Facts!SamePeriod(f, g) => /\ ~(g.filed > f.filed)
                                                                /\ ~(g.filed = f.filed /\ g.rank < f.rank)}
  BY DEF Facts!saidBefore
<1>2. ASSUME NEW f \in Facts!saidBefore(raw, day) PROVE Newest(f, raw, day)
  <2>1. /\ f \in raw /\ f.filed < day
        /\ \A g \in then : Facts!SamePeriod(f, g) => /\ ~(g.filed > f.filed)
                                                     /\ ~(g.filed = f.filed /\ g.rank < f.rank)
    BY <1>1
  <2>2. ASSUME NEW g \in raw, Facts!SamePeriod(f, g), g.filed < day PROVE g.filed <= f.filed
    BY <1>0, <2>1, <2>2
  <2>3. ASSUME NEW g \in raw, Facts!SamePeriod(f, g), f.filed = g.filed PROVE f.rank <= g.rank
    BY <1>0, <2>1, <2>3
  <2>4. QED BY <2>1, <2>2, <2>3 DEF Newest, FirstTags
<1>3. ASSUME NEW e \in raw, e.filed < day
      PROVE  \E f \in Facts!saidBefore(raw, day) : Facts!SamePeriod(e, f)
  <2> DEFINE its == {g \in then : Facts!SamePeriod(e, g)}
  <2>1. its \in SUBSET raw /\ its # {} /\ \A g \in its : g.filed < day
    BY <1>3 DEF Facts!SamePeriod
  <2> HIDE DEF its
  <2>2. PICK last \in its : \A g \in its : g.filed <= last.filed
    BY <2>1, LatestOf
  <2> DEFINE ranks == {g.rank : g \in {g \in its : g.filed = last.filed}}
  <2>3. ranks \in SUBSET Nat /\ ranks # {}
    BY <1>0, <2>1
  <2>4. PICK x \in ranks : \A y \in ranks : x <= y
    <3> HIDE DEF ranks
    <3>1. QED BY <2>3, SmallestOf
  <2>5. PICK f \in its : f.filed = last.filed /\ f.rank = x
    BY <2>4
  <2>6. ASSUME NEW g \in then, Facts!SamePeriod(f, g)
        PROVE  ~(g.filed > f.filed) /\ ~(g.filed = f.filed /\ g.rank < f.rank)
    <3>1. g \in its
      BY <2>5, <2>6 DEF its, Facts!SamePeriod
    <3>2. g.filed <= f.filed /\ g.filed \in Nat /\ f.filed \in Nat /\ g.rank \in Nat /\ f.rank \in Nat
      BY <1>0, <2>1, <2>2, <2>5, <3>1
    <3>3. g.filed = f.filed => f.rank <= g.rank
      BY <2>4, <2>5, <3>1
    <3>4. QED BY <3>2, <3>3
  <2>7. f \in Facts!saidBefore(raw, day) /\ Facts!SamePeriod(e, f)
    BY <1>1, <2>5, <2>6 DEF its
  <2>8. QED BY <2>7
<1>4. QED BY <1>2, <1>3

LEMMA NoHindsight ==
  ASSUME NEW raw, OneFigure(raw), NEW day \in Nat
  PROVE  Facts!figures(Facts!knownOn(Facts!extractLine(raw), day)) = Facts!figures(Facts!saidBefore(raw, day))
<1> DEFINE known == Facts!knownOn(Facts!extractLine(raw), day)
           said == Facts!saidBefore(raw, day)
<1>1. ASSUME NEW f \in said PROVE \E e \in known : Facts!SamePeriod(f, e) /\ e.val = f.val
  <2>1. Newest(f, raw, day)
    BY SaidIsNewest
  <2>2. QED BY <2>1, NewestStands DEF Stands
<1>2. ASSUME NEW e \in known PROVE \E f \in said : Facts!SamePeriod(e, f) /\ e.val = f.val
  <2>1. /\ e \in FirstTags(raw) /\ e \in raw /\ e.filed < day /\ e.filed \in Nat
        /\ \A g \in Facts!extractLine(raw) : Facts!SamePeriod(e, g) /\ g.filed < day => g.filed <= e.filed
    BY LineIs DEF Facts!knownOn, FirstTags, OneFigure
  <2>2. PICK f \in said : Facts!SamePeriod(e, f)
    BY <2>1, SaidIsNewest
  <2>3. PICK d \in known : Facts!SamePeriod(f, d) /\ d.val = f.val
    BY <1>1
  <2>4. /\ d \in FirstTags(raw) /\ d \in Facts!extractLine(raw) /\ d.filed < day /\ d.filed \in Nat
        /\ \A g \in Facts!extractLine(raw) : Facts!SamePeriod(d, g) /\ g.filed < day => g.filed <= d.filed
    BY LineIs DEF Facts!knownOn, FirstTags, OneFigure
  <2>5. Facts!SamePeriod(e, d) /\ Facts!SamePeriod(d, e) /\ e \in Facts!extractLine(raw)
    BY <2>2, <2>3 DEF Facts!SamePeriod, Facts!knownOn
  <2>6. e.filed = d.filed
    BY <2>1, <2>4, <2>5
  <2>7. e.val = d.val
    BY <2>1, <2>4, <2>5, <2>6, OneOfAFiling
  <2>8. QED BY <2>2, <2>3, <2>7
<1> HIDE DEF known, said
<1>3. \A e, f : Facts!SamePeriod(f, e) /\ e.val = f.val => <<f.start, f.end, f.val>> = <<e.start, e.end, e.val>>
  BY DEF Facts!SamePeriod
<1>4. Facts!figures(said) \subseteq Facts!figures(known)
  <2>1. SUFFICES ASSUME NEW f \in said PROVE <<f.start, f.end, f.val>> \in Facts!figures(known)
    BY DEF Facts!figures
  <2>2. QED BY <1>1, <1>3 DEF Facts!figures
<1>5. Facts!figures(known) \subseteq Facts!figures(said)
  <2>1. SUFFICES ASSUME NEW e \in known PROVE <<e.start, e.end, e.val>> \in Facts!figures(said)
    BY DEF Facts!figures
  <2>2. PICK f \in said : Facts!SamePeriod(e, f) /\ e.val = f.val
    BY <1>2
  <2>3. <<e.start, e.end, e.val>> = <<f.start, f.end, f.val>>
    BY <2>2 DEF Facts!SamePeriod
  <2>4. QED BY <2>2, <2>3 DEF Facts!figures
<1>6. Facts!figures(known) = Facts!figures(said)
  BY <1>4, <1>5
<1>7. QED BY <1>6 DEF known, said

\* What is filed is filed today, and says one thing of a period under a tag.
FactsInv ==
  /\ now \in Nat /\ tags \subseteq Nat
  /\ OneFigure(revenue) /\ \A f \in revenue : f.filed < now

LEMMA FactsInit == ASSUME FirstQuarter \in Nat, Facts!Init PROVE FactsInv
BY DEF Facts!Init, Facts!Ended, Facts!Quarter, FactsInv, OneFigure

LEMMA FilingKeeps ==
  ASSUME FactsInv, NEW q, NEW books, Facts!File(q, books), now' \in Nat, now < now', tags' = tags
  PROVE  FactsInv'
<1> DEFINE new == {[start |-> p.start, end |-> p.end, val |-> Facts!Reported(p, rank, books), filed |-> now, rank |-> rank] :
                     p \in Facts!Periods(q), rank \in tags}
           Reports(s, t, rank) == Facts!Reported([start |-> s, end |-> t], rank, books)
<1>1. revenue' = revenue \union new
  BY DEF Facts!File
<1>2. \A p \in Facts!Periods(q) : p = [start |-> p.start, end |-> p.end]
  BY DEF Facts!Periods
<1>3. \A f \in new : f.filed = now /\ f.rank \in tags /\ f.val = Reports(f.start, f.end, f.rank)
  BY <1>2
<1> HIDE DEF new, Reports
<1>4. /\ \A f \in revenue : f.filed \in Nat /\ f.rank \in Nat /\ f.filed < now
      /\ now \in Nat /\ tags \subseteq Nat
      /\ \A f, g \in revenue : Facts!SamePeriod(f, g) /\ f.filed = g.filed /\ f.rank = g.rank => f.val = g.val
  BY DEF FactsInv, OneFigure
<1>5. ASSUME NEW f \in revenue' PROVE f.filed \in Nat /\ f.rank \in Nat /\ f.filed < now'
  <2>1. now' \in Nat /\ now < now'
    OBVIOUS
  <2>2. CASE f \in revenue
    <3>1. f.filed \in Nat /\ f.rank \in Nat /\ f.filed < now
      BY <1>4, <2>2
    <3>2. QED BY <1>4, <2>1, <3>1
  <2>3. CASE f \in new
    <3>1. f.filed = now /\ f.rank \in Nat
      BY <1>3, <1>4, <2>3
    <3>2. QED BY <1>4, <2>1, <3>1
  <2>4. QED BY <1>1, <2>2, <2>3
<1>6. ASSUME NEW f \in revenue', NEW g \in revenue', Facts!SamePeriod(f, g), f.filed = g.filed, f.rank = g.rank
      PROVE  f.val = g.val
  <2>1. CASE f \in new /\ g \in new
    BY <1>3, <1>6, <2>1 DEF Facts!SamePeriod
  <2>2. CASE f \in revenue /\ g \in revenue
    BY <1>4, <1>6, <2>2
  <2>3. ASSUME NEW d \in new, NEW e \in revenue PROVE d.filed # e.filed
    BY <1>3, <1>4
  <2>4. QED BY <1>1, <1>6, <2>1, <2>2, <2>3
<1>7. QED BY <1>4, <1>5, <1>6 DEF FactsInv, OneFigure

LEMMA FactsStep == FactsInv /\ [Facts!Next]_(Facts!vars) => FactsInv'
<1> SUFFICES ASSUME FactsInv, [Facts!Next]_(Facts!vars) PROVE FactsInv'
  OBVIOUS
<1>1. now \in Nat /\ tags \subseteq Nat /\ OneFigure(revenue) /\ \A f \in revenue : f.filed < now
  BY DEF FactsInv
<1>2. Facts!NextTick => now' \in Nat /\ now < now'
  BY <1>1 DEF Facts!NextTick, Facts!Quarter
<1>3. ASSUME revenue' = revenue, Facts!NextTick, tags' = tags PROVE FactsInv'
  <2>1. \A f \in revenue : f.filed \in Nat
    BY <1>1 DEF OneFigure
  <2>2. \A f \in revenue : f.filed < now'
    BY <1>1, <1>2, <1>3, <2>1
  <2>3. OneFigure(revenue)'
    BY <1>1, <1>3 DEF OneFigure
  <2>4. QED BY <1>1, <1>2, <1>3, <2>2, <2>3 DEF FactsInv
<1>4. CASE Facts!Report
  BY <1>2, <1>4, FilingKeeps DEF Facts!Report
<1>5. CASE Facts!Miss
  BY <1>3, <1>5 DEF Facts!Miss
<1>6. CASE Facts!ReportLate
  BY <1>2, <1>6, FilingKeeps DEF Facts!ReportLate
<1>7. CASE Facts!Restate
  BY <1>2, <1>3, <1>7, FilingKeeps DEF Facts!Restate
<1>8. CASE Facts!Rename
  <2>1. revenue' = revenue /\ now' = now /\ tags' \subseteq Nat
    BY <1>8 DEF Facts!Rename
  <2>2. QED BY <1>1, <2>1 DEF FactsInv, OneFigure
<1>9. CASE Facts!Split
  BY <1>3, <1>9 DEF Facts!Split
<1>10. CASE Facts!Tick
  BY <1>3, <1>10 DEF Facts!Tick
<1>11. CASE UNCHANGED Facts!vars
  BY <1>1, <1>11 DEF Facts!vars, FactsInv, OneFigure
<1>12. QED BY <1>4, <1>5, <1>6, <1>7, <1>8, <1>9, <1>10, <1>11 DEF Facts!Next

\* When a report is due: its quarter is over on the days it may be filed on, and of the one
\* before it always.
Calendar ==
  /\ now \in Nat /\ due \in Nat /\ now % 4 # 0
  /\ 4 * (due - 1) < now /\ (now % 4 # 3 => 4 * due < now)

LEMMA CalendarTurns ==
  ASSUME NEW n \in Nat, NEW d \in Nat, NEW m \in Nat, NEW e \in Nat,
         n % 4 # 0, 4 * (d - 1) < n, n % 4 # 3 => 4 * d < n,
         m = (IF n % 4 = 3 THEN n + 2 ELSE n + 1), e = d \/ (e = d + 1 /\ 4 * d < n /\ n % 4 # 1)
  PROVE  m % 4 # 0 /\ 4 * (e - 1) < m /\ (m % 4 # 3 => 4 * e < m)
<1>1. PICK k \in Nat, r \in 1 .. 3 : n = 4 * k + r /\ n % 4 = r
  <2>1. n \div 4 \in Nat /\ n % 4 \in 1 .. 3 /\ n = 4 * (n \div 4) + (n % 4)
    OBVIOUS
  <2>2. QED BY <2>1
<1>2. 4 * (e - 1) < n
  OBVIOUS
<1>3. CASE r = 3
  <2>1. m = 4 * k + 5 /\ e <= k + 1
    BY <1>1, <1>2, <1>3
  <2>2. QED BY <2>1
<1>4. CASE r # 3
  <2>1. m = 4 * k + r + 1 /\ 4 * d < n /\ (r = 1 \/ r = 2) /\ m % 4 = r + 1
    BY <1>1, <1>4
  <2>2. d <= k
    BY <1>1, <2>1
  <2>3. CASE e = d
    BY <2>1, <2>2, <2>3
  <2>4. CASE e = d + 1 /\ n % 4 # 1
    <3>1. r = 2
      BY <1>1, <2>1, <2>4
    <3>2. QED BY <2>1, <2>2, <2>4, <3>1
  <2>5. QED BY <2>3, <2>4
<1>5. QED BY <1>3, <1>4

LEMMA CalendarStep == Calendar /\ [Facts!Next]_(Facts!vars) => Calendar'
<1> SUFFICES ASSUME Calendar, [Facts!Next]_(Facts!vars) PROVE Calendar'
  OBVIOUS
<1>1. /\ now \in Nat /\ due \in Nat /\ now % 4 # 0
      /\ 4 * (due - 1) < now /\ (now % 4 # 3 => 4 * due < now)
  BY DEF Calendar
<1>2. now % 4 \in {1, 2, 3}
  BY <1>1
<1>3. Facts!NextTick => now' = IF now % 4 = 3 THEN now + 2 ELSE now + 1
  BY DEF Facts!NextTick, Facts!Quarter
<1>4. ASSUME Facts!NextTick, due' = due \/ (due' = due + 1 /\ 4 * due < now /\ now % 4 # 1) PROVE Calendar'
  <2>1. now' \in Nat /\ due' \in Nat /\ now' = (IF now % 4 = 3 THEN now + 2 ELSE now + 1)
    BY <1>1, <1>3, <1>4
  <2>2. now' % 4 # 0 /\ 4 * (due' - 1) < now' /\ (now' % 4 # 3 => 4 * due' < now')
    BY ONLY <1>1, <1>4, <2>1, CalendarTurns
  <2>3. QED BY ONLY <2>1, <2>2 DEF Calendar
<1>5. CASE Facts!Report
  BY <1>4, <1>5, <1>1 DEF Facts!Report, Facts!Filing, Facts!Ended, Facts!Quarter
<1>6. CASE Facts!Miss
  <2>1. 4 * due < now /\ now % 4 # 1
    BY <1>1, <1>6 DEF Facts!Miss, Facts!Filing, Facts!Quarter
  <2>2. QED BY <1>4, <1>6, <2>1 DEF Facts!Miss
<1>7. CASE Facts!ReportLate
  BY <1>4, <1>7, <1>1 DEF Facts!ReportLate, Facts!Overdue, Facts!Ended, Facts!Quarter
<1>8. CASE Facts!Restate
  BY <1>4, <1>8 DEF Facts!Restate
<1>9. CASE Facts!Rename
  BY <1>1, <1>9 DEF Facts!Rename, Calendar
<1>10. CASE Facts!Split
  BY <1>4, <1>10 DEF Facts!Split
<1>11. CASE Facts!Tick
  BY <1>4, <1>11 DEF Facts!Tick
<1>12. CASE UNCHANGED Facts!vars
  BY <1>1, <1>12 DEF Facts!vars, Calendar
<1>13. QED BY <1>5, <1>6, <1>7, <1>8, <1>9, <1>10, <1>11, <1>12 DEF Facts!Next

\* What a step does to the figures: nothing, a split, or a filing on a quarter that is over.
Restates == (sold' = sold /\ restated' = restated) \/ restated' = TRUE
StaysSo == revenue' = revenue /\ diluted' = diluted /\ splits' = splits
Splits == revenue' = revenue /\ diluted' = diluted /\ splits' = splits \union {now} /\ now < now'
Files == splits' = splits /\ tags' = tags /\ now < now' /\ \E q \in Nat : 4 * q < now /\ Facts!File(q, sold')
StepIs == now' \in Nat /\ now <= now' /\ Restates /\ (StaysSo \/ Splits \/ Files)

LEMMA EachStep == FirstQuarter \in Nat /\ Calendar /\ [Facts!Next]_(Facts!vars) => StepIs
<1> SUFFICES ASSUME FirstQuarter \in Nat, Calendar, [Facts!Next]_(Facts!vars) PROVE StepIs
  OBVIOUS
<1>1. /\ now \in Nat /\ due \in Nat /\ now % 4 # 0
      /\ 4 * (due - 1) < now /\ (now % 4 # 3 => 4 * due < now)
  BY DEF Calendar
<1>2. Facts!NextTick => now' \in Nat /\ now < now' /\ now <= now'
  BY <1>1 DEF Facts!NextTick, Facts!Quarter
<1>3. \A q \in Nat : Facts!Ended(q) = 4 * q
  BY DEF Facts!Ended, Facts!Quarter
<1>4. CASE Facts!Report
  <2>1. 4 * due < now /\ Facts!File(due, sold) /\ Facts!NextTick /\ sold' = sold /\ tags' = tags /\ splits' = splits /\ restated' = restated
    BY <1>1, <1>3, <1>4 DEF Facts!Report
  <2>2. Facts!File(due, sold')
    BY <2>1
  <2>3. QED BY <1>1, <1>2, <2>1, <2>2 DEF StepIs, Files, Restates
<1>5. CASE Facts!Miss
  BY <1>2, <1>5 DEF Facts!Miss, StepIs, StaysSo, Restates
<1>6. CASE Facts!ReportLate
  <2>1. 4 * due < now /\ Facts!File(due, sold) /\ Facts!NextTick /\ sold' = sold /\ tags' = tags /\ splits' = splits /\ restated' = restated
    BY <1>1, <1>3, <1>6 DEF Facts!ReportLate, Facts!Overdue
  <2>2. Facts!File(due, sold')
    BY <2>1
  <2>3. QED BY <1>1, <1>2, <2>1, <2>2 DEF StepIs, Files, Restates
<1>7. CASE Facts!Restate
  <2>1. /\ Facts!NextTick /\ restated' = TRUE /\ tags' = tags /\ splits' = splits
        /\ \E q \in FirstQuarter .. LastQuarter : q < due
        /\ Facts!File(due - 1, sold') \/ (revenue' = revenue /\ diluted' = diluted)
    BY <1>7 DEF Facts!Restate
  <2>2. due - 1 \in Nat
    BY <1>1, <2>1
  <2>3. QED BY <1>1, <1>2, <2>1, <2>2 DEF StepIs, Files, StaysSo, Restates
<1>8. CASE Facts!Rename
  BY <1>1, <1>8 DEF Facts!Rename, StepIs, StaysSo, Restates
<1>9. CASE Facts!Split
  BY <1>2, <1>9 DEF Facts!Split, StepIs, Splits, Restates
<1>10. CASE Facts!Tick
  BY <1>2, <1>10 DEF Facts!Tick, StepIs, StaysSo, Restates
<1>11. CASE UNCHANGED Facts!vars
  BY <1>1, <1>11 DEF Facts!vars, StepIs, StaysSo, Restates
<1>12. QED BY <1>4, <1>5, <1>6, <1>7, <1>8, <1>9, <1>10, <1>11 DEF Facts!Next

LEMMA PeriodsAre ==
  ASSUME NEW q \in Nat, NEW p \in Facts!Periods(q)
  PROVE  /\ p = [start |-> p.start, end |-> p.end]
         /\ p.start \in Int /\ p.end \in Int /\ p.start <= p.end /\ p.end <= 4 * q
<1>1. PICK back \in {0, 4}, length \in IF Facts!Yearly(q) THEN {16} ELSE {4, (q % 4) * 4} :
        p = [start |-> Facts!Ended(q - back) - length, end |-> Facts!Ended(q - back)]
  BY DEF Facts!Periods, Facts!Year, Facts!Quarter
<1>2. length \in Nat
  <2>1. q % 4 \in Nat
    OBVIOUS
  <2>2. QED BY <1>1, <2>1
<1>3. Facts!Ended(q - back) \in Int /\ Facts!Ended(q - back) <= 4 * q
  BY DEF Facts!Ended, Facts!Quarter
<1>4. QED BY <1>1, <1>2, <1>3

\* A period that is over when it is filed.
Spanned(f, day) ==
  /\ f.start \in Int /\ f.end \in Int /\ f.filed \in Nat
  /\ f.start <= f.end /\ f.end < f.filed /\ f.filed < day

\* What is new was filed today; of shares, on the basis of today; of revenue, the sum of its
\* quarters, or beside it under the first tag.
SoldIn(start, end, books) == Facts!Sold([start |-> start, end |-> end], books)
FirstIn(f, raw) == \E g \in raw : Facts!SamePeriod(f, g) /\ f.filed = g.filed /\ g.rank = 1 /\ f.rank = 2

RevenueTold(f, raw, books) == f.val = SoldIn(f.start, f.end, books) \/ FirstIn(f, raw)
SharesTold(f, upTo) == f.val = Facts!SharesAfter(Facts!Cardinality(upTo))
FiledRevenue(f, books) == Spanned(f, now') /\ f.filed = now /\ RevenueTold(f, revenue', books)
FiledShares(f) == Spanned(f, now') /\ f.filed = now /\ SharesTold(f, splits)

LEMMA WhatIsFiled ==
  ASSUME NEW q \in Nat, NEW books, Facts!File(q, books), 4 * q < now, now \in Nat, now' \in Nat, now < now'
  PROVE  /\ \A f \in revenue' : f \in revenue \/ FiledRevenue(f, books)
         /\ \A f \in diluted' : f \in diluted \/ FiledShares(f)
         /\ revenue \subseteq revenue'
<1> DEFINE fact(p, rank) == [start |-> p.start, end |-> p.end, val |-> Facts!Reported(p, rank, books), filed |-> now, rank |-> rank]
           share(p) == [start |-> p.start, end |-> p.end, val |-> Facts!SharesAfter(Facts!Cardinality(splits)), filed |-> now, rank |-> 1]
<1>1. /\ revenue' = revenue \union {fact(p, rank) : p \in Facts!Periods(q), rank \in tags}
      /\ diluted' = diluted \union {share(p) : p \in Facts!Periods(q)}
  BY DEF Facts!File
<1>2. ASSUME NEW p \in Facts!Periods(q), NEW rank \in tags
      PROVE  FiledRevenue(fact(p, rank), books)
  <2> DEFINE f == fact(p, rank)
  <2>1. /\ f.start = p.start /\ f.end = p.end /\ f.filed = now /\ f.rank = rank /\ f.val = Facts!Reported(p, rank, books)
        /\ f \in revenue'
    BY <1>1
  <2>2. /\ p = [start |-> p.start, end |-> p.end]
        /\ p.start \in Int /\ p.end \in Int /\ p.start <= p.end /\ p.end <= 4 * q
    BY PeriodsAre
  <2>3. CASE rank = 2 /\ 1 \in tags
    <3> DEFINE g == fact(p, 1)
    <3>1. g \in revenue' /\ g.start = p.start /\ g.end = p.end /\ g.filed = now /\ g.rank = 1
      BY <1>1, <2>3
    <3> HIDE DEF f, g, fact
    <3>2. FirstIn(f, revenue')
      BY <2>1, <2>3, <3>1 DEF FirstIn, Facts!SamePeriod
    <3>3. QED BY <2>1, <2>2, <3>2 DEF Spanned, FiledRevenue, RevenueTold, f
  <2>4. CASE ~(rank = 2 /\ 1 \in tags)
    <3>1. f.val = Facts!Sold(p, books)
      BY <2>1, <2>4 DEF Facts!Reported
    <3> HIDE DEF f, fact
    <3>2. f.val = SoldIn(f.start, f.end, books)
      BY <2>1, <2>2, <3>1 DEF SoldIn
    <3>3. QED BY <2>1, <2>2, <3>2 DEF Spanned, FiledRevenue, RevenueTold, f
  <2>5. QED BY <2>3, <2>4
<1>3. ASSUME NEW p \in Facts!Periods(q)
      PROVE  FiledShares(share(p))
  <2>1. share(p).start = p.start /\ share(p).end = p.end /\ share(p).filed = now /\ share(p).val = Facts!SharesAfter(Facts!Cardinality(splits))
    OBVIOUS
  <2>2. p.start \in Int /\ p.end \in Int /\ p.start <= p.end /\ p.end <= 4 * q
    BY PeriodsAre
  <2> HIDE DEF share
  <2>3. QED BY <2>1, <2>2 DEF Spanned, FiledShares, SharesTold
<1> HIDE DEF fact, share
<1>4. QED BY <1>1, <1>2, <1>3

SpansKept == \A f \in revenue \union diluted : Spanned(f, now)
SplitsKept ==
  /\ IsFiniteSet(splits) /\ \A s \in splits : s \in Nat /\ s < now
  /\ \A f \in diluted : SharesTold(f, {s \in splits : s < f.filed})
SalesTold == sold \in [(FirstQuarter - 7) .. LastQuarter -> Int] /\ \A f \in revenue : RevenueTold(f, revenue, sold)
BooksInv == Calendar /\ SpansKept /\ SplitsKept /\ restated \in BOOLEAN /\ (restated \/ SalesTold)

LEMMA BooksInit == WholeBooks /\ Facts!Init => BooksInv
<1> SUFFICES ASSUME WholeBooks, Facts!Init PROVE BooksInv
  OBVIOUS
<1>1. /\ now = 4 * FirstQuarter + 1 /\ due = FirstQuarter /\ FirstQuarter \in Nat
      /\ revenue = {} /\ diluted = {} /\ splits = {} /\ restated = FALSE /\ sold = Sales
  BY DEF WholeBooks, Facts!Init, Facts!Ended, Facts!Quarter
<1>2. Calendar
  BY <1>1 DEF Calendar
<1>3. SpansKept /\ SalesTold
  BY <1>1 DEF SpansKept, SalesTold, WholeBooks
<1>4. SplitsKept
  BY <1>1, FS_EmptySet DEF SplitsKept
<1>5. QED BY <1>1, <1>2, <1>3, <1>4 DEF BooksInv

LEMMA SpansStep ==
  ASSUME now \in Nat, SpansKept, StepIs
  PROVE  SpansKept'
<1>1. now' \in Nat /\ now <= now'
  BY DEF StepIs
<1>2. ASSUME NEW f, Spanned(f, now) PROVE Spanned(f, now')
  BY <1>1, <1>2 DEF Spanned
<1>3. CASE StaysSo \/ Splits
  <2>1. revenue' = revenue /\ diluted' = diluted
    BY <1>3 DEF StaysSo, Splits
  <2>2. QED BY <1>2, <2>1 DEF SpansKept
<1>4. CASE Files
  <2>1. PICK q \in Nat : 4 * q < now /\ Facts!File(q, sold')
    BY <1>4 DEF Files
  <2>2. /\ \A f \in revenue' : f \in revenue \/ FiledRevenue(f, sold')
        /\ \A f \in diluted' : f \in diluted \/ FiledShares(f)
    BY <1>1, <1>4, <2>1, WhatIsFiled DEF Files
  <2>3. \A f \in revenue' \union diluted' : Spanned(f, now')
    BY <1>2, <2>2 DEF SpansKept, FiledRevenue, FiledShares
  <2>4. QED BY <2>3 DEF SpansKept
<1>5. QED BY <1>3, <1>4 DEF StepIs

LEMMA SplitsStep ==
  ASSUME now \in Nat, SpansKept, SplitsKept, StepIs
  PROVE  SplitsKept'
<1>1. now' \in Nat /\ now <= now'
  BY DEF StepIs
<1>2. /\ IsFiniteSet(splits) /\ \A s \in splits : s \in Nat /\ s < now
      /\ \A f \in diluted : SharesTold(f, {s \in splits : s < f.filed}) /\ f.filed \in Nat /\ f.filed < now
  BY DEF SplitsKept, SpansKept, Spanned
<1>3. \A s \in splits : s \in Nat /\ s < now'
  BY <1>1, <1>2
<1>4. CASE StaysSo
  <2>1. splits' = splits /\ diluted' = diluted
    BY <1>4 DEF StaysSo
  <2>2. \A f \in diluted' : SharesTold(f, {s \in splits' : s < f.filed})
    BY <1>2, <2>1
  <2>3. QED BY <1>2, <1>3, <2>1, <2>2 DEF SplitsKept, SharesTold
<1>5. CASE Splits
  <2>1. splits' = splits \union {now} /\ diluted' = diluted /\ now < now'
    BY <1>5 DEF Splits
  <2>2. IsFiniteSet(splits') /\ \A s \in splits' : s \in Nat /\ s < now'
    BY <1>2, <1>3, <2>1, FS_AddElement
  <2>3. ASSUME NEW f \in diluted PROVE SharesTold(f, {s \in splits' : s < f.filed})
    <3>1. f.filed \in Nat /\ ~(now < f.filed)
      <4>1. f.filed \in Nat /\ f.filed < now
        BY <1>2
      <4>2. QED BY <4>1
    <3>2. {s \in splits' : s < f.filed} = {s \in splits : s < f.filed}
      BY <2>1, <3>1
    <3>3. QED BY <1>2, <3>2
  <2>4. QED BY <2>1, <2>2, <2>3 DEF SplitsKept, SharesTold
<1>6. CASE Files
  <2>1. splits' = splits /\ now < now'
    BY <1>6 DEF Files
  <2>2. PICK q \in Nat : 4 * q < now /\ Facts!File(q, sold')
    BY <1>6 DEF Files
  <2>3. \A f \in diluted' : f \in diluted \/ FiledShares(f)
    BY <1>1, <2>1, <2>2, WhatIsFiled
  <2>4. ASSUME NEW f \in diluted' PROVE SharesTold(f, {s \in splits' : s < f.filed})
    <3>1. CASE f \in diluted
      BY <1>2, <2>1, <3>1
    <3>2. CASE FiledShares(f)
      <4>1. f.filed = now /\ SharesTold(f, splits)
        BY <3>2 DEF FiledShares
      <4>2. {s \in splits' : s < f.filed} = splits
        BY <1>2, <2>1, <4>1
      <4>3. QED BY <4>1, <4>2
    <3>3. QED BY <2>3, <3>1, <3>2
  <2>5. QED BY <1>2, <1>3, <2>1, <2>4 DEF SplitsKept, SharesTold
<1>7. QED BY <1>4, <1>5, <1>6 DEF StepIs

LEMMA SalesStep ==
  ASSUME now \in Nat, SalesTold, StepIs, restated' # TRUE
  PROVE  SalesTold'
<1>1. sold' = sold /\ now' \in Nat
  BY DEF StepIs, Restates
<1>2. sold \in [(FirstQuarter - 7) .. LastQuarter -> Int] /\ \A f \in revenue : RevenueTold(f, revenue, sold)
  BY DEF SalesTold
<1>3. CASE StaysSo \/ Splits
  <2>1. revenue' = revenue
    BY <1>3 DEF StaysSo, Splits
  <2>2. \A f \in revenue' : RevenueTold(f, revenue', sold')
    BY <1>1, <1>2, <2>1
  <2>3. QED BY <1>1, <1>2, <2>2 DEF SalesTold
<1>4. CASE Files
  <2>1. PICK q \in Nat : 4 * q < now /\ Facts!File(q, sold')
    BY <1>4 DEF Files
  <2>2. (\A f \in revenue' : f \in revenue \/ FiledRevenue(f, sold')) /\ revenue \subseteq revenue'
    BY <1>1, <1>4, <2>1, WhatIsFiled DEF Files
  <2>3. ASSUME NEW f \in revenue' PROVE RevenueTold(f, revenue', sold')
    <3>1. CASE f \in revenue
      <4>1. FirstIn(f, revenue) => FirstIn(f, revenue')
        BY <2>2 DEF FirstIn
      <4>2. QED BY <1>1, <1>2, <3>1, <4>1 DEF RevenueTold
    <3>2. CASE FiledRevenue(f, sold')
      BY <3>2 DEF FiledRevenue
    <3>3. QED BY <2>2, <3>1, <3>2
  <2>4. QED BY <1>1, <1>2, <2>3 DEF SalesTold
<1>5. QED BY <1>3, <1>4 DEF StepIs

LEMMA BooksStep == WholeBooks /\ BooksInv /\ [Facts!Next]_(Facts!vars) => BooksInv'
<1> SUFFICES ASSUME WholeBooks, BooksInv, [Facts!Next]_(Facts!vars) PROVE BooksInv'
  OBVIOUS
<1>1. Calendar /\ SpansKept /\ SplitsKept /\ restated \in BOOLEAN /\ (restated \/ SalesTold) /\ now \in Nat
  BY DEF BooksInv, Calendar
<1>2. Calendar'
  BY <1>1, CalendarStep
<1>3. StepIs
  BY <1>1, EachStep DEF WholeBooks
<1>4. SpansKept' /\ SplitsKept'
  BY <1>1, <1>3, SpansStep, SplitsStep
<1>5. restated' \in BOOLEAN /\ (restated => restated')
  <2>1. Restates
    BY <1>3 DEF StepIs
  <2>2. restated' = restated \/ restated' = TRUE
    BY <2>1 DEF Restates
  <2>3. CASE restated' = restated
    BY <1>1, <2>3
  <2>4. CASE restated' = TRUE
    BY <2>4
  <2>5. QED BY <2>2, <2>3, <2>4
<1>6. restated' # TRUE => SalesTold'
  BY <1>1, <1>3, <1>5, SalesStep
<1>7. restated' \/ SalesTold'
  BY <1>5, <1>6
<1>8. QED BY <1>2, <1>4, <1>5, <1>7 DEF BooksInv

\* A share of a filing, on the basis it was filed on, and by every split since the end of its
\* period: on today's, if none was in between.
LEMMA SharesAreToday ==
  ASSUME WholeBooks, BooksInv
  PROVE  Facts!SharesUnlessSplitInBetween
<1>1. SUFFICES ASSUME NEW asOf, NEW f \in Facts!fiscalYears(Facts!extractLine(diluted), asOf), ~Facts!SplitInBetween(f)
               PROVE  Facts!OnTodaysBasis(f, asOf)
  BY DEF Facts!SharesUnlessSplitInBetween
<1>2. f \in diluted
  BY DEF Facts!fiscalYears, Facts!knownOn, Facts!extractLine
<1> DEFINE before == {s \in splits : s < f.filed}
           after == {s \in splits : s > f.end}
<1>3. /\ IsFiniteSet(splits) /\ \A s \in splits : s \in Nat
      /\ f.val = Facts!SharesAfter(Facts!Cardinality(before))
      /\ f.end \in Int /\ f.filed \in Nat /\ f.end < f.filed
  BY <1>2 DEF BooksInv, SplitsKept, SharesTold, SpansKept, Spanned
<1>4. \A s \in splits : ~(f.end < s /\ s <= f.filed)
  <2>1. Facts!SamePeriod(f, f)
    BY DEF Facts!SamePeriod
  <2>2. QED BY <1>1, <1>2, <2>1 DEF Facts!SplitInBetween
<1>5. before \intersect after = {} /\ before \union after = splits
  BY <1>3, <1>4
<1> HIDE DEF before, after
<1>6. IsFiniteSet(before) /\ IsFiniteSet(after)
  BY <1>3, <1>5, FS_Subset
<1>7. Cardinality(splits) = Cardinality(before) + Cardinality(after)
  <2>1. Cardinality(before \union after) = Cardinality(before) + Cardinality(after) - Cardinality(before \intersect after)
    BY <1>6, FS_Union
  <2>2. Cardinality(before \intersect after) = 0
    BY <1>5, FS_EmptySet
  <2>3. Cardinality(before) \in Nat /\ Cardinality(after) \in Nat
    BY <1>6, FS_CardinalityType
  <2>4. Cardinality(before \union after) = Cardinality(splits)
    BY <1>5
  <2>5. QED BY <2>1, <2>2, <2>3, <2>4
<1>8. \A S : Facts!Cardinality(S) = Cardinality(S)
  BY DEF Facts!Cardinality, Cardinality
<1>9. Cardinality(before) \in Nat /\ Cardinality(after) \in Nat
  BY <1>6, FS_CardinalityType
<1>10. Facts!SharesAfter(Cardinality(before)) * Facts!SharesAfter(Cardinality(after)) = Facts!SharesAfter(Cardinality(splits))
  BY <1>7, <1>9, SharesMultiply DEF WholeBooks
<1>11. Facts!splitsAfter(f, asOf) = after
  BY DEF Facts!splitsAfter, after
<1>12. QED BY <1>3, <1>8, <1>10, <1>11 DEF Facts!OnTodaysBasis, Facts!onTodaysBasis

\* What is sold in a span is sold in its two parts.
LEMMA SoldIsTotal ==
  ASSUME WholeBooks, NEW books \in [(FirstQuarter - 7) .. LastQuarter -> Int], NEW p
  PROVE  Facts!Sold(p, books) = Total(books, FirstQuarter - 8, LastQuarter - FirstQuarter + 8, Facts!Quarters(p))
<1> DEFINE first == FirstQuarter - 8
           N == LastQuarter - FirstQuarter + 8
<1>1. first \in Int /\ N \in Nat /\ first + 1 = FirstQuarter - 7 /\ first + N = LastQuarter
  BY DEF WholeBooks
<1>2. Facts!Quarters(p) \in SUBSET ((first + 1) .. (first + N))
  <2>1. DOMAIN Sales = (FirstQuarter - 7) .. LastQuarter
    BY DEF WholeBooks
  <2>2. QED BY <1>1, <2>1 DEF Facts!Quarters
<1>3. books \in [(first + 1) .. (first + N) -> Int]
  BY <1>1
<1> HIDE DEF first, N
<1>4. Facts!MapThenSumSet(LAMBDA q : books[q], Facts!Quarters(p)) = Total(books, first, N, Facts!Quarters(p))
  BY <1>1, <1>2, <1>3, SumsAreTotals
<1>5. QED BY <1>4 DEF Facts!Sold, first, N

LEMMA SoldOfTwo ==
  ASSUME WholeBooks, NEW books \in [(FirstQuarter - 7) .. LastQuarter -> Int],
         NEW a \in Int, NEW b \in Int, NEW c \in Int, a <= b, b <= c
  PROVE  SoldIn(a, b, books) \in Int /\ SoldIn(a, c, books) = SoldIn(a, b, books) + SoldIn(b, c, books)
<1> DEFINE first == FirstQuarter - 8
           N == LastQuarter - FirstQuarter + 8
           In(x, y) == Facts!Quarters([start |-> x, end |-> y])
<1>1. first \in Int /\ N \in Nat /\ first + 1 = FirstQuarter - 7 /\ first + N = LastQuarter
  BY DEF WholeBooks
<1>2. books \in [(first + 1) .. (first + N) -> Int]
  BY <1>1
<1>3. \A x, y : In(x, y) = {q \in (FirstQuarter - 7) .. LastQuarter : 4 * q > x /\ 4 * q <= y}
  <2>1. DOMAIN Sales = (FirstQuarter - 7) .. LastQuarter
    BY DEF WholeBooks
  <2>2. \A q \in (FirstQuarter - 7) .. LastQuarter : Facts!Ended(q) = 4 * q
    BY DEF Facts!Ended, Facts!Quarter, WholeBooks
  <2>3. QED BY <2>1, <2>2 DEF Facts!Quarters
<1> HIDE DEF In
<1>4. Apart(In(a, b), In(b, c)) /\ In(a, b) \union In(b, c) = In(a, c)
  <2>1. \A q \in (FirstQuarter - 7) .. LastQuarter : 4 * q \in Int
    BY DEF WholeBooks
  <2>2. QED BY <1>3, <2>1 DEF Apart
<1>5. \A x, y : SoldIn(x, y, books) = Total(books, first, N, In(x, y))
  BY SoldIsTotal DEF SoldIn, In
<1> HIDE DEF first, N
<1>6. Total(books, first, N, In(a, b) \union In(b, c)) = Total(books, first, N, In(a, b)) + Total(books, first, N, In(b, c))
  BY <1>1, <1>2, <1>4, TotalOfTwo
<1>7. Total(books, first, N, In(a, b)) \in Int
  BY <1>1, <1>2, TotalIsInt
<1>8. QED BY <1>4, <1>5, <1>6, <1>7

\* The newest of some periods that are over.
LEMMA NewestOf ==
  ASSUME NEW some, some # {}, NEW day \in Nat, \A f \in some : f.end \in Int /\ f.end < day
  PROVE  /\ \E f \in some : f.end = Facts!NewestEnd(some)
         /\ \A f \in some : f.end <= Facts!NewestEnd(some)
<1> DEFINE T == {day - f.end : f \in some}
           ends == {f.end : f \in some}
<1>1. T \in SUBSET Nat /\ T # {}
  OBVIOUS
<1>2. PICK x \in T : \A y \in T : x <= y
  <2> HIDE DEF T
  <2>1. QED BY <1>1, SmallestOf
<1>3. PICK f \in some : x = day - f.end
  BY <1>2
<1>4. \A g \in some : g.end <= f.end
  <2>1. SUFFICES ASSUME NEW g \in some PROVE g.end <= f.end
    OBVIOUS
  <2>2. x <= day - g.end
    BY <1>2
  <2>3. QED BY <1>3, <2>2
<1>5. f.end \in ends /\ \A y \in ends : f.end >= y
  BY <1>4
<1>6. Facts!NewestEnd(some) = CHOOSE e \in ends : \A y \in ends : e >= y
  BY DEF Facts!NewestEnd, Facts!Max
<1>7. Facts!NewestEnd(some) \in ends /\ \A y \in ends : Facts!NewestEnd(some) >= y
  BY <1>5, <1>6
<1>8. QED BY <1>7

\* A period whose figure is what was sold in it.
Told(f, day) == f.start \in Int /\ f.end \in Int /\ f.start <= f.end /\ f.end < day /\ f.val = SoldIn(f.start, f.end, sold)

LEMMA KnownIsTold ==
  ASSUME FactsInv, BooksInv, ~restated, NEW f \in Facts!knownOn(Facts!extractLine(revenue), now)
  PROVE  Told(f, now)
<1>1. f \in FirstTags(revenue) /\ f \in revenue
  BY LineIs DEF Facts!knownOn, FirstTags
<1>2. Spanned(f, now) /\ RevenueTold(f, revenue, sold) /\ now \in Nat
  BY <1>1 DEF BooksInv, SpansKept, SalesTold, Calendar
<1>3. ~FirstIn(f, revenue)
  <2>1. SUFFICES ASSUME NEW g \in revenue, Facts!SamePeriod(f, g), f.filed = g.filed, g.rank = 1, f.rank = 2 PROVE FALSE
    BY DEF FirstIn
  <2>2. f.rank <= g.rank
    BY <1>1, <2>1 DEF FirstTags
  <2>3. QED BY <2>1, <2>2
<1>4. f.val = SoldIn(f.start, f.end, sold)
  BY <1>2, <1>3 DEF RevenueTold
<1>5. f.end < now
  BY <1>2 DEF Spanned
<1>6. QED BY <1>2, <1>4, <1>5 DEF Spanned, Told

LEMMA YearsAddUp ==
  ASSUME WholeBooks, FactsInv, BooksInv
  PROVE  Facts!TrailingYearAddsUp
<1> DEFINE known == Facts!knownOn(Facts!extractLine(revenue), now)
           years == {f \in known : Facts!Span(f) = 16}
           ttm == Facts!trailingTwelveMonths(Facts!extractLine(revenue), now)
<1>1. SUFFICES ASSUME ~restated, ttm # Facts!None
               PROVE  ttm.value = SoldIn(ttm.end - 16, ttm.end, sold)
  BY DEF Facts!TrailingYearAddsUp, SoldIn, Facts!Year, Facts!Quarter
<1>2. \A f \in known : Told(f, now)
  BY <1>1, KnownIsTold
<1>3. now \in Nat /\ sold \in [(FirstQuarter - 7) .. LastQuarter -> Int]
  BY <1>1 DEF BooksInv, Calendar, SalesTold
<1> DEFINE lastYear == CHOOSE f \in years : f.end = Facts!NewestEnd(years)
           ytds == Facts!yearToDate(known, lastYear)
           pairs == {p \in ytds \X known : Facts!Span(p[2]) = Facts!Span(p[1]) /\ p[2].end = p[1].end - 16}
           pair == CHOOSE p \in pairs : TRUE
<1>4. ttm = IF years = {} THEN Facts!None
            ELSE IF lastYear.end = Facts!NewestEnd(known) \/ pairs = {}
            THEN [value |-> lastYear.val, end |-> lastYear.end]
            ELSE [value |-> pair[1].val + lastYear.val - pair[2].val, end |-> pair[1].end]
  BY DEF Facts!trailingTwelveMonths, Facts!Year, Facts!Quarter
<1>5. years # {}
  BY <1>1, <1>4
<1>6. lastYear \in years
  <2>1. \A f \in years : f.end \in Int /\ f.end < now
    BY <1>2 DEF Told
  <2> HIDE DEF years
  <2>2. \E f \in years : f.end = Facts!NewestEnd(years)
    BY <1>3, <1>5, <2>1, NewestOf
  <2>3. QED BY <2>2
<1> HIDE DEF ttm, lastYear
<1>7. lastYear \in known /\ lastYear.end - lastYear.start = 16 /\ Told(lastYear, now)
  BY <1>2, <1>6 DEF Facts!Span
<1> HIDE DEF years
<1>8. CASE lastYear.end = Facts!NewestEnd(known) \/ pairs = {}
  <2>1. ttm.value = lastYear.val /\ ttm.end = lastYear.end
    <3> HIDE DEF pairs, pair, known
    <3>1. QED BY <1>4, <1>5, <1>8
  <2>2. lastYear.start = ttm.end - 16
    BY <1>7, <2>1 DEF Told
  <2>3. QED BY <1>7, <2>1, <2>2 DEF Told
<1>9. CASE ~(lastYear.end = Facts!NewestEnd(known) \/ pairs = {})
  <2>1. pair \in pairs
    <3> HIDE DEF pairs
    <3>1. QED BY <1>9
  <2>2. ttm.value = pair[1].val + lastYear.val - pair[2].val /\ ttm.end = pair[1].end
    <3> HIDE DEF pairs, pair, known
    <3>1. QED BY <1>4, <1>5, <1>9
  <2> HIDE DEF pair
  <2>3. PICK ytd, prior : ytd = pair[1] /\ prior = pair[2]
    OBVIOUS
  <2>4. /\ ytd \in ytds /\ prior \in known
        /\ Facts!Span(prior) = Facts!Span(ytd) /\ prior.end = ytd.end - 16
    BY <2>1, <2>3
  <2>5. ytd \in known /\ ytd.end = Facts!NewestEnd(known) /\ ytd.start = lastYear.end
    BY <2>4 DEF Facts!yearToDate
  <2>6. Told(ytd, now) /\ Told(prior, now)
    BY <1>2, <2>4, <2>5
  <2> HIDE DEF known, pairs
  <2>7. /\ ytd.start \in Int /\ ytd.end \in Int /\ ytd.start <= ytd.end
        /\ prior.start \in Int /\ prior.end \in Int /\ prior.start <= prior.end
        /\ lastYear.start \in Int /\ lastYear.end \in Int
        /\ ytd.val = SoldIn(ytd.start, ytd.end, sold) /\ prior.val = SoldIn(prior.start, prior.end, sold)
        /\ lastYear.val = SoldIn(lastYear.start, lastYear.end, sold)
    BY <1>7, <2>6 DEF Told
  <2>8. /\ lastYear.start <= lastYear.end /\ lastYear.end <= ytd.end
        /\ prior.start = lastYear.start /\ prior.end <= ytd.end /\ lastYear.start <= prior.end
    BY <1>7, <2>4, <2>5, <2>7 DEF Facts!Span
  <2>9. /\ SoldIn(lastYear.start, lastYear.end, sold) \in Int /\ SoldIn(lastYear.end, ytd.end, sold) \in Int
        /\ SoldIn(lastYear.start, ytd.end, sold)
             = SoldIn(lastYear.start, lastYear.end, sold) + SoldIn(lastYear.end, ytd.end, sold)
    BY <1>3, <2>7, <2>8, SoldOfTwo
  <2>10. /\ SoldIn(lastYear.start, prior.end, sold) \in Int /\ SoldIn(prior.end, ytd.end, sold) \in Int
         /\ SoldIn(lastYear.start, ytd.end, sold)
             = SoldIn(lastYear.start, prior.end, sold) + SoldIn(prior.end, ytd.end, sold)
    BY <1>3, <2>7, <2>8, SoldOfTwo
  <2>11. ttm.value = SoldIn(prior.end, ytd.end, sold)
    BY <2>2, <2>3, <2>5, <2>7, <2>8, <2>9, <2>10
  <2>12. QED BY <2>2, <2>3, <2>4, <2>11
<1>10. QED BY <1>8, <1>9

\* PointInTime, FiguresAreOfTheirDay: whatever a company sells, and whatever it files, late,
\* under another tag or restated, and on whichever day it is looked at, the reduced line says
\* of every past day what had been said before that day, no more and no less; the twelve
\* months made of it are four quarters, unless one was restated; and a yearly share count is
\* on today's basis, unless a split came between the year and its filing.
THEOREM FiguresWereKnown == Facts!Spec => []FiguresAreOfTheirDay
<1>1. FactsInv /\ BooksInv => FiguresAreOfTheirDay
  <2> SUFFICES ASSUME FactsInv, BooksInv PROVE FiguresAreOfTheirDay
    OBVIOUS
  <2>1. OneFigure(revenue) /\ Facts!Days \subseteq Nat
    BY DEF FactsInv, OneFigure, Facts!Days
  <2>2. Facts!KnownAsThen
    BY <2>1, NoHindsight DEF Facts!KnownAsThen
  <2>3. Facts!TrailingYearAddsUp /\ Facts!SharesUnlessSplitInBetween
    BY BooksAssumption, YearsAddUp, SharesAreToday
  <2>4. QED BY <2>2, <2>3 DEF FiguresAreOfTheirDay, Facts!FiguresAreOfTheirDay
<1>2. FactsInv /\ BooksInv /\ [Facts!Next]_(Facts!vars) => FactsInv' /\ BooksInv'
  BY BooksAssumption, FactsStep, BooksStep
<1>3. Facts!Init => FactsInv /\ BooksInv
  BY BooksAssumption, FactsInit, BooksInit DEF WholeBooks
<1>4. QED BY <1>1, <1>2, <1>3, PTL DEF Facts!Spec

=============================================================================
