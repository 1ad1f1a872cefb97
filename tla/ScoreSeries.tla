---------------------------- MODULE ScoreSeries -----------------------------
(***************************************************************************)
(* One stock's series of scores (src/src/db/store.ts, src/src/db/rescore.ts)*)
(* under its two writers: refreshes and analyses of the worker, each at an *)
(* instant of its own, and the pass of a server that booted with other     *)
(* scoring code, which recomputes every stored point from what was known   *)
(* at its instant.                                                         *)
(*                                                                         *)
(* A card is the code that computed it, the financials it computed from,   *)
(* and the analysis it carries forward, named by when that was produced.   *)
(***************************************************************************)
EXTENDS Integers

CONSTANTS Contents,    \* financials that a fetch may answer
          SameRun,     \* SAME_RUN_MS
          MaxTime,     \* bound: the last instant
          MaxFaults    \* bound: restarts, and passes that fail

VARIABLES now,
          captured,    \* snapshots: when each content first appeared, 0 for never
          confirmed,   \* and when it was last seen
          analyses,    \* verdict documents: when each was produced
          points,      \* observations: the two score metrics of each instant
          code,        \* the scoring code that server and worker run
          fingerprint, \* that of the last complete pass
          job,         \* the refresh or analysis under way
          pass,        \* rescoreIfScoringChanged, and what it has read
          lived,       \* history: the financials and the analysis that a job recorded from
          recordedBy,  \* history: the code that recorded each instant, 0 once a pass has cleared it
          torn,        \* history: a pass ended between its delete and its last write
          mishaps,     \* history: what has gone wrong so far
          faults

snapshots == <<captured, confirmed>>
store == <<now, snapshots, analyses>>
history == <<lived, recordedBy>>
vars == <<store, points, code, fingerprint, job, pass, history, torn, mishaps, faults>>

Instants == 1 .. MaxTime
Codes == {1, 2}
Metrics == {"score", "criterion"}
Nothing == <<0, "none", 0>>
NotLived == <<"none", 0>>
Blank == [m \in Metrics |-> Nothing]

\* The criterion is one that the newer code abstains on.
Card(c, content, analysis) ==
    [m \in Metrics |-> IF m = "criterion" /\ c = 2 THEN Nothing ELSE <<c, content, analysis>>]

scoreInstants == {t \in Instants : points[t]["score"] # Nothing}
SnapshotInstants(seen) == {seen[c] : c \in Contents} \ {0}

LastOf(instants) == CHOOSE t \in instants \union {0} : \A u \in instants : u <= t
FirstOf(instants) == CHOOSE t \in instants : \A u \in instants : t <= u

\* The newest by its stamp.
NewestOf(stamps) == CHOOSE c \in Contents : \A d \in Contents : stamps[d] <= stamps[c]

\* What was in force at an instant, or was written just after it by the same run.
rowAsOf(seen, at) == NewestOf([c \in Contents |-> IF seen[c] <= at + SameRun THEN seen[c] ELSE 0])
cardAt(produced, at) == LastOf({t \in produced : t <= at})

NoJob == [pc |-> "idle", content |-> "none", analysis |-> 0]
Pass(pc) == [pc |-> pc, seen |-> [c \in Contents |-> 0], produced |-> {}, todo |-> {}]

Init == /\ now = 0
        /\ captured = [c \in Contents |-> 0]
        /\ confirmed = [c \in Contents |-> 0]
        /\ analyses = {}
        /\ points = [t \in Instants |-> Blank]
        /\ code = [server |-> 1, worker |-> 1]
        /\ fingerprint = 1
        /\ job = NoJob
        /\ pass = Pass("idle")
        /\ lived = [t \in Instants |-> NotLived]
        /\ recordedBy = [t \in Instants |-> 0]
        /\ torn = FALSE
        /\ mishaps = {}
        /\ faults = 0

\* The next instant: within the same run of what came before, or well behind it.
TimePasses == now' \in {now + 1, now + SameRun + 1} \cap Instants
Fault == faults < MaxFaults /\ faults' = faults + 1

-----------------------------------------------------------------------------
(* Refresh and analysis. *)

\* saveSnapshot: the same content again moves only last_seen_at.
saveSnapshot(c) ==
    /\ captured' = IF captured[c] = 0 THEN [captured EXCEPT ![c] = now'] ELSE captured
    /\ confirmed' = [confirmed EXCEPT ![c] = now']

\* A content that comes back behind another keeps its old place in the
\* history; one that comes soon behind a point counts as that point's run.
Misplaced(c) ==
    (IF captured[c] # 0 /\ c # NewestOf(captured) THEN {"returned"} ELSE {}) \union
    (IF captured[c] = 0 /\ \E t \in Instants : lived[t] # NotLived /\ now' <= t + SameRun THEN {"close"} ELSE {})

\* A refresh fetches; so does an analysis whose financials are past their time.
Fetch(c, pc) ==
    /\ job.pc = "idle"
    /\ TimePasses
    /\ saveSnapshot(c)
    /\ job' = [job EXCEPT !.pc = pc, !.content = c]
    /\ mishaps' = mishaps \union Misplaced(c)
    /\ UNCHANGED <<analyses, points, code, fingerprint, pass, history, torn, faults>>

\* Otherwise it reads what was last confirmed.
ReadStored(pc) ==
    /\ job.pc = "idle"
    /\ \E c \in Contents : confirmed[c] # 0
    /\ job' = [job EXCEPT !.pc = pc, !.content = NewestOf(confirmed)]
    /\ UNCHANGED <<store, points, code, fingerprint, pass, history, torn, mishaps, faults>>

\* A refresh carries the newest analysis forward, and so does an analysis whose
\* prose is from the cache; another one carries its own.
latestScoreCard == IF job.pc = "carry" THEN LastOf(analyses) ELSE job.analysis

writeAnalysis ==
    /\ job.pc = "conclude"
    /\ TimePasses
    /\ analyses' = analyses \union {now'}
    /\ job' = [job EXCEPT !.pc = "record", !.analysis = now']
    /\ UNCHANGED <<snapshots, points, code, fingerprint, pass, history, torn, mishaps, faults>>

\* recordObservations: an upsert of what has a value, and of nothing else.
Upserted(point, card) == [m \in Metrics |-> IF card[m] # Nothing THEN card[m] ELSE point[m]]

\* recordRunData, at an instant of its own.
Record ==
    /\ job.pc \in {"carry", "record"}
    /\ TimePasses
    /\ points' = [points EXCEPT ![now'] = Upserted(@, Card(code.worker, job.content, latestScoreCard))]
    /\ lived' = [lived EXCEPT ![now'] = <<job.content, latestScoreCard>>]
    /\ recordedBy' = [recordedBy EXCEPT ![now'] = code.worker]
    /\ mishaps' = IF pass.pc = "instants" THEN mishaps \union {"between"} ELSE mishaps
    /\ job' = NoJob
    /\ UNCHANGED <<snapshots, analyses, code, fingerprint, pass, torn, faults>>

JobStep == \/ \E c \in Contents, pc \in {"carry", "conclude"} : Fetch(c, pc)
           \/ \E pc \in {"carry", "conclude"} : ReadStored(pc)
           \/ writeAnalysis \/ Record

-----------------------------------------------------------------------------
(* The pass of a server that has booted. *)

OnlyPass == UNCHANGED <<store, code, job, lived>>

\* A stock without financials has nothing to re-score.
ReadHistories ==
    /\ pass.pc = "histories"
    /\ pass' = [pass EXCEPT !.pc = IF SnapshotInstants(captured) = {} THEN "complete" ELSE "instants",
                            !.seen = captured, !.produced = analyses]
    /\ OnlyPass /\ UNCHANGED <<points, fingerprint, recordedBy, torn, mishaps, faults>>

ReadInstants ==
    /\ pass.pc = "instants"
    /\ pass' = [pass EXCEPT !.pc = "delete", !.todo = SnapshotInstants(pass.seen) \union scoreInstants]
    /\ OnlyPass /\ UNCHANGED <<points, fingerprint, recordedBy, torn, mishaps, faults>>

\* Mutated: the whole range is cleared.
DeleteRange ==
    /\ pass.pc = "delete"
    /\ points' = [t \in Instants |-> Blank]
    /\ recordedBy' = [t \in Instants |-> 0]
    /\ pass' = [pass EXCEPT !.pc = "rewrite"]
    /\ OnlyPass /\ UNCHANGED <<fingerprint, torn, mishaps, faults>>

\* deleteObservations, at exactly the instants about to be rewritten.
Delete ==
    /\ pass.pc = "delete"
    /\ points' = [t \in Instants |-> IF t \in pass.todo THEN Blank ELSE points[t]]
    /\ recordedBy' = [t \in Instants |-> IF t \in pass.todo THEN 0 ELSE recordedBy[t]]
    /\ pass' = [pass EXCEPT !.pc = "rewrite"]
    /\ OnlyPass /\ UNCHANGED <<fingerprint, torn, mishaps, faults>>

\* In their order, each with what was in force at it.
Rewrite ==
    /\ pass.pc = "rewrite"
    /\ pass.todo # {}
    /\ LET at == FirstOf(pass.todo)
           card == Card(code.server, rowAsOf(pass.seen, at), cardAt(pass.produced, at))
       IN /\ points' = [points EXCEPT ![at] = Upserted(@, card)]
          /\ pass' = [pass EXCEPT !.todo = @ \ {at}, !.pc = IF pass.todo = {at} THEN "complete" ELSE "rewrite"]
    /\ OnlyPass /\ UNCHANGED <<fingerprint, recordedBy, torn, mishaps, faults>>

\* The fingerprint, once the pass is complete.
StoreFingerprint ==
    /\ pass.pc = "complete"
    /\ fingerprint' = code.server
    /\ torn' = FALSE
    /\ pass' = Pass("idle")
    /\ OnlyPass /\ UNCHANGED <<points, recordedBy, mishaps, faults>>

\* The pass ends here and now, with what it has cleared and not yet rewritten.
Cut(pc) ==
    /\ torn' = (torn \/ pass.pc \in {"rewrite", "complete"})
    /\ mishaps' = IF pass.pc = "rewrite" THEN mishaps \union {"cut"} ELSE mishaps
    /\ pass' = Pass(pc)

\* A statement fails; the next boot repeats the pass.
PassFails ==
    /\ pass.pc \notin {"idle", "failed"}
    /\ Fault
    /\ Cut("failed")
    /\ OnlyPass /\ UNCHANGED <<points, fingerprint, recordedBy>>

PassStep == \/ ReadHistories \/ ReadInstants \/ Delete \/ Rewrite \/ StoreFingerprint

-----------------------------------------------------------------------------
(* Restarts, with the same code, newer code, or older code again. *)

\* rescoreIfScoringChanged: a pass, unless the stored fingerprint is the code's.
BootServer(c) ==
    /\ Fault
    /\ code' = [code EXCEPT !.server = c]
    /\ Cut(IF fingerprint = c THEN "idle" ELSE "histories")
    /\ UNCHANGED <<store, points, fingerprint, job, history>>

\* The worker takes its job with it.
BootWorker(c) ==
    /\ c # code.worker \/ job # NoJob
    /\ Fault
    /\ code' = [code EXCEPT !.worker = c]
    /\ job' = NoJob
    /\ UNCHANGED <<store, points, fingerprint, pass, history, torn, mishaps>>

Next == JobStep \/ PassStep \/ PassFails \/ \E c \in Codes : BootServer(c) \/ BootWorker(c)

Spec == Init /\ [][Next]_vars

-----------------------------------------------------------------------------
(* Properties *)

\* "A series half on the old code is two scores, not one" (rescore.ts:174):
\* when the fingerprint says that the series is on the server's code, every
\* point is, with no metric left over from a code that still computed it; but
\* what a worker recorded with other code, beside the pass or because the code
\* went back before there was one, and what a cut pass left.  And a point that was re-scored says what
\* was known at its instant, which is what was recorded live: unless the
\* financials returned to what they had been, changed within the same run, or
\* a job recorded between the two reads of the pass.
SeriesIsOnOneCode ==
    (pass.pc = "idle" /\ fingerprint = code.server /\ ~torn) =>
        \A t \in scoreInstants : recordedBy[t] \in {0, fingerprint} =>
            LET point == points[t]["score"]
            IN /\ points[t] = Card(fingerprint, point[2], point[3])
               /\ (mishaps \subseteq {"cut"} /\ lived[t] # NotLived) =>
                      /\ point[2] = lived[t][1]
                      /\ point[3] = lived[t][2]

\* A pass takes no instant away that a refresh or an analysis has recorded,
\* whatever is recorded beside it: it rewrites what it cleared, unless it is cut.
InstantsSurvive ==
    "cut" \notin mishaps =>
        \A t \in Instants : lived[t] # NotLived =>
            t \in scoreInstants \/ (pass.pc = "rewrite" /\ t \in pass.todo)

\* Together: a pass that is through leaves one series, and all of it.
SeriesIsWhole == SeriesIsOnOneCode /\ InstantsSurvive

\* "Re-score on start failed, the series keeps its previous numbers"
\* (server.ts:1921).
FailureKeepsTheSeries ==
    pass.pc = "failed" => \A t \in Instants : lived[t] # NotLived => t \in scoreInstants

\* "An interrupted one is repeated next start" (rescore.ts:399): behind the
\* repetition the instants are there again.
RepeatedPassRestores ==
    (pass.pc = "idle" /\ fingerprint = code.server /\ ~torn) =>
        \A t \in Instants : lived[t] # NotLived => t \in scoreInstants

=============================================================================
