---------------------------- MODULE VerdictAlerts ----------------------------
(***************************************************************************)
(* The verdict alerts of one watchlist stock (src/src/alerts.ts).  Every   *)
(* refresh and every analysis records a verdict and then looks at the      *)
(* series: a flip is recorded, a verdict that has held is announced.  The  *)
(* looks of two processes interleave at every await, and a re-score        *)
(* (src/src/db/rescore.ts) rewrites the series beside them without a look. *)
(*                                                                         *)
(* Time is the age of what was recorded: series[k] is the verdict recorded *)
(* k ticks ago.  A refused message counts as announced, as in the code:    *)
(* noteVerdict does not read the answer of sendAlert.                      *)
(***************************************************************************)
EXTENDS Integers

CONSTANTS Verdicts,   \* the bands of the score
          None,       \* no verdict
          Writers,    \* the processes that record verdicts
          Settle,     \* SETTLE_MS, in ticks
          Window,     \* the days recentVerdictPoints reads, in ticks
          MaxGap,     \* a refresh comes at least every MaxGap ticks
          MaxFaults   \* bound: looks that fail or die, and re-scores

VARIABLES series,     \* score.final.verdict by age
          rows,       \* rows[k]: how many rows of verdict_changes carry the instant k ticks ago,
                      \* two at most, counted until they are spoilt
          announced,  \* verdict_announced
          cleared,    \* the instants a re-score has deleted and not come to again
          note,       \* where each writer's recordRunData and noteVerdict stand
          told,       \* history: the verdict the receiver was last told of, or stands at
          mishaps,    \* history: what has gone wrong so far
          faults

vars == <<series, rows, announced, cleared, note, told, mishaps, faults>>

Ages == 0 .. Window

NoNote == [pc |-> "idle", age |-> 0, at |-> 0, current |-> None, previous |-> None, settled |-> FALSE,
           from |-> None]

Init == /\ series = [k \in Ages |-> None]
        /\ rows = [k \in Ages |-> 0]
        /\ announced = None
        /\ cleared = {}
        /\ note = [w \in Writers |-> NoNote]
        /\ told = None
        /\ mishaps = {}
        /\ faults = 0

-----------------------------------------------------------------------------
(* What verdictEvents makes of the series. *)

Points == {k \in Ages : series[k] # None}
Newest(S) == CHOOSE k \in S : \A j \in S : k <= j

Verdict == IF Points = {} THEN None ELSE series[Newest(Points)]

\* The points of the run of one verdict that ends with the newest point.
CurrentRun == {k \in Points : \A j \in Points : j <= k => series[j] = series[Newest(Points)]}

Settled == \E k \in CurrentRun : k - Newest(Points) >= Settle

Previous == LET older == Points \ {Newest(Points)}
            IN IF older = {} THEN None ELSE series[Newest(older)]

\* change, announce and announced of verdictEvents, for a look n.
Flipped(n) == n.previous # None /\ n.previous # n.current
First(n) == n.from = None

\* Mutated: only a flip is announced, and no flip has settled.
AnnouncesFlips(n) == ~First(n) /\ n.settled /\ n.current # n.previous

Announces(n) == ~First(n) /\ n.settled /\ n.current # n.from

-----------------------------------------------------------------------------
(* A refresh or an analysis, and the look behind it. *)

\* The looks that are under way.
UnderWay == {w \in Writers : note[w].pc \notin {"idle", "saving"}}

\* recordRunData takes its instant, and saves snapshots first; one instant a tick.
Begin(w) ==
    /\ note[w].pc = "idle"
    /\ series[0] = None
    /\ \A u \in Writers : note[u].pc = "saving" => note[u].age # 0
    /\ note' = [note EXCEPT ![w] = [NoNote EXCEPT !.pc = "saving"]]
    /\ UNCHANGED <<series, rows, announced, cleared, told, mishaps, faults>>

\* recordObservations, at that instant; noteVerdict begins.
Insert(w, v) ==
    /\ note[w].pc = "saving"
    /\ series' = [series EXCEPT ![note[w].age] = v]
    /\ cleared' = cleared \ {note[w].age}
    /\ note' = [note EXCEPT ![w].pc = "points"]
    /\ mishaps' = mishaps \union
           (IF UnderWay # {} \/ \E k \in Points : k < note[w].age THEN {"crossed"} ELSE {})
    /\ UNCHANGED <<rows, announced, told, faults>>

\* recentVerdictPoints: oldest first, of the last days.  Without any the look is over.
ReadPoints(w) ==
    /\ note[w].pc = "points"
    /\ note' = [note EXCEPT ![w] =
                   IF Points = {} THEN NoNote
                   ELSE [pc |-> "announced", age |-> note[w].age, at |-> Newest(Points),
                         current |-> series[Newest(Points)], previous |-> Previous,
                         settled |-> Settled, from |-> None]]
    /\ UNCHANGED <<series, rows, announced, cleared, told, mishaps, faults>>

\* Where a look goes on that has nothing left to do before it.
Goes(w, n, pc) ==
    note' = [note EXCEPT ![w] = CASE pc = "idle" -> NoNote
                                  [] pc = "change" -> [n EXCEPT !.pc = pc]
                                  [] OTHER -> [n EXCEPT !.pc = pc, !.at = 0, !.previous = None]]
BehindSend(n) == IF First(n) \/ Announces(n) THEN "set" ELSE "idle"
BehindChange(n) == IF Announces(n) THEN "send" ELSE BehindSend(n)
BehindRead(n) == IF Flipped(n) THEN "change" ELSE BehindChange(n)

\* Has read the announced verdict and will write it.
Pending(n) == n.pc \in {"change", "send", "set"} /\ (First(n) \/ Announces(n))

ReadAnnounced(w) ==
    /\ note[w].pc = "announced"
    /\ LET n == [note[w] EXCEPT !.from = announced] IN Goes(w, n, BehindRead(n))
    /\ mishaps' = mishaps \union
           (IF \E u \in Writers \ {w} : Pending(note[u]) THEN {"raced"} ELSE {})
    /\ UNCHANGED <<series, rows, announced, cleared, told, faults>>

\* A flip may be without its row, or a row without its flip.
Spoilt == mishaps \cap {"crossed", "missed", "rescored"} # {}

\* recordVerdictChange, at the instant of the newest point it saw.
RecordChange(w) ==
    /\ note[w].pc = "change"
    /\ rows' = [k \in Ages |-> IF k = note[w].at /\ rows[k] < 2 /\ ~Spoilt THEN rows[k] + 1 ELSE rows[k]]
    /\ Goes(w, note[w], BehindChange(note[w]))
    /\ UNCHANGED <<series, announced, cleared, told, mishaps, faults>>

\* readAppConfig and sendAlert: delivered, refused or without a URL, the look goes on alike.
Send(w) ==
    /\ note[w].pc = "send"
    /\ told' = note[w].current
    /\ Goes(w, note[w], BehindSend(note[w]))
    /\ UNCHANGED <<series, rows, announced, cleared, mishaps, faults>>

\* setAnnouncedVerdict; the first reading of a stock is stored without a message.
SetAnnounced(w) ==
    /\ note[w].pc = "set"
    /\ announced' = note[w].current
    /\ told' = IF First(note[w]) THEN note[w].current ELSE told
    /\ Goes(w, note[w], "idle")
    /\ UNCHANGED <<series, rows, cleared, mishaps, faults>>

\* A statement throws, or the process dies: the look, or the recording, ends where it stood.
Fail(w) ==
    /\ faults < MaxFaults
    /\ note[w].pc # "idle"
    /\ faults' = faults + 1
    /\ note' = [note EXCEPT ![w] = NoNote]
    /\ mishaps' = mishaps
         \union (IF note[w].pc \in {"points", "announced", "change"} THEN {"missed"} ELSE {})
         \union (IF note[w].pc = "set" /\ ~First(note[w]) THEN {"unwritten"} ELSE {})
    /\ UNCHANGED <<series, rows, announced, cleared, told>>

\* rescoreHistory beside the looks: what is recorded under one crosses it.
Rescored == {"rescored"} \union (IF UnderWay # {} THEN {"crossed"} ELSE {})

\* It deletes the verdicts since some instant, up to the newest it knew of when it began ...
Clear(newest, oldest) ==
    /\ faults < MaxFaults /\ newest <= oldest
    /\ faults' = faults + 1
    /\ cleared' = newest .. oldest
    /\ series' = [k \in Ages |-> IF k \in newest .. oldest THEN None ELSE series[k]]
    /\ mishaps' = mishaps \union Rescored
    /\ UNCHANGED <<rows, announced, note, told>>

\* ... and writes them again, oldest first and one by one, as the code has them now: a day whose
\* data gives no verdict stays without, and one that had data but no verdict gets one.  It may
\* stop anywhere.
Rewrite(v) ==
    /\ cleared # {}
    /\ LET k == CHOOSE k \in cleared : \A j \in cleared : j <= k
       IN /\ series' = [series EXCEPT ![k] = v]
          /\ cleared' = cleared \ {k}
    /\ mishaps' = mishaps \union Rescored
    /\ UNCHANGED <<rows, announced, note, told, faults>>

\* Time passes; a look takes seconds, so it sees one tick at most, and the next
\* refresh is never further off than MaxGap.
Tick ==
    /\ \/ \E k \in Ages : k < MaxGap /\ series[k] # None
       \/ \E w \in Writers : note[w].pc = "saving"
    /\ \A w \in Writers : note[w].age = 0
    /\ series' = [k \in Ages |-> IF k = 0 THEN None ELSE series[k - 1]]
    /\ rows' = [k \in Ages |-> IF k = 0 THEN 0 ELSE rows[k - 1]]
    /\ cleared' = {k \in Ages : k - 1 \in cleared}
    /\ note' = [w \in Writers |-> CASE note[w].pc = "idle" -> note[w]
                                    [] note[w].pc \in {"announced", "change"} ->
                                           [note[w] EXCEPT !.age = 1, !.at = @ + 1]
                                    [] OTHER -> [note[w] EXCEPT !.age = 1]]
    /\ UNCHANGED <<announced, told, mishaps, faults>>

Look(w) == ReadPoints(w) \/ ReadAnnounced(w) \/ RecordChange(w) \/ Send(w) \/ SetAnnounced(w)

Next == \/ \E w \in Writers : \/ Begin(w)
                              \/ \E v \in Verdicts : Insert(w, v)
                              \/ Look(w)
                              \/ Fail(w)
        \/ \E newest, oldest \in Ages : Clear(newest, oldest)
        \/ \E v \in Verdicts \union {None} : Rewrite(v)
        \/ Tick

Spec == Init /\ [][Next]_vars

\* Awaits settle, time passes, and the nightly refresh keeps coming.
Fairness == /\ \A w \in Writers : WF_vars(Look(w) \/ \E v \in Verdicts : Insert(w, v))
            /\ WF_vars(\E w \in Writers : Begin(w))
            /\ WF_vars(Tick)

FairSpec == Spec /\ Fairness

-----------------------------------------------------------------------------
(* Properties *)

\* A message tells of a change from the verdict the receiver was last told to
\* another one, which still stands: nothing is told twice, and no flip is left
\* out between two messages, re-scored or not.  Two looks that overlap
\* (noteVerdict reads what was announced before it sends, and writes it after),
\* a verdict recorded or re-scored under a look, or a look that dies between
\* sending and writing, are what breaks it.
AlertsChain ==
    [][\A w \in Writers : Send(w) =>
           \/ /\ note[w].from = told
              /\ note[w].current # told
              /\ note[w].current = Verdict
           \/ mishaps \cap {"raced", "unwritten", "crossed"} # {}]_vars

\* "Every flip is recorded" (alerts.ts:8), once, and nothing that is no flip:
\* in the series between two looks, if no look failed, no verdict was recorded
\* under another look or behind a newer one, and none was re-scored since.
FlipsRecordedOnce ==
    ~Spoilt /\ UnderWay = {} =>
        \A k \in Points : LET older == {j \in Points : j > k}
                          IN older # {} => (rows[k] = IF series[Newest(older)] = series[k] THEN 0 ELSE 1)

\* Together: what happened is recorded, and told in that order.
FlipsAreToldInOrder == AlertsChain /\ []FlipsRecordedOnce

\* Once the series is of one verdict for good, as recorded or as re-scored, that
\* verdict is announced, whatever raced or failed before: the comparison is with
\* the stored series every time.
HoldingIsAnnounced ==
    <>[](\A j, k \in Points : series[j] = series[k]) => <>[](announced = Verdict)

\* "A new scoring model changes verdicts in bulk, and that is a deploy, not news
\* about the companies" (alerts.ts:13-15).  Violated: the series is rewritten,
\* what was announced is not, and so the next look at a re-scored series without
\* a flip tells of one.
DeploysAreNoNews ==
    [][\A w \in Writers : Send(w) /\ mishaps = {"rescored"} =>
           \E j, k \in Points : series[j] # series[k]]_vars

=============================================================================
