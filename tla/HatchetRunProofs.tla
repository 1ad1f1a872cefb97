-------------------------- MODULE HatchetRunProofs --------------------------
(***************************************************************************)
(* For any number of runs, symbols, stages and attempts, and however often *)
(* a stage times out, a worker dies, the API restarts or a stop is asked   *)
(* for: a stage begins behind the one outcome of the stage before, the     *)
(* parent goes on behind the whole watchlist, ok means everything, and     *)
(* whoever closes a row first is not overruled.                            *)
(***************************************************************************)
EXTENDS HatchetRun, TLAPS

-----------------------------------------------------------------------------

Ended      == {"done", "rejected"}
Outcome    == {"ok", "failed"}
Place      == [stage : 1 .. Stages, attempt : 0 .. Retries, failed : BOOLEAN,
               at : {"between", "queued", "running", "done", "rejected"}]
Outcomes(q) == {q[i] : i \in DOMAIN q}

(* A run that has not opened its row has none, and no symbols.             *)
NothingBeforeTheRow ==
  \A r \in Runs : parent[r] \in {"none", "asked", "refused", "queued", "starting"} =>
    row[r] = "none" /\ plan[r] = {}

(* A stop in progress is of a run.                                         *)
StopIsOfARun == stopping.phase # "none" => stopping.run \in Runs

(* A chain has its rows behind it and none before it; the stage it is at   *)
(* has a row already only from an attempt that timed out.  A chain that    *)
(* has met no failure has a success behind every stage it left.            *)
InPlace(r, s) ==
  LET c == chain[r][s]
      left == {k \in 1 .. Stages : k < c.stage \/ c.at = "done"}
  IN
  /\ \A k \in left : steps[r][s][k] # <<>>
  /\ \A k \in 1 .. Stages : k > c.stage => steps[r][s][k] = <<>>
  /\ c.at \notin Ended => steps[r][s][c.stage] = <<>> \/ <<r, s, c.stage>> \in timedOut
  /\ c.at = "done" => c.stage = Stages
  /\ ~c.failed => \A k \in left : "ok" \in Outcomes(steps[r][s][k])

ChainsInPlace == \A r \in Runs, s \in Symbols : InPlace(r, s)

(* What the queue has given up is behind its chain.  Without a timeout it  *)
(* is the one attempt a stop took from the chain, which ended with it and  *)
(* has yet to leave its row.                                               *)
Behind(a) ==
  LET c == chain[a.run][a.symbol] IN
  /\ a.stage <= c.stage
  /\ \/ <<a.run, a.symbol, a.stage>> \in timedOut
     \/ /\ c.at = "rejected" /\ c.stage = a.stage
        /\ steps[a.run][a.symbol][a.stage] = <<>>
        /\ \A b \in stragglers :
             b.run = a.run /\ b.symbol = a.symbol /\ b.stage = a.stage => b = a

StragglersBehind == \A a \in stragglers : Behind(a)

(* A run that said ok came to the end of every chain without a failure.    *)
OkIsUnfailed ==
  \A r \in Runs : row[r] = "ok" =>
    \A s \in plan[r] : chain[r][s].at = "done" /\ ~chain[r][s].failed

IInv ==
  /\ TypeOK
  /\ NothingBeforeTheRow
  /\ StopIsOfARun
  /\ ChainsInPlace
  /\ StragglersBehind
  /\ OneOutcomePerStep
  /\ OkIsUnfailed
  /\ WholeWatchlistSettles

-----------------------------------------------------------------------------

(* A row more, at the end: nothing that was there is gone.                 *)
LEMMA OneMore ==
  ASSUME NEW q \in Seq(Outcome), NEW x \in Outcome
  PROVE  /\ Append(q, x) \in Seq(Outcome) /\ Append(q, x) # <<>>
         /\ Len(Append(q, x)) = Len(q) + 1
         /\ Outcomes(q) \subseteq Outcomes(Append(q, x)) /\ x \in Outcomes(Append(q, x))
<1>1. /\ Append(q, x) \in Seq(Outcome) /\ Len(Append(q, x)) = Len(q) + 1
      /\ \A i \in 1 .. Len(q) : Append(q, x)[i] = q[i]
      /\ Append(q, x)[Len(q) + 1] = x
      /\ Len(q) \in Nat /\ DOMAIN q = 1 .. Len(q) /\ DOMAIN Append(q, x) = 1 .. Len(q) + 1
  OBVIOUS
<1>2. Append(q, x) # <<>>
  BY <1>1
<1>3. Outcomes(q) \subseteq Outcomes(Append(q, x)) /\ x \in Outcomes(Append(q, x))
  BY <1>1 DEF Outcomes
<1>4. QED
  BY <1>1, <1>2, <1>3

(* A row is recorded where it belongs and nowhere else.                    *)
LEMMA Recorded ==
  ASSUME TypeOK, NEW r \in Runs, NEW s \in Symbols, NEW k \in 1 .. Stages,
         NEW x \in Outcome, record(r, s, k, x)
  PROVE  /\ steps' \in [Runs -> [Symbols -> [1 .. Stages -> Seq(Outcome)]]]
         /\ \A q \in Runs, t \in Symbols : q # r \/ t # s => steps'[q][t] = steps[q][t]
         /\ \A j \in 1 .. Stages : j # k => steps'[r][s][j] = steps[r][s][j]
         /\ steps[r][s][k] \in Seq(Outcome)
         /\ steps'[r][s][k] = Append(steps[r][s][k], x)
<1>1. steps \in [Runs -> [Symbols -> [1 .. Stages -> Seq(Outcome)]]]
  BY DEF TypeOK, Outcome
<1>2. Append(steps[r][s][k], x) \in Seq(Outcome)
  BY <1>1, OneMore
<1>3. QED
  BY <1>1, <1>2 DEF record

(* A chain is moved alone.                                                 *)
LEMMA Moved ==
  ASSUME TypeOK, NEW r \in Runs, NEW s \in Symbols, NEW c \in Place, setChain(r, s, c)
  PROVE  /\ chain' \in [Runs -> [Symbols -> Place]]
         /\ chain'[r][s] = c
         /\ \A q \in Runs, t \in Symbols : q # r \/ t # s => chain'[q][t] = chain[q][t]
BY DEF TypeOK, Place, setChain

(* A failure is noted on the chain and changes nothing else of it.         *)
LEMMA Failing ==
  ASSUME NEW c \in Place
  PROVE  LET d == [c EXCEPT !.failed = TRUE] IN
         d \in Place /\ d.stage = c.stage /\ d.at = c.at /\ d.failed
<1>1. [c EXCEPT !.failed = TRUE] \in Place
  BY DEF Place
<1>2. [c EXCEPT !.failed = TRUE].failed
  BY DEF Place
<1>3. [c EXCEPT !.failed = TRUE].stage = c.stage /\ [c EXCEPT !.failed = TRUE].at = c.at
  BY DEF Place
<1>4. QED
  BY <1>1, <1>2, <1>3

(* A chain is rejected at its stage.                                       *)
LEMMA Rejecting ==
  ASSUME NEW c \in Place
  PROVE  LET d == [c EXCEPT !.at = "rejected"] IN
         d \in Place /\ d.stage = c.stage /\ d.failed = c.failed /\ d.at = "rejected"
<1>1. [c EXCEPT !.at = "rejected"] \in Place
  BY DEF Place
<1>2. /\ [c EXCEPT !.at = "rejected"].stage = c.stage
      /\ [c EXCEPT !.at = "rejected"].at = "rejected"
  BY DEF Place
<1>3. [c EXCEPT !.at = "rejected"].failed = c.failed
  BY DEF Place
<1>4. QED
  BY <1>1, <1>2, <1>3

(* A chain is queued at its stage, with its budget anew.                   *)
LEMMA Queueing ==
  ASSUME NEW c \in Place
  PROVE  LET d == [c EXCEPT !.at = "queued", !.attempt = 0] IN
         d \in Place /\ d.stage = c.stage /\ d.failed = c.failed /\ d.at = "queued"
<1>1. 0 \in 0 .. Retries
  BY StagesAssumption
<1>2. [c EXCEPT !.at = "queued", !.attempt = 0] \in Place
  BY <1>1 DEF Place
<1>3. /\ [c EXCEPT !.at = "queued", !.attempt = 0].stage = c.stage
      /\ [c EXCEPT !.at = "queued", !.attempt = 0].at = "queued"
  BY DEF Place
<1>4. [c EXCEPT !.at = "queued", !.attempt = 0].failed = c.failed
  BY DEF Place
<1>5. QED
  BY <1>2, <1>3, <1>4

(* A worker takes it up at its stage.                                      *)
LEMMA Starting ==
  ASSUME NEW c \in Place
  PROVE  LET d == [c EXCEPT !.at = "running"] IN
         d \in Place /\ d.stage = c.stage /\ d.failed = c.failed /\ d.at = "running"
<1>1. [c EXCEPT !.at = "running"] \in Place
  BY DEF Place
<1>2. /\ [c EXCEPT !.at = "running"].stage = c.stage
      /\ [c EXCEPT !.at = "running"].at = "running"
  BY DEF Place
<1>3. [c EXCEPT !.at = "running"].failed = c.failed
  BY DEF Place
<1>4. QED
  BY <1>1, <1>2, <1>3

(* A fulfilled stage ends the chain, or the next one is up.                *)
LEMMA Fulfils ==
  ASSUME NEW c \in Place
  PROVE  /\ Fulfilled(c) \in Place
         /\ Fulfilled(c).failed = c.failed
         /\ \/ c.stage = Stages /\ Fulfilled(c).at = "done" /\ Fulfilled(c).stage = c.stage
            \/ c.stage < Stages /\ Fulfilled(c).at = "between" /\ Fulfilled(c).stage = c.stage + 1
<1>1. /\ c.stage \in 1 .. Stages /\ c.attempt \in 0 .. Retries /\ c.failed \in BOOLEAN
      /\ c = [stage |-> c.stage, attempt |-> c.attempt, failed |-> c.failed, at |-> c.at]
  BY DEF Place
<1>2. CASE c.stage = Stages
  <2>1. Fulfilled(c) = [stage |-> c.stage, attempt |-> c.attempt, failed |-> c.failed, at |-> "done"]
    BY <1>1, <1>2 DEF Fulfilled
  <2>2. QED
    BY <1>1, <1>2, <2>1 DEF Place
<1>3. CASE c.stage # Stages
  <2>1. Fulfilled(c) = [stage |-> c.stage + 1, attempt |-> c.attempt, failed |-> c.failed,
                        at |-> "between"]
    BY <1>1, <1>3 DEF Fulfilled
  <2>2. c.stage + 1 \in 1 .. Stages
    BY <1>1, <1>3, StagesAssumption
  <2>3. c.stage < Stages
    BY <2>2, <1>1, StagesAssumption
  <2>4. QED
    BY <1>1, <1>3, <2>1, <2>2, <2>3 DEF Place
<1>4. QED
  BY <1>2, <1>3

(* A thrown attempt is queued again or ends the chain, at its stage.       *)
LEMMA Throws ==
  ASSUME NEW c \in Place
  PROVE  /\ Thrown(c) \in Place
         /\ Thrown(c).stage = c.stage /\ Thrown(c).failed = c.failed
         /\ Thrown(c).at \in {"queued", "rejected"}
<1>1. /\ c.stage \in 1 .. Stages /\ c.attempt \in 0 .. Retries /\ c.failed \in BOOLEAN
      /\ c = [stage |-> c.stage, attempt |-> c.attempt, failed |-> c.failed, at |-> c.at]
  BY DEF Place
<1>2. CASE c.attempt < Retries
  <2>1. Thrown(c) = [stage |-> c.stage, attempt |-> c.attempt + 1, failed |-> c.failed, at |-> "queued"]
    BY <1>1, <1>2 DEF Thrown
  <2>2. c.attempt + 1 \in 0 .. Retries
    BY <1>1, <1>2, StagesAssumption
  <2>3. QED
    BY <1>1, <2>1, <2>2 DEF Place
<1>3. CASE ~(c.attempt < Retries)
  <2>1. Thrown(c) = [stage |-> c.stage, attempt |-> c.attempt, failed |-> c.failed, at |-> "rejected"]
    BY <1>1, <1>3 DEF Thrown
  <2>2. QED
    BY <1>1, <2>1 DEF Place
<1>4. QED
  BY <1>2, <1>3

-----------------------------------------------------------------------------

(* What a step that moves no chain leaves of the invariant.                *)
QueueStands == UNCHANGED <<queue, timedOut>>

LEMMA PlacesStand ==
  ASSUME ChainsInPlace, StragglersBehind, OneOutcomePerStep, QueueStands
  PROVE  ChainsInPlace' /\ StragglersBehind' /\ OneOutcomePerStep'
BY DEF QueueStands, queue, ChainsInPlace, StragglersBehind, OneOutcomePerStep, InPlace, Behind

(* A chain that nothing touches stays in its place.                        *)
LEMMA OtherPlace ==
  ASSUME NEW r \in Runs, NEW s \in Symbols, InPlace(r, s),
         chain'[r][s] = chain[r][s], steps'[r][s] = steps[r][s], timedOut \subseteq timedOut'
  PROVE  InPlace(r, s)'
BY DEF InPlace

(* One that moves within its stage has its rows where they were.           *)
LEMMA SameStage ==
  ASSUME NEW r \in Runs, NEW s \in Symbols, InPlace(r, s), TypeOK,
         chain[r][s].at \notin Ended, chain'[r][s].at # "done",
         chain'[r][s].stage = chain[r][s].stage, chain'[r][s].failed = chain[r][s].failed,
         steps'[r][s] = steps[r][s], timedOut \subseteq timedOut'
  PROVE  InPlace(r, s)'
<1>1. chain[r][s].at # "done"
  BY DEF Ended
<1>2. QED
  BY <1>1 DEF InPlace

(* A chain that was not ended by a stop has only timed-out attempts behind *)
(* it: whatever it does, they stay behind, and so do those of the others.  *)
LEMMA StayBehind ==
  ASSUME TypeOK, NEW r \in Runs, NEW s \in Symbols, StragglersBehind,
         chain[r][s].at # "rejected",
         chain' \in [Runs -> [Symbols -> Place]],
         chain[r][s].stage <= chain'[r][s].stage,
         \A q \in Runs, t \in Symbols : q # r \/ t # s =>
           chain'[q][t] = chain[q][t] /\ steps'[q][t] = steps[q][t],
         timedOut \subseteq timedOut',
         \A b \in stragglers' : b \in stragglers \/ (b.run = r /\ b.symbol = s)
  PROVE  \A a \in stragglers : Behind(a)'
<1> SUFFICES ASSUME NEW a \in stragglers
             PROVE  Behind(a)'
  OBVIOUS
<1>1. a.run \in Runs /\ a.symbol \in Symbols /\ a.stage \in 1 .. Stages
  BY DEF TypeOK
<1>2. chain[r][s].stage \in 1 .. Stages /\ chain'[r][s].stage \in 1 .. Stages
  BY DEF TypeOK, Place
<1>3. Behind(a)
  BY DEF StragglersBehind
<1>4. CASE a.run = r /\ a.symbol = s
  BY <1>1, <1>2, <1>3, <1>4, StagesAssumption DEF Behind
<1>5. CASE ~(a.run = r /\ a.symbol = s)
  BY <1>1, <1>3, <1>5 DEF Behind
<1>6. QED
  BY <1>4, <1>5

(* Queueing, starting, throwing and timing out: the chain stays at its     *)
(* stage, and only an attempt that has timed out is left behind.           *)
LEMMA WithinStage ==
  ASSUME TypeOK, ChainsInPlace, StragglersBehind, OneOutcomePerStep,
         NEW r \in Runs, NEW s \in Symbols, NEW c \in Place, setChain(r, s, c),
         chain[r][s].at \notin Ended, c.at # "done",
         c.stage = chain[r][s].stage, c.failed = chain[r][s].failed,
         steps' = steps, timedOut \subseteq timedOut',
         \/ stragglers' = stragglers
         \/ /\ stragglers' = stragglers \cup {Attempt(r, s)}
            /\ <<r, s, chain[r][s].stage>> \in timedOut'
  PROVE  ChainsInPlace' /\ StragglersBehind' /\ OneOutcomePerStep'
<1>1. /\ chain' \in [Runs -> [Symbols -> Place]]
      /\ chain'[r][s] = c
      /\ \A q \in Runs, t \in Symbols : q # r \/ t # s => chain'[q][t] = chain[q][t]
  BY Moved
<1>2. ChainsInPlace'
  <2> SUFFICES ASSUME NEW q \in Runs, NEW t \in Symbols
               PROVE  InPlace(q, t)'
    BY DEF ChainsInPlace
  <2>1. InPlace(q, t)
    BY DEF ChainsInPlace
  <2>2. CASE q = r /\ t = s
    BY <1>1, <2>1, <2>2, SameStage
  <2>3. CASE ~(q = r /\ t = s)
    BY <1>1, <2>1, <2>3, OtherPlace
  <2>4. QED
    BY <2>2, <2>3
<1>3. OneOutcomePerStep'
  BY DEF OneOutcomePerStep
<1>4. Attempt(r, s).run = r /\ Attempt(r, s).symbol = s /\ Attempt(r, s).stage = chain[r][s].stage
  BY DEF Attempt
<1>5. chain[r][s].stage \in 1 .. Stages
  BY DEF TypeOK
<1>6. \A a \in stragglers : Behind(a)'
  <2>1. chain[r][s].at # "rejected"
    BY DEF Ended
  <2>2. chain[r][s].stage <= chain'[r][s].stage
    BY <1>1, <1>5, StagesAssumption
  <2>3. \A b \in stragglers' : b \in stragglers \/ (b.run = r /\ b.symbol = s)
    BY <1>4
  <2>4. QED
    BY <1>1, <2>1, <2>2, <2>3, StayBehind
<1>7. ASSUME NEW a, a = Attempt(r, s), <<r, s, chain[r][s].stage>> \in timedOut'
      PROVE  Behind(a)'
  <2>1. a.run = r /\ a.symbol = s /\ a.stage = chain[r][s].stage
    BY <1>4, <1>7
  <2>2. a.stage <= chain'[a.run][a.symbol].stage
    BY <1>1, <1>5, <2>1, StagesAssumption
  <2>3. <<a.run, a.symbol, a.stage>> \in timedOut'
    BY <1>7, <2>1
  <2>4. QED
    BY <2>2, <2>3 DEF Behind
<1>8. StragglersBehind'
  BY <1>6, <1>7 DEF StragglersBehind
<1>9. QED
  BY <1>2, <1>3, <1>8

(* Settling: the row is the stage's first, unless an attempt of it timed   *)
(* out, and the chain goes on behind it.                                   *)
LEMMA Settling ==
  ASSUME TypeOK, ChainsInPlace, StragglersBehind, OneOutcomePerStep,
         NEW r \in Runs, NEW s \in Symbols, NEW d \in Place, NEW x \in Outcome,
         chain[r][s].at = "running",
         record(r, s, chain[r][s].stage, x), setChain(r, s, d),
         \/ chain[r][s].stage = Stages /\ d.at = "done" /\ d.stage = chain[r][s].stage
         \/ chain[r][s].stage < Stages /\ d.at = "between" /\ d.stage = chain[r][s].stage + 1,
         ~d.failed => ~chain[r][s].failed /\ x = "ok",
         stragglers' = stragglers, timedOut' = timedOut
  PROVE  ChainsInPlace' /\ StragglersBehind' /\ OneOutcomePerStep'
<1> DEFINE k == chain[r][s].stage
<1>1. /\ chain' \in [Runs -> [Symbols -> Place]]
      /\ chain'[r][s] = d
      /\ \A q \in Runs, t \in Symbols : q # r \/ t # s => chain'[q][t] = chain[q][t]
  BY Moved
<1>2. k \in 1 .. Stages /\ d.stage \in 1 .. Stages
  BY DEF TypeOK, Place
<1> HIDE DEF k
<1>3. /\ \A q \in Runs, t \in Symbols : q # r \/ t # s => steps'[q][t] = steps[q][t]
      /\ \A j \in 1 .. Stages : j # k => steps'[r][s][j] = steps[r][s][j]
      /\ steps[r][s][k] \in Seq(Outcome)
      /\ steps'[r][s][k] = Append(steps[r][s][k], x)
  BY <1>2, Recorded DEF k
<1>4. /\ steps'[r][s][k] # <<>> /\ Len(steps'[r][s][k]) = Len(steps[r][s][k]) + 1
      /\ x \in Outcomes(steps'[r][s][k])
  BY <1>3, OneMore
<1>5. InPlace(r, s)
  BY DEF ChainsInPlace
<1>6. steps[r][s][k] = <<>> \/ <<r, s, k>> \in timedOut
  BY <1>5 DEF InPlace, Ended, k
<1>7. InPlace(r, s)'
  <2> DEFINE left == {j \in 1 .. Stages : j < d.stage \/ d.at = "done"}
  <2>1. left = {j \in 1 .. Stages : j < k} \cup {k} /\ d.at # "rejected"
    BY <1>2, StagesAssumption DEF k
  <2>2. \A j \in 1 .. Stages : j < k => steps'[r][s][j] # <<>>
    BY <1>2, <1>3, <1>5 DEF InPlace, k
  <2>3. \A j \in 1 .. Stages : j > k => steps'[r][s][j] = <<>>
    BY <1>2, <1>3, <1>5 DEF InPlace, k
  <2>4. \A j \in left : steps'[r][s][j] # <<>>
    BY <1>4, <2>1, <2>2
  <2>5. ASSUME ~d.failed
        PROVE  \A j \in left : "ok" \in Outcomes(steps'[r][s][j])
    <3>1. "ok" \in Outcomes(steps'[r][s][k])
      BY <1>4, <2>5
    <3>2. \A j \in 1 .. Stages : j < k => "ok" \in Outcomes(steps'[r][s][j])
      BY <1>2, <1>3, <1>5, <2>5 DEF InPlace, k
    <3>3. QED
      BY <3>1, <3>2, <2>1
  <2>6. d.at = "done" => d.stage = Stages
    BY DEF k
  <2>7. d.at \notin Ended => steps'[r][s][d.stage] = <<>>
    BY <1>2, <2>3 DEF Ended, k
  <2>8. \A j \in 1 .. Stages : j > d.stage => steps'[r][s][j] = <<>>
    BY <1>2, <2>3 DEF k
  <2>9. QED
    BY <1>1, <2>4, <2>5, <2>6, <2>7, <2>8 DEF InPlace
<1>8. ChainsInPlace'
  <2> SUFFICES ASSUME NEW q \in Runs, NEW t \in Symbols
               PROVE  InPlace(q, t)'
    BY DEF ChainsInPlace
  <2>1. CASE q = r /\ t = s
    BY <1>7, <2>1
  <2>2. CASE ~(q = r /\ t = s)
    BY <1>1, <1>3, <2>2, OtherPlace DEF ChainsInPlace
  <2>3. QED
    BY <2>1, <2>2
<1>9. OneOutcomePerStep'
  <2> SUFFICES ASSUME NEW q \in Runs, NEW t \in Symbols, NEW j \in 1 .. Stages,
                      Len(steps'[q][t][j]) > 1
               PROVE  <<q, t, j>> \in timedOut
    BY DEF OneOutcomePerStep
  <2>1. CASE q = r /\ t = s /\ j = k
    BY <1>4, <1>6, <2>1
  <2>2. CASE ~(q = r /\ t = s /\ j = k)
    BY <1>3, <2>2 DEF OneOutcomePerStep
  <2>3. QED
    BY <2>1, <2>2
<1>10. StragglersBehind'
  <2>1. chain[r][s].stage <= chain'[r][s].stage
    BY <1>1, <1>2 DEF k
  <2>2. \A a \in stragglers : Behind(a)'
    BY <1>1, <1>3, <2>1, StayBehind
  <2>3. QED
    BY <2>2 DEF StragglersBehind
<1>11. QED
  BY <1>8, <1>9, <1>10

(* A straggler that settles: its stage is one the chain has reached, and   *)
(* has a row already only if an attempt of it timed out.                   *)
LEMMA StragglerRecords ==
  ASSUME TypeOK, ChainsInPlace, StragglersBehind, OneOutcomePerStep,
         NEW a \in stragglers, NEW x \in Outcome, record(a.run, a.symbol, a.stage, x),
         stragglers' = stragglers \ {a}, chain' = chain, timedOut' = timedOut
  PROVE  ChainsInPlace' /\ StragglersBehind' /\ OneOutcomePerStep'
<1> DEFINE r == a.run
           s == a.symbol
           k == a.stage
<1>1. r \in Runs /\ s \in Symbols /\ k \in 1 .. Stages
  BY DEF TypeOK
<1>2. Behind(a)
  BY DEF StragglersBehind
<1>3. record(r, s, k, x)
  OBVIOUS
<1>4. chain[r][s].stage \in 1 .. Stages
  BY <1>1 DEF TypeOK
<1> HIDE DEF r, s, k
<1>5. /\ \A q \in Runs, t \in Symbols : q # r \/ t # s => steps'[q][t] = steps[q][t]
      /\ \A j \in 1 .. Stages : j # k => steps'[r][s][j] = steps[r][s][j]
      /\ steps[r][s][k] \in Seq(Outcome)
      /\ steps'[r][s][k] = Append(steps[r][s][k], x)
  BY <1>1, <1>3, Recorded
<1>6. /\ steps'[r][s][k] # <<>> /\ Len(steps'[r][s][k]) = Len(steps[r][s][k]) + 1
      /\ Outcomes(steps[r][s][k]) \subseteq Outcomes(steps'[r][s][k])
  BY <1>5, OneMore
<1>7. /\ k <= chain[r][s].stage
      /\ \/ <<r, s, k>> \in timedOut
         \/ /\ chain[r][s].at = "rejected" /\ chain[r][s].stage = k /\ steps[r][s][k] = <<>>
            /\ \A b \in stragglers : b.run = r /\ b.symbol = s /\ b.stage = k => b = a
  BY <1>2 DEF Behind, r, s, k
<1>8. InPlace(r, s)'
  <2>1. InPlace(r, s)
    BY <1>1 DEF ChainsInPlace
  <2>2. \A j \in 1 .. Stages : steps[r][s][j] # <<>> => steps'[r][s][j] # <<>>
    BY <1>5, <1>6
  <2>3. \A j \in 1 .. Stages : Outcomes(steps[r][s][j]) \subseteq Outcomes(steps'[r][s][j])
    BY <1>5, <1>6
  <2>4. \A j \in 1 .. Stages : j > chain[r][s].stage => steps'[r][s][j] = steps[r][s][j]
    BY <1>1, <1>4, <1>5, <1>7
  <2>5. chain[r][s].at \notin Ended =>
          steps'[r][s][chain[r][s].stage] = <<>> \/ <<r, s, chain[r][s].stage>> \in timedOut
    BY <1>4, <1>5, <1>7, <2>1 DEF InPlace, Ended
  <2>6. QED
    BY <2>1, <2>2, <2>3, <2>4, <2>5 DEF InPlace
<1>9. ChainsInPlace'
  <2> SUFFICES ASSUME NEW q \in Runs, NEW t \in Symbols
               PROVE  InPlace(q, t)'
    BY DEF ChainsInPlace
  <2>1. CASE q = r /\ t = s
    BY <1>8, <2>1
  <2>2. CASE ~(q = r /\ t = s)
    BY <1>5, <2>2, OtherPlace DEF ChainsInPlace
  <2>3. QED
    BY <2>1, <2>2
<1>10. OneOutcomePerStep'
  <2> SUFFICES ASSUME NEW q \in Runs, NEW t \in Symbols, NEW j \in 1 .. Stages,
                      Len(steps'[q][t][j]) > 1
               PROVE  <<q, t, j>> \in timedOut
    BY DEF OneOutcomePerStep
  <2>1. CASE q = r /\ t = s /\ j = k
    BY <1>6, <1>7, <2>1
  <2>2. CASE ~(q = r /\ t = s /\ j = k)
    BY <1>5, <2>2 DEF OneOutcomePerStep
  <2>3. QED
    BY <2>1, <2>2
<1>11. StragglersBehind'
  <2> SUFFICES ASSUME NEW b \in stragglers, b # a
               PROVE  Behind(b)'
    BY DEF StragglersBehind
  <2>1. b.run \in Runs /\ b.symbol \in Symbols /\ b.stage \in 1 .. Stages
    BY DEF TypeOK
  <2>2. Behind(b)
    BY DEF StragglersBehind
  <2>3. CASE b.run = r /\ b.symbol = s /\ b.stage = k
    BY <1>7, <2>2, <2>3 DEF Behind
  <2>4. CASE ~(b.run = r /\ b.symbol = s /\ b.stage = k)
    <3>1. steps'[b.run][b.symbol][b.stage] = steps[b.run][b.symbol][b.stage]
      BY <1>5, <2>1, <2>4
    <3>2. QED
      BY <2>2, <3>1 DEF Behind
  <2>5. QED
    BY <2>3, <2>4
<1>12. QED
  BY <1>9, <1>10, <1>11

(* A stop ends the chains it finds under way.  What it takes from a chain  *)
(* is the one attempt behind it that has not timed out.                    *)
LEMMA Cancelling ==
  ASSUME TypeOK, StopIsOfARun, ChainsInPlace, StragglersBehind, OneOutcomePerStep, Cancel
  PROVE  ChainsInPlace' /\ StragglersBehind' /\ OneOutcomePerStep'
<1> DEFINE r == stopping.run
           live == {s \in plan[r] : chain[r][s].at \in {"queued", "running"}}
<1>1. r \in Runs
  BY DEF StopIsOfARun, Cancel
<1>2. plan[r] \subseteq Symbols /\ chain \in [Runs -> [Symbols -> Place]]
  BY <1>1 DEF TypeOK, Place
<1>3. /\ stragglers' = stragglers \cup
            {Attempt(r, s) : s \in {t \in live : chain[r][t].at = "running"}}
      /\ chain' = [chain EXCEPT ![r] =
           [s \in Symbols |-> IF s \in live THEN [@[s] EXCEPT !.at = "rejected"] ELSE @[s]]]
      /\ steps' = steps /\ timedOut' = timedOut
  BY DEF Cancel, bounds
<1>4. live \subseteq Symbols /\ \A s \in live : chain[r][s].at \in {"queued", "running"}
  BY <1>2
<1> HIDE DEF live
<1>5. /\ \A s \in live : chain'[r][s] = [chain[r][s] EXCEPT !.at = "rejected"]
      /\ \A q \in Runs, s \in Symbols : q # r \/ s \notin live => chain'[q][s] = chain[q][s]
  BY <1>1, <1>2, <1>3, <1>4
<1>6. \A s \in live : /\ chain'[r][s].at = "rejected"
                      /\ chain'[r][s].stage = chain[r][s].stage
                      /\ chain'[r][s].failed = chain[r][s].failed
  <2> SUFFICES ASSUME NEW s \in live
               PROVE  /\ chain'[r][s].at = "rejected"
                      /\ chain'[r][s].stage = chain[r][s].stage
                      /\ chain'[r][s].failed = chain[r][s].failed
    OBVIOUS
  <2>1. chain[r][s] \in Place /\ chain'[r][s] = [chain[r][s] EXCEPT !.at = "rejected"]
    BY <1>1, <1>2, <1>4, <1>5
  <2>2. QED
    BY <2>1, Rejecting
<1> HIDE DEF r
<1>7. ChainsInPlace'
  <2> SUFFICES ASSUME NEW q \in Runs, NEW t \in Symbols
               PROVE  InPlace(q, t)'
    BY DEF ChainsInPlace
  <2>1. CASE q = r /\ t \in live
    BY <1>3, <1>4, <1>6, <2>1, SameStage DEF ChainsInPlace, Ended
  <2>2. CASE ~(q = r /\ t \in live)
    BY <1>3, <1>5, <2>2, OtherPlace DEF ChainsInPlace
  <2>3. QED
    BY <2>1, <2>2
<1>8. OneOutcomePerStep'
  BY <1>3 DEF OneOutcomePerStep
<1>9. ASSUME NEW b \in stragglers' \ stragglers
      PROVE  /\ b.run = r /\ b.symbol \in live /\ chain[r][b.symbol].at = "running"
             /\ b.stage = chain[r][b.symbol].stage /\ b = Attempt(r, b.symbol)
  BY <1>3 DEF Attempt
<1>10. ASSUME NEW a \in stragglers
       PROVE  Behind(a)'
  <2>1. a.run \in Runs /\ a.symbol \in Symbols /\ a.stage \in 1 .. Stages /\ Behind(a)
    BY DEF TypeOK, StragglersBehind
  <2>2. CASE a.run = r /\ a.symbol \in live
    BY <1>3, <1>4, <1>6, <2>1, <2>2 DEF Behind
  <2>3. CASE ~(a.run = r /\ a.symbol \in live)
    <3>1. chain'[a.run][a.symbol] = chain[a.run][a.symbol]
      BY <1>5, <2>1, <2>3
    <3>2. \A b \in stragglers' : b.run = a.run /\ b.symbol = a.symbol => b \in stragglers
      BY <1>9, <2>3
    <3>3. QED
      BY <1>3, <2>1, <3>1, <3>2 DEF Behind
  <2>4. QED
    BY <2>2, <2>3
<1>11. ASSUME NEW a \in stragglers', a \notin stragglers
       PROVE  Behind(a)'
  <2>1. /\ a.run = r /\ a.symbol \in live /\ chain[r][a.symbol].at = "running"
        /\ a.stage = chain[r][a.symbol].stage /\ a = Attempt(r, a.symbol)
    BY <1>9, <1>11
  <2>2. InPlace(r, a.symbol)
    BY <1>1, <1>4, <2>1 DEF ChainsInPlace
  <2>3. steps[r][a.symbol][a.stage] = <<>> \/ <<r, a.symbol, a.stage>> \in timedOut
    BY <2>1, <2>2 DEF InPlace, Ended
  <2>4. a.stage \in 1 .. Stages
    BY <1>1, <1>2, <1>4, <2>1 DEF Place
  <2>5. CASE <<r, a.symbol, a.stage>> \in timedOut
    BY <1>3, <1>6, <2>1, <2>4, <2>5, StagesAssumption DEF Behind
  <2>6. CASE <<r, a.symbol, a.stage>> \notin timedOut
    <3>1. \A b \in stragglers' : b.run = r /\ b.symbol = a.symbol /\ b.stage = a.stage => b = a
      <4> SUFFICES ASSUME NEW b \in stragglers', b.run = r, b.symbol = a.symbol, b.stage = a.stage
                   PROVE  b = a
        OBVIOUS
      <4>1. CASE b \in stragglers
        BY <2>1, <2>6, <4>1 DEF StragglersBehind, Behind
      <4>2. CASE b \notin stragglers
        BY <1>9, <2>1, <4>2
      <4>3. QED
        BY <4>1, <4>2
    <3>2. QED
      BY <1>3, <1>6, <2>1, <2>3, <2>4, <2>6, <3>1, StagesAssumption DEF Behind
  <2>7. QED
    BY <2>5, <2>6
<1>12. StragglersBehind'
  BY <1>10, <1>11 DEF StragglersBehind
<1>13. QED
  BY <1>7, <1>8, <1>12

-----------------------------------------------------------------------------

(* Every step keeps the chains, their rows and their stragglers in order.  *)
LEMMA PlacesKept ==
  ASSUME TypeOK, StopIsOfARun, ChainsInPlace, StragglersBehind, OneOutcomePerStep, Next
  PROVE  ChainsInPlace' /\ StragglersBehind' /\ OneOutcomePerStep'
<1> DEFINE Goal == ChainsInPlace' /\ StragglersBehind' /\ OneOutcomePerStep'
<1>1. CASE QueueStands
  BY <1>1, PlacesStand
<1>2. ASSUME NEW r \in Runs, NEW s \in Symbols, QueueStage(r, s)
      PROVE  Goal
  <2> DEFINE c == [chain[r][s] EXCEPT !.at = "queued", !.attempt = 0]
  <2>1. chain[r][s] \in Place
    BY DEF TypeOK, Place
  <2>2. c \in Place /\ c.at = "queued" /\ c.stage = chain[r][s].stage /\ c.failed = chain[r][s].failed
    BY <2>1, Queueing
  <2>3. /\ setChain(r, s, c) /\ chain[r][s].at = "between"
        /\ steps' = steps /\ timedOut' = timedOut /\ stragglers' = stragglers
    BY <1>2 DEF QueueStage, bounds
  <2> HIDE DEF c
  <2>4. QED
    BY <2>2, <2>3, WithinStage DEF Ended
<1>3. ASSUME NEW r \in Runs, NEW s \in Symbols, StartStage(r, s)
      PROVE  Goal
  <2> DEFINE c == [chain[r][s] EXCEPT !.at = "running"]
  <2>1. chain[r][s] \in Place
    BY DEF TypeOK, Place
  <2>2. c \in Place /\ c.at = "running" /\ c.stage = chain[r][s].stage /\ c.failed = chain[r][s].failed
    BY <2>1, Starting
  <2>3. /\ setChain(r, s, c) /\ chain[r][s].at = "queued"
        /\ steps' = steps /\ timedOut' = timedOut /\ stragglers' = stragglers
    BY <1>3 DEF StartStage, bounds
  <2> HIDE DEF c
  <2>4. QED
    BY <2>2, <2>3, WithinStage DEF Ended
<1>4. ASSUME NEW r \in Runs, NEW s \in Symbols, Settle(r, s)
      PROVE  Goal
  <2> DEFINE c == chain[r][s]
  <2>1. c \in Place
    BY DEF TypeOK, Place
  <2>2. c.at = "running" /\ stragglers' = stragglers /\ timedOut' = timedOut
    BY <1>4 DEF Settle, bounds
  <2>3. CASE record(r, s, c.stage, "ok") /\ setChain(r, s, Fulfilled(c))
    BY <2>1, <2>2, <2>3, Fulfils, Settling DEF Outcome
  <2>4. CASE record(r, s, c.stage, "failed")
             /\ setChain(r, s, [Fulfilled(c) EXCEPT !.failed = TRUE])
    BY <2>1, <2>2, <2>4, Fulfils, Failing, Settling DEF Outcome
  <2>5. CASE setChain(r, s, Thrown(c)) /\ UNCHANGED steps
    BY <2>1, <2>2, <2>5, Throws, WithinStage DEF Ended
  <2>6. QED
    BY <1>4, <2>3, <2>4, <2>5 DEF Settle
<1>5. ASSUME NEW r \in Runs, NEW s \in Symbols, FailToRecord(r, s)
      PROVE  Goal
  <2>1. chain[r][s] \in Place
    BY DEF TypeOK, Place
  <2>2. /\ chain[r][s].at = "running" /\ setChain(r, s, Thrown(chain[r][s]))
        /\ steps' = steps /\ stragglers' = stragglers /\ timedOut' = timedOut
    BY <1>5 DEF FailToRecord, bounds
  <2>3. QED
    BY <2>1, <2>2, Throws, WithinStage DEF Ended
<1>6. ASSUME NEW r \in Runs, NEW s \in Symbols, ExecutionTimeout(r, s)
      PROVE  Goal
  <2>1. chain[r][s] \in Place
    BY DEF TypeOK, Place
  <2>2. /\ chain[r][s].at = "running" /\ setChain(r, s, Thrown(chain[r][s])) /\ steps' = steps
        /\ stragglers' = stragglers \cup {Attempt(r, s)}
        /\ timedOut' = timedOut \cup {<<r, s, chain[r][s].stage>>}
    BY <1>6 DEF ExecutionTimeout
  <2>3. QED
    BY <2>1, <2>2, Throws, WithinStage DEF Ended
<1>7. ASSUME NEW r \in Runs, NEW s \in Symbols, QueueTimeout(r, s)
      PROVE  Goal
  <2>1. chain[r][s] \in Place
    BY DEF TypeOK, Place
  <2>2. /\ chain[r][s].at = "queued" /\ setChain(r, s, [chain[r][s] EXCEPT !.at = "rejected"])
        /\ steps' = steps /\ stragglers' = stragglers /\ timedOut' = timedOut
    BY <1>7 DEF QueueTimeout
  <2>3. QED
    BY <2>1, <2>2, Rejecting, WithinStage DEF Ended
<1>8. ASSUME NEW a \in stragglers, StragglerEnds(a)
      PROVE  Goal
  <2>1. stragglers' = stragglers \ {a} /\ chain' = chain /\ timedOut' = timedOut
    BY <1>8 DEF StragglerEnds, bounds
  <2>2. CASE \E x \in Outcome : record(a.run, a.symbol, a.stage, x)
    BY <2>1, <2>2, StragglerRecords
  <2>3. CASE UNCHANGED steps
    BY <2>1, <2>3 DEF ChainsInPlace, StragglersBehind, OneOutcomePerStep, InPlace, Behind
  <2>4. QED
    BY <1>8, <2>2, <2>3 DEF StragglerEnds, Outcome
<1>9. CASE Cancel
  BY <1>9, Cancelling
<1>10. ASSUME NEW r \in Runs, Ask(r) \/ CronFires(r) \/ ParentStep(r) \/ LoseParent(r)
       PROVE  QueueStands
  BY <1>10 DEF Ask, CronFires, ParentStep, LoseParent, Enqueue, Begin, FailToStart, OpenRow,
     LeaveWatchlist, SendMessage, NextReference, EndUniverse, UniverseThrows, Close,
     QueueStands, queue, bounds
<1>11. ASSUME ReadForStop \/ CancelFails \/ CloseStopped \/ ApiRestarts
       PROVE  QueueStands
  BY <1>11 DEF ReadForStop, CancelFails, CloseStopped, ApiRestarts, QueueStands, queue, bounds
<1>12. QED
  BY <1>1, <1>2, <1>3, <1>4, <1>5, <1>6, <1>7, <1>8, <1>9, <1>10, <1>11 DEF Next, StageStep

-----------------------------------------------------------------------------

(* A chain that has come to its end is not taken up again.                 *)
LEMMA EndIsFinal ==
  ASSUME TypeOK, Next, NEW r \in Runs, NEW s \in Symbols, chain[r][s].at \in Ended
  PROVE  chain'[r][s] = chain[r][s]
<1> USE DEF Ended
<1>1. ASSUME NEW q \in Runs, NEW t \in Symbols, NEW c, chain[q][t].at \notin Ended,
             setChain(q, t, c)
      PROVE  chain'[r][s] = chain[r][s]
  BY <1>1 DEF setChain, TypeOK
<1>2. ASSUME NEW q \in Runs, NEW t \in Symbols,
             StageStep(q, t) \/ ExecutionTimeout(q, t) \/ QueueTimeout(q, t)
      PROVE  chain[q][t].at \notin Ended /\ \E c : setChain(q, t, c)
  BY <1>2 DEF StageStep, QueueStage, StartStage, Settle, FailToRecord, ExecutionTimeout, QueueTimeout
<1>3. CASE chain' = chain
  BY <1>3
<1>4. CASE Cancel
  <2> DEFINE live == {t \in plan[stopping.run] : chain[stopping.run][t].at \in {"queued", "running"}}
  <2>1. chain' = [chain EXCEPT ![stopping.run] =
          [t \in Symbols |-> IF t \in live THEN [@[t] EXCEPT !.at = "rejected"] ELSE @[t]]]
    BY <1>4 DEF Cancel
  <2>2. CASE stopping.run = r
    <3>1. s \notin live
      BY <2>2
    <3> HIDE DEF live
    <3>2. QED
      BY <2>1, <2>2, <3>1 DEF TypeOK
  <2>3. CASE stopping.run # r
    BY <2>1, <2>3 DEF TypeOK
  <2>4. QED
    BY <2>2, <2>3
<1>5. ASSUME NEW a \in stragglers, StragglerEnds(a)
      PROVE  chain' = chain
  BY <1>5 DEF StragglerEnds
<1>6. ASSUME NEW q \in Runs, Ask(q) \/ CronFires(q) \/ ParentStep(q) \/ LoseParent(q)
      PROVE  chain' = chain
  BY <1>6 DEF Ask, CronFires, ParentStep, LoseParent, Enqueue, Begin, FailToStart, OpenRow,
     LeaveWatchlist, SendMessage, NextReference, EndUniverse, UniverseThrows, Close, queue
<1>7. ASSUME ReadForStop \/ CancelFails \/ CloseStopped \/ ApiRestarts
      PROVE  chain' = chain
  BY <1>7 DEF ReadForStop, CancelFails, CloseStopped, ApiRestarts, queue
<1>8. QED
  BY <1>1, <1>2, <1>3, <1>4, <1>5, <1>6, <1>7 DEF Next

(* The newest row is the row of a run.                                     *)
LEMMA NewestIsARun ==
  ASSUME TypeOK, RunningInDb
  PROVE  opened[Len(opened)] \in Runs
BY DEF TypeOK, RunningInDb

(* Every step keeps the shape of the queue.                                *)
LEMMA QueueTyped ==
  ASSUME TypeOK, StopIsOfARun, Next
  PROVE  /\ chain' \in [Runs -> [Symbols -> Place]]
         /\ stragglers' \subseteq
              [run : Runs, symbol : Symbols, stage : 1 .. Stages, attempt : 0 .. Retries]
         /\ steps' \in [Runs -> [Symbols -> [1 .. Stages -> Seq(Outcome)]]]
<1> DEFINE Goal ==
      /\ chain' \in [Runs -> [Symbols -> Place]]
      /\ stragglers' \subseteq
           [run : Runs, symbol : Symbols, stage : 1 .. Stages, attempt : 0 .. Retries]
      /\ steps' \in [Runs -> [Symbols -> [1 .. Stages -> Seq(Outcome)]]]
<1>1. /\ chain \in [Runs -> [Symbols -> Place]]
      /\ stragglers \subseteq
           [run : Runs, symbol : Symbols, stage : 1 .. Stages, attempt : 0 .. Retries]
      /\ steps \in [Runs -> [Symbols -> [1 .. Stages -> Seq(Outcome)]]]
  BY DEF TypeOK, Place, Outcome
<1>2. \A r \in Runs, s \in Symbols :
        /\ chain[r][s] \in Place
        /\ Attempt(r, s) \in [run : Runs, symbol : Symbols, stage : 1 .. Stages, attempt : 0 .. Retries]
  BY <1>1 DEF Attempt, Place
<1>3. CASE QueueStands
  BY <1>1, <1>3 DEF QueueStands, queue
<1>4. ASSUME NEW r \in Runs, NEW s \in Symbols,
             StageStep(r, s) \/ ExecutionTimeout(r, s) \/ QueueTimeout(r, s)
      PROVE  Goal
  <2>1. /\ [chain[r][s] EXCEPT !.at = "queued", !.attempt = 0] \in Place
        /\ [chain[r][s] EXCEPT !.at = "running"] \in Place
    BY <1>2, Queueing, Starting
  <2>2. /\ Fulfilled(chain[r][s]) \in Place /\ Thrown(chain[r][s]) \in Place
        /\ [Fulfilled(chain[r][s]) EXCEPT !.failed = TRUE] \in Place
        /\ [chain[r][s] EXCEPT !.at = "rejected"] \in Place
    BY <1>2, Fulfils, Throws, Failing, Rejecting
  <2>3. \E c \in Place : setChain(r, s, c)
    BY <1>4, <2>1, <2>2 DEF StageStep, QueueStage, StartStage, Settle, FailToRecord,
       ExecutionTimeout, QueueTimeout
  <2>4. chain' \in [Runs -> [Symbols -> Place]]
    BY <2>3, Moved
  <2>5. stragglers' = stragglers \/ stragglers' = stragglers \cup {Attempt(r, s)}
    BY <1>4 DEF StageStep, QueueStage, StartStage, Settle, FailToRecord,
       ExecutionTimeout, QueueTimeout
  <2>6. steps' = steps \/ \E x \in Outcome : record(r, s, chain[r][s].stage, x)
    BY <1>4 DEF StageStep, QueueStage, StartStage, Settle, FailToRecord,
       ExecutionTimeout, QueueTimeout, Outcome
  <2>7. chain[r][s].stage \in 1 .. Stages
    BY <1>2 DEF Place
  <2>8. steps' \in [Runs -> [Symbols -> [1 .. Stages -> Seq(Outcome)]]]
    BY <1>1, <2>6, <2>7, Recorded
  <2>9. QED
    BY <1>1, <1>2, <2>4, <2>5, <2>8
<1>5. ASSUME NEW a \in stragglers, StragglerEnds(a)
      PROVE  Goal
  <2>1. a.run \in Runs /\ a.symbol \in Symbols /\ a.stage \in 1 .. Stages
    BY <1>1
  <2>2. /\ chain' = chain /\ stragglers' \subseteq stragglers
        /\ steps' = steps \/ \E x \in Outcome : record(a.run, a.symbol, a.stage, x)
    BY <1>5 DEF StragglerEnds, Outcome
  <2>3. steps' \in [Runs -> [Symbols -> [1 .. Stages -> Seq(Outcome)]]]
    BY <1>1, <2>1, <2>2, Recorded
  <2>4. QED
    BY <1>1, <2>2, <2>3
<1>6. CASE Cancel
  <2> DEFINE r == stopping.run
             live == {s \in plan[r] : chain[r][s].at \in {"queued", "running"}}
  <2>1. /\ stragglers' = stragglers \cup
             {Attempt(r, s) : s \in {t \in live : chain[r][t].at = "running"}}
        /\ chain' = [chain EXCEPT ![r] =
             [s \in Symbols |-> IF s \in live THEN [@[s] EXCEPT !.at = "rejected"] ELSE @[s]]]
        /\ steps' = steps
    BY <1>6 DEF Cancel
  <2>2. r \in Runs /\ plan[r] \subseteq Symbols
    BY <1>6 DEF StopIsOfARun, Cancel, TypeOK
  <2>3. live \subseteq Symbols
    BY <2>2
  <2> HIDE DEF live, r
  <2>4. stragglers' \subseteq
          [run : Runs, symbol : Symbols, stage : 1 .. Stages, attempt : 0 .. Retries]
    BY <1>1, <1>2, <2>1, <2>2, <2>3
  <2>5. \A s \in Symbols : [chain[r][s] EXCEPT !.at = "rejected"] \in Place
    BY <1>2, <2>2, Rejecting
  <2>6. chain' \in [Runs -> [Symbols -> Place]]
    BY <1>1, <1>2, <2>1, <2>2, <2>5
  <2>7. QED
    BY <1>1, <2>1, <2>4, <2>6
<1>7. ASSUME NEW r \in Runs, Ask(r) \/ CronFires(r) \/ ParentStep(r) \/ LoseParent(r)
      PROVE  QueueStands
  BY <1>7 DEF Ask, CronFires, ParentStep, LoseParent, Enqueue, Begin, FailToStart, OpenRow,
     LeaveWatchlist, SendMessage, NextReference, EndUniverse, UniverseThrows, Close,
     QueueStands, queue, bounds
<1>8. ASSUME ReadForStop \/ CancelFails \/ CloseStopped \/ ApiRestarts
      PROVE  QueueStands
  BY <1>8 DEF ReadForStop, CancelFails, CloseStopped, ApiRestarts, QueueStands, queue, bounds
<1>9. QED
  BY <1>3, <1>4, <1>5, <1>6, <1>7, <1>8 DEF Next

(* Every step keeps the shape of everything else.                          *)
LEMMA TypeKept ==
  ASSUME TypeOK, StopIsOfARun, Next
  PROVE  TypeOK' /\ StopIsOfARun'
<1> DEFINE Parents == Executing \cup {"none", "asked", "refused", "queued", "over", "lost"}
           Rows == Closed \cup {"none", "running"}
           Rest == /\ parent' \in [Runs -> Parents]
                   /\ row' \in [Runs -> Rows]
                   /\ opened' \in Seq(Runs)
                   /\ plan' \in [Runs -> SUBSET Symbols]
                   /\ full' \in [Runs -> BOOLEAN]
                   /\ refs' \in [Runs -> 0 .. ReferenceSize]
                   /\ stopping' \in [phase : {"none", "read", "cancelled"}, run : Runs \cup {NoRun}]
                   /\ StopIsOfARun'
                   /\ messaged' \subseteq Runs
<1>1. /\ parent \in [Runs -> Parents] /\ row \in [Runs -> Rows] /\ opened \in Seq(Runs)
      /\ plan \in [Runs -> SUBSET Symbols] /\ full \in [Runs -> BOOLEAN]
      /\ refs \in [Runs -> 0 .. ReferenceSize]
      /\ stopping \in [phase : {"none", "read", "cancelled"}, run : Runs \cup {NoRun}]
      /\ messaged \subseteq Runs
  BY DEF TypeOK
<1>2. ASSUME UNCHANGED <<parent, row, opened, plan, full, refs, stopping, messaged>>
      PROVE  Rest
  BY <1>1, <1>2 DEF StopIsOfARun
<1>3. ASSUME NEW r \in Runs,
             Ask(r) \/ CronFires(r) \/ Enqueue(r) \/ Begin(r) \/ FailToStart(r) \/ LeaveWatchlist(r)
               \/ EndUniverse(r) \/ LoseParent(r)
      PROVE  Rest
  <2>1. \E p \in Parents : goto(r, p)
    BY <1>3 DEF Ask, CronFires, Enqueue, Begin, FailToStart, LeaveWatchlist, EndUniverse, LoseParent,
       Executing
  <2>2. parent' \in [Runs -> Parents]
    BY <1>1, <2>1 DEF goto
  <2>3. UNCHANGED <<row, opened, plan, full, refs, stopping, messaged>>
    BY <1>3 DEF Ask, CronFires, Enqueue, Begin, FailToStart, LeaveWatchlist, EndUniverse, LoseParent
  <2>4. QED
    BY <1>1, <2>2, <2>3 DEF StopIsOfARun
<1>4. ASSUME NEW r \in Runs, OpenRow(r)
      PROVE  Rest
  <2>1. parent' \in [Runs -> Parents] /\ row' \in [Runs -> Rows]
    BY <1>1, <1>4 DEF OpenRow, goto, Executing
  <2>2. plan' \in [Runs -> SUBSET Symbols]
    BY <1>1, <1>4 DEF OpenRow
  <2>3. full' \in [Runs -> BOOLEAN] /\ refs' \in [Runs -> 0 .. ReferenceSize]
    <3>1. /\ full' = full \/ full' = [full EXCEPT ![r] = TRUE]
          /\ refs' = refs \/ refs' = [refs EXCEPT ![r] = ReferenceSize]
      BY <1>4 DEF OpenRow
    <3>2. full' \in [Runs -> BOOLEAN]
      BY <1>1, <3>1
    <3>3. refs' \in [Runs -> 0 .. ReferenceSize]
      <4>1. ReferenceSize \in 0 .. ReferenceSize
        BY ReferenceAssumption
      <4>2. QED
        BY <1>1, <3>1, <4>1
    <3>4. QED
      BY <3>2, <3>3
  <2>4. opened' \in Seq(Runs) /\ UNCHANGED <<stopping, messaged>>
    BY <1>1, <1>4 DEF OpenRow
  <2>5. QED
    BY <1>1, <2>1, <2>2, <2>3, <2>4 DEF StopIsOfARun
<1>5. ASSUME NEW r \in Runs, SendMessage(r) \/ NextReference(r)
      PROVE  Rest
  <2>1. parent' \in [Runs -> Parents] /\ messaged' \subseteq Runs
    BY <1>1, <1>5 DEF SendMessage, NextReference, goto, Executing
  <2>2. refs' \in [Runs -> 0 .. ReferenceSize]
    BY <1>1, <1>5, ReferenceAssumption DEF SendMessage, NextReference
  <2>3. UNCHANGED <<row, opened, plan, full, stopping>>
    BY <1>5 DEF SendMessage, NextReference
  <2>4. QED
    BY <1>1, <2>1, <2>2, <2>3 DEF StopIsOfARun
<1>6. ASSUME NEW r, NEW status \in Closed, finishRun(r, status)
      PROVE  row' \in [Runs -> Rows]
  BY <1>1, <1>6 DEF finishRun
<1>7. ASSUME NEW r \in Runs, UniverseThrows(r) \/ Close(r)
      PROVE  Rest
  <2>1. \E status \in Closed : finishRun(r, status)
    BY <1>7 DEF UniverseThrows, Close, Closed
  <2>2. parent' \in [Runs -> Parents] /\ UNCHANGED <<opened, plan, full, refs, stopping, messaged>>
    BY <1>1, <1>7 DEF UniverseThrows, Close, goto
  <2>3. QED
    BY <1>1, <1>6, <2>1, <2>2 DEF StopIsOfARun
<1>8. ASSUME ReadForStop
      PROVE  Rest
  <2>1. stopping' = [phase |-> "read", run |-> opened[Len(opened)]]
    BY <1>8 DEF ReadForStop
  <2>2. opened[Len(opened)] \in Runs
    BY <1>8, NewestIsARun DEF ReadForStop
  <2>3. UNCHANGED <<parent, row, opened, plan, full, refs, messaged>>
    BY <1>8 DEF ReadForStop
  <2>4. QED
    BY <1>1, <2>1, <2>2, <2>3 DEF StopIsOfARun
<1>9. ASSUME Cancel
      PROVE  Rest
  BY <1>1, <1>9 DEF Cancel, StopIsOfARun
<1>10. ASSUME CancelFails
       PROVE  Rest
  BY <1>1, <1>10 DEF CancelFails, StopIsOfARun
<1>11. ASSUME CloseStopped
       PROVE  Rest
  <2>1. row' \in [Runs -> Rows]
    BY <1>6, <1>11 DEF CloseStopped, Closed
  <2>2. stopping' = [phase |-> "none", run |-> NoRun]
        /\ UNCHANGED <<parent, opened, plan, full, refs, messaged>>
    BY <1>11 DEF CloseStopped
  <2>3. QED
    BY <1>1, <2>1, <2>2 DEF StopIsOfARun
<1>12. ASSUME ApiRestarts
       PROVE  Rest
  <2>1. row' \in [Runs -> Rows]
    BY <1>1, <1>12 DEF ApiRestarts, Closed
  <2>2. stopping' = [phase |-> "none", run |-> NoRun]
        /\ UNCHANGED <<parent, opened, plan, full, refs, messaged>>
    BY <1>12 DEF ApiRestarts
  <2>3. QED
    BY <1>1, <2>1, <2>2 DEF StopIsOfARun
<1>13. ASSUME NEW r \in Runs, NEW s \in Symbols,
              StageStep(r, s) \/ ExecutionTimeout(r, s) \/ QueueTimeout(r, s)
       PROVE  UNCHANGED <<parent, row, opened, plan, full, refs, stopping, messaged>>
  BY <1>13 DEF StageStep, QueueStage, StartStage, Settle, FailToRecord, ExecutionTimeout, QueueTimeout
<1>14. ASSUME NEW a \in stragglers, StragglerEnds(a)
       PROVE  UNCHANGED <<parent, row, opened, plan, full, refs, stopping, messaged>>
  BY <1>14 DEF StragglerEnds
<1>15. Rest
  <2> HIDE DEF Rest
  <2>1. QED
    BY <1>2, <1>3, <1>4, <1>5, <1>7, <1>8, <1>9, <1>10, <1>11, <1>12, <1>13, <1>14
    DEF Next, ParentStep
<1>16. QED
  BY <1>15, QueueTyped DEF TypeOK, Place, Outcome

-----------------------------------------------------------------------------

BeforeRow == {"none", "asked", "refused", "queued", "starting"}
BehindAll == {"message", "universe", "closing", "over"}

(* The plan of a run is made with its row, and a row is opened once and    *)
(* closed once; ok is said in closing, of chains that met no failure.      *)
LEMMA RowSteps ==
  ASSUME TypeOK, NothingBeforeTheRow, StopIsOfARun, Next, NEW r \in Runs
  PROVE  /\ row[r] \in Closed => row'[r] = row[r]
         /\ row'[r] # row[r] =>
              \/ parent[r] = "starting" /\ row'[r] = "running"
              \/ row[r] = "running" /\ row'[r] \in Closed
         /\ plan'[r] # plan[r] => parent[r] = "starting" /\ row'[r] = "running"
         /\ row'[r] = "ok" => row[r] = "ok" \/ (parent[r] = "closing" /\ ~AnyFailed(r))
<1> DEFINE Goal == /\ row[r] \in Closed => row'[r] = row[r]
                   /\ row'[r] # row[r] =>
                        \/ parent[r] = "starting" /\ row'[r] = "running"
                        \/ row[r] = "running" /\ row'[r] \in Closed
                   /\ plan'[r] # plan[r] => parent[r] = "starting" /\ row'[r] = "running"
                   /\ row'[r] = "ok" => row[r] = "ok" \/ (parent[r] = "closing" /\ ~AnyFailed(r))
<1>1. row \in [Runs -> Closed \cup {"none", "running"}] /\ plan \in [Runs -> SUBSET Symbols]
  BY DEF TypeOK
<1>2. ASSUME UNCHANGED <<row, plan>>
      PROVE  Goal
  BY <1>2
<1>3. ASSUME NEW q, NEW status \in Closed, finishRun(q, status)
      PROVE  row'[r] = row[r] \/ (row[r] = "running" /\ row'[r] = status /\ q = r)
  BY <1>1, <1>3 DEF finishRun
<1>4. ASSUME NEW q \in Runs, OpenRow(q)
      PROVE  Goal
  <2>1. parent[q] = "starting" /\ row[q] = "none"
    BY <1>4 DEF OpenRow, NothingBeforeTheRow
  <2>2. row' = [row EXCEPT ![q] = "running"]
        /\ \E S : plan' = [plan EXCEPT ![q] = S]
    BY <1>4 DEF OpenRow
  <2>3. QED
    BY <1>1, <2>1, <2>2 DEF Closed
<1>5. ASSUME NEW q \in Runs, UniverseThrows(q)
      PROVE  Goal
  <2>1. finishRun(q, "partial") /\ plan' = plan
    BY <1>5 DEF UniverseThrows
  <2>2. QED
    BY <1>3, <2>1 DEF Closed
<1>6. ASSUME NEW q \in Runs, Close(q)
      PROVE  Goal
  <2>1. plan' = plan /\ parent[q] = "closing"
    BY <1>6 DEF Close
  <2>2. PICK status \in Closed : finishRun(q, status) /\ (status = "ok" => ~AnyFailed(q))
    BY <1>6 DEF Close, Closed
  <2>3. row'[r] = row[r] \/ (row[r] = "running" /\ row'[r] = status /\ q = r)
    BY <1>3, <2>2
  <2>4. QED
    BY <2>1, <2>2, <2>3 DEF Closed
<1>7. ASSUME CloseStopped
      PROVE  Goal
  <2>1. finishRun(stopping.run, "stopped") /\ plan' = plan
    BY <1>7 DEF CloseStopped
  <2>2. row'[r] = row[r] \/ (row[r] = "running" /\ row'[r] = "stopped")
    BY <1>3, <2>1 DEF Closed
  <2>3. QED
    BY <2>1, <2>2 DEF Closed
<1>8. ASSUME ApiRestarts
      PROVE  Goal
  BY <1>1, <1>8 DEF ApiRestarts, Closed
<1>9. ASSUME NEW q \in Runs,
             Ask(q) \/ CronFires(q) \/ LoseParent(q) \/ Enqueue(q) \/ Begin(q) \/ FailToStart(q)
               \/ LeaveWatchlist(q) \/ SendMessage(q) \/ NextReference(q) \/ EndUniverse(q)
      PROVE  UNCHANGED <<row, plan>>
  BY <1>9 DEF Ask, CronFires, LoseParent, Enqueue, Begin, FailToStart, LeaveWatchlist, SendMessage,
     NextReference, EndUniverse
<1>10. ASSUME NEW q \in Runs, NEW s \in Symbols,
              StageStep(q, s) \/ ExecutionTimeout(q, s) \/ QueueTimeout(q, s)
       PROVE  UNCHANGED <<row, plan>>
  BY <1>10 DEF StageStep, QueueStage, StartStage, Settle, FailToRecord, ExecutionTimeout, QueueTimeout
<1>11. ASSUME NEW a \in stragglers, StragglerEnds(a)
       PROVE  UNCHANGED <<row, plan>>
  BY <1>11 DEF StragglerEnds
<1>12. ASSUME ReadForStop \/ Cancel \/ CancelFails
       PROVE  UNCHANGED <<row, plan>>
  BY <1>12 DEF ReadForStop, Cancel, CancelFails
<1>13. QED
  <2> HIDE DEF Goal
  <2>1. Goal
    BY <1>2, <1>4, <1>5, <1>6, <1>7, <1>8, <1>9, <1>10, <1>11, <1>12 DEF Next, ParentStep
  <2>2. QED
    BY <2>1 DEF Goal

(* The parent opens its row in one step from starting, and comes behind    *)
(* the watchlist only when every chain has ended, or without having begun. *)
LEMMA ParentSteps ==
  ASSUME TypeOK, Next, NEW r \in Runs
  PROVE  /\ parent'[r] \in BeforeRow => parent[r] \in BeforeRow
         /\ row'[r] = "running" /\ row[r] # "running" => parent'[r] = "watchlist"
         /\ parent'[r] \in BehindAll =>
              \/ parent[r] \in BehindAll
              \/ parent[r] = "watchlist" /\ Settled(r)
              \/ parent[r] = "starting" /\ row' = row /\ plan' = plan
<1> DEFINE Goal == /\ parent'[r] \in BeforeRow => parent[r] \in BeforeRow
                   /\ row'[r] = "running" /\ row[r] # "running" => parent'[r] = "watchlist"
                   /\ parent'[r] \in BehindAll =>
                        \/ parent[r] \in BehindAll
                        \/ parent[r] = "watchlist" /\ Settled(r)
                        \/ parent[r] = "starting" /\ row' = row /\ plan' = plan
<1>1. /\ parent \in [Runs -> Executing \cup {"none", "asked", "refused", "queued", "over", "lost"}]
      /\ row \in [Runs -> Closed \cup {"none", "running"}]
  BY DEF TypeOK
<1>2. ASSUME parent' = parent, row' = row \/ (\A q \in Runs : row'[q] # row[q] => row'[q] \in Closed)
      PROVE  Goal
  BY <1>2 DEF Closed
<1>3. ASSUME NEW q \in Runs, Ask(q) \/ CronFires(q) \/ LoseParent(q) \/ Enqueue(q) \/ Begin(q)
      PROVE  Goal
  <2>1. PICK p \in {"asked", "refused", "queued", "starting", "lost"} : goto(q, p)
    BY <1>3 DEF Ask, CronFires, LoseParent, Enqueue, Begin
  <2>2. p # "lost" => parent[q] \in BeforeRow
    BY <1>1, <1>3, <2>1 DEF Ask, CronFires, LoseParent, Enqueue, Begin, BeforeRow, goto
  <2>3. row' = row
    BY <1>3 DEF Ask, CronFires, LoseParent, Enqueue, Begin
  <2>4. QED
    BY <1>1, <2>1, <2>2, <2>3 DEF goto, BeforeRow, BehindAll
<1>4. ASSUME NEW q \in Runs, FailToStart(q)
      PROVE  Goal
  BY <1>1, <1>4 DEF FailToStart, goto, BeforeRow, BehindAll
<1>5. ASSUME NEW q \in Runs, OpenRow(q)
      PROVE  Goal
  BY <1>1, <1>5 DEF OpenRow, goto, BeforeRow, BehindAll
<1>6. ASSUME NEW q \in Runs, LeaveWatchlist(q)
      PROVE  Goal
  BY <1>1, <1>6 DEF LeaveWatchlist, goto, BeforeRow, BehindAll
<1>7. ASSUME NEW q \in Runs, SendMessage(q) \/ EndUniverse(q)
      PROVE  Goal
  BY <1>1, <1>7 DEF SendMessage, EndUniverse, goto, BeforeRow, BehindAll
<1>8. ASSUME NEW q \in Runs, UniverseThrows(q) \/ Close(q)
      PROVE  Goal
  <2>1. \E status \in Closed : finishRun(q, status)
    BY <1>8 DEF UniverseThrows, Close, Closed
  <2>2. row'[r] = "running" => row[r] = "running"
    BY <1>1, <2>1 DEF finishRun, Closed
  <2>3. parent[q] \in {"universe", "closing"} /\ goto(q, "over")
    BY <1>8 DEF UniverseThrows, Close
  <2>4. QED
    BY <1>1, <2>2, <2>3 DEF goto, BeforeRow, BehindAll
<1>9. ASSUME CloseStopped \/ ApiRestarts
      PROVE  Goal
  <2>1. parent' = parent
    BY <1>9 DEF CloseStopped, ApiRestarts
  <2>2. row'[r] = "running" => row[r] = "running"
    BY <1>1, <1>9 DEF CloseStopped, ApiRestarts, finishRun, Closed
  <2>3. QED
    BY <2>1, <2>2
<1>10. ASSUME NEW q \in Runs, NEW s \in Symbols,
              StageStep(q, s) \/ ExecutionTimeout(q, s) \/ QueueTimeout(q, s)
       PROVE  parent' = parent /\ row' = row
  BY <1>10 DEF StageStep, QueueStage, StartStage, Settle, FailToRecord, ExecutionTimeout, QueueTimeout
<1>11. ASSUME NEW a \in stragglers, StragglerEnds(a)
       PROVE  parent' = parent /\ row' = row
  BY <1>11 DEF StragglerEnds
<1>12. ASSUME ReadForStop \/ Cancel \/ CancelFails \/ \E q \in Runs : NextReference(q)
       PROVE  parent' = parent /\ row' = row
  BY <1>12 DEF ReadForStop, Cancel, CancelFails, NextReference
<1>13. QED
  <2> HIDE DEF Goal
  <2>1. Goal
    BY <1>2, <1>3, <1>4, <1>5, <1>6, <1>7, <1>8, <1>9, <1>10, <1>11, <1>12 DEF Next, ParentStep
  <2>2. QED
    BY <2>1 DEF Goal

-----------------------------------------------------------------------------

(* Initially nothing has been asked for.                                   *)
LEMMA InitHolds == Init => IInv
<1> SUFFICES ASSUME Init
             PROVE  IInv
  OBVIOUS
<1>1. Idle \in Place
  BY StagesAssumption DEF Idle, Place
<1>2. \A r \in Runs, s \in Symbols :
        chain[r][s] = Idle /\ steps[r][s] = [k \in 1 .. Stages |-> <<>>]
  BY DEF Init
<1>3. TypeOK
  <2>1. chain \in [Runs -> [Symbols -> Place]]
    BY <1>1 DEF Init
  <2>2. steps \in [Runs -> [Symbols -> [1 .. Stages -> Seq(Outcome)]]]
    BY DEF Init
  <2>3. refs \in [Runs -> 0 .. ReferenceSize]
    <3>1. 0 \in 0 .. ReferenceSize
      BY ReferenceAssumption
    <3>2. QED
      BY <3>1 DEF Init
  <2>4. QED
    BY <2>1, <2>2, <2>3 DEF Init, TypeOK, Place, Outcome
<1>4. ChainsInPlace
  <2> SUFFICES ASSUME NEW r \in Runs, NEW s \in Symbols
               PROVE  InPlace(r, s)
    BY DEF ChainsInPlace
  <2>1. chain[r][s].stage = 1 /\ chain[r][s].at = "between"
    BY <1>2 DEF Idle
  <2>2. 1 \in 1 .. Stages /\ \A k \in 1 .. Stages : ~(k < 1)
    BY StagesAssumption
  <2>3. \A k \in 1 .. Stages : steps[r][s][k] = <<>>
    BY <1>2
  <2>4. {k \in 1 .. Stages : k < chain[r][s].stage \/ chain[r][s].at = "done"} = {}
    BY <2>1, <2>2
  <2>5. QED
    BY <2>1, <2>2, <2>3, <2>4 DEF InPlace
<1>5. OneOutcomePerStep
  <2> SUFFICES ASSUME NEW r \in Runs, NEW s \in Symbols, NEW k \in 1 .. Stages
               PROVE  ~(Len(steps[r][s][k]) > 1)
    BY DEF OneOutcomePerStep
  <2>1. steps[r][s][k] = <<>>
    BY <1>2
  <2>2. QED
    BY <2>1
<1>6. NothingBeforeTheRow /\ StopIsOfARun /\ StragglersBehind /\ OkIsUnfailed
  BY DEF Init, NothingBeforeTheRow, StopIsOfARun, StragglersBehind, OkIsUnfailed
<1>7. WholeWatchlistSettles
  BY DEF Init, WholeWatchlistSettles
<1>8. QED
  BY <1>3, <1>4, <1>5, <1>6, <1>7 DEF IInv

(* Every step keeps the invariant.                                         *)
LEMMA NextHolds == IInv /\ [Next]_vars => IInv'
<1> SUFFICES ASSUME IInv, [Next]_vars
             PROVE  IInv'
  OBVIOUS
<1> USE DEF IInv
<1>1. CASE UNCHANGED vars
  <2>1. TypeOK' /\ NothingBeforeTheRow' /\ StopIsOfARun'
    BY <1>1 DEF vars, queue, TypeOK, NothingBeforeTheRow, StopIsOfARun
  <2>2. ChainsInPlace' /\ StragglersBehind' /\ OneOutcomePerStep'
    BY <1>1, PlacesStand DEF vars, bounds, QueueStands
  <2>3. OkIsUnfailed' /\ WholeWatchlistSettles'
    BY <1>1 DEF vars, queue, OkIsUnfailed, WholeWatchlistSettles, Settled
  <2>4. QED
    BY <2>1, <2>2, <2>3
<1>2. CASE Next
  <2>1. TypeOK' /\ StopIsOfARun'
    BY <1>2, TypeKept
  <2>2. ChainsInPlace' /\ StragglersBehind' /\ OneOutcomePerStep'
    BY <1>2, PlacesKept
  <2>3. NothingBeforeTheRow'
    <3> SUFFICES ASSUME NEW r \in Runs, parent'[r] \in BeforeRow
                 PROVE  row'[r] = "none" /\ plan'[r] = {}
      BY DEF NothingBeforeTheRow, BeforeRow
    <3>1. row[r] = "none" /\ plan[r] = {}
      BY <1>2, ParentSteps DEF NothingBeforeTheRow, BeforeRow
    <3>2. row'[r] # "running"
      BY <1>2, <3>1, ParentSteps DEF BeforeRow
    <3>3. QED
      BY <1>2, <3>1, <3>2, RowSteps
  <2>4. OkIsUnfailed'
    <3> SUFFICES ASSUME NEW r \in Runs, row'[r] = "ok", NEW s \in plan'[r]
                 PROVE  chain'[r][s].at = "done" /\ ~chain'[r][s].failed
      BY DEF OkIsUnfailed
    <3>1. plan'[r] = plan[r]
      BY <1>2, RowSteps
    <3>2. s \in plan[r] /\ s \in Symbols
      BY <3>1 DEF TypeOK
    <3>3. chain[r][s].at = "done" /\ ~chain[r][s].failed
      <4>1. CASE row[r] = "ok"
        BY <4>1, <3>2 DEF OkIsUnfailed
      <4>2. CASE parent[r] = "closing" /\ ~AnyFailed(r)
        BY <4>2, <3>2 DEF AnyFailed, WholeWatchlistSettles, Settled
      <4>3. QED
        BY <1>2, <4>1, <4>2, RowSteps
    <3>4. chain'[r][s] = chain[r][s]
      BY <1>2, <3>2, <3>3, EndIsFinal DEF Ended
    <3>5. QED
      BY <3>3, <3>4
  <2>5. WholeWatchlistSettles'
    <3> SUFFICES ASSUME NEW r \in Runs, parent'[r] \in BehindAll, NEW s \in plan'[r]
                 PROVE  chain'[r][s].at \in Ended
      BY DEF WholeWatchlistSettles, Settled, BehindAll, Ended
    <3>1. \/ parent[r] \in BehindAll
          \/ parent[r] = "watchlist" /\ Settled(r)
          \/ parent[r] = "starting" /\ row' = row /\ plan' = plan
      BY <1>2, ParentSteps
    <3>2. parent[r] # "starting"
      BY <3>1 DEF NothingBeforeTheRow, BehindAll
    <3>3. plan'[r] = plan[r]
      BY <1>2, <3>2, RowSteps
    <3>4. s \in plan[r] /\ s \in Symbols
      BY <3>3 DEF TypeOK
    <3>5. chain[r][s].at \in Ended
      BY <3>1, <3>2, <3>4 DEF WholeWatchlistSettles, Settled, BehindAll, Ended
    <3>6. QED
      BY <1>2, <3>4, <3>5, EndIsFinal
  <2>6. QED
    BY <2>1, <2>2, <2>3, <2>4, <2>5
<1>3. QED
  BY <1>1, <1>2

(* The inductive invariant of the pipeline on Hatchet: triggers, parent,   *)
(* stages, stragglers, stop and restart in any order.                      *)
THEOREM HatchetInvariant == Spec => []IInv
BY InitHolds, NextHolds, PTL DEF Spec

(* Rows, chains, stragglers and the stop in progress keep their shape.     *)
THEOREM TypeCorrect == Spec => []TypeOK
<1>1. IInv => TypeOK
  BY DEF IInv
<1>2. QED
  BY <1>1, HatchetInvariant, PTL

(* Each stage begins behind the one outcome of the stage before, and ok    *)
(* means that every stage of every planned symbol succeeded.               *)
THEOREM StagesLeaveOneOutcome == Spec => []OutcomesAddUp
<1>1. IInv => OutcomesAddUp
  <2> SUFFICES ASSUME IInv
               PROVE  OutcomesAddUp
    OBVIOUS
  <2> USE DEF IInv
  <2>1. StagesInOrder
    <3> SUFFICES ASSUME NEW r \in Runs, NEW s \in Symbols, chain[r][s].at \in {"queued", "running"},
                        NEW k \in 1 .. (chain[r][s].stage - 1)
                 PROVE  steps[r][s][k] # <<>>
      BY DEF StagesInOrder
    <3>1. chain[r][s].stage \in 1 .. Stages
      BY DEF TypeOK
    <3>2. k \in 1 .. Stages /\ k < chain[r][s].stage
      BY <3>1, StagesAssumption
    <3>3. InPlace(r, s)
      BY DEF ChainsInPlace
    <3>4. QED
      BY <3>2, <3>3 DEF InPlace
  <2>2. OkMeansEverything
    <3> SUFFICES ASSUME NEW r \in Runs, row[r] = "ok", NEW s \in plan[r]
                 PROVE  /\ chain[r][s].at = "done"
                        /\ \A k \in 1 .. Stages : "ok" \in Outcomes(steps[r][s][k])
      BY DEF OkMeansEverything, Outcomes
    <3>1. s \in Symbols
      BY DEF TypeOK
    <3>2. chain[r][s].at = "done" /\ ~chain[r][s].failed
      BY DEF OkIsUnfailed
    <3>3. InPlace(r, s)
      BY <3>1 DEF ChainsInPlace
    <3>4. QED
      BY <3>2, <3>3 DEF InPlace
  <2>3. QED
    BY <2>1, <2>2 DEF OutcomesAddUp
<1>2. QED
  BY <1>1, HatchetInvariant, PTL

(* The parent goes on only when the whole watchlist has come to its end.   *)
THEOREM ParentWaitsForAll == Spec => []WholeWatchlistSettles
<1>1. IInv => WholeWatchlistSettles
  BY DEF IInv
<1>2. QED
  BY <1>1, HatchetInvariant, PTL

(* Whoever closes a row first decides how its run ended, however stop,     *)
(* restart and parent race for it.                                         *)
THEOREM NobodyOverrules == Spec => FirstCloserWins
<1>1. IInv /\ [Next]_vars => [\A r \in Runs : row[r] \in Closed => row'[r] = row[r]]_vars
  <2> SUFFICES ASSUME IInv, Next, NEW r \in Runs, row[r] \in Closed
               PROVE  row'[r] = row[r]
    OBVIOUS
  <2>1. QED
    BY RowSteps DEF IInv
<1>2. QED
  BY <1>1, HatchetInvariant, PTL DEF Spec, FirstCloserWins

=============================================================================
