----------------------------- MODULE FactorScore -----------------------------
(***************************************************************************)
(* The score of a stock (src/src/analysis/score.ts): the pillars to the    *)
(* deterministic half, several reads of the prose to the other, and the    *)
(* blend of both.  Pure functions; what a pillar makes of its criteria is  *)
(* its input.                                                              *)
(*                                                                         *)
(* Shares are percent, a pillar's score is in whole points, a published    *)
(* score in tenths and a deviation in hundredths of a point, rounded down. *)
(* Verdicts are counted from 0, STRONG SELL, to 4, STRONG BUY.             *)
(***************************************************************************)
EXTENDS Integers, FiniteSets, Sequences, FiniteSetsExt

Abs(x) == IF x < 0 THEN -x ELSE x
Within(lo, hi, x) == IF x < lo THEN lo ELSE IF x > hi THEN hi ELSE x

Pillars == {"valuation", "quality", "health", "consensus", "momentum", "revisions"}
OverPillars(f) == f["valuation"] + f["quality"] + f["health"] + f["consensus"] + f["momentum"] + f["revisions"]

\* What each pillar is worth, in twentieths.
PILLAR_WEIGHTS == [valuation |-> 6, quality |-> 4, health |-> 3, consensus |-> 3, momentum |-> 2, revisions |-> 2]

Blind == -1             \* the score of a pillar without a scorable criterion
Points == 0 .. 10

-----------------------------------------------------------------------------
(* convictionFor: s gives the score of each pillar. *)

Scored(s) == {p \in Pillars : s[p] # Blind}
scoredWeight(s) == OverPillars([p \in Pillars |-> IF s[p] = Blind THEN 0 ELSE PILLAR_WEIGHTS[p]])

\* The weighted distances from neutral, netted and not.
net(s) == OverPillars([p \in Pillars |-> IF s[p] = Blind THEN 0 ELSE PILLAR_WEIGHTS[p] * (s[p] - 5)])
gross(s) == OverPillars([p \in Pillars |-> IF s[p] = Blind THEN 0 ELSE PILLAR_WEIGHTS[p] * Abs(s[p] - 5)])

agreement(s) == IF gross(s) = 0 THEN 0 ELSE (100 * Abs(net(s))) \div gross(s)

\* Twice the gross distance, or what it is where the lenses sit 1.5 points from
\* neutral: agreement times strength is twice the net distance over this.
fullStrength(s) == Max({3 * scoredWeight(s), 2 * gross(s)})

\* Mutated: how far the highest lens is from the lowest decides what agrees.
convictionBySpread(s) ==
    LET spread == CHOOSE d \in 0 .. 10 : /\ \A p, q \in Scored(s) : s[p] - s[q] <= d
                                         /\ \E p, q \in Scored(s) : s[p] - s[q] = d
    IN IF Cardinality(Scored(s)) >= 3 THEN 1000 + 60 * (10 - spread) ELSE 1000

\* The stretch, in thousandths: up to 1.6 where at least three pillars scored.
conviction(s) ==
    IF Cardinality(Scored(s)) >= 3 THEN 1000 + (1200 * Abs(net(s))) \div fullStrength(s) ELSE 1000

-----------------------------------------------------------------------------
(* saturate: beyond the STRONG bands a deviation d becomes 3 + 2 tanh((d - 3) / 2),
   given at these points and read linearly between them. *)

Knots == << <<300, 300>>, <<350, 349>>, <<400, 392>>, <<450, 427>>, <<500, 452>>, <<550, 470>>, <<600, 481>>,
            <<650, 488>>, <<700, 493>>, <<750, 496>>, <<800, 497>>, <<900, 499>>, <<2440, 500>> >>

\* The value at x of the line through the two knots around it, from the side i to the side j.
Between(x, i, j) ==
    LET k == CHOOSE n \in 1 .. Len(Knots) - 1 : Knots[n][i] <= x /\ x <= Knots[n + 1][i]
        a == Knots[k]
        b == Knots[k + 1]
    IN a[j] + ((x - a[i]) * (b[j] - a[j])) \div (b[i] - a[i])

Bent(d, i, j) == IF Abs(d) <= 300 THEN d
                 ELSE LET far == Between(Within(0, Knots[Len(Knots)][i], Abs(d)), i, j)
                      IN IF d < 0 THEN -far ELSE far
saturate(d) == Bent(d, 1, 2)
unsaturate(d) == Bent(d, 2, 1)

published(score) == (Within(0, 1000, score) + 5) \div 10

-----------------------------------------------------------------------------
(* assembleScore and computeFactorScore.  A payload gives the pillars, and what
   is known of the data behind them. *)

qualityFactor(f) == CASE f.severity = "error" -> 35 [] f.severity = "warn" -> 75 [] OTHER -> 100
freshnessFactor(f) == IF f.stale THEN 60 ELSE 100

\* The share of the weight that scored, times the trust in the payload.
confidence(f) ==
    (scoredWeight(f.pillars) * (110 + 9 * f.composite) * qualityFactor(f) * freshnessFactor(f)) \div 400000

shrink(f) == 400 + 6 * confidence(f)

\* The linear deviation from neutral.
deviation(f) ==
    LET weight == scoredWeight(f.pillars)
    IN IF weight = 0 THEN 0
       ELSE LET d == (Abs(net(f.pillars)) * shrink(f) * conviction(f.pillars)) \div (10000 * weight)
            IN IF net(f.pillars) < 0 THEN -d ELSE d

factorScore(f) == published(500 + saturate(deviation(f)))

capsOf(f) ==
    {c \in {"no-strong", "hold-ceiling"} :
        IF c = "no-strong"
        THEN f.severity = "error" \/ f.uncovered \/ confidence(f) < 45 \/ f.beneish = "explained"
        ELSE f.beneish = "flagged" \/ f.distress}

verdictForScore(score) == Cardinality({min \in {20, 35, 65, 80} : score >= min})

capVerdict(verdict, caps) ==
    LET tempered == IF "no-strong" \in caps THEN Within(1, 3, verdict) ELSE verdict
    IN IF "hold-ceiling" \in caps THEN Within(0, 2, tempered) ELSE tempered

-----------------------------------------------------------------------------
(* narrativeScoreFrom and combineNarrativeReads.  A read is the sequence of its
   rated dimensions, each between -2 and 2; a read that failed is dropped. *)

Abstains == -1
Failed == <<3>>

narrativeScoreFrom(ratings) ==
    IF Len(ratings) < 2 THEN Abstains
    ELSE (101 * Len(ratings) + 50 * SumFunction(ratings)) \div (2 * Len(ratings))

Answered(reads) == {i \in DOMAIN reads : reads[i] # Failed}
scoring(reads) == {i \in Answered(reads) : narrativeScoreFrom(reads[i]) # Abstains}
ScoresOf(reads) == {narrativeScoreFrom(reads[i]) : i \in scoring(reads)}

\* Abstention is a vote.
MostAbstain(reads) ==
    /\ 2 * Cardinality(scoring(reads)) <= Cardinality(Answered(reads))
    /\ scoring(reads) # Answered(reads)

\* The middle one, the lower of the two on an even count.
medianScore(reads) ==
    LET middle == (Cardinality(scoring(reads)) - 1) \div 2
        Below(v) == {i \in scoring(reads) : narrativeScoreFrom(reads[i]) < v}
        UpTo(v) == {i \in scoring(reads) : narrativeScoreFrom(reads[i]) <= v}
    IN CHOOSE v \in ScoresOf(reads) : Cardinality(Below(v)) <= middle /\ middle < Cardinality(UpTo(v))

confidenceFactor(reads) ==
    IF MostAbstain(reads) \/ Cardinality(scoring(reads)) < 2 THEN 100
    ELSE 100 - (100 * Within(0, 30, Max(ScoresOf(reads)) - Min(ScoresOf(reads)))) \div 60

\* Mutated: whoever scores decides, and the most alarmed one does.
combineByAlarm(reads) == IF scoring(reads) = {} THEN Abstains ELSE Min(ScoresOf(reads))

combineNarrativeReads(reads) == IF MostAbstain(reads) THEN Abstains ELSE medianScore(reads)

-----------------------------------------------------------------------------
(* blendScores: the narrative score and its confidence, and the correction that
   the synthesis asks for, in hundredths. *)

ADJUSTMENT_LIMIT == 100

requested(adjustment) == Within(-ADJUSTMENT_LIMIT, ADJUSTMENT_LIMIT, adjustment)

factorWeight(f) == 5000 + 50 * agreement(f.pillars)
narrativeWeight(score, conf) == IF score = Abstains THEN 0 ELSE 45 * conf

blend(f, score, conf) ==
    LET n == narrativeWeight(score, conf)
    IN (10 * (factorWeight(f) * factorScore(f) + n * score)) \div (factorWeight(f) + n)

blendScores(f, score, conf, adjustment) ==
    LET b == blend(f, score, conf)
        final == published(500 + saturate(unsaturate(b - 500) + requested(adjustment)))
    IN [blend |-> b, requested |-> requested(adjustment), score |-> final,
        verdict |-> capVerdict(verdictForScore(final), capsOf(f))]

-----------------------------------------------------------------------------

\* A payload with one pillar a point better.
Better(f, p) == [f EXCEPT !.pillars[p] = @ + 1]

\* A better pillar never lowers the factor score, whatever it does to the
\* agreement of the lenses; and more trust in the data never moves a score
\* towards neutral, or across it.
ScoreIsMonotone(f) ==
    /\ \A p \in {q \in Scored(f.pillars) : f.pillars[q] < 10} : factorScore(Better(f, p)) >= factorScore(f)
    /\ f.composite < 10 =>
          LET trusted == factorScore([f EXCEPT !.composite = @ + 1])
          IN \/ 50 <= factorScore(f) /\ factorScore(f) <= trusted
             \/ 50 >= factorScore(f) /\ factorScore(f) >= trusted

=============================================================================
