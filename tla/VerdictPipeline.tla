--------------------------- MODULE VerdictPipeline ---------------------------
(***************************************************************************)
(* The verdict on one stock (src/src/score-service.ts): the deterministic  *)
(* half, three reads of the same prose side by side, the synthesis that    *)
(* may correct the blend, and what every later refresh makes of the stored *)
(* card: today's arithmetic over yesterday's prose.  Any of the model      *)
(* calls may fail.                                                         *)
(***************************************************************************)
EXTENDS FactorScore

CONSTANTS Payloads,     \* what a refresh may have stored of the company
          Materials,    \* the prose an analysis may find
          Reads,        \* the ratings a read of it may give
          Adjustments,  \* the corrections a synthesis may ask for
          Days          \* the ages of the card at which it is looked at

VARIABLES payload,    \* what the factor half is computed from
          material,
          reads,      \* narrativeReads
          stage,      \* runVerdictPipeline
          card,       \* what the document that writeAnalysis leaves carries forward
          ageDays,    \* of the stored card
          shown       \* the final score last recorded

vars == <<payload, material, reads, stage, card, ageDays, shown>>

Samples == 1 .. 3       \* NARRATIVE_SAMPLES
Due == <<4>>            \* a read that has not come back

-----------------------------------------------------------------------------
(* narrativeMaterial: what there is to read, and how much it may weigh.  A
   report counts by its independent items where it is structured. *)

None == -2
Prose == -1
reportShare(report) == CASE report = None -> 0 [] report = Prose -> 50 [] OTHER -> Within(0, 100, (100 * report) \div 6)

Undated == -1
recencyFactor(age) ==
    CASE age = Undated -> 70 [] age \in 0 .. 7 -> 100 [] age \in 8 .. 21 -> 85 [] age \in 22 .. 60 -> 65 [] OTHER -> 45

sourceWeight(m) ==
    (CASE m.company = "dossier" -> 20 [] m.company = "insights" -> 10 [] OTHER -> 0)
    + (IF m.sectors THEN 5 ELSE 0)
    + (IF m.briefing /\ m.company # "dossier" THEN 10 ELSE 0)
    + (60 * reportShare(m.perplexity)) \div 100
    + (30 * reportShare(m.deep)) \div 100
    + (IF m.search THEN 10 ELSE 0)

\* Whether any source is named.
HasSources(m) == \/ m.company # "none" \/ m.sectors \/ m.briefing \/ m.search
                 \/ m.perplexity # None \/ m.deep # None

materialEmpty(m) == sourceWeight(m) = 0
materialConfidence(m) == (Within(0, 100, sourceWeight(m)) * recencyFactor(m.age)) \div 100

-----------------------------------------------------------------------------

NoFinal == [blend |-> 0, requested |-> 0, score |-> 0, verdict |-> 0]
NoNarrative == [read |-> FALSE, score |-> Abstains, confidence |-> 0]
NoCard == [narrative |-> NoNarrative, requested |-> 0]

Init == /\ payload \in Payloads
        /\ material \in Materials
        /\ reads = [i \in Samples |-> Due]
        /\ stage = "reads"
        /\ card = NoCard
        /\ ageDays = 0
        /\ shown = NoFinal

\* The reads run side by side; one that fails is dropped.
Read(i) ==
    /\ stage = "reads" /\ ~materialEmpty(material) /\ reads[i] = Due
    /\ \E r \in Reads \union {Failed} : reads' = [reads EXCEPT ![i] = r]
    /\ UNCHANGED <<payload, material, stage, card, ageDays, shown>>

\* The narrative of the reads: none where nothing was read.
Narrative ==
    IF materialEmpty(material) \/ Answered(reads) = {} THEN NoNarrative
    ELSE [read |-> TRUE, score |-> combineNarrativeReads(reads),
          confidence |-> (materialConfidence(material) * confidenceFactor(reads)) \div 100]

\* The synthesis asks for a correction, or fails and none is made.  writeAnalysis
\* stores the card.
Synthesise ==
    /\ stage = "reads"
    /\ \/ materialEmpty(material)
       \/ \A i \in Samples : reads[i] # Due
    /\ \E adjustment \in Adjustments \union {0} :
         LET final == blendScores(payload, Narrative.score, Narrative.confidence, adjustment)
         IN /\ shown' = final
            /\ card' = [narrative |-> Narrative, requested |-> final.requested]
    /\ stage' = "stored"
    /\ UNCHANGED <<payload, material, reads, ageDays>>

\* Mutated: what was recorded last is carried forward, not what was stored.
latestRecordedCard == [card EXCEPT !.requested = shown.requested]

latestScoreCard == card

\* What is left of the narrative half at an age; nothing where there was none.
decay(previous, age) == IF previous.narrative.read THEN recencyFactor(age) ELSE 0

rescore(f, previous, age) ==
    blendScores(f, previous.narrative.score, (previous.narrative.confidence * decay(previous, age)) \div 100,
                (previous.requested * decay(previous, age)) \div 100)

\* A refresh, a cached analysis or the depot's reading scores what is known now.
Carry ==
    /\ stage = "stored"
    /\ \E f \in Payloads, age \in {d \in Days : d >= ageDays} :
         /\ payload' = f
         /\ ageDays' = age
         /\ shown' = rescore(f, latestScoreCard, age)
    /\ UNCHANGED <<material, reads, stage, card>>

Next == (\E i \in Samples : Read(i)) \/ Synthesise \/ Carry

Spec == Init /\ [][Next]_vars

-----------------------------------------------------------------------------
(* Properties *)

\* No single voice decides: the synthesis moves the verdict by at most one band
\* (types.ts:991), the narrative lies between any two of three reads that score,
\* one read does not score against two that abstain, and nobody talks past the
\* caps of the payload.
NoSingleVoiceDecides ==
    stage = "stored" =>
      /\ LET asked == verdictForScore(shown.score)
             blended == verdictForScore(published(shown.blend))
         IN Abs(asked - blended) <= 1
      /\ \A i \in Samples :
            LET others == {narrativeScoreFrom(reads[j]) : j \in scoring(reads) \ {i}}
            IN Cardinality(scoring(reads) \ {i}) = 2 =>
                 Min(others) <= card.narrative.score /\ card.narrative.score <= Max(others)
      /\ Cardinality(Answered(reads)) = 3 /\ Cardinality(scoring(reads)) = 1 =>
              card.narrative.score = Abstains
      /\ "hold-ceiling" \in capsOf(payload) => shown.verdict <= 2
      /\ "no-strong" \in capsOf(payload) => shown.verdict \in 1 .. 3

\* What is carried forward ages with the read, however often it is scored again:
\* at the same age over the same payload the headline stays; within the first
\* week it is the one the analysis told - unless a correction was asked for
\* without any narrative, which the first refresh takes back.
CarryIsByAge ==
    [][stage = "stored" /\ payload' = payload /\ recencyFactor(ageDays') = recencyFactor(ageDays)
         => \/ shown' = shown
            \/ ~card.narrative.read /\ card.requested # 0]_vars

\* Violated by the exception of the above: "it was an exception argued from a
\* specific event" (score-service.ts:515) and decays as the narrative does; where
\* there is none, it is gone with the next refresh.
CorrectionOutlivesTheRefresh ==
    [][stage = "stored" /\ payload' = payload /\ ageDays' = ageDays => shown' = shown]_vars

\* Violated: "True when there is nothing to summarise" (score-service.ts:72).  A
\* report all of whose items are management's own weighs nothing, and is not read.
EmptyMeansNothing == materialEmpty(material) => ~HasSources(material)

=============================================================================
