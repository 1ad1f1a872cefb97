---------------------------- MODULE ResearchBrief ----------------------------
(***************************************************************************)
(* The research that is bought of Perplexity for one stock and kept        *)
(* (src/src/perplexity-service.ts, src/src/data/perplexity.ts): analyses   *)
(* are served the stored brief while it is in its window, and buy a new    *)
(* one otherwise, of which the debate may be kept from the brief before;   *)
(* the refresh button buys whatever is stored; deep research is bought, or *)
(* pasted, into a slot of its own.                                         *)
(***************************************************************************)
EXTENDS Integers

CONSTANTS Jobs,          \* analyses and clicks that may be under way at once
          Models,        \* the models asked for
          Deep,          \* DEEP_RESEARCH_MODEL, one of them
          MaxAge,        \* perplexity.maxAgeDays
          DebateMaxAge,  \* perplexity.debateMaxAgeDays
          DeepMaxAge,    \* perplexity.deepMaxAgeDays
          MaxDays,       \* bound: the last day
          MaxJobs,       \* bound: jobs begun
          MaxDeploys     \* bound: deploys with a rewritten prompt

VARIABLES today,
          prompts,    \* the version of each part's prompt in the running code
          briefs,     \* the newest document of each slot, by last_seen_at: deep research, or not
          asking,     \* the jobs under way
          served,     \* history: what the last analysis went on with
          begun, deploys

vars == <<today, prompts, briefs, asking, served, begun, deploys>>

None == [model |-> "none"]
Idle == [pc |-> "idle"]
NotServed == [brief |-> None, deep |-> None]

(* PERPLEXITY_PROMPT_HASH is of both parts, WHOLE_PROMPT_HASH of the brief
   asked in one. *)
PERPLEXITY_PROMPT_HASH == <<"parts", prompts>>
WHOLE_PROMPT_HASH == <<"whole", prompts>>

Init == /\ today = 0
        /\ prompts = [facts |-> 1, debate |-> 1]
        /\ briefs = [deep \in BOOLEAN |-> None]
        /\ asking = [j \in Jobs |-> Idle]
        /\ served = NotServed
        /\ begun = 0
        /\ deploys = 0

-----------------------------------------------------------------------------
(* What is stored.  A brief carries when and under which prompts it was
   asked, and the same of its debate where it was asked in parts; born is when
   that debate was really bought. *)

Brief(model, hash, at, debate) ==
    [model |-> model, hash |-> hash, at |-> at, under |-> prompts, debate |-> debate, seen |-> at]
NoDebate == [at |-> -1]

\* writePerplexity.  The hash of a document takes in when it was fetched: no two
\* are the same, and each is a row of its own, seen last.
writePerplexity(brief) == briefs' = [briefs EXCEPT ![brief.model = Deep] = [brief EXCEPT !.seen = today]]

within(brief, maxAge) == IF brief # None /\ today - brief.seen <= maxAge THEN brief ELSE None

readPerplexity(model) == within(briefs[model = Deep], MaxAge)

getDeepResearchStored(model) == IF model = Deep THEN None ELSE within(briefs[TRUE], DeepMaxAge)

\* The debate of a brief that may stand in for a new one.
reusableDebate(brief, model) ==
    IF /\ brief # None
       /\ brief.debate # NoDebate
       /\ brief.model = model
       /\ brief.debate.under = prompts.debate
       /\ today - brief.debate.at <= DebateMaxAge
    THEN brief.debate ELSE NoDebate

DebateOfToday == [at |-> today, under |-> prompts.debate, born |-> today]

\* Mutated: the debate that is kept is dated as the facts beside it.
KeptAsNew(model, kept) ==
    IF model = Deep THEN Brief(model, WHOLE_PROMPT_HASH, today, NoDebate)
    ELSE Brief(model, PERPLEXITY_PROMPT_HASH, today, IF kept # NoDebate THEN [kept EXCEPT !.at = today] ELSE DebateOfToday)

\* fetchPerplexity: what will have been asked when all has been answered.
fetchPerplexity(model, kept) ==
    IF model = Deep THEN Brief(model, WHOLE_PROMPT_HASH, today, NoDebate)
    ELSE Brief(model, PERPLEXITY_PROMPT_HASH, today, IF kept # NoDebate THEN kept ELSE DebateOfToday)

-----------------------------------------------------------------------------

Begins(j) == /\ asking[j] = Idle
             /\ begun < MaxJobs
             /\ begun' = begun + 1

Now(brief, model) == [brief |-> brief, deep |-> getDeepResearchStored(model)]

\* An analysis finds a brief of its slot, in its window and by the prompts of the code.
Hit(model) == readPerplexity(model) # None /\ readPerplexity(model).hash = PERPLEXITY_PROMPT_HASH

Serve(j, model) ==
    /\ Begins(j)
    /\ Hit(model)
    /\ served' = Now(readPerplexity(model), model)
    /\ UNCHANGED <<today, prompts, briefs, asking, deploys>>

\* Or it does not, and has yet to ask.
Miss(j, model) ==
    /\ Begins(j)
    /\ ~Hit(model)
    /\ asking' = [asking EXCEPT ![j] = [pc |-> "due", model |-> model, stored |-> readPerplexity(model)]]
    /\ UNCHANGED <<today, prompts, briefs, served, deploys>>

\* It reads the newest brief, where it has none in hand, for the sake of its debate.
Ask(j) ==
    /\ asking[j].pc = "due"
    /\ LET model == asking[j].model
           newest == IF asking[j].stored # None THEN asking[j].stored ELSE briefs[FALSE]
       IN asking' = [asking EXCEPT ![j] = [pc |-> "asked", by |-> "analysis",
                                           brief |-> fetchPerplexity(model, reusableDebate(newest, model))]]
    /\ UNCHANGED <<today, prompts, briefs, served, begun, deploys>>

\* refreshPerplexity, both parts, whatever is stored.
Refresh(j, model) ==
    /\ Begins(j)
    /\ asking' = [asking EXCEPT ![j] = [pc |-> "asked", by |-> "click", brief |-> fetchPerplexity(model, NoDebate)]]
    /\ UNCHANGED <<today, prompts, briefs, served, deploys>>

\* All parts have been answered: stored, and gone on with.
Answered(j) ==
    /\ asking[j].pc = "asked"
    /\ writePerplexity(asking[j].brief)
    /\ served' = IF asking[j].by = "analysis"
                 THEN Now([asking[j].brief EXCEPT !.seen = today], asking[j].brief.model) ELSE served
    /\ asking' = [asking EXCEPT ![j] = Idle]
    /\ UNCHANGED <<today, prompts, begun, deploys>>

\* One part has not: nothing is kept of the other, and an analysis goes on without.
Refused(j) ==
    /\ asking[j].pc = "asked"
    /\ served' = IF asking[j].by = "analysis" THEN Now(None, asking[j].brief.model) ELSE served
    /\ asking' = [asking EXCEPT ![j] = Idle]
    /\ UNCHANGED <<today, prompts, briefs, begun, deploys>>

\* pastedResearch: a report made elsewhere, into the slot of deep research.
Paste(j) ==
    /\ Begins(j)
    /\ writePerplexity(Brief(Deep, PERPLEXITY_PROMPT_HASH, today, NoDebate))
    /\ UNCHANGED <<today, prompts, asking, served, deploys>>

\* A deploy rewrites the prompt of one part; what was under way is gone.
Deploy ==
    /\ deploys < MaxDeploys
    /\ deploys' = deploys + 1
    /\ \E p \in DOMAIN prompts : prompts' = [prompts EXCEPT ![p] = @ + 1]
    /\ asking' = [j \in Jobs |-> Idle]
    /\ UNCHANGED <<today, briefs, served, begun>>

NextDay ==
    /\ today < MaxDays
    /\ today' = today + 1
    /\ UNCHANGED <<prompts, briefs, asking, served, begun, deploys>>

Next == \/ \E j \in Jobs, model \in Models : Serve(j, model) \/ Miss(j, model) \/ Refresh(j, model)
        \/ \E j \in Jobs : Ask(j) \/ Answered(j) \/ Refused(j) \/ Paste(j)
        \/ Deploy \/ NextDay

Spec == Init /\ [][Next]_vars

-----------------------------------------------------------------------------
(* Properties *)

\* A debate outlives the brief it was bought with, and yet not for ever: whatever
\* chain of briefs kept it, it was bought at most its own window before the facts
\* beside it, under the same prompt as they; and no report is read twice, once as
\* the brief and once beside it.
ServedIsOfItsTime ==
    served.brief # None =>
        /\ served.brief.debate # NoDebate =>
               /\ served.brief.at - served.brief.debate.born <= DebateMaxAge
               /\ served.brief.debate.under = served.brief.under.debate
        /\ served.brief # served.deep

\* A day has come on which an analysis has to ask.
Due(j) == asking[j] = Idle /\ asking'[j] # Idle /\ asking'[j].pc = "due"
StillGood(model) == LET brief == briefs[model = Deep]
                    IN brief # None /\ today - brief.seen <= MaxAge /\ brief.under = prompts

\* "The lifetime is a setting now and every analysis honours it; the explicit
\* refresh is the one way past it" (perplexity-service.ts:11-12): no analysis asks
\* while the brief of its slot is in its window and by the prompts of the code.  The
\* code gives that to the regular models: deep research is stored under the hash of
\* the brief asked in one, and compared with that of the parts.
AnalysesHonourTheWindow == [][\A j \in Jobs : Due(j) => ~StillGood(asking'[j].model)]_vars
RegularHonourTheWindow ==
    [][\A j \in Jobs : Due(j) /\ StillGood(asking'[j].model) => asking'[j].model = Deep]_vars

\* And what is served is an answer to the question of the code, at most its window old.
ServedIsCurrent ==
    [][\A j \in Jobs : (begun' = begun + 1 /\ served' # served) =>
           served'.brief.under = prompts /\ today - served'.brief.seen <= MaxAge]_vars

\* Together: research is bought when it is due, and is of its time when it is read.
ResearchIsOfItsTime == [][ServedIsOfItsTime']_vars /\ RegularHonourTheWindow /\ ServedIsCurrent

=============================================================================
