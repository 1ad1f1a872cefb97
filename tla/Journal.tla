------------------------------- MODULE Journal -------------------------------
(***************************************************************************)
(* A journal entry and the review of the decisions that is read from it    *)
(* (src/src/db/journal-store.ts, src/src/journal-service.ts,               *)
(* src/src/review-service.ts): editors who replace and delete the entry    *)
(* side by side, each in statements of their own, and a reading that all   *)
(* pages share while it is young and that a write forgets.  And which      *)
(* decisions the review sees: decisionsFrom of src/src/analysis/review.ts. *)
(*                                                                         *)
(* One entry stands for all: an edit touches its own.  The age of a shared *)
(* reading is left open: it may run out at any moment.                     *)
(***************************************************************************)
EXTENDS Integers, FiniteSets, Sequences

CONSTANTS Wordings,     \* what the entry can say
          Editors,      \* requests that change it
          Readers,      \* pages that read the review
          MaxWrites,    \* bound: statements that change an entry or a trade
          MaxFaults     \* bound: statements that fail

VARIABLES entry,        \* its row: the wording, and whether it is deleted
          revisions,    \* journal_revisions
          edit,         \* updateJournal and deleteJournal, by editor
          memo,         \* the reader whose build is shared, or Nobody
          build,        \* readReview, by the reader who began it
          writes, faults,
          stood,        \* history: the wordings the entry has had
          crossed       \* history: an edit replaced a wording it had not kept

vars == <<entry, revisions, edit, memo, build, writes, faults, stood, crossed>>
edits == <<entry, revisions, edit, stood, crossed>>

Nobody == "nobody"
Sources == {"entry", "trades"}
NoBuild == [reading |-> FALSE, knows |-> [s \in Sources |-> "nothing"]]
NoEntry == [kind |-> "none"]
NoEdit == [at |-> "away", to |-> Nobody, kept |-> Nobody]

Init == /\ \E w \in Wordings : entry = [text |-> w, deleted |-> FALSE] /\ stood = {w}
        /\ revisions = {}
        /\ edit = [e \in Editors |-> NoEdit]
        /\ memo = Nobody
        /\ build = [r \in Readers |-> NoBuild]
        /\ writes = 0 /\ faults = 0
        /\ crossed = FALSE

Write == writes < MaxWrites /\ writes' = writes + 1
Fault == faults < MaxFaults /\ faults' = faults + 1

\* What was read of s is no longer what is: "missed" until the change is over, then "less".
Know(s, from, to) ==
    [b \in Readers |-> IF build[b].knows[s] \in from THEN [build[b] EXCEPT !.knows[s] = to] ELSE build[b]]

-----------------------------------------------------------------------------
(* updateJournal, deleteJournal *)

\* Mutated: the copy is of what replaces it.
KeepIncoming(text) == IF text = entry.text THEN {} ELSE {text}

\* The wording to be replaced, unless it stays as it is.
Copy(text) == IF text = entry.text THEN {} ELSE {entry.text}

Keep(e) ==
    /\ edit[e].at = "away" /\ Write
    /\ \E text \in Wordings :
         /\ revisions' = IF entry.deleted THEN revisions ELSE revisions \union Copy(text)
         /\ edit' = [edit EXCEPT ![e] = [at |-> "kept", to |-> text, kept |-> entry.text]]
    /\ UNCHANGED <<entry, memo, faults, stood, crossed, build>>

\* An entry that has been deleted meanwhile stays so, and nothing is forgotten.
Replace(e) ==
    /\ edit[e].at = "kept"
    /\ IF entry.deleted
       THEN /\ edit' = [edit EXCEPT ![e] = NoEdit]
            /\ UNCHANGED <<entry, build, stood, crossed>>
       ELSE /\ edit' = [edit EXCEPT ![e].at = "written"]
            /\ entry' = [entry EXCEPT !.text = edit[e].to]
            /\ build' = Know("entry", {"now"}, "missed")
            /\ stood' = stood \union {edit[e].to}
            /\ crossed' = (crossed \/ entry.text # edit[e].kept)
    /\ UNCHANGED <<revisions, memo, writes, faults>>

Delete(e) ==
    /\ edit[e].at = "away" /\ ~entry.deleted /\ Write
    /\ entry' = [entry EXCEPT !.deleted = TRUE]
    /\ build' = Know("entry", {"now"}, "missed")
    /\ edit' = [edit EXCEPT ![e].at = "written"]
    /\ UNCHANGED <<revisions, memo, faults, stood, crossed>>

\* A statement fails: what was done before it stays.
FailEdit(e) == /\ edit[e].at = "kept" /\ Fault
               /\ edit' = [edit EXCEPT ![e] = NoEdit]
               /\ UNCHANGED <<entry, revisions, memo, writes, stood, crossed, build>>

\* Mutated: a reading that is still being made stays the shared one.
ForgetFinished == IF memo # Nobody /\ build[memo].reading THEN memo ELSE Nobody

\* invalidateReview
Forgotten == Nobody

\* What changed is forgotten in a step of its own, and then the editor is told.
Forget(e) ==
    /\ edit[e].at = "written"
    /\ memo' = Forgotten
    /\ build' = [b \in Readers |-> IF build[b].reading THEN Know("entry", {"missed"}, "less")[b] ELSE NoBuild]
    /\ edit' = [edit EXCEPT ![e] = NoEdit]
    /\ UNCHANGED <<entry, revisions, writes, faults, stood, crossed>>

\* A sync by another page books, corrects or removes a trade: it clears nothing.
Sync == /\ Write
        /\ build' = Know("trades", {"now"}, "less")
        /\ UNCHANGED <<memo, faults>> /\ UNCHANGED edits

-----------------------------------------------------------------------------
(* cachedReview, readReview *)

\* A reading nobody shares is thrown away when it is through.
Shared(b, with) == IF b = memo THEN with ELSE NoBuild

\* A page takes the young reading, also while it is made.  There is none, it is old,
\* or a new one is asked for: then one is begun, and shared from there on.
Begin(r) ==
    /\ ~build[r].reading
    /\ memo' = r
    /\ build' = [b \in Readers |-> IF b = r THEN [NoBuild EXCEPT !.reading = TRUE]
                                   ELSE IF build[b].reading THEN build[b] ELSE NoBuild]
    /\ UNCHANGED <<writes, faults>> /\ UNCHANGED edits

\* The journal and the trades, each by a query of its own.
Read(b, s) ==
    /\ build[b].reading /\ build[b].knows[s] = "nothing"
    /\ build' = [build EXCEPT ![b].knows[s] = "now"]
    /\ UNCHANGED <<memo, writes, faults>> /\ UNCHANGED edits

\* The prices have been read too, and all who wait are answered.
Finish(b) ==
    /\ build[b].reading /\ \A s \in Sources : build[b].knows[s] # "nothing"
    /\ build' = [build EXCEPT ![b] = Shared(b, [@ EXCEPT !.reading = FALSE])]
    /\ UNCHANGED <<memo, writes, faults>> /\ UNCHANGED edits

\* A build that fails forgets itself, and nobody else's.
FailBuild(b) ==
    /\ build[b].reading /\ Fault
    /\ memo' = IF memo = b THEN Nobody ELSE memo
    /\ build' = [build EXCEPT ![b] = NoBuild]
    /\ UNCHANGED <<writes>> /\ UNCHANGED edits

Next == \/ \E e \in Editors : Keep(e) \/ Replace(e) \/ Delete(e) \/ FailEdit(e) \/ Forget(e)
        \/ Sync
        \/ \E r \in Readers : Begin(r) \/ Finish(r) \/ FailBuild(r) \/ \E s \in Sources : Read(r, s)

Spec == Init /\ [][Next]_vars

-----------------------------------------------------------------------------
(* decisionsFrom: trades of one day, stock and direction are one; the entries
   take theirs in turn, newest first. *)

SAME_DECISION_DAYS == 3

Apart(day, other) == IF day < other THEN other - day ELSE day - other

\* Mutated: a decision that has its entry is given to the next one too.
FreeOrTaken(deals, taken) == DOMAIN deals

\* Each is one decision.
Free(deals, taken) == DOMAIN deals \ taken

\* By its trades, or by its day.
Meant(entry_, symbol, deal) ==
    /\ deal.side = entry_.kind /\ deal.symbol = symbol
    /\ deal.ids \intersect entry_.tradeIds # {} \/ Apart(deal.day, entry_.day) <= SAME_DECISION_DAYS

\* What a symbol of the entry takes, the first that is meant; the entry alone where there is none left.
TakeFor(sofar, entry_, symbol, deals) ==
    LET mine == {d \in Free(deals, sofar.taken) : Meant(entry_, symbol, deals[d])}
        deal == {d \in mine : \A other \in mine : d <= other}
    IN [out |-> Append(sofar.out, [entry |-> entry_, symbol |-> symbol, deal |-> deal]),
        taken |-> sofar.taken \union deal]

\* Its symbols, one after the other; of a note there is nothing to decide.
Decide(sofar, entry_, deals) ==
    LET after[n \in 0 .. Len(entry_.symbols)] ==
            IF n = 0 THEN sofar ELSE TakeFor(after[n - 1], entry_, entry_.symbols[n], deals)
    IN IF entry_.kind = "note" THEN sofar ELSE after[Len(entry_.symbols)]

\* The entries one after the other.
Written(entries, deals) ==
    LET after[n \in 0 .. Len(entries)] ==
            IF n = 0 THEN [out |-> <<>>, taken |-> {}] ELSE Decide(after[n - 1], entries[n], deals)
    IN after[Len(entries)]

\* Then the trades that none of them took.
decisionsFrom(entries, deals) ==
    LET written == Written(entries, deals)
        after[n \in 0 .. Len(deals)] ==
            IF n = 0 THEN written.out
            ELSE IF n \in written.taken THEN after[n - 1]
            ELSE Append(after[n - 1], [entry |-> NoEntry, symbol |-> deals[n].symbol, deal |-> {n}])
    IN after[Len(deals)]

-----------------------------------------------------------------------------
(* Properties *)

\* An edit replaces the wording "keeping the one it replaces" (journal-store.ts:69):
\* unless two edits crossed, every wording the entry has had stands or is kept.
WordingsAreKept == ~crossed => stood \subseteq revisions \union {entry.text}

\* Violated: also if two edits crossed.
EveryWordingIsKept == stood \subseteq revisions \union {entry.text}

\* What a page is given or waits for has not read s before a change of it that is over.
ShowsChangesOf(s) == memo # Nobody => build[memo].knows[s] # "less"

\* Who asks after a change of the entry is over is shown it, whatever was being read
\* meanwhile and whichever reading failed.
AnswersShowTheWrite == ShowsChangesOf("entry")

\* Violated: "a journal entry or a sync clears it at once" (review-service.ts:60).
AnswersShowTheSync == ShowsChangesOf("trades")

\* "Every decision once" (review.ts:60): no trade is left out or counted twice, and
\* every stock of an entry on a purchase or a sale is a decision, of that direction.
DecisionsCountOnce(entries, deals) ==
    LET decisions == decisionsFrom(entries, deals)
    IN /\ \A d \in DOMAIN deals :
             Cardinality({n \in DOMAIN decisions : decisions[n].deal = {d}}) = 1
       /\ \A e \in DOMAIN entries : entries[e].kind # "note" =>
             \A k \in DOMAIN entries[e].symbols :
                 LET symbol == entries[e].symbols[k]
                 IN \E n \in DOMAIN decisions :
                        /\ decisions[n].entry = entries[e] /\ decisions[n].symbol = symbol
                        /\ \A d \in decisions[n].deal : deals[d].side = entries[e].kind /\ deals[d].symbol = symbol

\* Violated: "an entry linked to trades ... is one decision with them" (review.ts:60).
LinkedTradesAreOneDecision(entries, deals) ==
    LET decisions == decisionsFrom(entries, deals)
    IN \A n \in DOMAIN decisions, d \in DOMAIN deals :
           /\ decisions[n].entry # NoEntry
           /\ deals[d].side = decisions[n].entry.kind /\ deals[d].symbol = decisions[n].symbol
           /\ deals[d].ids \intersect decisions[n].entry.tradeIds # {}
           => decisions[n].deal = {d}

=============================================================================
