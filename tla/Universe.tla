------------------------------ MODULE Universe -------------------------------
(***************************************************************************)
(* The reference universe (src/src/universe.ts): every night the indices   *)
(* are fetched, who left is recorded and scored for a while longer, and    *)
(* the members refreshed longest ago get the night's batch (store.ts,      *)
(* referenceRotation).  Members are those not on the watchlist.            *)
(*                                                                         *)
(* The rotation compares instants; the model keeps the symbols in their    *)
(* order.  Two runs at once are left to HatchetRun and InProcessRun.       *)
(***************************************************************************)
EXTENDS Integers, Sequences, FiniteSets

CONSTANTS Symbols,
          Sources,     \* UNIVERSE_SOURCES: how many indices, in their order
          Suffixed,    \* the tickers with an exchange suffix
          root,        \* what stands before it
          Eligible,    \* bound: the lists an index may come to hold
          Dead,        \* symbols whose refresh fails for good
          batchSize,
          Grace,       \* DEPARTED_GRACE_DAYS, in days
          MaxFaults    \* bound: fetches, reads and refreshes that fail, nights cut short

VARIABLES index,     \* what the indices hold
          stored,    \* universe.membership; nothing stored reads as empty
          order,     \* the symbols that have a row, by their last refresh or first attempt
          batch,     \* what is left of the night's batch
          lastGood,  \* history: the lists as last fetched
          since,     \* history: days since a night at which the fetched lists held the symbol
          turn,      \* history: the last symbol refreshed
          mishaps,
          faults

vars == <<index, stored, order, batch, lastGood, since, turn, mishaps, faults>>

Indices == 1 .. Sources
Member == -1                 \* not among the departed
Age(d) == IF d \in {Member, Grace + 1} THEN d ELSE d + 1

Nothing == [bySource |-> [k \in Indices |-> {}], departed |-> [s \in Symbols |-> Member]]

Init == /\ index \in [Indices -> SUBSET Symbols] /\ \A k \in Indices : index[k] \in Eligible[k]
        /\ stored = Nothing
        /\ order = <<>>
        /\ batch = {}
        /\ lastGood = [k \in Indices |-> {}]
        /\ since = [s \in Symbols |-> Grace + 1]
        /\ turn = "none"
        /\ mishaps = {}
        /\ faults = 0

-----------------------------------------------------------------------------
(* The lists. *)

\* Every company once: a later index's suffixed listing of a root that an
\* earlier index holds with a suffix is left out.
unionMembers(bySource) ==
    LET upTo[k \in 0 .. Sources] ==
            IF k = 0 THEN {}
            ELSE LET roots == {root[t] : t \in upTo[k - 1] \cap Suffixed}
                 IN upTo[k - 1] \union {t \in bySource[k] : t \notin Suffixed \/ root[t] \notin roots}
    IN upTo[Sources]

\* An index whose fetch failed keeps its last list.
kept(prev, down) == [k \in Indices |-> IF k \in down THEN prev.bySource[k] ELSE index[k]]

\* The membership after a fetch: who no index lists any more has departed today.
nextMembership(prev, down) ==
    LET bySource == kept(prev, down)
        now == unionMembers(bySource)
    IN [bySource |-> bySource,
        departed |-> [s \in Symbols |->
            IF s \in now THEN Member
            ELSE IF prev.departed[s] # Member THEN prev.departed[s]
            ELSE IF s \in unionMembers(prev.bySource) THEN 0 ELSE Member]]

\* The members to score: the current ones, and who left within the grace period.
activeMembers(m) == unionMembers(m.bySource) \union {s \in Symbols : m.departed[s] \in 0 .. Grace}

-----------------------------------------------------------------------------
(* The rotation. *)

Tried == {order[i] : i \in 1 .. Len(order)}
Place(s) == CHOOSE i \in 1 .. Len(order) : order[i] = s

\* Refreshed longer ago, or never tried at all.
Before(s, t) == s \notin Tried \/ (t \in Tried /\ Place(s) < Place(t))

referenceRotation(members) ==
    {S \in SUBSET members :
        /\ Cardinality(S) = IF Cardinality(members) < batchSize THEN Cardinality(members) ELSE batchSize
        /\ \A s \in S, t \in members \ S : Before(s, t)}

\* Mutated: the order is that of the first attempts.
ToTheEndOnce(s) == order' = IF s \in Tried THEN order ELSE Append(order, s)

ToTheEnd(s) == order' = Append(SelectSeq(order, LAMBDA t : t # s), s)

-----------------------------------------------------------------------------

\* universeMembers and referenceBatch: the lists that could be fetched, and the
\* membership as stored, or nothing when the read fails.
Night(down, prev) ==
    /\ batch = {}
    /\ stored' = nextMembership(prev, down)
    /\ batch' \in referenceRotation(activeMembers(stored'))
    /\ lastGood' = [k \in Indices |-> IF k \in down THEN lastGood[k] ELSE index[k]]
    /\ since' = [s \in Symbols |-> IF s \in unionMembers(lastGood') THEN 0 ELSE since[s]]
    /\ UNCHANGED <<index, order, turn>>

GoodNight == Night({}, stored) /\ UNCHANGED <<mishaps, faults>>

Fault == faults < MaxFaults /\ faults' = faults + 1

\* Lists that are unavailable, or too short to be the index.
NightWithOutage ==
    /\ Fault
    /\ \E down \in SUBSET Indices \ {{}} : Night(down, stored)
    /\ UNCHANGED mishaps

\* storedMembership answers null to a read that fails.
NightUnread ==
    /\ Fault
    /\ \E down \in SUBSET Indices : Night(down, Nothing)
    /\ mishaps' = mishaps \union {"unread"}

Refresh(s) ==
    /\ s \in batch \ Dead
    /\ ToTheEnd(s)
    /\ batch' = batch \ {s}
    /\ turn' = s
    /\ UNCHANGED <<index, stored, lastGood, since, mishaps, faults>>

\* The first attempt counts: markReference has created the row.
Attempt(s) == IF s \in Tried THEN UNCHANGED order ELSE ToTheEnd(s)

RefreshFails(s) ==
    /\ s \in batch
    /\ \/ s \in Dead /\ UNCHANGED faults
       \/ s \notin Dead /\ Fault
    /\ Attempt(s)
    /\ batch' = batch \ {s}
    /\ UNCHANGED <<index, stored, lastGood, since, turn, mishaps>>

\* The run is stopped, or dies.
CutShort ==
    /\ batch # {}
    /\ Fault
    /\ batch' = {}
    /\ UNCHANGED <<index, stored, order, lastGood, since, turn, mishaps>>

DayPasses ==
    /\ batch = {}
    /\ stored' = [stored EXCEPT !.departed = [s \in Symbols |-> Age(@[s])]]
    /\ since' = [s \in Symbols |-> Age(since[s])]
    /\ UNCHANGED <<index, order, batch, lastGood, turn, mishaps, faults>>

IndexChanges(k) ==
    /\ index' \in {[index EXCEPT ![k] = list] : list \in Eligible[k]}
    /\ UNCHANGED <<stored, order, batch, lastGood, since, turn, mishaps, faults>>

RefreshStep == \E s \in Symbols : Refresh(s) \/ RefreshFails(s)

Next == \/ GoodNight \/ NightWithOutage \/ NightUnread
        \/ RefreshStep
        \/ CutShort
        \/ DayPasses
        \/ \E k \in Indices : IndexChanges(k)

Spec == Init /\ [][Next]_vars

\* The night comes round, and a refresh comes to an end.
Fairness == WF_vars(GoodNight) /\ WF_vars(RefreshStep)

FairSpec == Spec /\ Fairness

-----------------------------------------------------------------------------
(* Properties *)

\* Who leaves the indices is scored for the grace period behind the last night
\* that listed it, and who is listed is scored however long its index cannot be
\* fetched.  A stored membership that could not be read forgets who left.
LeaversKeepTheirGrace ==
    mishaps = {} => \A s \in Symbols : since[s] <= Grace => s \in activeMembers(stored)

\* The rotation comes round: a member that stays is refreshed again and again,
\* as long as fewer members than a batch holds fail for good.
RotationComesRound ==
    \A s \in Symbols \ Dead :
        <>[](s \in unionMembers(index)) => []<>(turn = s)

\* "One company must not count twice in the population" (universe.ts:51).
OneCompanyOnce ==
    \A s, t \in activeMembers(stored) \cap Suffixed :
        (s # t /\ root[s] = root[t]) => \E k \in Indices : {s, t} \subseteq stored.bySource[k]

=============================================================================
