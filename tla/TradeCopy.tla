------------------------------ MODULE TradeCopy ------------------------------
(***************************************************************************)
(* The copy of the trades that umsatz keeps (src/src/trades-service.ts,    *)
(* src/src/db/trades-store.ts): pages that find it old fetch the list and  *)
(* write it row by row, side by side if two of them look at once, while    *)
(* umsatz books, corrects and removes trades and the owner says why he     *)
(* made them.  And what the rows add up to: the positions of               *)
(* src/src/analysis/depot.ts.                                              *)
(*                                                                         *)
(* A booking stands for what umsatz says of a trade; what tradeFromUmsatz  *)
(* cannot read is no trade.                                                *)
(***************************************************************************)
EXTENDS Integers, FiniteSets, Sequences, FiniteSetsExt

CONSTANTS Trades,       \* the external ids
          Bookings,     \* what a trade can be said to be
          Decided,      \* those among them that are purchases and sales
          Pages,        \* who looks: the journal, the depot, the night
          MaxChanges,   \* bound: corrections at umsatz
          MaxAnswers,   \* bound: what the owner says
          MaxFaults     \* bound: statements that fail

VARIABLES source,       \* what umsatz holds; at first everything, somehow booked
          rows,         \* trades
          reasons,      \* the trades some standing journal entry gives the reason for
          sync,         \* syncTradesIfStale, by page
          changes, answers, faults,
          whole,        \* history: the list that was last written whole
          torn,         \* history: it has been written over in part since
          answered      \* history: the trades that the owner explained or dismissed

vars == <<source, rows, reasons, sync, changes, answers, faults, whole, torn, answered>>

Gone == "gone"
NoRow == [booking |-> Gone, removed |-> FALSE, dismissed |-> FALSE]
Away == [at |-> "away", list |-> {}, left |-> {}, clean |-> FALSE]

Init == /\ source \in [Trades -> Bookings]
        /\ rows = [t \in Trades |-> NoRow]
        /\ reasons = {}
        /\ sync = [p \in Pages |-> Away]
        /\ changes = 0 /\ answers = 0 /\ faults = 0
        /\ whole = [t \in Trades |-> Gone] /\ torn = FALSE
        /\ answered = {}

Inserted(t) == rows[t] # NoRow
Live(t) == Inserted(t) /\ ~rows[t].removed

\* The purchases and sales nobody has given a reason for.
openTrades == {t \in Trades : Live(t) /\ rows[t].booking \in Decided /\ ~rows[t].dismissed /\ t \notin reasons}

-----------------------------------------------------------------------------
(* syncTradesIfStale, syncTrades *)

goto(p, next) == sync' = [sync EXCEPT ![p] = next]

Listed(list) == {t \in Trades : list[t] # Gone}

\* A page that finds the copy old, or is told to, fetches the list: two may at once.
Fetch(p) == /\ sync[p].at = "away"
            /\ goto(p, [at |-> "fetched", list |-> source, left |-> Listed(source), clean |-> TRUE])
            /\ UNCHANGED <<source, rows, reasons, changes, answers, faults, whole, torn, answered>>

\* A statement of p: it is in the middle of its writing, and any other that was is
\* no longer alone.
Writing(p) == sync[p].at = "writing"
Disturb(p, next) ==
    sync' = [q \in Pages |-> CASE q = p -> next
                               [] q # p /\ Writing(q) -> [sync[q] EXCEPT !.clean = FALSE]
                               [] OTHER -> sync[q]]
Alone(p) == sync[p].clean /\ \A q \in Pages \ {p} : ~Writing(q)

\* Mutated: the row is written anew.
ReplaceRow(row, booking) == [NoRow EXCEPT !.booking = booking]

\* INSERT ... ON CONFLICT DO UPDATE: it is back if it was removed, and stays dismissed.
UpsertRow(row, booking) == [booking |-> booking, removed |-> FALSE, dismissed |-> row.dismissed]

\* replaceTrades, one row.
Upsert(p) ==
    /\ sync[p].at \in {"fetched", "writing"}
    /\ \E t \in sync[p].left :
         /\ rows' = [rows EXCEPT ![t] = UpsertRow(@, sync[p].list[t])]
         /\ Disturb(p, [sync[p] EXCEPT !.at = "writing", !.left = @ \ {t}, !.clean = Alone(p)])
    /\ UNCHANGED <<source, reasons, changes, answers, faults, whole, torn, answered>>

\* What was not in the list is marked, not deleted.
Missed(p) == {t \in Trades : Inserted(t) /\ t \notin Listed(sync[p].list)}

Mark(p) ==
    /\ sync[p].at \in {"fetched", "writing"} /\ sync[p].left = {}
    /\ rows' = [t \in Trades |-> IF t \in Missed(p) THEN [rows[t] EXCEPT !.removed = TRUE] ELSE rows[t]]
    /\ whole' = sync[p].list
    /\ torn' = ~Alone(p)
    /\ Disturb(p, Away)
    /\ UNCHANGED <<source, reasons, changes, answers, faults, answered>>

\* A statement fails: recorded, not thrown, and nothing is taken back.
Fail(p) == /\ sync[p].at \in {"fetched", "writing"} /\ faults < MaxFaults
           /\ faults' = faults + 1
           /\ goto(p, Away)
           /\ torn' = (torn \/ Writing(p))
           /\ UNCHANGED <<source, rows, reasons, changes, answers, whole, answered>>

-----------------------------------------------------------------------------
(* umsatz, the clock, and the owner *)

Rebook == /\ changes < MaxChanges
          /\ changes' = changes + 1
          /\ \E t \in Trades, b \in Bookings \union {Gone} : b # source[t] /\ source' = [source EXCEPT ![t] = b]
          /\ UNCHANGED <<rows, reasons, sync, answers, faults, whole, torn, answered>>

\* The owner says something about a trade that the page offered, or takes back an entry.
Say(t) == /\ answers < MaxAnswers
          /\ answers' = answers + 1
          /\ UNCHANGED <<source, sync, changes, faults, whole, torn>>

Dismiss(t) == /\ t \in openTrades /\ Say(t)
              /\ rows' = [rows EXCEPT ![t].dismissed = TRUE]
              /\ answered' = answered \union {t}
              /\ UNCHANGED reasons

GiveReason(t) == /\ t \in openTrades /\ Say(t)
                 /\ reasons' = reasons \union {t}
                 /\ answered' = answered \union {t}
                 /\ UNCHANGED rows

DeleteEntry(t) == /\ t \in reasons /\ Say(t)
                  /\ reasons' = reasons \ {t}
                  /\ answered' = IF rows[t].dismissed THEN answered ELSE answered \ {t}
                  /\ UNCHANGED rows

Next == \/ \E p \in Pages : Fetch(p) \/ Upsert(p) \/ Mark(p) \/ Fail(p)
        \/ \E t \in Trades : Dismiss(t) \/ GiveReason(t) \/ DeleteEntry(t)
        \/ Rebook

Spec == Init /\ [][Next]_vars

-----------------------------------------------------------------------------
(* positionsFromTrades, for the trades of one asset in their order.  The cost is
   a fraction: what a sale takes away is a share of it. *)

Flat == [quantity |-> 0, cost |-> 0, per |-> 1, euro |-> TRUE, opened |-> 0, decided |-> FALSE]

\* Mutated: a sale takes its proceeds from the cost.
lessProceeds(p, t, sold) == [cost |-> p.cost - sold * t.price * p.per, per |-> p.per]

\* A sale takes its share of the cost.
lessShare(p, t, sold) == [cost |-> p.cost * (p.quantity - sold), per |-> p.per * p.quantity]

Lower(a, b) == IF a < b THEN a ELSE b

\* The position after the n-th trade; one that went to zero starts over.
AfterTrade(before, t, n) ==
    LET p == IF before.quantity = 0 THEN [Flat EXCEPT !.opened = n] ELSE before
        decided == p.decided \/ t.kind \in {"buy", "sell"}
        sold == Lower(t.quantity, p.quantity)
    IN IF t.kind # "sell"
       THEN [p EXCEPT !.quantity = @ + t.quantity, !.cost = @ + t.quantity * t.price * p.per,
                      !.euro = @ /\ t.euro, !.decided = decided]
       ELSE IF p.quantity = 0 THEN [p EXCEPT !.decided = decided]
       ELSE [p EXCEPT !.quantity = @ - sold, !.cost = lessShare(p, t, sold).cost,
                      !.per = lessShare(p, t, sold).per, !.decided = decided]

positionOf(trades) ==
    LET after[n \in 0 .. Len(trades)] ==
            IF n = 0 THEN Flat ELSE AfterTrade(after[n - 1], trades[n], n)
    IN after[Len(trades)]

-----------------------------------------------------------------------------
(* Properties *)

\* "Replace the copy with what the source holds now" (trades-store.ts:24): nobody
\* writing, the copy is the list that was last written by one sync alone, whatever
\* it held before; an interrupted or a crossed one is made good by the next.  And a
\* trade is asked about until the owner has answered, and never again, however
\* often it is corrected, goes away and comes back.
CopyIsTheSources ==
    /\ ~torn /\ (\A p \in Pages : ~Writing(p)) =>
          \A t \in Trades : IF whole[t] = Gone THEN ~Live(t) ELSE Live(t) /\ rows[t].booking = whole[t]
    /\ openTrades = {t \in Trades : Live(t) /\ rows[t].booking \in Decided} \ answered

\* The holding is what was bought and not sold since it was last at zero; the average
\* cost of a share lies between those of two of the purchases of that
\* time; and a sale moves neither the average of what is left nor the day it was opened.
PositionsAddUp(trades) ==
    \A n \in 1 .. Len(trades) :
        LET p == positionOf(SubSeq(trades, 1, n))
            before == positionOf(SubSeq(trades, 1, n - 1))
            bought == {i \in p.opened .. n : trades[i].kind # "sell"}
            sold == {i \in p.opened .. n : trades[i].kind = "sell"}
            Shares(I) == MapThenSumSet(LAMBDA i : trades[i].quantity, I)
        IN p.quantity > 0 =>
             /\ p.quantity = Shares(bought) - Shares(sold)
             /\ \E i \in bought : p.per * p.quantity * trades[i].price <= p.cost
             /\ \E i \in bought : p.cost <= p.per * p.quantity * trades[i].price
             /\ p.euro = (\A i \in bought : trades[i].euro)
             /\ trades[n].kind = "sell" =>
                   /\ p.cost * before.per * before.quantity = before.cost * p.per * p.quantity
                   /\ p.opened = before.opened

=============================================================================
