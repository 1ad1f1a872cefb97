------------------------------- MODULE Digest --------------------------------
(***************************************************************************)
(* The morning's message (src/src/digest.ts): after the night's watchlist  *)
(* pass the events of the last days that were not sent yet go to the       *)
(* webhook, and then every event of the window is written down as sent.    *)
(* Two runs on Hatchet may do so side by side, and either may die between  *)
(* the two.  An event is archived on its day or later; old[e] is how many  *)
(* days ago its day was.                                                   *)
(***************************************************************************)
EXTENDS Integers

CONSTANTS Events,
          Senders,     \* the runs that may send a message side by side
          Lookback,    \* LOOKBACK_DAYS
          MaxFaults    \* bound: statements that fail, refusals and deaths

VARIABLES old,         \* the age of an event in days, 0 from its day on
          archived,    \* the events the archive holds
          sent,        \* digest.sent: the keys written down
          send,        \* where each sendDigest stands, and what it has read
          told,        \* history: how often the receiver got an event
          skipped,     \* history: what a first message counted without telling
          mishaps,     \* history: what has gone wrong so far
          faults

vars == <<old, archived, sent, send, told, skipped, mishaps, faults>>

Gone == Lookback + 3   \* an age no message reaches
Idle == [pc |-> "idle", day |-> 0, feed |-> {}, known |-> {}, fresh |-> {}]

Init == /\ old = [e \in Events |-> 0]
        /\ archived = {}
        /\ sent = {}
        /\ send = [s \in Senders |-> Idle]
        /\ told = [e \in Events |-> 0]
        /\ skipped = {}
        /\ mishaps = {}
        /\ faults = 0

\* watchlistFeed: the events of the window, as the archive has them.
Feed == {e \in archived : old[e] <= Lookback}

\* Mutated: every message reports the last day.
FreshByDay(feed, known) == {e \in feed : old[e] <= 1}

\* What a message tells of: the first one has no memory and reports the last day.
Fresh(feed, known) == IF known = {} THEN {e \in feed : old[e] <= 1} ELSE feed \ known

\* A message without news is not sent.
Decide(s, known) ==
    LET fresh == Fresh(send[s].feed, known)
    IN send' = [send EXCEPT ![s] = IF fresh = {} THEN Idle
                                   ELSE [@ EXCEPT !.pc = "message", !.known = known, !.fresh = fresh]]

goto(s, pc) == send' = [send EXCEPT ![s].pc = pc]
Leave(s) == send' = [send EXCEPT ![s] = Idle]

-----------------------------------------------------------------------------

\* An event comes to the archive, on its day or some nights after it.
Archive(e) ==
    /\ e \notin archived
    /\ archived' = archived \union {e}
    /\ UNCHANGED <<old, sent, send, told, skipped, mishaps, faults>>

\* A day passes for every event whose day has come.  A message takes minutes,
\* so it sees one midnight at most.
DayPasses ==
    /\ \A s \in Senders : send[s].day = 0
    /\ \E S \in SUBSET Events :
          /\ archived \union {e \in Events : old[e] > 0} \subseteq S
          /\ \E e \in S : old[e] < Gone
          /\ old' = [e \in Events |-> IF e \in S /\ old[e] < Gone THEN old[e] + 1 ELSE old[e]]
    /\ send' = [s \in Senders |-> IF send[s].pc = "idle" THEN Idle ELSE [send[s] EXCEPT !.day = 1]]
    /\ UNCHANGED <<archived, sent, told, skipped, mishaps, faults>>

\* The settings are read, and the feed is built.
ReadFeed(s) ==
    /\ send[s].pc = "idle"
    /\ Feed # {}
    /\ send' = [send EXCEPT ![s] = [pc |-> "sent", day |-> 0, feed |-> Feed, known |-> {}, fresh |-> {}]]
    /\ mishaps' = IF \E t \in Senders \ {s} : send[t].pc # "idle"
                  THEN mishaps \union {"raced"} ELSE mishaps
    /\ UNCHANGED <<old, archived, sent, told, skipped, faults>>

\* What was sent before is read.
ReadSent(s) ==
    /\ send[s].pc = "sent"
    /\ Decide(s, sent)
    /\ UNCHANGED <<old, archived, sent, told, skipped, mishaps, faults>>

\* The read fails or does not parse: "start over", as if nothing had been sent.
ForgetSent(s) ==
    /\ send[s].pc = "sent"
    /\ faults < MaxFaults
    /\ faults' = faults + 1
    /\ Decide(s, {})
    /\ mishaps' = mishaps \union {"forgotten"}
    /\ UNCHANGED <<old, archived, sent, told, skipped>>

Deliver(s) ==
    /\ send[s].pc = "message"
    /\ told' = [e \in Events |-> IF e \in send[s].fresh /\ told[e] < 2 THEN told[e] + 1 ELSE told[e]]
    /\ skipped' = IF send[s].known = {} THEN skipped \union (send[s].feed \ send[s].fresh) ELSE skipped
    /\ goto(s, "write")
    /\ UNCHANGED <<old, archived, sent, mishaps, faults>>

\* The receiver refuses: nothing is written down, and the next night tries again.
Refused(s) ==
    /\ send[s].pc = "message"
    /\ faults < MaxFaults
    /\ faults' = faults + 1
    /\ Leave(s)
    /\ UNCHANGED <<old, archived, sent, told, skipped, mishaps>>

\* The whole window counts as sent; keys a day older than the window are dropped.
Kept(known) == {e \in known : old[e] <= Lookback + 1}

WriteSent(s) ==
    /\ send[s].pc = "write"
    /\ sent' = Kept(send[s].known) \union send[s].feed
    /\ Leave(s)
    /\ UNCHANGED <<old, archived, told, skipped, mishaps, faults>>

\* The write fails, or the process dies, after the message went out.
LoseWrite(s) ==
    /\ send[s].pc = "write"
    /\ faults < MaxFaults
    /\ faults' = faults + 1
    /\ Leave(s)
    /\ mishaps' = mishaps \union {"unwritten"}
    /\ UNCHANGED <<old, archived, sent, told, skipped>>

\* POST /api/alerts/digest/test sends the last day as a test and writes nothing down.
Progress(s) == ReadFeed(s) \/ ReadSent(s) \/ Deliver(s) \/ WriteSent(s)

Next == \/ \E e \in Events : Archive(e)
        \/ DayPasses
        \/ \E s \in Senders : Progress(s) \/ ForgetSent(s) \/ Refused(s) \/ LoseWrite(s)

Spec == Init /\ [][Next]_vars

-----------------------------------------------------------------------------
(* Properties *)

\* No event is sent twice, on whatever nights it was archived and the messages
\* went out, and no event is counted as sent that the receiver has not got, but
\* what was more than a day old at the first message.  Two runs that overlap, a
\* message that was sent and not written down, and a memory that could not be
\* read are what breaks it.
EventsAreToldOnce ==
    /\ mishaps = {} => \A e \in Events : told[e] <= 1
    /\ "forgotten" \notin mishaps => \A e \in sent : told[e] >= 1 \/ e \in skipped

=============================================================================
