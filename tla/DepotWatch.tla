----------------------------- MODULE DepotWatch ------------------------------
(***************************************************************************)
(* The depot's night watch (src/src/depot-watch-service.ts): after the     *)
(* night's watchlist pass the signals that stand are compared with those   *)
(* announced before, and what is new goes to the webhook, in one message.  *)
(* A signal is a pair of a stock and one of its three kinds.  Nights with  *)
(* the watch switched off, or without a depot, are nights without a look.  *)
(***************************************************************************)
EXTENDS Integers

CONSTANTS Signals,
          Watchers,    \* the runs that may watch side by side
          MaxFaults    \* bound: statements that fail, refusals and deaths

VARIABLES standing,    \* the signals of the latest depot view
          remembered,  \* depot.watch.<source>.announced
          watch,       \* where each watchDepot stands, and what it has read
          alarms,      \* history: how often a signal was told since it appeared
          heard,       \* history: the signals that were ever told
          mishaps,     \* history: what has gone wrong so far
          faults

vars == <<standing, remembered, watch, alarms, heard, mishaps, faults>>

Off == [pc |-> "idle", now |-> {}, before |-> {}]

Init == /\ standing = {}
        /\ remembered = {}
        /\ watch = [w \in Watchers |-> Off]
        /\ alarms = [x \in Signals |-> 0]
        /\ heard = {}
        /\ mishaps = {}
        /\ faults = 0

\* newSignals: what tonight's signals hold that the last announcement did not.
newSignals(now, before) == now \ before

\* Behind the comparison: a message, or only the new state.
Compare(w, before) ==
    watch' = [watch EXCEPT ![w].before = before,
                           ![w].pc = IF newSignals(watch[w].now, before) = {} THEN "write" ELSE "message"]

Leave(w) == watch' = [watch EXCEPT ![w] = Off]

Fault(what) == /\ faults < MaxFaults
               /\ faults' = faults + 1
               /\ mishaps' = mishaps \union {what}

-----------------------------------------------------------------------------

\* readDepot: the signals that stand tonight, whatever they are.
ReadView(w) ==
    /\ watch[w].pc = "idle"
    /\ \E now \in SUBSET Signals :
          /\ standing' = now
          /\ watch' = [watch EXCEPT ![w] = [pc |-> "before", now |-> now, before |-> {}]]
          /\ alarms' = [x \in Signals |-> IF x \in now THEN alarms[x] ELSE 0]
    /\ mishaps' = IF \E u \in Watchers \ {w} : watch[u].pc # "idle"
                  THEN mishaps \union {"raced"} ELSE mishaps
    /\ UNCHANGED <<remembered, heard, faults>>

ReadBefore(w) ==
    /\ watch[w].pc = "before"
    /\ Compare(w, remembered)
    /\ UNCHANGED <<standing, remembered, alarms, heard, mishaps, faults>>

\* readStateJson answers null to a read that fails, as to a key that is not there.
ReadNothing(w) ==
    /\ watch[w].pc = "before"
    /\ Fault("forgotten")
    /\ Compare(w, {})
    /\ UNCHANGED <<standing, remembered, alarms, heard>>

Deliver(w) ==
    /\ watch[w].pc = "message"
    /\ LET fresh == newSignals(watch[w].now, watch[w].before)
       IN /\ alarms' = [x \in Signals |-> IF x \in fresh /\ alarms[x] < 2 THEN alarms[x] + 1 ELSE alarms[x]]
          /\ heard' = heard \union fresh
    /\ watch' = [watch EXCEPT ![w].pc = "write"]
    /\ UNCHANGED <<standing, remembered, mishaps, faults>>

\* Mutated: tonight's signals are remembered, sent or not.
RefusedAndRemembered(w) ==
    /\ watch[w].pc = "message"
    /\ Fault("refused")
    /\ remembered' = watch[w].now
    /\ Leave(w)
    /\ UNCHANGED <<standing, alarms, heard>>

\* "Remembered only once it went out: a refused message is tried again tomorrow."
Refused(w) ==
    /\ watch[w].pc = "message"
    /\ Fault("refused")
    /\ Leave(w)
    /\ UNCHANGED <<standing, remembered, alarms, heard>>

\* All of tonight's signals are remembered, and only they: what cleared is forgotten.
Write(w) ==
    /\ watch[w].pc = "write"
    /\ remembered' = watch[w].now
    /\ Leave(w)
    /\ UNCHANGED <<standing, alarms, heard, mishaps, faults>>

\* The write fails, or the process dies before it.
LoseWrite(w) ==
    /\ watch[w].pc = "write"
    /\ Fault("unwritten")
    /\ Leave(w)
    /\ UNCHANGED <<standing, remembered, alarms, heard>>

Look(w) == ReadView(w) \/ ReadBefore(w) \/ Deliver(w) \/ Write(w)

Next == \E w \in Watchers : Look(w) \/ ReadNothing(w) \/ Refused(w) \/ LoseWrite(w)

Spec == Init /\ [][Next]_vars

-----------------------------------------------------------------------------
(* Properties *)

\* "A signal is announced the night it appears, not every night it lasts"
\* (depot-watch.ts:24): not twice while it stands; behind a look that came to
\* its end every signal that stands has been told since it appeared; and
\* whatever refuses, fails or dies, none is kept quiet that the receiver never
\* heard of.  What breaks the first are looks that overlap, a message that was
\* sent and not written down, and a memory that could not be read; a refused
\* message breaks only the second.
SignalsAreToldOnce ==
    /\ mishaps \subseteq {"refused"} => \A x \in Signals : alarms[x] <= 1
    /\ (mishaps = {} /\ \A w \in Watchers : watch[w].pc = "idle") => \A x \in standing : alarms[x] = 1
    /\ remembered \subseteq heard

\* "A signal that clears is forgotten, so it is news again if it returns"
\* (depot-watch.ts:25).
ReturnIsNews ==
    (mishaps \subseteq {"refused"} /\ \A w \in Watchers : watch[w].pc = "idle") =>
        \A x \in standing \cap remembered : alarms[x] = 1

=============================================================================
