----------------------------- MODULE RateWindow -----------------------------
(***************************************************************************)
(* At most Limit calls in any Window milliseconds, by waiting: the class   *)
(* RateWindow of src/src/utils/rate-window.ts, in front of Finnhub, the    *)
(* SEC and Yahoo.                                                          *)
(*                                                                         *)
(* take() chains a turn behind the one before it.  A turn is a loop: drop  *)
(* what has left the window, and either count the call and end, or sleep   *)
(* and look again.  Everything between two awaits of the loop is one       *)
(* action.  A timer may fire late, and up to Early milliseconds before     *)
(* the clock of Date.now agrees; the clock itself does not jump.           *)
(*                                                                         *)
(* What the clients of such services share besides, the rates of the       *)
(* market, is MarketRates, and moves on its own: it is no part of Spec.    *)
(***************************************************************************)
EXTENDS Integers, Sequences, FiniteSets

CONSTANTS
  Takes,       \* how often take() is called: the calls are numbered as they come
  Limit,       \* the constructor's limit
  Window,      \* the constructor's windowMs
  Early,       \* how much too early setTimeout may fire
  MaxLate,     \* bound: how late a timer may fire
  MaxClock,    \* bound: the clock goes on beyond it only for a sleeper
  MaxResets    \* bound: calls of reset()

ASSUME LimitAssumption  == Limit \in Nat \ {0}
ASSUME WindowAssumption == Window \in Nat \ {0}
ASSUME BoundsAssumption ==
  /\ Takes \in Nat /\ Early \in Nat /\ MaxLate \in Nat
  /\ MaxClock \in Nat /\ MaxResets \in Nat

VARIABLES
  now,         \* what Date.now says
  sent,        \* RateWindow.sent: when the calls in the window were counted
  taken,       \* how many calls of take() there have been
  queue,       \* RateWindow.queue: the turn at the end of the chain, 0 for none
  before,      \* the turn whose end each turn waits for
  pc,          \* where each turn is
  wake,        \* when the timer of a sleeping turn is due
  made,        \* history: when the calls since the last reset were let through
  resets       \* how many calls of reset() there have been

vars == <<now, sent, taken, queue, before, pc, wake, made, resets>>

Calls == 1 .. Takes

Init ==
  /\ now = 0
  /\ sent = <<>>
  /\ taken = 0
  /\ queue = 0
  /\ before = [c \in Calls |-> 0]
  /\ pc = [c \in Calls |-> "idle"]
  /\ wake = [c \in Calls |-> 0]
  /\ made = <<>>
  /\ resets = 0

-----------------------------------------------------------------------------

(* Mutated: the chain's end is moved first, and the turn waits for it. *)
TakeBehindItself(c) ==
  /\ c = taken + 1
  /\ taken' = c
  /\ pc' = [pc EXCEPT ![c] = "queued"]
  /\ before' = [before EXCEPT ![c] = c]
  /\ queue' = c
  /\ UNCHANGED <<now, sent, wake, made, resets>>

(* take(): the turn goes behind the last one, and becomes the last one. *)
Take(c) ==
  /\ c = taken + 1
  /\ taken' = c
  /\ pc' = [pc EXCEPT ![c] = "queued"]
  /\ before' = [before EXCEPT ![c] = queue]
  /\ queue' = c
  /\ UNCHANGED <<now, sent, wake, made, resets>>

(* The turn runs: the one before it has ended, or its own timer fired. *)
Looks(c) ==
  \/ pc[c] = "queued" /\ (before[c] # 0 => pc[before[c]] = "through")
  \/ pc[c] = "asleep" /\ now + Early >= wake[c]

(* Mutated: a call leaves the window a millisecond too soon. *)
AgedOutOffByOne(t) == now - t >= Window - 1

AgedOut(t) == now - t >= Window

(* The first k entries of sent are what the while loop shifts. *)
Shifts(k) ==
  /\ \A i \in 1 .. k : AgedOut(sent[i])
  /\ k < Len(sent) => ~AgedOut(sent[k + 1])

(* There is room: the call is counted and take() resolves. *)
Go(c) ==
  /\ Looks(c)
  /\ \E k \in 0 .. Len(sent) :
       /\ Shifts(k)
       /\ Len(sent) - k < Limit
       /\ sent' = Append(SubSeq(sent, k + 1, Len(sent)), now)
  /\ made' = Append(made, now)
  /\ pc' = [pc EXCEPT ![c] = "through"]
  /\ UNCHANGED <<now, taken, queue, before, wake, resets>>

(* There is none: the turn sleeps until the oldest call leaves the window. *)
Sleep(c) ==
  /\ Looks(c)
  /\ \E k \in 0 .. Len(sent) :
       /\ Shifts(k)
       /\ Len(sent) - k >= Limit
       /\ sent' = SubSeq(sent, k + 1, Len(sent))
       /\ wake' = [wake EXCEPT ![c] = sent[k + 1] + Window]
  /\ pc' = [pc EXCEPT ![c] = "asleep"]
  /\ UNCHANGED <<now, taken, queue, before, made, resets>>

(* reset(): the calls so far are forgotten; who sleeps goes on sleeping. *)
Reset ==
  /\ resets < MaxResets
  /\ resets' = resets + 1
  /\ sent' = <<>>
  /\ made' = <<>>
  /\ UNCHANGED <<now, taken, queue, before, pc, wake>>

Tick ==
  /\ now < MaxClock \/ \E c \in Calls : pc[c] = "asleep"
  /\ \A c \in Calls : pc[c] = "asleep" => now < wake[c] + MaxLate
  /\ now' = now + 1
  /\ UNCHANGED <<sent, taken, queue, before, pc, wake, made, resets>>

Next ==
  \/ \E c \in Calls : Take(c)
  \/ \E c \in Calls : Go(c)
  \/ \E c \in Calls : Sleep(c)
  \/ Reset
  \/ Tick

Spec == Init /\ [][Next]_vars

(* Microtasks and due timers are run, and time passes. *)
Fairness ==
  /\ WF_vars(Tick)
  /\ \A c \in Calls : WF_vars(Go(c) \/ Sleep(c))

FairSpec == Spec /\ Fairness

-----------------------------------------------------------------------------

TypeOK ==
  /\ now \in Nat
  /\ sent \in Seq(Nat)
  /\ taken \in 0 .. Takes
  /\ queue \in 0 .. taken
  /\ before \in [Calls -> 0 .. taken]
  /\ pc \in [Calls -> {"idle", "queued", "asleep", "through"}]
  /\ wake \in [Calls -> Nat]
  /\ made \in Seq(Nat)
  /\ resets \in 0 .. MaxResets
  /\ Len(sent) <= Limit

(* Whatever the order of takes, sleeps, early and late timers: from any    *)
(* call to the Limit-th after it a whole window passes, so no window holds *)
(* more than Limit of them.  This is the promise of the class's comment    *)
(* (lines 1-2).                                                            *)
AtMostLimitPerWindow ==
  \A i \in 1 .. Len(made) - Limit : made[i + Limit] - made[i] >= Window

(* "Waiters are served in the order they arrived" (lines 6-7), although a  *)
(* later turn may look at the window while an earlier one sleeps unless    *)
(* the chain of promises keeps it back.                                    *)
ServedInOrder ==
  \A b, c \in Calls : b < c /\ pc[c] = "through" => pc[b] = "through"

(* Nobody sleeps past the moment there is room: a sleeper's timer is due   *)
(* when the oldest call in the full window leaves it.  After a reset the   *)
(* window is empty and its one sleeper waits out the time it had set.      *)
SleepIsNeeded ==
  \A c \in Calls : pc[c] = "asleep" =>
    \/ sent = <<>>
    \/ Len(sent) = Limit /\ wake[c] = sent[1] + Window

(* A call that asks is let through in the end: no turn is left asleep, and *)
(* none waits for a turn that never ends.                                  *)
EveryCallGetsThrough ==
  \A c \in Calls : pc[c] = "queued" ~> pc[c] = "through"

-----------------------------------------------------------------------------
(* The rates of the market. *)

CONSTANTS Procs, Retry, Ttl, ErpTtl, Midnight, MaxTime, MaxRestarts

ASSUME RatesAssumption ==
  /\ {Retry, Ttl, ErpTtl, Midnight} \subseteq Nat \ {0} /\ MaxTime \in Nat
  /\ Retry <= Ttl

VARIABLES clock, recorded, ratesCache, lastObserved, erpCache, seeded, ratesInFlight, refresh, restarts

Market == INSTANCE MarketRates WITH now <- clock

(* MarketRates: what is recorded was read, and a constant prices nothing   *)
(* that was known.                                                         *)
RatesAreReadings == Market!RatesAreReadings

=============================================================================
