----------------------------- MODULE MarketRates -----------------------------
(***************************************************************************)
(* The rates the models discount with (src/src/data/fred.ts,               *)
(* src/src/data/damodaran.ts): one reading a process shares for an hour,   *)
(* what it falls back to where a series fails, and what a refresh records  *)
(* of it as the market's number for the day.                               *)
(*                                                                         *)
(* A rate is the moment it was read at, so that a later one is larger and  *)
(* the constant of the code is less than all of them.  The FRED series are *)
(* one.  A fetch is over within a step of the clock (its timeout is eight  *)
(* seconds), and a refresh records what it was given within the next.      *)
(***************************************************************************)
EXTENDS Integers, FiniteSets, FiniteSetsExt

CONSTANTS Procs,        \* the server and the workers
          Retry,        \* RETRY_AFTER_MS
          Ttl,          \* RATES_TTL_MS
          ErpTtl,       \* ERP_TTL_MS
          Midnight,     \* the length of a day
          MaxTime,      \* bound: the clock
          MaxRestarts   \* bound: restarts of the processes

VARIABLES now,
          recorded,     \* macro_observations, by day
          ratesCache,
          lastObserved,
          erpCache,
          seeded,       \* what the store knew when it was asked, or Unasked
          ratesInFlight,
          refresh,      \* the refresh at work in each process: what it will record
          restarts

vars == <<now, recorded, ratesCache, lastObserved, erpCache, seeded, ratesInFlight, refresh, restarts>>

FRED == "fred"
ERP == "erp"
Rates == {FRED, ERP}

Missing == -2           \* not read, not recorded
Constant == -1          \* FALLBACK_RATES

Unread == [r \in Rates |-> Missing]
Nothing == [at |-> Missing, complete |-> FALSE, rates |-> Unread, observed |-> Unread]
Grounded == "no"
Seeding == "seeding"
Asking == "asking"
Unasked == {"unasked"}
Idle == [held |-> FALSE, age |-> 0, observed |-> Unread]

Day(time) == time \div Midnight

Init == /\ now = 0
        /\ recorded = [d \in 0 .. Day(MaxTime) |-> Unread]
        /\ ratesCache = [p \in Procs |-> Nothing]
        /\ lastObserved = [p \in Procs |-> Unread]
        /\ erpCache = [p \in Procs |-> Missing]
        /\ seeded = [p \in Procs |-> Unasked]
        /\ ratesInFlight = [p \in Procs |-> Grounded]
        /\ refresh = [p \in Procs |-> Idle]
        /\ restarts = 0

-----------------------------------------------------------------------------
(* getMarketRates *)

\* A complete reading is kept for the hour, an incomplete one for minutes.
Kept(p) == /\ ratesCache[p] # Nothing
           /\ now - ratesCache[p].at < IF ratesCache[p].complete THEN Ttl ELSE Retry

ErpKept(p) == erpCache[p] # Missing /\ now - erpCache[p] < ErpTtl

\* One round of requests, whoever asks meanwhile.
Fetch(p) ==
    /\ ~Kept(p) /\ ratesInFlight[p] = Grounded
    /\ ratesInFlight' = [ratesInFlight EXCEPT ![p] = IF seeded[p] = Unasked THEN Seeding ELSE Asking]
    /\ UNCHANGED <<now, recorded, ratesCache, lastObserved, erpCache, seeded, refresh, restarts>>

\* The newest recorded reading.
latestMacro(r) ==
    LET days == {d \in DOMAIN recorded : recorded[d][r] # Missing}
    IN IF days = {} THEN Missing ELSE recorded[Max(days)][r]

\* What is known wins over what is told.
Merge(known, told) == [r \in Rates |-> IF known[r] # Missing THEN known[r] ELSE told[r]]

\* Once a process; a store that cannot be reached is not asked again.
seedFromStore(p) ==
    /\ ratesInFlight[p] = Seeding
    /\ ratesInFlight' = [ratesInFlight EXCEPT ![p] = Asking]
    /\ \/ /\ lastObserved' = [lastObserved EXCEPT ![p] = Merge(@, [r \in Rates |-> latestMacro(r)])]
          /\ seeded' = [seeded EXCEPT ![p] = {r \in Rates : latestMacro(r) # Missing}]
       \/ /\ seeded' = [seeded EXCEPT ![p] = {}]
          /\ UNCHANGED lastObserved
    /\ UNCHANGED <<now, recorded, ratesCache, erpCache, refresh, restarts>>

\* Mutated: a failed series is observed as what it falls back to.
observedAsPriced(observed, rates) == rates

\* What counts as read: the live answers alone.
observedOf(observed, rates) == observed

\* The series answer or fail, nobody sees one before all have.  What was read
\* wins over what is remembered, and that over the constants.  The premium has a
\* memo of its own, and only one that was read is kept.
Settle(p) ==
    /\ ratesInFlight[p] = Asking
    /\ \E fred \in {now, Missing}, erp \in IF ErpKept(p) THEN {erpCache[p]} ELSE {now, Missing} :
         LET observed == [r \in Rates |-> IF r = FRED THEN fred ELSE erp]
             last == Merge(observed, lastObserved[p])
             rates == Merge(last, [r \in Rates |-> Constant])
         IN /\ erpCache' = IF erp = Missing THEN erpCache ELSE [erpCache EXCEPT ![p] = erp]
            /\ lastObserved' = [lastObserved EXCEPT ![p] = last]
            /\ ratesCache' = [ratesCache EXCEPT ![p] =
                  [at |-> now, complete |-> \A r \in Rates : observed[r] # Missing,
                   rates |-> rates, observed |-> observedOf(observed, rates)]]
    /\ ratesInFlight' = [ratesInFlight EXCEPT ![p] = Grounded]
    /\ UNCHANGED <<now, recorded, seeded, refresh, restarts>>

-----------------------------------------------------------------------------
(* refreshStockData and recordRunData *)

\* A refresh is given the reading.
Take(p) == /\ Kept(p) /\ ~refresh[p].held
           /\ refresh' = [refresh EXCEPT ![p] = [held |-> TRUE, age |-> 0, observed |-> ratesCache[p].observed]]
           /\ UNCHANGED <<now, recorded, ratesCache, lastObserved, erpCache, seeded, ratesInFlight, restarts>>

\* recordMacro, under the day: the second stock of a night overwrites the first.
Record(p) ==
    /\ refresh[p].held
    /\ recorded' = [recorded EXCEPT ![Day(now)] = Merge(refresh[p].observed, @)]
    /\ refresh' = [refresh EXCEPT ![p] = Idle]
    /\ UNCHANGED <<now, ratesCache, lastObserved, erpCache, seeded, ratesInFlight, restarts>>

\* A refresh may fail before it records anything.
GiveUp(p) == /\ refresh[p].held
             /\ refresh' = [refresh EXCEPT ![p] = Idle]
             /\ UNCHANGED <<now, recorded, ratesCache, lastObserved, erpCache, seeded, ratesInFlight, restarts>>

Restart(p) ==
    /\ restarts < MaxRestarts
    /\ restarts' = restarts + 1
    /\ ratesCache' = [ratesCache EXCEPT ![p] = Nothing]
    /\ lastObserved' = [lastObserved EXCEPT ![p] = Unread]
    /\ erpCache' = [erpCache EXCEPT ![p] = Missing]
    /\ seeded' = [seeded EXCEPT ![p] = Unasked]
    /\ ratesInFlight' = [ratesInFlight EXCEPT ![p] = Grounded]
    /\ refresh' = [refresh EXCEPT ![p] = Idle]
    /\ UNCHANGED <<now, recorded>>

Tick == /\ now < MaxTime
        /\ \A p \in Procs : ratesInFlight[p] = Grounded /\ refresh[p].age = 0
        /\ now' = now + 1
        /\ refresh' = [p \in Procs |-> IF refresh[p].held THEN [refresh[p] EXCEPT !.age = 1] ELSE refresh[p]]
        /\ UNCHANGED <<recorded, ratesCache, lastObserved, erpCache, seeded, ratesInFlight, restarts>>

Next == \/ \E p \in Procs : \/ Fetch(p) \/ seedFromStore(p) \/ Settle(p)
                            \/ Take(p) \/ Record(p) \/ GiveUp(p) \/ Restart(p)
        \/ Tick

Spec == Init /\ [][Next]_vars

-----------------------------------------------------------------------------
(* Properties *)

\* How long before the end of a refresh a rate can have been read: while the
\* reading was kept, and the premium in it while the premium was.
Reach(r) == Ttl + IF r = ERP THEN ErpTtl - 1 ELSE 0

\* "Only what the reading actually read is recorded" (store.ts:1537): what stands
\* under a day was read on it, or shortly before by the process that recorded it.
\* Neither a constant nor a recorded rate comes back as a new day's.
RecordedRatesWereRead ==
    \A d \in DOMAIN recorded, r \in Rates :
        recorded[d][r] # Missing =>
            /\ recorded[d][r] >= 0
            /\ d * Midnight - Reach(r) <= recorded[d][r] /\ recorded[d][r] < (d + 1) * Midnight

\* The constants price nothing where the store knew better when the process
\* first asked, and no rate the process has read is forgotten.
ConstantsAreTheLastResort ==
    \A p \in Procs, r \in Rates :
        ratesCache[p] # Nothing =>
            /\ r \in seeded[p] => ratesCache[p].rates[r] # Constant
            /\ ratesCache[p].rates[r] >= ratesCache[p].observed[r]
            /\ r = ERP => ratesCache[p].rates[r] >= erpCache[p]

\* Together: a rate is a reading, where there ever was one.
RatesAreReadings == RecordedRatesWereRead /\ ConstantsAreTheLastResort

=============================================================================
