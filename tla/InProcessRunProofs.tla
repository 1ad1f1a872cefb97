------------------------- MODULE InProcessRunProofs -------------------------
(***************************************************************************)
(* For any number of triggers, symbols and crashes: the single slot of the *)
(* in-process scheduler is never stale, two runs walk at once only after a *)
(* race for it, a stop is kept, and the rows tell what happened.           *)
(*                                                                         *)
(* Behind it what a walk comes by, each a system of its own: the reference *)
(* universe, and the look for an alert behind each refresh.                *)
(***************************************************************************)
EXTENDS InProcessRun, FiniteSetTheorems, NaturalsInduction, WellFoundedInduction, TLAPS

LEMMA Sizes == WatchlistSize \in Nat /\ ReferenceSize \in Nat /\ MaxCrashes \in Nat
BY SizesAssumption

LEMMA InitIInv == Init => IInv
<1> SUFFICES ASSUME Init PROVE IInv
  OBVIOUS
<1> USE Sizes, NoRunAssumption DEF Init
<1>1. TypeOK
  <2>1. todo \in [Calls -> 0 .. WatchlistSize] /\ refs \in [Calls -> 0 .. ReferenceSize]
    OBVIOUS
  <2>2. crashes \in 0 .. MaxCrashes
    OBVIOUS
  <2>3. QED
    BY <2>1, <2>2 DEF TypeOK, Statuses, Ended
<1>2. SlotNeverStale /\ DownIsIdle /\ OneUnderWay /\ WalkerOwnsSlot
  BY DEF SlotNeverStale, DownIsIdle, OneUnderWay, WalkerOwnsSlot, Walks, Preparing, Walking
<1>3. ResultComesLast /\ BehindTheWatchlist /\ OpenRowsAreWalked
  BY DEF ResultComesLast, EarlyPlaces, BehindTheWatchlist, OpenRowsAreWalked, Preparing, Walking
<1>4. BothTruthful /\ StopsAreRemembered
  BY DEF BothTruthful, Truthful, StopsAreRemembered
<1>5. QED
  BY <1>1, <1>2, <1>3, <1>4 DEF IInv

(* Every await of a call, the stop, the crash and the restart keep IInv. *)
LEMMA NextIInv == IInv /\ [Next]_vars => IInv'
<1> SUFFICES ASSUME IInv, [Next]_vars PROVE IInv'
  OBVIOUS
<1> USE Sizes, NoRunAssumption
    DEF IInv, TypeOK, Preparing, Walking, goto, vars, slot, walk, history
<1>1. ASSUME NEW c \in Calls, Trigger(c) PROVE IInv'
  <2>1. TypeOK'
    BY <1>1 DEF Trigger, Statuses, Ended
  <2>2. SlotNeverStale' /\ DownIsIdle' /\ OneUnderWay' /\ WalkerOwnsSlot'
    <3>1. SlotNeverStale'
      BY <1>1 DEF Trigger, SlotNeverStale, Walks
    <3>2. DownIsIdle'
      BY <1>1 DEF Trigger, DownIsIdle
    <3>3. OneUnderWay'
      <4>1. CASE activeRun # NoRun
        BY <1>1, <4>1 DEF Trigger, OneUnderWay
      <4>2. CASE activeRun = NoRun
        <5>1. ~raced => Walks = {}
          BY <4>2 DEF WalkerOwnsSlot, Walks
        <5>2. QED
          BY <1>1, <4>2, <5>1 DEF Trigger, OneUnderWay, Walks
      <4>3. QED
        BY <4>1, <4>2
    <3>4. WalkerOwnsSlot'
      BY <1>1 DEF Trigger, WalkerOwnsSlot, Walks
    <3>5. QED
      BY <3>1, <3>2, <3>3, <3>4
  <2>3. ResultComesLast' /\ BehindTheWatchlist' /\ OpenRowsAreWalked'
    BY <1>1 DEF Trigger, ResultComesLast, EarlyPlaces, BehindTheWatchlist, OpenRowsAreWalked,
       DownIsIdle
  <2>4. BothTruthful'
    BY <1>1 DEF Trigger, BothTruthful, Truthful, ResultComesLast, EarlyPlaces,
       BehindTheWatchlist, StopsAreRemembered, WalkerOwnsSlot, Walks
  <2>5. StopsAreRemembered'
    BY <1>1 DEF Trigger, StopsAreRemembered, SlotNeverStale, OneUnderWay, WalkerOwnsSlot, Walks
  <2>6. QED
    BY <2>1, <2>2, <2>3, <2>4, <2>5
<1>2. ASSUME NEW c \in Calls, OpenRow(c) PROVE IInv'
  <2>1. TypeOK'
    <3>1. todo' \in [Calls -> 0 .. WatchlistSize] /\ refs' \in [Calls -> 0 .. ReferenceSize]
      BY <1>2 DEF OpenRow
    <3>2. explicit' \in [Calls -> BOOLEAN] /\ runs' \in [Calls -> Statuses \cup {"none"}]
      BY <1>2 DEF OpenRow, Statuses
    <3>3. QED
      BY <1>2, <3>1, <3>2 DEF OpenRow, Ended
  <2>2. SlotNeverStale' /\ DownIsIdle' /\ OneUnderWay' /\ WalkerOwnsSlot'
    BY <1>2 DEF OpenRow, SlotNeverStale, DownIsIdle, OneUnderWay, WalkerOwnsSlot, Walks
  <2>3. ResultComesLast' /\ BehindTheWatchlist' /\ OpenRowsAreWalked'
    BY <1>2 DEF OpenRow, ResultComesLast, EarlyPlaces, BehindTheWatchlist, OpenRowsAreWalked,
       DownIsIdle
  <2>4. BothTruthful'
    BY <1>2 DEF OpenRow, BothTruthful, Truthful, ResultComesLast, EarlyPlaces,
       BehindTheWatchlist, StopsAreRemembered, WalkerOwnsSlot, Walks
  <2>5. StopsAreRemembered'
    BY <1>2 DEF OpenRow, StopsAreRemembered, SlotNeverStale, OneUnderWay, WalkerOwnsSlot, Walks
  <2>6. QED
    BY <2>1, <2>2, <2>3, <2>4, <2>5
<1>3. ASSUME NEW c \in Calls, FailToOpen(c) PROVE IInv'
  <2>1. TypeOK'
    BY <1>3 DEF FailToOpen, Statuses, Ended
  <2>2. SlotNeverStale' /\ DownIsIdle' /\ OneUnderWay' /\ WalkerOwnsSlot'
    BY <1>3 DEF FailToOpen, SlotNeverStale, DownIsIdle, OneUnderWay, WalkerOwnsSlot, Walks
  <2>3. ResultComesLast' /\ BehindTheWatchlist' /\ OpenRowsAreWalked'
    BY <1>3 DEF FailToOpen, ResultComesLast, EarlyPlaces, BehindTheWatchlist, OpenRowsAreWalked,
       DownIsIdle
  <2>4. BothTruthful'
    BY <1>3 DEF FailToOpen, BothTruthful, Truthful, ResultComesLast, EarlyPlaces,
       BehindTheWatchlist, StopsAreRemembered, WalkerOwnsSlot, Walks
  <2>5. StopsAreRemembered'
    BY <1>3 DEF FailToOpen, StopsAreRemembered, SlotNeverStale, OneUnderWay, WalkerOwnsSlot, Walks
  <2>6. QED
    BY <2>1, <2>2, <2>3, <2>4, <2>5
<1>4. ASSUME NEW c \in Calls, Claim(c) PROVE IInv'
  <2>1. TypeOK'
    BY <1>4 DEF Claim, Statuses, Ended
  <2>2. SlotNeverStale' /\ DownIsIdle' /\ OneUnderWay' /\ WalkerOwnsSlot'
    BY <1>4 DEF Claim, SlotNeverStale, DownIsIdle, OneUnderWay, WalkerOwnsSlot, Walks
  <2>3. ResultComesLast' /\ BehindTheWatchlist' /\ OpenRowsAreWalked'
    BY <1>4 DEF Claim, ResultComesLast, EarlyPlaces, BehindTheWatchlist, OpenRowsAreWalked,
       DownIsIdle
  <2>4. BothTruthful'
    BY <1>4 DEF Claim, BothTruthful, Truthful, ResultComesLast, EarlyPlaces,
       BehindTheWatchlist, StopsAreRemembered, WalkerOwnsSlot, Walks
  <2>5. StopsAreRemembered'
    BY <1>4 DEF Claim, StopsAreRemembered, SlotNeverStale, OneUnderWay, WalkerOwnsSlot, Walks
  <2>6. QED
    BY <2>1, <2>2, <2>3, <2>4, <2>5
<1>5. ASSUME NEW c \in Calls, Synced(c) PROVE IInv'
  <2>1. TypeOK'
    BY <1>5 DEF Synced, Statuses, Ended
  <2>2. SlotNeverStale' /\ DownIsIdle' /\ OneUnderWay' /\ WalkerOwnsSlot'
    BY <1>5 DEF Synced, SlotNeverStale, DownIsIdle, OneUnderWay, WalkerOwnsSlot, Walks
  <2>3. ResultComesLast' /\ BehindTheWatchlist' /\ OpenRowsAreWalked'
    BY <1>5 DEF Synced, ResultComesLast, EarlyPlaces, BehindTheWatchlist, OpenRowsAreWalked,
       DownIsIdle
  <2>4. BothTruthful'
    BY <1>5 DEF Synced, BothTruthful, Truthful, ResultComesLast, EarlyPlaces,
       BehindTheWatchlist, StopsAreRemembered, WalkerOwnsSlot, Walks
  <2>5. StopsAreRemembered'
    BY <1>5 DEF Synced, StopsAreRemembered, SlotNeverStale, OneUnderWay, WalkerOwnsSlot, Walks
  <2>6. QED
    BY <2>1, <2>2, <2>3, <2>4, <2>5
<1>6. ASSUME NEW c \in Calls, SeeStop(c) PROVE IInv'
  <2>1. TypeOK'
    BY <1>6 DEF SeeStop, Statuses, Ended
  <2>2. SlotNeverStale' /\ DownIsIdle' /\ OneUnderWay' /\ WalkerOwnsSlot'
    BY <1>6 DEF SeeStop, SlotNeverStale, DownIsIdle, OneUnderWay, WalkerOwnsSlot, Walks
  <2>3. ResultComesLast' /\ BehindTheWatchlist' /\ OpenRowsAreWalked'
    BY <1>6 DEF SeeStop, ResultComesLast, EarlyPlaces, BehindTheWatchlist, OpenRowsAreWalked,
       DownIsIdle
  <2>4. BothTruthful'
    BY <1>6 DEF SeeStop, BothTruthful, Truthful, ResultComesLast, EarlyPlaces,
       BehindTheWatchlist, StopsAreRemembered, WalkerOwnsSlot, Walks
  <2>5. StopsAreRemembered'
    BY <1>6 DEF SeeStop, StopsAreRemembered, SlotNeverStale, OneUnderWay, WalkerOwnsSlot, Walks
  <2>6. QED
    BY <2>1, <2>2, <2>3, <2>4, <2>5
<1>7. ASSUME NEW c \in Calls, StartSymbol(c) PROVE IInv'
  <2>1. TypeOK'
    BY <1>7 DEF StartSymbol, Statuses, Ended
  <2>2. SlotNeverStale' /\ DownIsIdle' /\ OneUnderWay' /\ WalkerOwnsSlot'
    BY <1>7 DEF StartSymbol, SlotNeverStale, DownIsIdle, OneUnderWay, WalkerOwnsSlot, Walks
  <2>3. ResultComesLast' /\ BehindTheWatchlist' /\ OpenRowsAreWalked'
    BY <1>7 DEF StartSymbol, ResultComesLast, EarlyPlaces, BehindTheWatchlist, OpenRowsAreWalked,
       DownIsIdle
  <2>4. BothTruthful'
    BY <1>7 DEF StartSymbol, BothTruthful, Truthful, ResultComesLast, EarlyPlaces,
       BehindTheWatchlist, StopsAreRemembered, WalkerOwnsSlot, Walks
  <2>5. StopsAreRemembered'
    BY <1>7 DEF StartSymbol, StopsAreRemembered, SlotNeverStale, OneUnderWay, WalkerOwnsSlot, Walks
  <2>6. QED
    BY <2>1, <2>2, <2>3, <2>4, <2>5
<1>8. ASSUME NEW c \in Calls, EndSymbol(c) PROVE IInv'
  <2>1. TypeOK'
    BY <1>8 DEF EndSymbol, Statuses, Ended
  <2>2. SlotNeverStale' /\ DownIsIdle' /\ OneUnderWay' /\ WalkerOwnsSlot'
    BY <1>8 DEF EndSymbol, SlotNeverStale, DownIsIdle, OneUnderWay, WalkerOwnsSlot, Walks
  <2>3. ResultComesLast' /\ BehindTheWatchlist' /\ OpenRowsAreWalked'
    BY <1>8 DEF EndSymbol, ResultComesLast, EarlyPlaces, BehindTheWatchlist, OpenRowsAreWalked,
       DownIsIdle
  <2>4. BothTruthful'
    BY <1>8 DEF EndSymbol, BothTruthful, Truthful, ResultComesLast, EarlyPlaces,
       BehindTheWatchlist, StopsAreRemembered, WalkerOwnsSlot, Walks
  <2>5. StopsAreRemembered'
    BY <1>8 DEF EndSymbol, StopsAreRemembered, SlotNeverStale, OneUnderWay, WalkerOwnsSlot, Walks
  <2>6. QED
    BY <2>1, <2>2, <2>3, <2>4, <2>5
<1>9. ASSUME NEW c \in Calls, EndWatchlist(c) PROVE IInv'
  <2>1. TypeOK'
    BY <1>9 DEF EndWatchlist, Statuses, Ended
  <2>2. SlotNeverStale' /\ DownIsIdle' /\ OneUnderWay' /\ WalkerOwnsSlot'
    BY <1>9 DEF EndWatchlist, SlotNeverStale, DownIsIdle, OneUnderWay, WalkerOwnsSlot, Walks
  <2>3. ResultComesLast' /\ BehindTheWatchlist' /\ OpenRowsAreWalked'
    BY <1>9 DEF EndWatchlist, ResultComesLast, EarlyPlaces, BehindTheWatchlist, OpenRowsAreWalked,
       DownIsIdle
  <2>4. BothTruthful'
    BY <1>9 DEF EndWatchlist, BothTruthful, Truthful, ResultComesLast, EarlyPlaces,
       BehindTheWatchlist, StopsAreRemembered, WalkerOwnsSlot, Walks
  <2>5. StopsAreRemembered'
    BY <1>9 DEF EndWatchlist, StopsAreRemembered, SlotNeverStale, OneUnderWay, WalkerOwnsSlot, Walks
  <2>6. QED
    BY <2>1, <2>2, <2>3, <2>4, <2>5
<1>10. ASSUME NEW c \in Calls, EndMessage(c) PROVE IInv'
  <2>1. TypeOK'
    BY <1>10 DEF EndMessage, Statuses, Ended
  <2>2. SlotNeverStale' /\ DownIsIdle' /\ OneUnderWay' /\ WalkerOwnsSlot'
    BY <1>10 DEF EndMessage, SlotNeverStale, DownIsIdle, OneUnderWay, WalkerOwnsSlot, Walks
  <2>3. ResultComesLast' /\ BehindTheWatchlist' /\ OpenRowsAreWalked'
    BY <1>10 DEF EndMessage, ResultComesLast, EarlyPlaces, BehindTheWatchlist, OpenRowsAreWalked,
       DownIsIdle
  <2>4. BothTruthful'
    BY <1>10 DEF EndMessage, BothTruthful, Truthful, ResultComesLast, EarlyPlaces,
       BehindTheWatchlist, StopsAreRemembered, WalkerOwnsSlot, Walks
  <2>5. StopsAreRemembered'
    BY <1>10 DEF EndMessage, StopsAreRemembered, SlotNeverStale, OneUnderWay, WalkerOwnsSlot, Walks
  <2>6. QED
    BY <2>1, <2>2, <2>3, <2>4, <2>5
<1>11. ASSUME NEW c \in Calls, StartReference(c) PROVE IInv'
  <2>1. TypeOK'
    BY <1>11 DEF StartReference, Statuses, Ended
  <2>2. SlotNeverStale' /\ DownIsIdle' /\ OneUnderWay' /\ WalkerOwnsSlot'
    BY <1>11 DEF StartReference, SlotNeverStale, DownIsIdle, OneUnderWay, WalkerOwnsSlot, Walks
  <2>3. ResultComesLast' /\ BehindTheWatchlist' /\ OpenRowsAreWalked'
    BY <1>11 DEF StartReference, ResultComesLast, EarlyPlaces, BehindTheWatchlist, OpenRowsAreWalked,
       DownIsIdle
  <2>4. BothTruthful'
    BY <1>11 DEF StartReference, BothTruthful, Truthful, ResultComesLast, EarlyPlaces,
       BehindTheWatchlist, StopsAreRemembered, WalkerOwnsSlot, Walks
  <2>5. StopsAreRemembered'
    BY <1>11 DEF StartReference, StopsAreRemembered, SlotNeverStale, OneUnderWay, WalkerOwnsSlot, Walks
  <2>6. QED
    BY <2>1, <2>2, <2>3, <2>4, <2>5
<1>12. ASSUME NEW c \in Calls, EndReference(c) PROVE IInv'
  <2>1. TypeOK'
    BY <1>12 DEF EndReference, Statuses, Ended
  <2>2. SlotNeverStale' /\ DownIsIdle' /\ OneUnderWay' /\ WalkerOwnsSlot'
    BY <1>12 DEF EndReference, SlotNeverStale, DownIsIdle, OneUnderWay, WalkerOwnsSlot, Walks
  <2>3. ResultComesLast' /\ BehindTheWatchlist' /\ OpenRowsAreWalked'
    BY <1>12 DEF EndReference, ResultComesLast, EarlyPlaces, BehindTheWatchlist, OpenRowsAreWalked,
       DownIsIdle
  <2>4. BothTruthful'
    BY <1>12 DEF EndReference, BothTruthful, Truthful, ResultComesLast, EarlyPlaces,
       BehindTheWatchlist, StopsAreRemembered, WalkerOwnsSlot, Walks
  <2>5. StopsAreRemembered'
    BY <1>12 DEF EndReference, StopsAreRemembered, SlotNeverStale, OneUnderWay, WalkerOwnsSlot, Walks
  <2>6. QED
    BY <2>1, <2>2, <2>3, <2>4, <2>5
<1>13. ASSUME NEW c \in Calls, EndUniverse(c) PROVE IInv'
  <2>1. TypeOK'
    BY <1>13 DEF EndUniverse, Statuses, Ended
  <2>2. SlotNeverStale' /\ DownIsIdle' /\ OneUnderWay' /\ WalkerOwnsSlot'
    BY <1>13 DEF EndUniverse, SlotNeverStale, DownIsIdle, OneUnderWay, WalkerOwnsSlot, Walks
  <2>3. ResultComesLast' /\ BehindTheWatchlist' /\ OpenRowsAreWalked'
    BY <1>13 DEF EndUniverse, ResultComesLast, EarlyPlaces, BehindTheWatchlist, OpenRowsAreWalked,
       DownIsIdle
  <2>4. BothTruthful'
    BY <1>13 DEF EndUniverse, BothTruthful, Truthful, ResultComesLast, EarlyPlaces,
       BehindTheWatchlist, StopsAreRemembered, WalkerOwnsSlot, Walks
  <2>5. StopsAreRemembered'
    BY <1>13 DEF EndUniverse, StopsAreRemembered, SlotNeverStale, OneUnderWay, WalkerOwnsSlot, Walks
  <2>6. QED
    BY <2>1, <2>2, <2>3, <2>4, <2>5
<1>14. ASSUME NEW c \in Calls, FailToRecord(c) PROVE IInv'
  <2>1. TypeOK'
    BY <1>14 DEF FailToRecord, Statuses, Ended
  <2>2. SlotNeverStale' /\ DownIsIdle' /\ OneUnderWay' /\ WalkerOwnsSlot'
    BY <1>14 DEF FailToRecord, SlotNeverStale, DownIsIdle, OneUnderWay, WalkerOwnsSlot, Walks
  <2>3. ResultComesLast' /\ BehindTheWatchlist' /\ OpenRowsAreWalked'
    BY <1>14 DEF FailToRecord, ResultComesLast, EarlyPlaces, BehindTheWatchlist, OpenRowsAreWalked,
       DownIsIdle
  <2>4. BothTruthful'
    BY <1>14 DEF FailToRecord, BothTruthful, Truthful, ResultComesLast, EarlyPlaces,
       BehindTheWatchlist, StopsAreRemembered, WalkerOwnsSlot, Walks
  <2>5. StopsAreRemembered'
    BY <1>14 DEF FailToRecord, StopsAreRemembered, SlotNeverStale, OneUnderWay, WalkerOwnsSlot, Walks
  <2>6. QED
    BY <2>1, <2>2, <2>3, <2>4, <2>5
<1>15. ASSUME NEW c \in Calls, CloseRow(c) PROVE IInv'
  <2>1. TypeOK'
    BY <1>15 DEF CloseRow, Statuses, Ended
  <2>2. SlotNeverStale' /\ DownIsIdle' /\ OneUnderWay' /\ WalkerOwnsSlot'
    BY <1>15 DEF CloseRow, SlotNeverStale, DownIsIdle, OneUnderWay, WalkerOwnsSlot, Walks
  <2>3. ResultComesLast' /\ BehindTheWatchlist' /\ OpenRowsAreWalked'
    BY <1>15 DEF CloseRow, ResultComesLast, EarlyPlaces, BehindTheWatchlist, OpenRowsAreWalked,
       DownIsIdle
  <2>4. BothTruthful'
    BY <1>15 DEF CloseRow, BothTruthful, Truthful, ResultComesLast, EarlyPlaces,
       BehindTheWatchlist, StopsAreRemembered, WalkerOwnsSlot, Walks
  <2>5. StopsAreRemembered'
    BY <1>15 DEF CloseRow, StopsAreRemembered, SlotNeverStale, OneUnderWay, WalkerOwnsSlot, Walks
  <2>6. QED
    BY <2>1, <2>2, <2>3, <2>4, <2>5
<1>16. ASSUME NEW c \in Calls, Release(c) PROVE IInv'
  <2>1. TypeOK'
    BY <1>16 DEF Release, Statuses, Ended
  <2>2. SlotNeverStale' /\ DownIsIdle' /\ OneUnderWay' /\ WalkerOwnsSlot'
    BY <1>16 DEF Release, SlotNeverStale, DownIsIdle, OneUnderWay, WalkerOwnsSlot, Walks
  <2>3. ResultComesLast' /\ BehindTheWatchlist' /\ OpenRowsAreWalked'
    BY <1>16 DEF Release, ResultComesLast, EarlyPlaces, BehindTheWatchlist, OpenRowsAreWalked,
       DownIsIdle
  <2>4. BothTruthful'
    BY <1>16 DEF Release, BothTruthful, Truthful, ResultComesLast, EarlyPlaces,
       BehindTheWatchlist, StopsAreRemembered, WalkerOwnsSlot, Walks
  <2>5. StopsAreRemembered'
    BY <1>16 DEF Release, StopsAreRemembered, SlotNeverStale, OneUnderWay, WalkerOwnsSlot, Walks
  <2>6. QED
    BY <2>1, <2>2, <2>3, <2>4, <2>5
<1>17. CASE RequestStop
  <2>1. TypeOK'
    BY <1>17 DEF RequestStop, Statuses, Ended
  <2>2. SlotNeverStale' /\ DownIsIdle' /\ OneUnderWay' /\ WalkerOwnsSlot'
    BY <1>17 DEF RequestStop, SlotNeverStale, DownIsIdle, OneUnderWay, WalkerOwnsSlot, Walks
  <2>3. ResultComesLast' /\ BehindTheWatchlist' /\ OpenRowsAreWalked'
    BY <1>17 DEF RequestStop, ResultComesLast, EarlyPlaces, BehindTheWatchlist, OpenRowsAreWalked,
       DownIsIdle
  <2>4. BothTruthful'
    BY <1>17 DEF RequestStop, BothTruthful, Truthful, ResultComesLast, EarlyPlaces,
       BehindTheWatchlist, StopsAreRemembered, WalkerOwnsSlot, Walks
  <2>5. StopsAreRemembered'
    BY <1>17 DEF RequestStop, StopsAreRemembered, SlotNeverStale, OneUnderWay, WalkerOwnsSlot, Walks
  <2>6. QED
    BY <2>1, <2>2, <2>3, <2>4, <2>5
<1>18. CASE Crash
  <2>1. TypeOK'
    <3>1. crashes' \in 0 .. MaxCrashes
      BY <1>18 DEF Crash
    <3>2. pc' \in [Calls -> {"idle"} \cup Preparing \cup Walking \cup Ended]
      BY <1>18 DEF Crash, Ended
    <3>3. QED
      BY <1>18, <3>1, <3>2 DEF Crash
  <2>2. SlotNeverStale' /\ DownIsIdle' /\ OneUnderWay' /\ WalkerOwnsSlot'
    BY <1>18 DEF Crash, SlotNeverStale, DownIsIdle, OneUnderWay, WalkerOwnsSlot, Walks
  <2>3. ResultComesLast' /\ BehindTheWatchlist' /\ OpenRowsAreWalked'
    BY <1>18 DEF Crash, ResultComesLast, EarlyPlaces, BehindTheWatchlist, OpenRowsAreWalked,
       DownIsIdle
  <2>4. BothTruthful'
    BY <1>18 DEF Crash, BothTruthful, Truthful, ResultComesLast, EarlyPlaces,
       BehindTheWatchlist, StopsAreRemembered, WalkerOwnsSlot, Walks
  <2>5. StopsAreRemembered'
    BY <1>18 DEF Crash, StopsAreRemembered, SlotNeverStale, OneUnderWay, WalkerOwnsSlot, Walks
  <2>6. QED
    BY <2>1, <2>2, <2>3, <2>4, <2>5
<1>19. CASE Boot
  <2>1. TypeOK'
    BY <1>19 DEF Boot, Statuses, Ended
  <2>2. SlotNeverStale' /\ DownIsIdle' /\ OneUnderWay' /\ WalkerOwnsSlot'
    BY <1>19 DEF Boot, SlotNeverStale, DownIsIdle, OneUnderWay, WalkerOwnsSlot, Walks
  <2>3. ResultComesLast' /\ BehindTheWatchlist' /\ OpenRowsAreWalked'
    BY <1>19 DEF Boot, ResultComesLast, EarlyPlaces, BehindTheWatchlist, OpenRowsAreWalked,
       DownIsIdle
  <2>4. BothTruthful'
    BY <1>19 DEF Boot, BothTruthful, Truthful, ResultComesLast, EarlyPlaces,
       BehindTheWatchlist, StopsAreRemembered, WalkerOwnsSlot, Walks
  <2>5. StopsAreRemembered'
    BY <1>19 DEF Boot, StopsAreRemembered, SlotNeverStale, OneUnderWay, WalkerOwnsSlot, Walks
  <2>6. QED
    BY <2>1, <2>2, <2>3, <2>4, <2>5
<1>20. CASE UNCHANGED vars
  <2>1. TypeOK'
    BY <1>20 DEF Statuses, Ended
  <2>2. SlotNeverStale' /\ DownIsIdle' /\ OneUnderWay' /\ WalkerOwnsSlot'
    BY <1>20 DEF SlotNeverStale, DownIsIdle, OneUnderWay, WalkerOwnsSlot, Walks
  <2>3. ResultComesLast' /\ BehindTheWatchlist' /\ OpenRowsAreWalked'
    BY <1>20 DEF ResultComesLast, EarlyPlaces, BehindTheWatchlist, OpenRowsAreWalked,
       DownIsIdle
  <2>4. BothTruthful'
    BY <1>20 DEF BothTruthful, Truthful, ResultComesLast, EarlyPlaces,
       BehindTheWatchlist, StopsAreRemembered, WalkerOwnsSlot, Walks
  <2>5. StopsAreRemembered'
    BY <1>20 DEF StopsAreRemembered, SlotNeverStale, OneUnderWay, WalkerOwnsSlot, Walks
  <2>6. QED
    BY <2>1, <2>2, <2>3, <2>4, <2>5
<1>21. QED
  BY <1>1, <1>2, <1>3, <1>4, <1>5, <1>6, <1>7, <1>8, <1>9, <1>10, <1>11, <1>12, <1>13, <1>14, <1>15, <1>16, <1>17, <1>18, <1>19, <1>20 DEF Next, Progress

(* The scheduler's inductive invariant (scheduler.ts, runPipeline). *)
THEOREM RunInvariant == Spec => []IInv
<1>1. QED
  BY InitIInv, NextIInv, PTL DEF Spec

(* activeRun points at a run that is being walked, or at none, so that no
   trigger is refused for a run that is over (scheduler.ts, finally). *)
THEOREM SlotIsNeverStale == Spec => []SlotNeverStale
<1>1. IInv => SlotNeverStale
  BY DEF IInv
<1>2. QED
  BY <1>1, RunInvariant, PTL

(* Two runs walk at once only if one call passed the busy guard while another
   stood between its guard and its claim (scheduler.ts, lines 103 to 130). *)
THEOREM OnlyTheRaceDoubles == Spec => []OneRunUnlessRaced
<1>1. IInv => OneRunUnlessRaced
  <2> SUFFICES ASSUME IInv, ~raced PROVE Cardinality(Walks) <= 1
    BY DEF OneRunUnlessRaced, OneRunAtATime
  <2>1. CASE Walks = {}
    BY <2>1, FS_EmptySet
  <2>2. CASE Walks # {}
    <3>1. PICK c : c \in Walks
      BY <2>2
    <3>2. Walks = {c}
      BY <3>1 DEF IInv, WalkerOwnsSlot
    <3>3. Cardinality({c}) = 1
      BY FS_Singleton
    <3>4. QED
      BY <3>2, <3>3
  <2>3. QED
    BY <2>1, <2>2
<1>2. QED
  BY <1>1, RunInvariant, PTL

(* What a row says of its run is so (scheduler.ts, the status of a run). *)
THEOREM StatusIsTruthful == Spec => []StatusTellsTheTruth
<1>1. IInv => StatusTellsTheTruth
  BY DEF IInv, BothTruthful, Truthful, StatusTellsTheTruth
<1>2. QED
  BY <1>1, RunInvariant, PTL

(* Message and universe wait for the whole watchlist of a full run. *)
THEOREM MessageComesBehind == Spec => []WatchlistFirst
<1>1. IInv => WatchlistFirst
  BY DEF IInv, BehindTheWatchlist, WatchlistFirst
<1>2. QED
  BY <1>1, RunInvariant, PTL

(* A booted process has no open row but those it walks or failed to close
   (scheduler.ts, recoverInterruptedRuns). *)
THEOREM NoOrphanedRow == Spec => []OpenRowsAreWalked
<1>1. IInv => OpenRowsAreWalked
  BY DEF IInv
<1>2. QED
  BY <1>1, RunInvariant, PTL

(* Slot, open rows and closed rows agree with what is walked (scheduler.ts,
   from the claim of the slot to its release). *)
THEOREM BooksAgree == Spec => []RowsTellTheTruth
<1>1. QED
  BY SlotIsNeverStale, StatusIsTruthful, NoOrphanedRow, PTL DEF RowsTellTheTruth

(* A stop that was accepted is seen before the next symbol starts, whatever is
   triggered meanwhile (scheduler.ts, requestStop and the check of the loops). *)
THEOREM AcceptedStopIsKept == Spec => StopIsKept
<1>1. IInv /\ [Next]_vars =>
        [\A c \in asked :
           ~raced => ~(pc[c] \in {"watchlist", "universe"}
                         /\ pc'[c] \in {"symbol", "reference"})]_vars
  <2> SUFFICES ASSUME IInv, [Next]_vars, NEW c \in asked, ~raced,
                      pc[c] \in {"watchlist", "universe"}, pc'[c] \in {"symbol", "reference"}
               PROVE  FALSE
    OBVIOUS
  <2>1. stopRequested /\ c \in Calls
    BY DEF IInv, TypeOK, StopsAreRemembered, Walking
  <2>2. pc \in [Calls -> {"idle"} \cup Preparing \cup Walking \cup Ended] /\ pc'[c] # pc[c]
    BY DEF IInv, TypeOK
  <2>3. ASSUME NEW d \in Calls, Trigger(d) \/ Progress(d) PROVE FALSE
    BY <2>1, <2>2, <2>3
       DEF Progress, goto, Trigger, OpenRow, FailToOpen, Claim, Synced, SeeStop, StartSymbol,
           EndSymbol, EndWatchlist, EndMessage, StartReference, EndReference, EndUniverse,
           FailToRecord, CloseRow, Release
  <2>4. CASE RequestStop \/ Boot \/ UNCHANGED vars
    BY <2>2, <2>4 DEF RequestStop, Boot, vars
  <2>5. CASE Crash
    BY <2>1, <2>2, <2>5 DEF Crash
  <2>6. QED
    BY <2>3, <2>4, <2>5 DEF Next
<1>2. QED
  BY <1>1, RunInvariant, PTL DEF Spec, StopIsKept

-----------------------------------------------------------------------------
(* The universe the walk goes on to behind the watchlist: Universe.        *)

CONSTANTS Symbols, Sources, Suffixed, root, Eligible, Dead, batchSize, Grace, MaxFaults
VARIABLES index, stored, order, batch, lastGood, since, turn, mishaps, faults

Reference == INSTANCE Universe

\* Unless a membership was not read, the stored lists are the last that were fetched; who is
\* listed has not departed, and who is not has departed no longer ago than he was last listed.
GraceInv ==
  /\ stored = [bySource |-> stored.bySource, departed |-> stored.departed]
  /\ stored.departed \in [Symbols -> {-1} \union (0 .. Grace + 1)]
  /\ since \in [Symbols -> 0 .. Grace + 1]
  /\ mishaps = {} =>
       /\ stored.bySource = lastGood
       /\ \A s \in Symbols :
            IF s \in Reference!unionMembers(stored.bySource) THEN stored.departed[s] = -1
            ELSE since[s] <= Grace => stored.departed[s] \in 0 .. since[s]

LEMMA GraceBegins == Grace \in Nat /\ Reference!Init => GraceInv
<1> SUFFICES ASSUME Grace \in Nat, Reference!Init PROVE GraceInv
  OBVIOUS
<1>1. /\ stored = [bySource |-> lastGood, departed |-> [s \in Symbols |-> -1]]
      /\ since = [s \in Symbols |-> Grace + 1]
  BY DEF Reference!Init, Reference!Nothing, Reference!Member
<1>2. ~(Grace + 1 <= Grace) /\ Grace + 1 \in 0 .. Grace + 1
  OBVIOUS
<1>3. QED BY <1>1, <1>2 DEF GraceInv

\* A night that reads what is stored, whatever indices it cannot fetch.
LEMMA NightKeepsGrace ==
  ASSUME Grace \in Nat, GraceInv, NEW down, NEW prev, Reference!Night(down, prev),
         \/ prev = stored /\ mishaps' = mishaps
         \/ prev = Reference!Nothing /\ mishaps' # {}
  PROVE  GraceInv'
<1> DEFINE lists == Reference!kept(prev, down)
           listed == Reference!unionMembers(lists)
           before == Reference!unionMembers(prev.bySource)
<1>1. /\ stored' = [bySource |-> lists,
                    departed |-> [s \in Symbols |->
                        IF s \in listed THEN -1
                        ELSE IF prev.departed[s] # -1 THEN prev.departed[s]
                        ELSE IF s \in before THEN 0 ELSE -1]]
      /\ lastGood' = [k \in Reference!Indices |-> IF k \in down THEN lastGood[k] ELSE index[k]]
      /\ since' = [s \in Symbols |-> IF s \in Reference!unionMembers(lastGood') THEN 0 ELSE since[s]]
  BY DEF Reference!Night, Reference!nextMembership, Reference!Member
<1>2. prev.departed \in [Symbols -> {-1} \union (0 .. Grace + 1)]
  BY DEF GraceInv, Reference!Nothing, Reference!Member
<1>3. since \in [Symbols -> 0 .. Grace + 1]
  BY DEF GraceInv
<1>4. /\ stored'.bySource = lists
      /\ \A s \in Symbols : stored'.departed[s] = IF s \in listed THEN -1
                                                  ELSE IF prev.departed[s] # -1 THEN prev.departed[s]
                                                  ELSE IF s \in before THEN 0 ELSE -1
      /\ stored' = [bySource |-> stored'.bySource, departed |-> stored'.departed]
  BY <1>1
<1>5. /\ stored'.departed \in [Symbols -> {-1} \union (0 .. Grace + 1)]
      /\ since' \in [Symbols -> 0 .. Grace + 1]
  BY <1>1, <1>2, <1>3
<1>6. ASSUME mishaps' = {}
      PROVE  /\ stored'.bySource = lastGood'
             /\ \A s \in Symbols :
                  IF s \in Reference!unionMembers(stored'.bySource) THEN stored'.departed[s] = -1
                  ELSE since'[s] <= Grace => stored'.departed[s] \in 0 .. since'[s]
  <2>1. prev = stored /\ mishaps = {}
    BY <1>6
  <2>2. /\ stored.bySource = lastGood
        /\ \A s \in Symbols :
             IF s \in before THEN stored.departed[s] = -1
             ELSE since[s] <= Grace => stored.departed[s] \in 0 .. since[s]
    BY <2>1 DEF GraceInv
  <2>3. lists = lastGood'
    BY <1>1, <2>1, <2>2 DEF Reference!kept
  <2>4. ASSUME NEW s \in Symbols, s \notin listed, since'[s] <= Grace
        PROVE  stored'.departed[s] \in 0 .. since'[s]
    <3>1. since'[s] = since[s] /\ since[s] \in 0 .. Grace + 1
      BY <1>1, <1>3, <2>3, <2>4
    <3>2. stored'.departed[s] = IF stored.departed[s] # -1 THEN stored.departed[s]
                                ELSE IF s \in before THEN 0 ELSE -1
      BY <1>4, <2>1, <2>4
    <3>3. CASE s \in before
      <4>1. stored'.departed[s] = 0
        BY <2>2, <3>2, <3>3
      <4>2. QED BY <3>1, <4>1
    <3>4. CASE s \notin before
      <4>1. stored.departed[s] \in 0 .. since[s]
        BY <2>2, <2>4, <3>1, <3>4
      <4>2. -1 \notin 0 .. since[s]
        BY <3>1
      <4>3. QED BY <3>1, <3>2, <4>1, <4>2
    <3>5. QED BY <3>3, <3>4
  <2>5. \A s \in Symbols : s \in listed => stored'.departed[s] = -1
    BY <1>4
  <2>6. QED BY <1>4, <2>3, <2>4, <2>5
<1>7. QED BY <1>4, <1>5, <1>6 DEF GraceInv

LEMMA DayKeepsGrace == ASSUME Grace \in Nat, GraceInv, Reference!DayPasses PROVE GraceInv'
<1> DEFINE Older(d) == IF d \in {-1, Grace + 1} THEN d ELSE d + 1
<1>1. /\ stored' = [stored EXCEPT !.departed = [s \in Symbols |-> Older(stored.departed[s])]]
      /\ since' = [s \in Symbols |-> Older(since[s])]
      /\ lastGood' = lastGood /\ mishaps' = mishaps
  BY DEF Reference!DayPasses, Reference!Age, Reference!Member
<1>2. /\ stored = [bySource |-> stored.bySource, departed |-> stored.departed]
      /\ stored.departed \in [Symbols -> {-1} \union (0 .. Grace + 1)]
      /\ since \in [Symbols -> 0 .. Grace + 1]
  BY DEF GraceInv
<1>3. stored' = [bySource |-> stored.bySource, departed |-> [s \in Symbols |-> Older(stored.departed[s])]]
  BY <1>1, <1>2
<1>4. /\ \A d \in {-1} \union (0 .. Grace + 1) : Older(d) \in {-1} \union (0 .. Grace + 1)
      /\ \A d \in 0 .. Grace + 1 : Older(d) \in 0 .. Grace + 1
      /\ \A d, e \in 0 .. Grace + 1 : e <= d => Older(e) <= Older(d)
      /\ \A d \in 0 .. Grace + 1 : Older(d) <= Grace => d <= Grace
  OBVIOUS
<1>5. /\ stored'.bySource = stored.bySource
      /\ \A s \in Symbols : stored'.departed[s] = Older(stored.departed[s]) /\ since'[s] = Older(since[s])
  BY <1>1, <1>3
<1> HIDE DEF Older
<1>6. /\ stored'.departed \in [Symbols -> {-1} \union (0 .. Grace + 1)]
      /\ since' \in [Symbols -> 0 .. Grace + 1]
  <2>1. stored'.departed = [s \in Symbols |-> Older(stored.departed[s])]
    BY <1>3
  <2>2. QED BY <1>1, <1>2, <1>4, <2>1
<1>7. ASSUME mishaps' = {}, NEW s \in Symbols
      PROVE  IF s \in Reference!unionMembers(stored'.bySource) THEN stored'.departed[s] = -1
             ELSE since'[s] <= Grace => stored'.departed[s] \in 0 .. since'[s]
  <2>1. IF s \in Reference!unionMembers(stored.bySource) THEN stored.departed[s] = -1
        ELSE since[s] <= Grace => stored.departed[s] \in 0 .. since[s]
    BY <1>1, <1>7 DEF GraceInv
  <2>2. CASE s \in Reference!unionMembers(stored.bySource)
    BY <1>5, <2>1, <2>2 DEF Older
  <2>3. CASE s \notin Reference!unionMembers(stored.bySource)
    <3>1. SUFFICES ASSUME since'[s] <= Grace PROVE stored'.departed[s] \in 0 .. since'[s]
      BY <1>5, <2>3
    <3>2. since[s] \in 0 .. Grace + 1 /\ since[s] <= Grace
      BY <1>2, <1>4, <1>5, <3>1
    <3>3. stored.departed[s] \in 0 .. since[s]
      BY <2>1, <2>3, <3>2
    <3>4. stored.departed[s] \in 0 .. Grace + 1 /\ stored.departed[s] <= since[s]
      BY <3>2, <3>3
    <3>5. Older(stored.departed[s]) <= Older(since[s]) /\ Older(stored.departed[s]) \in 0 .. Grace + 1
          /\ Older(since[s]) \in 0 .. Grace + 1
      BY <1>4, <3>2, <3>4
    <3>6. QED BY <1>5, <3>5
  <2>4. QED BY <2>2, <2>3
<1>8. QED BY <1>1, <1>3, <1>5, <1>6, <1>7 DEF GraceInv

LEMMA GraceStep == Grace \in Nat /\ GraceInv /\ [Reference!Next]_(Reference!vars) => GraceInv'
<1> SUFFICES ASSUME Grace \in Nat, GraceInv, [Reference!Next]_(Reference!vars) PROVE GraceInv'
  OBVIOUS
<1>1. ASSUME UNCHANGED <<stored, lastGood, since, mishaps>> PROVE GraceInv'
  BY <1>1 DEF GraceInv
<1>2. CASE Reference!GoodNight
  BY <1>2, NightKeepsGrace DEF Reference!GoodNight
<1>3. CASE Reference!NightWithOutage
  BY <1>3, NightKeepsGrace DEF Reference!NightWithOutage
<1>4. CASE Reference!NightUnread
  <2>1. mishaps' # {}
    BY <1>4 DEF Reference!NightUnread
  <2>2. QED BY <1>4, <2>1, NightKeepsGrace DEF Reference!NightUnread
<1>5. CASE Reference!RefreshStep
  BY <1>1, <1>5 DEF Reference!RefreshStep, Reference!Refresh, Reference!RefreshFails
<1>6. CASE Reference!CutShort
  BY <1>1, <1>6 DEF Reference!CutShort
<1>7. CASE Reference!DayPasses
  BY <1>7, DayKeepsGrace
<1>8. CASE \E k \in Reference!Indices : Reference!IndexChanges(k)
  BY <1>1, <1>8 DEF Reference!IndexChanges
<1>9. CASE UNCHANGED Reference!vars
  BY <1>1, <1>9 DEF Reference!vars
<1>10. QED BY <1>2, <1>3, <1>4, <1>5, <1>6, <1>7, <1>8, <1>9 DEF Reference!Next

\* Universe: who leaves the indices is scored for the grace period behind the last night that
\* listed it, and who is listed however long its index cannot be fetched, unless a membership
\* could not be read.
THEOREM LeaversAreScored ==
  ASSUME Grace \in Nat
  PROVE  Reference!Spec => []Reference!LeaversKeepTheirGrace
<1>1. GraceInv => Reference!LeaversKeepTheirGrace
  <2> SUFFICES ASSUME GraceInv, mishaps = {}, NEW s \in Symbols, since[s] <= Grace
               PROVE  s \in Reference!activeMembers(stored)
    BY DEF Reference!LeaversKeepTheirGrace
  <2>1. CASE s \in Reference!unionMembers(stored.bySource)
    BY <2>1 DEF Reference!activeMembers
  <2>2. CASE s \notin Reference!unionMembers(stored.bySource)
    <3>1. stored.departed[s] \in 0 .. since[s] /\ since[s] \in 0 .. Grace + 1
      BY <2>2 DEF GraceInv
    <3>2. stored.departed[s] \in 0 .. Grace
      BY <3>1
    <3>3. QED BY <3>2 DEF Reference!activeMembers
  <2>3. QED BY <2>1, <2>2
<1>2. Reference!Init => GraceInv
  BY GraceBegins
<1>3. GraceInv /\ [Reference!Next]_(Reference!vars) => GraceInv'
  BY GraceStep
<1>4. QED BY <1>1, <1>2, <1>3, PTL DEF Reference!Spec

-----------------------------------------------------------------------------
(* The look behind each refresh of the walk: VerdictAlerts.                *)

CONSTANTS Verdicts, None, Writers, Settle, Window, MaxGap
VARIABLES series, rows, announced, cleared, note, told

Alerts == INSTANCE VerdictAlerts

\* A verdict is still in the window when the look behind it has seen a tick.
WindowIsOpen == None \notin Verdicts /\ Window \in Nat \ {0}

Read == Verdicts \union {None}
Stages == {"idle", "saving", "points", "announced", "change", "send", "set"}
Notes == [pc : Stages, age : {0, 1}, at : Nat, current : Read, previous : Read, settled : BOOLEAN, from : Read]
Older(k) == {j \in Alerts!Points : j > k}

AlertTypes ==
  /\ series \in [0 .. Window -> Read] /\ rows \in [0 .. Window -> Nat]
  /\ announced \in Read /\ told \in Read /\ note \in [Writers -> Notes]

Looks(n) == n.pc \notin {"idle", "saving"}

\* Unless verdicts were recorded under a look or behind a newer one, one looks at a time,
Alone == \A w, u \in Writers : Looks(note[w]) /\ Looks(note[u]) => w = u
\* ... at the newest verdict, its own, and the one before it, as long as that is in the window,
SeesTheNewest(n) ==
  /\ Looks(n) => Alerts!Points # {} /\ Alerts!Newest(Alerts!Points) = n.age
  /\ n.pc \in {"announced", "change", "send", "set"} => n.current = series[Alerts!Newest(Alerts!Points)]
  /\ n.pc \in {"announced", "change"} =>
       /\ n.at = Alerts!Newest(Alerts!Points)
       /\ Older(n.at) # {} => n.previous = series[Alerts!Newest(Older(n.at))]
\* ... and at what was announced; it goes where there is something to do.
HasReason(n) ==
  /\ n.pc \in {"change", "send", "set"} => n.from = announced
  /\ n.pc = "change" => Alerts!Flipped(n)
  /\ n.pc = "send" => Alerts!Announces(n)
  /\ n.pc = "set" => Alerts!First(n) \/ Alerts!Announces(n)
LooksAreOrderly ==
  "crossed" \notin mishaps => Alone /\ \A w \in Writers : SeesTheNewest(note[w]) /\ HasReason(note[w])

\* Unless a message was not written down, the receiver was told what is announced, or
\* what is about to be.
Sent(n) == n.pc = "set" /\ ~Alerts!First(n)
TellsInOrder ==
  mishaps \cap {"crossed", "unwritten"} = {} =>
    /\ \A w \in Writers : Sent(note[w]) => told = note[w].current
    /\ (\A w \in Writers : ~Sent(note[w])) => told = announced

\* Unless a look was missed, every verdict but the one that is looked at has the row it should.
Looking == \E w \in Writers : note[w].pc \in {"points", "announced", "change"}
RowIsRight(k) ==
  Older(k) # {} => rows[k] = (IF series[Alerts!Newest(Older(k))] = series[k] THEN 0 ELSE 1)
RowsAreRight ==
  mishaps \cap {"crossed", "missed", "rescored"} = {} =>
    \A k \in 0 .. Window :
      IF k \in Alerts!Points /\ (Looking => k # Alerts!Newest(Alerts!Points)) THEN RowIsRight(k) ELSE rows[k] = 0

\* Unless a re-score was there, nothing is recorded yet at an instant that is taken, by one.
InstantsAreApart ==
  "rescored" \notin mishaps =>
    \A w \in Writers : note[w].pc = "saving" =>
      /\ series[note[w].age] = None
      /\ \A u \in Writers : note[u].pc = "saving" /\ note[u].age = note[w].age => u = w

AlertsInv == AlertTypes /\ LooksAreOrderly /\ TellsInOrder /\ RowsAreRight /\ InstantsAreApart

LEMMA NewestIs ==
  ASSUME NEW S \in SUBSET Nat, NEW k \in S, \A j \in S : k <= j
  PROVE  Alerts!Newest(S) = k
<1>1. \A x, y \in Nat : x <= y /\ y <= x => x = y
  OBVIOUS
<1>2. \A x \in S : (\A j \in S : x <= j) => x = k
  BY <1>1
<1>3. QED BY <1>2 DEF Alerts!Newest

LEMMA NewestExists ==
  ASSUME NEW S \in SUBSET Nat, S # {}
  PROVE  Alerts!Newest(S) \in S /\ \A j \in S : Alerts!Newest(S) <= j
<1>1. \E x \in S : \A y \in S : ~ (<<y, x>> \in OpToRel(<,Nat))
  BY NatLessThanWellFounded, WFMin
<1>2. \A x, y \in Nat : y < x => <<y, x>> \in OpToRel(<,Nat)
  BY DEF OpToRel
<1>3. \A x, y \in Nat : ~(y < x) => x <= y
  OBVIOUS
<1>4. PICK x \in S : \A y \in S : ~ (<<y, x>> \in OpToRel(<,Nat))
  BY <1>1, Zenon
<1>5. ASSUME NEW y \in S PROVE x <= y
  <2>1. x \in Nat /\ y \in Nat
    OBVIOUS
  <2>2. ~(y < x)
    BY <1>2, <1>4, <2>1, Zenon
  <2>3. QED BY <1>3, <2>1, <2>2, Zenon
<1>6. QED BY <1>5, NewestIs

\* What is a tick older: the newest stays the newest, as long as anything is left.
LEMMA ATickOlder ==
  ASSUME Window \in Nat, NEW S \in SUBSET (0 .. Window), NEW T, T = {k \in 1 .. Window : k - 1 \in S}, T # {}
  PROVE  Alerts!Newest(T) = Alerts!Newest(S) + 1
<1>1. S \in SUBSET Nat /\ T \in SUBSET Nat /\ S # {}
  OBVIOUS
<1>2. Alerts!Newest(S) \in S /\ \A j \in S : Alerts!Newest(S) <= j
  BY <1>1, NewestExists
<1>3. PICK m \in S : m = Alerts!Newest(S) /\ \A j \in S : m <= j
  BY <1>2
<1>4. m + 1 \in T /\ \A j \in T : m + 1 <= j
  <2>1. PICK t \in T : TRUE
    OBVIOUS
  <2>2. t \in 1 .. Window /\ t - 1 \in S /\ m \in 0 .. Window
    BY <2>1
  <2>3. m <= t - 1
    BY <1>3, <2>2
  <2>4. m + 1 \in 1 .. Window /\ (m + 1) - 1 = m
    BY <2>2, <2>3
  <2>5. ASSUME NEW j \in T PROVE m + 1 <= j
    <3>1. j \in 1 .. Window /\ j - 1 \in S
      OBVIOUS
    <3>2. m <= j - 1
      BY <1>3, <3>1
    <3>3. QED BY <2>2, <3>1, <3>2
  <2>6. QED BY <2>4, <2>5
<1>5. Alerts!Newest(T) = m + 1
  BY <1>1, <1>4, NewestIs
<1>6. QED BY <1>3, <1>5

LEMMA AlertsBegin == WindowIsOpen /\ Alerts!Init => AlertsInv
<1> SUFFICES ASSUME WindowIsOpen, Alerts!Init PROVE AlertsInv
  OBVIOUS
<1>1. /\ series = [k \in 0 .. Window |-> None] /\ rows = [k \in 0 .. Window |-> 0]
      /\ announced = None /\ told = None /\ mishaps = {}
      /\ note = [w \in Writers |-> Alerts!NoNote]
  BY DEF Alerts!Init, Alerts!Ages
<1>2. Alerts!NoNote \in Notes /\ Alerts!NoNote.pc = "idle"
  BY DEF Alerts!NoNote, Notes, Stages, Read
<1>3. \A w \in Writers : note[w].pc = "idle"
  BY <1>1, <1>2
<1>4. AlertTypes
  BY <1>1, <1>2 DEF AlertTypes, Read, WindowIsOpen
<1>5. LooksAreOrderly /\ TellsInOrder
  BY <1>1, <1>3 DEF LooksAreOrderly, Alone, Looks, SeesTheNewest, HasReason, TellsInOrder, Sent
<1>6. RowsAreRight /\ InstantsAreApart
  BY <1>1, <1>3 DEF RowsAreRight, InstantsAreApart, Alerts!Points, Alerts!Ages
<1>7. QED BY <1>4, <1>5, <1>6 DEF AlertsInv

\* A look that has nothing left to do before it goes on, and keeps what it goes by.
LEMMA GoesOn ==
  ASSUME note \in [Writers -> Notes], NEW w \in Writers, NEW n \in Notes, NEW p \in Stages, Alerts!Goes(w, n, p)
  PROVE  /\ note' \in [Writers -> Notes] /\ \A u \in Writers \ {w} : note'[u] = note[u]
         /\ note'[w].pc = p
         /\ p # "idle" => /\ note'[w].from = n.from /\ note'[w].current = n.current /\ note'[w].settled = n.settled
                          /\ note'[w].age = n.age
                          /\ p = "change" => note'[w].at = n.at /\ note'[w].previous = n.previous
<1> DEFINE m == IF p = "idle" THEN Alerts!NoNote
                ELSE IF p = "change" THEN [n EXCEPT !.pc = p]
                ELSE [n EXCEPT !.pc = p, !.at = 0, !.previous = None]
<1>1. Alerts!NoNote \in Notes /\ Alerts!NoNote.pc = "idle" /\ None \in Read /\ 0 \in Nat
  BY DEF Alerts!NoNote, Notes, Stages, Read
<1>2. n = [pc |-> n.pc, age |-> n.age, at |-> n.at, current |-> n.current, previous |-> n.previous,
           settled |-> n.settled, from |-> n.from]
  BY DEF Notes
<1>3. m \in Notes /\ m.pc = p
  BY <1>1, <1>2 DEF Notes
<1>4. p # "idle" => /\ m.from = n.from /\ m.current = n.current /\ m.settled = n.settled /\ m.age = n.age
                    /\ p = "change" => m.at = n.at /\ m.previous = n.previous
  BY <1>2
<1>5. note' = [note EXCEPT ![w] = m]
  <2>1. CASE p = "idle"
    BY <2>1 DEF Alerts!Goes
  <2>2. CASE p = "change"
    BY <2>2 DEF Alerts!Goes
  <2>3. CASE p # "idle" /\ p # "change"
    BY <2>3 DEF Alerts!Goes
  <2>4. QED BY <2>1, <2>2, <2>3
<1> HIDE DEF m
<1>6. QED BY <1>3, <1>4, <1>5

\* A step of one look leaves the others where they are: none is under way.
LEMMA OneLookGoesOn ==
  ASSUME LooksAreOrderly, NEW w \in Writers, Looks(note[w]), mishaps \subseteq mishaps',
         \A u \in Writers \ {w} : note'[u] = note[u],
         "crossed" \notin mishaps' => SeesTheNewest(note[w])' /\ HasReason(note[w])'
  PROVE  /\ LooksAreOrderly'
         /\ "crossed" \notin mishaps => \A u \in Writers \ {w} : ~Looks(note[u]) /\ ~Looks(note'[u])
<1>1. ASSUME "crossed" \notin mishaps PROVE \A u \in Writers \ {w} : ~Looks(note[u]) /\ ~Looks(note'[u])
  BY <1>1 DEF LooksAreOrderly, Alone
<1>2. ASSUME "crossed" \notin mishaps' PROVE Alone' /\ \A u \in Writers : (SeesTheNewest(note[u]) /\ HasReason(note[u]))'
  <2>1. \A u \in Writers \ {w} : ~Looks(note'[u])
    BY <1>1, <1>2
  <2>2. Alone'
    BY <2>1 DEF Alone, Looks
  <2>3. \A u \in Writers \ {w} : (SeesTheNewest(note[u]) /\ HasReason(note[u]))'
    BY <2>1 DEF SeesTheNewest, HasReason, Looks
  <2>4. QED BY <1>2, <2>2, <2>3
<1>3. LooksAreOrderly'
  BY <1>2 DEF LooksAreOrderly
<1>4. QED BY <1>1, <1>3

\* Where looks only end, those that are left are as orderly.
LEMMA NoLookGoesOn ==
  ASSUME LooksAreOrderly, series' = series, announced' = announced, mishaps \subseteq mishaps',
         \A u \in Writers : note'[u] = note[u] \/ ~Looks(note'[u])
  PROVE  LooksAreOrderly'
<1> SUFFICES ASSUME "crossed" \notin mishaps'
             PROVE  Alone' /\ \A u \in Writers : (SeesTheNewest(note[u]) /\ HasReason(note[u]))'
  BY DEF LooksAreOrderly
<1>1. Alone /\ \A u \in Writers : SeesTheNewest(note[u]) /\ HasReason(note[u])
  BY DEF LooksAreOrderly
<1>2. Alone'
  BY <1>1 DEF Alone, Looks
<1>3. ASSUME NEW u \in Writers PROVE (SeesTheNewest(note[u]) /\ HasReason(note[u]))'
  <2>1. CASE ~Looks(note'[u])
    BY <2>1 DEF SeesTheNewest, HasReason, Looks
  <2>2. CASE note'[u] = note[u]
    <3>1. Alerts!Points' = Alerts!Points /\ Older(note[u].at)' = Older(note[u].at)
      BY <2>2 DEF Alerts!Points, Older
    <3>2. QED
      BY <1>1, <2>2, <3>1 DEF SeesTheNewest, HasReason, Looks, Alerts!Flipped, Alerts!First, Alerts!Announces
  <2>3. QED BY <2>1, <2>2
<1>4. QED BY <1>2, <1>3

\* Instants stay apart where nothing is recorded and none is taken.
LEMMA ApartStay ==
  ASSUME InstantsAreApart, series' = series, mishaps \subseteq mishaps',
         \A u \in Writers : note'[u].pc = "saving" => note'[u] = note[u]
  PROVE  InstantsAreApart'
BY DEF InstantsAreApart

\* Where nothing is recorded and no look begins or ends, the rows stay right.
LEMMA RowsStay ==
  ASSUME RowsAreRight, series' = series, rows' = rows, mishaps \subseteq mishaps', Looking' = Looking
  PROVE  RowsAreRight'
<1>1. Alerts!Points' = Alerts!Points
  BY DEF Alerts!Points
<1>2. \A k : Older(k)' = Older(k)
  BY <1>1 DEF Older
<1>3. \A k \in 0 .. Window : RowIsRight(k)' <=> RowIsRight(k)
  BY <1>2 DEF RowIsRight
<1>4. SUFFICES ASSUME mishaps' \cap {"crossed", "missed", "rescored"} = {}, NEW k \in 0 .. Window
      PROVE  IF k \in Alerts!Points' /\ (Looking' => k # Alerts!Newest(Alerts!Points'))
               THEN RowIsRight(k)' ELSE rows'[k] = 0
  BY DEF RowsAreRight
<1>5. IF k \in Alerts!Points /\ (Looking => k # Alerts!Newest(Alerts!Points)) THEN RowIsRight(k) ELSE rows[k] = 0
  BY <1>4 DEF RowsAreRight
<1>6. QED BY <1>1, <1>3, <1>5

LEMMA PointsAreAges == Window \in Nat => Alerts!Points \in SUBSET Nat /\ \A k : Older(k) \in SUBSET Nat
BY DEF Alerts!Points, Alerts!Ages, Older

\* A look, or a recording, that ends where it stands.
LEMMA LookEnds ==
  ASSUME WindowIsOpen, AlertsInv, NEW w \in Writers, note[w].pc # "idle", note' = [note EXCEPT ![w] = Alerts!NoNote],
         mishaps \subseteq mishaps', UNCHANGED <<series, rows, announced, told>>,
         note[w].pc \in {"points", "announced", "change"} => mishaps' \cap {"crossed", "missed", "rescored"} # {},
         Sent(note[w]) => "unwritten" \in mishaps'
  PROVE  AlertsInv'
<1>1. AlertTypes /\ LooksAreOrderly /\ TellsInOrder /\ RowsAreRight /\ InstantsAreApart
  BY DEF AlertsInv
<1>2. note \in [Writers -> Notes]
  BY <1>1 DEF AlertTypes
<1>3. /\ note' \in [Writers -> Notes] /\ \A u \in Writers \ {w} : note'[u] = note[u]
      /\ note'[w].pc = "idle"
  <2>1. Alerts!NoNote \in Notes /\ Alerts!NoNote.pc = "idle"
    BY DEF Alerts!NoNote, Notes, Stages, Read
  <2>2. QED BY <1>2, <2>1
<1>4. AlertTypes'
  BY <1>1, <1>3 DEF AlertTypes
<1>5. LooksAreOrderly'
  <2>1. \A u \in Writers : note'[u] = note[u] \/ ~Looks(note'[u])
    BY <1>3 DEF Looks
  <2>2. QED BY <1>1, <2>1, NoLookGoesOn
<1>6. TellsInOrder'
  <2>1. CASE "unwritten" \in mishaps'
    BY <2>1 DEF TellsInOrder
  <2>2. CASE "unwritten" \notin mishaps'
    <3>1. ~Sent(note[w]) /\ ~Sent(note'[w])
      BY <1>3, <2>2 DEF Sent
    <3>2. \A u \in Writers : (Sent(note'[u]) <=> Sent(note[u])) /\ (Sent(note[u]) => note'[u] = note[u])
      BY <1>3, <3>1
    <3>3. QED BY <1>1, <3>2 DEF TellsInOrder, Sent, Alerts!First
  <2>3. QED BY <2>1, <2>2
<1>7. RowsAreRight'
  <2>1. CASE note[w].pc \in {"points", "announced", "change"}
    BY <2>1 DEF RowsAreRight
  <2>2. CASE note[w].pc \notin {"points", "announced", "change"}
    <3>1. Looking' = Looking
      BY <1>3, <2>2 DEF Looking
    <3>2. QED BY <1>1, <3>1, RowsStay
  <2>3. QED BY <2>1, <2>2
<1>8. InstantsAreApart'
  <2>1. \A u \in Writers : note'[u].pc = "saving" => note'[u] = note[u]
    BY <1>3
  <2>2. QED BY <1>1, <2>1, ApartStay
<1>9. QED BY <1>4, <1>5, <1>6, <1>7, <1>8 DEF AlertsInv

LEMMA NothingIsRead ==
  ASSUME WindowIsOpen, AlertsInv, NEW w \in Writers, Alerts!ReadPoints(w), Alerts!Points = {}
  PROVE  AlertsInv'
<1>1. /\ note[w].pc = "points" /\ note' = [note EXCEPT ![w] = Alerts!NoNote]
      /\ UNCHANGED <<series, rows, announced, told, mishaps>>
  BY DEF Alerts!ReadPoints
<1>2. "crossed" \in mishaps
  BY <1>1 DEF AlertsInv, LooksAreOrderly, SeesTheNewest, Looks
<1>3. ~Sent(note[w])
  BY <1>1 DEF Sent
<1>4. QED BY <1>1, <1>2, <1>3, LookEnds

LEMMA PointsAreRead ==
  ASSUME WindowIsOpen, AlertsInv, NEW w \in Writers, Alerts!ReadPoints(w), Alerts!Points # {}
  PROVE  AlertsInv'
<1> DEFINE P == Alerts!Points
           k == Alerts!Newest(P)
<1>1. /\ note[w].pc = "points"
      /\ note' = [note EXCEPT ![w] =
                    [pc |-> "announced", age |-> note[w].age, at |-> k, current |-> series[k],
                     previous |-> Alerts!Previous, settled |-> Alerts!Settled, from |-> None]]
      /\ UNCHANGED <<series, rows, announced, told, mishaps, faults>>
  BY DEF Alerts!ReadPoints
<1>2. AlertTypes /\ LooksAreOrderly /\ TellsInOrder /\ RowsAreRight /\ InstantsAreApart
  BY DEF AlertsInv
<1>3. P' = P /\ Window \in Nat /\ P \in SUBSET Nat /\ P \subseteq 0 .. Window /\ P # {}
  BY <1>1 DEF Alerts!Points, Alerts!Ages, WindowIsOpen
<1> HIDE DEF P
<1>4. k \in P /\ (\A j \in P : k <= j) /\ k \in 0 .. Window
  BY <1>3, NewestExists
<1>5. Older(k) = P \ {k} /\ Older(k) \in SUBSET Nat /\ Older(k) \subseteq 0 .. Window
  <2>1. Older(k) = {j \in P : j > k}
    BY DEF P, Older
  <2>2. \A j \in P : j > k <=> j # k
    BY <1>3, <1>4
  <2>3. QED BY <1>3, <2>1, <2>2
<1>6. Alerts!Previous = IF Older(k) = {} THEN None ELSE series[Alerts!Newest(Older(k))]
  BY <1>5 DEF P, Alerts!Previous
<1>7. Alerts!Previous \in Read
  <2>1. Older(k) # {} => Alerts!Newest(Older(k)) \in 0 .. Window
    BY <1>5, NewestExists
  <2>2. QED BY <1>2, <1>6, <2>1 DEF AlertTypes, Read
<1>8. /\ note' \in [Writers -> Notes] /\ \A u \in Writers \ {w} : note'[u] = note[u]
      /\ note'[w].pc = "announced" /\ note'[w].at = k /\ note'[w].current = series[k]
      /\ note'[w].previous = Alerts!Previous /\ note'[w].age = note[w].age
  <2>1. Alerts!Settled \in BOOLEAN /\ series[k] \in Read /\ None \in Read /\ k \in Nat /\ note[w].age \in {0, 1}
    BY <1>2, <1>4 DEF Alerts!Settled, AlertTypes, Read, Notes
  <2>2. [pc |-> "announced", age |-> note[w].age, at |-> k, current |-> series[k],
         previous |-> Alerts!Previous, settled |-> Alerts!Settled, from |-> None] \in Notes
    BY <1>7, <2>1 DEF Notes, Stages
  <2>3. note \in [Writers -> Notes]
    BY <1>2 DEF AlertTypes
  <2>4. QED BY <1>1, <2>2, <2>3
<1>9. AlertTypes'
  BY <1>1, <1>2, <1>3, <1>8 DEF AlertTypes, P
<1>10. LooksAreOrderly'
  <2>1. Older(k)' = Older(k) /\ k' = k
    BY <1>3 DEF P, Older
  <2>2. ASSUME "crossed" \notin mishaps' PROVE SeesTheNewest(note[w])' /\ HasReason(note[w])'
    <3>1. k = note[w].age
      BY <1>1, <1>2, <2>2 DEF P, LooksAreOrderly, SeesTheNewest, Looks
    <3>2. QED BY <1>1, <1>3, <1>6, <1>8, <2>1, <3>1 DEF P, SeesTheNewest, HasReason
  <2>3. QED BY <1>1, <1>2, <1>8, <2>2, OneLookGoesOn DEF Looks
<1>11. TellsInOrder'
  <2>1. \A u \in Writers : Sent(note'[u]) <=> Sent(note[u])
    BY <1>1, <1>8 DEF Sent
  <2>2. \A u \in Writers : Sent(note[u]) => note'[u] = note[u]
    BY <1>1, <1>8 DEF Sent
  <2>3. QED BY <1>1, <1>2, <2>1, <2>2 DEF TellsInOrder, Sent, Alerts!First
<1>12. Looking' = Looking
  BY <1>1, <1>8 DEF Looking
<1>13. InstantsAreApart'
  BY <1>1, <1>2, <1>8, ApartStay
<1>14. QED BY <1>1, <1>2, <1>9, <1>10, <1>11, <1>12, <1>13, RowsStay DEF AlertsInv

\* A look at the newest verdict is over with the row it should have.
LEMMA LookIsOver ==
  ASSUME WindowIsOpen, RowsAreRight, series' = series, mishaps \subseteq mishaps', Looking,
         \A k \in 0 .. Window : k # Alerts!Newest(Alerts!Points) => rows'[k] = rows[k],
         mishaps' \cap {"crossed", "missed", "rescored"} = {} =>
             Alerts!Points # {} /\ ~Looking' /\ RowIsRight(Alerts!Newest(Alerts!Points))'
  PROVE  RowsAreRight'
<1> DEFINE newest == Alerts!Newest(Alerts!Points)
<1>1. Alerts!Points' = Alerts!Points
  BY DEF Alerts!Points
<1>2. \A k : Older(k)' = Older(k)
  BY <1>1 DEF Older
<1>3. SUFFICES ASSUME mishaps' \cap {"crossed", "missed", "rescored"} = {}, NEW k \in 0 .. Window
      PROVE  IF k \in Alerts!Points' /\ (Looking' => k # Alerts!Newest(Alerts!Points'))
               THEN RowIsRight(k)' ELSE rows'[k] = 0
  BY DEF RowsAreRight
<1>4. IF k \in Alerts!Points /\ k # newest THEN RowIsRight(k) ELSE rows[k] = 0
  BY <1>3 DEF RowsAreRight
<1>5. CASE k = newest
  <2>1. Alerts!Points \in SUBSET Nat
    BY PointsAreAges DEF WindowIsOpen
  <2>2. newest \in Alerts!Points
    BY <1>3, <2>1, NewestExists
  <2>3. QED BY <1>1, <1>3, <1>5, <2>2
<1>6. CASE k # newest
  <2>1. RowIsRight(k) => RowIsRight(k)'
    BY <1>2, <1>6 DEF RowIsRight
  <2>2. QED BY <1>1, <1>3, <1>4, <1>6, <2>1
<1>7. QED BY <1>5, <1>6

LEMMA AnnouncedIsRead ==
  ASSUME WindowIsOpen, AlertsInv, NEW w \in Writers, Alerts!ReadAnnounced(w)
  PROVE  AlertsInv'
<1> DEFINE n == [note[w] EXCEPT !.from = announced]
           p == Alerts!BehindRead(n)
           newest == Alerts!Newest(Alerts!Points)
<1>1. /\ note[w].pc = "announced" /\ Alerts!Goes(w, n, p)
      /\ UNCHANGED <<series, rows, announced, told, faults>> /\ mishaps \subseteq mishaps'
  BY DEF Alerts!ReadAnnounced
<1>2. AlertTypes /\ LooksAreOrderly /\ TellsInOrder /\ RowsAreRight /\ InstantsAreApart
  BY DEF AlertsInv
<1>3. note \in [Writers -> Notes] /\ note[w] \in Notes /\ announced \in Read
  BY <1>2 DEF AlertTypes
<1>4. /\ n \in Notes /\ n.from = announced /\ n.at = note[w].at
      /\ n.current = note[w].current /\ n.previous = note[w].previous /\ n.age = note[w].age
  BY <1>3 DEF Notes
<1>5. /\ p \in {"change", "send", "set", "idle"} /\ (p = "change" <=> Alerts!Flipped(n))
      /\ (p = "send" => Alerts!Announces(n)) /\ (p = "set" => Alerts!First(n))
  BY DEF Alerts!BehindRead, Alerts!BehindChange, Alerts!BehindSend, Alerts!Announces
<1> HIDE DEF n, p
<1>6. /\ note' \in [Writers -> Notes] /\ \A u \in Writers \ {w} : note'[u] = note[u]
      /\ note'[w].pc = p
      /\ p # "idle" => /\ note'[w].from = n.from /\ note'[w].current = n.current /\ note'[w].settled = n.settled
                       /\ note'[w].age = n.age
                       /\ p = "change" => note'[w].at = n.at /\ note'[w].previous = n.previous
  <2>1. p \in Stages
    BY <1>5 DEF Stages
  <2>2. QED BY <1>1, <1>3, <1>4, <2>1, GoesOn
<1>7. Alerts!Points' = Alerts!Points
  BY <1>1 DEF Alerts!Points
<1>8. AlertTypes'
  BY <1>1, <1>2, <1>6, <1>7 DEF AlertTypes
<1>9. "crossed" \notin mishaps => SeesTheNewest(note[w])
  BY <1>2 DEF LooksAreOrderly
<1>10. /\ LooksAreOrderly'
       /\ "crossed" \notin mishaps => \A u \in Writers \ {w} : ~Looks(note[u]) /\ ~Looks(note'[u])
  <2>1. \A k : Older(k)' = Older(k)
    BY <1>7 DEF Older
  <2>2. ASSUME "crossed" \notin mishaps' PROVE SeesTheNewest(note[w])'
    <3>1. /\ Alerts!Points # {} /\ newest = note[w].age
          /\ note[w].current = series[newest] /\ note[w].at = newest
          /\ (Older(note[w].at) # {} => note[w].previous = series[Alerts!Newest(Older(note[w].at))])
      BY <1>1, <1>9, <2>2 DEF SeesTheNewest, Looks
    <3>2. QED BY <1>1, <1>4, <1>5, <1>6, <1>7, <2>1, <3>1 DEF SeesTheNewest, Looks
  <2>3. HasReason(note[w])'
    BY <1>1, <1>4, <1>5, <1>6 DEF HasReason, Alerts!Flipped, Alerts!First, Alerts!Announces
  <2>4. QED BY <1>1, <1>2, <1>6, <2>2, <2>3, OneLookGoesOn DEF Looks
<1>11. TellsInOrder'
  <2>1. ~Sent(note[w]) /\ ~Sent(note'[w])
    BY <1>1, <1>5, <1>6 DEF Sent, Alerts!First
  <2>2. \A u \in Writers : (Sent(note'[u]) <=> Sent(note[u])) /\ (Sent(note[u]) => note'[u] = note[u])
    BY <1>6, <2>1
  <2>3. QED BY <1>1, <1>2, <2>2 DEF TellsInOrder, Sent, Alerts!First
<1>12. RowsAreRight'
  <2>1. CASE p = "change"
    <3>1. Looking' = Looking
      BY <1>1, <1>6, <2>1 DEF Looking
    <3>2. QED BY <1>1, <1>2, <3>1, RowsStay
  <2>2. CASE p # "change"
    <3>1. Looking
      BY <1>1 DEF Looking
    <3>2. ASSUME mishaps' \cap {"crossed", "missed", "rescored"} = {}
          PROVE  Alerts!Points # {} /\ ~Looking' /\ RowIsRight(newest)'
      <4>1. "crossed" \notin mishaps /\ mishaps \cap {"crossed", "missed", "rescored"} = {}
        BY <1>1, <3>2
      <4>2. ~Looking'
        BY <1>5, <1>6, <1>10, <2>2, <4>1 DEF Looking, Looks
      <4>3. /\ Alerts!Points # {} /\ note[w].current = series[newest] /\ note[w].at = newest
            /\ Older(newest) # {} => note[w].previous = series[Alerts!Newest(Older(newest))]
        BY <1>1, <1>9, <4>1 DEF SeesTheNewest, Looks
      <4>4. newest \in Alerts!Points /\ newest \in 0 .. Window /\ rows[newest] = 0
        <5>1. Alerts!Points \in SUBSET Nat
          BY PointsAreAges DEF WindowIsOpen
        <5>2. newest \in Alerts!Points
          BY <4>3, <5>1, NewestExists
        <5>3. newest \in 0 .. Window
          BY <5>2 DEF Alerts!Points, Alerts!Ages
        <5>4. QED BY <1>2, <3>1, <4>1, <5>2, <5>3 DEF RowsAreRight
      <4>5. Older(newest) # {} => series[Alerts!Newest(Older(newest))] = series[newest]
        <5>1. note[w].previous = None \/ note[w].previous = note[w].current
          BY <1>4, <1>5, <2>2 DEF Alerts!Flipped
        <5>2. Older(newest) # {} => series[Alerts!Newest(Older(newest))] # None
          <6>1. Older(newest) # {} => Alerts!Newest(Older(newest)) \in Older(newest)
            BY PointsAreAges, NewestExists DEF WindowIsOpen
          <6>2. QED BY <6>1 DEF Older, Alerts!Points
        <5>3. QED BY <4>3, <5>1, <5>2
      <4>6. Older(newest)' = Older(newest) /\ newest' = newest
        BY <1>7 DEF Older
      <4>7. RowIsRight(newest)'
        BY <1>1, <4>4, <4>5, <4>6 DEF RowIsRight
      <4>8. QED BY <4>2, <4>3, <4>7
    <3>3. QED BY <1>1, <1>2, <3>1, <3>2, LookIsOver DEF AlertsInv
  <2>3. QED BY <2>1, <2>2
<1>13. InstantsAreApart'
  BY <1>1, <1>2, <1>5, <1>6, ApartStay
<1>14. QED BY <1>8, <1>10, <1>11, <1>12, <1>13 DEF AlertsInv

LEMMA ChangeIsRecorded ==
  ASSUME WindowIsOpen, AlertsInv, NEW w \in Writers, Alerts!RecordChange(w)
  PROVE  AlertsInv'
<1> DEFINE p == Alerts!BehindChange(note[w])
           newest == Alerts!Newest(Alerts!Points)
<1>1. /\ note[w].pc = "change" /\ Alerts!Goes(w, note[w], p)
      /\ rows' = [k \in 0 .. Window |-> IF k = note[w].at /\ rows[k] < 2 /\ ~Alerts!Spoilt THEN rows[k] + 1 ELSE rows[k]]
      /\ UNCHANGED <<series, announced, told, mishaps, faults>>
  BY DEF Alerts!RecordChange, Alerts!Ages
<1>2. AlertTypes /\ LooksAreOrderly /\ TellsInOrder /\ RowsAreRight /\ InstantsAreApart
  BY DEF AlertsInv
<1>3. note \in [Writers -> Notes] /\ note[w] \in Notes
  BY <1>2 DEF AlertTypes
<1>4. /\ p \in {"send", "set", "idle"}
      /\ (p = "send" => Alerts!Announces(note[w])) /\ (p = "set" => Alerts!First(note[w]))
  BY DEF Alerts!BehindChange, Alerts!BehindSend, Alerts!Announces
<1> HIDE DEF p
<1>5. /\ note' \in [Writers -> Notes] /\ \A u \in Writers \ {w} : note'[u] = note[u]
      /\ note'[w].pc = p
      /\ p # "idle" => /\ note'[w].from = note[w].from /\ note'[w].current = note[w].current
                       /\ note'[w].settled = note[w].settled /\ note'[w].age = note[w].age
  <2>1. p \in Stages
    BY <1>4 DEF Stages
  <2>2. QED BY <1>1, <1>3, <2>1, GoesOn
<1>6. Alerts!Points' = Alerts!Points
  BY <1>1 DEF Alerts!Points
<1>7. Alerts!Points # {} => newest \in Alerts!Points /\ newest \in 0 .. Window
  <2>1. Alerts!Points \in SUBSET Nat
    BY PointsAreAges DEF WindowIsOpen
  <2>2. Alerts!Points # {} => newest \in Alerts!Points
    BY <2>1, NewestExists
  <2>3. QED BY <2>2 DEF Alerts!Points, Alerts!Ages
<1>8. AlertTypes'
  <2>1. rows' \in [0 .. Window -> Nat]
    BY <1>1, <1>2 DEF AlertTypes
  <2>2. QED BY <1>1, <1>2, <1>5, <1>6, <2>1 DEF AlertTypes
<1>9. "crossed" \notin mishaps => SeesTheNewest(note[w]) /\ HasReason(note[w])
  BY <1>2 DEF LooksAreOrderly
<1>10. /\ LooksAreOrderly'
       /\ "crossed" \notin mishaps => \A u \in Writers \ {w} : ~Looks(note[u]) /\ ~Looks(note'[u])
  <2>1. ASSUME "crossed" \notin mishaps' PROVE SeesTheNewest(note[w])' /\ HasReason(note[w])'
    <3>1. /\ Alerts!Points # {} /\ newest = note[w].age
          /\ note[w].current = series[newest] /\ note[w].from = announced
      BY <1>1, <1>9, <2>1 DEF SeesTheNewest, HasReason, Looks
    <3>2. SeesTheNewest(note[w])'
      BY <1>1, <1>4, <1>5, <1>6, <3>1 DEF SeesTheNewest, Looks
    <3>3. HasReason(note[w])'
      BY <1>1, <1>4, <1>5, <3>1 DEF HasReason, Alerts!First, Alerts!Announces
    <3>4. QED BY <3>2, <3>3
  <2>2. QED BY <1>1, <1>2, <1>5, <2>1, OneLookGoesOn DEF Looks
<1>11. TellsInOrder'
  <2>1. ~Sent(note[w]) /\ ~Sent(note'[w])
    BY <1>1, <1>4, <1>5 DEF Sent, Alerts!First
  <2>2. \A u \in Writers : (Sent(note'[u]) <=> Sent(note[u])) /\ (Sent(note[u]) => note'[u] = note[u])
    BY <1>5, <2>1
  <2>3. QED BY <1>1, <1>2, <2>2 DEF TellsInOrder, Sent, Alerts!First
<1>12. RowsAreRight'
  <2>1. Looking
    BY <1>1 DEF Looking
  <2>2. CASE "crossed" \in mishaps
    BY <1>1, <2>2 DEF RowsAreRight
  <2>3. CASE "crossed" \notin mishaps
    <3>1. /\ Alerts!Points # {} /\ note[w].current = series[newest] /\ note[w].at = newest /\ Alerts!Flipped(note[w])
          /\ Older(newest) # {} => note[w].previous = series[Alerts!Newest(Older(newest))]
      BY <1>1, <1>9, <2>3 DEF SeesTheNewest, HasReason, Looks
    <3>2. \A k \in 0 .. Window : k # newest => rows'[k] = rows[k]
      BY <1>1, <3>1
    <3>3. ASSUME mishaps' \cap {"crossed", "missed", "rescored"} = {}
          PROVE  Alerts!Points # {} /\ ~Looking' /\ RowIsRight(newest)'
      <4>1. ~Looking'
        BY <1>4, <1>5, <1>10, <2>3 DEF Looking, Looks
      <4>2. rows[newest] = 0
        BY <1>1, <1>2, <1>7, <2>1, <3>1, <3>3 DEF RowsAreRight
      <4>3. rows'[newest] = 1
        BY <1>1, <1>7, <3>1, <3>3, <4>2 DEF Alerts!Spoilt
      <4>4. Older(newest) # {} => series[Alerts!Newest(Older(newest))] # series[newest]
        BY <3>1 DEF Alerts!Flipped
      <4>5. Older(newest)' = Older(newest)
        BY <1>6 DEF Older
      <4>6. RowIsRight(newest)'
        BY <1>1, <1>6, <4>3, <4>4, <4>5 DEF RowIsRight
      <4>7. QED BY <3>1, <4>1, <4>6
    <3>4. QED BY <1>1, <1>2, <2>1, <3>1, <3>2, <3>3, LookIsOver
  <2>4. QED BY <2>2, <2>3
<1>13. InstantsAreApart'
  BY <1>1, <1>2, <1>4, <1>5, ApartStay
<1>14. QED BY <1>8, <1>10, <1>11, <1>12, <1>13 DEF AlertsInv

LEMMA MessageIsSent ==
  ASSUME WindowIsOpen, AlertsInv, NEW w \in Writers, Alerts!Send(w)
  PROVE  AlertsInv'
<1> DEFINE p == Alerts!BehindSend(note[w])
<1>1. /\ note[w].pc = "send" /\ Alerts!Goes(w, note[w], p) /\ told' = note[w].current
      /\ UNCHANGED <<series, rows, announced, mishaps, faults>>
  BY DEF Alerts!Send
<1>2. AlertTypes /\ LooksAreOrderly /\ TellsInOrder /\ RowsAreRight /\ InstantsAreApart
  BY DEF AlertsInv
<1>3. note \in [Writers -> Notes] /\ note[w] \in Notes /\ note[w].current \in Read
  BY <1>2 DEF AlertTypes, Notes
<1>4. /\ p \in {"set", "idle"} /\ (p = "set" <=> Alerts!First(note[w]) \/ Alerts!Announces(note[w]))
  BY DEF Alerts!BehindSend
<1> HIDE DEF p
<1>5. /\ note' \in [Writers -> Notes] /\ \A u \in Writers \ {w} : note'[u] = note[u]
      /\ note'[w].pc = p
      /\ p # "idle" => /\ note'[w].from = note[w].from /\ note'[w].current = note[w].current
                       /\ note'[w].settled = note[w].settled /\ note'[w].age = note[w].age
  <2>1. p \in Stages
    BY <1>4 DEF Stages
  <2>2. QED BY <1>1, <1>3, <2>1, GoesOn
<1>6. Alerts!Points' = Alerts!Points
  BY <1>1 DEF Alerts!Points
<1>7. AlertTypes'
  BY <1>1, <1>2, <1>3, <1>5, <1>6 DEF AlertTypes
<1>8. "crossed" \notin mishaps => SeesTheNewest(note[w]) /\ HasReason(note[w])
  BY <1>2 DEF LooksAreOrderly
<1>9. /\ LooksAreOrderly'
      /\ "crossed" \notin mishaps => \A u \in Writers \ {w} : ~Looks(note[u]) /\ ~Looks(note'[u])
  <2>1. ASSUME "crossed" \notin mishaps' PROVE SeesTheNewest(note[w])' /\ HasReason(note[w])'
    <3>1. /\ Alerts!Points # {} /\ Alerts!Newest(Alerts!Points) = note[w].age
          /\ note[w].current = series[Alerts!Newest(Alerts!Points)] /\ note[w].from = announced
      BY <1>1, <1>8, <2>1 DEF SeesTheNewest, HasReason, Looks
    <3>2. SeesTheNewest(note[w])'
      BY <1>1, <1>4, <1>5, <1>6, <3>1 DEF SeesTheNewest, Looks
    <3>3. HasReason(note[w])'
      BY <1>1, <1>4, <1>5, <3>1 DEF HasReason, Alerts!First, Alerts!Announces
    <3>4. QED BY <3>2, <3>3
  <2>2. QED BY <1>1, <1>2, <1>5, <2>1, OneLookGoesOn DEF Looks
<1>10. TellsInOrder'
  <2>1. SUFFICES ASSUME mishaps \cap {"crossed", "unwritten"} = {}
        PROVE  /\ \A u \in Writers : Sent(note'[u]) => told' = note'[u].current
               /\ \E u \in Writers : Sent(note'[u])
    BY <1>1 DEF TellsInOrder, Sent, Alerts!First
  <2>2. p = "set" /\ ~Alerts!First(note[w])
    BY <1>1, <1>4, <1>8, <2>1 DEF HasReason, Alerts!Announces
  <2>3. Sent(note'[w]) /\ note'[w].current = told'
    BY <1>1, <1>5, <2>2 DEF Sent, Alerts!First
  <2>4. \A u \in Writers \ {w} : ~Looks(note'[u])
    BY <1>9, <2>1
  <2>5. \A u \in Writers : Sent(note'[u]) => told' = note'[u].current
    BY <2>3, <2>4 DEF Sent, Looks
  <2>6. QED BY <2>3, <2>5
<1>11. Looking' = Looking
  BY <1>1, <1>4, <1>5 DEF Looking
<1>12. InstantsAreApart'
  BY <1>1, <1>2, <1>4, <1>5, ApartStay
<1>13. QED BY <1>1, <1>2, <1>7, <1>9, <1>10, <1>11, <1>12, RowsStay DEF AlertsInv

LEMMA AnnouncedIsSet ==
  ASSUME WindowIsOpen, AlertsInv, NEW w \in Writers, Alerts!SetAnnounced(w)
  PROVE  AlertsInv'
<1>1. /\ note[w].pc = "set" /\ Alerts!Goes(w, note[w], "idle") /\ announced' = note[w].current
      /\ told' = (IF Alerts!First(note[w]) THEN note[w].current ELSE told)
      /\ UNCHANGED <<series, rows, mishaps, faults>>
  BY DEF Alerts!SetAnnounced
<1>2. AlertTypes /\ LooksAreOrderly /\ TellsInOrder /\ RowsAreRight /\ InstantsAreApart
  BY DEF AlertsInv
<1>3. note \in [Writers -> Notes] /\ note[w] \in Notes /\ note[w].current \in Read
  BY <1>2 DEF AlertTypes, Notes
<1>4. /\ note' \in [Writers -> Notes] /\ \A u \in Writers \ {w} : note'[u] = note[u]
      /\ note'[w].pc = "idle"
  <2>1. "idle" \in Stages
    BY DEF Stages
  <2>2. QED BY <1>1, <1>3, <2>1, GoesOn
<1>5. Alerts!Points' = Alerts!Points
  BY <1>1 DEF Alerts!Points
<1>6. AlertTypes'
  BY <1>1, <1>2, <1>3, <1>4, <1>5 DEF AlertTypes
<1>7. /\ LooksAreOrderly'
      /\ "crossed" \notin mishaps => \A u \in Writers \ {w} : ~Looks(note[u]) /\ ~Looks(note'[u])
  <2>1. SeesTheNewest(note[w])' /\ HasReason(note[w])'
    BY <1>4 DEF SeesTheNewest, HasReason, Looks
  <2>2. QED BY <1>1, <1>2, <1>4, <2>1, OneLookGoesOn DEF Looks
<1>8. TellsInOrder'
  <2>1. SUFFICES ASSUME mishaps \cap {"crossed", "unwritten"} = {}
        PROVE  (\A u \in Writers : ~Sent(note'[u])) /\ told' = announced'
    BY <1>1 DEF TellsInOrder, Sent, Alerts!First
  <2>2. \A u \in Writers : ~Looks(note'[u])
    BY <1>4, <1>7, <2>1 DEF Looks
  <2>3. told' = note[w].current
    BY <1>1, <1>2, <2>1 DEF TellsInOrder, Sent
  <2>4. QED BY <1>1, <2>2, <2>3 DEF Sent, Looks
<1>9. Looking' = Looking
  BY <1>1, <1>4 DEF Looking
<1>10. InstantsAreApart'
  BY <1>1, <1>2, <1>4, ApartStay
<1>11. QED BY <1>1, <1>2, <1>6, <1>7, <1>8, <1>9, <1>10, RowsStay DEF AlertsInv

LEMMA LookFails ==
  ASSUME WindowIsOpen, AlertsInv, NEW w \in Writers, Alerts!Fail(w)
  PROVE  AlertsInv'
<1>1. /\ note[w].pc # "idle" /\ note' = [note EXCEPT ![w] = Alerts!NoNote]
      /\ mishaps \subseteq mishaps' /\ UNCHANGED <<series, rows, announced, told>>
      /\ note[w].pc \in {"points", "announced", "change"} => "missed" \in mishaps'
      /\ Sent(note[w]) => "unwritten" \in mishaps'
  BY DEF Alerts!Fail, Sent
<1>2. QED BY <1>1, LookEnds

LEMMA RecordingBegins ==
  ASSUME WindowIsOpen, AlertsInv, NEW w \in Writers, Alerts!Begin(w)
  PROVE  AlertsInv'
<1>1. /\ note[w].pc = "idle" /\ series[0] = None
      /\ note' = [note EXCEPT ![w] = [Alerts!NoNote EXCEPT !.pc = "saving"]]
      /\ \A u \in Writers : note[u].pc = "saving" => note[u].age # 0
      /\ UNCHANGED <<series, rows, announced, told, mishaps>>
  BY DEF Alerts!Begin
<1>2. AlertTypes /\ LooksAreOrderly /\ TellsInOrder /\ RowsAreRight /\ InstantsAreApart
  BY DEF AlertsInv
<1>3. note \in [Writers -> Notes]
  BY <1>2 DEF AlertTypes
<1>4. /\ note' \in [Writers -> Notes] /\ note'[w].pc = "saving" /\ note'[w].age = 0
      /\ \A u \in Writers \ {w} : note'[u] = note[u]
  <2>1. [Alerts!NoNote EXCEPT !.pc = "saving"] \in Notes /\ [Alerts!NoNote EXCEPT !.pc = "saving"].pc = "saving"
        /\ [Alerts!NoNote EXCEPT !.pc = "saving"].age = 0
    BY DEF Alerts!NoNote, Notes, Stages, Read
  <2>2. QED BY <1>1, <1>3, <2>1
<1>5. AlertTypes'
  BY <1>1, <1>2, <1>4 DEF AlertTypes
<1>6. LooksAreOrderly'
  <2>1. \A u \in Writers : note'[u] = note[u] \/ ~Looks(note'[u])
    BY <1>4 DEF Looks
  <2>2. QED BY <1>1, <1>2, <2>1, NoLookGoesOn
<1>7. TellsInOrder'
  <2>1. ~Sent(note[w]) /\ ~Sent(note'[w])
    BY <1>1, <1>4 DEF Sent
  <2>2. \A u \in Writers : (Sent(note'[u]) <=> Sent(note[u])) /\ (Sent(note[u]) => note'[u] = note[u])
    BY <1>4, <2>1
  <2>3. QED BY <1>1, <1>2, <2>2 DEF TellsInOrder, Sent, Alerts!First
<1>8. Looking' = Looking
  BY <1>1, <1>4 DEF Looking
<1>9. InstantsAreApart'
  BY <1>1, <1>2, <1>4 DEF InstantsAreApart
<1>10. QED BY <1>1, <1>2, <1>5, <1>6, <1>7, <1>8, <1>9, RowsStay DEF AlertsInv

LEMMA VerdictIsRecorded ==
  ASSUME WindowIsOpen, AlertsInv, NEW w \in Writers, NEW v \in Verdicts, Alerts!Insert(w, v)
  PROVE  AlertsInv'
<1> DEFINE a == note[w].age
<1>1. /\ note[w].pc = "saving"
      /\ series' = [series EXCEPT ![a] = v] /\ note' = [note EXCEPT ![w].pc = "points"]
      /\ mishaps \subseteq mishaps' /\ ("rescored" \in mishaps' => "rescored" \in mishaps)
      /\ "crossed" \notin mishaps' => Alerts!UnderWay = {} /\ ~ \E k \in Alerts!Points : k < a
      /\ UNCHANGED <<rows, announced, told>>
  BY DEF Alerts!Insert
<1>2. AlertTypes /\ LooksAreOrderly /\ TellsInOrder /\ RowsAreRight /\ InstantsAreApart
  BY DEF AlertsInv
<1>3. Window \in Nat \ {0} /\ v # None /\ v \in Read /\ a \in {0, 1} /\ a \in 0 .. Window
  <2>1. a \in {0, 1}
    BY <1>2 DEF AlertTypes, Notes
  <2>2. QED BY <2>1 DEF WindowIsOpen, Read
<1> HIDE DEF a
<1>4. /\ series \in [0 .. Window -> Read] /\ note \in [Writers -> Notes]
      /\ series' \in [0 .. Window -> Read] /\ series'[a] = v
      /\ \A k \in 0 .. Window : k # a => series'[k] = series[k]
  BY <1>1, <1>2, <1>3 DEF AlertTypes
<1>5. /\ note' \in [Writers -> Notes] /\ note'[w].pc = "points" /\ note'[w].age = a
      /\ \A u \in Writers \ {w} : note'[u] = note[u]
  <2>1. [note[w] EXCEPT !.pc = "points"] \in Notes /\ [note[w] EXCEPT !.pc = "points"].pc = "points"
        /\ [note[w] EXCEPT !.pc = "points"].age = note[w].age
    BY <1>4 DEF Notes, Stages
  <2>2. note' = [note EXCEPT ![w] = [note[w] EXCEPT !.pc = "points"]]
    BY <1>1
  <2>3. QED BY <1>4, <2>1, <2>2 DEF a
<1>6. Alerts!Points' = Alerts!Points \union {a} /\ Alerts!Points \subseteq 0 .. Window
  BY <1>3, <1>4 DEF Alerts!Points, Alerts!Ages
\* What is recorded without crossing anything is the newest.
<1>7. ASSUME "crossed" \notin mishaps'
      PROVE  /\ Alerts!Newest(Alerts!Points') = a /\ \A k \in Alerts!Points : k >= a
             /\ \A u \in Writers : ~Looks(note[u])
  <2>1. \A k \in Alerts!Points : ~(k < a)
    BY <1>1, <1>7
  <2>2. Window \in Nat
    BY <1>3
  <2>3. \A k \in 0 .. Window : ~(k < a) => k >= a
    BY <1>3
  <2>4. \A k \in Alerts!Points : k >= a
    BY <1>6, <2>1, <2>3
  <2>5. Alerts!Points' \in SUBSET Nat /\ a \in Alerts!Points' /\ \A j \in Alerts!Points' : a <= j
    BY <1>3, <1>6, <2>4
  <2>6. Alerts!Newest(Alerts!Points') = a
    BY <2>5, NewestIs
  <2>7. \A u \in Writers : ~Looks(note[u])
    BY <1>1, <1>7 DEF Alerts!UnderWay, Looks
  <2>8. QED BY <2>4, <2>6, <2>7
<1>8. AlertTypes'
  BY <1>1, <1>2, <1>4, <1>5 DEF AlertTypes
<1>9. LooksAreOrderly'
  <2>1. SUFFICES ASSUME "crossed" \notin mishaps'
        PROVE  Alone' /\ \A u \in Writers : (SeesTheNewest(note[u]) /\ HasReason(note[u]))'
    BY DEF LooksAreOrderly
  <2>2. \A u \in Writers \ {w} : ~Looks(note'[u])
    BY <1>5, <1>7, <2>1
  <2>3. Alone'
    BY <2>2 DEF Alone
  <2>4. Alerts!Points' # {} /\ Alerts!Newest(Alerts!Points') = note'[w].age
    BY <1>5, <1>6, <1>7, <2>1
  <2>5. (SeesTheNewest(note[w]) /\ HasReason(note[w]))'
    BY <1>5, <2>4 DEF SeesTheNewest, HasReason
  <2>6. \A u \in Writers \ {w} : (SeesTheNewest(note[u]) /\ HasReason(note[u]))'
    BY <2>2 DEF SeesTheNewest, HasReason, Looks
  <2>7. QED BY <2>3, <2>5, <2>6
<1>10. TellsInOrder'
  <2>1. ~Sent(note[w]) /\ ~Sent(note'[w])
    BY <1>1, <1>5 DEF Sent
  <2>2. \A u \in Writers : (Sent(note'[u]) <=> Sent(note[u])) /\ (Sent(note[u]) => note'[u] = note[u])
    BY <1>5, <2>1
  <2>3. QED BY <1>1, <1>2, <2>2 DEF TellsInOrder, Sent, Alerts!First
<1>11. RowsAreRight'
  <2>1. SUFFICES ASSUME mishaps' \cap {"crossed", "missed", "rescored"} = {}, NEW k \in 0 .. Window
        PROVE  IF k \in Alerts!Points' /\ (Looking' => k # Alerts!Newest(Alerts!Points'))
                 THEN RowIsRight(k)' ELSE rows'[k] = 0
    BY DEF RowsAreRight
  <2>2. Looking' /\ mishaps \cap {"crossed", "missed", "rescored"} = {}
    BY <1>1, <1>5, <2>1 DEF Looking
  <2>3. ~Looking
    BY <1>7, <2>1 DEF Looking, Looks
  <2>4. IF k \in Alerts!Points THEN RowIsRight(k) ELSE rows[k] = 0
    BY <1>2, <2>2, <2>3 DEF RowsAreRight
  <2>5. a \notin Alerts!Points
    BY <1>1, <1>2, <2>2 DEF InstantsAreApart, Alerts!Points, a
  <2>6. CASE k = a
    BY <1>1, <1>7, <2>1, <2>2, <2>4, <2>5, <2>6
  <2>7. CASE k # a /\ k \in Alerts!Points
    <3>1. k > a
      BY <1>3, <1>7, <2>1, <2>7
    <3>2. Older(k)' = Older(k) /\ Older(k) \subseteq 0 .. Window /\ a \notin Older(k)
      <4>1. ~(a > k) /\ Older(k) = {j \in Alerts!Points : j > k}
        BY <1>3, <3>1 DEF Older
      <4>2. Older(k)' = {j \in Alerts!Points \union {a} : j > k}
        BY <1>6 DEF Older
      <4>3. QED BY <1>6, <2>5, <4>1, <4>2
    <3>3. Older(k) # {} => Alerts!Newest(Older(k)) \in 0 .. Window /\ Alerts!Newest(Older(k)) # a
      <4>1. Older(k) \in SUBSET Nat
        BY <1>3, <3>2
      <4>2. QED BY <3>2, <4>1, NewestExists
    <3>4. RowIsRight(k)'
      BY <1>1, <1>4, <2>4, <2>7, <3>2, <3>3 DEF RowIsRight
    <3>5. QED BY <1>6, <1>7, <2>1, <2>7, <3>4
  <2>8. CASE k # a /\ k \notin Alerts!Points
    BY <1>1, <1>6, <2>4, <2>8
  <2>9. QED BY <2>6, <2>7, <2>8
<1>12. InstantsAreApart'
  <2>1. SUFFICES ASSUME "rescored" \notin mishaps', NEW u \in Writers, note'[u].pc = "saving"
        PROVE  /\ series'[note'[u].age] = None
               /\ \A x \in Writers : note'[x].pc = "saving" /\ note'[x].age = note'[u].age => x = u
    BY DEF InstantsAreApart
  <2>2. u # w /\ note'[u] = note[u]
    BY <1>5, <2>1
  <2>3. /\ series[note[u].age] = None /\ note[u].age # a
        /\ \A x \in Writers : note[x].pc = "saving" /\ note[x].age = note[u].age => x = u
    BY <1>1, <1>2, <2>1, <2>2 DEF InstantsAreApart, a
  <2>4. note[u].age \in 0 .. Window
    <3>1. note[u].age \in {0, 1}
      BY <1>4 DEF Notes
    <3>2. QED BY <1>3, <3>1
  <2>5. QED BY <1>4, <1>5, <2>2, <2>3, <2>4
<1>13. QED BY <1>8, <1>9, <1>10, <1>11, <1>12 DEF AlertsInv

\* A re-score spoils the rows, and crosses the looks that are under way.
LEMMA SeriesIsRewritten ==
  ASSUME AlertsInv, series' \in [0 .. Window -> Read], UNCHANGED <<rows, announced, note, told>>,
         mishaps' = mishaps \union Alerts!Rescored
  PROVE  AlertsInv'
<1>1. AlertTypes /\ LooksAreOrderly /\ TellsInOrder /\ RowsAreRight /\ InstantsAreApart
  BY DEF AlertsInv
<1>2. /\ mishaps \subseteq mishaps' /\ "rescored" \in mishaps'
      /\ "crossed" \notin mishaps' => \A u \in Writers : ~Looks(note[u])
  BY DEF Alerts!Rescored, Alerts!UnderWay, Looks
<1>3. AlertTypes'
  BY <1>1 DEF AlertTypes
<1>4. LooksAreOrderly'
  BY <1>2 DEF LooksAreOrderly, Alone, SeesTheNewest, HasReason, Looks
<1>5. TellsInOrder'
  BY <1>1, <1>2 DEF TellsInOrder, Sent, Alerts!First
<1>6. RowsAreRight' /\ InstantsAreApart'
  BY <1>2 DEF RowsAreRight, InstantsAreApart
<1>7. QED BY <1>3, <1>4, <1>5, <1>6 DEF AlertsInv

LEMMA VerdictsAreCleared ==
  ASSUME WindowIsOpen, AlertsInv, NEW newest, NEW oldest, Alerts!Clear(newest, oldest)
  PROVE  AlertsInv'
<1>1. /\ series' = [k \in 0 .. Window |-> IF k \in newest .. oldest THEN None ELSE series[k]]
      /\ mishaps' = mishaps \union Alerts!Rescored /\ UNCHANGED <<rows, announced, note, told>>
  BY DEF Alerts!Clear, Alerts!Ages
<1>2. series' \in [0 .. Window -> Read]
  BY <1>1 DEF AlertsInv, AlertTypes, Read
<1>3. QED BY <1>1, <1>2, SeriesIsRewritten

LEMMA VerdictIsRewritten ==
  ASSUME WindowIsOpen, AlertsInv, NEW v \in Read, Alerts!Rewrite(v)
  PROVE  AlertsInv'
<1>1. /\ series' = [series EXCEPT ![CHOOSE k \in cleared : \A j \in cleared : j <= k] = v]
      /\ mishaps' = mishaps \union Alerts!Rescored /\ UNCHANGED <<rows, announced, note, told>>
  BY DEF Alerts!Rewrite
<1>2. series' \in [0 .. Window -> Read]
  BY <1>1 DEF AlertsInv, AlertTypes
<1>3. QED BY <1>1, <1>2, SeriesIsRewritten

\* A tick: what was recorded is a tick older, and what a look has seen with it.
Aged(S) == {k \in 1 .. Window : k - 1 \in S}

LEMMA TimePasses ==
  ASSUME WindowIsOpen, AlertsInv, Alerts!Tick
  PROVE  AlertsInv'
<1> DEFINE P == Alerts!Points
<1>1. /\ \A w \in Writers : note[w].age = 0
      /\ series' = [k \in 0 .. Window |-> IF k = 0 THEN None ELSE series[k - 1]]
      /\ rows' = [k \in 0 .. Window |-> IF k = 0 THEN 0 ELSE rows[k - 1]]
      /\ note' = [w \in Writers |-> CASE note[w].pc = "idle" -> note[w]
                                      [] note[w].pc \in {"announced", "change"} ->
                                             [note[w] EXCEPT !.age = 1, !.at = @ + 1]
                                      [] OTHER -> [note[w] EXCEPT !.age = 1]]
      /\ UNCHANGED <<announced, told, mishaps, faults>>
  BY DEF Alerts!Tick, Alerts!Ages
<1>2. AlertTypes /\ LooksAreOrderly /\ TellsInOrder /\ RowsAreRight /\ InstantsAreApart
  BY DEF AlertsInv
<1>3. Window \in Nat /\ Window \in Nat \ {0} /\ 1 \in 1 .. Window
  BY DEF WindowIsOpen
<1>4. series \in [0 .. Window -> Read] /\ rows \in [0 .. Window -> Nat] /\ note \in [Writers -> Notes] /\ None \in Read
  BY <1>2 DEF AlertTypes, Read
<1>5. /\ \A k \in 1 .. Window : series'[k] = series[k - 1] /\ rows'[k] = rows[k - 1] /\ k - 1 \in 0 .. Window
      /\ series'[0] = None /\ rows'[0] = 0
  <2>1. \A k \in 1 .. Window : k \in 0 .. Window /\ k # 0 /\ k - 1 \in 0 .. Window
    BY <1>3
  <2>2. 0 \in 0 .. Window
    BY <1>3
  <2>3. QED BY <1>1, <2>1, <2>2
<1>6. /\ P \in SUBSET (0 .. Window) /\ Alerts!Points' = Aged(P)
      /\ \A k \in 1 .. Window : Older(k)' = Aged(Older(k - 1))
  <2>1. P \in SUBSET (0 .. Window)
    BY DEF Alerts!Points, Alerts!Ages
  <2>2. Alerts!Points' = {k \in 0 .. Window : series'[k] # None}
    BY DEF Alerts!Points, Alerts!Ages
  <2>3. \A k \in 0 .. Window : k = 0 \/ k \in 1 .. Window
    BY <1>3
  <2>4. \A k \in 1 .. Window : k \in 0 .. Window
    BY <1>3
  <2>5. Alerts!Points' = {k \in 1 .. Window : series[k - 1] # None}
    BY <1>5, <2>2, <2>3, <2>4
  <2>6. \A k \in 1 .. Window : k - 1 \in P <=> series[k - 1] # None
    BY <1>5 DEF Alerts!Points, Alerts!Ages
  <2>7. Alerts!Points' = Aged(P)
    BY <2>5, <2>6 DEF Aged
  <2>8. ASSUME NEW k \in 1 .. Window PROVE Older(k)' = Aged(Older(k - 1))
    <3>1. Older(k)' = {j \in Aged(P) : j > k}
      BY <2>7 DEF Older
    <3>2. \A j \in 1 .. Window : j > k <=> j - 1 > k - 1
      BY <1>3
    <3>3. QED BY <3>1, <3>2 DEF Aged, Older
  <2>9. QED BY <2>1, <2>7, <2>8
<1> HIDE DEF P
<1>7. ASSUME Aged(P) # {}
      PROVE  P # {} /\ Alerts!Newest(Aged(P)) = Alerts!Newest(P) + 1 /\ Alerts!Newest(P) \in 0 .. Window
  <2>1. P \in SUBSET Nat /\ P # {}
    BY <1>6, <1>7 DEF Aged
  <2>2. Alerts!Newest(Aged(P)) = Alerts!Newest(P) + 1
    BY <1>3, <1>6, <1>7, ATickOlder DEF Aged
  <2>3. Alerts!Newest(P) \in 0 .. Window
    BY <1>6, <2>1, NewestExists
  <2>4. QED BY <2>1, <2>2, <2>3
\* A look that has crossed nothing has seen no tick: its verdict is still there.
<1>8. ASSUME "crossed" \notin mishaps, NEW w \in Writers, Looks(note[w]) PROVE Aged(P) # {}
  <2>1. P # {} /\ Alerts!Newest(P) = 0
    BY <1>1, <1>2, <1>8 DEF P, LooksAreOrderly, SeesTheNewest
  <2>2. 0 \in P
    <3>1. P \in SUBSET Nat
      BY <1>6
    <3>2. QED BY <2>1, <3>1, NewestExists
  <2>3. 1 - 1 = 0
    OBVIOUS
  <2>4. QED BY <1>3, <2>2, <2>3 DEF Aged
<1>10. ASSUME Aged(P) # {}
       PROVE  Alerts!Newest(Aged(P)) \in 1 .. Window /\ series'[Alerts!Newest(Aged(P))] = series[Alerts!Newest(P)]
  <2>1. Aged(P) \in SUBSET Nat
    BY DEF Aged
  <2>2. Alerts!Newest(Aged(P)) \in Aged(P)
    BY <1>10, <2>1, NewestExists
  <2>3. Alerts!Newest(Aged(P)) \in 1 .. Window
    BY <2>2 DEF Aged
  <2>4. series'[Alerts!Newest(Aged(P))] = series[Alerts!Newest(Aged(P)) - 1]
    BY <1>5, <2>3
  <2>5. (Alerts!Newest(P) + 1) - 1 = Alerts!Newest(P)
    BY <1>7, <1>10
  <2>6. QED BY <1>7, <1>10, <2>3, <2>4, <2>5
\* What is older than one, if any of it is left.
<1>11. ASSUME NEW k \in 1 .. Window, Older(k)' # {}
       PROVE  Older(k - 1) # {} /\ series'[Alerts!Newest(Older(k)')] = series[Alerts!Newest(Older(k - 1))]
  <2>1. Older(k)' = Aged(Older(k - 1)) /\ Older(k - 1) \in SUBSET (0 .. Window)
    BY <1>6 DEF P, Older
  <2>2. Older(k - 1) # {} /\ Older(k - 1) \in SUBSET Nat /\ Older(k)' \in SUBSET Nat
    BY <1>11, <2>1 DEF Aged
  <2>3. Alerts!Newest(Older(k)') = Alerts!Newest(Older(k - 1)) + 1
    BY <1>3, <1>11, <2>1, ATickOlder DEF Aged
  <2>4. Alerts!Newest(Older(k)') \in Older(k)' /\ Alerts!Newest(Older(k - 1)) \in Older(k - 1)
    BY <1>11, <2>2, NewestExists
  <2>5. Alerts!Newest(Older(k)') \in 1 .. Window /\ Alerts!Newest(Older(k - 1)) \in Nat
    BY <2>1, <2>2, <2>4 DEF Aged
  <2>6. series'[Alerts!Newest(Older(k)')] = series[Alerts!Newest(Older(k)') - 1]
    BY <1>5, <2>5
  <2>7. (Alerts!Newest(Older(k - 1)) + 1) - 1 = Alerts!Newest(Older(k - 1))
    BY <2>5
  <2>8. QED BY <2>2, <2>3, <2>6, <2>7
<1>12. /\ note' \in [Writers -> Notes]
       /\ \A w \in Writers :
            /\ note'[w].pc = note[w].pc /\ note'[w].current = note[w].current /\ note'[w].previous = note[w].previous
            /\ note'[w].settled = note[w].settled /\ note'[w].from = note[w].from
            /\ note'[w].age = (IF note[w].pc = "idle" THEN note[w].age ELSE 1)
            /\ note[w].pc \in {"announced", "change"} => note'[w].at = note[w].at + 1
  <2>1. ASSUME NEW n \in Notes
        PROVE  /\ [n EXCEPT !.age = 1, !.at = @ + 1] \in Notes /\ [n EXCEPT !.age = 1] \in Notes
    <3>1. n = [pc |-> n.pc, age |-> n.age, at |-> n.at, current |-> n.current, previous |-> n.previous,
               settled |-> n.settled, from |-> n.from]
      BY DEF Notes
    <3>2. n.at + 1 \in Nat /\ 1 \in {0, 1}
      BY DEF Notes
    <3>3. [n EXCEPT !.age = 1] \in Notes
      BY <3>1, <3>2 DEF Notes
    <3>4. \A m \in Notes : \A t \in Nat : [m EXCEPT !.at = t] \in Notes
      BY DEF Notes
    <3>5. [[n EXCEPT !.age = 1] EXCEPT !.at = n.at + 1] \in Notes
      BY <3>2, <3>3, <3>4
    <3>6. [n EXCEPT !.age = 1, !.at = @ + 1] = [[n EXCEPT !.age = 1] EXCEPT !.at = n.at + 1]
      BY <3>1, Zenon
    <3>7. QED BY <3>3, <3>5, <3>6
  <2>2. ASSUME NEW w \in Writers
        PROVE  note'[w] = IF note[w].pc = "idle" THEN note[w]
                          ELSE IF note[w].pc \in {"announced", "change"} THEN [note[w] EXCEPT !.age = 1, !.at = @ + 1]
                          ELSE [note[w] EXCEPT !.age = 1]
    BY <1>1
  <2>3. ASSUME NEW w \in Writers PROVE note[w] \in Notes /\ note'[w] \in Notes
    BY <1>4, <2>1, <2>2
  <2>4. DOMAIN note' = Writers /\ note' = [w \in Writers |-> note'[w]]
    BY <1>1
  <2>5. note' \in [Writers -> Notes]
    BY <2>3, <2>4
  <2>6. ASSUME NEW w \in Writers
        PROVE  /\ note'[w].pc = note[w].pc /\ note'[w].current = note[w].current /\ note'[w].previous = note[w].previous
               /\ note'[w].settled = note[w].settled /\ note'[w].from = note[w].from
               /\ note'[w].age = (IF note[w].pc = "idle" THEN note[w].age ELSE 1)
               /\ note[w].pc \in {"announced", "change"} => note'[w].at = note[w].at + 1
    BY <2>2, <2>3 DEF Notes
  <2>7. QED BY <2>5, <2>6
<1>13. AlertTypes'
  <2>1. series' \in [0 .. Window -> Read] /\ rows' \in [0 .. Window -> Nat]
    <3>1. \A k \in 0 .. Window : k = 0 \/ k \in 1 .. Window
      BY <1>3
    <3>2. \A k \in 0 .. Window : series'[k] \in Read /\ rows'[k] \in Nat
      BY <1>4, <1>5, <3>1
    <3>3. QED BY <1>1, <3>2
  <2>2. QED BY <1>1, <1>2, <1>12, <2>1 DEF AlertTypes
<1>14. LooksAreOrderly'
  <2>1. SUFFICES ASSUME "crossed" \notin mishaps
        PROVE  Alone' /\ \A w \in Writers : (SeesTheNewest(note[w]) /\ HasReason(note[w]))'
    BY <1>1 DEF LooksAreOrderly
  <2>2. Alone /\ \A w \in Writers : SeesTheNewest(note[w]) /\ HasReason(note[w])
    BY <1>2, <2>1 DEF LooksAreOrderly
  <2>3. Alone'
    BY <1>12, <2>2 DEF Alone, Looks
  <2>4. ASSUME NEW w \in Writers PROVE HasReason(note[w])'
    <3>1. HasReason(note[w])
      BY <2>2
    <3>2. QED BY <1>1, <1>12, <3>1 DEF HasReason, Alerts!Flipped, Alerts!First, Alerts!Announces
  <2>5. ASSUME NEW w \in Writers, ~Looks(note[w]) PROVE SeesTheNewest(note[w])'
    BY <1>12, <2>5 DEF SeesTheNewest, Looks
  <2>6. ASSUME NEW w \in Writers, Looks(note[w]) PROVE SeesTheNewest(note[w])'
    <3>1. SeesTheNewest(note[w]) /\ note[w].age = 0 /\ note[w].pc # "idle"
      BY <1>1, <2>2, <2>6 DEF Looks
    <3>2. Aged(P) # {} /\ Alerts!Newest(P) = 0 /\ Alerts!Newest(Aged(P)) = 1
      BY <1>7, <1>8, <2>1, <2>6, <3>1 DEF P, SeesTheNewest
    <3>3. note[w].pc \in {"announced", "change", "send", "set"} => note'[w].current = series'[Alerts!Newest(Aged(P))]
      BY <1>10, <1>12, <3>1, <3>2 DEF P, SeesTheNewest
    <3>4. ASSUME note[w].pc \in {"announced", "change"}
          PROVE  /\ note'[w].at = Alerts!Newest(Aged(P))
                 /\ Older(note[w].at)' # {} => note'[w].previous = series'[Alerts!Newest(Older(note[w].at)')]
      <4>1. note[w].at = 0 /\ note'[w].at = 1
        BY <1>12, <3>1, <3>2, <3>4 DEF P, SeesTheNewest
      <4>2. Older(1 - 1) # {} => note[w].previous = series[Alerts!Newest(Older(1 - 1))]
        BY <3>1, <3>4, <4>1 DEF SeesTheNewest
      <4>3. Older(1)' # {} => note'[w].previous = series'[Alerts!Newest(Older(1)')]
        BY <1>3, <1>11, <1>12, <4>2
      <4>4. Older(note[w].at)' = Older(1)'
        BY <4>1
      <4>5. QED BY <3>2, <4>1, <4>3, <4>4
    <3>5. note'[w].age = 1 /\ note'[w].pc = note[w].pc
      BY <1>12, <3>1
    <3>6. QED BY <1>6, <3>2, <3>3, <3>4, <3>5 DEF SeesTheNewest
  <2>7. QED BY <2>3, <2>4, <2>5, <2>6
<1>15. TellsInOrder'
  <2>1. \A w \in Writers : Sent(note'[w]) <=> Sent(note[w])
    BY <1>12 DEF Sent, Alerts!First
  <2>2. QED BY <1>1, <1>2, <1>12, <2>1 DEF TellsInOrder, Sent, Alerts!First
<1>16. RowsAreRight'
  <2>1. Looking' = Looking
    BY <1>12 DEF Looking
  <2>2. SUFFICES ASSUME mishaps \cap {"crossed", "missed", "rescored"} = {}, NEW k \in 0 .. Window
        PROVE  IF k \in Aged(P) /\ (Looking => k # Alerts!Newest(Aged(P))) THEN RowIsRight(k)' ELSE rows'[k] = 0
    BY <1>1, <1>6, <2>1 DEF RowsAreRight
  <2>3. CASE k = 0
    <3>1. k \notin Aged(P)
      BY <2>3 DEF Aged
    <3>2. QED BY <1>5, <2>3, <3>1
  <2>4. CASE k # 0
    <3>1. k \in 1 .. Window /\ k - 1 \in 0 .. Window
      BY <1>3, <2>4
    <3>2. IF k - 1 \in P /\ (Looking => k - 1 # Alerts!Newest(P)) THEN RowIsRight(k - 1) ELSE rows[k - 1] = 0
      BY <1>2, <2>2, <3>1 DEF P, RowsAreRight
    <3>3. /\ k \in Aged(P) <=> k - 1 \in P
          /\ k \in Aged(P) => (k = Alerts!Newest(Aged(P)) <=> k - 1 = Alerts!Newest(P))
      <4>1. k \in Aged(P) <=> k - 1 \in P
        BY <3>1 DEF Aged
      <4>2. k \in Aged(P) => (k = Alerts!Newest(Aged(P)) <=> k - 1 = Alerts!Newest(P))
        BY <1>7, <3>1
      <4>3. QED BY <4>1, <4>2
    <3>4. rows'[k] = rows[k - 1] /\ series'[k] = series[k - 1]
      BY <1>5, <3>1
    <3>5. RowIsRight(k - 1) => RowIsRight(k)'
      BY <1>11, <3>1, <3>4 DEF RowIsRight
    <3>6. QED BY <3>2, <3>3, <3>4, <3>5
  <2>5. QED BY <2>3, <2>4
<1>17. InstantsAreApart'
  <2>1. SUFFICES ASSUME "rescored" \notin mishaps, NEW w \in Writers, note'[w].pc = "saving"
        PROVE  /\ series'[note'[w].age] = None
               /\ \A u \in Writers : note'[u].pc = "saving" /\ note'[u].age = note'[w].age => u = w
    BY <1>1 DEF InstantsAreApart
  <2>2. note[w].pc = "saving" /\ note[w].age = 0 /\ note'[w].age = 1
    BY <1>1, <1>12, <2>1
  <2>3. /\ series[0] = None
        /\ \A u \in Writers : note[u].pc = "saving" /\ note[u].age = 0 => u = w
    BY <1>2, <2>1, <2>2 DEF InstantsAreApart
  <2>4. series'[1] = series[1 - 1] /\ 1 - 1 = 0
    BY <1>3, <1>5
  <2>5. series'[note'[w].age] = None
    BY <2>2, <2>3, <2>4
  <2>6. \A u \in Writers : note'[u].pc = "saving" => note[u].pc = "saving" /\ note[u].age = 0
    BY <1>1, <1>12
  <2>7. QED BY <2>3, <2>5, <2>6
<1>18. QED BY <1>13, <1>14, <1>15, <1>16, <1>17 DEF AlertsInv

LEMMA AlertsStep == WindowIsOpen /\ AlertsInv /\ [Alerts!Next]_(Alerts!vars) => AlertsInv'
<1> SUFFICES ASSUME WindowIsOpen, AlertsInv, [Alerts!Next]_(Alerts!vars) PROVE AlertsInv'
  OBVIOUS
<1>1. CASE UNCHANGED Alerts!vars
  <2>1. UNCHANGED <<series, rows, announced, note, told, mishaps>>
    BY <1>1 DEF Alerts!vars
  <2>2. Alerts!Points' = Alerts!Points /\ Looking' = Looking
    BY <2>1 DEF Alerts!Points, Looking
  <2>3. RowsAreRight'
    BY <2>1, <2>2, RowsStay DEF AlertsInv
  <2>4. AlertTypes' /\ TellsInOrder'
    BY <2>1, <2>2 DEF AlertsInv, AlertTypes, TellsInOrder, Sent, Alerts!First
  <2>5. LooksAreOrderly' /\ InstantsAreApart'
    BY <2>1, NoLookGoesOn, ApartStay DEF AlertsInv
  <2>6. QED BY <2>3, <2>4, <2>5 DEF AlertsInv
<1>2. QED
  BY <1>1, RecordingBegins, VerdictIsRecorded, NothingIsRead, PointsAreRead, AnnouncedIsRead, ChangeIsRecorded,
     MessageIsSent, AnnouncedIsSet, LookFails, VerdictsAreCleared, VerdictIsRewritten, TimePasses
  DEF Alerts!Next, Alerts!Look, Read

\* VerdictAlerts: every flip is recorded once and nothing that is none, unless a look was missed,
\* verdicts were recorded under one or behind a newer one, or the series was re-scored; and a message
\* tells of a change from the verdict last told of to the one that stands, re-scored or not, unless
\* looks crossed or one died before it wrote down what it had sent.
THEOREM FlipsAreTold ==
  ASSUME WindowIsOpen
  PROVE  Alerts!Spec => Alerts!FlipsAreToldInOrder
<1>1. AlertsInv => Alerts!FlipsRecordedOnce
  <2> SUFFICES ASSUME AlertsInv, mishaps \cap {"crossed", "missed", "rescored"} = {}, Alerts!UnderWay = {},
                      NEW k \in Alerts!Points
               PROVE  LET older == {j \in Alerts!Points : j > k}
                      IN older # {} => (rows[k] = IF series[Alerts!Newest(older)] = series[k] THEN 0 ELSE 1)
    BY DEF Alerts!FlipsRecordedOnce, Alerts!Spoilt
  <2>1. ~Looking /\ k \in 0 .. Window
    BY DEF Looking, Alerts!UnderWay, Alerts!Points, Alerts!Ages
  <2>2. RowIsRight(k)
    BY <2>1 DEF AlertsInv, RowsAreRight
  <2>3. QED BY <2>2 DEF RowIsRight, Older
<1>2. AlertsInv => \A w \in Writers : Alerts!Send(w) =>
        \/ note[w].from = told /\ note[w].current # told /\ note[w].current = Alerts!Verdict
        \/ mishaps \cap {"raced", "unwritten", "crossed"} # {}
  <2> SUFFICES ASSUME AlertsInv, NEW w \in Writers, Alerts!Send(w), mishaps \cap {"raced", "unwritten", "crossed"} = {}
               PROVE  note[w].from = told /\ note[w].current # told
                      /\ note[w].current = Alerts!Verdict
    OBVIOUS
  <2>1. note[w].pc = "send" /\ "crossed" \notin mishaps /\ mishaps \cap {"crossed", "unwritten"} = {}
    BY DEF Alerts!Send
  <2>2. Looks(note[w]) /\ Alone /\ SeesTheNewest(note[w]) /\ HasReason(note[w])
    BY <2>1 DEF AlertsInv, LooksAreOrderly, Looks
  <2>3. \A u \in Writers : ~Sent(note[u])
    BY <2>1, <2>2 DEF Alone, Looks, Sent
  <2>4. told = announced
    BY <2>1, <2>3 DEF AlertsInv, TellsInOrder
  <2>5. QED BY <2>1, <2>2, <2>4 DEF SeesTheNewest, HasReason, Alerts!Announces, Alerts!Verdict
<1>3. Alerts!Init => AlertsInv
  BY AlertsBegin
<1>4. AlertsInv /\ [Alerts!Next]_(Alerts!vars) => AlertsInv'
  BY AlertsStep
<1>5. AlertsInv => [\A w \in Writers : Alerts!Send(w) =>
        \/ /\ note[w].from = told
           /\ note[w].current # told
           /\ note[w].current = Alerts!Verdict
        \/ mishaps \cap {"raced", "unwritten", "crossed"} # {}]_(Alerts!vars)
  BY <1>2
<1>6. QED BY <1>1, <1>3, <1>4, <1>5, PTL DEF Alerts!Spec, Alerts!FlipsAreToldInOrder, Alerts!AlertsChain

=============================================================================
