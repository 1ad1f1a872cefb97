----------------------------- MODULE SymbolStore -----------------------------
(***************************************************************************)
(* One row of the table symbols (src/src/db/store.ts) under what several   *)
(* processes do with it at once: adds, nightly refreshes of the watchlist  *)
(* and of the reference universe, resolutions of a Distill entity, and the *)
(* delete of the server.  Every process has a cache of the row's id, which *)
(* only its own delete forgets; ids come from a sequence and never again.  *)
(***************************************************************************)
EXTENDS Integers

CONSTANTS Procs, Server,  \* the processes; deletes run in Server
          Jobs,           \* jobs that may be under way at once
          home,           \* the process of a job
          MaxIds,         \* bound: rows ever created
          MaxFaults       \* bound: fetches that fail, processes that restart

VARIABLES row,      \* the symbol's row; id 0 is no row
          lastId,   \* the sequence
          cached,   \* idCache of each process, 0 for a miss
          job,      \* where each job stands
          delete,   \* the DELETE handler: its statement is done, its answer is not read
          wanted,   \* history: the user's last word was an add
          revived,  \* history: a job that a delete overtook made the row a watchlist stock
          late,     \* history: the caches that a job has set which a delete overtook
          mishaps,
          faults

vars == <<row, lastId, cached, job, delete, wanted, revived, late, mishaps, faults>>

NoRow == [id |-> 0, reference |-> FALSE, financials |-> FALSE]

\* overtaken: the symbol was deleted since the job was planned.
NoJob == [kind |-> "none", pc |-> "idle", id |-> 0, overtaken |-> FALSE]

Init == /\ row = NoRow
        /\ lastId = 0
        /\ cached = [p \in Procs |-> 0]
        /\ job = [j \in Jobs |-> NoJob]
        /\ delete = "idle"
        /\ wanted = FALSE
        /\ revived = FALSE
        /\ late = {}
        /\ mishaps = {}
        /\ faults = 0

goto(j, pc) == job' = [job EXCEPT ![j].pc = pc]
End(j) == job' = [job EXCEPT ![j] = NoJob]
SetCache(j) == /\ cached' = [cached EXCEPT ![home[j]] = job[j].id]
               /\ late' = IF job[j].overtaken THEN late \union {home[j]} ELSE late

\* Ends up a watchlist stock by the hand of job j.
Joins(j) == revived' = (revived \/ job[j].overtaken)

-----------------------------------------------------------------------------
(* The kinds of jobs. *)

Begin(j, kind, pc) ==
    /\ job[j].pc = "idle"
    /\ job' = [job EXCEPT ![j] = [NoJob EXCEPT !.kind = kind, !.pc = pc]]

\* POST /api/stocks, or an analysis of a stock that is not there yet.
AskAdd(j) ==
    /\ Begin(j, "add", "mark")
    /\ wanted' = TRUE
    /\ UNCHANGED <<row, lastId, cached, delete, revived, late, mishaps, faults>>

\* The night takes the stocks of listSymbols('watchlist').
PlanRefresh(j) ==
    /\ row.id # 0 /\ ~row.reference /\ row.financials
    /\ Begin(j, "refresh", "mark")
    /\ UNCHANGED <<row, lastId, cached, delete, wanted, revived, late, mishaps, faults>>

\* referenceRotation: members without a row, or with one of the universe.
PlanReference(j) ==
    /\ row.id = 0 \/ row.reference
    /\ Begin(j, "reference", "mark")
    /\ UNCHANGED <<row, lastId, cached, delete, wanted, revived, late, mishaps, faults>>

\* The Distill stage of a stock begins to resolve its entity.
PlanResolve(j) ==
    /\ row.id # 0 /\ ~row.reference
    /\ Begin(j, "resolve", "lookup")
    /\ UNCHANGED <<row, lastId, cached, delete, wanted, revived, late, mishaps, faults>>

-----------------------------------------------------------------------------
(* refreshStockData and the statements of the store. *)

\* Another job is between its promoteSymbol, which found no row, and its insert.
Crosses(j) == \E i \in Jobs \ {j} : job[i].kind \in {"add", "refresh"} /\ job[i].pc = "profile"

\* It only ever creates.
markReference(j) ==
    /\ IF row.id = 0
       THEN /\ lastId < MaxIds
            /\ lastId' = lastId + 1
            /\ row' = [id |-> lastId', reference |-> TRUE, financials |-> FALSE]
            /\ mishaps' = IF Crosses(j) THEN mishaps \union {"crossed"} ELSE mishaps
       ELSE UNCHANGED <<lastId, row, mishaps>>
    /\ UNCHANGED revived

promoteSymbol(j) ==
    /\ row' = [row EXCEPT !.reference = FALSE]
    /\ IF row.reference THEN Joins(j) ELSE UNCHANGED revived
    /\ UNCHANGED <<lastId, mishaps>>

Mark(j) ==
    /\ job[j].pc = "mark"
    /\ goto(j, "profile")
    /\ IF job[j].kind = "reference" THEN markReference(j) ELSE promoteSymbol(j)
    /\ UNCHANGED <<cached, delete, wanted, late, faults>>

\* The fetch in between fails, and the job with it.
FetchFails(j) ==
    /\ job[j].pc = "profile"
    /\ faults < MaxFaults
    /\ faults' = faults + 1
    /\ End(j)
    /\ mishaps' = IF job[j].kind = "add" THEN mishaps \union {"failed"} ELSE mishaps
    /\ UNCHANGED <<row, lastId, cached, delete, wanted, revived, late>>

\* UPDATE, else INSERT, in one statement.
Upsert(j, pc) ==
    /\ IF row.id = 0
       THEN /\ lastId < MaxIds
            /\ lastId' = lastId + 1
            /\ row' = [NoRow EXCEPT !.id = lastId']
            /\ Joins(j)
       ELSE UNCHANGED <<lastId, row, revived>>
    /\ job' = [job EXCEPT ![j].pc = pc, ![j].id = row'.id]
    /\ UNCHANGED <<cached, delete, wanted, late, mishaps, faults>>

\* writeFinancials: upsertSymbol with a profile goes to the table.
Profile(j) == job[j].pc = "profile" /\ Upsert(j, "profiled")

\* Mutated: the id of an update is not put into the cache.
ProfiledUncached(j) ==
    /\ job[j].pc = "profiled"
    /\ goto(j, "lookup")
    /\ UNCHANGED <<row, lastId, cached, delete, wanted, revived, late, mishaps, faults>>

\* Its answer sets the cache.
Profiled(j) ==
    /\ job[j].pc = "profiled"
    /\ SetCache(j)
    /\ goto(j, "lookup")
    /\ UNCHANGED <<row, lastId, delete, wanted, revived, mishaps, faults>>

\* upsertSymbol without a profile, as of every other writer: the cache, or a SELECT.
Lookup(j) ==
    /\ job[j].pc = "lookup"
    /\ job' = [job EXCEPT ![j] = IF cached[home[j]] # 0
                                 THEN [@ EXCEPT !.pc = "write", !.id = cached[home[j]]]
                                 ELSE [@ EXCEPT !.pc = "selected", !.id = row.id]]
    /\ UNCHANGED <<row, lastId, cached, delete, wanted, revived, late, mishaps, faults>>

\* The answer of the SELECT sets the cache; without a row the writer inserts one.
Selected(j) ==
    /\ job[j].pc = "selected"
    /\ IF job[j].id # 0 THEN SetCache(j) /\ goto(j, "write")
                        ELSE goto(j, "insert") /\ UNCHANGED <<cached, late>>
    /\ UNCHANGED <<row, lastId, delete, wanted, revived, mishaps, faults>>

Insert(j) == job[j].pc = "insert" /\ Upsert(j, "inserted")

Inserted(j) ==
    /\ job[j].pc = "inserted"
    /\ SetCache(j)
    /\ goto(j, "write")
    /\ UNCHANGED <<row, lastId, delete, wanted, revived, mishaps, faults>>

\* A row that references the symbol by its id.
Write(j) ==
    /\ job[j].pc = "write"
    /\ job[j].id = row.id
    /\ row' = IF job[j].kind = "resolve" THEN row ELSE [row EXCEPT !.financials = TRUE]
    /\ \/ End(j)
       \/ job[j].kind # "resolve" /\ goto(j, "lookup")
    /\ UNCHANGED <<lastId, cached, delete, wanted, revived, late, mishaps, faults>>

\* The id is gone: the foreign key rejects the row, and the job fails.
WriteFails(j) ==
    /\ job[j].pc = "write"
    /\ job[j].id # row.id
    /\ End(j)
    /\ UNCHANGED <<row, lastId, cached, delete, wanted, revived, late, mishaps, faults>>

JobStep(j) == \/ Mark(j) \/ Profile(j) \/ Profiled(j) \/ Lookup(j) \/ Selected(j)
              \/ Insert(j) \/ Inserted(j) \/ Write(j) \/ WriteFails(j)

-----------------------------------------------------------------------------
(* DELETE /api/stocks/:symbol *)

Delete ==
    /\ delete = "idle"
    /\ row.id # 0
    /\ row' = NoRow
    /\ delete' = "deleted"
    /\ wanted' = FALSE
    /\ revived' = FALSE
    /\ job' = [j \in Jobs |-> IF job[j].pc = "idle" THEN NoJob ELSE [job[j] EXCEPT !.overtaken = TRUE]]
    /\ UNCHANGED <<lastId, cached, late, mishaps, faults>>

\* Behind the answer the cache of the server forgets the id; no other cache does.
Forget ==
    /\ delete = "deleted"
    /\ delete' = "idle"
    /\ cached' = [cached EXCEPT ![Server] = 0]
    /\ UNCHANGED <<row, lastId, job, wanted, revived, late, mishaps, faults>>

\* A process restarts: its cache is empty and its jobs are gone.
Restart(p) ==
    /\ faults < MaxFaults
    /\ faults' = faults + 1
    /\ cached' = [cached EXCEPT ![p] = 0]
    /\ late' = late \ {p}
    /\ job' = [j \in Jobs |-> IF home[j] = p THEN NoJob ELSE job[j]]
    /\ delete' = IF p = Server THEN "idle" ELSE delete
    /\ mishaps' = IF \E j \in Jobs : home[j] = p /\ job[j].kind = "add"
                  THEN mishaps \union {"failed"} ELSE mishaps
    /\ UNCHANGED <<row, lastId, wanted, revived>>

Next == \/ \E j \in Jobs : \/ AskAdd(j) \/ PlanRefresh(j) \/ PlanReference(j) \/ PlanResolve(j)
                           \/ JobStep(j) \/ FetchFails(j)
        \/ Delete
        \/ Forget
        \/ \E p \in Procs : Restart(p)

Spec == Init /\ [][Next]_vars

-----------------------------------------------------------------------------
(* Properties *)

\* The watchlist is what the user added: a stock gets on it without being asked
\* for only by a job that was under way when the stock was deleted.  In
\* particular a reference symbol never exists, "even for a moment, as a
\* watchlist stock" (refresh.ts:126-127).
OnlyOvertakenJobsRevive ==
    (row.id # 0 /\ ~row.reference /\ ~wanted) => revived

\* A stock the user added, and did not delete since, is on the watchlist when
\* the add is through.  What takes it off is a failed fetch, or a refresh of the
\* universe that marks the symbol between the add's promote and its insert.
AddedIsOnWatchlist ==
    (wanted /\ mishaps = {} /\ \A j \in Jobs : job[j].kind # "add") =>
        (row.id # 0 /\ ~row.reference)

\* Together: the watchlist is what the user made of it.
WatchlistIsTheUsers == OnlyOvertakenJobsRevive /\ AddedIsOnWatchlist

\* A dead id heals: a refresh writes its profile to the table and puts the live
\* id into the cache, so it fails at a foreign key only if a delete overtook it,
\* or another job of the same process whose answer came late.
OnlyOvertakenRefreshesFail ==
    [][\A j \in Jobs : (WriteFails(j) /\ job[j].kind # "resolve") =>
           job[j].overtaken \/ home[j] \in late]_vars

\* Together: deletes and adds that overtake the jobs leave what the user asked for,
\* and no dead id behind.
StoreFollowsTheUser == []WatchlistIsTheUsers /\ OnlyOvertakenRefreshesFail

=============================================================================
