---------------------------- MODULE PointInTime ------------------------------
(***************************************************************************)
(* What a backtest knows of a company on a past day                        *)
(* (src/src/data/edgar-facts.ts, src/src/backtest/payload.ts): a company   *)
(* reports, is late, renames its tag, restates a quarter and splits its    *)
(* shares; the lines reduced from all it ever filed are cut at a day, and  *)
(* trailing years, growth and share counts are made of what is left.       *)
(*                                                                         *)
(* A quarter is four ticks: it ends, may be followed by a split, is        *)
(* reported on time, and then late, amended or followed by a split.        *)
(***************************************************************************)
EXTENDS Integers, FiniteSets, FiniteSetsExt

CONSTANTS FirstQuarter, LastQuarter,  \* bound: the quarters reported on, the first the end of a fiscal year
          Sales,        \* what is sold in these and in the seven before
          Correction,   \* by which a quarter is restated
          Ratio,        \* of a split
          MaxUpsets     \* bound: reports late or never made, tags renamed, quarters restated, splits

VARIABLES now,
          revenue,     \* the raw facts: what each filing says of a period under each tag
          diluted,     \* and of its weighted share count
          sold,        \* what was sold in a quarter, as the company has it now
          tags,        \* the tags it reports revenue under: their ranks in FACT_LINES
          splits,      \* the days of its splits
          due,         \* the quarter whose report has yet to come
          upsets,
          restated     \* history: a quarter was restated

vars == <<now, revenue, diluted, sold, tags, splits, due, upsets, restated>>

Quarter == 4
Year == 4 * Quarter
None == [end |-> -Year * LastQuarter, value |-> 0]

Ended(q) == q * Quarter
Yearly(q) == q % 4 = 0

Init == /\ now = Ended(FirstQuarter) + 1
        /\ revenue = {} /\ diluted = {}
        /\ sold = Sales
        /\ tags \in {{1}, {2}}
        /\ splits = {}
        /\ due = FirstQuarter
        /\ upsets = 0 /\ restated = FALSE

-----------------------------------------------------------------------------
(* The filings. *)

\* A 10-K covers its year and the one before, a 10-Q its quarter, the year to date, and
\* the same a year earlier.
Periods(q) ==
    {[start |-> Ended(q - back) - length, end |-> Ended(q - back)] :
        back \in {0, 4}, length \in IF Yearly(q) THEN {Year} ELSE {Quarter, (q % 4) * Quarter}}

Quarters(p) == {q \in DOMAIN Sales : Ended(q) > p.start /\ Ended(q) <= p.end}
Sold(p, books) == MapThenSumSet(LAMBDA q : books[q], Quarters(p))

\* Under the first of two tags stands the whole, under the second a part of it.
Reported(p, rank, books) == IF rank = 2 /\ 1 \in tags THEN 0 ELSE Sold(p, books)

\* What a number of splits makes of one share.
SharesAfter(n) ==
    LET shares[k \in 0 .. n] == IF k = 0 THEN 1 ELSE Ratio * shares[k - 1]
    IN shares[n]

\* A filing puts all share counts on the basis of its day.
File(q, books) ==
    /\ revenue' = revenue \union
           {[start |-> p.start, end |-> p.end, val |-> Reported(p, rank, books), filed |-> now, rank |-> rank] :
                p \in Periods(q), rank \in tags}
    /\ diluted' = diluted \union
           {[start |-> p.start, end |-> p.end, val |-> SharesAfter(Cardinality(splits)), filed |-> now, rank |-> 1] :
                p \in Periods(q)}

\* On the day a quarter ends nothing happens.
NextTick == now' = IF now % Quarter = 3 THEN now + 2 ELSE now + 1
Filing == now % Quarter = 2
Overdue == now % Quarter = 3 /\ due <= LastQuarter /\ Ended(due) < now
Upset == upsets < MaxUpsets /\ upsets' = upsets + 1

Report ==
    /\ Filing /\ due <= LastQuarter /\ Ended(due) < now
    /\ File(due, sold)
    /\ due' = due + 1
    /\ NextTick
    /\ UNCHANGED <<sold, tags, splits, upsets, restated>>

\* Not in time: it comes a little later, or its figures never do.
Miss ==
    /\ Filing /\ due <= LastQuarter /\ Upset
    /\ due' \in {due, due + 1}
    /\ NextTick
    /\ UNCHANGED <<revenue, diluted, sold, tags, splits, restated>>

ReportLate ==
    /\ Overdue
    /\ File(due, sold)
    /\ due' = due + 1
    /\ NextTick
    /\ UNCHANGED <<sold, tags, splits, upsets, restated>>

\* A quarter turns out otherwise: an amendment of the newest report says so at once, or the
\* next comparative.
Restate ==
    /\ now % Quarter = 3 /\ ~Overdue /\ Upset
    /\ \E q \in FirstQuarter .. LastQuarter :
           /\ q < due
           /\ sold' = [sold EXCEPT ![q] = @ + Correction]
    /\ File(due - 1, sold') \/ UNCHANGED <<revenue, diluted>>
    /\ restated' = TRUE
    /\ NextTick
    /\ UNCHANGED <<tags, splits, due>>

Rename ==
    /\ now % Quarter = 1 /\ Upset
    /\ tags' \in {{1}, {2}, {1, 2}} \ {tags}
    /\ UNCHANGED <<now, revenue, diluted, sold, splits, due, restated>>

Split ==
    /\ now % Quarter \in {1, 3} /\ ~Overdue /\ Upset
    /\ splits' = splits \union {now}
    /\ NextTick
    /\ UNCHANGED <<revenue, diluted, sold, tags, due, restated>>

Tick ==
    /\ ~(Filing /\ due <= LastQuarter) /\ ~Overdue /\ now < Ended(LastQuarter) + Quarter
    /\ NextTick
    /\ UNCHANGED <<revenue, diluted, sold, tags, splits, due, upsets, restated>>

Next == Report \/ Miss \/ ReportLate \/ Restate \/ Rename \/ Split \/ Tick

Spec == Init /\ [][Next]_vars

-----------------------------------------------------------------------------
(* The reduction. *)

SamePeriod(f, g) == f.start = g.start /\ f.end = g.end
Before(facts, f) == {g \in facts : SamePeriod(f, g) /\ g.filed < f.filed}

\* Mutated: the preferred tag wins the period, whoever filed under it.
extractByTag(raw) ==
    {f \in raw : \A g \in raw : SamePeriod(f, g) => f.rank <= g.rank}

\* One fact a period and filing, of the first tag in it; and of the filings that say the
\* same of a period only the first.
extractLine(raw) ==
    LET facts == {f \in raw : \A g \in raw : (SamePeriod(f, g) /\ f.filed = g.filed) => f.rank <= g.rank}
        repeats(f) == \E g \in Before(facts, f) :
                          g.val = f.val /\ \A h \in Before(facts, f) : h.filed <= g.filed
    IN {f \in facts : ~repeats(f)}

\* Every period as it was known on a day: its newest filing before that day.
knownOn(facts, asOf) ==
    {f \in facts : f.filed < asOf /\ \A g \in facts : (SamePeriod(f, g) /\ g.filed < asOf) => g.filed <= f.filed}

Span(f) == f.end - f.start
NewestEnd(facts) == Max({f.end : f \in facts})

fiscalYears(facts, asOf) == {f \in knownOn(facts, asOf) : Span(f) = Year}

\* Mutated: any figure that ends with the newest period is the year to date.
anyToDate(known, lastYear) == {f \in known : f.end = NewestEnd(known) /\ Span(f) # Year}

\* The figures of the fiscal year in progress.
yearToDate(known, lastYear) ==
    {f \in known : f.end = NewestEnd(known) /\ Span(f) # Year /\ f.start = lastYear.end}

\* Year to date, and the last fiscal year, less the same year to date of the year before;
\* the fiscal year alone where a piece is missing.
trailingTwelveMonths(facts, asOf) ==
    LET known == knownOn(facts, asOf)
        years == {f \in known : Span(f) = Year}
        lastYear == CHOOSE f \in years : f.end = NewestEnd(years)
        ended == [value |-> lastYear.val, end |-> lastYear.end]
        pairs == {p \in yearToDate(known, lastYear) \X known :
                      Span(p[2]) = Span(p[1]) /\ p[2].end = p[1].end - Year}
    IN IF years = {} THEN None
       ELSE IF lastYear.end = NewestEnd(known) \/ pairs = {} THEN ended
       ELSE LET pair == CHOOSE p \in pairs : TRUE
            IN [value |-> pair[1].val + lastYear.val - pair[2].val, end |-> pair[1].end]

\* payload.ts: the same arithmetic on what ends no later than a year before.
ttmBefore(facts, end, asOf) == trailingTwelveMonths({f \in facts : f.end <= end - Year}, asOf)

\* Mutated: the splits since the day that is looked at.
splitsSinceThen(f, asOf) == {s \in splits : s > asOf}

\* splitFactorAfter: today's shares for one of the period, by the splits after its end.
splitsAfter(f, asOf) == {s \in splits : s > f.end}
onTodaysBasis(f, asOf) == f.val * SharesAfter(Cardinality(splitsAfter(f, asOf)))

-----------------------------------------------------------------------------
(* Properties *)

Days == {f.filed + 1 : f \in revenue} \union {now}

\* No hindsight, and no blind spot: what the reduction of all filings says of a day is,
\* of every period, what its newest filing before that day said, whatever was renamed,
\* restated or filed since.
saidBefore(raw, asOf) ==
    LET then == {f \in raw : f.filed < asOf}
        overtaken(f) == \E g \in then : SamePeriod(f, g) /\ (g.filed > f.filed \/ (g.filed = f.filed /\ g.rank < f.rank))
    IN {f \in then : ~overtaken(f)}
figures(facts) == {<<f.start, f.end, f.val>> : f \in facts}
KnownAsThen ==
    LET facts == extractLine(revenue)
    IN \A asOf \in Days : figures(knownOn(facts, asOf)) = figures(saidBefore(revenue, asOf))

\* Twelve months are the four quarters that end where they say, whatever came late or
\* never, unless a quarter was restated.
TrailingYearAddsUp ==
    LET ttm == trailingTwelveMonths(extractLine(revenue), now)
    IN ~restated /\ ttm # None => ttm.value = Sold([start |-> ttm.end - Year, end |-> ttm.end], sold)

\* "Shares on today's basis" (payload.ts:174).  The code gives that of a fiscal year whose
\* newest filing was there before any split that came after its end.
OnTodaysBasis(f, asOf) == onTodaysBasis(f, asOf) = SharesAfter(Cardinality(splits))
SplitInBetween(f) == \E g \in diluted : SamePeriod(f, g) /\ \E s \in splits : f.end < s /\ s <= g.filed
SharesUnlessSplitInBetween ==
    LET facts == extractLine(diluted)
    IN \A asOf \in Days : \A f \in fiscalYears(facts, asOf) : SplitInBetween(f) \/ OnTodaysBasis(f, asOf)
\* Violated as it is said: what is filed after a split is on the new basis already, and
\* multiplied once more.
SharesAreOnTodaysBasis ==
    LET facts == extractLine(diluted)
    IN \A asOf \in Days : \A f \in fiscalYears(facts, asOf) : OnTodaysBasis(f, asOf)

\* "Twelve months ending a year before the newest" (payload.ts:166).  Violated: where a piece
\* is missing an older fiscal year stands in, and the growth of a year is that of up to seven
\* quarters.
GrowthIsOverAYear ==
    LET facts == extractLine(revenue)
        ttm == trailingTwelveMonths(facts, now)
        before == ttmBefore(facts, ttm.end, now)
    IN ttm # None /\ before # None => before.end = ttm.end - Year

\* Together: the figures of a past day are those that were known on it.
FiguresAreOfTheirDay == KnownAsThen /\ TrailingYearAddsUp /\ SharesUnlessSplitInBetween

=============================================================================
