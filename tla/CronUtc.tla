------------------------------- MODULE CronUtc -------------------------------
(***************************************************************************)
(* A cron expression of the settings said in UTC (src/src/hatchet/         *)
(* cron-utc.ts), for Hatchet, which knows no time zones: a pure function,  *)
(* held against the hours of the week at which an expression fires.        *)
(*                                                                         *)
(* An expression is what the translation tells apart: its hours and        *)
(* weekdays as fields, whether it is bound to a date, and the offset of    *)
(* its zone in minutes.  A field is the set of its parts; the minute field *)
(* is passed through.                                                      *)
(***************************************************************************)
EXTENDS Integers, FiniteSets

\* The kinds of parts, with a step where one is written.
Every(step)     == [kind |-> "star", lo |-> 0, hi |-> 0, step |-> step]
Span(a, b, step) == [kind |-> "range", lo |-> a, hi |-> b, step |-> step]
One(v)          == [kind |-> "value", lo |-> v, hi |-> v, step |-> {}]
Onwards(v, n)   == [kind |-> "value", lo |-> v, hi |-> v, step |-> {n}]
NoStep          == {}

Unrestricted == {Every(NoStep)}

-----------------------------------------------------------------------------
(* expand *)

stepOf(p) == IF p.step = {} THEN 1 ELSE CHOOSE n \in p.step : TRUE
first(p, min) == IF p.kind = "star" THEN min ELSE p.lo
last(p, max) == IF p.kind = "star" \/ (p.kind = "value" /\ p.step # {}) THEN max ELSE p.hi

\* A part that is not understood spoils the field.
Understood(field, min, max) ==
    \A p \in field : /\ stepOf(p) >= 1
                     /\ min <= first(p, min) /\ first(p, min) <= last(p, max) /\ last(p, max) <= max

\* The values of a field; {} where it is not understood.
expand(field, min, max) ==
    IF Understood(field, min, max)
    THEN UNION {{v \in first(p, min) .. last(p, max) : (v - first(p, min)) % stepOf(p) = 0} : p \in field}
    ELSE {}

-----------------------------------------------------------------------------
(* cronToUtc *)

Hours(e) == expand(e.hour, 0, 23)
Weekdays(e) == {d % 7 : d \in expand(e.dow, 0, 7)}      \* 0 and 7 are Sunday
shift(e) == e.offset \div 60
crossings(e) == {(h - shift(e)) \div 24 : h \in Hours(e)}

\* The reasons to leave an expression alone.
Declined(e) ==
    /\ e.offset # 0
    /\ \/ e.offset % 60 # 0
       \/ e.dated
       \/ Hours(e) = {}
       \/ /\ e.dow # Unrestricted
          /\ Cardinality(crossings(e)) > 1 \/ expand(e.dow, 0, 7) = {}

\* Mutated: the weekdays stay where the hours cross midnight.
weekdaysUnmoved(e) == Weekdays(e)

\* The weekdays, moved along with hours that all cross midnight the same way.
shiftedWeekdays(e) ==
    IF e.dow = Unrestricted THEN 0 .. 6
    ELSE {((d + c) % 7) : d \in Weekdays(e), c \in crossings(e)}

shiftedHours(e) == {(h - shift(e)) % 24 : h \in Hours(e)}

\* The hours of the week at which the translation fires; in UTC already, it is left as it is.
FiresTranslated(e) ==
    IF e.offset = 0 THEN {24 * d + h : d \in Weekdays(e), h \in Hours(e)}
                    ELSE {24 * d + h : d \in shiftedWeekdays(e), h \in shiftedHours(e)}

-----------------------------------------------------------------------------
(* The reference: the week turns by the offset. *)

FiresInZone(e) == {24 * d + h : d \in Weekdays(e), h \in Hours(e)}
FiresInUtc(e) == {(i - shift(e)) % 168 : i \in FiresInZone(e)}

\* Whether hours and weekdays of one expression can say these hours of the week.
Sayable(week) == week = {24 * (i \div 24) + (j % 24) : i \in week, j \in week}

\* What is installed at Hatchet fires when the settings say, weekdays included;
\* and what is declined is bound to a date, in a zone of half hours, not
\* understood, or cannot be said in one expression - or names all seven weekdays.
TranslationIsFaithful(e) ==
    IF ~Declined(e) THEN e.offset % 60 = 0 /\ FiresTranslated(e) = FiresInUtc(e)
    ELSE \/ e.offset % 60 # 0 \/ e.dated
         \/ Hours(e) = {} \/ Weekdays(e) = {}
         \/ ~Sayable(FiresInUtc(e))
         \/ Weekdays(e) = 0 .. 6

=============================================================================
