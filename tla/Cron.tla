-------------------------------- MODULE Cron --------------------------------
(***************************************************************************)
(* Cron expressions (v2/bus/memory/cron.go): parseCron, and next, a search *)
(* that skips a month, a day, an hour or a minute at a time.  Its loop is  *)
(* the state machine here, one iteration a step.                           *)
(*                                                                         *)
(* The calendar is a parameter: a time is a number of minutes, Month and   *)
(* Day give the month and the day of the month of each day, and weekdays   *)
(* follow each other from day zero.  A field is a sequence of parts; the   *)
(* text they are split from is left out.                                   *)
(***************************************************************************)
EXTENDS Naturals, FiniteSets

CONSTANTS
    Hours, Minutes,     \* per day and per hour
    Month, Day,         \* [days -> month], [days -> day of the month]
    Horizon,            \* minutes in the five years next searches
    Froms,              \* the times next is called with
    MinuteFields, HourFields, DomFields, MonthFields, DowFields

VARIABLES
    fields,         \* the five fields, minute to day-of-week
    expr,           \* cronExpr
    from, t,        \* the argument, and where the search stands
    phase           \* parse, refused, search, found, never

cronVars == <<fields, expr, from, t, phase>>

(* The parts of a field: a star, a range or a number, with a step; a step  *)
(* of zero stands for one that is not a positive number.                   *)
Star(step) == [kind |-> "star", lo |-> 0, hi |-> 0, step |-> step]
Span(lo, hi, step) == [kind |-> "range", lo |-> lo, hi |-> hi, step |-> step]
Num(n, step) == [kind |-> "num", lo |-> n, hi |-> n, step |-> step]

----------------------------------------------------------------------------
(* fillField: the numbers a part marks, and whether it is valid.           *)
Fold(weekday, n) == IF weekday /\ n = 7 THEN 0 ELSE n

PartBad(p, min, max, weekday) ==
    \/ p.step = 0
    \/ /\ p.kind \in {"range", "num"}
       /\ \/ Fold(weekday, p.lo) > Fold(weekday, p.hi)
          \/ Fold(weekday, p.lo) < min
          \/ Fold(weekday, p.hi) > max
    \/ p.kind = "num" /\ p.step # 1

Steps(lo, hi, step) == {n \in lo .. hi : (n - lo) % step = 0}

Marked(p, min, max, weekday) ==
    CASE p.kind = "star" -> Steps(min, max, p.step)
      [] p.kind = "range" -> Steps(Fold(weekday, p.lo), Fold(weekday, p.hi), p.step)
      [] p.kind = "num" -> {Fold(weekday, p.lo)}

FieldBad(f, min, max, weekday) == f = {} \/ \E p \in f : PartBad(p, min, max, weekday)
FillField(f, min, max, weekday) == UNION {Marked(p, min, max, weekday) : p \in f}

(* parseCron: a day field is restricted unless it is written "*".          *)
Restricted(f) == f # {Star(1)}

Init ==
    /\ fields \in [minute : MinuteFields, hour : HourFields, dom : DomFields,
                   month : MonthFields, dow : DowFields]
    /\ expr = <<>>
    /\ from \in Froms
    /\ t = from
    /\ phase = "parse"

Bad ==
    \/ FieldBad(fields.minute, 0, 59, FALSE)
    \/ FieldBad(fields.hour, 0, 23, FALSE)
    \/ FieldBad(fields.dom, 1, 31, FALSE)
    \/ FieldBad(fields.month, 1, 12, FALSE)
    \/ FieldBad(fields.dow, 0, 6, TRUE)

Refuse ==
    /\ phase = "parse"
    /\ Bad
    /\ phase' = "refused"
    /\ UNCHANGED <<fields, expr, from, t>>

ParseCron ==
    /\ phase = "parse"
    /\ ~Bad
    /\ expr' = [minute |-> FillField(fields.minute, 0, 59, FALSE),
                hour |-> FillField(fields.hour, 0, 23, FALSE),
                dom |-> FillField(fields.dom, 1, 31, FALSE),
                month |-> FillField(fields.month, 1, 12, FALSE),
                dow |-> FillField(fields.dow, 0, 6, TRUE),
                domRestricted |-> Restricted(fields.dom),
                dowRestricted |-> Restricted(fields.dow)]
    /\ t' = from + 1
    /\ phase' = "search"
    /\ UNCHANGED <<fields, from>>

----------------------------------------------------------------------------
(* The calendar.                                                           *)
PerDay == Hours * Minutes
DayOf(x) == x \div PerDay
HourOf(x) == (x % PerDay) \div Minutes
MinuteOf(x) == x % Minutes
StartOfDay(d) == d * PerDay
MonthAfter(d) ==
    CHOOSE e \in DOMAIN Month :
        /\ e > d
        /\ Day[e] = 1
        /\ \A f \in (d + 1) .. (e - 1) : Day[f] # 1

(* matchesDay: when both day fields are restricted, either may match.      *)
MatchesDay(x) ==
    LET dom == Day[DayOf(x)] \in expr.dom
        dow == DayOf(x) % 7 \in expr.dow
    IN CASE expr.domRestricted /\ expr.dowRestricted -> dom \/ dow
         [] expr.domRestricted /\ ~expr.dowRestricted -> dom
         [] ~expr.domRestricted /\ expr.dowRestricted -> dow
         [] OTHER -> TRUE

(* One iteration of next's loop: the coarsest field that does not match    *)
(* moves the search to the start of its next value.                        *)
Searching == phase = "search" /\ t < from + Horizon
MoveTo(x) == t' = x /\ UNCHANGED <<fields, expr, from, phase>>

SkipMonth ==
    /\ Searching
    /\ Month[DayOf(t)] \notin expr.month
    /\ MoveTo(StartOfDay(MonthAfter(DayOf(t))))

SkipDay ==
    /\ Searching
    /\ Month[DayOf(t)] \in expr.month
    /\ ~MatchesDay(t)
    /\ MoveTo(StartOfDay(DayOf(t) + 1))

StartOfNextHour_SameMinute(x) == x + Minutes
StartOfNextHour(x) == x - MinuteOf(x) + Minutes

SkipHour ==
    /\ Searching
    /\ Month[DayOf(t)] \in expr.month
    /\ MatchesDay(t)
    /\ HourOf(t) \notin expr.hour
    /\ MoveTo(StartOfNextHour(t))

Matches(x) ==
    /\ Month[DayOf(x)] \in expr.month
    /\ MatchesDay(x)
    /\ HourOf(x) \in expr.hour
    /\ MinuteOf(x) \in expr.minute

SkipMinute ==
    /\ Searching
    /\ Month[DayOf(t)] \in expr.month
    /\ MatchesDay(t)
    /\ HourOf(t) \in expr.hour
    /\ MinuteOf(t) \notin expr.minute
    /\ MoveTo(t + 1)

Found ==
    /\ Searching
    /\ Matches(t)
    /\ phase' = "found"
    /\ UNCHANGED <<fields, expr, from, t>>

Never ==
    /\ phase = "search"
    /\ t >= from + Horizon
    /\ phase' = "never"
    /\ UNCHANGED <<fields, expr, from, t>>

Next == Refuse \/ ParseCron \/ SkipMonth \/ SkipDay \/ SkipHour \/ SkipMinute \/ Found \/ Never
Spec == Init /\ [][Next]_cronVars /\ WF_cronVars(Next)

----------------------------------------------------------------------------
(* What a day-of-week field selects, said directly: a range from a to b    *)
(* has the days a to b, every step of them, and day 7 is day 0.  (A range  *)
(* that ends in 7 is left out: fillField folds both ends first, so that    *)
(* "5-7" is refused and "0-7" is Sunday alone.)                            *)
Selects(p, n) ==
    CASE p.kind = "star" -> n % p.step = 0
      [] p.kind = "num" -> n = p.lo % 7
      [] p.kind = "range" -> \E k \in 0 .. 6 : n = p.lo + k * p.step /\ n <= p.hi
WeekdaysMeant ==
    phase \in {"search", "found", "never"} /\ (\A p \in fields.dow : p.kind = "range" => p.hi # 7)
        => expr.dow = {n \in 0 .. 6 : \E p \in fields.dow : Selects(p, n)}

(* The cron rule for a day, said directly: a field that is not restricted  *)
(* does not count, and of two that are either is enough.                   *)
DayMeant(x) ==
    LET days == {f \in {"dom", "dow"} : IF f = "dom" THEN expr.domRestricted ELSE expr.dowRestricted}
        hit(f) == IF f = "dom" THEN Day[DayOf(x)] \in expr.dom ELSE DayOf(x) % 7 \in expr.dow
    IN days = {} \/ \E f \in days : hit(f)

(* The skips never jump over a time the expression names: when next gives  *)
(* a time it is the first one after from, and when it gives none there is  *)
(* none in its five years.                                                 *)
NothingSkipped ==
    phase \in {"search", "found", "never"} =>
        \A x \in (from + 1) .. (from + Horizon - 1) :
            x < t => ~(/\ Month[DayOf(x)] \in expr.month /\ DayMeant(x)
                       /\ HourOf(x) \in expr.hour /\ MinuteOf(x) \in expr.minute)

(* The search ends.                                                        *)
SearchEnds == phase = "parse" ~> phase \in {"refused", "found", "never"}
=============================================================================
