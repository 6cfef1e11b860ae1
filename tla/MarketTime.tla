------------------------------ MODULE MarketTime ------------------------------
(***************************************************************************)
(* The calendar of market discovery: which slugs are asked for at a given  *)
(* moment, and when a market ends.  As in OrderAmounts, one step applies a *)
(* function to an input and the property compares it with a definition     *)
(* that does not use its algorithm.                                        *)
(*                                                                         *)
(* A moment is a number of hours since 1970 where only the hour matters,   *)
(* and <<day, millisecond>> where the code counts milliseconds.            *)
(***************************************************************************)
EXTENDS Integers, Sequences, FiniteSets, SequencesExt

CONSTANTS Times      \* the calls to try, one record each

VARIABLES asked, told

vars == <<asked, told>>

-----------------------------------------------------------------------------
DayOfYear(month, day) == ((153 * (month + (IF month > 2 THEN -3 ELSE 9)) + 2) \div 5) + day - 1
DayInEra(era, yearOfEra, dayOfYear) ==
    era * 146097 + yearOfEra * 365 + (yearOfEra \div 4) - (yearOfEra \div 100) + dayOfYear - 719468
DaysFromMarch(y, month, day) == DayInEra(y \div 400, y % 400, DayOfYear(month, day))
DaysFromCivil(year, month, day) == DaysFromMarch(IF month <= 2 THEN year - 1 ELSE year, month, day)

LeapYear(year) == year % 4 = 0 /\ (year % 100 # 0 \/ year % 400 = 0)
DaysInMonth(year, month) ==
    IF month = 2 /\ LeapYear(year) THEN 29
    ELSE <<31, 28, 31, 30, 31, 30, 31, 31, 30, 31, 30, 31>>[month]

Weekday(year, month, day) == (DaysFromCivil(year, month, day) + 4) % 7

(* gmtime_r: external. *)
YearOf(days) ==
    CHOOSE y \in ((days \div 366) + 1970)..((days \div 365) + 1970) :
        DaysFromCivil(y, 1, 1) <= days /\ days < DaysFromCivil(y + 1, 1, 1)
DateFrom(year, days, first) ==
    LET month == CHOOSE m \in 1..12 : first[m] <= days /\ days < first[m] + DaysInMonth(year, m)
    IN [year |-> year, month |-> month, day |-> days - first[month] + 1]
DateIn(year, days) == DateFrom(year, days, [m \in 1..12 |-> DaysFromCivil(year, m, 1)])
CivilFromDays(days) == DateIn(YearOf(days), days)

FirstSunday(year, month) == 1 + ((7 - Weekday(year, month, 1)) % 7)

(* new_york_utc_offset, in hours. *)
OffsetIn(year, hours) ==
    IF /\ 24 * DaysFromCivil(year, 3, FirstSunday(year, 3) + 7) + 7 <= hours
       /\ hours < 24 * DaysFromCivil(year, 11, FirstSunday(year, 11)) + 6
    THEN -4 ELSE -5
NewYorkOffset(hours) == OffsetIn(YearOf(hours \div 24), hours)

(* format_new_york_hour_slug: the year is not part of it. *)
SlugOf(date, hour) ==
    <<date.month, date.day,
      CASE hour = 0 -> <<12, "am">> [] hour = 12 -> <<12, "pm">>
        [] hour \in 1..11 -> <<hour, "am">> [] OTHER -> <<hour - 12, "pm">> >>
LocalSlug(local) == SlugOf(CivilFromDays(local \div 24), local % 24)
HourSlug(hours) == LocalSlug(hours + NewYorkOffset(hours))

(* generate_new_york_hour_slugs: from the hour before on; two hours may share a slug. *)
AddSlug(slugs, slug) == IF slug \in ToSet(slugs) THEN slugs ELSE Append(slugs, slug)
HourSlugs(hours, count) ==
    FoldLeft(LAMBDA slugs, offset :
                IF Len(slugs) >= count \/ hours + offset < 0 THEN slugs
                ELSE AddSlug(slugs, HourSlug(hours + offset)),
             <<>>, [i \in 1..(count + 3) |-> i - 2])

(* aligned_market_timestamps *)
AlignedTimestamps(now, interval, count) ==
    IF interval = 0 \/ count <= 0 THEN <<>>
    ELSE [i \in 1..count |-> (now \div interval) * interval + interval * (i - 1)]

(* parse_iso8601_ms of the fields of a well-formed text; 0 for a date that is none. *)
Milliseconds(fraction) ==
    CASE Len(fraction) = 0 -> 0
      [] Len(fraction) = 1 -> fraction[1] * 100
      [] Len(fraction) = 2 -> (fraction[1] * 10 + fraction[2]) * 10
      [] OTHER -> fraction[1] * 100 + fraction[2] * 10 + fraction[3]
ParseIso8601(t) ==
    IF t.year < 1970 \/ t.month \notin 1..12 THEN <<0, 0>>
    ELSE IF t.day \notin 1..DaysInMonth(t.year, t.month) \/ t.hour > 23 THEN <<0, 0>>
    ELSE <<DaysFromCivil(t.year, t.month, t.day), t.hour * 3600000 + Milliseconds(t.fraction)>>

-----------------------------------------------------------------------------
Nothing == <<>>
InitState == asked \in Times /\ told = Nothing
Init == InitState

Answer ==
    /\ told = Nothing
    /\ told' = CASE asked.kind = "day" ->
                      <<DaysFromCivil(asked.year, asked.month, asked.day),
                        Weekday(asked.year, asked.month, asked.day)>>
                 [] asked.kind = "hours" -> HourSlugs(asked.now, asked.count)
                 [] asked.kind = "window" -> AlignedTimestamps(asked.now, asked.interval, asked.count)
                 [] asked.kind = "iso" -> ParseIso8601(asked)
    /\ UNCHANGED asked

Next == Answer
Spec == Init /\ [][Next]_vars

-----------------------------------------------------------------------------
Is(kind) == asked.kind = kind /\ told # Nothing

(* The days of the years before this date, counted one by one. *)
DayNumber(year, month, day) ==
    365 * (year - 1970) + Cardinality({y \in 1970..(year - 1) : LeapYear(y)}) + day - 1
    + Cardinality({d \in (1..(month - 1)) \X (1..31) : d[2] <= DaysInMonth(year, d[1])})

(* Sundays of a month by counting weeks from Sunday 4 January 1970. *)
Sundays(year, month) ==
    {d \in 1..DaysInMonth(year, month) : (DayNumber(year, month, d) - 3) % 7 = 0}
Nth(n, set) == CHOOSE d \in set : Cardinality({e \in set : e < d}) = n - 1

(* The clock on a wall in New York: daylight saving time from 2 a.m. on the second Sunday
   of March to 2 a.m. on the first Sunday of November. *)
WallOffset(hours, year) ==
    IF /\ hours >= 24 * DayNumber(year, 3, Nth(2, Sundays(year, 3))) + 2 + 5
       /\ hours < 24 * DayNumber(year, 11, Nth(1, Sundays(year, 11))) + 2 + 4
    THEN -4 ELSE -5

(* Discovery asks for the right markets: day numbers and weekdays follow the calendar, the
   slugs are the distinct wall-clock hours from the one before, so that the running hour is
   among them also when the clocks change, the first timestamp is the running window's, and
   an end date is its instant, truncated to the millisecond, or 0. *)
MarketTimeExact ==
    /\ Is("day") => told = <<DayNumber(asked.year, asked.month, asked.day),
                             (DayNumber(asked.year, asked.month, asked.day) - 3) % 7>>
    /\ Is("hours") =>
         /\ Len(told) = asked.count /\ IsInjective(told)
         /\ HourSlug(asked.now) \in ToSet(told)
         /\ NewYorkOffset(asked.now) = WallOffset(asked.now, asked.year)
    /\ Is("window") =>
         told[1] <= asked.now /\ asked.now < told[1] + asked.interval /\ told[1] % asked.interval = 0
    /\ Is("iso") =>
         LET real == asked.year >= 1970 /\ asked.month \in 1..12 /\ asked.hour < 24
                     /\ asked.day \in 1..DaysInMonth(asked.year, IF asked.month \in 1..12 THEN asked.month ELSE 1)
             scaled == FoldLeft(LAMBDA n, i : n + asked.fraction[i] * (10 ^ (5 - i)), 0,
                                [i \in 1..Len(asked.fraction) |-> i])
         IN told = IF real THEN <<DayNumber(asked.year, asked.month, asked.day),
                                  asked.hour * 3600000 + (scaled \div 100)>>
                   ELSE <<0, 0>>
=============================================================================
