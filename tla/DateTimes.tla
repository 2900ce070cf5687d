----------------------------- MODULE DateTimes -----------------------------
(***************************************************************************)
(* The date, time and duration arithmetic of the expression evaluator      *)
(* (packages/utils-expression-evaluator/lib/util): SpecAlgos,              *)
(* DateTimeHelpers, Parsing and Serialization.                             *)
(*                                                                         *)
(* A representation is a record of integers. A field that JavaScript       *)
(* leaves undefined has the value Undefined, which no date uses. Seconds   *)
(* are whole: fractions of a second are not modelled, milliseconds of a    *)
(* JavaScript Date are.                                                    *)
(***************************************************************************)
EXTENDS Integers

CONSTANT Undefined          \* an integer that stands for JavaScript's undefined

ASSUME UndefinedAssumption == Undefined \in Int

Or(value, default) == IF value = Undefined THEN default ELSE value     \* ??
AbsoluteInt(i) == IF i < 0 THEN -i ELSE i
Trunc(a, b) == IF a >= 0 THEN a \div b ELSE -((-a) \div b)             \* Math.trunc(a / b)
Rem(a, b)   == a - b * Trunc(a, b)                                     \* a % b

(* The quotient and the remainder of arg in the interval from low to high.   *)
fDiv(arg, high, low) ==
    LET intDiv == (arg - low) \div (high - low)
    IN  [intDiv |-> intDiv, remainder |-> arg - intDiv * (high - low)]

maximumDayInMonthFor(yearValue, monthValue) ==
    LET carried == fDiv(monthValue, 13, 1)
        month == carried.remainder
        year == yearValue + carried.intDiv
    IN  CASE month \in {1, 3, 5, 7, 8, 10, 12} -> 31
          [] month \in {4, 6, 9, 11} -> 30
          [] month = 2 /\ \/ year % 400 = 0
                          \/ year % 100 # 0 /\ year % 4 = 0 -> 29
          [] OTHER -> 28

(* The loop of addDurationToDateTime that moves a day outside its month to   *)
(* the month before or after, until it fits. The day decreases or increases  *)
(* by at least 28 each time, so it ends; DayBound bounds the domain.         *)
DayBound == 2000
DayInMonth(date) == date.day \in 1 .. maximumDayInMonthFor(date.year, date.month)
CarriedDaySameMonth(date) ==                                                   \* mutant
    LET back  == date.day < 1
        month == fDiv(date.month + (IF back THEN -1 ELSE 1), 13, 1)
        days  == maximumDayInMonthFor(date.year, date.month)
    IN  [date EXCEPT !.day = IF back THEN @ + days ELSE @ - days,
                     !.month = month.remainder, !.year = @ + month.intDiv]

CarriedDay(date) ==
    LET back  == date.day < 1
        month == fDiv(date.month + (IF back THEN -1 ELSE 1), 13, 1)
    IN  [date EXCEPT
           !.day = IF back
                   THEN @ + maximumDayInMonthFor(date.year, date.month - 1)
                   ELSE @ - maximumDayInMonthFor(date.year, date.month),
           !.month = month.remainder,
           !.year = @ + month.intDiv]
Settled(date) ==
    LET settle[k \in 0 .. DayBound] ==
          IF k = 0 THEN date
          ELSE IF DayInMonth(settle[k - 1]) THEN settle[k - 1]
                                            ELSE CarriedDay(settle[k - 1])
    IN  settle[AbsoluteInt(date.day) \div 28 + 1]

(* The date and time that lies a duration after another one; the zone stays. *)
addDurationToDateTime(date, duration) ==
    LET month   == fDiv(date.month + duration.month, 13, 1)
        seconds == fDiv(date.seconds + duration.seconds, 60, 0)
        minutes == fDiv(date.minutes + duration.minutes + seconds.intDiv, 60, 0)
        hours   == fDiv(date.hours + duration.hours + minutes.intDiv, 24, 0)
    IN  Settled([date EXCEPT
                   !.month = month.remainder,
                   !.year = date.year + duration.year + month.intDiv,
                   !.seconds = seconds.remainder,
                   !.minutes = minutes.remainder,
                   !.hours = hours.remainder,
                   !.day = date.day + duration.day + hours.intDiv])

-----------------------------------------------------------------------------
(* Durations and their defaults. *)

DurationFields == {"year", "month", "day", "hours", "minutes", "seconds"}
DayTimeFields  == {"day", "hours", "minutes", "seconds"}

defaultedDayTimeDurationRepresentation(rep) ==
    [f \in DurationFields |-> IF f \in DayTimeFields THEN Or(rep[f], 0) ELSE Undefined]
defaultedYearMonthDurationRepresentation(rep) ==
    [f \in DurationFields |-> IF f \in DayTimeFields THEN Undefined ELSE Or(rep[f], 0)]
defaultedDurationRepresentation(rep) == [f \in DurationFields |-> Or(rep[f], 0)]

negateDuration(dur) ==
    [f \in DurationFields |-> IF dur[f] = Undefined THEN Undefined ELSE -dur[f]]

trimToYearMonthDuration(dur) ==
    [f \in DurationFields |-> IF f \in DayTimeFields THEN Undefined ELSE dur[f]]
trimToDayTimeDuration(dur) ==
    [f \in DurationFields |-> IF f \in DayTimeFields THEN dur[f] ELSE Undefined]

yearMonthDurationsToMonths(dur) == dur.year * 12 + dur.month
dayTimeDurationsToSeconds(dur) ==
    (((dur.day * 24) + dur.hours) * 60 + dur.minutes) * 60 + dur.seconds

(* Carries what exceeds a unit to the next larger one; zero parts are left   *)
(* out, and a part keeps its whole value when nothing was carried past it.   *)
Part(value) == IF value = 0 THEN Undefined ELSE value
simplifyDurationRepresentation(rep) ==
    LET carried(t, f, n, units) ==
            [g \in DurationFields |-> IF g = f THEN n
                                     ELSE IF n # 0 /\ g \in DOMAIN units THEN Rem(t[g], units[g]) ELSE t[g]]
        inYears(t) == carried(t, "year", t.year + Trunc(t.month, 12), [month |-> 12])
        inDays(t) == carried(t, "day", t.day + Trunc(t.hours, 24) + Trunc(t.minutes, 24 * 60)
                                         + Trunc(t.seconds, 24 * 60 * 60),
                             [hours |-> 24, minutes |-> 24 * 60, seconds |-> 24 * 60 * 60])
        inHours(t) == carried(t, "hours", t.hours + Trunc(t.minutes, 60) + Trunc(t.seconds, 60 * 60),
                              [minutes |-> 60, seconds |-> 60 * 60])
        inMinutes(t) == carried(t, "minutes", t.minutes + Trunc(t.seconds, 60), [seconds |-> 60])
        simplified(t) == [f \in DurationFields |-> Part(t[f])]
    IN  simplified(inMinutes(inHours(inDays(inYears(defaultedDurationRepresentation(rep))))))

-----------------------------------------------------------------------------
(* Dates, and the instant they stand for. *)

defaultedDateTimeRepresentation(rep) ==
    [rep EXCEPT !.day = Or(@, 1), !.hours = Or(@, 0), !.month = Or(@, 1),
                !.year = Or(@, 0), !.seconds = Or(@, 0), !.minutes = Or(@, 0)]

(* Days from the first of January of the year 0 (the JavaScript Date).       *)
DaysBeforeYear(y) == 365 * y + ((y + 3) \div 4) - ((y + 99) \div 100) + ((y + 399) \div 400)
DaysBeforeMonth(y, m) ==
    LET days[k \in 0 .. 12] ==
          IF k = 0 THEN 0 ELSE days[k - 1] + maximumDayInMonthFor(y, k)
    IN  days[m - 1]

(* Seconds since then of the time in its zone. A machine in UTC is assumed:  *)
(* the local offset that toJSDate introduces is taken out again.             *)
toUTCDate(date, defaultTimezone) ==
    LET d == defaultedDateTimeRepresentation(date)
    IN  ((DaysBeforeYear(d.year) + DaysBeforeMonth(d.year, d.month) + d.day - 1) * 86400
         + d.hours * 3600 + d.minutes * 60 + d.seconds)
        - (Or(date.zoneHours, defaultTimezone.zoneHours) * 60
             + Or(date.zoneMinutes, defaultTimezone.zoneMinutes)) * 60

(* The duration between two dates. The division of the first part rounds     *)
(* down, the remainders keep the sign, and the last part is left in          *)
(* milliseconds.                                                             *)
elapsedDuration(first, second, defaultTimeZone) ==
    LET diff == toUTCDate(first, defaultTimeZone) - toUTCDate(second, defaultTimeZone)
    IN  [year |-> Undefined, month |-> Undefined,
         day |-> diff \div 86400,
         hours |-> Rem(diff, 86400) \div 3600,
         minutes |-> Rem(diff, 3600) \div 60,
         seconds |-> 1000 * Rem(diff, 60)]

(* The zone of a JavaScript Date, from the minutes that getTimezoneOffset    *)
(* returns: positive west of Greenwich. Hours are in sixtieths.              *)
extractTimeZone(offset) == [zoneHoursTimes60 |-> offset, zoneMinutes |-> Rem(offset, 60)]
-----------------------------------------------------------------------------
(* Parsing and serialization. A lexical form is the record of the fields     *)
(* that the regular expression of the parser picks out of the string; its    *)
(* zone is [sign, hours, minutes] with sign "", "Z", "+" or "-".             *)

ParseError == [failed |-> TRUE]
NoZone == [sign |-> "", hours |-> 0, minutes |-> 0]

parseTimeZone(zone) ==
    LET sign == IF zone.sign = "-" THEN -1 ELSE 1
    IN  IF zone.sign = ""
        THEN [zoneHours |-> Undefined, zoneMinutes |-> Undefined]
        ELSE [zoneHours |-> sign * zone.hours, zoneMinutes |-> sign * zone.minutes]

(* The sign is that of the hours alone.                                      *)
serializeTimeZone(tz) ==
    IF tz.zoneHours = Undefined \/ tz.zoneMinutes = Undefined THEN NoZone
    ELSE IF tz.zoneHours = 0 /\ tz.zoneMinutes = 0 THEN [NoZone EXCEPT !.sign = "Z"]
    ELSE [sign |-> IF tz.zoneHours >= 0 THEN "+" ELSE "-",
          hours |-> AbsoluteInt(tz.zoneHours), minutes |-> AbsoluteInt(tz.zoneMinutes)]

(* Every date and time representation has all the fields; those that a       *)
(* literal of its type lacks are undefined.                                  *)
DateOf(form, fields) ==
    LET zone == parseTimeZone(form.zone)
    IN  [f \in {"year", "month", "day", "hours", "minutes", "seconds",
                "zoneHours", "zoneMinutes"} |->
           IF f \in fields THEN form[f]
           ELSE IF f \in DOMAIN zone THEN zone[f] ELSE Undefined]

ValidDate(form) ==
    /\ form.month \in 1 .. 12
    /\ form.day \in 1 .. maximumDayInMonthFor(form.year, form.month)
ValidTime(form) ==
    /\ form.seconds < 60 /\ form.minutes < 60 /\ form.hours <= 24
    /\ form.hours = 24 => form.minutes = 0 /\ form.seconds = 0

parseDate(form) ==
    IF ValidDate(form) THEN DateOf(form, {"year", "month", "day"}) ELSE ParseError

(* A time drops the 24th hour; a dateTime keeps it for the day to roll over. *)
parseTime(form) ==
    IF ValidTime(form)
    THEN [DateOf(form, {"hours", "minutes", "seconds"}) EXCEPT !.hours = @ % 24]
    ELSE ParseError
parseDateTime(form) ==
    IF ValidDate(form) /\ ValidTime(form)
    THEN DateOf(form, {"year", "month", "day", "hours", "minutes", "seconds"})
    ELSE ParseError

Serialized(date, fields) ==
    [f \in fields \cup {"zone"} |->
       IF f = "zone" THEN serializeTimeZone(date) ELSE date[f]]
serializeDateTime(date) ==
    Serialized(date, {"year", "month", "day", "hours", "minutes", "seconds"})
serializeDate(date) == Serialized(date, {"year", "month", "day"})
serializeTime(time) == Serialized(time, {"hours", "minutes", "seconds"})

(* The lexical form of a duration has a sign and natural numbers; a number   *)
(* that is not written is undefined.                                         *)
parseDuration(form) ==
    IF \A f \in DurationFields : form[f] = Undefined THEN ParseError
    ELSE simplifyDurationRepresentation(
           [f \in DurationFields |->
              IF form[f] = Undefined THEN Undefined
              ELSE IF form.negative THEN -form[f] ELSE form[f]])

Written(part) == part # Undefined /\ part # 0
parseYearMonthDuration(form) ==
    LET withoutTime(res) == IF res = ParseError \/ \E f \in DayTimeFields : Written(res[f])
                            THEN ParseError ELSE res
    IN  withoutTime(parseDuration(form))
parseDayTimeDuration(form) ==
    LET withoutMonths(res) == IF res = ParseError \/ Written(res.year) \/ Written(res.month)
                              THEN ParseError ELSE res
    IN  withoutMonths(parseDuration(form))

(* One sign for all the parts: it is negative when any part is.              *)
serializeDuration(dur, zeroField) ==
    LET parts == [f \in DurationFields |->
                    IF Written(dur[f]) THEN AbsoluteInt(dur[f]) ELSE Undefined]
        negative == \E f \in DurationFields : Written(dur[f]) /\ dur[f] < 0
        zero == \A f \in DurationFields : ~Written(dur[f])
    IN  [f \in DurationFields \cup {"negative"} |->
           IF f = "negative" THEN negative
           ELSE IF zero /\ f = zeroField THEN 0 ELSE parts[f]]
=============================================================================
