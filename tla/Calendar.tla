------------------------------ MODULE Calendar ------------------------------
(***************************************************************************)
(* The time field of an event (format_ts and days_to_ymd of                *)
(* src/runtime.rs), beside a calendar that turns its pages day by day.     *)
(* A capture's time stamps are unsigned 32-bit seconds, so the days run    *)
(* from 1970-01-01 to 2106-02-07.                                          *)
(***************************************************************************)
EXTENDS Integers, Sequences

CONSTANTS
    LastDay,   \* the last day of a time stamp, counted from 1970-01-01
    Seconds    \* seconds of a day to look at

VARIABLES
    day,    \* days since 1970-01-01
    page    \* the date by the calendar: year, month, day of the month

cvars == <<day, page>>

ASSUME SecondsAssumption == \A s \in Seconds : s \in Nat /\ s < 86400
-----------------------------------------------------------------------------
\* Mutation of DaysToYmd: the leap day that ends an era is not provided for.
YmdNoEraEnd(days) ==
    LET z == days + 719468
        era == z \div 146097
        doe == z % 146097
        yoe == (doe - doe \div 1460 + doe \div 36524) \div 365
        doy == doe - (365 * yoe + yoe \div 4 - yoe \div 100)
        mp == (5 * doy + 2) \div 153
        month == IF mp < 10 THEN mp + 3 ELSE mp - 9
    IN  <<yoe + era * 400 + (IF month <= 2 THEN 1 ELSE 0), month,
          doy - (153 * mp + 2) \div 5 + 1>>

\* Years begin in March here, eras of 400 years at 0000-03-01.
DaysToYmd(days) ==
    LET z == days + 719468
        era == z \div 146097
        doe == z % 146097
        yoe == (doe - doe \div 1460 + doe \div 36524 - doe \div 146096) \div 365
        doy == doe - (365 * yoe + yoe \div 4 - yoe \div 100)
        mp == (5 * doy + 2) \div 153
        month == IF mp < 10 THEN mp + 3 ELSE mp - 9
    IN  <<yoe + era * 400 + (IF month <= 2 THEN 1 ELSE 0), month,
          doy - (153 * mp + 2) \div 5 + 1>>

\* Year, month, day, hour, minute and second of a number of seconds, given as
\* days and seconds within the day: their sum passes TLC's integers in 2038.
FormatTs(days, second) ==
    DaysToYmd(days) \o <<second \div 3600, (second % 3600) \div 60, second % 60>>
-----------------------------------------------------------------------------
Leap(year) == (year % 4 = 0 /\ year % 100 # 0) \/ year % 400 = 0

MonthLength(year, month) ==
    CASE month = 2              -> IF Leap(year) THEN 29 ELSE 28
      [] month \in {4, 6, 9, 11} -> 30
      [] OTHER                  -> 31

NextPage(date) ==
    LET year == date[1]
        month == date[2]
    IN  IF date[3] < MonthLength(year, month) THEN <<year, month, date[3] + 1>>
        ELSE IF month < 12 THEN <<year, month + 1, 1>>
        ELSE <<year + 1, 1, 1>>

CalendarInit == day = 0 /\ page = <<1970, 1, 1>>

TurnPage ==
    /\ day < LastDay
    /\ day' = day + 1
    /\ page' = NextPage(page)

CalendarSpec == CalendarInit /\ [][TurnPage]_cvars

\* The date in an event is that of the Gregorian calendar on every day a capture
\* may be from, and its clock splits the seconds of the day.
TimestampsAreDates ==
    \A s \in Seconds :
       LET t == FormatTs(day, s)
       IN  /\ SubSeq(t, 1, 3) = page
           /\ t[4] \in 0..23 /\ t[5] \in 0..59 /\ t[6] \in 0..59
           /\ 3600 * t[4] + 60 * t[5] + t[6] = s
=============================================================================
