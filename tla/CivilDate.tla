------------------------------- MODULE CivilDate -------------------------------
(***************************************************************************)
(* aws_timestamp: the date and time of an S3 signature, computed from the  *)
(* seconds since 1970 by arithmetic alone, against a calendar that counts  *)
(* days, months and years.                                                 *)
(***************************************************************************)
EXTENDS Integers, Sequences

CONSTANTS
    Years,    \* the years looked at, 1970 and later
    Times     \* the times of day looked at, in seconds

DateAssumption == (\A year \in Years : year \in Nat /\ year >= 1970) /\ Times \subseteq 0..86399

VARIABLES
    time,    \* the time since the epoch: whole days, and the seconds left over
    date     \* what a calendar shows

vars == <<time, date>>

-----------------------------------------------------------------------------
\* Years begin in March, so that the leap day is the last.  z is not negative here,
\* where Rust's division and TLA+'s agree.
CivilFromDays(days) ==
    LET z == days + 719468
        era == z \div 146097
        doe == z - era * 146097
        yoe == (doe - doe \div 1460 + doe \div 36524 - doe \div 146096) \div 365
        doy == doe - (365 * yoe + yoe \div 4 - yoe \div 100)
        mp == (5 * doy + 2) \div 153
        month == IF mp < 10 THEN mp + 3 ELSE mp - 9
    IN [year |-> yoe + era * 400 + IF month <= 2 THEN 1 ELSE 0, month |-> month,
        day |-> doy - (153 * mp + 2) \div 5 + 1]

\* The quotient and the remainder of the seconds by 86 400 are kept apart, because
\* their sum leaves the range of TLC's integers in 2038.
AwsTimestamp(t) ==
    [date |-> CivilFromDays(t.days),
     hour |-> t.rest \div 3600, minute |-> (t.rest % 3600) \div 60, second |-> t.rest % 60]

-----------------------------------------------------------------------------
(* The calendar.                                                           *)

Leap(year) == year % 4 = 0 /\ (year % 100 # 0 \/ year % 400 = 0)

DaysIn(year, month) ==
    IF month = 2 THEN (IF Leap(year) THEN 29 ELSE 28)
    ELSE IF month \in {4, 6, 9, 11} THEN 30 ELSE 31

Tomorrow(d) ==
    IF d.day < DaysIn(d.year, d.month) THEN [d EXCEPT !.day = @ + 1]
    ELSE IF d.month < 12 THEN [d EXCEPT !.month = @ + 1, !.day = 1]
    ELSE [year |-> d.year + 1, month |-> 1, day |-> 1]

\* The days from 1970 to the first of January.
NewYear(year) ==
    365 * (year - 1970) + (year - 1969) \div 4 - (year - 1901) \div 100 + (year - 1601) \div 400

Init ==
    \E year \in Years, seconds \in Times :
        /\ time = [days |-> NewYear(year), rest |-> seconds]
        /\ date = [year |-> year, month |-> 1, day |-> 1]

\* A walk ends with its year.
Pass ==
    /\ Tomorrow(date).year = date.year
    /\ time' = [time EXCEPT !.days = @ + 1]
    /\ date' = Tomorrow(date)

Next == Pass

Spec == Init /\ [][Next]_vars

-----------------------------------------------------------------------------
\* The timestamp names the second the calendar shows, through leap days and the
\* centuries that have none, and it is a time of day.
TimestampTrue ==
    LET stamp == AwsTimestamp(time)
    IN /\ stamp.date = date
       /\ stamp.hour * 3600 + stamp.minute * 60 + stamp.second = time.rest
       /\ stamp.hour \in 0..23 /\ stamp.minute \in 0..59 /\ stamp.second \in 0..59

=============================================================================
