------------------------------ MODULE Calendar ------------------------------
(***************************************************************************)
(* The Gregorian calendar, day by day, as the reference for the closed     *)
(* formulas of time.rs: a clock that starts at the Unix epoch and moves to *)
(* the next day, month or year.                                            *)
(***************************************************************************)
EXTENDS Time

CONSTANT LastYear   \* bound: the clock stops at the end of this year

\* A GeneralizedTime has four digits for the year.
FourDigitYears == 1970..9999

ASSUME LastYearAssumption == LastYear \in FourDigitYears

VARIABLES year, month, day, elapsed   \* elapsed: the days since the epoch

clock == << year, month, day, elapsed >>

\* Every fourth year but three centuries out of four has 366 days.
Leap(y) == IF y % 100 = 0 THEN (y \div 100) % 4 = 0 ELSE y % 4 = 0

MonthLength(y, m) ==
    IF m = 2 /\ Leap(y) THEN 29
    ELSE << 31, 28, 31, 30, 31, 30, 31, 31, 30, 31, 30, 31 >>[m]

ClockInit == year = 1970 /\ month = 1 /\ day = 1 /\ elapsed = 0

NextDay ==
    /\ day < MonthLength(year, month)
    /\ day' = day + 1
    /\ UNCHANGED << year, month >>

NextMonth ==
    /\ day = MonthLength(year, month)
    /\ month < 12
    /\ day' = 1
    /\ month' = month + 1
    /\ UNCHANGED year

NextYear ==
    /\ day = MonthLength(year, month)
    /\ month = 12
    /\ year < LastYear
    /\ day' = 1
    /\ month' = 1
    /\ year' = year + 1

Tick == (NextDay \/ NextMonth \/ NextYear) /\ elapsed' = elapsed + 1

\* The bound is reached.
ClockStop ==
    /\ year = LastYear /\ month = 12 /\ day = MonthLength(year, month)
    /\ UNCHANGED clock

Clock == ClockInit /\ [][Tick \/ ClockStop]_clock

-----------------------------------------------------------------------------
Digit(n, power) == 48 + ((n \div power) % 10)

\* YYYYMMDDHHMMSSZ
Generalized(y, mo, d, h, mi, s) ==
    << Digit(y, 1000), Digit(y, 100), Digit(y, 10), Digit(y, 1),
       Digit(mo, 10), Digit(mo, 1), Digit(d, 10), Digit(d, 1), Digit(h, 10), Digit(h, 1),
       Digit(mi, 10), Digit(mi, 1), Digit(s, 10), Digit(s, 1), 90 >>

\* YYMMDDHHMMSSZ
Utc(y, mo, d, h, mi, s) == SubSeq(Generalized(y, mo, d, h, mi, s), 3, 15)

\* The days that the date arithmetic of time_from_ymdhms_utc counts are those
\* that have passed, over leap years, centuries and every month boundary.
DaysTracked == days_before(year, month, day) = elapsed

\* Time::from_der reads a GeneralizedTime of any second of the day as that day
\* and that second.
GeneralizedTimeAgrees ==
    \A h \in {0, 9, 23}, m \in {0, 59}, s \in {0, 59} :
        from_der("GeneralizedTime", Generalized(year, month, day, h, m, s))
            = Ok([days |-> elapsed, seconds |-> (h * 60 + m) * 60 + s])

\* A UTCTime means the same as the GeneralizedTime of the same day up to 2049,
\* and never from 2050 on (RFC 5280 section 4.1.2.5.1).
UtcTimeWindow ==
    LET utc == from_der("UTCTime", Utc(year, month, day, 12, 0, 0))
    IN  utc = from_der("GeneralizedTime", Generalized(year, month, day, 12, 0, 0))
            <=> year <= 2049

\* Time::from_der accepts the days of the calendar and no others, refuses a time
\* that is cut short anywhere and reports octets after the Z.
OnlyCalendarDates ==
    day = 1 =>
        /\ \A m \in 0..13, d \in 0..32 :
               from_der("GeneralizedTime", Generalized(year, m, d, 0, 0, 0)).result
                   = IF m \in 1..12 /\ d \in 1..MonthLength(year, m)
                     THEN "Ok" ELSE "BadDerTime"
        /\ LET value == Generalized(year, month, day, 23, 59, 59)
           IN  /\ \A n \in 0..14 :
                      from_der("GeneralizedTime", SubSeq(value, 1, n)) = Err("BadDerTime")
               /\ \A octet \in {48, 90} :
                      from_der("GeneralizedTime", Append(value, octet)) = Err("TrailingData")
=============================================================================
