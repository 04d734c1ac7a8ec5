-------------------------------- MODULE Time --------------------------------
(***************************************************************************)
(* Decoding of UTCTime and GeneralizedTime (time.rs).                      *)
(*                                                                         *)
(* The u64 count of seconds since the epoch is kept as [days, seconds],    *)
(* seconds being those of the day (the count is days * 86400 + seconds and *)
(* stays far below 2^64 for four-digit years).  An encoded time is its tag *)
(* and the sequence of its octets.                                         *)
(***************************************************************************)
EXTENDS Errors

UNIX_EPOCH_YEAR == 1970

DAYS_BEFORE_UNIX_EPOCH_AD == 1969 * 365 + 477

\* Mutant of days_in_feb: no exception for centuries.
days_in_feb_julian(year) == IF year % 4 = 0 THEN 29 ELSE 28

days_in_feb(year) ==
    IF year % 4 = 0 /\ (year % 100 # 0 \/ year % 400 = 0) THEN 29 ELSE 28

\* Mutant of days_in_month: February always has a leap day.
days_in_month_leap(year, month) ==
    IF month \in {4, 6, 9, 11} THEN 30 ELSE IF month = 2 THEN 29 ELSE 31

days_in_month(year, month) ==
    IF month \in {4, 6, 9, 11} THEN 30
    ELSE IF month = 2 THEN days_in_feb(year) ELSE 31

days_before_year_ad(year) ==
    (year - 1) * 365 + (year - 1) \div 4 - (year - 1) \div 100 + (year - 1) \div 400

days_before_month_in_year(year, month) ==
    LET feb == days_in_feb(year)
    IN  << 0, 31, 31 + feb, 62 + feb, 92 + feb, 123 + feb, 153 + feb,
           184 + feb, 215 + feb, 245 + feb, 276 + feb, 306 + feb >>[month]

\* The whole days between the epoch and a date.
days_before(year, month, day_of_month) ==
    days_before_year_ad(year) - DAYS_BEFORE_UNIX_EPOCH_AD
        + days_before_month_in_year(year, month) + day_of_month - 1

time_from_ymdhms_utc(year, month, day_of_month, hours, minutes, seconds) ==
    IF year < UNIX_EPOCH_YEAR THEN Err("BadDerTime")
    ELSE Ok([days    |-> days_before(year, month, day_of_month),
             seconds |-> hours * 3600 + minutes * 60 + seconds])

-----------------------------------------------------------------------------
\* The octet is an ASCII digit.
is_digit(octet) == octet \in 48..57

\* The value of the two digits at i and i + 1.
two_digits(value, i) == 10 * (value[i] - 48) + (value[i + 1] - 48)

\* read_two_digits: two digits with a value from min to max.
\* Mutant: max is excluded.
read_two_digits_below(value, i, min, max) ==
    /\ i < Len(value)
    /\ is_digit(value[i]) /\ is_digit(value[i + 1])
    /\ min <= two_digits(value, i) /\ two_digits(value, i) < max

read_two_digits(value, i, min, max) ==
    /\ i < Len(value)
    /\ is_digit(value[i]) /\ is_digit(value[i + 1])
    /\ min <= two_digits(value, i) /\ two_digits(value, i) <= max

\* The century of a two-digit year.
\* Mutant: off by one.
utc_century_after_50(lo) == IF lo > 50 THEN 19 ELSE 20

utc_century(lo) == IF lo >= 50 THEN 19 ELSE 20

\* Time::from_der.  Anything but digits within their ranges and a final Z is
\* BadDerTime, a date before the epoch too; an unexpected tag and octets after
\* the Z are TrailingData.
from_der(tag, value) ==
    LET is_utc_time == tag = "UTCTime"
        k     == IF is_utc_time THEN 2 ELSE 4     \* octets of the year
        year  == IF is_utc_time
                 THEN 100 * utc_century(two_digits(value, 1)) + two_digits(value, 1)
                 ELSE 100 * two_digits(value, 1) + two_digits(value, 3)
        month == two_digits(value, k + 1)
        read  == /\ read_two_digits(value, 1, 0, 99)
                 /\ is_utc_time \/ read_two_digits(value, 3, 0, 99)
                 /\ read_two_digits(value, k + 1, 1, 12)
                 /\ read_two_digits(value, k + 3, 1, days_in_month(year, month))
                 /\ read_two_digits(value, k + 5, 0, 23)
                 /\ read_two_digits(value, k + 7, 0, 59)
                 /\ read_two_digits(value, k + 9, 0, 59)
                 /\ Len(value) >= k + 11 /\ value[k + 11] = 90
        time  == time_from_ymdhms_utc(year, month, two_digits(value, k + 3),
                     two_digits(value, k + 5), two_digits(value, k + 7),
                     two_digits(value, k + 9))
    IN  IF tag \notin {"UTCTime", "GeneralizedTime"} THEN Err("TrailingData")
        ELSE IF ~read THEN Err("BadDerTime")
        ELSE IF time.result = "Ok" /\ Len(value) > k + 11 THEN Err("TrailingData")
        ELSE time
=============================================================================
