--------------------------- MODULE EncodingProofs ---------------------------
(***************************************************************************)
(* The date arithmetic and the decoding of time.rs are right for every     *)
(* year that four digits can express; the reader of der.rs returns exactly *)
(* the elements in distinguished encoding, whatever the input.             *)
(***************************************************************************)
EXTENDS Calendar, Der, SequenceTheorems, TLAPS

\* The clock shows a date of the calendar.
Dated ==
    /\ year \in Nat /\ year >= 1970
    /\ month \in 1..12
    /\ day \in 1..MonthLength(year, month)

\* The table of time_from_ymdhms_utc, with days_in_feb, grows by the length of
\* each month.
LEMMA MonthsAddUp ==
    ASSUME NEW y \in Nat, NEW m \in 1..11
    PROVE  days_before_month_in_year(y, m + 1)
             = days_before_month_in_year(y, m) + MonthLength(y, m)
<1> DEFINE feb == days_in_feb(y)
<1>1. feb = IF Leap(y) THEN 29 ELSE 28
  BY DEF days_in_feb, Leap
<1>2. feb \in Nat
  BY <1>1
<1> HIDE DEF feb
<1>3. m \in {1, 2, 3, 4, 5, 6, 7, 8, 9, 10, 11}
  OBVIOUS
<1> QED
  BY <1>1, <1>2, <1>3 DEF days_before_month_in_year, MonthLength, feb

\* days_before_year_ad grows by the length of the year.
LEMMA YearsAddUp ==
    ASSUME NEW y \in Nat, y >= 1970
    PROVE  days_before_year_ad(y + 1)
             = days_before_year_ad(y) + days_before_month_in_year(y, 12) + 31
<1>1. days_before_month_in_year(y, 12) = 306 + days_in_feb(y)
  BY DEF days_before_month_in_year
<1>2. y \div 4 = (y - 1) \div 4 + (IF y % 4 = 0 THEN 1 ELSE 0)
  OBVIOUS
<1>3. y \div 100 = (y - 1) \div 100 + (IF y % 100 = 0 THEN 1 ELSE 0)
  OBVIOUS
<1>4. y \div 400 = (y - 1) \div 400 + (IF y % 400 = 0 THEN 1 ELSE 0)
  OBVIOUS
<1>5. y % 400 = 0 => y % 100 = 0
  OBVIOUS
<1>6. y % 100 = 0 => y % 4 = 0
  OBVIOUS
<1> QED
  BY <1>1, <1>2, <1>3, <1>4, <1>5, <1>6 DEF days_before_year_ad, days_in_feb

\* The inductive invariant: the clock shows a date within its bound, and the formulas
\* count the days.
ClockInv == Dated /\ DaysTracked /\ year <= LastYear

LEMMA ClockInvariant == Clock => []ClockInv
<1>1. ClockInit => ClockInv
  <2>1. 1970 <= LastYear
    BY LastYearAssumption DEF FourDigitYears
  <2> QED
    BY <2>1 DEF ClockInit, ClockInv, Dated, DaysTracked, MonthLength, Leap, days_before,
           days_before_year_ad, DAYS_BEFORE_UNIX_EPOCH_AD, days_before_month_in_year
<1>2. ClockInv /\ [Tick \/ ClockStop]_clock => ClockInv'
  <2> SUFFICES ASSUME Dated, DaysTracked, year <= LastYear, [Tick \/ ClockStop]_clock
               PROVE  Dated' /\ DaysTracked' /\ year' <= LastYear
    BY DEF ClockInv
  <2>0. LastYear \in Int
    BY LastYearAssumption DEF FourDigitYears
  <2>1. /\ days_before_month_in_year(year, month) \in Int
        /\ days_before_year_ad(year) \in Int
        /\ DAYS_BEFORE_UNIX_EPOCH_AD \in Int
        /\ elapsed \in Int
    <3>1. days_in_feb(year) \in Int
      BY DEF days_in_feb
    <3>2. month \in {1, 2, 3, 4, 5, 6, 7, 8, 9, 10, 11, 12}
      BY DEF Dated
    <3>3. days_before_month_in_year(year, month) \in Int
      BY <3>1, <3>2 DEF days_before_month_in_year
    <3>4. days_before_year_ad(year) \in Int
      BY DEF days_before_year_ad, Dated
    <3>5. DAYS_BEFORE_UNIX_EPOCH_AD \in Int
      BY DEF DAYS_BEFORE_UNIX_EPOCH_AD
    <3>6. day \in Int
      BY DEF Dated
    <3> QED
      BY <3>3, <3>4, <3>5, <3>6 DEF DaysTracked, days_before
  <2>2. \A y, m : m \in 1..12 => MonthLength(y, m) \in 28..31
    <3> SUFFICES ASSUME NEW y, NEW m \in {1, 2, 3, 4, 5, 6, 7, 8, 9, 10, 11, 12}
                 PROVE  MonthLength(y, m) \in 28..31
      OBVIOUS
    <3> QED
      BY DEF MonthLength
  <2>3. CASE NextDay /\ elapsed' = elapsed + 1
    BY <2>1, <2>2, <2>3 DEF NextDay, Dated, DaysTracked, days_before
  <2>4. CASE NextMonth /\ elapsed' = elapsed + 1
    <3>1. days_before_month_in_year(year, month + 1)
            = days_before_month_in_year(year, month) + MonthLength(year, month)
      BY <2>4, MonthsAddUp DEF NextMonth, Dated
    <3> QED
      BY <2>1, <2>2, <2>4, <3>1 DEF NextMonth, Dated, DaysTracked, days_before
  <2>5. CASE NextYear /\ elapsed' = elapsed + 1
    <3>1. days_before_year_ad(year + 1)
            = days_before_year_ad(year) + days_before_month_in_year(year, 12) + 31
      BY YearsAddUp DEF Dated
    <3>2. days_before_month_in_year(year + 1, 1) = 0
      BY DEF days_before_month_in_year
    <3>3. MonthLength(year, 12) = 31
      BY DEF MonthLength
    <3> QED
      BY <2>0, <2>1, <2>2, <2>5, <3>1, <3>2, <3>3 DEF NextYear, Dated, DaysTracked, days_before
  <2>6. CASE ClockStop
    BY <2>6 DEF ClockStop, clock, Dated, DaysTracked
  <2>7. CASE UNCHANGED clock
    BY <2>7 DEF clock, Dated, DaysTracked
  <2> QED
    BY <2>3, <2>4, <2>5, <2>6, <2>7 DEF Tick
<1> QED
  BY <1>1, <1>2, PTL DEF Clock

\* DaysTracked holds for every LastYear: whatever date is reached, the formulas of
\* days_before_year_ad and time_from_ymdhms_utc count the days since the epoch.
THEOREM DaysTheorem == Clock => []DaysTracked
<1>1. ClockInv => DaysTracked
  BY DEF ClockInv
<1> QED
  BY <1>1, ClockInvariant, PTL

-----------------------------------------------------------------------------
(* Encoded times.                                                          *)

TwoDigits == 0..99

Years == 0..9999

\* The two digits of n at position i.
Holds(value, i, n) ==
    /\ i < Len(value)
    /\ value[i] = Digit(n, 10) /\ value[i + 1] = Digit(n, 1)

\* The field at position i is a number in the range.
InRange(value, i, range) ==
    /\ i < Len(value)
    /\ is_digit(value[i]) /\ is_digit(value[i + 1])
    /\ two_digits(value, i) \in range

\* read_two_digits of a field with that value.
LEMMA ReadInRange ==
    ASSUME NEW value, NEW i, NEW n \in TwoDigits, two_digits(value, i) = n,
           NEW min \in Int, NEW max \in Int
    PROVE  read_two_digits(value, i, min, max) <=> InRange(value, i, min..max)
<1>1. n \in min..max <=> min <= n /\ n <= max
  BY DEF TwoDigits
<1> QED
  BY <1>1 DEF read_two_digits, InRange

\* Two digits that were written are read as their number.
LEMMA FieldRead ==
    ASSUME NEW value, NEW i \in Nat, NEW n \in TwoDigits, Holds(value, i, n)
    PROVE  /\ two_digits(value, i) = n
           /\ \A range : InRange(value, i, range) <=> n \in range
<1> DEFINE a == value[i]
           b == value[i + 1]
<1>1. a = 48 + ((n \div 10) % 10) /\ b = 48 + ((n \div 1) % 10)
  BY DEF Holds, Digit
<1>2. PICK t \in 0..9, u \in 0..9 : n = 10 * t + u
  BY DEF TwoDigits
<1>3. (n \div 10) % 10 = t /\ (n \div 1) % 10 = u
  BY <1>2
<1>4. a \in 48..57 /\ b \in 48..57 /\ 10 * (a - 48) + (b - 48) = n
  BY <1>1, <1>2, <1>3
<1> HIDE DEF a, b
<1>5. is_digit(a) /\ is_digit(b) /\ two_digits(value, i) = n
  BY <1>4 DEF is_digit, two_digits, a, b
<1> QED
  BY <1>5 DEF Holds, InRange, a, b

\* The fields of the year take any two digits.
LEMMA YearDigits ==
    ASSUME NEW value, NEW i \in {1, 3}, NEW n \in TwoDigits, Holds(value, i, n)
    PROVE  two_digits(value, i) = n /\ read_two_digits(value, i, 0, 99)
<1>1. two_digits(value, i) = n /\ \A range : InRange(value, i, range) <=> n \in range
  <2>1. i \in Nat
    OBVIOUS
  <2> QED
    BY <2>1, FieldRead
<1>2. read_two_digits(value, i, 0, 99) <=> InRange(value, i, 0..99)
  <2>1. 0 \in Int /\ 99 \in Int
    OBVIOUS
  <2> QED
    BY <1>1, <2>1, ReadInRange
<1> QED
  BY <1>1, <1>2 DEF TwoDigits

\* A value that begins with the digits of a time.
Encodes(value, k, y, mo, d, h, mi, s) ==
    /\ Len(value) \in Nat /\ Len(value) >= k + 11
    /\ IF k = 2 THEN Holds(value, 1, y % 100)
       ELSE Holds(value, 1, y \div 100) /\ Holds(value, 3, y % 100)
    /\ Holds(value, k + 1, mo) /\ Holds(value, k + 3, d) /\ Holds(value, k + 5, h)
    /\ Holds(value, k + 7, mi) /\ Holds(value, k + 9, s)
    /\ value[k + 11] = 90

\* The year that is read, and the octets of its encoding.
UtcYear(lo) == 100 * utc_century(lo) + lo

YearRead(tag, y) == IF tag = "UTCTime" THEN UtcYear(y % 100) ELSE y

YearOctets(tag) == IF tag = "UTCTime" THEN 2 ELSE 4

Hours   == 0..23
Sixties == 0..59

\* What Time::from_der makes of the fields of such a value.
FieldsRead(tag, len, y, mo, d, h, mi, s) ==
    IF ~(mo \in 1..12 /\ d \in 1..days_in_month(YearRead(tag, y), mo)) \/ YearRead(tag, y) < 1970
    THEN Err("BadDerTime")
    ELSE IF len > YearOctets(tag) + 11 THEN Err("TrailingData")
    ELSE Ok([days |-> days_before(YearRead(tag, y), mo, d), seconds |-> h * 3600 + mi * 60 + s])

LEMMA TimeRead ==
    ASSUME NEW tag \in {"UTCTime", "GeneralizedTime"}, NEW value, NEW y \in Years,
           NEW mo \in TwoDigits, NEW d \in TwoDigits,
           NEW h \in Hours, NEW mi \in Sixties, NEW s \in Sixties,
           Encodes(value, YearOctets(tag), y, mo, d, h, mi, s)
    PROVE  from_der(tag, value) = FieldsRead(tag, Len(value), y, mo, d, h, mi, s)
<1> DEFINE k == YearOctets(tag)
           lo == y % 100
           hi == y \div 100
           y2 == YearRead(tag, y)
           last_day == days_in_month(y2, mo)
<1>1. lo \in TwoDigits /\ hi \in TwoDigits /\ y = 100 * hi + lo
  <2>1. PICK p \in 0..99, q \in 0..99 : y = 100 * p + q
    BY DEF Years
  <2>2. y \div 100 = p /\ y % 100 = q
    BY <2>1
  <2> QED
    BY <2>1, <2>2 DEF TwoDigits
<1>2. k \in Nat /\ (tag = "UTCTime" <=> k = 2) /\ (k # 2 => k = 4)
  BY DEF YearOctets
<1>3. y2 \in Nat /\ last_day \in Nat
  <2>1. y2 \in Nat
    BY <1>1 DEF YearRead, UtcYear, utc_century, TwoDigits, Years
  <2> HIDE DEF y2
  <2> QED
    BY <2>1 DEF days_in_month, days_in_feb
<1>4. /\ k = 2 => Holds(value, 1, lo)
      /\ k # 2 => Holds(value, 1, hi) /\ Holds(value, 3, lo)
      /\ Holds(value, k + 1, mo) /\ Holds(value, k + 3, d) /\ Holds(value, k + 5, h)
      /\ Holds(value, k + 7, mi) /\ Holds(value, k + 9, s)
      /\ Len(value) \in Nat /\ Len(value) >= k + 11 /\ value[k + 11] = 90
  BY DEF Encodes
<1> HIDE DEF k, lo, hi, last_day
<1>5. k + 1 \in Nat /\ k + 3 \in Nat /\ k + 5 \in Nat /\ k + 7 \in Nat /\ k + 9 \in Nat
  BY <1>2
<1>6. h \in TwoDigits /\ mi \in TwoDigits /\ s \in TwoDigits
  BY DEF TwoDigits, Hours, Sixties
<1>7. /\ two_digits(value, k + 1) = mo /\ two_digits(value, k + 3) = d
      /\ two_digits(value, k + 5) = h /\ two_digits(value, k + 7) = mi
      /\ two_digits(value, k + 9) = s
  BY <1>4, <1>5, <1>6, FieldRead
<1>8. /\ \A range : InRange(value, k + 1, range) <=> mo \in range
      /\ \A range : InRange(value, k + 3, range) <=> d \in range
      /\ \A range : InRange(value, k + 5, range) <=> h \in range
      /\ \A range : InRange(value, k + 7, range) <=> mi \in range
      /\ \A range : InRange(value, k + 9, range) <=> s \in range
  BY <1>4, <1>5, <1>6, FieldRead
<1>9. /\ read_two_digits(value, k + 1, 1, 12) <=> mo \in 1..12
      /\ read_two_digits(value, k + 3, 1, last_day) <=> d \in 1..last_day
      /\ read_two_digits(value, k + 5, 0, 23)
      /\ read_two_digits(value, k + 7, 0, 59)
      /\ read_two_digits(value, k + 9, 0, 59)
  <2> 0 \in Int /\ 1 \in Int /\ 12 \in Int /\ 23 \in Int /\ 59 \in Int
    OBVIOUS
  <2>1. read_two_digits(value, k + 1, 1, 12) <=> InRange(value, k + 1, 1..12)
    BY <1>7, ReadInRange
  <2>2. read_two_digits(value, k + 3, 1, last_day) <=> InRange(value, k + 3, 1..last_day)
    BY <1>3, <1>7, ReadInRange
  <2>3. read_two_digits(value, k + 5, 0, 23) <=> InRange(value, k + 5, 0..23)
    BY <1>6, <1>7, ReadInRange
  <2>4. read_two_digits(value, k + 7, 0, 59) <=> InRange(value, k + 7, 0..59)
    BY <1>6, <1>7, ReadInRange
  <2>5. read_two_digits(value, k + 9, 0, 59) <=> InRange(value, k + 9, 0..59)
    BY <1>6, <1>7, ReadInRange
  <2> QED
    BY <1>8, <2>1, <2>2, <2>3, <2>4, <2>5 DEF Hours, Sixties
<1> DEFINE year_read == IF tag = "UTCTime"
                        THEN 100 * utc_century(two_digits(value, 1)) + two_digits(value, 1)
                        ELSE 100 * two_digits(value, 1) + two_digits(value, 3)
<1>10. /\ year_read = y2
       /\ read_two_digits(value, 1, 0, 99)
       /\ tag = "UTCTime" \/ read_two_digits(value, 3, 0, 99)
  <2>1. CASE k = 2
    <3>1. two_digits(value, 1) = lo /\ read_two_digits(value, 1, 0, 99)
      BY <1>1, <1>4, <2>1, YearDigits
    <3>2. tag = "UTCTime"
      BY <1>2, <2>1
    <3>3. y2 = UtcYear(lo)
      BY <3>2 DEF YearRead, lo
    <3>4. UtcYear(lo) = 100 * utc_century(lo) + lo
      BY DEF UtcYear
    <3> QED
      BY <3>1, <3>2, <3>3, <3>4
  <2>2. CASE k # 2
    <3>1. two_digits(value, 1) = hi /\ read_two_digits(value, 1, 0, 99)
      BY <1>1, <1>4, <2>2, YearDigits
    <3>2. two_digits(value, 3) = lo /\ read_two_digits(value, 3, 0, 99)
      BY <1>1, <1>4, <2>2, YearDigits
    <3> QED
      BY <1>1, <1>2, <2>2, <3>1, <3>2 DEF YearRead
  <2> QED
    BY <2>1, <2>2
<1> HIDE DEF year_read, y2
<1> DEFINE read == /\ read_two_digits(value, 1, 0, 99)
                   /\ tag = "UTCTime" \/ read_two_digits(value, 3, 0, 99)
                   /\ read_two_digits(value, k + 1, 1, 12)
                   /\ read_two_digits(value, k + 3, 1,
                                      days_in_month(year_read, two_digits(value, k + 1)))
                   /\ read_two_digits(value, k + 5, 0, 23)
                   /\ read_two_digits(value, k + 7, 0, 59)
                   /\ read_two_digits(value, k + 9, 0, 59)
                   /\ Len(value) >= k + 11 /\ value[k + 11] = 90
           time == time_from_ymdhms_utc(year_read, two_digits(value, k + 1),
                     two_digits(value, k + 3), two_digits(value, k + 5),
                     two_digits(value, k + 7), two_digits(value, k + 9))
<1>11. from_der(tag, value) = IF ~read THEN Err("BadDerTime")
           ELSE IF time.result = "Ok" /\ Len(value) > k + 11 THEN Err("TrailingData")
           ELSE time
  BY DEF from_der, k, YearOctets, year_read
<1>12. read <=> mo \in 1..12 /\ d \in 1..last_day
  BY <1>4, <1>7, <1>9, <1>10 DEF last_day
<1>13. time = IF y2 < 1970 THEN Err("BadDerTime")
              ELSE Ok([days |-> days_before(y2, mo, d), seconds |-> h * 3600 + mi * 60 + s])
  BY <1>7, <1>10 DEF time_from_ymdhms_utc, UNIX_EPOCH_YEAR
<1> HIDE DEF read, time
<1>14. Err("BadDerTime").result # "Ok" /\ \A v : Ok(v).result = "Ok"
  BY DEF Err, Ok
<1> QED
  BY <1>3, <1>11, <1>12, <1>13, <1>14 DEF FieldsRead, last_day, k, y2

IsSeqOfAny(g) == g \in Seq({g[i] : i \in DOMAIN g})

\* What is written is read.
LEMMA GeneralizedEncodes ==
    ASSUME NEW y \in Years, NEW mo, NEW d, NEW h, NEW mi, NEW s
    PROVE  /\ Encodes(Generalized(y, mo, d, h, mi, s), 4, y, mo, d, h, mi, s)
           /\ Len(Generalized(y, mo, d, h, mi, s)) = 15
           /\ Encodes(Utc(y, mo, d, h, mi, s), 2, y, mo, d, h, mi, s)
           /\ Len(Utc(y, mo, d, h, mi, s)) = 13
<1> DEFINE g == Generalized(y, mo, d, h, mi, s)
           u == Utc(y, mo, d, h, mi, s)
<1>1. /\ Digit(y, 1000) = Digit(y \div 100, 10) /\ Digit(y, 100) = Digit(y \div 100, 1)
      /\ Digit(y, 10) = Digit(y % 100, 10) /\ Digit(y, 1) = Digit(y % 100, 1)
  <2>1. PICK p \in 0..99, q \in 0..99 : y = 100 * p + q
    BY DEF Years
  <2>2. y \div 100 = p /\ y % 100 = q
    BY <2>1
  <2>3. y \div 1000 = p \div 10 /\ p \div 1 = p /\ q \div 1 = q /\ y \div 1 = y
    BY <2>1
  <2>4. (y \div 10) % 10 = (q \div 10) % 10
    <3>1. y \div 10 = 10 * p + q \div 10
      BY <2>1
    <3> QED
      BY <3>1
  <2>5. y % 10 = q % 10
    BY <2>1
  <2> QED
    BY <2>2, <2>3, <2>4, <2>5 DEF Digit
<1>2. g = << Digit(y, 1000), Digit(y, 100), Digit(y, 10), Digit(y, 1),
       Digit(mo, 10), Digit(mo, 1), Digit(d, 10), Digit(d, 1), Digit(h, 10), Digit(h, 1),
       Digit(mi, 10), Digit(mi, 1), Digit(s, 10), Digit(s, 1), 90 >>
  BY DEF Generalized
<1> HIDE DEF g
<1>3. /\ Len(u) = 13 /\ u[1] = g[3] /\ u[2] = g[4] /\ u[3] = g[5] /\ u[4] = g[6]
      /\ u[5] = g[7] /\ u[6] = g[8] /\ u[7] = g[9] /\ u[8] = g[10] /\ u[9] = g[11]
      /\ u[10] = g[12] /\ u[11] = g[13] /\ u[12] = g[14] /\ u[13] = g[15]
  <2>1. Len(g) = 15 /\ IsSeqOfAny(g)
    BY <1>2 DEF IsSeqOfAny
  <2>2. u = SubSeq(g, 3, 15)
    BY DEF Utc, g
  <2> HIDE DEF u
  <2>3. Len(u) = 13 /\ \A i \in 1..13 : u[i] = g[i + 2]
    BY <2>1, <2>2 DEF IsSeqOfAny
  <2> QED
    BY <2>3
<1> HIDE DEF g, u
<1>4. Len(g) = 15 /\ Len(u) = 13
  BY <1>2, <1>3
<1>5. Encodes(g, 4, y, mo, d, h, mi, s)
  BY <1>1, <1>2, <1>4 DEF Encodes, Holds
<1>6. Encodes(u, 2, y, mo, d, h, mi, s)
  BY <1>1, <1>2, <1>3, <1>4 DEF Encodes, Holds
<1> QED
  BY <1>4, <1>5, <1>6 DEF g, u

\* The years of the clock.
LEMMA YearFacts ==
    ASSUME NEW y \in FourDigitYears
    PROVE  y \in Years /\ y \in Nat /\ y >= 1970 /\ ~(y < 1970)
<1>1. y \in Int /\ y >= 1970 /\ y <= 9999
  BY DEF FourDigitYears
<1>2. y \in Years
  BY <1>1 DEF Years
<1> QED
  BY <1>1, <1>2

\* days_in_month is the calendar's.
LEMMA MonthsAgree ==
    ASSUME NEW y \in Nat, NEW m \in 1..12
    PROVE  days_in_month(y, m) = MonthLength(y, m) /\ MonthLength(y, m) \in 28..31
<1>1. days_in_feb(y) = IF Leap(y) THEN 29 ELSE 28
  BY DEF days_in_feb, Leap
<1>2. m \in {1, 2, 3, 4, 5, 6, 7, 8, 9, 10, 11, 12}
  OBVIOUS
<1> QED
  BY <1>1, <1>2 DEF days_in_month, MonthLength

\* What the fields of the clock are for an encoded time.
LEMMA ClockFields ==
    ClockInv =>
        /\ year \in FourDigitYears /\ year \in Years
        /\ month \in TwoDigits /\ month \in 1..12
        /\ day \in TwoDigits /\ day \in 1..days_in_month(year, month)
        /\ day \in 1..31
<1> SUFFICES ASSUME ClockInv
             PROVE  /\ year \in FourDigitYears /\ year \in Years
                    /\ month \in TwoDigits /\ month \in 1..12
                    /\ day \in TwoDigits /\ day \in 1..days_in_month(year, month)
                    /\ day \in 1..31
  OBVIOUS
<1>1. year \in Nat /\ year >= 1970 /\ year <= LastYear /\ month \in 1..12
      /\ day \in 1..MonthLength(year, month)
  BY DEF ClockInv, Dated
<1>2. days_in_month(year, month) = MonthLength(year, month) /\ MonthLength(year, month) \in 28..31
  BY <1>1, MonthsAgree
<1>3. year \in FourDigitYears /\ year \in Years
  <2>1. LastYear \in Int /\ LastYear <= 9999
    BY LastYearAssumption DEF FourDigitYears
  <2>2. year \in FourDigitYears
    BY <1>1, <2>1 DEF FourDigitYears
  <2> QED
    BY <2>2, YearFacts
<1> QED
  BY <1>1, <1>2, <1>3 DEF TwoDigits

\* A GeneralizedTime of a date, whether or not the date exists.
DateRead(y, mo, d, h, mi, s) ==
    IF mo \in 1..12 /\ d \in 1..days_in_month(y, mo)
    THEN Ok([days |-> days_before(y, mo, d), seconds |-> h * 3600 + mi * 60 + s])
    ELSE Err("BadDerTime")

LEMMA GeneralizedRead ==
    ASSUME NEW y \in FourDigitYears, NEW mo \in TwoDigits, NEW d \in TwoDigits,
           NEW h \in Hours, NEW mi \in Sixties, NEW s \in Sixties
    PROVE  from_der("GeneralizedTime", Generalized(y, mo, d, h, mi, s)) =
               DateRead(y, mo, d, h, mi, s)
<1> DEFINE value == Generalized(y, mo, d, h, mi, s)
           tag == "GeneralizedTime"
<1>1. y \in Years /\ ~(y < 1970) /\ ~(15 > 4 + 11)
  <2>1. ~(15 > 4 + 11)
    OBVIOUS
  <2> QED
    BY <2>1, YearFacts
<1>2. Encodes(value, 4, y, mo, d, h, mi, s) /\ Len(value) = 15
  BY <1>1, GeneralizedEncodes
<1>3. YearOctets(tag) = 4 /\ YearRead(tag, y) = y /\ tag \in {"UTCTime", "GeneralizedTime"}
  BY DEF YearOctets, YearRead
<1> HIDE DEF value, tag
<1>4. Encodes(value, YearOctets(tag), y, mo, d, h, mi, s)
  BY <1>2, <1>3
<1>5. from_der(tag, value) = FieldsRead(tag, Len(value), y, mo, d, h, mi, s)
  <2>1. y \in Years /\ tag \in {"UTCTime", "GeneralizedTime"}
    BY <1>1, <1>3
  <2> QED
    BY <1>4, <2>1, TimeRead
<1>6. FieldsRead(tag, Len(value), y, mo, d, h, mi, s) = DateRead(y, mo, d, h, mi, s)
  BY <1>1, <1>2, <1>3 DEF FieldsRead, DateRead
<1> QED
  BY <1>5, <1>6 DEF value, tag

LEMMA GeneralizedFollows == ClockInv => GeneralizedTimeAgrees
<1> SUFFICES ASSUME ClockInv, NEW h \in {0, 9, 23}, NEW m \in {0, 59}, NEW s \in {0, 59}
             PROVE  from_der("GeneralizedTime", Generalized(year, month, day, h, m, s))
                      = Ok([days |-> elapsed, seconds |-> (h * 60 + m) * 60 + s])
  BY DEF GeneralizedTimeAgrees
<1>1. h \in Hours /\ m \in Sixties /\ s \in Sixties
  BY DEF Hours, Sixties
<1>2. h * 3600 + m * 60 + s = (h * 60 + m) * 60 + s
  OBVIOUS
<1>3. days_before(year, month, day) = elapsed
  BY DEF ClockInv, DaysTracked
<1>4. /\ year \in FourDigitYears /\ month \in TwoDigits /\ month \in 1..12
      /\ day \in TwoDigits /\ day \in 1..days_in_month(year, month)
  BY ClockFields
<1>5. from_der("GeneralizedTime", Generalized(year, month, day, h, m, s))
        = DateRead(year, month, day, h, m, s)
  BY <1>1, <1>4, GeneralizedRead
<1> QED
  BY <1>2, <1>3, <1>4, <1>5 DEF DateRead

\* A later year has more days before the same date.
LEMMA YearsGrow ==
    ASSUME NEW a \in Nat, NEW b \in Nat, a >= 1, a < b, NEW m \in 1..12, NEW d \in 1..31
    PROVE  days_before(a, m, d) # days_before(b, m, d)
<1> DEFINE p == a - 1
           q == b - 1
<1>1. p \in Nat /\ q \in Nat /\ p < q
  OBVIOUS
<1>2. /\ q \div 4 >= p \div 4 /\ q \div 400 >= p \div 400
      /\ q \div 100 - p \div 100 <= q - p
      /\ q \div 4 \in Int /\ p \div 4 \in Int /\ q \div 400 \in Int /\ p \div 400 \in Int
      /\ q \div 100 \in Int /\ p \div 100 \in Int
  BY <1>1
<1>3. days_before_year_ad(b) >= days_before_year_ad(a) + 364
      /\ days_before_year_ad(b) \in Int /\ days_before_year_ad(a) \in Int
  <2> HIDE DEF p, q
  <2>1. q * 365 + q \div 4 - q \div 100 + q \div 400
          >= p * 365 + p \div 4 - p \div 100 + p \div 400 + 364
    BY <1>1, <1>2
  <2> QED
    BY <1>1, <1>2, <2>1 DEF days_before_year_ad, p, q
<1>4. \A y \in Nat : days_in_feb(y) \in {28, 29}
  BY DEF days_in_feb
<1>5. m \in {1, 2, 3, 4, 5, 6, 7, 8, 9, 10, 11, 12}
  OBVIOUS
<1>6. /\ days_before_month_in_year(a, m) \in Int /\ days_before_month_in_year(b, m) \in Int
      /\ days_before_month_in_year(b, m) >= days_before_month_in_year(a, m) - 1
  BY <1>4, <1>5 DEF days_before_month_in_year
<1>7. DAYS_BEFORE_UNIX_EPOCH_AD \in Int
  BY DEF DAYS_BEFORE_UNIX_EPOCH_AD
<1> QED
  BY <1>3, <1>6, <1>7 DEF days_before

LEMMA UtcFollows == ClockInv => UtcTimeWindow
<1> SUFFICES ASSUME ClockInv PROVE UtcTimeWindow
  OBVIOUS
<1> DEFINE tag == "UTCTime"
           value == Utc(year, month, day, 12, 0, 0)
           utc == from_der("UTCTime", Utc(year, month, day, 12, 0, 0))
           gen == from_der("GeneralizedTime", Generalized(year, month, day, 12, 0, 0))
           y2 == UtcYear(year % 100)
           seconds == 12 * 3600 + 0 * 60 + 0
           at(y) == Ok([days |-> days_before(y, month, day), seconds |-> seconds])
<1>1. /\ year \in FourDigitYears /\ year \in Years /\ month \in TwoDigits /\ month \in 1..12
      /\ day \in TwoDigits /\ day \in 1..days_in_month(year, month) /\ day \in 1..31
  BY ClockFields
<1>2. 12 \in Hours /\ 0 \in Sixties
  BY DEF Hours, Sixties
<1>3. gen = at(year)
  <2>1. gen = DateRead(year, month, day, 12, 0, 0)
    BY <1>1, <1>2, GeneralizedRead
  <2> QED
    BY <1>1, <2>1 DEF DateRead
<1>4. Encodes(value, 2, year, month, day, 12, 0, 0) /\ Len(value) = 13
  BY <1>1, GeneralizedEncodes
<1>5. YearOctets(tag) = 2 /\ YearRead(tag, year) = y2 /\ tag \in {"UTCTime", "GeneralizedTime"}
  BY DEF YearOctets, YearRead
<1>6. /\ y2 \in Nat /\ y2 \in 1950..2049 /\ (year <= 2049 <=> y2 = year)
      /\ year \in Nat /\ year >= 1970
  BY <1>1 DEF UtcYear, utc_century, FourDigitYears
<1>7. ~(13 > 2 + 11)
  OBVIOUS
<1> HIDE DEF tag, value, y2
<1>8. from_der(tag, value) =
             IF ~(month \in 1..12 /\ day \in 1..days_in_month(y2, month)) \/ y2 < 1970
             THEN Err("BadDerTime") ELSE at(y2)
  <2>1. Encodes(value, YearOctets(tag), year, month, day, 12, 0, 0)
    BY <1>4, <1>5
  <2>2. tag \in {"UTCTime", "GeneralizedTime"}
    BY <1>5
  <2>3. from_der(tag, value) = FieldsRead(tag, Len(value), year, month, day, 12, 0, 0)
    BY <1>1, <1>2, <2>1, <2>2, TimeRead
  <2> QED
    BY <1>4, <1>5, <1>7, <2>3 DEF FieldsRead
<1>9. utc = from_der(tag, value)
  BY DEF tag, value
<1>10. ASSUME year <= 2049 PROVE utc = gen
  BY <1>1, <1>3, <1>6, <1>8, <1>9, <1>10
<1>11. ASSUME ~(year <= 2049) PROVE utc # gen
  <2>1. days_before(y2, month, day) # days_before(year, month, day)
    <3>1. y2 >= 1 /\ y2 < year
      BY <1>1, <1>6, <1>11
    <3> QED
      BY <1>1, <1>6, <3>1, YearsGrow
  <2>2. \A v : Ok(v).result = "Ok" /\ Ok(v).value = v
    BY DEF Ok
  <2>3. at(y2) # at(year)
    <3>1. at(y2).value.days = days_before(y2, month, day)
          /\ at(year).value.days = days_before(year, month, day)
      BY <2>2
    <3> QED
      BY <2>1, <3>1
  <2>4. Err("BadDerTime") # at(year)
    <3>1. Err("BadDerTime").result # "Ok"
      BY DEF Err
    <3> QED
      BY <2>2, <3>1
  <2> HIDE DEF at
  <2> QED
    BY <1>3, <1>8, <1>9, <2>3, <2>4
<1> QED
  BY <1>10, <1>11 DEF UtcTimeWindow

\* A value that is too short is refused.
LEMMA TooShort ==
    ASSUME NEW value, Len(value) \in Nat, Len(value) < 15
    PROVE  from_der("GeneralizedTime", value) = Err("BadDerTime")
  BY DEF from_der

LEMMA DatesFollow == ClockInv => OnlyCalendarDates
<1> SUFFICES ASSUME ClockInv PROVE OnlyCalendarDates
  OBVIOUS
<1>1. /\ year \in FourDigitYears /\ year \in Years /\ month \in TwoDigits /\ month \in 1..12
      /\ day \in TwoDigits /\ day \in 1..days_in_month(year, month)
  BY ClockFields
<1>2. \A v : Ok(v).result = "Ok"
  BY DEF Ok
<1>3. \A e : Err(e).result = e
  BY DEF Err
<1>4. ASSUME NEW m \in 0..13, NEW d \in 0..32
      PROVE  from_der("GeneralizedTime", Generalized(year, m, d, 0, 0, 0)).result
               = IF m \in 1..12 /\ d \in 1..MonthLength(year, m) THEN "Ok" ELSE "BadDerTime"
  <2>1. m \in TwoDigits /\ d \in TwoDigits /\ 0 \in Hours /\ 0 \in Sixties
    BY DEF TwoDigits, Hours, Sixties
  <2>2. from_der("GeneralizedTime", Generalized(year, m, d, 0, 0, 0))
          = DateRead(year, m, d, 0, 0, 0)
    BY <1>1, <2>1, GeneralizedRead
  <2>3. m \in 1..12 => days_in_month(year, m) = MonthLength(year, m)
    <3>1. year \in Nat
      BY <1>1, YearFacts
    <3> QED
      BY <3>1, MonthsAgree
  <2>4. CASE m \in 1..12 /\ d \in 1..MonthLength(year, m)
    BY <1>2, <2>2, <2>3, <2>4 DEF DateRead
  <2>5. CASE ~(m \in 1..12 /\ d \in 1..MonthLength(year, m))
    BY <1>3, <2>2, <2>3, <2>5 DEF DateRead
  <2> QED
    BY <2>4, <2>5
<1> DEFINE value == Generalized(year, month, day, 23, 59, 59)
<1>5. value \in Seq(Int)
  <2>1. \A n \in Int : Digit(n, 1000) \in Int /\ Digit(n, 100) \in Int
                       /\ Digit(n, 10) \in Int /\ Digit(n, 1) \in Int
    BY DEF Digit
  <2>2. year \in Int /\ month \in Int /\ day \in Int /\ 23 \in Int /\ 59 \in Int
    BY <1>1 DEF TwoDigits, Years
  <2> QED
    BY <2>1, <2>2 DEF Generalized
<1>6. Encodes(value, 4, year, month, day, 23, 59, 59) /\ Len(value) = 15
  BY <1>1, GeneralizedEncodes
<1> HIDE DEF value
<1>7. ASSUME NEW n \in 0..14
      PROVE  from_der("GeneralizedTime", SubSeq(value, 1, n)) = Err("BadDerTime")
  <2> DEFINE cut == SubSeq(value, 1, n)
  <2>1. Len(cut) = n
    BY <1>5, <1>6
  <2>2. Len(cut) \in Nat /\ Len(cut) < 15
    BY <2>1
  <2> HIDE DEF cut
  <2>3. from_der("GeneralizedTime", cut) = Err("BadDerTime")
    BY <2>2, TooShort
  <2> QED
    BY <2>3 DEF cut
<1>8. ASSUME NEW octet \in {48, 90}
      PROVE  from_der("GeneralizedTime", Append(value, octet)) = Err("TrailingData")
  <2> DEFINE longer == Append(value, octet)
             tag == "GeneralizedTime"
  <2>1. Len(longer) = 16 /\ \A i \in 1..15 : longer[i] = value[i]
    <3>1. octet \in Int
      OBVIOUS
    <3>2. Len(longer) = Len(value) + 1
      BY <1>5, <3>1
    <3>3. \A i \in 1..Len(value) : longer[i] = value[i]
      BY <1>5, <3>1
    <3> QED
      BY <1>6, <3>2, <3>3
  <2> HIDE DEF longer, tag
  <2>2. Encodes(longer, 4, year, month, day, 23, 59, 59)
    BY <1>6, <2>1 DEF Encodes, Holds
  <2>3. YearOctets(tag) = 4 /\ YearRead(tag, year) = year /\ tag \in {"UTCTime", "GeneralizedTime"}
    BY DEF YearOctets, YearRead, tag
  <2>4. 23 \in Hours /\ 59 \in Sixties /\ 16 > 4 + 11 /\ ~(year < 1970)
    BY <1>1 DEF Hours, Sixties, FourDigitYears
  <2>5. from_der(tag, longer) = FieldsRead(tag, Len(longer), year, month, day, 23, 59, 59)
    <3>1. Encodes(longer, YearOctets(tag), year, month, day, 23, 59, 59)
      BY <2>2, <2>3
    <3>2. 23 \in Hours /\ 59 \in Sixties /\ tag \in {"UTCTime", "GeneralizedTime"}
      BY <2>3, <2>4
    <3> QED
      BY <1>1, <3>1, <3>2, TimeRead
  <2>6. from_der(tag, longer) = Err("TrailingData")
    BY <1>1, <2>1, <2>3, <2>4, <2>5 DEF FieldsRead
  <2> QED
    BY <2>6 DEF longer, tag
<1> QED
  BY <1>4, <1>7, <1>8 DEF OnlyCalendarDates, value

\* GeneralizedTimeAgrees, for every date up to the last four-digit year: Time::from_der
\* reads a GeneralizedTime as the day that the calendar counts and its second.
THEOREM GeneralizedTheorem == Clock => []GeneralizedTimeAgrees
  BY ClockInvariant, GeneralizedFollows, PTL

\* UtcTimeWindow, for every such date: the century that Time::from_der chooses for a
\* UTCTime is right up to 2049, and from 2050 on it never gives the date that was meant.
THEOREM UtcTheorem == Clock => []UtcTimeWindow
  BY ClockInvariant, UtcFollows, PTL

\* OnlyCalendarDates, for every such year: Time::from_der accepts exactly the days of the
\* calendar, whole and with nothing after them.
THEOREM DatesTheorem == Clock => []OnlyCalendarDates
  BY ClockInvariant, DatesFollow, PTL

-----------------------------------------------------------------------------
(* The DER reader.                                                         *)

\* An octet past the end reads as zero.
LEMMA OctetIsOctet ==
    ASSUME Octets(input), NEW i \in Nat \ {0}
    PROVE  Octet(i) \in 0..255
<1>1. Len(input) \in Nat /\ \A j \in 1..Len(input) : input[j] \in 0..255
  <2>1. Len(input) \in Nat /\ DOMAIN input = 1..Len(input)
    BY DEF Octets, IsSeq
  <2> QED
    BY <2>1 DEF Octets
<1> QED
  BY <1>1 DEF Octet

\* The four forms of a number.
LEMMA CombinedForms ==
    ASSUME NEW i
    PROVE  /\ combined(i, 1) = 0 * 256 + Octet(i + 1 - 1)
           /\ combined(i, 2) = (0 * 256 + Octet(i + 1 - 1)) * 256 + Octet(i + 2 - 1)
           /\ combined(i, 3) = ((0 * 256 + Octet(i + 1 - 1)) * 256 + Octet(i + 2 - 1)) * 256
                                  + Octet(i + 3 - 1)
           /\ combined(i, 4) = (((0 * 256 + Octet(i + 1 - 1)) * 256 + Octet(i + 2 - 1)) * 256
                                  + Octet(i + 3 - 1)) * 256 + Octet(i + 4 - 1)
<1> DEFINE o(j) == Octet(i + j - 1)
           n1 == 0 * 256 + o(1)
           n2 == n1 * 256 + o(2)
           n3 == n2 * 256 + o(3)
           n4 == n3 * 256 + o(4)
           value(j) == IF j = 0 THEN 0 ELSE IF j = 1 THEN n1 ELSE IF j = 2 THEN n2
                       ELSE IF j = 3 THEN n3 ELSE n4
           step(f, j) == IF j = 0 THEN 0 ELSE f[j - 1] * 256 + o(j)
           unrolled(k, f) == f = [j \in 0..k |-> step(f, j)]
           number(k) == CHOOSE f : unrolled(k, f)
<1>1. ASSUME NEW k \in 1..4
      PROVE  combined(i, k) = value(k)
  <2>1. combined(i, k) = number(k)[k]
    BY DEF combined
  <2> DEFINE g == [j \in 0..k |-> value(j)]
  <2>2. unrolled(k, g)
    <3>1. ASSUME NEW j \in 0..k PROVE value(j) = step(g, j)
      <4>1. j \in {0, 1, 2, 3, 4}
        OBVIOUS
      <4>2. j # 0 => j - 1 \in 0..k
        OBVIOUS
      <4>3. j # 0 => g[j - 1] = value(j - 1)
        BY <4>2
      <4> HIDE DEF g, n1, n2, n3, n4, o
      <4>4. /\ j = 1 => value(j - 1) = 0
            /\ j = 2 => value(j - 1) = n1
            /\ j = 3 => value(j - 1) = n2
            /\ j = 4 => value(j - 1) = n3
        OBVIOUS
      <4> HIDE DEF value
      <4>5. j = 0 => step(g, j) = 0
        OBVIOUS
      <4>6. /\ j = 1 => step(g, j) = n1
            /\ j = 2 => step(g, j) = n2
            /\ j = 3 => step(g, j) = n3
            /\ j = 4 => step(g, j) = n4
        BY <4>3, <4>4 DEF n1, n2, n3, n4
      <4> HIDE DEF step
      <4> QED
        BY <4>1, <4>5, <4>6 DEF value
    <3> HIDE DEF step, value
    <3> QED
      BY <3>1
  <2>3. unrolled(k, number(k))
    <3> HIDE DEF unrolled, g
    <3> QED
      BY <2>2
  <2> DEFINE f == number(k)
  <2>4. \A j \in 0..k : f[j] = step(f, j)
    <3> HIDE DEF step
    <3>1. f = [j \in 0..k |-> step(f, j)]
      BY <2>3
    <3> HIDE DEF f
    <3> QED
      BY <3>1
  <2> HIDE DEF f, number, unrolled, g
  <2>5. f[0] = 0
    BY <2>4
  <2>6. /\ k >= 1 => f[1] = n1
        /\ k >= 2 => f[2] = f[1] * 256 + o(2)
        /\ k >= 3 => f[3] = f[2] * 256 + o(3)
        /\ k >= 4 => f[4] = f[3] * 256 + o(4)
    <3> HIDE DEF o
    <3> QED
      BY <2>4, <2>5
  <2>7. k \in {1, 2, 3, 4}
    OBVIOUS
  <2>8. f[k] = value(k)
    <3> HIDE DEF o, n1
    <3> QED
      BY <2>6, <2>7
  <2> QED
    BY <2>1, <2>8 DEF f
<1>2. /\ combined(i, 1) = n1 /\ combined(i, 2) = n2 /\ combined(i, 3) = n3
      /\ combined(i, 4) = n4
  <2>1. 1 \in 1..4 /\ 2 \in 1..4 /\ 3 \in 1..4 /\ 4 \in 1..4
    OBVIOUS
  <2>2. value(1) = n1 /\ value(2) = n2 /\ value(3) = n3 /\ value(4) = n4
    <3> HIDE DEF n1, n2, n3, n4
    <3> QED
      OBVIOUS
  <2> HIDE DEF value, n1, n2, n3, n4
  <2> QED
    BY <1>1, <2>1, <2>2
<1> QED
  BY <1>2

\* The number of octets after the first that the shortest form of a length has.
Width(n) ==
    IF n < 128 THEN 0 ELSE IF n < 256 THEN 1 ELSE IF n < 65536 THEN 2
    ELSE IF n < 16777216 THEN 3 ELSE 4

\* The digits of a number are the octets that combine to it, for each form.
Agree1(n, a) == a = (n \div 1) % 256 <=> 0 * 256 + a = n

Agree2(n, a, b) ==
    a = (n \div 256) % 256 /\ b = (n \div 1) % 256 <=> (0 * 256 + a) * 256 + b = n

Agree3(n, a, b, c) ==
    a = (n \div 65536) % 256 /\ b = (n \div 256) % 256 /\ c = (n \div 1) % 256
        <=> ((0 * 256 + a) * 256 + b) * 256 + c = n

Agree4(n, a, b, c, d) ==
    a = (n \div 16777216) % 256 /\ b = (n \div 65536) % 256
        /\ c = (n \div 256) % 256 /\ d = (n \div 1) % 256
        <=> (((0 * 256 + a) * 256 + b) * 256 + c) * 256 + d = n

\* Each by linear arithmetic on quotients.
LEMMA Digits1 ==
    ASSUME NEW n \in Nat, Width(n) = 1, NEW a \in 0..255
    PROVE  Agree1(n, a)
  BY SMT DEF Agree1, Width

LEMMA Digits2 ==
    ASSUME NEW n \in Nat, Width(n) = 2, NEW a \in 0..255, NEW b \in 0..255
    PROVE  Agree2(n, a, b)
  BY SMT DEF Agree2, Width

LEMMA Digits3 ==
    ASSUME NEW n \in Nat, Width(n) = 3, NEW a \in 0..255, NEW b \in 0..255, NEW c \in 0..255
    PROVE  Agree3(n, a, b, c)
  BY SMT DEF Agree3, Width

LEMMA Digits4 ==
    ASSUME NEW n \in Nat, FourOctets(n),
           NEW a \in 0..255, NEW b \in 0..255, NEW c \in 0..255, NEW d \in 0..255
    PROVE  Agree4(n, a, b, c, d)
<1> DEFINE m == n \div 256
           e == n % 256
<1>1. m \in Nat /\ m < 16777216 /\ e \in 0..255 /\ n = m * 256 + e
  BY SMT DEF FourOctets
<1>2. n \div 16777216 = m \div 65536 /\ n \div 65536 = m \div 256
  BY SMT
<1>3. (n \div 256) % 256 = (m \div 1) % 256 /\ (n \div 1) % 256 = e
  BY SMT
<1> HIDE DEF m, e
<1>4. a = (m \div 65536) % 256 /\ b = (m \div 256) % 256 /\ c = (m \div 1) % 256
          <=> ((0 * 256 + a) * 256 + b) * 256 + c = m
  BY <1>1, SMT
<1> DEFINE p == ((0 * 256 + a) * 256 + b) * 256 + c
<1>5. p \in Nat
  BY SMT
<1>6. p * 256 + d = n <=> p = m /\ d = e
  <2> HIDE DEF p
  <2> QED
    BY <1>1, <1>5, SMT
<1> QED
  BY <1>2, <1>3, <1>4, <1>6, SMT DEF Agree4

\* The header of an encoding, octet by octet.
Header(h, tag, n, k) ==
    /\ DOMAIN h = 1..(2 + k) /\ Len(h) = 2 + k
    /\ h[1] = tag
    /\ h[2] = IF k = 0 THEN n ELSE 128 + k
    /\ \A j \in 1..k : h[2 + j] = (n \div Place[k - j + 1]) % 256

\* The encoding of a length has this header.
LEMMA HeaderOctets ==
    ASSUME NEW tag \in Nat, NEW n \in Nat
    PROVE  Header(Encode(tag, n), tag, n, Width(n))
<1> DEFINE k == Width(n)
           h == Encode(tag, n)
           ds == Digits(n, k)
           front == << tag, 128 + k >>
<1>1. k \in 0..4 /\ (k = 0 <=> n < 128)
  BY SMT DEF Width
<1>2. CASE k = 0
  <2>1. h = << tag, n >>
    BY <1>1, <1>2, SMT DEF Encode
  <2> HIDE DEF h, k
  <2> QED
    <3>1. Header(h, tag, n, k)
      BY <1>2, <2>1 DEF Header
    <3> QED
      BY <3>1 DEF h, k
<1>3. CASE k # 0
  <2>1. h = front \o ds
    BY <1>1, <1>3, SMT DEF Encode, Width
  <2>2. ds = [j \in 1..k |-> (n \div Place[k - j + 1]) % 256]
    BY DEF Digits
  <2>3. \A j \in 1..k : (n \div Place[k - j + 1]) % 256 \in Int
    <3>1. \A j \in 1..k : k - j + 1 \in {1, 2, 3, 4}
      BY <1>1
    <3>2. \A p \in {1, 2, 3, 4} : (n \div Place[p]) % 256 \in Int
      BY SMT DEF Place
    <3> HIDE DEF k
    <3> QED
      BY <3>1, <3>2
  <2> HIDE DEF k, ds, h
  <2>4. ds \in Seq(Int) /\ Len(ds) = k /\ k \in Nat
    BY <1>1, <2>2, <2>3
  <2>5. front \in Seq(Int) /\ Len(front) = 2 /\ front[1] = tag /\ front[2] = 128 + k
    BY <1>1
  <2> HIDE DEF front
  <2>6. /\ h \in Seq(Int) /\ Len(h) = 2 + k
        /\ \A j \in 1..Len(h) : h[j] = IF j <= Len(front) THEN front[j] ELSE ds[j - Len(front)]
    <3>1. /\ front \o ds \in Seq(Int) /\ Len(front \o ds) = Len(front) + Len(ds)
          /\ \A j \in 1..(Len(front) + Len(ds)) :
                 (front \o ds)[j] = IF j <= Len(front) THEN front[j] ELSE ds[j - Len(front)]
      BY <2>4, <2>5, ConcatProperties, ZenonT(30)
    <3> QED
      BY <2>1, <2>4, <2>5, <3>1
  <2>7. DOMAIN h = 1..(2 + k)
    BY <2>6
  <2>8. h[1] = tag /\ h[2] = 128 + k
    BY <2>4, <2>5, <2>6
  <2>9. \A j \in 1..k : h[2 + j] = ds[j]
    <3>1. \A j \in 1..k : 2 + j \in 1..Len(h) /\ ~(2 + j <= 2) /\ 2 + j - 2 = j
      BY <2>4, <2>6
    <3> QED
      BY <2>5, <2>6, <3>1
  <2>10. \A j \in 1..k : h[2 + j] = (n \div Place[k - j + 1]) % 256
    BY <2>2, <2>9
  <2> QED
    <3>1. Header(h, tag, n, k)
      BY <1>3, <2>6, <2>7, <2>8, <2>10 DEF Header
    <3> QED
      BY <3>1 DEF h, k
<1> QED
  BY <1>2, <1>3

\* The length n, in its shortest form, is at position i.
LengthAt(i, n) ==
    /\ Octet(i) = IF Width(n) = 0 THEN n ELSE 128 + Width(n)
    /\ Width(n) > 0 => combined(i + 1, Width(n)) = n

\* The digits of n are at position i exactly if the octets there combine to n.
LEMMA DigitsCombine ==
    ASSUME Octets(input), NEW i \in Nat \ {0}, NEW n \in Nat, FourOctets(n),
           Width(n) > 0
    PROVE  (\A j \in 1..Width(n) : Octet(i + j - 1) = (n \div Place[Width(n) - j + 1]) % 256)
               <=> combined(i, Width(n)) = n
<1> DEFINE k == Width(n)
           o(j) == Octet(i + j - 1)
           digits == \A j \in 1..k : o(j) = (n \div Place[k - j + 1]) % 256
<1>1. o(1) \in 0..255 /\ o(2) \in 0..255 /\ o(3) \in 0..255 /\ o(4) \in 0..255
  BY OctetIsOctet
<1>2. /\ combined(i, 1) = 0 * 256 + o(1)
      /\ combined(i, 2) = (0 * 256 + o(1)) * 256 + o(2)
      /\ combined(i, 3) = ((0 * 256 + o(1)) * 256 + o(2)) * 256 + o(3)
      /\ combined(i, 4) = (((0 * 256 + o(1)) * 256 + o(2)) * 256 + o(3)) * 256 + o(4)
  BY CombinedForms
<1>3. k \in {1, 2, 3, 4}
  BY SMT DEF Width
<1>4. Place[1] = 1 /\ Place[2] = 256 /\ Place[3] = 65536 /\ Place[4] = 16777216
  BY SMT DEF Place
<1> HIDE DEF o
<1>5. CASE k = 1
  <2>1. Agree1(n, o(1))
    BY <1>1, <1>5, Digits1, Zenon
  <2> HIDE DEF k
  <2>2. digits <=> o(1) = (n \div 1) % 256
    BY <1>4, <1>5, SMT
  <2> QED
    BY <1>2, <1>5, <2>1, <2>2, SMT DEF Agree1, o, k
<1>6. CASE k = 2
  <2>1. Agree2(n, o(1), o(2))
    BY <1>1, <1>6, Digits2, Zenon
  <2> HIDE DEF k
  <2>2. digits <=> o(1) = (n \div 256) % 256 /\ o(2) = (n \div 1) % 256
    BY <1>4, <1>6, SMT
  <2> QED
    BY <1>2, <1>6, <2>1, <2>2, SMT DEF Agree2, o, k
<1>7. CASE k = 3
  <2>1. Agree3(n, o(1), o(2), o(3))
    BY <1>1, <1>7, Digits3, Zenon
  <2> HIDE DEF k
  <2>2. digits <=> /\ o(1) = (n \div 65536) % 256 /\ o(2) = (n \div 256) % 256
                   /\ o(3) = (n \div 1) % 256
    BY <1>4, <1>7, SMT
  <2> QED
    BY <1>2, <1>7, <2>1, <2>2, SMT DEF Agree3, o, k
<1>8. CASE k = 4
  <2>1. Agree4(n, o(1), o(2), o(3), o(4))
    BY <1>1, Digits4, Zenon
  <2> HIDE DEF k
  <2>2. digits <=> /\ o(1) = (n \div 16777216) % 256 /\ o(2) = (n \div 65536) % 256
                   /\ o(3) = (n \div 256) % 256 /\ o(4) = (n \div 1) % 256
    BY <1>4, <1>8, SMT
  <2> QED
    BY <1>2, <1>8, <2>1, <2>2, SMT DEF Agree4, o, k
<1> QED
  BY <1>3, <1>5, <1>6, <1>7, <1>8

\* An element is a tag and the shortest form of its length, with the value after it.
LEMMA ElementByLength ==
    ASSUME Octets(input), NEW i \in Nat \ {0}, NEW tag \in Nat, NEW n \in Nat,
           FourOctets(n)
    PROVE  IsElement(i, tag, n) <=>
               /\ i + (2 + Width(n)) + n <= Size + 1
               /\ Octet(i) = tag /\ LengthAt(i + 1, n)
<1> DEFINE k == Width(n)
           h == Encode(tag, n)
           d(j) == (n \div Place[k - j + 1]) % 256
<1>1. /\ DOMAIN h = 1..(2 + k) /\ Len(h) = 2 + k /\ h[1] = tag
      /\ h[2] = IF k = 0 THEN n ELSE 128 + k
      /\ \A j \in 1..k : h[2 + j] = d(j)
  <2>1. Header(h, tag, n, k)
    BY HeaderOctets
  <2> HIDE DEF h, k
  <2> QED
    BY <2>1 DEF Header
<1>2. k \in 0..4
  BY SMT DEF Width
<1>3. IsElement(i, tag, n) <=> /\ i + Len(h) + n <= Size + 1
                               /\ \A j \in DOMAIN h : Octet(i + j - 1) = h[j]
  BY DEF IsElement
<1>4. k > 0 => ((\A j \in 1..k : Octet(i + 2 + j - 1) = d(j)) <=> combined(i + 1 + 1, k) = n)
  <2>1. i + 2 \in Nat \ {0} /\ i + 1 + 1 = i + 2
    OBVIOUS
  <2> QED
    BY <2>1, DigitsCombine
<1>5. LengthAt(i + 1, n) <=> /\ Octet(i + 1) = IF k = 0 THEN n ELSE 128 + k
                             /\ k > 0 => combined(i + 1 + 1, k) = n
  BY DEF LengthAt
<1> HIDE DEF k, h, d
<1>6. (\A j \in DOMAIN h : Octet(i + j - 1) = h[j]) <=>
          /\ Octet(i) = tag /\ Octet(i + 1) = h[2]
          /\ \A j \in 1..k : Octet(i + 2 + j - 1) = d(j)
  <2>1. i + 1 - 1 = i /\ i + 2 - 1 = i + 1
    OBVIOUS
  <2>2. \A j \in 1..k : 2 + j \in 1..(2 + k) /\ i + (2 + j) - 1 = i + 2 + j - 1
    BY <1>2
  <2>3. \A j \in 1..(2 + k) : j = 1 \/ j = 2 \/ (j - 2 \in 1..k /\ 2 + (j - 2) = j)
    BY <1>2
  <2>4. 1 \in 1..(2 + k) /\ 2 \in 1..(2 + k)
    BY <1>2
  <2>5. ASSUME \A j \in DOMAIN h : Octet(i + j - 1) = h[j]
        PROVE  /\ Octet(i) = tag /\ Octet(i + 1) = h[2]
               /\ \A j \in 1..k : Octet(i + 2 + j - 1) = d(j)
    BY <1>1, <2>1, <2>2, <2>4, <2>5, ZenonT(30)
  <2>6. ASSUME /\ Octet(i) = tag /\ Octet(i + 1) = h[2]
               /\ \A j \in 1..k : Octet(i + 2 + j - 1) = d(j),
               NEW j \in 1..(2 + k)
        PROVE  Octet(i + j - 1) = h[j]
    <3>1. CASE j = 1 \/ j = 2
      BY <1>1, <2>1, <2>6, <3>1
    <3>2. CASE j - 2 \in 1..k /\ 2 + (j - 2) = j
      <4>1. PICK l \in 1..k : l = j - 2 /\ 2 + l = j
        BY <3>2
      <4>2. Octet(i + 2 + l - 1) = d(l) /\ h[2 + l] = d(l)
        BY <1>1, <2>6
      <4>3. i + 2 + l - 1 = i + j - 1
        BY <4>1
      <4> QED
        BY <4>1, <4>2, <4>3
    <3> QED
      BY <2>3, <3>1, <3>2
  <2> QED
    BY <1>1, <2>5, <2>6
<1>7. k = 0 => ~(k > 0) /\ \A j \in 1..k : FALSE
  BY <1>2
<1>8. k # 0 => k > 0
  BY <1>2
<1> QED
  BY <1>1, <1>3, <1>4, <1>5, <1>6, <1>7, <1>8 DEF k

\* A number of k octets that needs all of them.
LEMMA CombinedWidth ==
    ASSUME Octets(input), NEW i \in Nat \ {0}, NEW k \in 1..4
    PROVE  /\ combined(i, k) \in Nat
           /\ combined(i, k) >= shortest[k] =>
                  Width(combined(i, k)) = k /\ FourOctets(combined(i, k))
<1> DEFINE o(j) == Octet(i + j - 1)
<1>1. o(1) \in 0..255 /\ o(2) \in 0..255 /\ o(3) \in 0..255 /\ o(4) \in 0..255
  BY OctetIsOctet
<1>2. /\ combined(i, 1) = 0 * 256 + o(1)
      /\ combined(i, 2) = (0 * 256 + o(1)) * 256 + o(2)
      /\ combined(i, 3) = ((0 * 256 + o(1)) * 256 + o(2)) * 256 + o(3)
      /\ combined(i, 4) = (((0 * 256 + o(1)) * 256 + o(2)) * 256 + o(3)) * 256 + o(4)
  BY CombinedForms
<1>3. /\ shortest[1] = 128 /\ shortest[2] = 256 /\ shortest[3] = 65536
      /\ shortest[4] = 16777216
  BY SMT DEF shortest
<1>4. k = 1 \/ k = 2 \/ k = 3 \/ k = 4
  OBVIOUS
<1> HIDE DEF o
<1>5. /\ combined(i, 1) \in Nat /\ combined(i, 1) < 256
      /\ combined(i, 2) \in Nat /\ combined(i, 2) < 65536
      /\ combined(i, 3) \in Nat /\ combined(i, 3) < 16777216
      /\ combined(i, 4) \in Nat /\ combined(i, 4) \div 256 < 16777216
  <2>1. combined(i, 1) \in Nat /\ combined(i, 1) < 256
    BY <1>1, <1>2, SMT
  <2>2. combined(i, 2) = combined(i, 1) * 256 + o(2)
    BY <1>2, Zenon
  <2>3. combined(i, 3) = combined(i, 2) * 256 + o(3)
    BY <1>2, Zenon
  <2>4. combined(i, 4) = combined(i, 3) * 256 + o(4)
    BY <1>2, Zenon
  <2>5. combined(i, 2) \in Nat /\ combined(i, 2) < 65536
    BY <1>1, <2>1, <2>2, SMT
  <2>6. combined(i, 3) \in Nat /\ combined(i, 3) < 16777216
    BY <1>1, <2>3, <2>5, SMT
  <2>7. combined(i, 4) \in Nat /\ combined(i, 4) \div 256 = combined(i, 3)
    BY <1>1, <2>4, <2>6, SMT
  <2> QED
    BY <2>1, <2>5, <2>6, <2>7, SMT
<1>6. CASE k = 1
  BY <1>3, <1>5, <1>6, SMT DEF Width, FourOctets
<1>7. CASE k = 2
  BY <1>3, <1>5, <1>7, SMT DEF Width, FourOctets
<1>8. CASE k = 3
  BY <1>3, <1>5, <1>8, SMT DEF Width, FourOctets
<1>9. CASE k = 4
  BY <1>3, <1>5, <1>9, SMT DEF Width, FourOctets
<1> QED
  BY <1>4, <1>6, <1>7, <1>8, <1>9, SMT

\* The width of a number that needs k octets.
LEMMA WidthOf ==
    ASSUME NEW n \in Nat
    PROVE  /\ Width(n) \in 0..4 /\ (Width(n) = 0 <=> n < 128)
           /\ Width(n) > 0 => Width(n) \in 1..4 /\ ~(n < shortest[Width(n)])
  BY SMT DEF Width, shortest

\* The length at position i.
LengthOk(i, n) == Ok([length |-> n, next |-> i + 1 + Width(n)])

\* A length in its shortest form is read.
LEMMA LengthIsRead ==
    ASSUME NEW i \in Nat \ {0}, NEW n \in Nat, LengthAt(i, n), i + Width(n) <= Size,
           Size \in Nat
    PROVE  read_length(i) = LengthOk(i, n)
<1> DEFINE w == Width(n)
           k == Octet(i) - 128
<1>1. w \in 0..4 /\ (w = 0 <=> n < 128)
  BY WidthOf
<1>2. ~(i > Size)
  <2> HIDE DEF w
  <2> QED
    BY <1>1 DEF w
<1>3. CASE w = 0
  <2>1. Octet(i) = n /\ n < 128 /\ i + 1 + w = i + 1
    BY <1>1, <1>3 DEF LengthAt
  <2>2. read_length(i) = Ok([length |-> n, next |-> i + 1])
    BY <1>2, <2>1 DEF read_length
  <2> HIDE DEF w
  <2> QED
    BY <2>1, <2>2 DEF LengthOk, w
<1>4. CASE w # 0
  <2>1. Octet(i) = 128 + w /\ w > 0 /\ combined(i + 1, w) = n
    BY <1>1, <1>4 DEF LengthAt
  <2>2. w \in 1..4 /\ ~(n < shortest[w]) /\ k = w
    BY <1>1, <2>1, WidthOf
  <2>3. ~(Octet(i) < 128) /\ ~(k \notin 1..4) /\ ~(i + k > Size)
    <3> HIDE DEF w
    <3> QED
      BY <1>1, <2>1, <2>2 DEF w
  <2>4. ~(combined(i + 1, k) < shortest[k])
    BY <2>1, <2>2
  <2>5. read_length(i) = Ok([length |-> combined(i + 1, k), next |-> i + 1 + k])
    <3> HIDE DEF w
    <3> QED
      BY <1>2, <2>3, <2>4 DEF read_length
  <2> HIDE DEF w, k
  <2> QED
    BY <2>1, <2>2, <2>5 DEF LengthOk, w
<1> QED
  BY <1>3, <1>4

\* What is read is a length in its shortest form; an error has a position.
ReadLength(i, r) ==
    \/ \E p \in Nat \ {0} : r = Failed(p)
    \/ \E n \in Nat : FourOctets(n) /\ LengthAt(i, n) /\ i + Width(n) <= Size /\ r = LengthOk(i, n)

\* So is every outcome of read_length.
LEMMA ReadIsLength ==
    ASSUME Octets(input), NEW i \in Nat \ {0}, Size \in Nat
    PROVE  ReadLength(i, read_length(i))
<1> DEFINE k == Octet(i) - 128
           r == read_length(i)
           c == combined(i + 1, k)
<1>1. Octet(i) \in 0..255
  BY OctetIsOctet
<1>2. CASE i > Size
  <2>1. r = Failed(i)
    BY <1>2 DEF read_length
  <2> QED
    BY <2>1 DEF ReadLength
<1>3. CASE ~(i > Size) /\ Octet(i) < 128
  <2> DEFINE n == Octet(i)
  <2>1. r = Ok([length |-> n, next |-> i + 1])
    BY <1>3 DEF read_length
  <2>2. n \in Nat /\ Width(n) = 0 /\ n < 128
    <3>1. n \in Nat
      BY <1>1
    <3> HIDE DEF n
    <3> QED
      BY <1>3, <3>1, WidthOf DEF n
  <2>3. FourOctets(n)
    BY <2>2, SMT DEF FourOctets
  <2>4. LengthAt(i, n) /\ i + Width(n) <= Size /\ i + 1 + Width(n) = i + 1
    <3>1. i + 0 <= Size /\ i + 1 + 0 = i + 1 /\ ~(0 > 0)
      BY <1>3
    <3> QED
      BY <2>2, <3>1 DEF LengthAt
  <2> HIDE DEF n
  <2>5. r = LengthOk(i, n)
    BY <2>1, <2>4 DEF LengthOk
  <2> QED
    BY <2>2, <2>3, <2>4, <2>5 DEF ReadLength
<1>4. CASE ~(i > Size) /\ ~(Octet(i) < 128) /\ k \notin 1..4
  <2>1. r = Failed(i + 1)
    BY <1>4 DEF read_length
  <2>2. i + 1 \in Nat \ {0}
    OBVIOUS
  <2> QED
    BY <2>1, <2>2 DEF ReadLength
<1>5. CASE ~(i > Size) /\ ~(Octet(i) < 128) /\ k \in 1..4
  <2>1. /\ i + k > Size => r = Failed(Size + 1)
        /\ ~(i + k > Size) /\ c < shortest[k] => r = Failed(i + 1 + k)
        /\ ~(i + k > Size) /\ ~(c < shortest[k]) => r = Ok([length |-> c, next |-> i + 1 + k])
    <3> HIDE DEF c
    <3> QED
      BY <1>5 DEF read_length, c
  <2>2. Size + 1 \in Nat \ {0} /\ i + 1 + k \in Nat \ {0} /\ i + 1 \in Nat \ {0}
    <3> HIDE DEF k
    <3> QED
      BY <1>5
  <2>3. CASE i + k > Size \/ c < shortest[k]
    <3> HIDE DEF r, c, k
    <3> QED
      BY <2>1, <2>2, <2>3 DEF ReadLength, r
  <2>4. CASE ~(i + k > Size) /\ ~(c < shortest[k])
    <3>1. r = Ok([length |-> c, next |-> i + 1 + k])
      BY <2>1, <2>4
    <3>2. c \in Nat /\ (c >= shortest[k] => Width(c) = k /\ FourOctets(c))
      <4> HIDE DEF k
      <4> QED
        BY <1>5, <2>2, CombinedWidth DEF c
    <3>3. c >= shortest[k]
      <4>1. shortest[k] \in Nat
        <5> HIDE DEF k
        <5> QED
          BY <1>5, SMT DEF shortest
      <4> HIDE DEF c, k
      <4> QED
        BY <2>4, <3>2, <4>1
    <3>4. Octet(i) = 128 + k /\ k > 0 /\ k # 0 /\ k \in Nat
      BY <1>1, <1>5
    <3>5. LengthAt(i, c) /\ i + Width(c) <= Size
      <4>1. Width(c) = k
        BY <3>2, <3>3
      <4>2. combined(i + 1, Width(c)) = c
        BY <4>1 DEF c
      <4> HIDE DEF c, k
      <4> QED
        BY <2>4, <3>4, <4>1, <4>2 DEF LengthAt
    <3>6. r = LengthOk(i, c)
      <4> HIDE DEF c, k
      <4> QED
        BY <3>1, <3>2, <3>3 DEF LengthOk
    <3> HIDE DEF c, k, r
    <3> QED
      BY <3>2, <3>3, <3>5, <3>6 DEF ReadLength, r
  <2> QED
    BY <2>3, <2>4
<1> QED
  BY <1>2, <1>3, <1>4, <1>5

\* The item with a value of n octets at position i.
ItemOk(i, n) ==
    Ok([ tag |-> Octet(i), start |-> i + 1 + 1 + Width(n), length |-> n,
         next |-> i + 1 + 1 + Width(n) + n ])

\* Either an element below the limit is read, or there is none.
Decided(i, r) ==
    \/ /\ \E p \in Nat \ {0} : r = Failed(p)
       /\ \/ Octet(i) % 32 = 31
          \/ \A n \in Nat : n < size_limit => ~IsElement(i, Octet(i), n)
    \/ \E n \in Nat : n < size_limit /\ IsElement(i, Octet(i), n) /\ r = ItemOk(i, n)

\* A length below a limit.
LEMMA BelowFourOctets ==
    ASSUME NEW m, FourOctets(m), NEW n \in Nat, n < m
    PROVE  FourOctets(n)
  BY SMT DEF FourOctets

\* The length of the element at i, if there is one, is what read_length returns.
LEMMA ElementIsRead ==
    ASSUME Octets(input), Size \in Nat, FourOctets(size_limit),
           NEW i \in Nat \ {0}, NEW n \in Nat, n < size_limit, IsElement(i, Octet(i), n)
    PROVE  /\ read_length(i + 1) = LengthOk(i + 1, n)
           /\ i + 1 + 1 + Width(n) + n <= Size + 1
<1>1. FourOctets(n)
  BY BelowFourOctets
<1>2. Octet(i) \in Nat
  BY OctetIsOctet
<1>3. i + (2 + Width(n)) + n <= Size + 1 /\ LengthAt(i + 1, n)
  BY <1>1, <1>2, ElementByLength
<1>4. Width(n) \in 0..4
  BY WidthOf
<1>5. i + 1 + Width(n) <= Size /\ i + 1 \in Nat \ {0} /\ i + 1 + 1 + Width(n) + n <= Size + 1
  BY <1>3, <1>4
<1> QED
  BY <1>3, <1>5, LengthIsRead

\* What the reader returns is decided so.
LEMMA TagRead ==
    ASSUME Octets(input), Size \in Nat, FourOctets(size_limit), NEW i \in Nat \ {0}
    PROVE  Decided(i, read_tag_and_get_value_limited(i))
<1> DEFINE r == read_tag_and_get_value_limited(i)
           length == read_length(i + 1)
           start == length.value.next
<1>1. i + 1 \in Nat \ {0} /\ Octet(i) \in Nat
  BY OctetIsOctet
<1>2. ReadLength(i + 1, length)
  BY <1>1, ReadIsLength
<1>3. /\ Octet(i) % 32 = 31 => r = Failed(i + 1)
      /\ ~(Octet(i) % 32 = 31) /\ length.result # "Ok" => r = length
      /\ ~(Octet(i) % 32 = 31) /\ ~(length.result # "Ok") =>
             /\ length.value.length >= size_limit => r = Failed(start)
             /\ ~(length.value.length >= size_limit) =>
                    /\ start + length.value.length > Size + 1 => r = Failed(start)
                    /\ ~(start + length.value.length > Size + 1) =>
                           r = Ok([ tag |-> Octet(i), start |-> start,
                                    length |-> length.value.length,
                                    next |-> start + length.value.length ])
  <2>1. r = IF Octet(i) % 32 = 31 THEN Failed(i + 1)
            ELSE IF length.result # "Ok" THEN length
            ELSE IF length.value.length >= size_limit THEN Failed(start)
            ELSE IF start + length.value.length > Size + 1 THEN Failed(start)
            ELSE Ok([ tag |-> Octet(i), start |-> start, length |-> length.value.length,
                      next |-> start + length.value.length ])
    BY DEF read_tag_and_get_value_limited
  <2> HIDE DEF r, length, start
  <2> QED
    BY <2>1
<1> HIDE DEF r
<1>4. CASE Octet(i) % 32 = 31
  BY <1>1, <1>3, <1>4, Zenon DEF Decided, r
<1>5. ASSUME ~(Octet(i) % 32 = 31), NEW p \in Nat \ {0}, length = Failed(p)
      PROVE  Decided(i, r)
  <2>1. length.result # "Ok"
    BY <1>5 DEF Failed
  <2>2. r = Failed(p)
    BY <1>3, <1>5, <2>1
  <2>3. ASSUME NEW n \in Nat, n < size_limit, IsElement(i, Octet(i), n) PROVE FALSE
    <3>1. length = LengthOk(i + 1, n)
      BY <2>3, ElementIsRead
    <3>2. length.result = "Ok"
      BY <3>1 DEF LengthOk, Ok
    <3> QED
      BY <2>1, <3>2
  <2> QED
    BY <2>2, <2>3, Zenon DEF Decided
<1>6. ASSUME ~(Octet(i) % 32 = 31), NEW m \in Nat, FourOctets(m), LengthAt(i + 1, m),
             length = LengthOk(i + 1, m)
      PROVE  Decided(i, r)
  <2>1. /\ length.result = "Ok" /\ length.value.length = m
        /\ start = i + 1 + 1 + Width(m)
    BY <1>6 DEF LengthOk, Ok
  <2>2. Width(m) \in 0..4
    BY WidthOf
  <2>3. start \in Nat \ {0}
    <3> HIDE DEF start
    <3> QED
      BY <2>1, <2>2
  <2>4. ASSUME NEW n \in Nat, n < size_limit, IsElement(i, Octet(i), n)
        PROVE  n = m /\ start + n <= Size + 1
    <3>1. length = LengthOk(i + 1, n) /\ i + 1 + 1 + Width(n) + n <= Size + 1
      BY <2>4, ElementIsRead
    <3>2. length.value.length = n
      BY <3>1 DEF LengthOk, Ok
    <3> HIDE DEF length, start
    <3> QED
      BY <2>1, <3>1, <3>2
  <2>5. size_limit \in Nat
    BY DEF FourOctets
  <2>6. CASE m >= size_limit \/ start + m > Size + 1
    <3>1. r = Failed(start)
      <4> HIDE DEF length, start
      <4> QED
        BY <1>3, <1>6, <2>1, <2>6 DEF length
    <3>2. ASSUME NEW n \in Nat, n < size_limit PROVE ~IsElement(i, Octet(i), n)
      <4>1. SUFFICES ASSUME IsElement(i, Octet(i), n) PROVE FALSE
        OBVIOUS
      <4>2. n = m /\ start + n <= Size + 1
        BY <2>4, <3>2, <4>1
      <4> HIDE DEF start
      <4> QED
        BY <2>3, <2>5, <2>6, <3>2, <4>2
    <3> HIDE DEF start
    <3> QED
      BY <2>3, <3>1, <3>2, Zenon DEF Decided
  <2>7. CASE ~(m >= size_limit) /\ ~(start + m > Size + 1)
    <3>1. r = ItemOk(i, m)
      <4> HIDE DEF length, start
      <4>1. r = Ok([tag |-> Octet(i), start |-> start, length |-> m, next |-> start + m])
        BY <1>3, <1>6, <2>1, <2>7 DEF length
      <4> QED
        BY <2>1, <4>1 DEF ItemOk
    <3>2. m < size_limit /\ i + (2 + Width(m)) + m <= Size + 1
      <4> HIDE DEF start
      <4> QED
        BY <2>1, <2>2, <2>3, <2>5, <2>7
    <3>3. IsElement(i, Octet(i), m)
      BY <1>1, <1>6, <3>2, ElementByLength
    <3> QED
      BY <3>1, <3>2, <3>3, Zenon DEF Decided
  <2> QED
    BY <2>6, <2>7
<1> HIDE DEF length, start
<1> QED
  BY <1>2, <1>4, <1>5, <1>6 DEF ReadLength, r

\* The inductive invariant: the item that was read is the one at its position.
ItemRead ==
    \E i \in Nat \ {0} : \E r : last = [from |-> i, read |-> r] /\ Decided(i, r)

Iterating ==
    /\ Octets(input) /\ pad \in Nat /\ FourOctets(size_limit)
    /\ pos \in Nat \ {0} /\ reads \in Nat
    /\ HasRead => ItemRead

\* The sizes are numbers.
LEMMA SizeIsNat ==
    ASSUME Octets(input), pad \in Nat
    PROVE  Len(input) \in Nat /\ Size \in Nat
<1>1. Len(input) \in Nat
  BY DEF Octets, IsSeq
<1> QED
  BY <1>1 DEF Size

\* What is decided depends on the input only.
LEMMA DecidedStays ==
    ASSUME UNCHANGED << input, pad, size_limit >>, NEW i, NEW r, Decided(i, r)
    PROVE  Decided(i, r)'
<1>1. input' = input /\ pad' = pad /\ size_limit' = size_limit
  OBVIOUS
<1>2. \A j : Octet(j)' = Octet(j)
  BY <1>1 DEF Octet
<1>3. Size' = Size
  BY <1>1 DEF Size
<1>4. \A t, n : IsElement(i, t, n)' <=> IsElement(i, t, n)
  BY <1>2, <1>3 DEF IsElement
<1>5. Octet(i)' = Octet(i)
  BY <1>2
<1>6. \A n : ItemOk(i, n)' = ItemOk(i, n)
  BY <1>5 DEF ItemOk
<1> QED
  BY <1>1, <1>4, <1>5, <1>6 DEF Decided

\* Every step keeps the invariant, and it holds at the start.
LEMMA IteratingNext == Iterating /\ [Next]_vars => Iterating'
<1> SUFFICES ASSUME Iterating, [Next]_vars PROVE Iterating'
  OBVIOUS
<1>1. CASE ReadItem
  <2> DEFINE item == read_tag_and_get_value_limited(pos)
  <2>1. /\ last' = [from |-> pos, read |-> item] /\ pos' = position_after(item)
        /\ reads' = reads + 1 /\ UNCHANGED << input, pad, size_limit >>
    BY <1>1 DEF ReadItem
  <2>2. Decided(pos, item)
    BY SizeIsNat, TagRead DEF Iterating
  <2> HIDE DEF item
  <2>3. pos' \in Nat \ {0}
    <3>1. CASE \E p \in Nat \ {0} : item = Failed(p)
      BY <2>1, <3>1 DEF position_after, Failed
    <3>2. ASSUME NEW n \in Nat, item = ItemOk(pos, n) PROVE pos' \in Nat \ {0}
      <4>1. item.result = "Ok" /\ item.value.next = pos + 1 + 1 + Width(n) + n
        BY <3>2 DEF ItemOk, Ok
      <4>2. Width(n) \in 0..4 /\ pos \in Nat \ {0}
        BY WidthOf DEF Iterating
      <4>3. item.value.next \in Nat \ {0}
        BY <4>1, <4>2
      <4> QED
        BY <2>1, <4>1, <4>3 DEF position_after
    <3> QED
      BY <2>2, <3>1, <3>2 DEF Decided
  <2>4. PICK i \in Nat \ {0} : \E r : i = pos /\ r = item
    BY DEF Iterating
  <2>5. PICK r : i = pos /\ r = item
    BY <2>4
  <2>6. Decided(i, r)'
    BY <2>1, <2>2, <2>5, DecidedStays
  <2>7. last' = [from |-> i, read |-> r]
    BY <2>1, <2>5
  <2>8. ItemRead'
    BY <2>6, <2>7, Zenon DEF ItemRead
  <2>9. reads' \in Nat /\ Octets(input') /\ pad' \in Nat /\ FourOctets(size_limit')
    BY <2>1 DEF Iterating
  <2> QED
    BY <2>3, <2>8, <2>9 DEF Iterating
<1>2. CASE UNCHANGED vars
  <2>1. /\ UNCHANGED << input, pad, size_limit >> /\ pos' = pos /\ reads' = reads
        /\ last' = last /\ input' = input /\ pad' = pad /\ size_limit' = size_limit
    BY <1>2 DEF vars
  <2>2. ItemRead => ItemRead'
    BY <2>1, DecidedStays DEF ItemRead
  <2> QED
    BY <2>1, <2>2 DEF Iterating, HasRead
<1> QED
  BY <1>1, <1>2 DEF Next, Stop

LEMMA IteratingInit == Init => Iterating
<1> SUFFICES ASSUME Init PROVE Iterating
  OBVIOUS
<1>1. PICK i \in Inputs : input = i.octets /\ pad = i.pad /\ size_limit = i.limit
  BY DEF Init
<1>2. Octets(input) /\ pad \in Nat /\ FourOctets(size_limit)
  BY <1>1, InputsAssumption
<1> QED
  BY <1>2 DEF Init, Iterating, HasRead

LEMMA IteratingAlways == Spec => []Iterating
  BY IteratingInit, IteratingNext, PTL DEF Spec

\* A number below zero is no length.
LEMMA NoNegative ==
    ASSUME Octets(input), NEW i \in Nat \ {0}, NEW tag, NEW n \in Int, n < 0
    PROVE  ~IsElement(i, tag, n)
<1>1. Encode(tag, n) = << tag, n >>
  BY SMT DEF Encode
<1>2. Octet(i + 2 - 1) \in 0..255
  BY OctetIsOctet
<1>3. SUFFICES ASSUME \A j \in DOMAIN << tag, n >> : Octet(i + j - 1) = << tag, n >>[j] PROVE FALSE
  BY <1>1 DEF IsElement
<1>4. Octet(i + 2 - 1) = n
  BY <1>3
<1> QED
  BY <1>2, <1>4

\* The invariant is what the property says.
LEMMA DistinguishedFollows == Iterating => ReadsDistinguished
<1> SUFFICES ASSUME Iterating, HasRead
             PROVE  IF last.read.result = "Ok"
                    THEN LET v == last.read.value
                         IN  /\ IsElement(last.from, v.tag, v.length)
                             /\ v.next = last.from + Len(Encode(v.tag, v.length)) + v.length
                             /\ v.length < size_limit
                    ELSE LET tag == Octet(last.from)
                         IN  tag % 32 = 31 \/
                             ~\E n \in Boundary : n < size_limit /\ IsElement(last.from, tag, n)
  BY DEF ReadsDistinguished
<1>0. PICK i \in Nat \ {0} : \E r : last = [from |-> i, read |-> r] /\ Decided(i, r)
  BY DEF Iterating, ItemRead
<1>1. PICK r : last = [from |-> i, read |-> r] /\ Decided(i, r)
  BY <1>0
<1>2. last.from = i /\ last.read = r
  BY <1>1
<1>3. CASE \E p \in Nat \ {0} : r = Failed(p)
  <2>1. r.result # "Ok"
    BY <1>3 DEF Failed
  <2>2. \A n \in Nat : r # ItemOk(i, n)
    BY <2>1 DEF ItemOk, Ok
  <2>3. Octet(i) % 32 = 31 \/ \A n \in Nat : n < size_limit => ~IsElement(i, Octet(i), n)
    BY <1>1, <2>2, Zenon DEF Decided
  <2>4. \A n \in Boundary : n \in Int
    BY SMT DEF Boundary, Iterating, FourOctets
  <2>5. \A n \in Int : n \in Nat \/ n < 0
    OBVIOUS
  <2>6. \A n \in Int : n < 0 => ~IsElement(i, Octet(i), n)
    BY NoNegative DEF Iterating
  <2> QED
    BY <1>2, <2>1, <2>3, <2>4, <2>5, <2>6
<1>4. ASSUME NEW n \in Nat, n < size_limit, IsElement(i, Octet(i), n), r = ItemOk(i, n)
      PROVE  /\ r.result = "Ok" /\ r.value.tag = Octet(i) /\ r.value.length = n
             /\ r.value.next = i + Len(Encode(Octet(i), n)) + n
  <2>1. /\ r.result = "Ok" /\ r.value.tag = Octet(i) /\ r.value.length = n
        /\ r.value.next = i + 1 + 1 + Width(n) + n
    BY <1>4 DEF ItemOk, Ok
  <2>2. Octet(i) \in Nat
    BY OctetIsOctet DEF Iterating
  <2>3. Len(Encode(Octet(i), n)) = 2 + Width(n)
    <3>1. Header(Encode(Octet(i), n), Octet(i), n, Width(n))
      BY <2>2, HeaderOctets
    <3> QED
      BY <3>1 DEF Header
  <2>4. Width(n) \in 0..4
    BY WidthOf
  <2>5. i + 1 + 1 + Width(n) + n = i + (2 + Width(n)) + n
    BY <2>4
  <2> QED
    BY <2>1, <2>3, <2>5
<1>5. CASE \E n \in Nat : n < size_limit /\ IsElement(i, Octet(i), n) /\ r = ItemOk(i, n)
  BY <1>2, <1>4, <1>5
<1> QED
  BY <1>1, <1>3, <1>5 DEF Decided

\* ReadsDistinguished for every input, whatever fails on the way: the reader
\* (read_tag_and_get_value_limited) returns exactly the elements in distinguished
\* encoding below its limit.
THEOREM DistinguishedTheorem == Spec => []ReadsDistinguished
  BY IteratingAlways, DistinguishedFollows, PTL

\* u8::from_der on the contents of an INTEGER.
LEMMA SmallIntegers ==
    ASSUME NEW c \in Seq(0..255)
    PROVE  LET read == u8_from_der(<< Element("Integer", c) >>)
               encodes(v) == c = IF v < 128 THEN << v >> ELSE << 0, v >>
           IN  IF read.result = "Ok" THEN encodes(read.value.value)
               ELSE \A v \in 0..255 : ~encodes(v)
<1> DEFINE rd == << Element("Integer", c) >>
           n == Len(c)
           long == c[1] = 0 /\ n > 1
           bad == c = << >> \/ c[1] >= 128 \/ (c[1] = 0 /\ n > 1 /\ c[2] < 128)
           taken == IF long THEN Tail(c) ELSE c
           read == u8_from_der(rd)
           encodes(v) == c = IF v < 128 THEN << v >> ELSE << 0, v >>
<1>1. expect_tag(rd, "Integer") = Read(c, << >>)
  BY DEF expect_tag, peek, Element
<1>2. nonnegative_integer(rd) = IF bad THEN Err("BadDer") ELSE Read(taken, << >>)
  <2>1. /\ expect_tag(rd, "Integer").result = "Ok"
        /\ expect_tag(rd, "Integer").value.value = c
        /\ expect_tag(rd, "Integer").value.rest = << >>
    BY <1>1 DEF Read, Ok
  <2> HIDE DEF rd
  <2> QED
    BY <2>1 DEF nonnegative_integer, AndThen
<1>3. /\ bad => read.result # "Ok"
      /\ ~bad /\ Len(taken) = 1 => read = Read(taken[1], << >>)
      /\ ~bad /\ Len(taken) # 1 => read.result # "Ok"
  <2> HIDE DEF rd, bad, taken
  <2> QED
    BY <1>2 DEF u8_from_der, AndThen, Read, Ok, Err
<1>4. n \in Nat /\ \A j \in 1..n : c[j] \in 0..255
  BY ElementOfSeq
<1>5. /\ \A v : c = << v >> <=> n = 1 /\ c[1] = v
      /\ \A v : c = << 0, v >> <=> n = 2 /\ c[1] = 0 /\ c[2] = v
  OBVIOUS
<1>6. n = 0 <=> c = << >>
  OBVIOUS
<1>7. long => Len(taken) = n - 1 /\ (n = 2 => taken[1] = c[2])
  OBVIOUS
<1>8. ~long => taken = c
  OBVIOUS
<1>9. Read(taken[1], << >>).result = "Ok" /\ Read(taken[1], << >>).value.value = taken[1]
  BY DEF Read, Ok
<1>10. \A v : encodes(v) <=> IF v < 128 THEN n = 1 /\ c[1] = v ELSE n = 2 /\ c[1] = 0 /\ c[2] = v
  BY <1>5
<1> HIDE DEF taken, read, encodes, n
<1>11. CASE read.result = "Ok"
  <2>1. ~bad /\ Len(taken) = 1 /\ read.value.value = taken[1]
    BY <1>3, <1>9, <1>11
  <2>2. n # 0 /\ c[1] \in 0..255 /\ c[1] < 128 /\ (n > 1 => c[2] \in 0..255)
    <3>1. n # 0 /\ ~(c[1] >= 128)
      BY <1>6, <2>1
    <3>2. 1 \in 1..n /\ (n > 1 => 2 \in 1..n)
      BY <1>4, <3>1
    <3>3. c[1] \in 0..255 /\ (n > 1 => c[2] \in 0..255)
      BY <1>4, <3>2
    <3>4. \A x \in 0..255 : ~(x >= 128) => x < 128
      OBVIOUS
    <3> QED
      BY <3>1, <3>3, <3>4, Zenon
  <2>3. CASE long
    <3>1. n = 2 /\ c[1] = 0 /\ taken[1] = c[2] /\ c[2] \in 0..255 /\ ~(c[2] < 128)
      BY <1>4, <1>7, <2>1, <2>2, <2>3
    <3> QED
      BY <1>10, <1>11, <2>1, <3>1 DEF read, encodes
  <2>4. CASE ~long
    <3>1. n = 1 /\ taken[1] = c[1]
      BY <1>8, <2>1, <2>4 DEF n
    <3> QED
      BY <1>10, <1>11, <2>1, <2>2, <3>1 DEF read, encodes
  <2> QED
    BY <2>3, <2>4
<1>12. CASE read.result # "Ok"
  <2>1. bad \/ Len(taken) # 1
    BY <1>3, <1>9, <1>12
  <2>2. ASSUME NEW v \in 0..255, encodes(v) PROVE FALSE
    <3>1. CASE v < 128
      <4>1. n = 1 /\ c[1] = v
        BY <1>10, <2>2, <3>1
      <4>2. ~long /\ ~bad
        BY <1>6, <3>1, <4>1
      <4> QED
        BY <1>8, <2>1, <4>1, <4>2 DEF n
    <3>2. CASE ~(v < 128)
      <4>1. n = 2 /\ c[1] = 0 /\ c[2] = v
        BY <1>10, <2>2, <3>2
      <4>2. long /\ ~bad
        BY <1>6, <3>2, <4>1
      <4> QED
        BY <1>7, <2>1, <4>1, <4>2
    <3> QED
      BY <3>1, <3>2
  <2> QED
    BY <1>12, <2>2 DEF read, encodes, n
<1> QED
  BY <1>11, <1>12

\* The contents are octets.
LEMMA IntegersFollow == Iterating => IntegersAgree
<1> SUFFICES ASSUME Iterating, InInput(2) PROVE Content \in Seq(0..255)
  BY SmallIntegers DEF IntegersAgree
<1>0. PICK i \in Nat \ {0} : \E r : last = [from |-> i, read |-> r] /\ Decided(i, r)
  BY DEF Iterating, ItemRead, InInput
<1>1. PICK r : last = [from |-> i, read |-> r] /\ Decided(i, r)
  BY <1>0
<1>2. last.read = r /\ r.result = "Ok" /\ r.value.next <= Len(input) + 1
  BY <1>1 DEF InInput
<1>3. PICK n \in Nat : r = ItemOk(i, n)
  <2>1. \A p : r # Failed(p)
    BY <1>2 DEF Failed
  <2> QED
    BY <1>1, <2>1, Zenon DEF Decided
<1>4. r.value.start = i + 1 + 1 + Width(n) /\ r.value.next = i + 1 + 1 + Width(n) + n
  BY <1>3 DEF ItemOk, Ok
<1>5. Width(n) \in 0..4
  BY WidthOf
<1>6. input \in Seq(0..255)
  <2>1. Octets(input)
    BY DEF Iterating
  <2>2. Len(input) \in Nat /\ input \in Seq({input[j] : j \in DOMAIN input}) /\ DOMAIN input = 1..Len(input)
    BY <2>1 DEF Octets, IsSeq
  <2>3. \A j \in DOMAIN input : input[j] \in 0..255
    BY <2>1 DEF Octets
  <2> QED
    <3>1. input = [j \in 1..Len(input) |-> input[j]]
      BY <2>2
    <3>2. input \in [1..Len(input) -> 0..255]
      BY <2>2, <2>3, <3>1
    <3> QED
      <4>1. [1..Len(input) -> 0..255] \in {[1..m -> 0..255] : m \in Nat}
        BY <2>2
      <4>2. Seq(0..255) = UNION {[1..m -> 0..255] : m \in Nat}
        BY SeqDef, Zenon
      <4> QED
        BY <3>2, <4>1, <4>2, Zenon
<1> DEFINE a == r.value.start
           b == r.value.next - 1
<1>7. a \in Nat \ {0} /\ b \in Int /\ b <= Len(input) /\ Len(input) \in Nat
  BY <1>2, <1>4, <1>5, <1>6
<1>8. SubSeq(input, a, b) \in Seq(0..255)
  <2>1. \A j \in a..b : input[j] \in 0..255
    <3>1. \A j \in a..b : j \in 1..Len(input)
      BY <1>7
    <3> QED
      BY <1>6, <3>1, ElementOfSeq
  <2> HIDE DEF a, b
  <2> QED
    BY <1>7, <2>1, SubSeqProperties
<1> QED
  BY <1>2, <1>8 DEF Content

\* IntegersAgree for every input: u8::from_der reads the distinguished encodings of 0
\* to 255 and nothing else.
THEOREM IntegersTheorem == Spec => []IntegersAgree
  BY IteratingAlways, IntegersFollow, PTL
=============================================================================
