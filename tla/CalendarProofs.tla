--------------------------- MODULE CalendarProofs ---------------------------
(***************************************************************************)
(* The date of an event is that of the Gregorian calendar on every day     *)
(* from 1970-01-01 on, however many there are.  Years begin in March, as   *)
(* in DaysToYmd, so that a leap day ends one; an era is 400 of them.       *)
(***************************************************************************)
EXTENDS Calendar, SequenceTheorems, TLAPS
-----------------------------------------------------------------------------
(* The years of an era.                                                    *)

YearOfEra(doe) ==
    (doe - doe \div 1460 + doe \div 36524 - doe \div 146096) \div 365

\* The day of the era a year starts on, and that on which the next one does.
Start(y) == 365 * y + y \div 4 - y \div 100
YearEnd(y) == IF y = 399 THEN 146097 ELSE Start(y + 1)

\* The quotients of YearOfEra and Start, by what bounds them.
LEMMA Quotients ==
    ASSUME NEW x \in Nat
    PROVE  /\ x \div 4 \in Nat /\ 4 * (x \div 4) <= x /\ x <= 4 * (x \div 4) + 3
           /\ x \div 100 \in Nat /\ 100 * (x \div 100) <= x
           /\ x <= 100 * (x \div 100) + 99
           /\ x \div 365 \in Nat /\ 365 * (x \div 365) <= x
           /\ x <= 365 * (x \div 365) + 364
           /\ x \div 1460 \in Nat /\ 1460 * (x \div 1460) <= x
           /\ x <= 1460 * (x \div 1460) + 1459
           /\ x \div 36524 \in Nat /\ 36524 * (x \div 36524) <= x
           /\ x <= 36524 * (x \div 36524) + 36523
<1>1. x \div 4 \in Nat /\ 4 * (x \div 4) <= x /\ x <= 4 * (x \div 4) + 3
  OBVIOUS
<1>2. /\ x \div 100 \in Nat /\ 100 * (x \div 100) <= x
      /\ x <= 100 * (x \div 100) + 99
  OBVIOUS
<1>3. /\ x \div 365 \in Nat /\ 365 * (x \div 365) <= x
      /\ x <= 365 * (x \div 365) + 364
  OBVIOUS
<1>4. /\ x \div 1460 \in Nat /\ 1460 * (x \div 1460) <= x
      /\ x <= 1460 * (x \div 1460) + 1459
  OBVIOUS
<1>5. /\ x \div 36524 \in Nat /\ 36524 * (x \div 36524) <= x
      /\ x <= 36524 * (x \div 36524) + 36523
  OBVIOUS
<1> QED BY <1>1, <1>2, <1>3, <1>4, <1>5

\* What makes the year y that of a day, when q times four years and c centuries
\* have passed, a and e leap days come before the year, b and f before the next.
LEMMA YearBounds ==
    ASSUME NEW doe \in Nat, NEW q \in Nat, NEW c \in Nat, NEW y \in Nat,
           NEW a \in Nat, NEW e \in Nat, NEW b \in Nat, NEW f \in Nat,
           doe <= 146095, c <= 3,
           1460 * q <= doe, doe <= 1460 * q + 1459,
           36524 * c <= doe, doe <= 36524 * c + 36523,
           365 * y <= doe - q + c, doe - q + c <= 365 * y + 364,
           4 * a <= y, y <= 4 * a + 3, 100 * e <= y, y <= 100 * e + 99,
           4 * b <= y + 1, y + 1 <= 4 * b + 3,
           100 * f <= y + 1, y + 1 <= 100 * f + 99
    PROVE  /\ y <= 399
           /\ 365 * y + a - e <= doe
           /\ doe < 365 * (y + 1) + b - f \/ y = 399
<1>1. CASE c = 0
  BY <1>1
<1>2. CASE c = 1
  BY <1>2
<1>3. CASE c = 2
  BY <1>3
<1>4. CASE c = 3
  BY <1>4
<1> QED BY <1>1, <1>2, <1>3, <1>4

\* A day is within the year it is said to be of.
LEMMA YearFits ==
    ASSUME NEW doe \in Nat, doe <= 146096
    PROVE  /\ YearOfEra(doe) \in Nat /\ YearOfEra(doe) <= 399
           /\ Start(YearOfEra(doe)) <= doe /\ doe < YearEnd(YearOfEra(doe))
<1> DEFINE q == doe \div 1460
           c == doe \div 36524
           l == doe \div 146096
           y == YearOfEra(doe)
<1>1. CASE doe = 146096
  <2>1. y = 399
    BY <1>1 DEF YearOfEra
  <2>2. Start(399) <= 146096
    BY DEF Start
  <2> QED BY <1>1, <2>1, <2>2 DEF YearEnd
<1>2. CASE doe # 146096
  <2>1. doe \in Nat /\ doe <= 146095
    BY <1>2
  <2>2. /\ q \in Nat /\ 1460 * q <= doe /\ doe <= 1460 * q + 1459
        /\ c \in Nat /\ 36524 * c <= doe /\ doe <= 36524 * c + 36523
    BY <2>1, Quotients
  <2>0. l = 0
    BY <1>2
  <2>3. y = (doe - q + c - l) \div 365
    BY DEF YearOfEra
  <2> HIDE DEF q, c, l, y
  <2>4. c <= 3 /\ doe - q + c \in Nat /\ doe - q + c - l = doe - q + c
    BY <2>1, <2>2, <2>0
  <2>5. /\ y \in Nat /\ 365 * y <= doe - q + c
        /\ doe - q + c <= 365 * y + 364
    <3> DEFINE x == doe - q + c
    <3>1. x \in Nat /\ y = x \div 365
      BY <2>3, <2>4
    <3> HIDE DEF x
    <3>2. y \in Nat /\ 365 * y <= x /\ x <= 365 * y + 364
      BY <3>1, Quotients
    <3> QED BY <3>2 DEF x
  <2> DEFINE a == y \div 4
             e == y \div 100
             b == (y + 1) \div 4
             f == (y + 1) \div 100
  <2>6. /\ a \in Nat /\ 4 * a <= y /\ y <= 4 * a + 3
        /\ e \in Nat /\ 100 * e <= y /\ y <= 100 * e + 99
    BY <2>5, Quotients
  <2>7. /\ b \in Nat /\ 4 * b <= y + 1 /\ y + 1 <= 4 * b + 3
        /\ f \in Nat /\ 100 * f <= y + 1 /\ y + 1 <= 100 * f + 99
    <3> y + 1 \in Nat
      BY <2>5
    <3> QED BY Quotients
  <2>8. Start(y) = 365 * y + a - e /\ Start(y + 1) = 365 * (y + 1) + b - f
    BY DEF Start
  <2> HIDE DEF a, e, b, f
  <2>9. /\ y <= 399
        /\ 365 * y + a - e <= doe
        /\ doe < 365 * (y + 1) + b - f \/ y = 399
    BY <2>1, <2>2, <2>4, <2>5, <2>6, <2>7, YearBounds
  <2>10. y \in Nat /\ y <= 399 /\ Start(y) <= doe /\ doe < YearEnd(y)
    BY <2>1, <2>5, <2>8, <2>9 DEF YearEnd
  <2> QED BY <2>10 DEF y
<1> QED BY <1>1, <1>2

\* A year begins no earlier than the one before it ends.
LEMMA YearsFollow ==
    ASSUME NEW y \in Nat, NEW z \in Nat, y < z, z <= 399
    PROVE  YearEnd(y) <= Start(z)
BY DEF Start, YearEnd

\* So a day is within one year only.
LEMMA YearUnique ==
    ASSUME NEW doe \in Nat, doe <= 146096, NEW y \in Nat, y <= 399,
           Start(y) <= doe, doe < YearEnd(y)
    PROVE  YearOfEra(doe) = y
<1> DEFINE z == YearOfEra(doe)
<1>1. z \in Nat /\ z <= 399 /\ Start(z) <= doe /\ doe < YearEnd(z)
  BY YearFits
<1>2. \A x \in Nat : Start(x) \in Int /\ YearEnd(x) \in Int
  BY DEF Start, YearEnd
<1> HIDE DEF z
<1>3. CASE y < z
  <2>1. YearEnd(y) <= Start(z)
    BY <1>1, <1>3, YearsFollow
  <2> QED BY <1>1, <1>2, <2>1
<1>4. CASE z < y
  <2>1. YearEnd(z) <= Start(y)
    BY <1>1, <1>4, YearsFollow
  <2> QED BY <1>1, <1>2, <2>1
<1> QED BY <1>1, <1>3, <1>4 DEF z

\* A year has 366 days if the February in it, of the next civil year, has 29.
LEMMA YearLength ==
    ASSUME NEW y \in Nat, y <= 399, NEW era \in Nat
    PROVE  /\ Start(y) \in Nat
           /\ YearEnd(y)
                = Start(y) + IF Leap(400 * era + y + 1) THEN 366 ELSE 365
<1>1. YearEnd(y) = Start(y) + IF Leap(y + 1) THEN 366 ELSE 365
  BY DEF Start, YearEnd, Leap
<1>2. Leap(400 * era + y + 1) <=> Leap(y + 1)
  BY DEF Leap
<1>3. Start(y) \in Nat
  BY DEF Start
<1> QED BY <1>1, <1>2, <1>3
-----------------------------------------------------------------------------
(* The months of a year.                                                   *)

MonthOfYear(doy) == (5 * doy + 2) \div 153
Month(mp) == IF mp < 10 THEN mp + 3 ELSE mp - 9

\* The day of the year a month starts on.
MonthStart(mp) == (153 * mp + 2) \div 5

\* The date of a day of the year, in the year y that began in March.
DateIn(y, doy) ==
    LET mp == MonthOfYear(doy)
    IN  <<y + (IF Month(mp) <= 2 THEN 1 ELSE 0), Month(mp),
          doy - MonthStart(mp) + 1>>

\* A day is within the month it is said to be of.
LEMMA MonthFits ==
    ASSUME NEW doy \in Nat, doy <= 365
    PROVE  /\ MonthOfYear(doy) \in 0..11
           /\ MonthStart(MonthOfYear(doy)) <= doy
           /\ doy < MonthStart(MonthOfYear(doy) + 1)
BY DEF MonthOfYear, MonthStart

\* The months have the lengths they have, but for February, which ends the year.
LEMMA MonthsFollow ==
    ASSUME NEW mp \in 0..10, NEW year
    PROVE  MonthStart(mp + 1) = MonthStart(mp) + MonthLength(year, Month(mp))
BY DEF MonthStart, MonthLength, Month

\* A day is within one month only.
LEMMA MonthUnique ==
    ASSUME NEW doy \in Nat, doy <= 365, NEW mp \in Nat, mp <= 11,
           MonthStart(mp) <= doy, doy < MonthStart(mp + 1)
    PROVE  MonthOfYear(doy) = mp
BY DEF MonthOfYear, MonthStart

\* Within a year the next page is the next day of the year.
LEMMA NextInYear ==
    ASSUME NEW y \in Nat, NEW doy \in Nat,
           doy + 1 < IF Leap(y + 1) THEN 366 ELSE 365
    PROVE  NextPage(DateIn(y, doy)) = DateIn(y, doy + 1)
<1> DEFINE mp == MonthOfYear(doy)
           date == DateIn(y, doy)
           year == y + (IF Month(mp) <= 2 THEN 1 ELSE 0)
<1>1. doy <= 365 /\ doy + 1 \in Nat /\ doy + 1 <= 365
  OBVIOUS
<1>2. /\ mp \in 0..11 /\ MonthStart(mp) <= doy /\ doy < MonthStart(mp + 1)
  BY <1>1, MonthFits
<1>3. \A m \in 0..12 : MonthStart(m) \in Nat
  BY DEF MonthStart
<1>4. /\ date[1] = year /\ date[2] = Month(mp)
      /\ date[3] = doy - MonthStart(mp) + 1
  BY DEF DateIn
<1> HIDE DEF mp, date
<1>5. CASE doy + 1 < MonthStart(mp + 1)
  <2>1. MonthOfYear(doy + 1) = mp
    BY <1>1, <1>2, <1>3, <1>5, MonthUnique
  <2>2. date[3] < MonthLength(year, Month(mp))
    <3>1. CASE mp \in 0..10
      <4>1. MonthStart(mp + 1) = MonthStart(mp) + MonthLength(year, Month(mp))
        BY <3>1, MonthsFollow
      <4>2. MonthLength(year, Month(mp)) \in Nat
        BY DEF MonthLength
      <4> QED BY <1>2, <1>3, <1>4, <1>5, <4>1, <4>2
    <3>2. CASE mp = 11
      <4>1. Month(mp) = 2 /\ MonthStart(mp) = 337
        BY <3>2 DEF Month, MonthStart
      <4>2. year = y + 1 /\ MonthLength(year, 2) = IF Leap(y + 1) THEN 29 ELSE 28
        BY <4>1 DEF MonthLength
      <4> QED BY <1>4, <4>1, <4>2
    <3> QED BY <1>2, <3>1, <3>2
  <2>3. NextPage(date) = <<year, Month(mp), doy - MonthStart(mp) + 1 + 1>>
    BY <1>4, <2>2 DEF NextPage
  <2>4. doy - MonthStart(mp) + 1 + 1 = (doy + 1) - MonthStart(mp) + 1
    BY <1>2, <1>3
  <2>5. DateIn(y, doy + 1) = <<year, Month(mp), (doy + 1) - MonthStart(mp) + 1>>
    BY <2>1 DEF DateIn
  <2> QED BY <2>3, <2>4, <2>5 DEF date
<1>6. CASE doy + 1 = MonthStart(mp + 1)
  <2>1. mp \in 0..10
    <3>1. MonthStart(12) = 367
      BY DEF MonthStart
    <3> QED BY <1>1, <1>2, <1>6, <3>1
  <2>2. MonthStart(mp + 1) = MonthStart(mp) + MonthLength(year, Month(mp))
    BY <2>1, MonthsFollow
  <2>3. date[3] = MonthLength(year, Month(mp))
    <3>1. MonthLength(year, Month(mp)) \in Nat
      BY DEF MonthLength
    <3> QED BY <1>2, <1>3, <1>4, <1>6, <2>2, <3>1
  <2>4. MonthOfYear(doy + 1) = mp + 1
    <3>1. MonthStart(mp + 1) < MonthStart(mp + 1 + 1)
      BY <2>1 DEF MonthStart
    <3> QED BY <1>1, <1>6, <2>1, <3>1, MonthUnique
  <2>5. (doy + 1) - MonthStart(mp + 1) + 1 = 1
    BY <1>3, <1>6, <2>1
  <2>6. DateIn(y, doy + 1)
          = <<y + (IF Month(mp + 1) <= 2 THEN 1 ELSE 0), Month(mp + 1), 1>>
    BY <2>4, <2>5 DEF DateIn
  <2>7. NextPage(date) = IF Month(mp) < 12 THEN <<year, Month(mp) + 1, 1>>
                         ELSE <<year + 1, 1, 1>>
    <3>1. ~(date[3] < MonthLength(year, Month(mp)))
      <4>1. MonthLength(year, Month(mp)) \in Nat
        BY DEF MonthLength
      <4> QED BY <2>3, <4>1
    <3> QED BY <1>4, <3>1 DEF NextPage
  <2>8. CASE mp \in 0..8
    <3>1. Month(mp) = mp + 3 /\ Month(mp + 1) = mp + 4
      BY <2>8 DEF Month
    <3> QED BY <2>6, <2>7, <2>8, <3>1 DEF date
  <2>9. CASE mp = 9
    <3>1. Month(mp) = 12 /\ Month(mp + 1) = 1
      BY <2>9 DEF Month
    <3> QED BY <2>6, <2>7, <3>1 DEF date
  <2>10. CASE mp = 10
    <3>1. Month(mp) = 1 /\ Month(mp + 1) = 2
      BY <2>10 DEF Month
    <3> QED BY <2>6, <2>7, <3>1 DEF date
  <2> QED BY <2>1, <2>8, <2>9, <2>10
<1> QED BY <1>2, <1>3, <1>5, <1>6

\* After its last day comes the first of March.
LEMMA NextYear ==
    ASSUME NEW y \in Nat, NEW doy \in Nat,
           doy + 1 = IF Leap(y + 1) THEN 366 ELSE 365
    PROVE  NextPage(DateIn(y, doy)) = DateIn(y + 1, 0)
<1>1. MonthOfYear(doy) = 11 /\ MonthOfYear(0) = 0
  BY DEF MonthOfYear
<1>2. /\ Month(11) = 2 /\ MonthStart(11) = 337
      /\ Month(0) = 3 /\ MonthStart(0) = 0
  BY DEF Month, MonthStart
<1>3. DateIn(y, doy) = <<y + 1, 2, IF Leap(y + 1) THEN 29 ELSE 28>>
  <2>1. doy - 337 + 1 = IF Leap(y + 1) THEN 29 ELSE 28
    OBVIOUS
  <2> QED BY <1>1, <1>2, <2>1 DEF DateIn
<1>4. DateIn(y + 1, 0) = <<y + 1, 3, 1>>
  BY <1>1, <1>2 DEF DateIn
<1>5. MonthLength(y + 1, 2) = IF Leap(y + 1) THEN 29 ELSE 28
  BY DEF MonthLength
<1> QED BY <1>3, <1>4, <1>5 DEF NextPage
-----------------------------------------------------------------------------
(* The days of an event's time stamp.                                      *)

\* The era of a day and the day of the era.
LEMMA Eras ==
    ASSUME NEW z \in Nat
    PROVE  /\ z \div 146097 \in Nat
           /\ z % 146097 \in Nat /\ z % 146097 <= 146096
           /\ z = 146097 * (z \div 146097) + (z % 146097)
<1>1. /\ z \div 146097 \in Nat /\ 146097 * (z \div 146097) <= z
      /\ z <= 146097 * (z \div 146097) + 146096
  OBVIOUS
<1>2. z = 146097 * (z \div 146097) + (z % 146097)
  OBVIOUS
<1>3. z % 146097 \in Int
  OBVIOUS
<1> DEFINE e == z \div 146097
           r == z % 146097
<1>4. /\ e \in Nat /\ r \in Int /\ 146097 * e <= z /\ z <= 146097 * e + 146096
      /\ z = 146097 * e + r
  BY <1>1, <1>2, <1>3
<1> HIDE DEF e, r
<1>5. r \in Nat /\ r <= 146096
  BY <1>4
<1> QED BY <1>1, <1>2, <1>5 DEF r

\* There is but one of each.
LEMMA EraUnique ==
    ASSUME NEW z \in Nat, NEW era \in Nat, NEW doe \in Nat, doe < 146097,
           z = 146097 * era + doe
    PROVE  z \div 146097 = era /\ z % 146097 = doe
<1>1. z \div 146097 = era
  OBVIOUS
<1>2. z % 146097 = doe
  OBVIOUS
<1> QED BY <1>1, <1>2

\* DaysToYmd, by the years that begin in March.
LEMMA DaysToYmdIs ==
    ASSUME NEW days \in Nat, NEW era \in Nat, NEW doe \in Nat, doe < 146097,
           days + 719468 = 146097 * era + doe
    PROVE  DaysToYmd(days) = DateIn(YearOfEra(doe) + era * 400,
                                    doe - Start(YearOfEra(doe)))
<1> DEFINE z == days + 719468
<1>1. z \div 146097 = era /\ z % 146097 = doe
  <2> z \in Nat /\ z = 146097 * era + doe
    OBVIOUS
  <2> HIDE DEF z
  <2> QED BY EraUnique
<1>2. DaysToYmd(days) = DateIn(YearOfEra(z % 146097) + (z \div 146097) * 400,
                               (z % 146097) - Start(YearOfEra(z % 146097)))
  BY DEF DaysToYmd, DateIn, YearOfEra, Start, MonthOfYear, Month, MonthStart
<1> HIDE DEF z
<1> QED BY <1>1, <1>2

\* The calendar turns from the date of a day to that of the next.
LEMMA NextDay ==
    ASSUME NEW days \in Nat
    PROVE  DaysToYmd(days + 1) = NextPage(DaysToYmd(days))
<1> DEFINE z == days + 719468
           era == z \div 146097
           doe == z % 146097
           y == YearOfEra(doe)
           doy == doe - Start(y)
<1>1. /\ era \in Nat /\ doe \in Nat /\ doe < 146097
      /\ days + 719468 = 146097 * era + doe
  <2> z \in Nat
    OBVIOUS
  <2>1. /\ era \in Nat /\ doe \in Nat /\ doe <= 146096
        /\ z = 146097 * era + doe
    <3> HIDE DEF z
    <3> QED BY Eras
  <2> HIDE DEF era, doe
  <2> QED BY <2>1
<1> HIDE DEF z, era, doe
<1>2. /\ y \in Nat /\ y <= 399 /\ Start(y) <= doe /\ doe < YearEnd(y)
  BY <1>1, YearFits
<1> HIDE DEF y
<1>3. /\ Start(y) \in Nat
      /\ YearEnd(y) = Start(y) + IF Leap(400 * era + y + 1) THEN 366 ELSE 365
  BY <1>1, <1>2, YearLength
<1> DEFINE m == y + era * 400
           n == IF Leap(m + 1) THEN 366 ELSE 365
<1>4. m \in Nat /\ m + 1 = 400 * era + y + 1
  BY <1>1, <1>2
<1>5. n \in Nat /\ YearEnd(y) = Start(y) + n
  BY <1>3, <1>4
<1>6. DaysToYmd(days) = DateIn(m, doy)
  BY <1>1, DaysToYmdIs DEF y
<1>7. doy \in Nat /\ doy < n
  <2> HIDE DEF n
  <2> QED BY <1>1, <1>2, <1>3, <1>5
<1>8. CASE doy + 1 < n
  <2>1. doe + 1 < YearEnd(y) /\ doe + 1 \in Nat /\ Start(y) <= doe + 1
    <3> HIDE DEF n
    <3> QED BY <1>1, <1>2, <1>3, <1>5, <1>8
  <2>2. YearEnd(y) <= 146097
    <3>1. CASE y = 399
      BY <3>1 DEF YearEnd
    <3>2. CASE y < 399
      <4>1. YearEnd(y) <= Start(399)
        BY <1>2, <3>2, YearsFollow
      <4>2. Start(399) = 145731
        BY DEF Start
      <4> QED BY <1>3, <1>5, <4>1, <4>2
    <3> QED BY <1>2, <3>1, <3>2
  <2>3. doe + 1 < 146097
    <3> HIDE DEF n
    <3> QED BY <1>3, <1>5, <2>1, <2>2
  <2>4. YearOfEra(doe + 1) = y
    BY <1>2, <2>1, <2>3, YearUnique
  <2>5. DaysToYmd(days + 1) = DateIn(m, (doe + 1) - Start(y))
    <3>1. days + 1 \in Nat /\ (days + 1) + 719468 = 146097 * era + (doe + 1)
      BY <1>1
    <3> QED BY <1>1, <2>1, <2>3, <2>4, <3>1, DaysToYmdIs
  <2>6. (doe + 1) - Start(y) = doy + 1
    BY <1>1, <1>3
  <2>7. NextPage(DateIn(m, doy)) = DateIn(m, doy + 1)
    <3> HIDE DEF m, doy
    <3> QED BY <1>4, <1>7, <1>8, NextInYear DEF n
  <2> HIDE DEF doy
  <2> QED BY <1>6, <2>5, <2>6, <2>7
<1>9. CASE doy + 1 = n
  <2>1. doe + 1 = YearEnd(y)
    <3> HIDE DEF n
    <3> QED BY <1>1, <1>3, <1>5, <1>9
  <2>2. NextPage(DateIn(m, doy)) = DateIn(m + 1, 0)
    <3> HIDE DEF m, doy
    <3> QED BY <1>4, <1>7, <1>9, NextYear DEF n
  <2>3. DaysToYmd(days + 1) = DateIn(m + 1, 0)
    <3>1. CASE y = 399
      <4>1. doe + 1 = 146097
        BY <2>1, <3>1 DEF YearEnd
      <4>2. /\ days + 1 \in Nat /\ era + 1 \in Nat
            /\ (days + 1) + 719468 = 146097 * (era + 1) + 0
        BY <1>1, <4>1
      <4>3. YearOfEra(0) = 0 /\ Start(0) = 0
        BY DEF YearOfEra, Start
      <4>4. DaysToYmd(days + 1) = DateIn(0 + (era + 1) * 400, 0 - 0)
        BY <4>2, <4>3, DaysToYmdIs
      <4>5. 0 + (era + 1) * 400 = m + 1 /\ 0 - 0 = 0
        BY <1>1, <3>1
      <4> QED BY <4>4, <4>5
    <3>2. CASE y < 399
      <4>1. doe + 1 = Start(y + 1) /\ y + 1 \in Nat /\ y + 1 <= 399
        BY <1>2, <2>1, <3>2 DEF YearEnd
      <4>2. Start(y + 1) <= 145731 /\ Start(y + 1) < YearEnd(y + 1)
        <5>1. Start(y + 1) \in Nat /\ Start(y + 1) <= 145731
          BY <4>1 DEF Start
        <5>2. \E k \in {365, 366} : YearEnd(y + 1) = Start(y + 1) + k
          BY <1>1, <4>1, YearLength
        <5> QED BY <5>1, <5>2
      <4>3. doe + 1 \in Nat /\ doe + 1 <= 146096 /\ doe + 1 < 146097
        BY <1>1, <4>1, <4>2
      <4>4. YearOfEra(doe + 1) = y + 1
        BY <4>1, <4>2, <4>3, YearUnique
      <4>5. /\ days + 1 \in Nat
            /\ (days + 1) + 719468 = 146097 * era + (doe + 1)
        BY <1>1
      <4>6. DaysToYmd(days + 1)
              = DateIn((y + 1) + era * 400, (doe + 1) - Start(y + 1))
        BY <1>1, <4>3, <4>4, <4>5, DaysToYmdIs
      <4>7. (y + 1) + era * 400 = m + 1 /\ (doe + 1) - Start(y + 1) = 0
        BY <1>1, <1>2, <4>1, <4>3
      <4> QED BY <4>6, <4>7
    <3> QED BY <1>2, <3>1, <3>2
  <2> QED BY <1>6, <2>2, <2>3
<1>10. doy + 1 < n \/ doy + 1 = n
  <2> HIDE DEF doy, n
  <2> QED BY <1>5, <1>7
<1> QED BY <1>8, <1>9, <1>10

\* The clock, and what FormatTs puts in front of it.
LEMMA Clock ==
    ASSUME NEW s \in Nat, s < 86400
    PROVE  /\ s \div 3600 \in 0..23 /\ (s % 3600) \div 60 \in 0..59
           /\ s % 60 \in 0..59
           /\ 3600 * (s \div 3600) + 60 * ((s % 3600) \div 60) + (s % 60) = s
<1>1. s \div 3600 \in 0..23
  OBVIOUS
<1>2. (s % 3600) \div 60 \in 0..59
  OBVIOUS
<1>3. s % 60 \in 0..59
  OBVIOUS
<1>4. 3600 * (s \div 3600) + 60 * ((s % 3600) \div 60) + (s % 60) = s
  OBVIOUS
<1> QED BY <1>1, <1>2, <1>3, <1>4

Stamp(t, a, b, c, h, i, s) == t = <<a, b, c>> \o <<h, i, s>>

\* The parts of a time stamp.
LEMMA Parts ==
    ASSUME NEW a \in Int, NEW b \in Int, NEW c \in Int,
           NEW h \in Int, NEW i \in Int, NEW s \in Int,
           NEW t, Stamp(t, a, b, c, h, i, s)
    PROVE  SubSeq(t, 1, 3) = <<a, b, c>> /\ t[4] = h /\ t[5] = i /\ t[6] = s
<1>1. /\ Len(t) = 6 /\ t[1] = a /\ t[2] = b /\ t[3] = c
      /\ t[4] = h /\ t[5] = i /\ t[6] = s /\ t \in Seq(Int)
  BY DEF Stamp
<1>2. /\ SubSeq(t, 1, 3) \in Seq(Int) /\ Len(SubSeq(t, 1, 3)) = 3
      /\ \A k \in 1..3 : SubSeq(t, 1, 3)[k] = t[k]
  BY <1>1, SubSeqProperties
<1>3. <<a, b, c>> \in Seq(Int) /\ Len(<<a, b, c>>) = 3
  OBVIOUS
<1>4. \A k \in 1..3 : SubSeq(t, 1, 3)[k] = <<a, b, c>>[k]
  BY <1>1, <1>2
<1> QED BY <1>1, <1>2, <1>3, <1>4, SeqEqual

\* The calendar shows the date of the day.
Dated == day \in Nat /\ page = DaysToYmd(day)

LEMMA DatedAlways == CalendarSpec => []Dated
<1>1. CalendarInit => Dated
  <2>1. DaysToYmd(0) = <<1970, 1, 1>>
    BY DEF DaysToYmd
  <2> QED BY <2>1 DEF CalendarInit, Dated
<1>2. Dated /\ [TurnPage]_cvars => Dated'
  <2>1. ASSUME Dated, TurnPage PROVE Dated'
    BY <2>1, NextDay DEF Dated, TurnPage
  <2> QED BY <2>1 DEF Dated, cvars
<1> QED BY <1>1, <1>2, PTL DEF CalendarSpec

\* DaysToYmd yields numbers.
LEMMA DaysToYmdType ==
    ASSUME NEW days \in Nat
    PROVE  \E a \in Int, b \in Int, c \in Int : DaysToYmd(days) = <<a, b, c>>
BY DEF DaysToYmd

\* On every day from 1970-01-01 on, whenever the last is, the date of an event is
\* that of the Gregorian calendar and its clock splits the seconds of the day
\* (runtime.rs:595-620).
THEOREM TimestampsAlwaysDates == CalendarSpec => []TimestampsAreDates
<1>1. Dated => TimestampsAreDates
  <2> SUFFICES ASSUME Dated, NEW s \in Seconds
               PROVE  LET t == FormatTs(day, s)
                      IN  /\ SubSeq(t, 1, 3) = page
                          /\ t[4] \in 0..23 /\ t[5] \in 0..59 /\ t[6] \in 0..59
                          /\ 3600 * t[4] + 60 * t[5] + t[6] = s
    BY DEF TimestampsAreDates
  <2> DEFINE h == s \div 3600
             i == (s % 3600) \div 60
             x == s % 60
             t == FormatTs(day, s)
  <2>1. s \in Nat /\ s < 86400
    BY SecondsAssumption
  <2>2. /\ h \in 0..23 /\ i \in 0..59 /\ x \in 0..59
        /\ 3600 * h + 60 * i + x = s
    BY <2>1, Clock
  <2>3. PICK a \in Int, b \in Int, c \in Int : page = <<a, b, c>>
    BY DaysToYmdType DEF Dated
  <2>4. t = page \o <<h, i, x>>
    BY DEF FormatTs, Dated
  <2> HIDE DEF h, i, x, t
  <2>5. h \in Int /\ i \in Int /\ x \in Int /\ Stamp(t, a, b, c, h, i, x)
    BY <2>2, <2>3, <2>4 DEF Stamp
  <2>6. SubSeq(t, 1, 3) = page /\ t[4] = h /\ t[5] = i /\ t[6] = x
    BY <2>3, <2>5, Parts
  <2> QED BY <2>2, <2>6 DEF t
<1> QED BY <1>1, DatedAlways, PTL
=============================================================================
