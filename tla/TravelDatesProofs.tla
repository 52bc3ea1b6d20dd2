--------------------------- MODULE TravelDatesProofs ---------------------------
(* Proofs about TravelDates for every date of the calendar, and about the  *)
(* property that checks it beside Conversation.                            *)
EXTENDS MCConversation, TLAPS

LastYear == 9999

Years  == 1 .. LastYear
Months == 1 .. 12
Days   == 1 .. 31

Calendar == {date \in Years \X Months \X Days : Real(date)}

(* The numbers that the pattern of clock.py can find.  (A check-out in the *)
(* year 0000 is taken for one without a year, and left out.)               *)
AnyRequest ==
    [yearIn : Years \cup {0, Missing}, monthIn : Months, dayIn : Days,
     yearOut : Years \cup {Missing}, monthOut : Months \cup {Missing}, dayOut : Days]

-----------------------------------------------------------------------------
(* Dates.                                                                  *)

LEMMA LastYearIsNumber == LastYear \in Int
  BY DEF LastYear

LEMMA YearsAreNumbers == \A y \in Years : y \in Int /\ 1 <= y /\ y <= LastYear
  BY LastYearIsNumber DEF Years

LEMMA NumbersAreYears == \A y \in Int : 1 <= y /\ y <= LastYear => y \in Years
  BY LastYearIsNumber DEF Years

LEMMA CalendarIs ==
    ASSUME NEW today \in Calendar
    PROVE  today[1] \in Years /\ Real(today)
  BY DEF Calendar

LEMMA RequestIs ==
    ASSUME NEW q \in AnyRequest
    PROVE  /\ q.monthIn \in Months /\ q.dayIn \in Days /\ q.yearIn \in Years \cup {0, Missing}
           /\ q.monthOut \in Months \cup {Missing} /\ q.dayOut \in Days
           /\ q.yearOut \in Years \cup {Missing}
  BY DEF AnyRequest

LEMMA RealIs ==
    ASSUME NEW y \in Int, NEW m \in Months, NEW d \in Days
    PROVE  Real(<<y, m, d>> ) <=> y \in Years /\ d <= DaysIn(y, m)
  BY DEF Real, Years, LastYear

(* But for 29 February, a day is in every year or in none.                 *)
LEMMA EveryYear ==
    ASSUME NEW m \in Months, NEW d \in Days, <<m, d>> # <<2, 29>>,
           NEW y \in Years, NEW z \in Years
    PROVE  Real(<<y, m, d>>) <=> Real(<<z, m, d>>)
<1>1. y \in Int /\ z \in Int
  BY YearsAreNumbers
<1>2. d <= DaysIn(y, m) <=> d <= DaysIn(z, m)
  <2>1. CASE m = 2
    <3>1. /\ DaysIn(y, m) = IF Leap(y) THEN 29 ELSE 28
          /\ DaysIn(z, m) = IF Leap(z) THEN 29 ELSE 28
      BY <2>1 DEF DaysIn
    <3>2. d \in Int /\ d # 29
      BY <2>1 DEF Days
    <3> QED
      BY <3>1, <3>2
  <2>2. CASE m # 2
    <3>1. DaysIn(y, m) = DaysIn(z, m)
      BY <2>2 DEF DaysIn
    <3> QED
      BY <3>1
  <2> QED
    BY <2>1, <2>2
<1> QED
  BY <1>1, <1>2, RealIs

(* The same day of two years is ordered as the years are.                  *)
LEMMA YearsOrder ==
    ASSUME NEW y \in Int, NEW z \in Int, NEW m \in Int, NEW d \in Int
    PROVE  Before(<<y, m, d>>, <<z, m, d>>) <=> y < z
  BY DEF Before

LEMMA LaterYear ==
    ASSUME NEW y \in Int, NEW m, NEW d, NEW date, date[1] \in Int, date[1] < y
    PROVE  Before(date, <<y, m, d>>) /\ ~Before(<<y, m, d>>, date)
  BY DEF Before

(* The date of the earliest year is the nearest one.                       *)
LEMMA NearestIsFirst ==
    ASSUME NEW m \in Int, NEW d \in Int, NEW S, S \subseteq Int,
           NEW y \in S, \A z \in S : y <= z
    PROVE  Nearest({<<z, m, d>> : z \in S}) = <<y, m, d>>
<1> DEFINE dates == {<<z, m, d>> : z \in S}
<1>1. <<y, m, d>> \in dates /\ dates # {}
  OBVIOUS
<1>2. ASSUME NEW b \in dates
      PROVE  ~Before(b, <<y, m, d>>) /\ (Before(<<y, m, d>>, b) \/ b = <<y, m, d>>)
  <2>1. PICK z \in S : b = <<z, m, d>>
    OBVIOUS
  <2>2. y \in Int /\ z \in Int /\ y <= z
    OBVIOUS
  <2>3. /\ Before(b, <<y, m, d>>) <=> z < y
        /\ Before(<<y, m, d>>, b) <=> y < z
    BY <2>1, <2>2, YearsOrder
  <2> QED
    BY <2>1, <2>2, <2>3
<1> DEFINE near == CHOOSE a \in dates : \A b \in dates : ~Before(b, a)
<1> HIDE DEF dates
<1>3. near \in dates /\ \A b \in dates : ~Before(b, near)
  BY <1>1, <1>2
<1>4. near = <<y, m, d>>
  <2> HIDE DEF near
  <2> QED
    BY <1>1, <1>2, <1>3
<1>5. Nearest(dates) = near
  BY <1>1 DEF Nearest
<1> QED
  BY <1>4, <1>5 DEF dates

LEMMA NearestOfNone == Nearest({}) = Missing
  BY DEF Nearest

-----------------------------------------------------------------------------
(* Check-in.                                                               *)

(* The years in which the request's check-in is a day not before today.    *)
Coming(years, m, d, today) ==
    {y \in years : Real(<<y, m, d>>) /\ ~Before(<<y, m, d>>, today)}

LEMMA NearestInIs ==
    ASSUME NEW q \in AnyRequest, NEW today \in Calendar
    PROVE  NearestIn(q, today) =
             Nearest({<<z, q.monthIn, q.dayIn>> : z \in
                        IF q.yearIn # Missing THEN {y \in {q.yearIn} : Real(<<y, q.monthIn, q.dayIn>>)}
                        ELSE Coming(today[1] .. today[1] + Ahead, q.monthIn, q.dayIn, today)})
<1>1. CASE q.yearIn # Missing
  <2>1. Dated({q.yearIn}, q.monthIn, q.dayIn)
          = {<<z, q.monthIn, q.dayIn>> : z \in {y \in {q.yearIn} : Real(<<y, q.monthIn, q.dayIn>>)}}
    BY DEF Dated
  <2> QED
    BY <1>1, <2>1 DEF NearestIn
<1>2. CASE q.yearIn = Missing
  <2> DEFINE years == today[1] .. today[1] + Ahead
  <2>1. {date \in Dated(years, q.monthIn, q.dayIn) : ~Before(date, today)}
          = {<<z, q.monthIn, q.dayIn>> : z \in Coming(years, q.monthIn, q.dayIn, today)}
    <3> HIDE DEF years
    <3> QED
      BY DEF Dated, Coming
  <2> QED
    BY <1>2, <2>1 DEF NearestIn
<1> QED
  BY <1>1, <1>2

(* Without a year: this year's day, else next year's, is the nearest of    *)
(* all, but for a 29 February.                                             *)
LEMMA NextOccurrenceIsNearest ==
    ASSUME NEW m \in Months, NEW d \in Days, NEW today \in Calendar
    PROVE  LET next == NextOccurrence(m, d, today)
               near == Nearest({<<z, m, d>> : z \in
                                  Coming(today[1] .. today[1] + Ahead, m, d, today)})
           IN  /\ next = near \/ (next = Missing /\ <<m, d>> = <<2, 29>>)
               /\ next = Missing \/ \E y \in Years : next = <<y, m, d>>
<1> DEFINE t == today[1]
           years == t .. t + Ahead
           ahead == Coming({t, t + 1}, m, d, today)
           all == Coming(years, m, d, today)
           near == Nearest({<<z, m, d>> : z \in all})
<1>1. m \in Int /\ d \in Int /\ t \in Years
  BY CalendarIs DEF Months, Days
<1>2. t \in Int /\ 1 <= t /\ t <= LastYear
  BY <1>1, YearsAreNumbers
<1>3. NextOccurrence(m, d, today) =
        IF ahead = {} THEN Missing ELSE <<CHOOSE y \in ahead : \A z \in ahead : y <= z, m, d>>
  BY DEF NextOccurrence, Coming
<1> HIDE DEF t
<1>4. \A y \in years : y \in Int /\ t <= y
  BY <1>2 DEF Ahead
<1>5. t \in years /\ t + 1 \in years
  BY <1>2 DEF Ahead
<1> HIDE DEF years
<1>6. /\ ahead \subseteq {t, t + 1} /\ ahead \subseteq all
      /\ all \subseteq years /\ (t \in all => t \in ahead)
  BY <1>5 DEF Coming
<1>7. \A y \in all : y \in Int /\ y \in Years /\ Real(<<y, m, d>>)
  BY <1>4, RealIs DEF Coming
<1>8. \A y \in {t, t + 1} : Real(<<y, m, d>>) /\ ~Before(<<y, m, d>>, today) => y \in ahead
  BY DEF Coming
<1> HIDE DEF ahead, all
<1>9. CASE ahead # {}
  <2>1. PICK y \in ahead : \A z \in all : y <= z
    <3>1. CASE t \in ahead
      BY <1>4, <1>6, <3>1
    <3>2. CASE t \notin ahead
      <4>1. t + 1 \in ahead
        BY <1>6, <1>9, <3>2
      <4>2. ASSUME NEW z \in all PROVE t + 1 <= z
        <5>1. z \in Int /\ t <= z /\ z # t
          BY <1>4, <1>6, <3>2
        <5> QED
          BY <1>2, <5>1
      <4> QED
        BY <4>1, <4>2
    <3> QED
      BY <3>1, <3>2
  <2>2. y \in all /\ y \in Int /\ y \in Years /\ all \subseteq Int /\ ahead \subseteq all
    BY <1>6, <1>7
  <2> DEFINE first == CHOOSE k \in ahead : \A z \in ahead : k <= z
  <2>3. first = y
    <3>1. first \in ahead /\ \A z \in ahead : first <= z
      BY <2>1, <2>2
    <3> HIDE DEF first
    <3>2. first <= y /\ y <= first /\ first \in Int
      BY <2>1, <2>2, <3>1
    <3> QED
      BY <2>2, <3>2
  <2> HIDE DEF first
  <2>4. NextOccurrence(m, d, today) = <<y, m, d>>
    BY <1>3, <1>9, <2>3 DEF first
  <2>5. near = <<y, m, d>>
    BY <1>1, <2>1, <2>2, NearestIsFirst
  <2> HIDE DEF near
  <2> QED
    BY <2>2, <2>4, <2>5 DEF near, all, years, t
<1>10. CASE ahead = {}
  <2>1. NextOccurrence(m, d, today) = Missing
    BY <1>3, <1>10
  <2>2. ASSUME <<m, d>> # <<2, 29>>, NEW y \in all
        PROVE  FALSE
    <3>1. y \in Int /\ y \in Years /\ Real(<<y, m, d>>) /\ t <= y /\ y # t
      BY <1>4, <1>6, <1>7, <1>10
    <3>2. t + 1 \in Years
      <4>1. y <= LastYear
        BY <3>1, YearsAreNumbers
      <4> QED
        BY <1>2, <3>1, <4>1, NumbersAreYears, LastYearIsNumber
    <3>3. Real(<<t + 1, m, d>>)
      BY <2>2, <3>1, <3>2, EveryYear
    <3>4. ~Before(<<t + 1, m, d>>, today)
      BY <1>2, LaterYear DEF t
    <3> QED
      BY <1>8, <1>10, <3>3, <3>4
  <2>3. CASE <<m, d>> # <<2, 29>>
    <3>1. {<<z, m, d>> : z \in all} = {}
      BY <2>2, <2>3
    <3>2. near = Missing
      BY <3>1, NearestOfNone
    <3> HIDE DEF near
    <3> QED
      BY <2>1, <3>2 DEF near, all, years, t
  <2> QED
    BY <2>1, <2>3
<1> QED
  BY <1>9, <1>10

(* A check-in is the nearest one, or a 29 February that is left open.      *)
LEMMA CheckInIsNearest ==
    ASSUME NEW q \in AnyRequest, NEW today \in Calendar
    PROVE  /\ \/ CheckIn(q, today) = NearestIn(q, today)
              \/ CheckIn(q, today) = Missing /\ <<q.monthIn, q.dayIn>> = <<2, 29>>
           /\ \/ CheckIn(q, today) = Missing
              \/ \E y \in Years : CheckIn(q, today) = <<y, q.monthIn, q.dayIn>>
<1> DEFINE m == q.monthIn
           d == q.dayIn
           year == q.yearIn
<1>1. m \in Months /\ d \in Days /\ year \in Years \cup {0, Missing}
  BY RequestIs
<1>2. m \in Int /\ d \in Int
  BY <1>1 DEF Months, Days
<1>3. CASE year # Missing
  <2>1. year \in Int /\ (Real(<<year, m, d>>) => year \in Years)
    <3>1. year \in Int
      BY <1>1, <1>3, YearsAreNumbers
    <3> HIDE DEF m, d, year
    <3> QED
      BY <1>1, <3>1, RealIs
  <2> DEFINE S == {y \in {year} : Real(<<y, m, d>>)}
  <2>2. NearestIn(q, today) = Nearest({<<z, m, d>> : z \in S})
    BY <1>3, NearestInIs
  <2>3. CheckIn(q, today) = IF Real(<<year, m, d>>) THEN <<year, m, d>> ELSE Missing
    BY <1>3 DEF CheckIn
  <2>4. S = IF Real(<<year, m, d>>) THEN {year} ELSE {}
    OBVIOUS
  <2> HIDE DEF S, m, d, year
  <2>5. CASE Real(<<year, m, d>>)
    <3>1. S \subseteq Int /\ year \in S /\ \A z \in S : year <= z
      BY <2>1, <2>4, <2>5
    <3>2. Nearest({<<z, m, d>> : z \in S}) = <<year, m, d>>
      BY <1>2, <3>1, NearestIsFirst
    <3> QED
      BY <2>1, <2>2, <2>3, <2>5, <3>2 DEF m, d
  <2>6. CASE ~Real(<<year, m, d>>)
    <3>1. {<<z, m, d>> : z \in S} = {}
      BY <2>4, <2>6
    <3> QED
      BY <2>2, <2>3, <2>6, <3>1, NearestOfNone
  <2> QED
    BY <2>5, <2>6
<1>4. CASE year = Missing
  <2>1. NearestIn(q, today) =
          Nearest({<<z, m, d>> : z \in Coming(today[1] .. today[1] + Ahead, m, d, today)})
    BY <1>4, NearestInIs
  <2>2. CheckIn(q, today) = NextOccurrence(m, d, today)
    BY <1>4 DEF CheckIn
  <2> HIDE DEF m, d
  <2> QED
    BY <1>1, <2>1, <2>2, NextOccurrenceIsNearest DEF m, d
<1> QED
  BY <1>3, <1>4
-----------------------------------------------------------------------------
(* Check-out.                                                              *)

(* The years in which a check-out is a day after the check-in.             *)
Leaving(years, m, d, in) == {y \in years : Real(<<y, m, d>>) /\ Before(in, <<y, m, d>>)}

LEMMA NearestOutIs ==
    ASSUME NEW q \in AnyRequest, NEW in
    PROVE  LET m == Or(q.monthOut, q.monthIn)
               years == IF q.yearOut # Missing THEN {q.yearOut}
                        ELSE IF q.monthOut = Missing THEN {in[1]} ELSE in[1] .. in[1] + Ahead
           IN  NearestOut(q, in) =
                 Nearest({<<z, m, q.dayOut>> : z \in Leaving(years, m, q.dayOut, in)})
<1> DEFINE m == Or(q.monthOut, q.monthIn)
           years == IF q.yearOut # Missing THEN {q.yearOut}
                    ELSE IF q.monthOut = Missing THEN {in[1]} ELSE in[1] .. in[1] + Ahead
<1>1. NearestOut(q, in) = Nearest({date \in Dated(years, m, q.dayOut) : Before(in, date)})
  BY DEF NearestOut
<1>2. {date \in Dated(years, m, q.dayOut) : Before(in, date)}
        = {<<z, m, q.dayOut>> : z \in Leaving(years, m, q.dayOut, in)}
  <2> HIDE DEF m, years
  <2> QED
    BY DEF Dated, Leaving
<1> QED
  BY <1>1, <1>2

(* A check-out is the nearest one, or a 29 February that is left open.     *)
LEMMA CheckOutIsNearest ==
    ASSUME NEW q \in AnyRequest, NEW y \in Years
    PROVE  LET in == <<y, q.monthIn, q.dayIn>>
           IN  \/ CheckOut(q, in) = NearestOut(q, in)
               \/ /\ CheckOut(q, in) = Missing
                  /\ <<Or(q.monthOut, q.monthIn), q.dayOut>> = <<2, 29>>
<1> DEFINE in == <<y, q.monthIn, q.dayIn>>
           m == Or(q.monthOut, q.monthIn)
           d == q.dayOut
           year == Or(q.yearOut, y)
           years == IF q.yearOut # Missing THEN {q.yearOut}
                    ELSE IF q.monthOut = Missing THEN {y} ELSE y .. y + Ahead
           rolls == q.yearOut = Missing /\ q.monthOut # Missing /\ ~Before(in, <<year, m, d>>)
           out == IF rolls THEN <<year + 1, m, d>> ELSE <<year, m, d>>
           leaving == Leaving(years, m, d, in)
<1>1. m \in Months /\ d \in Days /\ year \in Years /\ q.yearOut # 0 /\ in[1] = y
  <2>1. m \in Months /\ d \in Days /\ year \in Years /\ in[1] = y
    BY RequestIs DEF Or
  <2>2. Missing # 0 /\ \A z \in Years : z # 0
    BY MissingAssumption, YearsAreNumbers
  <2>3. q.yearOut # 0
    BY <2>2, RequestIs
  <2> QED
    BY <2>1, <2>3
<1>2. NearestOut(q, in) = Nearest({<<z, m, d>> : z \in leaving})
  BY NearestOutIs
<1>3. CheckOut(q, in) = IF Real(<<year, m, d>>) /\ Real(out) /\ Before(in, out) THEN out ELSE Missing
  BY <1>1 DEF CheckOut
<1>4. m \in Int /\ d \in Int /\ y \in Int /\ 1 <= y /\ y <= LastYear
  BY <1>1, YearsAreNumbers DEF Months, Days
<1>5. /\ \A z \in leaving : z \in years /\ Real(<<z, m, d>>) /\ Before(in, <<z, m, d>>)
      /\ \A z \in years : Real(<<z, m, d>>) /\ Before(in, <<z, m, d>>) => z \in leaving
  BY DEF Leaving
<1>6. ASSUME NEW z \in leaving, z \in Int, \A x \in leaving : x \in Int /\ z <= x
      PROVE  NearestOut(q, in) = <<z, m, d>>
  <2> HIDE DEF leaving, in, m, d, year, years, out, rolls
  <2>1. leaving \subseteq Int /\ m \in Int /\ d \in Int
    BY <1>4, <1>6
  <2>2. Nearest({<<x, m, d>> : x \in leaving}) = <<z, m, d>>
    BY <1>6, <2>1, NearestIsFirst
  <2> QED
    BY <1>2, <2>2
<1>7. leaving = {} => NearestOut(q, in) = Missing
  <2> HIDE DEF leaving, in, m, d
  <2>1. leaving = {} => {<<z, m, d>> : z \in leaving} = {}
    OBVIOUS
  <2> QED
    BY <1>2, <2>1, NearestOfNone
<1> HIDE DEF leaving
<1>8. CASE q.yearOut # Missing \/ q.monthOut = Missing
  <2>1. years = {year} /\ out = <<year, m, d>> /\ year \in Int
    BY <1>1, <1>8, YearsAreNumbers DEF Or
  <2> HIDE DEF in, m, d, year, years, out, rolls
  <2>2. CASE Real(<<year, m, d>>) /\ Before(in, <<year, m, d>>)
    <3>1. year \in leaving /\ \A x \in leaving : x = year
      BY <1>5, <2>1, <2>2
    <3>2. NearestOut(q, in) = <<year, m, d>>
      BY <1>6, <2>1, <3>1
    <3> QED
      BY <1>3, <2>1, <2>2, <3>2 DEF in
  <2>3. CASE ~(Real(<<year, m, d>>) /\ Before(in, <<year, m, d>>))
    <3>1. leaving = {}
      BY <1>5, <2>1, <2>3
    <3> QED
      BY <1>3, <1>7, <2>1, <2>3, <3>1 DEF in
  <2> QED
    BY <2>2, <2>3
<1>9. CASE q.yearOut = Missing /\ q.monthOut # Missing
  <2>1. /\ year = y /\ years = y .. y + Ahead
        /\ out = IF Before(in, <<y, m, d>>) THEN <<y, m, d>> ELSE <<y + 1, m, d>>
    BY <1>9 DEF Or
  <2>2. CheckOut(q, in) = IF Real(<<y, m, d>>) /\ Real(out) /\ Before(in, out) THEN out ELSE Missing
    BY <1>3, <2>1
  <2>3. \A z \in leaving : z \in Int /\ y <= z /\ z \in Years
    <3> HIDE DEF in, m, d
    <3>1. \A z \in years : z \in Int /\ y <= z
      <4> HIDE DEF years
      <4> QED
        BY <1>4, <2>1 DEF Ahead
    <3> QED
      BY <1>1, <1>5, <3>1, RealIs
  <2>4. y \in years /\ y + 1 \in years
    <3> HIDE DEF in, m, d, year, years, out, rolls
    <3> QED
      BY <1>4, <2>1 DEF Ahead
  <2>5. Before(in, <<y + 1, m, d>>)
    BY <1>1, <1>4, LaterYear
  <2> HIDE DEF in, m, d, year, years, out, rolls
  <2>6. CASE ~Real(<<y, m, d>>)
    <3>1. <<m, d>> # <<2, 29>> => leaving = {}
      BY <1>1, <1>5, <2>3, <2>6, EveryYear
    <3> QED
      BY <1>7, <2>2, <2>6, <3>1 DEF in, m, d
  <2>7. CASE Real(<<y, m, d>>) /\ Before(in, <<y, m, d>>)
    <3>1. y \in leaving
      BY <1>5, <2>4, <2>7
    <3>2. NearestOut(q, in) = <<y, m, d>>
      BY <1>4, <1>6, <2>3, <3>1
    <3> QED
      BY <2>1, <2>2, <2>7, <3>2 DEF in
  <2>8. CASE Real(<<y, m, d>>) /\ ~Before(in, <<y, m, d>>)
    <3>1. out = <<y + 1, m, d>>
      BY <2>1, <2>8
    <3>2. \A z \in leaving : y + 1 <= z
      <4>1. \A z \in leaving : z # y
        BY <1>5, <2>8
      <4> QED
        BY <1>4, <2>3, <4>1
    <3>3. CASE Real(<<y + 1, m, d>>)
      <4>1. y + 1 \in leaving /\ y + 1 \in Int
        BY <1>4, <1>5, <2>4, <2>5, <3>3
      <4>2. NearestOut(q, in) = <<y + 1, m, d>>
        BY <1>6, <2>3, <3>2, <4>1
      <4> QED
        BY <2>2, <2>5, <2>8, <3>1, <3>3, <4>2 DEF in
    <3>4. CASE ~Real(<<y + 1, m, d>>)
      <4>1. ASSUME <<m, d>> # <<2, 29>>, NEW z \in leaving
            PROVE  FALSE
        <5>1. y + 1 \notin Years
          BY <1>1, <2>8, <3>4, <4>1, EveryYear
        <5>2. z \in Int /\ y + 1 <= z /\ z <= LastYear
          BY <2>3, <3>2, YearsAreNumbers
        <5> QED
          BY <1>4, <5>1, <5>2, NumbersAreYears, LastYearIsNumber
      <4>2. <<m, d>> # <<2, 29>> => leaving = {}
        BY <4>1
      <4> QED
        BY <1>7, <2>2, <3>1, <3>4, <4>2 DEF in, m, d
    <3> QED
      BY <3>3, <3>4
  <2> QED
    BY <2>6, <2>7, <2>8
<1> QED
  BY <1>8, <1>9

-----------------------------------------------------------------------------
(* Whatever a request leaves out and whenever it is made, the server takes *)
(* it for the nearest stay that it can mean, or leaves a 29 February open. *)
THEOREM ResolutionIsNearest ==
    ASSUME NEW q \in AnyRequest, NEW today \in Calendar
    PROVE  ResolvesNearest(q, today)
<1> DEFINE in == CheckIn(q, today)
           m == q.monthIn
           d == q.dayIn
<1>1. in = NearestIn(q, today) \/ (in = Missing /\ <<m, d>> = <<2, 29>>)
  BY CheckInIsNearest
<1>2. CASE in = Missing
  <2>1. ResolveDateRange(q, today) = Missing
    BY <1>2 DEF ResolveDateRange
  <2>2. in = NearestIn(q, today) => NearestStay(q, today) = Missing
    BY <1>2 DEF NearestStay
  <2> HIDE DEF in
  <2> QED
    BY <1>1, <2>1, <2>2 DEF ResolvesNearest, LeapDay
<1>3. CASE in # Missing
  <2>1. PICK y \in Years : in = <<y, m, d>>
    BY <1>3, CheckInIsNearest
  <2>2. \/ CheckOut(q, in) = NearestOut(q, in)
        \/ /\ CheckOut(q, in) = Missing
           /\ <<Or(q.monthOut, q.monthIn), q.dayOut>> = <<2, 29>>
    <3> HIDE DEF in
    <3> QED
      BY <2>1, CheckOutIsNearest
  <2>3. NearestIn(q, today) = in
    BY <1>1, <1>3
  <2>4. /\ ResolveDateRange(q, today) =
             IF CheckOut(q, in) = Missing THEN Missing ELSE [in |-> in, out |-> CheckOut(q, in)]
        /\ NearestStay(q, today) =
             IF NearestOut(q, in) = Missing THEN Missing ELSE [in |-> in, out |-> NearestOut(q, in)]
    BY <1>3, <2>3 DEF ResolveDateRange, NearestStay
  <2> HIDE DEF in
  <2> QED
    BY <2>2, <2>4 DEF ResolvesNearest, LeapDay
<1> QED
  BY <1>2, <1>3

(* The requests and days of the model are among them.                      *)
THEOREM SpecDatesNearest == Spec => []DatesNearest
<1>1. Requests \subseteq AnyRequest
  <2>1. {2027, 2028} \subseteq Years
    BY NumbersAreYears DEF LastYear
  <2>2. {1, 2, 12} \subseteq Months
    BY DEF Months
  <2>3. {1, 28, 29, 31} \subseteq Days /\ {1, 2, 29, 31} \subseteq Days
    BY DEF Days
  <2>4. ASSUME NEW q \in Requests
        PROVE  q \in AnyRequest
    <3>1. /\ q.yearIn \in Years \cup {Missing} /\ q.yearOut \in Years \cup {Missing}
          /\ q.monthIn \in Months /\ q.monthOut \in Months \cup {Missing}
          /\ q.dayIn \in Days /\ q.dayOut \in Days
      BY <2>1, <2>2, <2>3 DEF Requests
    <3>2. q = [yearIn |-> q.yearIn, monthIn |-> q.monthIn, dayIn |-> q.dayIn,
               yearOut |-> q.yearOut, monthOut |-> q.monthOut, dayOut |-> q.dayOut]
      BY DEF Requests
    <3> QED
      BY <3>1, <3>2 DEF AnyRequest
  <2> QED
    BY <2>4
<1>2. Todays \subseteq Calendar
  <2>1. {2026, 2027, 2028} \subseteq Years
    BY NumbersAreYears DEF LastYear
  <2>2. {1, 2, 3, 12} \subseteq Months /\ {1, 28, 29, 31} \subseteq Days
    BY DEF Months, Days
  <2>3. Todays \subseteq Years \X Months \X Days
    BY <2>1, <2>2 DEF Todays
  <2>4. DaysIn(2028, 2) = 29
    BY DEF DaysIn, Leap
  <2>5. DaysIn(2026, 12) = 31 /\ DaysIn(2027, 1) = 31 /\ DaysIn(2027, 3) = 31
    BY DEF DaysIn
  <2>6. /\ Real(<<2026, 12, 31>>) /\ Real(<<2027, 1, 1>>) /\ Real(<<2027, 3, 1>>)
        /\ Real(<<2028, 2, 28>>) /\ Real(<<2028, 2, 29>>)
    BY <2>4, <2>5 DEF Real
  <2> QED
    BY <2>3, <2>6 DEF Calendar, Todays
<1>3. DatesNearest
  BY <1>1, <1>2, ResolutionIsNearest DEF DatesNearest
<1> QED
  BY <1>3, PTL DEF Spec

=============================================================================
