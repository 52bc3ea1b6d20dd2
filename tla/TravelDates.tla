------------------------------ MODULE TravelDates ------------------------------
(***************************************************************************)
(* infrastructure/clock.py: the stay a user's date range means, when years *)
(* or the second month may be left out.  The pattern match that finds the  *)
(* numbers is left out; a request is the numbers it found.                 *)
(***************************************************************************)
EXTENDS Integers, FiniteSets

CONSTANT Missing  \* a number the request leaves out, and a range that means no stay

ASSUME MissingAssumption == Missing \notin Int \cup (Int \X Int \X Int)

(* A date is <<year, month, day>>.                                         *)
Leap(y) == (y % 4 = 0 /\ y % 100 # 0) \/ y % 400 = 0

DaysIn(y, m) ==
    CASE m = 2 -> IF Leap(y) THEN 29 ELSE 28
      [] m \in {4, 6, 9, 11} -> 30
      [] OTHER -> 31

Real(date) == date[1] \in 1 .. 9999 /\ date[3] <= DaysIn(date[1], date[2])

Before(a, b) ==
    \/ a[1] < b[1]
    \/ a[1] = b[1] /\ a[2] < b[2]
    \/ a[1] = b[1] /\ a[2] = b[2] /\ a[3] < b[3]

Or(number, default) == IF number = Missing THEN default ELSE number

(* _next_occurrence: this year's date unless it is past or not real, else  *)
(* next year's.                                                            *)
NextOccurrenceMutant(m, d, today) ==
    LET ahead == {y \in {today[1], today[1] + 1} : Real(<<y, m, d>>) /\ Before(today, <<y, m, d>>)}
    IN  IF ahead = {} THEN Missing ELSE <<CHOOSE y \in ahead : \A z \in ahead : y <= z, m, d>>

NextOccurrence(m, d, today) ==
    LET ahead == {y \in {today[1], today[1] + 1} : Real(<<y, m, d>>) /\ ~Before(<<y, m, d>>, today)}
    IN  IF ahead = {} THEN Missing ELSE <<CHOOSE y \in ahead : \A z \in ahead : y <= z, m, d>>

CheckIn(q, today) ==
    IF q.yearIn = Missing THEN NextOccurrence(q.monthIn, q.dayIn, today)
    ELSE IF Real(<<q.yearIn, q.monthIn, q.dayIn>>) THEN <<q.yearIn, q.monthIn, q.dayIn>>
    ELSE Missing

(* A check-out whose month is given and whose year is not may be in the    *)
(* year after the check-in; the first date tried has to be real.  The year *)
(* 0000 of a check-out counts as none, but does not roll.                  *)
CheckOut(q, in) ==
    LET month  == Or(q.monthOut, q.monthIn)
        year   == IF q.yearOut = 0 THEN in[1] ELSE Or(q.yearOut, in[1])
        first  == <<year, month, q.dayOut>>
        second == <<first[1] + 1, month, q.dayOut>>
        rolls  == q.yearOut = Missing /\ q.monthOut # Missing /\ ~Before(in, first)
        out    == IF rolls THEN second ELSE first
    IN  IF Real(first) /\ Real(out) /\ Before(in, out) THEN out ELSE Missing

ResolveDateRange(q, today) ==
    LET in == CheckIn(q, today)
    IN  IF in = Missing \/ CheckOut(q, in) = Missing THEN Missing
        ELSE [in |-> in, out |-> CheckOut(q, in)]

-----------------------------------------------------------------------------
(* The reference: the nearest check-in not before today, the nearest       *)
(* check-out after it, of all dates that have the numbers of the request.  *)

Nearest(dates) ==
    IF dates = {} THEN Missing
    ELSE CHOOSE a \in dates : \A b \in dates : ~Before(b, a)

Ahead == 8   \* a 29 February is at most eight years away

Dated(years, m, d) == {date \in {<<y, m, d>> : y \in years} : Real(date)}

NearestIn(q, today) ==
    Nearest(IF q.yearIn # Missing THEN Dated({q.yearIn}, q.monthIn, q.dayIn)
            ELSE {date \in Dated(today[1] .. today[1] + Ahead, q.monthIn, q.dayIn) :
                    ~Before(date, today)})

NearestOut(q, in) ==
    LET years == IF q.yearOut # Missing THEN {q.yearOut}
                 ELSE IF q.monthOut = Missing THEN {in[1]} ELSE in[1] .. in[1] + Ahead
    IN  Nearest({date \in Dated(years, Or(q.monthOut, q.monthIn), q.dayOut) : Before(in, date)})

NearestStay(q, today) ==
    LET in == NearestIn(q, today)
    IN  IF in = Missing \/ NearestOut(q, in) = Missing THEN Missing
        ELSE [in |-> in, out |-> NearestOut(q, in)]

LeapDay(q) == <<q.monthIn, q.dayIn>> = <<2, 29>> \/ <<Or(q.monthOut, q.monthIn), q.dayOut>> = <<2, 29>>

(* The stay the server passes on is the nearest one the request can mean   *)
(* (the rule of RuntimeClock.as_system_prompt); only a 29 February that is *)
(* not near may be left unresolved.                                        *)
ResolvesNearest(q, today) ==
    LET stay == ResolveDateRange(q, today)
    IN  stay = NearestStay(q, today) \/ (stay = Missing /\ LeapDay(q))

=============================================================================
