--------------------------- MODULE MCHotelSandbox ---------------------------
(* Instances of HotelSandbox for TLC.                                      *)
EXTENDS HotelSandbox, TLC

CONSTANTS u1, u2, t1, t2, r1

Span(a, b) == [in |-> a, out |-> b]

OneUser  == [t \in Tasks |-> u1]
TwoUsers == [t \in Tasks |-> IF t = t1 THEN u1 ELSE u2]

OneRoom   == [r \in Rooms |-> 1]
NightRate == [r \in Rooms |-> 6]

(* Two-night stays each overlapping the next in one night, so that two of  *)
(* them fit and moving one to the middle is refused, and a reversed pair   *)
(* that create_quote and change_dates must refuse.                         *)
TwoNightStays == {Span(1, 3), Span(2, 4), Span(3, 5), Span(3, 1)}

(* One-night stays on the same and on the next day.                        *)
OneNightStays == {Span(1, 2), Span(2, 3)}

(* A short and a long stay over the same night.                            *)
MixedStays == {Span(1, 2), Span(1, 3)}

Symmetry == Permutations(Orders) \cup Permutations(Quotes)

=============================================================================
