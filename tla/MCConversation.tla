----------------------------- MODULE MCConversation -----------------------------
(* Instances of Conversation for TLC, and the date ranges that the         *)
(* supervisor of an empty thread may be asked about.                       *)
EXTENDS Conversation, TravelDates

Todays == {<<2026, 12, 31>>, <<2027, 1, 1>>, <<2027, 3, 1>>, <<2028, 2, 28>>, <<2028, 2, 29>>}

Requests ==
    [yearIn  : {Missing, 2027, 2028}, monthIn  : {1, 2, 12},          dayIn  : {1, 28, 29, 31},
     yearOut : {Missing, 2028},       monthOut : {Missing, 1, 2, 12}, dayOut : {1, 2, 29, 31}]

(* Every request about these dates, asked on any of these days (clock.py), *)
(* is resolved to its nearest stay; the first state checks them all.       *)
DatesNearest ==
    messages = <<>> => \A q \in Requests, today \in Todays : ResolvesNearest(q, today)

=============================================================================
