------------------------- MODULE HotelSandboxProofs -------------------------
(* Proofs about HotelSandbox for every value of its constants: any number  *)
(* of workers, orders, rooms and failures.                                 *)
EXTENDS HotelSandbox, TLAPS

(* Steps at which a call works on an order row.                            *)
OrderPCs == {"settle", "mark_pending", "move_dates", "refund_row", "mark_refunded",
             "mark_cancelled", "revert", "release"}

(* What a frame may rely on, given the tables qs, os and rs.               *)
FrameOK(f, qs, os, rs) ==
    /\ f.pc = "save_quote" =>
         /\ f.task \in Tasks /\ f.room \in Rooms
         /\ f.stay \in Stays /\ f.stay.in < f.stay.out
    /\ f.pc = "create_order" =>
         /\ f.task \in Tasks /\ f.quote \in Quotes
         /\ qs[f.quote] # None /\ qs[f.quote].user = Owner[f.task]
    /\ f.pc \in OrderPCs => f.order \in Orders /\ os[f.order] # None
    /\ f.pc \in {"mark_pending", "move_dates", "release"} =>
         f.stay \in Stays /\ f.stay.in < f.stay.out
    /\ f.pc = "mark_refunded" => rs[f.order].count > 0

FramesOK == \A w \in Workers : FrameOK(call[w], quotes, orders, refunds)

StaysOK ==
    /\ \A q \in Quoted : quotes[q].stay.in < quotes[q].stay.out
    /\ \A o \in Placed : orders[o].stay.in < orders[o].stay.out

(* An order stays the order of its quote: of the same user, at the quoted  *)
(* total.  A fact the other parts of the invariant rest on.                *)
OrderMatchesQuote ==
    \A o \in Placed :
        LET q == orders[o].quote
        IN  /\ q \in Quoted
            /\ orders[o].user = quotes[q].user
            /\ orders[o].user = Owner[orders[o].task]
            /\ orders[o].total = quotes[q].total
            /\ quotes[q].accepted

(* TypeOK and the two safety properties are not inductive by themselves: a *)
(* step trusts what its call read or wrote before, which FramesOK, StaysOK *)
(* and OrderMatchesQuote record.                                           *)
IInv ==
    /\ TypeOK
    /\ FramesOK
    /\ StaysOK
    /\ OneOrderPerKey
    /\ OrderMatchesQuote
    /\ RefundedHasRefundRow

-----------------------------------------------------------------------------

(* The idle frame is a frame and relies on nothing.                        *)
LEMMA IdleFrame ==
    /\ Idle \in Frame
    /\ \A qs, os, rs : FrameOK(Idle, qs, os, rs)
  BY DEF Idle, Frame, Ops, PCs, FrameOK, OrderPCs

LEMMA InitIInv == Init => IInv
<1> SUFFICES ASSUME Init PROVE IInv
  OBVIOUS
<1>1. TypeOK
  BY IdleFrame, CapacityAssumption, BoundAssumption DEF Init, TypeOK, Days, Nights
<1>2. Quoted = {} /\ Placed = {}
  BY DEF Init, Quoted, Placed
<1>3. FramesOK
  BY IdleFrame DEF Init, FramesOK
<1> QED
  BY <1>1, <1>2, <1>3 DEF IInv, StaysOK, OneOrderPerKey, OrderMatchesQuote,
     RefundedHasRefundRow

-----------------------------------------------------------------------------
(* Steps that only move a call on.                                         *)

(* A step that leaves the tables alone and gives worker w a frame that     *)
(* relies on true facts keeps the invariant.                               *)
LEMMA FrameStep ==
    ASSUME IInv, NEW w \in Workers, NEW f,
           f \in Frame, FrameOK(f, quotes, orders, refunds),
           call' = [call EXCEPT ![w] = f],
           UNCHANGED <<quotes, orders, avail, refunds>>,
           today' \in 0 .. MaxDay, faults' \in 0 .. MaxFaults
    PROVE  IInv'
<1>1. TypeOK'
  BY DEF IInv, TypeOK
<1>2. FramesOK'
  BY DEF IInv, FramesOK, TypeOK
<1>3. Quoted' = Quoted /\ Placed' = Placed
  BY DEF Quoted, Placed
<1> QED
  BY <1>1, <1>2, <1>3 DEF IInv, StaysOK, OneOrderPerKey, OrderMatchesQuote,
     RefundedHasRefundRow

-----------------------------------------------------------------------------
(* The inventory operators.                                                *)

AvailOK(a) ==
    /\ a \in [Rooms -> [Days -> Int]]
    /\ \A r \in Rooms : \A d \in Days : a[r][d] \in 0 .. Capacity[r]

(* Releasing nights never lifts a room above its capacity.                 *)
LEMMA FreeAvail ==
    ASSUME NEW a, AvailOK(a), NEW r \in Rooms, NEW s
    PROVE  AvailOK(Free(a, r, s))
  BY CapacityAssumption DEF AvailOK, Free, Least

(* Reserving nights that are all bookable never oversells one.             *)
LEMMA HoldAvail ==
    ASSUME NEW a, AvailOK(a), NEW r \in Rooms, NEW s, Bookable(a, r, s)
    PROVE  AvailOK(Hold(a, r, s))
  BY CapacityAssumption DEF AvailOK, Hold, Bookable

(* An order's room is the room of its quote.                               *)
LEMMA RoomOfPlaced ==
    ASSUME IInv, NEW o \in Placed
    PROVE  RoomOf(o) \in Rooms
  BY NoneAssumption DEF IInv, TypeOK, OrderMatchesQuote, Quoted, Placed, RoomOf, QuoteRow

-----------------------------------------------------------------------------
(* Steps that rewrite one order row.                                       *)

(* Rewriting an order's status, payment and dates keeps the invariant if   *)
(* the new dates are valid and a refunded payment has a refund row.        *)
LEMMA OrderStep ==
    ASSUME IInv, NEW w \in Workers, NEW f, NEW o \in Placed, NEW row \in OrderRow,
           f \in Frame, FrameOK(f, quotes, orders, refunds),
           call' = [call EXCEPT ![w] = f],
           row.user = orders[o].user, row.task = orders[o].task,
           row.quote = orders[o].quote, row.total = orders[o].total,
           row.stay.in < row.stay.out,
           row.payment = "refunded" => refunds[o].count > 0,
           orders' = [orders EXCEPT ![o] = row],
           AvailOK(avail'),
           UNCHANGED <<quotes, refunds, today, faults>>
    PROVE  IInv'
<1>1. TypeOK'
  BY DEF IInv, TypeOK, AvailOK, Placed
<1>2. Quoted' = Quoted /\ Placed' = Placed
  BY NoneAssumption DEF Quoted, Placed, IInv, TypeOK
<1>3. FramesOK'
  <2> SUFFICES ASSUME NEW v \in Workers
               PROVE  FrameOK(call'[v], quotes', orders', refunds')
    BY DEF FramesOK
  <2>1. FrameOK(call'[v], quotes, orders, refunds)
    BY DEF IInv, FramesOK, TypeOK
  <2>2. \A p \in Orders : orders[p] # None => orders'[p] # None
    BY NoneAssumption DEF IInv, TypeOK
  <2>3. \A p \in Orders : refunds[p].count \in Nat
    BY DEF IInv, TypeOK
  <2>4. quotes' = quotes /\ refunds' = refunds
    OBVIOUS
  <2>5. FrameOK(call'[v], quotes, orders', refunds)
    BY <2>1, <2>2 DEF FrameOK
  <2> QED
    BY <2>4, <2>5
<1>4. orders'[o] = row /\ \A p \in Placed : p # o => orders'[p] = orders[p]
  BY DEF IInv, TypeOK, Placed
<1>5. StaysOK'
  BY <1>2, <1>4 DEF IInv, StaysOK
<1>6. OneOrderPerKey'
  BY <1>2, <1>4 DEF IInv, OneOrderPerKey
<1>7. OrderMatchesQuote'
  BY <1>2, <1>4 DEF IInv, OrderMatchesQuote
<1>8. RefundedHasRefundRow'
  BY <1>2, <1>4 DEF IInv, RefundedHasRefundRow
<1> QED
  BY <1>1, <1>3, <1>5, <1>6, <1>7, <1>8 DEF IInv

(* The same for update_order, which writes the status and the payment.     *)
LEMMA UpdateOrderStep ==
    ASSUME IInv, NEW w \in Workers, NEW f, NEW o \in Placed,
           NEW st \in OrderStatus, NEW pay \in PaymentStatus,
           f \in Frame, FrameOK(f, quotes, orders, refunds),
           call' = [call EXCEPT ![w] = f],
           UpdateOrder(o, st, pay),
           pay = "refunded" => refunds[o].count > 0,
           UNCHANGED <<quotes, avail, refunds, today, faults>>
    PROVE  IInv'
<1> DEFINE row == [orders[o] EXCEPT !.status = st, !.payment = pay]
<1>1. orders[o] \in OrderRow
  BY DEF IInv, TypeOK, Placed
<1>2. /\ row \in OrderRow
      /\ row.user = orders[o].user /\ row.task = orders[o].task
      /\ row.quote = orders[o].quote /\ row.total = orders[o].total
      /\ row.stay = orders[o].stay /\ row.payment = pay
  BY <1>1 DEF OrderRow
<1>3. orders' = [orders EXCEPT ![o] = row]
  BY DEF UpdateOrder, IInv, TypeOK, Placed
<1>4. row.stay.in < row.stay.out
  BY <1>2 DEF IInv, StaysOK
<1>5. AvailOK(avail')
  BY DEF AvailOK, IInv, TypeOK
<1> HIDE DEF row
<1> QED
  BY <1>2, <1>3, <1>4, <1>5, OrderStep

-----------------------------------------------------------------------------
(* Steps that add a row.                                                   *)

(* save_quote adds a quote with a valid stay and a natural price.          *)
LEMMA SaveQuoteStep ==
    ASSUME IInv, NEW w \in Workers, SaveQuote(w)
    PROVE  IInv'
<1> DEFINE c == call[w]
           row == [user |-> Owner[c.task], room |-> c.room, stay |-> c.stay,
                   total |-> Price(c.room, c.stay), accepted |-> FALSE, expired |-> FALSE]
<1>1. PICK q \in Quotes \ Quoted : quotes' = [quotes EXCEPT ![q] = row]
  BY DEF SaveQuote
<1>2. /\ c.task \in Tasks /\ c.room \in Rooms
      /\ c.stay \in Stays /\ c.stay.in < c.stay.out
  BY DEF SaveQuote, At, IInv, FramesOK, FrameOK
<1>3. Price(c.room, c.stay) \in Nat
  <2>1. c.stay.in \in Int /\ c.stay.out \in Int
    BY <1>2, StaysAssumption DEF Stay
  <2>2. Rate[c.room] \in Nat /\ c.stay.out - c.stay.in \in Nat
    BY <1>2, <2>1, RateAssumption
  <2>3. \A x, y \in Nat : x * y \in Nat
    OBVIOUS
  <2> QED
    BY <2>2, <2>3 DEF Price
<1>4. row \in QuoteRow
  BY <1>2, <1>3, OwnerAssumption DEF QuoteRow
<1>5. row.stay = c.stay
  OBVIOUS
<1> HIDE DEF row
<1>6. Quoted' = Quoted \cup {q} /\ Placed' = Placed
  BY <1>1, <1>4, NoneAssumption DEF Quoted, Placed, IInv, TypeOK, SaveQuote
<1>7. \A p \in Quoted : quotes'[p] = quotes[p] /\ p # q
  BY <1>1 DEF Quoted, IInv, TypeOK
<1>8. UNCHANGED <<orders, avail, refunds, today, faults>>
  BY DEF SaveQuote
<1>9. call' = [call EXCEPT ![w] = Idle]
  BY DEF SaveQuote, Return
<1>10. TypeOK'
  BY <1>1, <1>4, <1>8, <1>9, IdleFrame DEF IInv, TypeOK
<1>11. FramesOK'
  <2> SUFFICES ASSUME NEW v \in Workers
               PROVE  FrameOK(call'[v], quotes', orders, refunds)
    BY <1>8 DEF FramesOK
  <2>1. CASE v = w
    BY <2>1, <1>9, IdleFrame DEF IInv, TypeOK
  <2>2. CASE v # w
    <3>1. call'[v] = call[v] /\ FrameOK(call[v], quotes, orders, refunds)
      BY <2>2, <1>9 DEF IInv, FramesOK, TypeOK
    <3> QED
      BY <3>1, <1>7 DEF FrameOK, Quoted
  <2> QED
    BY <2>1, <2>2
<1>12. StaysOK'
  BY <1>1, <1>2, <1>5, <1>6, <1>7, <1>8 DEF IInv, StaysOK, TypeOK
<1>13. OneOrderPerKey' /\ RefundedHasRefundRow'
  BY <1>6, <1>8 DEF IInv, OneOrderPerKey, RefundedHasRefundRow
<1>14. OrderMatchesQuote'
  BY <1>6, <1>7, <1>8 DEF IInv, OrderMatchesQuote
<1> QED
  BY <1>10, <1>11, <1>12, <1>13, <1>14 DEF IInv

(* create_order adds the first order of its key, at the quoted price, and  *)
(* takes nights that were bookable.                                        *)
LEMMA PlaceOrderStep ==
    ASSUME IInv, NEW w \in Workers, PlaceOrder(w)
    PROVE  IInv'
<1> DEFINE c == call[w]
           t == c.task
           q == c.quote
           row == NewOrder(t, q)
<1>1. /\ t \in Tasks /\ q \in Quotes /\ quotes[q] # None
      /\ quotes[q].user = Owner[t]
  BY DEF PlaceOrder, At, IInv, FramesOK, FrameOK
<1>2. quotes[q] \in QuoteRow
  BY <1>1 DEF IInv, TypeOK
<1>3. PICK o \in Orders \ Placed :
        /\ orders' = [orders EXCEPT ![o] = row]
        /\ call' = [call EXCEPT ![w].pc = "settle", ![w].order = o]
  BY DEF PlaceOrder
<1>4. /\ row \in OrderRow /\ row.task = t /\ row.quote = q
      /\ row.user = quotes[q].user /\ row.total = quotes[q].total
      /\ row.stay = quotes[q].stay /\ row.payment = "pending"
  BY <1>1, <1>2 DEF NewOrder, OrderRow, QuoteRow, OrderStatus, PaymentStatus
<1>5. /\ OrdersWithKey(t, q) = {}
      /\ Bookable(avail, quotes[q].room, quotes[q].stay)
      /\ avail' = Hold(avail, quotes[q].room, quotes[q].stay)
      /\ quotes' = [quotes EXCEPT ![q].accepted = TRUE]
      /\ UNCHANGED <<refunds, today, faults>>
  BY DEF PlaceOrder
<1> HIDE DEF row
<1>6. /\ quotes' \in [Quotes -> QuoteRow \cup {None}]
      /\ Quoted' = Quoted
      /\ \A p \in Quoted : /\ quotes'[p].user = quotes[p].user
                           /\ quotes'[p].total = quotes[p].total
                           /\ quotes'[p].stay = quotes[p].stay
                           /\ quotes[p].accepted => quotes'[p].accepted
      /\ quotes'[q].accepted
  <2> DEFINE new == [quotes[q] EXCEPT !.accepted = TRUE]
  <2>1. /\ new \in QuoteRow /\ new.user = quotes[q].user /\ new.total = quotes[q].total
        /\ new.stay = quotes[q].stay /\ new.accepted
    BY <1>2 DEF QuoteRow
  <2>2. quotes' = [quotes EXCEPT ![q] = new]
    BY <1>1, <1>5 DEF IInv, TypeOK
  <2> HIDE DEF new
  <2>3. quotes'[q] = new /\ \A p \in Quotes : p # q => quotes'[p] = quotes[p]
    BY <1>1, <2>2 DEF IInv, TypeOK
  <2>4. Quoted' = Quoted
    BY <1>1, <2>1, <2>3, NoneAssumption DEF Quoted
  <2> QED
    BY <1>1, <2>1, <2>2, <2>3, <2>4 DEF IInv, TypeOK, Quoted
<1>7. /\ Placed' = Placed \cup {o}
      /\ orders'[o] = row
      /\ \A p \in Placed : orders'[p] = orders[p] /\ p # o
  BY <1>3, <1>4, NoneAssumption DEF Placed, IInv, TypeOK
<1>8. /\ call'[w] \in Frame
      /\ call'[w].pc = "settle" /\ call'[w].order = o
      /\ call' \in [Workers -> Frame]
      /\ \A v \in Workers : v # w => call'[v] = call[v]
  <2> DEFINE f == [call[w] EXCEPT !.pc = "settle", !.order = o]
  <2>1. call[w] \in Frame
    BY DEF IInv, TypeOK
  <2>2. f \in Frame /\ f.pc = "settle" /\ f.order = o
    BY <2>1 DEF Frame, PCs
  <2>3. call' = [call EXCEPT ![w] = f]
    BY <1>3 DEF IInv, TypeOK
  <2> HIDE DEF f
  <2> QED
    BY <2>2, <2>3 DEF IInv, TypeOK
<1>9. AvailOK(avail')
  BY <1>2, <1>5, HoldAvail DEF AvailOK, IInv, TypeOK, QuoteRow
<1>10. TypeOK'
  BY <1>3, <1>4, <1>5, <1>6, <1>8, <1>9 DEF IInv, TypeOK, AvailOK
<1>11. FramesOK'
  <2> SUFFICES ASSUME NEW v \in Workers
               PROVE  FrameOK(call'[v], quotes', orders', refunds)
    BY <1>5 DEF FramesOK
  <2>1. CASE v = w
    BY <2>1, <1>7, <1>8, NoneAssumption, <1>4 DEF FrameOK, OrderPCs
  <2>2. CASE v # w
    <3>1. call'[v] = call[v] /\ FrameOK(call[v], quotes, orders, refunds)
      BY <2>2, <1>8 DEF IInv, FramesOK
    <3>2. \A p \in Orders : orders[p] # None => orders'[p] # None
      BY <1>7 DEF Placed
    <3>3. \A p \in Quotes : quotes[p] # None =>
              quotes'[p] # None /\ quotes'[p].user = quotes[p].user
      BY <1>6 DEF Quoted
    <3> QED
      BY <3>1, <3>2, <3>3 DEF FrameOK
  <2> QED
    BY <2>1, <2>2
<1>12. StaysOK'
  BY <1>1, <1>4, <1>6, <1>7 DEF IInv, StaysOK, Quoted
<1>13. OneOrderPerKey'
  <2>1. \A p \in Placed : ~(orders'[p].task = row.task /\ orders'[p].quote = row.quote)
    BY <1>4, <1>5, <1>7 DEF OrdersWithKey
  <2> QED
    BY <1>7, <2>1 DEF IInv, OneOrderPerKey
<1>14. OrderMatchesQuote'
  <2> SUFFICES ASSUME NEW p \in Placed \cup {o}
               PROVE  LET k == orders'[p].quote
                      IN  /\ k \in Quoted' /\ orders'[p].user = quotes'[k].user
                          /\ orders'[p].user = Owner[orders'[p].task]
                          /\ orders'[p].total = quotes'[k].total /\ quotes'[k].accepted
    BY <1>7 DEF OrderMatchesQuote
  <2>1. CASE p = o
    <3>1. orders'[p] = row
      BY <1>7, <2>1
    <3>2. q \in Quoted' /\ quotes'[q].user = quotes[q].user
          /\ quotes'[q].total = quotes[q].total /\ quotes'[q].accepted
      BY <1>1, <1>6 DEF Quoted
    <3> QED
      BY <1>1, <1>4, <3>1, <3>2
  <2>2. CASE p # o
    BY <1>6, <1>7, <2>2 DEF IInv, OrderMatchesQuote
  <2> QED
    BY <2>1, <2>2
<1>15. RefundedHasRefundRow'
  BY <1>4, <1>5, <1>7 DEF IInv, RefundedHasRefundRow
<1> QED
  BY <1>10, <1>11, <1>12, <1>13, <1>14, <1>15 DEF IInv

(* record_refund only adds to the refunds of the call's order.             *)
LEMMA RecordRefundStep ==
    ASSUME IInv, NEW w \in Workers, RecordRefund(w)
    PROVE  IInv'
<1> DEFINE o == call[w].order
           n == call[w].amount
<1>1. o \in Orders /\ o \in Placed
  BY DEF RecordRefund, At, IInv, FramesOK, FrameOK, OrderPCs, Placed
<1>2. n \in Int
  BY DEF IInv, TypeOK, Frame
<1>3. /\ refunds' = [refunds EXCEPT ![o] = [count |-> refunds[o].count + 1,
                                            total |-> refunds[o].total + n]]
      /\ call' = [call EXCEPT ![w].pc = "mark_refunded"]
      /\ UNCHANGED <<quotes, orders, avail, today, faults>>
  BY DEF RecordRefund, RefundRow, Continue
<1>4. /\ refunds' \in [Orders -> [count : Nat, total : Int]]
      /\ refunds'[o].count > 0
      /\ \A p \in Orders : refunds[p].count > 0 => refunds'[p].count > 0
  BY <1>1, <1>2, <1>3 DEF IInv, TypeOK
<1>5. /\ call' \in [Workers -> Frame]
      /\ call'[w].pc = "mark_refunded" /\ call'[w].order = o
      /\ \A v \in Workers : v # w => call'[v] = call[v]
  <2> DEFINE f == [call[w] EXCEPT !.pc = "mark_refunded"]
  <2>1. call[w] \in Frame
    BY DEF IInv, TypeOK
  <2>2. f \in Frame /\ f.pc = "mark_refunded" /\ f.order = o
    BY <2>1 DEF Frame, PCs
  <2>3. call' = [call EXCEPT ![w] = f]
    BY <1>3 DEF IInv, TypeOK
  <2> HIDE DEF f
  <2> QED
    BY <2>2, <2>3 DEF IInv, TypeOK
<1>6. TypeOK'
  BY <1>3, <1>4, <1>5 DEF IInv, TypeOK
<1>7. FramesOK'
  <2> SUFFICES ASSUME NEW v \in Workers
               PROVE  FrameOK(call'[v], quotes, orders, refunds')
    BY <1>3 DEF FramesOK
  <2>1. CASE v = w
    BY <2>1, <1>1, <1>4, <1>5 DEF FrameOK, Placed
  <2>2. CASE v # w
    BY <2>2, <1>4, <1>5 DEF IInv, FramesOK, FrameOK, OrderPCs
  <2> QED
    BY <2>1, <2>2
<1>8. Quoted' = Quoted /\ Placed' = Placed
  BY <1>3 DEF Quoted, Placed
<1>9. StaysOK' /\ OneOrderPerKey' /\ OrderMatchesQuote'
  BY <1>3, <1>8 DEF IInv, StaysOK, OneOrderPerKey, OrderMatchesQuote
<1>10. RefundedHasRefundRow'
  BY <1>3, <1>4, <1>8 DEF IInv, RefundedHasRefundRow, Placed
<1> QED
  BY <1>6, <1>7, <1>9, <1>10 DEF IInv

(* The clock makes a quote expire; nothing else about it changes.          *)
LEMMA ExpireQuoteStep ==
    ASSUME IInv, NEW q \in Quotes, ExpireQuote(q)
    PROVE  IInv'
<1>1. /\ q \in Quoted /\ quotes[q] \in QuoteRow
      /\ quotes' = [quotes EXCEPT ![q].expired = TRUE]
      /\ UNCHANGED <<orders, avail, refunds, call, today, faults>>
  BY DEF ExpireQuote, IInv, TypeOK, Quoted
<1> DEFINE new == [quotes[q] EXCEPT !.expired = TRUE]
<1>2. /\ new \in QuoteRow /\ new.user = quotes[q].user /\ new.total = quotes[q].total
      /\ new.stay = quotes[q].stay /\ new.accepted = quotes[q].accepted
  BY <1>1 DEF QuoteRow
<1>3. quotes' = [quotes EXCEPT ![q] = new]
  BY <1>1 DEF IInv, TypeOK
<1> HIDE DEF new
<1>4. quotes'[q] = new /\ \A p \in Quotes : p # q => quotes'[p] = quotes[p]
  BY <1>3 DEF IInv, TypeOK
<1>5. Quoted' = Quoted /\ Placed' = Placed
  BY <1>1, <1>2, <1>4, NoneAssumption DEF Quoted, Placed
<1>6. \A p \in Quoted : /\ quotes'[p].user = quotes[p].user
                        /\ quotes'[p].total = quotes[p].total
                        /\ quotes'[p].stay = quotes[p].stay
                        /\ quotes'[p].accepted = quotes[p].accepted
  BY <1>2, <1>4 DEF Quoted
<1>7. TypeOK'
  BY <1>1, <1>2, <1>3 DEF IInv, TypeOK
<1>8. FramesOK'
  <2>1. \A p \in Quotes : quotes[p] # None =>
            quotes'[p] # None /\ quotes'[p].user = quotes[p].user
    BY <1>5, <1>6 DEF Quoted
  <2> QED
    BY <1>1, <2>1 DEF IInv, FramesOK, FrameOK
<1>9. StaysOK' /\ OneOrderPerKey' /\ OrderMatchesQuote' /\ RefundedHasRefundRow'
  BY <1>1, <1>5, <1>6 DEF IInv, StaysOK, OneOrderPerKey, OrderMatchesQuote,
     RefundedHasRefundRow
<1> QED
  BY <1>7, <1>8, <1>9 DEF IInv

-----------------------------------------------------------------------------
(* The whole next-state relation.                                          *)

(* The frame a worker moves to when it only goes on to step pc.            *)
LEMMA ContinueFrame ==
    ASSUME IInv, NEW w \in Workers, NEW pc \in PCs, Continue(w, pc)
    PROVE  LET f == [call[w] EXCEPT !.pc = pc]
           IN  /\ f \in Frame /\ f.pc = pc
               /\ f.order = call[w].order /\ f.stay = call[w].stay
               /\ call' = [call EXCEPT ![w] = f]
  BY DEF IInv, TypeOK, Frame, Continue

(* A call that returns, normally or not, and changes no row.               *)
LEMMA ReturnStep ==
    ASSUME IInv, NEW w \in Workers, Return(w),
           UNCHANGED <<quotes, orders, avail, refunds>>,
           today' \in 0 .. MaxDay, faults' \in 0 .. MaxFaults
    PROVE  IInv'
  BY IdleFrame, FrameStep DEF Return

(* The five requests: each reads, checks, and only then opens a frame.     *)
LEMMA RequestStep ==
    ASSUME IInv, NEW w \in Workers, Request(w)
    PROVE  IInv'
<1> USE DEF Begin
<1>0. today \in 0 .. MaxDay /\ faults \in 0 .. MaxFaults
  BY DEF IInv, TypeOK
<1>1. ASSUME NEW t \in Tasks, NEW r \in Rooms, NEW s \in Stays, BeginQuote(w, t, r, s)
      PROVE  IInv'
  <2> DEFINE f == [Idle EXCEPT !.op = "quote", !.pc = "save_quote", !.task = t,
                               !.room = r, !.stay = s]
  <2>1. f \in Frame
    BY IdleFrame DEF Frame, Ops, PCs
  <2>2. FrameOK(f, quotes, orders, refunds)
    BY <1>1, IdleFrame DEF Frame, FrameOK, OrderPCs, BeginQuote, ValidStay
  <2>3. call' = [call EXCEPT ![w] = f] /\ UNCHANGED <<quotes, orders, avail, refunds, today, faults>>
    BY <1>1 DEF BeginQuote
  <2> QED
    BY <2>1, <2>2, <2>3, <1>0, FrameStep
<1>2. ASSUME NEW t \in Tasks, NEW q \in Quotes, NEW m \in PaymentModes,
             BeginConfirm(w, t, q, m)
      PROVE  IInv'
  <2> DEFINE f == [Idle EXCEPT !.op = "confirm", !.pc = "create_order", !.task = t,
                               !.quote = q, !.mode = m]
  <2>1. f \in Frame
    BY IdleFrame DEF Frame, Ops, PCs
  <2>2. FrameOK(f, quotes, orders, refunds)
    BY <1>2, IdleFrame DEF Frame, FrameOK, OrderPCs, BeginConfirm, Quoted
  <2>3. call' = [call EXCEPT ![w] = f] /\ UNCHANGED <<quotes, orders, avail, refunds, today, faults>>
    BY <1>2 DEF BeginConfirm
  <2> QED
    BY <2>1, <2>2, <2>3, <1>0, FrameStep
<1>3. ASSUME NEW t \in Tasks, NEW o \in Orders, NEW s \in Stays, BeginChange(w, t, o, s)
      PROVE  IInv'
  <2> DEFINE f == [Idle EXCEPT !.op = "change", !.pc = "mark_pending", !.order = o,
                               !.stay = s]
  <2>1. f \in Frame
    BY IdleFrame DEF Frame, Ops, PCs
  <2>2. FrameOK(f, quotes, orders, refunds)
    BY <1>3, IdleFrame DEF Frame, FrameOK, OrderPCs, BeginChange, ValidStay, Owned, Placed
  <2>3. call' = [call EXCEPT ![w] = f] /\ UNCHANGED <<quotes, orders, avail, refunds, today, faults>>
    BY <1>3 DEF BeginChange
  <2> QED
    BY <2>1, <2>2, <2>3, <1>0, FrameStep
<1>4. ASSUME NEW t \in Tasks, NEW o \in Orders, BeginCancel(w, t, o)
      PROVE  IInv'
  <2> DEFINE f == [Idle EXCEPT !.op = "cancel", !.pc = "mark_pending", !.order = o,
                               !.stay = orders[o].stay]
  <2>0. o \in Placed /\ orders[o].stay \in Stays
    BY <1>4 DEF BeginCancel, Owned, Placed, IInv, TypeOK, OrderRow
  <2>1. f \in Frame
    BY <2>0, IdleFrame DEF Frame, Ops, PCs
  <2>2. FrameOK(f, quotes, orders, refunds)
    BY <2>0, IdleFrame DEF Frame, FrameOK, OrderPCs, Placed, IInv, StaysOK
  <2>3. call' = [call EXCEPT ![w] = f] /\ UNCHANGED <<quotes, orders, avail, refunds, today, faults>>
    BY <1>4 DEF BeginCancel
  <2> QED
    BY <2>1, <2>2, <2>3, <1>0, FrameStep
<1>5. ASSUME NEW t \in Tasks, NEW o \in Orders, NEW n \in RefundAmounts,
             BeginRefund(w, t, o, n)
      PROVE  IInv'
  <2> DEFINE f == [Idle EXCEPT !.op = "refund", !.pc = "refund_row", !.order = o,
                               !.amount = n]
  <2>1. f \in Frame
    BY AmountAssumption, IdleFrame DEF Frame, Ops, PCs
  <2>2. FrameOK(f, quotes, orders, refunds)
    BY <1>5, IdleFrame DEF Frame, FrameOK, OrderPCs, BeginRefund, Owned, Placed
  <2>3. call' = [call EXCEPT ![w] = f] /\ UNCHANGED <<quotes, orders, avail, refunds, today, faults>>
    BY <1>5 DEF BeginRefund
  <2> QED
    BY <2>1, <2>2, <2>3, <1>0, FrameStep
<1> QED
  BY <1>1, <1>2, <1>3, <1>4, <1>5 DEF Request

(* The steps of a call in progress.                                        *)
LEMMA CallStep ==
    ASSUME IInv, NEW w \in Workers, Step(w)
    PROVE  IInv'
<1> DEFINE c == call[w]
           o == c.order
<1>0. /\ c \in Frame /\ FrameOK(c, quotes, orders, refunds)
      /\ today \in 0 .. MaxDay /\ faults \in 0 .. MaxFaults
      /\ AvailOK(avail)
  BY DEF IInv, TypeOK, FramesOK, AvailOK
<1>p. c.pc \in OrderPCs => o \in Placed /\ orders[o] \in OrderRow
  BY <1>0 DEF FrameOK, Placed, IInv, TypeOK
<1>r. ASSUME o \in Placed
      PROVE  /\ orders[o].stay \in Stays /\ orders[o].stay.in < orders[o].stay.out
             /\ orders[o].total \in Int /\ RoomOf(o) \in Rooms
             /\ orders[o].payment \in PaymentStatus
             /\ orders[o].payment = "refunded" => refunds[o].count > 0
  BY <1>r, RoomOfPlaced DEF IInv, TypeOK, StaysOK, RefundedHasRefundRow, OrderRow, Placed
<1>s. /\ {"confirmed", "payment_failed", "change_pending", "cancel_pending", "refunded",
          "cancelled"} \subseteq OrderStatus
      /\ {"captured", "declined", "refunded"} \subseteq PaymentStatus
  BY DEF OrderStatus, PaymentStatus
<1>1. CASE SaveQuote(w)
  BY <1>1, SaveQuoteStep
<1>2. CASE ReplayOrder(w)
  <2>1. PICK p \in OrdersWithKey(c.task, c.quote) :
          IF orders[p].status = "payment_pending"
          THEN call' = [call EXCEPT ![w].pc = "settle", ![w].order = p]
          ELSE Return(w)
    BY <1>2 DEF ReplayOrder
  <2>2. UNCHANGED <<quotes, orders, avail, refunds, today, faults>>
    BY <1>2 DEF ReplayOrder
  <2>3. CASE Return(w)
    BY <2>2, <2>3, <1>0, ReturnStep
  <2>4. CASE call' = [call EXCEPT ![w].pc = "settle", ![w].order = p]
    <3> DEFINE f == [c EXCEPT !.pc = "settle", !.order = p]
    <3>1. p \in Orders /\ orders[p] # None
      BY DEF OrdersWithKey, Placed
    <3>2. f \in Frame /\ f.pc = "settle" /\ f.order = p
      BY <1>0, <3>1 DEF Frame, PCs
    <3>3. call' = [call EXCEPT ![w] = f]
      BY <2>4 DEF IInv, TypeOK
    <3> HIDE DEF f
    <3>4. FrameOK(f, quotes, orders, refunds)
      BY <3>1, <3>2 DEF FrameOK
    <3> QED
      BY <3>2, <3>3, <3>4, <2>2, <1>0, FrameStep
  <2> QED
    BY <2>1, <2>3, <2>4
<1>3. CASE PlaceOrder(w)
  BY <1>3, PlaceOrderStep
<1>4. CASE SoldOut(w)
  BY <1>4, <1>0, ReturnStep DEF SoldOut
<1>5. CASE Decline(w)
  <2> DEFINE f == [c EXCEPT !.pc = "release", !.stay = orders[o].stay]
  <2>1. c.pc \in OrderPCs
    BY <1>5 DEF Decline, At, OrderPCs
  <2>2. f \in Frame /\ f.pc = "release" /\ f.order = o /\ f.stay = orders[o].stay
    BY <1>0, <1>p, <1>r, <2>1 DEF Frame, PCs
  <2>3. call' = [call EXCEPT ![w] = f]
    BY <1>5 DEF Decline, IInv, TypeOK
  <2> HIDE DEF f
  <2>4. FrameOK(f, quotes, orders, refunds)
    BY <1>p, <1>r, <2>1, <2>2 DEF FrameOK, Placed
  <2>5. UpdateOrder(o, "payment_failed", "declined")
        /\ UNCHANGED <<quotes, avail, refunds, today, faults>>
    BY <1>5 DEF Decline
  <2> QED
    BY <1>p, <1>s, <2>1, <2>2, <2>3, <2>4, <2>5, UpdateOrderStep
<1>6. CASE Capture(w)
  <2>1. c.pc \in OrderPCs
    BY <1>6 DEF Capture, At, OrderPCs
  <2>2. UpdateOrder(o, "confirmed", "captured")
        /\ UNCHANGED <<quotes, avail, refunds, today, faults>>
    BY <1>6 DEF Capture
  <2>3. CASE Return(w)
    <3>1. call' = [call EXCEPT ![w] = Idle]
      BY <2>3 DEF Return
    <3> QED
      BY <1>p, <1>s, <2>1, <2>2, <3>1, IdleFrame, UpdateOrderStep
  <2>4. CASE call' = [call EXCEPT ![w].pc = "refund_row", ![w].amount = orders[o].total]
    <3> DEFINE f == [c EXCEPT !.pc = "refund_row", !.amount = orders[o].total]
    <3>1. f \in Frame /\ f.pc = "refund_row" /\ f.order = o
      BY <1>0, <1>p, <1>r, <2>1 DEF Frame, PCs
    <3>2. call' = [call EXCEPT ![w] = f]
      BY <2>4 DEF IInv, TypeOK
    <3> HIDE DEF f
    <3>3. FrameOK(f, quotes, orders, refunds)
      BY <1>p, <2>1, <3>1 DEF FrameOK, Placed
    <3> QED
      BY <1>p, <1>s, <2>1, <2>2, <3>1, <3>2, <3>3, UpdateOrderStep
  <2> QED
    BY <1>6, <2>3, <2>4 DEF Capture
<1>7. CASE MarkPending(w)
  <2> DEFINE n == CancelRefund(orders[o].total, c.stay)
  <2>1. c.pc \in OrderPCs /\ c.pc = "mark_pending"
    BY <1>7 DEF MarkPending, At, OrderPCs
  <2>2. c.stay \in Stays /\ c.stay.in < c.stay.out
    BY <1>0, <2>1 DEF FrameOK
  <2>3. UNCHANGED <<quotes, avail, refunds, today, faults>>
    BY <1>7 DEF MarkPending
  <2>4. CASE /\ UpdateOrder(o, "change_pending", orders[o].payment)
             /\ Continue(w, "move_dates")
    <3> DEFINE f == [c EXCEPT !.pc = "move_dates"]
    <3>1. /\ f \in Frame /\ f.pc = "move_dates" /\ f.order = o /\ f.stay = c.stay
          /\ call' = [call EXCEPT ![w] = f]
      BY <2>4, ContinueFrame DEF PCs
    <3> HIDE DEF f
    <3>2. FrameOK(f, quotes, orders, refunds)
      BY <1>p, <2>1, <2>2, <3>1 DEF FrameOK, Placed
    <3> QED
      BY <1>p, <1>r, <1>s, <2>1, <2>3, <2>4, <3>1, <3>2, UpdateOrderStep
  <2>5. CASE /\ UpdateOrder(o, "cancel_pending", orders[o].payment)
             /\ call' = [call EXCEPT
                    ![w].pc = IF n > 0 THEN "refund_row" ELSE "mark_cancelled",
                    ![w].amount = n]
    <3> DEFINE pc == IF n > 0 THEN "refund_row" ELSE "mark_cancelled"
               f == [c EXCEPT !.pc = pc, !.amount = n]
    <3>1. n \in Int
      <4>1. c.stay.out - c.stay.in \in Nat \ {0}
        BY <2>2, StaysAssumption DEF Stay
      <4>2. orders[o].total \in Int
        BY <1>p, <1>r, <2>1
      <4> QED
        BY <4>1, <4>2 DEF CancelRefund
    <3> HIDE DEF n
    <3>2. pc \in PCs /\ pc \in {"refund_row", "mark_cancelled"}
      BY DEF PCs
    <3> HIDE DEF pc
    <3>3. f \in Frame /\ f.pc = pc /\ f.order = o
      BY <1>0, <3>1, <3>2 DEF Frame
    <3>4. call' = [call EXCEPT ![w] = f]
      BY <2>5 DEF IInv, TypeOK, pc
    <3> HIDE DEF f
    <3>5. FrameOK(f, quotes, orders, refunds)
      BY <1>p, <2>1, <3>2, <3>3 DEF FrameOK, Placed
    <3> QED
      BY <1>p, <1>r, <1>s, <2>1, <2>3, <2>5, <3>3, <3>4, <3>5, UpdateOrderStep
  <2> QED
    BY <1>7, <2>4, <2>5 DEF MarkPending
<1>8. CASE MoveDates(w)
  <2> DEFINE s == c.stay
             row == [orders[o] EXCEPT !.stay = s, !.status = "confirmed"]
  <2>1. c.pc \in OrderPCs /\ s \in Stays /\ s.in < s.out
    BY <1>0, <1>8 DEF MoveDates, At, OrderPCs, FrameOK
  <2>2. /\ row \in OrderRow /\ row.stay = s /\ row.payment = orders[o].payment
        /\ row.user = orders[o].user /\ row.task = orders[o].task
        /\ row.quote = orders[o].quote /\ row.total = orders[o].total
    BY <1>p, <1>s, <2>1 DEF OrderRow
  <2>3. orders' = [orders EXCEPT ![o] = row]
    BY <1>8, <1>p, <2>1 DEF MoveDates, IInv, TypeOK, Placed
  <2> HIDE DEF row
  <2>4. AvailOK(AfterFree(o))
    BY <1>0, <1>p, <1>r, <2>1, FreeAvail DEF AfterFree
  <2>5. AvailOK(avail')
    BY <1>8, <1>p, <1>r, <2>1, <2>4, HoldAvail DEF MoveDates, MoveNights
  <2>6. /\ call' = [call EXCEPT ![w] = Idle]
        /\ UNCHANGED <<quotes, refunds, today, faults>>
    BY <1>8 DEF MoveDates, Return
  <2>7. row.payment = "refunded" => refunds[o].count > 0
    BY <1>p, <1>r, <2>1, <2>2
  <2> QED
    BY <1>p, <2>1, <2>2, <2>3, <2>5, <2>6, <2>7, IdleFrame, OrderStep
<1>9. CASE MoveSoldOut(w)
  <2> DEFINE f == [c EXCEPT !.pc = "revert"]
  <2>1. c.pc \in OrderPCs
    BY <1>9 DEF MoveSoldOut, At, OrderPCs
  <2>2. f \in Frame /\ f.pc = "revert" /\ f.order = o /\ call' = [call EXCEPT ![w] = f]
    BY <1>9, ContinueFrame DEF MoveSoldOut, PCs
  <2> HIDE DEF f
  <2>3. FrameOK(f, quotes, orders, refunds)
    BY <1>p, <2>1, <2>2 DEF FrameOK, Placed
  <2> QED
    BY <1>0, <1>9, <2>2, <2>3, FrameStep DEF MoveSoldOut
<1>10. CASE Revert(w)
  <2>1. c.pc \in OrderPCs
    BY <1>10 DEF Revert, At, OrderPCs
  <2>2. /\ call' = [call EXCEPT ![w] = Idle]
        /\ UpdateOrder(o, "confirmed", orders[o].payment)
        /\ UNCHANGED <<quotes, avail, refunds, today, faults>>
    BY <1>10 DEF Revert, Return
  <2> QED
    BY <1>p, <1>r, <1>s, <2>1, <2>2, IdleFrame, UpdateOrderStep
<1>11. CASE RecordRefund(w)
  BY <1>11, RecordRefundStep
<1>12. CASE MarkRefunded(w)
  <2> DEFINE f == [c EXCEPT !.pc = "release", !.stay = orders[o].stay]
  <2>1. c.pc \in OrderPCs /\ refunds[o].count > 0
    BY <1>0, <1>12 DEF MarkRefunded, At, OrderPCs, FrameOK
  <2>2. f \in Frame /\ f.pc = "release" /\ f.order = o /\ f.stay = orders[o].stay
    BY <1>0, <1>p, <1>r, <2>1 DEF Frame, PCs
  <2>3. call' = [call EXCEPT ![w] = f]
    BY <1>12 DEF MarkRefunded, IInv, TypeOK
  <2> HIDE DEF f
  <2>4. FrameOK(f, quotes, orders, refunds)
    BY <1>p, <1>r, <2>1, <2>2 DEF FrameOK, Placed
  <2>5. UpdateOrder(o, "refunded", "refunded")
        /\ UNCHANGED <<quotes, avail, refunds, today, faults>>
    BY <1>12 DEF MarkRefunded
  <2> QED
    BY <1>p, <1>s, <2>1, <2>2, <2>3, <2>4, <2>5, UpdateOrderStep
<1>13. CASE MarkCancelled(w)
  <2> DEFINE f == [c EXCEPT !.pc = "release", !.stay = orders[o].stay]
  <2>1. c.pc \in OrderPCs
    BY <1>13 DEF MarkCancelled, At, OrderPCs
  <2>2. f \in Frame /\ f.pc = "release" /\ f.order = o /\ f.stay = orders[o].stay
    BY <1>0, <1>p, <1>r, <2>1 DEF Frame, PCs
  <2>3. call' = [call EXCEPT ![w] = f]
    BY <1>13 DEF MarkCancelled, IInv, TypeOK
  <2> HIDE DEF f
  <2>4. FrameOK(f, quotes, orders, refunds)
    BY <1>p, <1>r, <2>1, <2>2 DEF FrameOK, Placed
  <2>5. UpdateOrder(o, "cancelled", orders[o].payment)
        /\ UNCHANGED <<quotes, avail, refunds, today, faults>>
    BY <1>13 DEF MarkCancelled
  <2> QED
    BY <1>p, <1>r, <1>s, <2>1, <2>2, <2>3, <2>4, <2>5, UpdateOrderStep
<1>14. CASE ReleaseInventory(w)
  <2>1. c.pc \in OrderPCs
    BY <1>14 DEF ReleaseInventory, At, OrderPCs
  <2>2. /\ avail' = Free(avail, RoomOf(o), c.stay)
        /\ call' = [call EXCEPT ![w] = Idle]
        /\ UNCHANGED <<quotes, orders, refunds, today, faults>>
    BY <1>14 DEF ReleaseInventory, Return
  <2>3. AvailOK(avail')
    BY <1>0, <1>p, <1>r, <2>1, <2>2, FreeAvail
  <2>4. TypeOK'
    BY <2>2, <2>3, IdleFrame DEF IInv, TypeOK, AvailOK
  <2>5. FramesOK'
    BY <2>2, IdleFrame DEF IInv, FramesOK, TypeOK
  <2>6. Quoted' = Quoted /\ Placed' = Placed
    BY <2>2 DEF Quoted, Placed
  <2> QED
    BY <2>2, <2>4, <2>5, <2>6 DEF IInv, StaysOK, OneOrderPerKey, OrderMatchesQuote,
       RefundedHasRefundRow
<1> QED
  BY <1>1, <1>2, <1>3, <1>4, <1>5, <1>6, <1>7, <1>8, <1>9, <1>10, <1>11, <1>12, <1>13,
     <1>14 DEF Step

(* Failures: the call returns, or goes to its except branch.               *)
LEMMA FaultStep ==
    ASSUME IInv, NEW w \in Workers, Fail(w) \/ Crash(w)
    PROVE  IInv'
<1>0. /\ today' \in 0 .. MaxDay /\ faults' \in 0 .. MaxFaults
      /\ UNCHANGED <<quotes, orders, avail, refunds>>
  BY BoundAssumption DEF Fail, Crash, IInv, TypeOK
<1>1. CASE Return(w)
  BY <1>0, <1>1, ReturnStep
<1>2. CASE InTry(call[w]) /\ Continue(w, "revert")
  <2> DEFINE f == [call[w] EXCEPT !.pc = "revert"]
  <2>1. call[w].pc \in OrderPCs
    BY <1>2 DEF InTry, OrderPCs
  <2>2. call[w].order \in Orders /\ orders[call[w].order] # None
    BY <2>1 DEF IInv, FramesOK, FrameOK
  <2>3. /\ f \in Frame /\ f.pc = "revert" /\ f.order = call[w].order
        /\ call' = [call EXCEPT ![w] = f]
    BY <1>2, ContinueFrame DEF PCs
  <2> HIDE DEF f
  <2>4. FrameOK(f, quotes, orders, refunds)
    BY <2>2, <2>3 DEF FrameOK
  <2> QED
    BY <1>0, <2>3, <2>4, FrameStep
<1> QED
  BY <1>1, <1>2 DEF Fail, Crash

LEMMA NextIInv == IInv /\ [Next]_vars => IInv'
<1> SUFFICES ASSUME IInv, [Next]_vars PROVE IInv'
  OBVIOUS
<1>1. ASSUME NEW w \in Workers, Request(w) PROVE IInv'
  BY <1>1, RequestStep
<1>2. ASSUME NEW w \in Workers, Step(w) PROVE IInv'
  BY <1>2, CallStep
<1>3. ASSUME NEW w \in Workers, Fail(w) \/ Crash(w) PROVE IInv'
  BY <1>3, FaultStep
<1>4. ASSUME NEW q \in Quotes, ExpireQuote(q) PROVE IInv'
  BY <1>4, ExpireQuoteStep
<1>5. CASE NextDay \/ UNCHANGED vars
  <2>1. /\ UNCHANGED <<quotes, orders, avail, refunds, call, faults>>
        /\ today' \in 0 .. MaxDay
    BY <1>5, BoundAssumption DEF NextDay, vars, IInv, TypeOK
  <2>2. Quoted' = Quoted /\ Placed' = Placed
    BY <2>1 DEF Quoted, Placed
  <2> QED
    BY <2>1, <2>2 DEF IInv, TypeOK, FramesOK, StaysOK, OneOrderPerKey, OrderMatchesQuote,
       RefundedHasRefundRow
<1> QED
  BY <1>1, <1>2, <1>3, <1>4, <1>5 DEF Next

LEMMA Invariance == Spec => []IInv
  BY InitIInv, NextIInv, PTL DEF Spec

-----------------------------------------------------------------------------

(* Rows and frames keep their types and every night's availability stays   *)
(* between sold out and the room's capacity.                               *)
THEOREM TypeCorrect == Spec => []TypeOK
  BY Invariance, PTL DEF IInv

(* A retried confirmation never makes a second order.                      *)
THEOREM BookingIsIdempotent == Spec => []OneOrderPerKey
  BY Invariance, PTL DEF IInv

(* A payment marked refunded has a refund row.                             *)
THEOREM RefundsAreRecorded == Spec => []RefundedHasRefundRow
  BY Invariance, PTL DEF IInv

-----------------------------------------------------------------------------
(* Calls that do not work on the same order at the same time, and a single *)
(* worker, as start-worker.ps1 starts it.                                  *)

(* The payment a call read or wrote is still there when its next step runs.*)
SoloFrameOK(f, os) ==
    /\ f.pc = "settle" => os[f.order].payment = "pending"
    /\ f.pc \in OrderPCs \ {"settle", "release"} => os[f.order].payment = "captured"

SoloInv ==
    /\ StatusPaymentAgree
    /\ \A w \in Workers : SoloFrameOK(call[w], orders)

(* A step that moves a worker's call and leaves the orders alone.          *)
LEMMA SoloFrameStep ==
    ASSUME IInv, SoloInv, NEW w \in Workers, NEW f,
           call' = [call EXCEPT ![w] = f], orders' = orders,
           SoloFrameOK(f, orders)
    PROVE  SoloInv'
<1>1. Placed' = Placed
  BY DEF Placed
<1>2. StatusPaymentAgree'
  BY <1>1 DEF SoloInv, StatusPaymentAgree
<1>3. \A v \in Workers : call'[v] = IF v = w THEN f ELSE call[v]
  BY DEF IInv, TypeOK
<1> QED
  BY <1>2, <1>3 DEF SoloInv

(* A step that moves a worker's call and rewrites status and payment of    *)
(* the order it works on, or of a new one, consistently.                   *)
LEMMA SoloOrderStep ==
    ASSUME CallsApart, IInv, SoloInv, NEW w \in Workers, NEW f, NEW o \in Orders, NEW row,
           o \notin Placed \/ call[w].order = o,
           call' = [call EXCEPT ![w] = f], orders' = [orders EXCEPT ![o] = row],
           row.payment = PaymentOf(row.status),
           SoloFrameOK(f, orders')
    PROVE  SoloInv'
<1>1. orders'[o] = row /\ \A p \in Orders : p # o => orders'[p] = orders[p]
  BY DEF IInv, TypeOK
<1>2. StatusPaymentAgree'
  BY <1>1 DEF SoloInv, StatusPaymentAgree, Placed
<1>3. \A v \in Workers : call'[v] = IF v = w THEN f ELSE call[v]
  BY DEF IInv, TypeOK
<1>4. ASSUME NEW v \in Workers, v # w
      PROVE  SoloFrameOK(call[v], orders')
  <2>1. CASE call[v].pc \in OrderPCs
    <3>1. call[v].order \in Placed
      BY <2>1 DEF IInv, FramesOK, FrameOK, Placed
    <3>2. call[v].order # o
      BY <1>4, <3>1 DEF CallsApart
    <3> QED
      BY <1>1, <3>1, <3>2 DEF SoloInv, SoloFrameOK, Placed
  <2>2. CASE call[v].pc \notin OrderPCs
    BY <2>2 DEF SoloFrameOK, OrderPCs
  <2> QED
    BY <2>1, <2>2
<1> QED
  BY <1>2, <1>3, <1>4 DEF SoloInv

(* The same for a step that is an update_order.                            *)
LEMMA SoloUpdateStep ==
    ASSUME CallsApart, IInv, SoloInv, NEW w \in Workers, NEW f, NEW o \in Placed,
           NEW st, NEW pay, call[w].order = o,
           call' = [call EXCEPT ![w] = f], UpdateOrder(o, st, pay),
           pay = PaymentOf(st),
           f.pc \in {"idle", "release"} \/ (/\ f.order = o /\ pay = "captured"
                                            /\ f.pc # "settle")
    PROVE  SoloInv'
<1> DEFINE row == [orders[o] EXCEPT !.status = st, !.payment = pay]
<1>1. orders[o] \in OrderRow /\ o \in Orders
  BY DEF IInv, TypeOK, Placed
<1>2. row.status = st /\ row.payment = pay
  BY <1>1 DEF OrderRow
<1>3. orders' = [orders EXCEPT ![o] = row]
  BY <1>1 DEF UpdateOrder, IInv, TypeOK
<1> HIDE DEF row
<1>4. orders'[o] = row
  BY <1>1, <1>3 DEF IInv, TypeOK
<1>5. SoloFrameOK(f, orders')
  BY <1>2, <1>4 DEF SoloFrameOK, OrderPCs
<1> QED
  BY <1>1, <1>2, <1>3, <1>5, SoloOrderStep

LEMMA SoloRequestStep ==
    ASSUME IInv, SoloInv, NEW w \in Workers, Request(w)
    PROVE  SoloInv'
<1>1. orders' = orders
  BY DEF Request, BeginQuote, BeginConfirm, BeginChange, BeginCancel, BeginRefund
<1> DEFINE Opened(f) ==
             \/ f.pc \in {"save_quote", "create_order"}
             \/ /\ f.pc \in {"mark_pending", "refund_row"}
                /\ f.order \in Placed
                /\ orders[f.order].status = "confirmed"
                   \/ orders[f.order].payment = "captured"
<1>2. PICK f : call' = [call EXCEPT ![w] = f] /\ Opened(f)
  <2> USE IdleFrame DEF Frame, Begin
  <2>1. ASSUME NEW t \in Tasks, NEW r \in Rooms, NEW s \in Stays, BeginQuote(w, t, r, s)
        PROVE  \E f : call' = [call EXCEPT ![w] = f] /\ Opened(f)
    <3> DEFINE f == [Idle EXCEPT !.op = "quote", !.pc = "save_quote", !.task = t,
                                 !.room = r, !.stay = s]
    <3>1. f.pc = "save_quote" /\ call' = [call EXCEPT ![w] = f]
      BY <2>1 DEF BeginQuote
    <3> QED
      BY <3>1
  <2>2. ASSUME NEW t \in Tasks, NEW q \in Quotes, NEW m \in PaymentModes,
               BeginConfirm(w, t, q, m)
        PROVE  \E f : call' = [call EXCEPT ![w] = f] /\ Opened(f)
    <3> DEFINE f == [Idle EXCEPT !.op = "confirm", !.pc = "create_order", !.task = t,
                                 !.quote = q, !.mode = m]
    <3>1. f.pc = "create_order" /\ call' = [call EXCEPT ![w] = f]
      BY <2>2 DEF BeginConfirm
    <3> QED
      BY <3>1
  <2>3. ASSUME NEW t \in Tasks, NEW o \in Orders, NEW s \in Stays, BeginChange(w, t, o, s)
        PROVE  \E f : call' = [call EXCEPT ![w] = f] /\ Opened(f)
    <3> DEFINE f == [Idle EXCEPT !.op = "change", !.pc = "mark_pending", !.order = o,
                                 !.stay = s]
    <3>1. /\ f.pc = "mark_pending" /\ f.order = o /\ call' = [call EXCEPT ![w] = f]
          /\ o \in Placed /\ orders[o].status = "confirmed"
      BY <2>3 DEF BeginChange, Owned, Changeable
    <3> HIDE DEF f
    <3> QED
      BY <3>1
  <2>4. ASSUME NEW t \in Tasks, NEW o \in Orders, BeginCancel(w, t, o)
        PROVE  \E f : call' = [call EXCEPT ![w] = f] /\ Opened(f)
    <3> DEFINE f == [Idle EXCEPT !.op = "cancel", !.pc = "mark_pending", !.order = o,
                                 !.stay = orders[o].stay]
    <3>1. /\ f.pc = "mark_pending" /\ f.order = o /\ call' = [call EXCEPT ![w] = f]
          /\ o \in Placed /\ orders[o].status = "confirmed"
      BY <2>4 DEF BeginCancel, Owned, Cancellable
    <3> HIDE DEF f
    <3> QED
      BY <3>1
  <2>5. ASSUME NEW t \in Tasks, NEW o \in Orders, NEW n \in RefundAmounts,
               BeginRefund(w, t, o, n)
        PROVE  \E f : call' = [call EXCEPT ![w] = f] /\ Opened(f)
    <3> DEFINE f == [Idle EXCEPT !.op = "refund", !.pc = "refund_row", !.order = o,
                                 !.amount = n]
    <3>1. /\ f.pc = "refund_row" /\ f.order = o /\ call' = [call EXCEPT ![w] = f]
          /\ o \in Placed /\ orders[o].payment = "captured"
      BY <2>5 DEF BeginRefund, Owned, Refundable
    <3> HIDE DEF f
    <3> QED
      BY <3>1
  <2> QED
    BY <2>1, <2>2, <2>3, <2>4, <2>5 DEF Request
<1>3. SoloFrameOK(f, orders)
  BY <1>2 DEF SoloFrameOK, OrderPCs, SoloInv, StatusPaymentAgree, PaymentOf
<1> QED
  BY <1>1, <1>2, <1>3, SoloFrameStep

LEMMA SoloCallStep ==
    ASSUME CallsApart, IInv, SoloInv, NEW w \in Workers, Step(w)
    PROVE  SoloInv'
<1> DEFINE c == call[w]
           o == c.order
<1>0. c \in Frame /\ FrameOK(c, quotes, orders, refunds) /\ SoloFrameOK(c, orders)
  BY DEF IInv, TypeOK, FramesOK, SoloInv
<1>p. c.pc \in OrderPCs => o \in Placed /\ orders[o] \in OrderRow
  BY <1>0 DEF FrameOK, Placed, IInv, TypeOK
<1>i. SoloFrameOK(Idle, orders) /\ Idle.pc = "idle"
  BY DEF Idle, SoloFrameOK, OrderPCs
<1>1. CASE SaveQuote(w)
  BY <1>1, <1>i, SoloFrameStep DEF SaveQuote, Return
<1>2. CASE ReplayOrder(w)
  <2>1. PICK p \in OrdersWithKey(c.task, c.quote) :
          IF orders[p].status = "payment_pending"
          THEN call' = [call EXCEPT ![w].pc = "settle", ![w].order = p]
          ELSE Return(w)
    BY <1>2 DEF ReplayOrder
  <2>2. orders' = orders
    BY <1>2 DEF ReplayOrder
  <2>3. CASE Return(w)
    BY <2>2, <2>3, <1>i, SoloFrameStep DEF Return
  <2>4. CASE /\ orders[p].status = "payment_pending"
             /\ call' = [call EXCEPT ![w].pc = "settle", ![w].order = p]
    <3> DEFINE f == [c EXCEPT !.pc = "settle", !.order = p]
    <3>1. f.pc = "settle" /\ f.order = p
      BY <1>0 DEF Frame
    <3>2. call' = [call EXCEPT ![w] = f]
      BY <2>4 DEF IInv, TypeOK
    <3> HIDE DEF f
    <3>3. orders[p].payment = "pending"
      BY <2>4 DEF OrdersWithKey, SoloInv, StatusPaymentAgree, PaymentOf
    <3> QED
      BY <2>2, <3>1, <3>2, <3>3, SoloFrameStep DEF SoloFrameOK, OrderPCs
  <2> QED
    BY <2>1, <2>3, <2>4
<1>3. CASE PlaceOrder(w)
  <2> DEFINE row == NewOrder(c.task, c.quote)
  <2>1. PICK p \in Orders \ Placed :
          /\ orders' = [orders EXCEPT ![p] = row]
          /\ call' = [call EXCEPT ![w].pc = "settle", ![w].order = p]
    BY <1>3 DEF PlaceOrder
  <2> DEFINE f == [c EXCEPT !.pc = "settle", !.order = p]
  <2>2. f.pc = "settle" /\ f.order = p
    BY <1>0 DEF Frame
  <2>3. call' = [call EXCEPT ![w] = f]
    BY <2>1 DEF IInv, TypeOK
  <2>4. row.payment = "pending" /\ row.payment = PaymentOf(row.status)
    BY DEF NewOrder, PaymentOf
  <2> HIDE DEF f, row
  <2>5. orders'[p] = row
    BY <2>1 DEF IInv, TypeOK
  <2>6. SoloFrameOK(f, orders')
    BY <2>2, <2>4, <2>5 DEF SoloFrameOK, OrderPCs
  <2> QED
    BY <2>1, <2>3, <2>4, <2>6, SoloOrderStep
<1>4. CASE SoldOut(w)
  BY <1>4, <1>i, SoloFrameStep DEF SoldOut, Return
<1>5. CASE Decline(w)
  <2> DEFINE f == [c EXCEPT !.pc = "release", !.stay = orders[o].stay]
  <2>1. c.pc \in OrderPCs
    BY <1>5 DEF Decline, At, OrderPCs
  <2>2. f.pc = "release"
    BY <1>0 DEF Frame
  <2>3. /\ call' = [call EXCEPT ![w] = f]
        /\ UpdateOrder(o, "payment_failed", "declined")
    BY <1>5 DEF Decline, IInv, TypeOK
  <2> HIDE DEF f
  <2>4. PaymentOf("payment_failed") = "declined"
    BY DEF PaymentOf
  <2> QED
    BY <1>p, <2>1, <2>2, <2>3, <2>4, SoloUpdateStep
<1>6. CASE Capture(w)
  <2>1. c.pc \in OrderPCs /\ UpdateOrder(o, "confirmed", "captured")
    BY <1>6 DEF Capture, At, OrderPCs
  <2>2. PaymentOf("confirmed") = "captured"
    BY DEF PaymentOf
  <2>3. CASE Return(w)
    <3>1. call' = [call EXCEPT ![w] = Idle]
      BY <2>3 DEF Return
    <3> QED
      BY <1>p, <1>i, <2>1, <2>2, <3>1, SoloUpdateStep
  <2>4. CASE call' = [call EXCEPT ![w].pc = "refund_row", ![w].amount = orders[o].total]
    <3> DEFINE f == [c EXCEPT !.pc = "refund_row", !.amount = orders[o].total]
    <3>1. f.pc = "refund_row" /\ f.order = o
      BY <1>0 DEF Frame
    <3>2. call' = [call EXCEPT ![w] = f]
      BY <2>4 DEF IInv, TypeOK
    <3> HIDE DEF f
    <3> QED
      BY <1>p, <2>1, <2>2, <3>1, <3>2, SoloUpdateStep
  <2> QED
    BY <1>6, <2>3, <2>4 DEF Capture
<1>7. CASE MarkPending(w)
  <2>1. /\ c.pc \in OrderPCs /\ o \in Placed
        /\ orders[o].payment = "captured"
    BY <1>0, <1>7, <1>p DEF MarkPending, At, OrderPCs, SoloFrameOK
  <2>2. PaymentOf("change_pending") = "captured" /\ PaymentOf("cancel_pending") = "captured"
    BY DEF PaymentOf
  <2>3. CASE /\ UpdateOrder(o, "change_pending", orders[o].payment)
             /\ Continue(w, "move_dates")
    <3> DEFINE f == [c EXCEPT !.pc = "move_dates"]
    <3>1. f.pc = "move_dates" /\ f.order = o /\ call' = [call EXCEPT ![w] = f]
      BY <2>3, ContinueFrame DEF PCs
    <3> HIDE DEF f
    <3> QED
      BY <2>1, <2>2, <2>3, <3>1, SoloUpdateStep
  <2>4. ASSUME NEW n,
               UpdateOrder(o, "cancel_pending", orders[o].payment),
               call' = [call EXCEPT
                  ![w].pc = IF n > 0 THEN "refund_row" ELSE "mark_cancelled",
                  ![w].amount = n]
        PROVE  SoloInv'
    <3> DEFINE pc == IF n > 0 THEN "refund_row" ELSE "mark_cancelled"
               f == [c EXCEPT !.pc = pc, !.amount = n]
    <3>1. pc \in {"refund_row", "mark_cancelled"}
      OBVIOUS
    <3>2. f.pc = pc /\ f.order = o /\ call' = [call EXCEPT ![w] = f]
      BY <1>0, <2>4 DEF Frame, IInv, TypeOK
    <3> HIDE DEF f, pc
    <3>3. f.pc \notin {"idle", "release", "settle"}
      BY <3>1, <3>2
    <3> QED
      <4>1. UpdateOrder(o, "cancel_pending", "captured")
        BY <2>1, <2>4
      <4> QED
        BY <2>1, <2>2, <3>2, <3>3, <4>1, SoloUpdateStep
  <2> QED
    BY <1>7, <2>3, <2>4 DEF MarkPending
<1>8. CASE MoveDates(w)
  <2> DEFINE row == [orders[o] EXCEPT !.stay = c.stay, !.status = "confirmed"]
  <2>1. /\ o \in Placed /\ orders[o] \in OrderRow
        /\ orders[o].payment = "captured"
    BY <1>0, <1>8, <1>p DEF MoveDates, At, OrderPCs, SoloFrameOK
  <2>2. row.payment = "captured" /\ row.status = "confirmed"
    BY <2>1 DEF OrderRow
  <2>3. /\ orders' = [orders EXCEPT ![o] = row]
        /\ call' = [call EXCEPT ![w] = Idle]
    BY <1>8, <2>1 DEF MoveDates, Return, IInv, TypeOK, Placed
  <2> HIDE DEF row
  <2>4. SoloFrameOK(Idle, orders')
    BY DEF Idle, SoloFrameOK, OrderPCs
  <2>5. row.payment = PaymentOf(row.status) /\ o \in Orders
    BY <2>1, <2>2 DEF PaymentOf, Placed
  <2> QED
    BY <2>3, <2>4, <2>5, SoloOrderStep
<1>9. CASE MoveSoldOut(w)
  <2> DEFINE f == [c EXCEPT !.pc = "revert"]
  <2>1. c.pc = "move_dates" /\ orders' = orders
    BY <1>9 DEF MoveSoldOut, At
  <2>2. f.pc = "revert" /\ f.order = o /\ call' = [call EXCEPT ![w] = f]
    BY <1>9, ContinueFrame DEF MoveSoldOut, PCs
  <2> HIDE DEF f
  <2>3. SoloFrameOK(f, orders)
    BY <1>0, <2>1, <2>2 DEF SoloFrameOK, OrderPCs
  <2> QED
    BY <2>1, <2>2, <2>3, SoloFrameStep
<1>10. CASE Revert(w)
  <2>1. o \in Placed /\ orders[o].payment = "captured"
    BY <1>0, <1>10, <1>p DEF Revert, At, OrderPCs, SoloFrameOK
  <2>2. /\ call' = [call EXCEPT ![w] = Idle]
        /\ UpdateOrder(o, "confirmed", "captured")
    BY <1>10, <2>1 DEF Revert, Return
  <2>3. PaymentOf("confirmed") = "captured"
    BY DEF PaymentOf
  <2> QED
    BY <1>i, <2>1, <2>2, <2>3, SoloUpdateStep
<1>11. CASE RecordRefund(w)
  <2> DEFINE f == [c EXCEPT !.pc = "mark_refunded"]
  <2>1. c.pc = "refund_row" /\ orders' = orders
    BY <1>11 DEF RecordRefund, At
  <2>2. f.pc = "mark_refunded" /\ f.order = o /\ call' = [call EXCEPT ![w] = f]
    BY <1>11, ContinueFrame DEF RecordRefund, PCs
  <2> HIDE DEF f
  <2>3. SoloFrameOK(f, orders)
    BY <1>0, <2>1, <2>2 DEF SoloFrameOK, OrderPCs
  <2> QED
    BY <2>1, <2>2, <2>3, SoloFrameStep
<1>12. CASE MarkRefunded(w)
  <2> DEFINE f == [c EXCEPT !.pc = "release", !.stay = orders[o].stay]
  <2>1. o \in Placed
    BY <1>12, <1>p DEF MarkRefunded, At, OrderPCs
  <2>2. f.pc = "release"
    BY <1>0 DEF Frame
  <2>3. call' = [call EXCEPT ![w] = f] /\ UpdateOrder(o, "refunded", "refunded")
    BY <1>12 DEF MarkRefunded, IInv, TypeOK
  <2> HIDE DEF f
  <2>4. PaymentOf("refunded") = "refunded"
    BY DEF PaymentOf
  <2> QED
    BY <2>1, <2>2, <2>3, <2>4, SoloUpdateStep
<1>13. CASE MarkCancelled(w)
  <2> DEFINE f == [c EXCEPT !.pc = "release", !.stay = orders[o].stay]
  <2>1. o \in Placed /\ orders[o].payment = "captured"
    BY <1>0, <1>13, <1>p DEF MarkCancelled, At, OrderPCs, SoloFrameOK
  <2>2. f.pc = "release"
    BY <1>0 DEF Frame
  <2>3. call' = [call EXCEPT ![w] = f] /\ UpdateOrder(o, "cancelled", "captured")
    BY <1>13, <2>1 DEF MarkCancelled, IInv, TypeOK
  <2> HIDE DEF f
  <2>4. PaymentOf("cancelled") = "captured"
    BY DEF PaymentOf
  <2> QED
    BY <2>1, <2>2, <2>3, <2>4, SoloUpdateStep
<1>14. CASE ReleaseInventory(w)
  BY <1>14, <1>i, SoloFrameStep DEF ReleaseInventory, Return
<1> QED
  BY <1>1, <1>2, <1>3, <1>4, <1>5, <1>6, <1>7, <1>8, <1>9, <1>10, <1>11, <1>12, <1>13,
     <1>14 DEF Step

LEMMA SoloFaultStep ==
    ASSUME IInv, SoloInv, NEW w \in Workers, Fail(w) \/ Crash(w)
    PROVE  SoloInv'
<1>0. orders' = orders
  BY DEF Fail, Crash
<1>1. CASE Return(w)
  <2>1. SoloFrameOK(Idle, orders)
    BY DEF Idle, SoloFrameOK, OrderPCs
  <2> QED
    BY <1>0, <1>1, <2>1, SoloFrameStep DEF Return
<1>2. CASE InTry(call[w]) /\ Continue(w, "revert")
  <2> DEFINE f == [call[w] EXCEPT !.pc = "revert"]
  <2>1. orders[call[w].order].payment = "captured"
    BY <1>2 DEF InTry, SoloInv, SoloFrameOK, OrderPCs
  <2>2. f.pc = "revert" /\ f.order = call[w].order /\ call' = [call EXCEPT ![w] = f]
    BY <1>2, ContinueFrame DEF PCs
  <2> HIDE DEF f
  <2>3. SoloFrameOK(f, orders)
    BY <2>1, <2>2 DEF SoloFrameOK
  <2> QED
    BY <1>0, <2>2, <2>3, SoloFrameStep
<1> QED
  BY <1>1, <1>2 DEF Fail, Crash

(* What a frame relies on holds as long as calls are apart.                *)
LEMMA ApartStep == IInv /\ SoloInv /\ CallsApart /\ [Next]_vars => SoloInv'
<1> SUFFICES ASSUME IInv, SoloInv, CallsApart, [Next]_vars PROVE SoloInv'
  OBVIOUS
<1>1. ASSUME NEW w \in Workers, Request(w) PROVE SoloInv'
  BY <1>1, SoloRequestStep
<1>2. ASSUME NEW w \in Workers, Step(w) PROVE SoloInv'
  BY <1>2, SoloCallStep
<1>3. ASSUME NEW w \in Workers, Fail(w) \/ Crash(w) PROVE SoloInv'
  BY <1>3, SoloFaultStep
<1>4. CASE (\E q \in Quotes : ExpireQuote(q)) \/ NextDay \/ UNCHANGED vars
  <2>1. orders' = orders /\ call' = call
    BY <1>4 DEF ExpireQuote, NextDay, vars
  <2> QED
    BY <2>1 DEF SoloInv, StatusPaymentAgree, Placed
<1> QED
  BY <1>1, <1>2, <1>3, <1>4 DEF Next

LEMMA InitSolo == Init => SoloInv
<1> SUFFICES ASSUME Init PROVE SoloInv
  OBVIOUS
<1>1. Placed = {}
  BY DEF Init, Placed
<1> QED
  BY <1>1 DEF Init, Idle, SoloInv, StatusPaymentAgree, SoloFrameOK, OrderPCs

(* However many workers there are, payment and status of an order part     *)
(* only after two calls worked on it at the same time (the awaits of       *)
(* service.py between a read of the order and its update).                 *)
THEOREM ApartCallsAgree == Spec => ApartPaymentsAgree
<1>1. SoloInv => StatusPaymentAgree
  BY DEF SoloInv
<1> QED
  BY <1>1, ApartStep, InitSolo, Invariance, PTL DEF Spec, ApartPaymentsAgree

Solo == \A v, w \in Workers : v = w

(* A single worker has no other call.                                      *)
LEMMA SoloInvariance ==
    ASSUME Solo
    PROVE  Spec => []SoloInv
<1>1. CallsApart
  BY DEF Solo, CallsApart
<1>2. IInv /\ SoloInv /\ [Next]_vars => SoloInv'
  BY <1>1, ApartStep
<1> QED
  BY <1>2, InitSolo, Invariance, PTL DEF Spec

(* With one worker the payment of every order agrees with its status, also *)
(* after failures and crashes half-way through a call.                     *)
THEOREM SoloPaymentsAgree ==
    ASSUME Solo
    PROVE  Spec => []StatusPaymentAgree
<1>1. SoloInv => StatusPaymentAgree
  BY DEF SoloInv
<1> QED
  BY <1>1, SoloInvariance, PTL

=============================================================================
