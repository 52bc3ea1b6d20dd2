------------------------- MODULE HotelInventoryProofs -------------------------
(* What one worker does to rooms and money: proofs about HotelSandbox on   *)
(* top of HotelSandboxProofs, for any orders, rooms, stays and failures.   *)
EXTENDS HotelSandboxProofs, FiniteSetTheorems

tables == <<quotes, orders, avail, refunds, today, faults>>

(* Steps at which a call is about to write an order.                       *)
WritePCs == OrderPCs \ {"release"}

RoomsKept == \A q \in Quoted : q \in Quoted' /\ quotes'[q].room = quotes[q].room

-----------------------------------------------------------------------------
(* What the service's calls do, as far as the properties below go.         *)

(* A request opens a frame and does no more.                               *)
Opens(w) ==
    LET f == call'[w]
    IN  /\ call[w].pc = "idle" /\ UNCHANGED tables
        /\ call' = [call EXCEPT ![w] = f]
        /\ \/ f.pc \in {"save_quote", "create_order"}
           \/ /\ f.pc = "mark_pending" /\ f.order \in Placed
              /\ orders[f.order].status = "confirmed"
           \/ /\ f.pc = "refund_row" /\ f.order \in Placed
              /\ orders[f.order].payment = "captured"
              /\ 0 < f.amount /\ f.amount <= orders[f.order].total

(* A step that leaves orders, nights and refunds alone.                    *)
Goes(w) ==
    LET c == call[w]
        f == call'[w]
    IN  /\ UNCHANGED <<orders, avail, refunds>>
        /\ call' = [call EXCEPT ![w] = f]
        /\ \/ c.pc \in {"save_quote", "create_order"} /\ f.pc = "idle"
           \/ /\ c.pc = "create_order" /\ f.pc = "settle"
              /\ f.order \in Placed /\ orders[f.order].status = "payment_pending"
           \/ c.pc = "move_dates" /\ f.pc = "revert" /\ f.order = c.order

(* A step that writes the status and the payment of the call's order.      *)
Writes(w, row) ==
    LET c == call[w]
        f == call'[w]
        o == call[w].order
    IN  /\ c.pc \in WritePCs /\ o \in Placed /\ row \in OrderRow
        /\ orders' = [orders EXCEPT ![o] = row]
        /\ row.quote = orders[o].quote /\ row.stay = orders[o].stay
        /\ row.total = orders[o].total
        /\ row.payment = "refunded" <=> c.pc = "mark_refunded"
        /\ row.status = "cancelled" <=> c.pc = "mark_cancelled"
        /\ call' = [call EXCEPT ![w] = f]
        /\ UNCHANGED <<avail, refunds>>
        /\ \/ f.pc = "idle" /\ row.status = "confirmed"
           \/ /\ f.pc = "release" /\ f.order = o /\ f.stay = row.stay
              /\ row.status \in Final
           \/ /\ f.pc \in {"move_dates", "refund_row", "mark_cancelled"} /\ f.order = o
              /\ row.status \in Live
        /\ f.pc = "refund_row" => f.amount <= row.total
        /\ f.pc = "mark_cancelled" =>
             c.pc = "mark_pending" /\ CancelRefund(row.total, c.stay) <= 0

(* create_order adds an order of a quoted room and takes its nights.       *)
Places(w, o, row) ==
    LET f == call'[w]
        r == quotes[row.quote].room
    IN  /\ call[w].pc = "create_order"
        /\ o \in Orders \ Placed /\ row \in OrderRow
        /\ orders' = [orders EXCEPT ![o] = row]
        /\ row.status = "payment_pending" /\ row.payment = "pending"
        /\ row.quote \in Quoted /\ r \in Rooms /\ avail' = Hold(avail, r, row.stay)
        /\ call' = [call EXCEPT ![w] = f]
        /\ f.pc = "settle" /\ f.order = o
        /\ UNCHANGED refunds

(* change_order_dates writes the new dates and swaps the nights.           *)
Moves(w, row) ==
    LET f == call'[w]
        o == call[w].order
    IN  /\ call[w].pc = "move_dates" /\ o \in Placed /\ row \in OrderRow
        /\ orders' = [orders EXCEPT ![o] = row]
        /\ row.quote = orders[o].quote /\ row.total = orders[o].total
        /\ row.payment = orders[o].payment /\ row.status = "confirmed"
        /\ avail' = MoveNights(o, row.stay)
        /\ call' = [call EXCEPT ![w] = f] /\ f.pc = "idle"
        /\ UNCHANGED refunds

(* record_refund.                                                          *)
Refunds(w) ==
    LET f == call'[w]
        o == call[w].order
    IN  /\ call[w].pc = "refund_row" /\ o \in Placed
        /\ refunds' = RefundRow(o, call[w].amount)
        /\ call' = [call EXCEPT ![w] = f]
        /\ f.pc = "mark_refunded" /\ f.order = o
        /\ UNCHANGED <<orders, avail>>

(* release_inventory.                                                      *)
Releases(w) ==
    LET f == call'[w]
        o == call[w].order
    IN  /\ call[w].pc = "release" /\ o \in Placed
        /\ avail' = Free(avail, RoomOf(o), call[w].stay)
        /\ call' = [call EXCEPT ![w] = f] /\ f.pc = "idle"
        /\ UNCHANGED <<orders, refunds>>

(* Integer division, as the cancellation fee uses it.                      *)
LEMMA FeeIsNatural ==
    ASSUME NEW n \in Nat, NEW k \in Nat \ {0}
    PROVE  n \div k \in Nat
  OBVIOUS

LEMMA OnlyNothingIsAllFee ==
    ASSUME NEW n \in Nat, NEW k \in Nat, k >= 2, n - (n \div k) <= 0
    PROVE  n = 0
<1> DEFINE q == n \div k
<1>1. q \in Int /\ k * q <= n /\ n <= q
  OBVIOUS
<1> HIDE DEF q
<1>2. \A a, b \in Nat : a >= 2 => a * b >= 2 * b
  OBVIOUS
<1>3. k * q >= 2 * q
  BY <1>1, <1>2
<1> QED
  BY <1>1, <1>3

(* A cancellation never refunds more than was paid.                        *)
LEMMA CancelRefundWithin ==
    ASSUME NEW n \in Nat, NEW s \in Stays, s.in < s.out
    PROVE  CancelRefund(n, s) \in Int /\ CancelRefund(n, s) <= n
<1>1. s.out - s.in \in Nat \ {0}
  BY StaysAssumption DEF Stay
<1>2. n \div (s.out - s.in) \in Nat
  BY <1>1, FeeIsNatural
<1> QED
  BY <1>2 DEF CancelRefund

-----------------------------------------------------------------------------

LEMMA RequestOpens ==
    ASSUME IInv, NEW w \in Workers, Request(w)
    PROVE  Opens(w)
<1> USE IdleFrame DEF Frame, Begin
<1>1. ASSUME NEW t \in Tasks, NEW r \in Rooms, NEW s \in Stays, BeginQuote(w, t, r, s)
      PROVE  Opens(w)
  <2> DEFINE f == [Idle EXCEPT !.op = "quote", !.pc = "save_quote", !.task = t,
                               !.room = r, !.stay = s]
  <2>1. f.pc = "save_quote" /\ call' = [call EXCEPT ![w] = f] /\ call[w].pc = "idle"
        /\ UNCHANGED tables
    BY <1>1 DEF BeginQuote, At, tables
  <2> HIDE DEF f
  <2>2. call'[w] = f
    BY <2>1 DEF IInv, TypeOK
  <2> QED
    BY <2>1, <2>2 DEF Opens
<1>2. ASSUME NEW t \in Tasks, NEW q \in Quotes, NEW m \in PaymentModes,
             BeginConfirm(w, t, q, m)
      PROVE  Opens(w)
  <2> DEFINE f == [Idle EXCEPT !.op = "confirm", !.pc = "create_order", !.task = t,
                               !.quote = q, !.mode = m]
  <2>1. f.pc = "create_order" /\ call' = [call EXCEPT ![w] = f] /\ call[w].pc = "idle"
        /\ UNCHANGED tables
    BY <1>2 DEF BeginConfirm, At, tables
  <2> HIDE DEF f
  <2>2. call'[w] = f
    BY <2>1 DEF IInv, TypeOK
  <2> QED
    BY <2>1, <2>2 DEF Opens
<1>3. ASSUME NEW t \in Tasks, NEW o \in Orders, NEW s \in Stays, BeginChange(w, t, o, s)
      PROVE  Opens(w)
  <2> DEFINE f == [Idle EXCEPT !.op = "change", !.pc = "mark_pending", !.order = o,
                               !.stay = s]
  <2>1. /\ f.pc = "mark_pending" /\ f.order = o
        /\ call' = [call EXCEPT ![w] = f] /\ call[w].pc = "idle" /\ UNCHANGED tables
        /\ o \in Placed /\ orders[o].status = "confirmed"
    BY <1>3 DEF BeginChange, At, tables, Owned, Changeable
  <2> HIDE DEF f
  <2>2. call'[w] = f
    BY <2>1 DEF IInv, TypeOK
  <2> QED
    BY <2>1, <2>2 DEF Opens
<1>4. ASSUME NEW t \in Tasks, NEW o \in Orders, BeginCancel(w, t, o)
      PROVE  Opens(w)
  <2> DEFINE f == [Idle EXCEPT !.op = "cancel", !.pc = "mark_pending", !.order = o,
                               !.stay = orders[o].stay]
  <2>1. /\ f.pc = "mark_pending" /\ f.order = o
        /\ call' = [call EXCEPT ![w] = f] /\ call[w].pc = "idle" /\ UNCHANGED tables
        /\ o \in Placed /\ orders[o].status = "confirmed"
    BY <1>4 DEF BeginCancel, At, tables, Owned, Cancellable
  <2> HIDE DEF f
  <2>2. call'[w] = f
    BY <2>1 DEF IInv, TypeOK
  <2> QED
    BY <2>1, <2>2 DEF Opens
<1>5. ASSUME NEW t \in Tasks, NEW o \in Orders, NEW n \in RefundAmounts,
             BeginRefund(w, t, o, n)
      PROVE  Opens(w)
  <2> DEFINE f == [Idle EXCEPT !.op = "refund", !.pc = "refund_row", !.order = o,
                               !.amount = n]
  <2>1. /\ f.pc = "refund_row" /\ f.order = o /\ f.amount = n
        /\ call' = [call EXCEPT ![w] = f] /\ call[w].pc = "idle" /\ UNCHANGED tables
        /\ o \in Placed /\ orders[o].payment = "captured"
        /\ 0 < n /\ n <= orders[o].total
    BY <1>5 DEF BeginRefund, At, tables, Owned, Refundable
  <2> HIDE DEF f
  <2>2. call'[w] = f
    BY <2>1 DEF IInv, TypeOK
  <2> QED
    BY <2>1, <2>2 DEF Opens
<1> QED
  BY <1>1, <1>2, <1>3, <1>4, <1>5 DEF Request

(* update_order writes a row that keeps all but the status and payment.    *)
LEMMA Updated ==
    ASSUME IInv, NEW o \in Placed, NEW st \in OrderStatus, NEW pay \in PaymentStatus,
           UpdateOrder(o, st, pay)
    PROVE  \E row \in OrderRow :
                    /\ orders' = [orders EXCEPT ![o] = row]
                    /\ row.status = st /\ row.payment = pay
                    /\ row.quote = orders[o].quote /\ row.stay = orders[o].stay
                    /\ row.total = orders[o].total
<1> DEFINE row == [orders[o] EXCEPT !.status = st, !.payment = pay]
<1>1. orders[o] \in OrderRow /\ o \in Orders
  BY DEF IInv, TypeOK, Placed
<1>2. /\ row \in OrderRow /\ row.status = st /\ row.payment = pay
      /\ row.quote = orders[o].quote /\ row.stay = orders[o].stay
      /\ row.total = orders[o].total
  BY <1>1 DEF OrderRow
<1>3. orders' = [orders EXCEPT ![o] = row]
  BY <1>1 DEF UpdateOrder, IInv, TypeOK
<1> HIDE DEF row
<1> QED
  BY <1>2, <1>3

(* The same as a step of a call in progress.                               *)
LEMMA WriteKind ==
    ASSUME IInv, NEW w \in Workers, NEW o, NEW f,
           NEW st \in OrderStatus, NEW pay \in PaymentStatus,
           o = call[w].order, call[w].pc \in WritePCs, UpdateOrder(o, st, pay),
           call' = [call EXCEPT ![w] = f], UNCHANGED <<avail, refunds>>,
           pay = "refunded" <=> call[w].pc = "mark_refunded",
           st = "cancelled" <=> call[w].pc = "mark_cancelled",
           \/ f.pc = "idle" /\ st = "confirmed"
           \/ f.pc = "release" /\ f.order = o /\ f.stay = orders[o].stay /\ st \in Final
           \/ f.pc \in {"move_dates", "refund_row", "mark_cancelled"} /\ f.order = o /\ st \in Live,
           f.pc = "refund_row" => f.amount <= orders[o].total,
           f.pc = "mark_cancelled" => /\ call[w].pc = "mark_pending"
                                      /\ CancelRefund(orders[o].total, call[w].stay) <= 0
    PROVE  \E row : Writes(w, row)
<1>1. o \in Placed
  BY DEF WritePCs, IInv, FramesOK, FrameOK, Placed
<1>2. PICK row \in OrderRow :
         /\ orders' = [orders EXCEPT ![o] = row]
         /\ row.status = st /\ row.payment = pay
         /\ row.quote = orders[o].quote /\ row.stay = orders[o].stay
         /\ row.total = orders[o].total
  BY <1>1, Updated
<1>3. call'[w] = f
  BY DEF IInv, TypeOK
<1> QED
  BY <1>1, <1>2, <1>3 DEF Writes

Kind(w) ==
    \/ Goes(w)
    \/ \E o, row : Places(w, o, row)
    \/ \E row : Writes(w, row)
    \/ \E row : Moves(w, row)
    \/ Refunds(w)
    \/ Releases(w)

(* Every step of a call is one of six kinds.                               *)
LEMMA StepKind ==
    ASSUME Solo, IInv, SoloInv, NEW w \in Workers, Step(w)
    PROVE  Kind(w) /\ faults' = faults
<1> DEFINE c == call[w]
           o == c.order
<1>0. c \in Frame /\ FrameOK(c, quotes, orders, refunds) /\ SoloFrameOK(c, orders)
  BY DEF IInv, TypeOK, FramesOK, SoloInv
<1>p. c.pc \in OrderPCs => o \in Placed /\ orders[o] \in OrderRow /\ orders[o].total \in Nat
  BY <1>0 DEF FrameOK, Placed, IInv, TypeOK, OrderRow
<1>i. Idle.pc = "idle"
  BY DEF Idle
<1>s. /\ {"confirmed", "payment_failed", "change_pending", "cancel_pending", "refunded",
          "cancelled"} \subseteq OrderStatus
      /\ {"captured", "declined", "refunded"} \subseteq PaymentStatus
  BY DEF OrderStatus, PaymentStatus
<1>l. /\ {"confirmed", "change_pending", "cancel_pending"} \subseteq Live
      /\ {"settle", "mark_pending"} \subseteq WritePCs
  BY DEF Live, WritePCs, OrderPCs
<1>f. faults' = faults
  BY DEF Step, SaveQuote, ReplayOrder, PlaceOrder, SoldOut, Decline, Capture, MarkPending,
         MoveDates, MoveSoldOut, Revert, RecordRefund, MarkRefunded, MarkCancelled,
         ReleaseInventory
<1>g. ASSUME Return(w), c.pc \in {"save_quote", "create_order"},
             UNCHANGED <<orders, avail, refunds>>
      PROVE  Goes(w)
  <2>1. call' = [call EXCEPT ![w] = Idle] /\ call'[w] = Idle
    BY <1>g DEF Return, IInv, TypeOK
  <2> QED
    BY <1>g, <1>i, <2>1 DEF Goes
<1>1. CASE SaveQuote(w)
  BY <1>f, <1>1, <1>g DEF SaveQuote, At, Kind
<1>2. CASE ReplayOrder(w)
  <2>1. PICK p \in OrdersWithKey(c.task, c.quote) :
          IF orders[p].status = "payment_pending"
          THEN call' = [call EXCEPT ![w].pc = "settle", ![w].order = p]
          ELSE Return(w)
    BY <1>2 DEF ReplayOrder
  <2>2. CASE Return(w)
    BY <1>f, <1>2, <2>2, <1>g DEF ReplayOrder, At, Kind
  <2>3. CASE /\ orders[p].status = "payment_pending"
             /\ call' = [call EXCEPT ![w].pc = "settle", ![w].order = p]
    <3> DEFINE f == [c EXCEPT !.pc = "settle", !.order = p]
    <3>1. f.pc = "settle" /\ f.order = p
      BY <1>0 DEF Frame
    <3>2. call' = [call EXCEPT ![w] = f]
      BY <2>3 DEF IInv, TypeOK
    <3> HIDE DEF f
    <3>3. call'[w] = f /\ p \in Placed
      BY <3>2 DEF IInv, TypeOK, OrdersWithKey
    <3>4. Goes(w)
      BY <1>2, <2>3, <3>1, <3>2, <3>3 DEF ReplayOrder, At, Goes
    <3> QED
      BY <1>f, <3>4 DEF Kind
  <2> QED
    BY <1>f, <2>1, <2>2, <2>3
<1>3. CASE PlaceOrder(w)
  <2> DEFINE q == c.quote
             row == NewOrder(c.task, q)
  <2>1. c.task \in Tasks /\ q \in Quoted /\ quotes[q] \in QuoteRow /\ c.pc = "create_order"
    BY <1>0, <1>3 DEF PlaceOrder, At, FrameOK, Quoted, IInv, TypeOK
  <2>2. PICK p \in Orders \ Placed :
          /\ orders' = [orders EXCEPT ![p] = row]
          /\ call' = [call EXCEPT ![w].pc = "settle", ![w].order = p]
    BY <1>3 DEF PlaceOrder
  <2>3. /\ row \in OrderRow /\ row.status = "payment_pending" /\ row.payment = "pending"
        /\ row.quote = q /\ row.stay = quotes[q].stay
    BY <2>1 DEF NewOrder, OrderRow, QuoteRow, OrderStatus, PaymentStatus, Quoted
  <2>4. /\ avail' = Hold(avail, quotes[q].room, quotes[q].stay)
        /\ quotes[q].room \in Rooms /\ UNCHANGED refunds
    BY <1>3, <2>1 DEF PlaceOrder, QuoteRow
  <2> DEFINE f == [c EXCEPT !.pc = "settle", !.order = p]
  <2>5. f.pc = "settle" /\ f.order = p
    BY <1>0 DEF Frame
  <2>6. call' = [call EXCEPT ![w] = f]
    BY <2>2 DEF IInv, TypeOK
  <2> HIDE DEF f, row
  <2>7. call'[w] = f
    BY <2>6 DEF IInv, TypeOK
  <2>8. Places(w, p, row)
    BY <2>1, <2>2, <2>3, <2>4, <2>5, <2>6, <2>7 DEF Places
  <2> QED
    BY <1>f, <2>8 DEF Kind
<1>4. CASE SoldOut(w)
  BY <1>f, <1>4, <1>g DEF SoldOut, At, Kind
<1>5. CASE Decline(w)
  <2> DEFINE f == [c EXCEPT !.pc = "release", !.stay = orders[o].stay]
  <2>1. f.pc = "release" /\ f.order = o /\ f.stay = orders[o].stay
    BY <1>0 DEF Frame
  <2>2. /\ call' = [call EXCEPT ![w] = f] /\ c.pc = "settle"
        /\ UpdateOrder(o, "payment_failed", "declined") /\ UNCHANGED <<avail, refunds>>
    BY <1>5 DEF Decline, IInv, TypeOK, At
  <2> HIDE DEF f
  <2>3. \E row : Writes(w, row)
    BY <1>s, <2>1, <2>2, WriteKind DEF WritePCs, OrderPCs, Final
  <2> QED
    BY <1>f, <2>3 DEF Kind
<1>6. CASE Capture(w)
  <2>1. c.pc = "settle" /\ UpdateOrder(o, "confirmed", "captured") /\ UNCHANGED <<avail, refunds>>
    BY <1>6 DEF Capture, At
  <2>2. CASE Return(w)
    <3>1. \E row : Writes(w, row)
      BY <1>s, <1>i, <2>1, <2>2, WriteKind DEF WritePCs, OrderPCs, Return
    <3> QED
      BY <1>f, <3>1 DEF Kind
  <2>3. CASE call' = [call EXCEPT ![w].pc = "refund_row", ![w].amount = orders[o].total]
    <3> DEFINE f == [c EXCEPT !.pc = "refund_row", !.amount = orders[o].total]
    <3>1. f.pc = "refund_row" /\ f.order = o /\ f.amount = orders[o].total
      BY <1>0 DEF Frame
    <3>2. call' = [call EXCEPT ![w] = f]
      BY <2>3 DEF IInv, TypeOK
    <3>3. orders[o].total \in Nat
      BY <1>p, <2>1 DEF OrderPCs
    <3> HIDE DEF f
    <3>4. \E row : Writes(w, row)
      <4>1. /\ o = call[w].order /\ c.pc \in WritePCs /\ "confirmed" \in Live
            /\ c.pc # "mark_refunded" /\ c.pc # "mark_cancelled"
        BY <1>l, <2>1
      <4>2. /\ f.pc \in {"move_dates", "refund_row", "mark_cancelled"} /\ f.order = o
            /\ f.pc # "mark_cancelled" /\ f.amount <= orders[o].total
        BY <3>1, <3>3
      <4> QED
        BY <1>s, <2>1, <3>2, <4>1, <4>2, WriteKind
    <3> QED
      BY <1>f, <3>4 DEF Kind
  <2> QED
    BY <1>6, <1>f, <2>2, <2>3 DEF Capture
<1>7. CASE MarkPending(w)
  <2>1. /\ c.pc = "mark_pending" /\ o \in Placed /\ UNCHANGED <<avail, refunds>>
        /\ orders[o].payment = "captured"
    BY <1>0, <1>7, <1>p DEF MarkPending, At, OrderPCs, SoloFrameOK
  <2>2. CASE /\ UpdateOrder(o, "change_pending", orders[o].payment)
             /\ Continue(w, "move_dates")
    <3> DEFINE f == [c EXCEPT !.pc = "move_dates"]
    <3>1. f.pc = "move_dates" /\ f.order = o /\ call' = [call EXCEPT ![w] = f]
      BY <2>2, ContinueFrame DEF PCs
    <3> HIDE DEF f
    <3>2. \E row : Writes(w, row)
      <4>1. /\ o = call[w].order /\ c.pc \in WritePCs /\ "change_pending" \in Live
            /\ c.pc # "mark_refunded" /\ c.pc # "mark_cancelled"
        BY <1>l, <2>1
      <4>2. /\ f.pc \in {"move_dates", "refund_row", "mark_cancelled"} /\ f.order = o
            /\ f.pc # "refund_row" /\ f.pc # "mark_cancelled"
        BY <3>1
      <4>3. UpdateOrder(o, "change_pending", "captured")
        BY <2>1, <2>2
      <4> QED
        BY <1>s, <2>1, <3>1, <4>1, <4>2, <4>3, WriteKind
    <3> QED
      BY <1>f, <3>2 DEF Kind
  <2>3. ASSUME NEW n, n = CancelRefund(orders[o].total, c.stay),
               UpdateOrder(o, "cancel_pending", orders[o].payment),
               call' = [call EXCEPT
                  ![w].pc = IF n > 0 THEN "refund_row" ELSE "mark_cancelled",
                  ![w].amount = n]
        PROVE  Kind(w) /\ faults' = faults
    <3> DEFINE pc == IF n > 0 THEN "refund_row" ELSE "mark_cancelled"
               f == [c EXCEPT !.pc = pc, !.amount = n]
    <3>0. c.stay \in Stays /\ c.stay.in < c.stay.out /\ orders[o].total \in Nat
      BY <1>0, <1>p, <2>1 DEF FrameOK, OrderPCs
    <3>1. n \in Int /\ n <= orders[o].total
      BY <2>3, <3>0, CancelRefundWithin
    <3>2. pc \in {"refund_row", "mark_cancelled"} /\ (pc = "mark_cancelled" => n <= 0)
      BY <3>1
    <3>3. f.pc = pc /\ f.order = o /\ f.amount = n /\ call' = [call EXCEPT ![w] = f]
      BY <1>0, <2>3 DEF Frame, IInv, TypeOK
    <3> HIDE DEF f, pc
    <3>4. \E row : Writes(w, row)
      <4>1. /\ o = call[w].order /\ c.pc \in WritePCs /\ "cancel_pending" \in Live
            /\ c.pc # "mark_refunded" /\ c.pc # "mark_cancelled"
        BY <1>l, <2>1
      <4>2. /\ f.pc \in {"move_dates", "refund_row", "mark_cancelled"} /\ f.order = o
            /\ f.pc = "refund_row" => f.amount <= orders[o].total
            /\ f.pc = "mark_cancelled" =>
                 c.pc = "mark_pending" /\ CancelRefund(orders[o].total, c.stay) <= 0
        BY <2>1, <2>3, <3>1, <3>2, <3>3
      <4>3. UpdateOrder(o, "cancel_pending", "captured") /\ call' = [call EXCEPT ![w] = f]
            /\ UNCHANGED <<avail, refunds>>
        BY <2>1, <2>3, <3>3
      <4> QED
        BY <1>s, <4>1, <4>2, <4>3, WriteKind
    <3> QED
      BY <1>f, <3>4 DEF Kind
  <2> QED
    BY <1>7, <1>f, <2>2, <2>3 DEF MarkPending, Kind
<1>8. CASE MoveDates(w)
  <2> DEFINE row == [orders[o] EXCEPT !.stay = c.stay, !.status = "confirmed"]
  <2>1. /\ o \in Placed /\ orders[o] \in OrderRow /\ c.stay \in Stays
        /\ c.pc = "move_dates" /\ UNCHANGED refunds
        /\ avail' = MoveNights(o, c.stay) /\ Return(w)
    BY <1>0, <1>8, <1>p DEF MoveDates, At, OrderPCs, FrameOK
  <2>2. /\ row \in OrderRow /\ row.status = "confirmed" /\ row.stay = c.stay
        /\ row.quote = orders[o].quote /\ row.total = orders[o].total
        /\ row.payment = orders[o].payment
    BY <2>1 DEF OrderRow, OrderStatus
  <2>3. orders' = [orders EXCEPT ![o] = row]
    BY <1>8, <2>1 DEF MoveDates, IInv, TypeOK, Placed
  <2> HIDE DEF row
  <2>4. call' = [call EXCEPT ![w] = Idle] /\ call'[w] = Idle
    BY <2>1 DEF Return, IInv, TypeOK
  <2>5. Moves(w, row)
    BY <1>i, <2>1, <2>2, <2>3, <2>4 DEF Moves
  <2> QED
    BY <1>f, <2>5 DEF Kind
<1>9. CASE MoveSoldOut(w)
  <2> DEFINE f == [c EXCEPT !.pc = "revert"]
  <2>1. f.pc = "revert" /\ f.order = o /\ call' = [call EXCEPT ![w] = f]
    BY <1>9, ContinueFrame DEF MoveSoldOut, PCs
  <2> HIDE DEF f
  <2>2. call'[w] = f
    BY <2>1 DEF IInv, TypeOK
  <2>3. Goes(w)
    BY <1>9, <2>1, <2>2 DEF MoveSoldOut, At, Goes
  <2> QED
    BY <1>f, <2>3 DEF Kind
<1>10. CASE Revert(w)
  <2>1. /\ UpdateOrder(o, "confirmed", "captured") /\ UNCHANGED <<avail, refunds>>
        /\ c.pc = "revert" /\ call' = [call EXCEPT ![w] = Idle]
    BY <1>0, <1>10 DEF Revert, At, OrderPCs, SoloFrameOK, Return
  <2>2. \E row : Writes(w, row)
    BY <1>s, <1>i, <2>1, WriteKind DEF WritePCs, OrderPCs
  <2> QED
    BY <1>f, <2>2 DEF Kind
<1>11. CASE RecordRefund(w)
  <2> DEFINE f == [c EXCEPT !.pc = "mark_refunded"]
  <2>1. f.pc = "mark_refunded" /\ f.order = o /\ call' = [call EXCEPT ![w] = f]
    BY <1>11, ContinueFrame DEF RecordRefund, PCs
  <2> HIDE DEF f
  <2>2. call'[w] = f
    BY <2>1 DEF IInv, TypeOK
  <2>3. /\ c.pc = "refund_row" /\ o \in Placed /\ UNCHANGED <<orders, avail>>
        /\ refunds' = RefundRow(o, c.amount)
    BY <1>11, <1>p DEF RecordRefund, At, OrderPCs
  <2>4. Refunds(w)
    BY <2>1, <2>2, <2>3 DEF Refunds
  <2> QED
    BY <1>f, <2>4 DEF Kind
<1>12. CASE MarkRefunded(w)
  <2> DEFINE f == [c EXCEPT !.pc = "release", !.stay = orders[o].stay]
  <2>1. f.pc = "release" /\ f.order = o /\ f.stay = orders[o].stay
    BY <1>0 DEF Frame
  <2>2. /\ call' = [call EXCEPT ![w] = f] /\ c.pc = "mark_refunded"
        /\ UpdateOrder(o, "refunded", "refunded") /\ UNCHANGED <<avail, refunds>>
    BY <1>12 DEF MarkRefunded, IInv, TypeOK, At
  <2> HIDE DEF f
  <2>3. \E row : Writes(w, row)
    BY <1>s, <2>1, <2>2, WriteKind DEF WritePCs, OrderPCs, Final
  <2> QED
    BY <1>f, <2>3 DEF Kind
<1>13. CASE MarkCancelled(w)
  <2> DEFINE f == [c EXCEPT !.pc = "release", !.stay = orders[o].stay]
  <2>1. f.pc = "release" /\ f.order = o /\ f.stay = orders[o].stay
    BY <1>0 DEF Frame
  <2>2. /\ call' = [call EXCEPT ![w] = f] /\ c.pc = "mark_cancelled"
        /\ UpdateOrder(o, "cancelled", "captured") /\ UNCHANGED <<avail, refunds>>
    BY <1>0, <1>13 DEF MarkCancelled, IInv, TypeOK, At, SoloFrameOK, OrderPCs
  <2> HIDE DEF f
  <2>3. \E row : Writes(w, row)
    BY <1>s, <2>1, <2>2, WriteKind DEF WritePCs, OrderPCs, Final
  <2> QED
    BY <1>f, <2>3 DEF Kind
<1>14. CASE ReleaseInventory(w)
  <2>1. call' = [call EXCEPT ![w] = Idle] /\ call'[w] = Idle
    BY <1>14 DEF ReleaseInventory, Return, IInv, TypeOK
  <2>2. Releases(w)
    BY <1>14, <1>i, <1>p, <2>1 DEF ReleaseInventory, At, OrderPCs, Releases
  <2> QED
    BY <1>f, <2>2 DEF Kind
<1> QED
  BY <1>f, <1>1, <1>2, <1>3, <1>4, <1>5, <1>6, <1>7, <1>8, <1>9, <1>10, <1>11, <1>12, <1>13,
     <1>14 DEF Step

(* A failed or crashed call leaves the tables alone and ends, or goes to   *)
(* its except branch.                                                      *)
Breaks(w) ==
    LET f == call'[w]
    IN  /\ UNCHANGED <<quotes, orders, avail, refunds>>
        /\ call[w].pc # "idle" /\ faults' # 0
        /\ call' = [call EXCEPT ![w] = f]
        /\ \/ f.pc = "idle"
           \/ f.pc = "revert" /\ f.order = call[w].order /\ call[w].pc \in WritePCs

LEMMA FaultBreaks ==
    ASSUME IInv, NEW w \in Workers, Fail(w) \/ Crash(w)
    PROVE  Breaks(w)
<1>1. /\ UNCHANGED <<quotes, orders, avail, refunds>>
      /\ call[w].pc # "idle" /\ faults' # 0
  BY DEF Fail, Crash, At, IInv, TypeOK
<1>2. CASE Return(w)
  <2>1. call' = [call EXCEPT ![w] = Idle] /\ call'[w] = Idle /\ Idle.pc = "idle"
    BY <1>2 DEF Return, IInv, TypeOK, Idle
  <2> QED
    BY <1>1, <2>1 DEF Breaks
<1>3. CASE InTry(call[w]) /\ Continue(w, "revert")
  <2> DEFINE f == [call[w] EXCEPT !.pc = "revert"]
  <2>1. f.pc = "revert" /\ f.order = call[w].order /\ call' = [call EXCEPT ![w] = f]
    BY <1>3, ContinueFrame DEF PCs
  <2> HIDE DEF f
  <2>2. call'[w] = f /\ call[w].pc \in WritePCs
    BY <1>3, <2>1 DEF IInv, TypeOK, InTry, WritePCs, OrderPCs
  <2> QED
    BY <1>1, <2>1, <2>2 DEF Breaks
<1> QED
  BY <1>2, <1>3 DEF Fail, Crash

(* A quote never changes its room.                                         *)
LEMMA QuotesKeepRooms ==
    ASSUME IInv, [Next]_vars
    PROVE  RoomsKept
<1>0. quotes \in [Quotes -> QuoteRow \cup {None}]
  BY DEF IInv, TypeOK
<1>1. ASSUME NEW w \in Workers, SaveQuote(w) PROVE RoomsKept
  <2>1. PICK q \in Quotes \ Quoted : \E x : quotes' = [quotes EXCEPT ![q] = x]
    BY <1>1 DEF SaveQuote
  <2> QED
    BY <1>0, <2>1 DEF RoomsKept, Quoted
<1>2. ASSUME NEW w \in Workers, PlaceOrder(w) PROVE RoomsKept
  <2> DEFINE q == call[w].quote
  <2>1. q \in Quotes /\ quotes[q] \in QuoteRow
    BY <1>0, <1>2 DEF PlaceOrder, At, IInv, FramesOK, FrameOK
  <2>2. quotes' = [quotes EXCEPT ![q].accepted = TRUE]
    BY <1>2 DEF PlaceOrder
  <2>3. quotes'[q] # None /\ quotes'[q].room = quotes[q].room
    BY <1>0, <2>1, <2>2, NoneAssumption DEF QuoteRow
  <2> QED
    BY <1>0, <2>2, <2>3 DEF RoomsKept, Quoted
<1>3. ASSUME NEW q \in Quotes, ExpireQuote(q) PROVE RoomsKept
  <2>1. quotes[q] \in QuoteRow /\ quotes' = [quotes EXCEPT ![q].expired = TRUE]
    BY <1>0, <1>3 DEF ExpireQuote, Quoted
  <2>2. quotes'[q] # None /\ quotes'[q].room = quotes[q].room
    BY <1>0, <2>1, NoneAssumption DEF QuoteRow
  <2> QED
    BY <1>0, <2>1, <2>2 DEF RoomsKept, Quoted
<1>4. ASSUME quotes' = quotes PROVE RoomsKept
  BY <1>4 DEF RoomsKept, Quoted
<1>5. ASSUME NEW w \in Workers, Request(w) \/ Step(w) \/ Fail(w) \/ Crash(w)
      PROVE  quotes' = quotes \/ SaveQuote(w) \/ PlaceOrder(w)
  <2>1. CASE Request(w)
    BY <2>1 DEF Request, BeginQuote, BeginConfirm, BeginChange, BeginCancel, BeginRefund
  <2>2. CASE Step(w)
    BY <2>2 DEF Step, ReplayOrder, SoldOut, Decline, Capture, MarkPending,
         MoveDates, MoveSoldOut, Revert, RecordRefund, MarkRefunded, MarkCancelled,
         ReleaseInventory
  <2> QED
    BY <1>5, <2>1, <2>2 DEF Fail, Crash
<1> QED
  BY <1>1, <1>2, <1>3, <1>4, <1>5 DEF Next, NextDay, vars

(* Next in these terms: only the clock moves besides.                      *)
LEMMA NextKinds ==
    ASSUME Solo, IInv, SoloInv, [Next]_vars
    PROVE  \/ \E w \in Workers : Opens(w) \/ (Kind(w) /\ faults' = faults) \/ Breaks(w)
           \/ UNCHANGED <<orders, avail, refunds, call, faults>>
<1>1. ASSUME NEW w \in Workers, Request(w) PROVE Opens(w)
  BY <1>1, RequestOpens
<1>2. ASSUME NEW w \in Workers, Step(w) PROVE Kind(w) /\ faults' = faults
  BY <1>2, StepKind
<1>3. ASSUME NEW w \in Workers, Fail(w) \/ Crash(w) PROVE Breaks(w)
  BY <1>3, FaultBreaks
<1> QED
  BY <1>1, <1>2, <1>3 DEF Next, NextDay, ExpireQuote, vars

-----------------------------------------------------------------------------
(* Orders that are closed stay closed.                                     *)

(* One worker can still reopen a closed order: a late cancellation of one  *)
(* night refunds nothing, leaves the payment captured, and the order can   *)
(* be refunded (and its night released) afterwards.  The results below     *)
(* show that nothing else does harm.                                       *)
RefundOfCancelled ==
    \E w \in Workers : /\ call[w].pc = "idle" /\ call'[w].pc = "refund_row"
                       /\ orders[call'[w].order].status = "cancelled"

(* A call only writes an order that is still live.                         *)
LiveInv == \A w \in Workers : call[w].pc \in WritePCs => orders[call[w].order].status \in Live

LEMMA LiveStep ==
    ASSUME Solo, IInv, SoloInv, LiveInv, [Next]_vars, [~RefundOfCancelled]_vars
    PROVE  LiveInv'
<1>0. /\ orders \in [Orders -> OrderRow \cup {None}] /\ call \in [Workers -> Frame]
      /\ Placed \subseteq Orders
  BY DEF IInv, TypeOK, Placed
<1>w. {"settle", "move_dates", "refund_row", "mark_refunded", "mark_cancelled", "revert"}
        \subseteq WritePCs /\ {"idle", "release", "save_quote", "create_order"} \cap WritePCs = {}
  BY DEF WritePCs, OrderPCs
<1>l. {"payment_pending", "confirmed"} \subseteq Live
  BY DEF Live
<1>1. CASE UNCHANGED <<orders, call>>
  BY <1>1 DEF LiveInv
<1>2. ASSUME NEW w \in Workers, Opens(w), ~RefundOfCancelled PROVE LiveInv'
  <2> DEFINE f == call'[w]
             p == f.order
  <2>1. orders' = orders /\ call[w].pc = "idle"
    BY <1>2 DEF Opens, tables
  <2>2. CASE f.pc = "refund_row"
    <3>1. p \in Placed /\ orders[p].payment = "captured"
      BY <1>2, <2>2 DEF Opens
    <3>2. orders[p].status # "cancelled"
      BY <1>2, <2>1, <2>2 DEF RefundOfCancelled
    <3>3. orders[p].status \in OrderStatus /\ PaymentOf(orders[p].status) = "captured"
      BY <1>0, <3>1, NoneAssumption DEF SoloInv, StatusPaymentAgree, OrderRow, Placed
    <3>4. orders[p].status \in Live
      BY <3>2, <3>3 DEF PaymentOf, OrderStatus, Live
    <3> QED
      BY <2>1, <3>4 DEF LiveInv, Solo
  <2>3. CASE f.pc # "refund_row"
    <3>1. f.pc \notin WritePCs \/ orders[p].status \in Live
      BY <1>2, <1>w, <1>l, <2>3 DEF Opens
    <3> QED
      BY <2>1, <3>1 DEF LiveInv, Solo
  <2> QED
    BY <2>2, <2>3
<1>3. ASSUME NEW w \in Workers, Goes(w) PROVE LiveInv'
  BY <1>3, <1>w, <1>l DEF Goes, LiveInv, Solo
<1>4. ASSUME NEW w \in Workers, NEW o, NEW row, Places(w, o, row) PROVE LiveInv'
  <2>1. orders'[o] = row
    BY <1>0, <1>4 DEF Places
  <2> QED
    BY <1>4, <1>l, <2>1 DEF Places, LiveInv, Solo
<1>5. ASSUME NEW w \in Workers, NEW row, Writes(w, row) PROVE LiveInv'
  <2>1. orders'[call[w].order] = row
    BY <1>0, <1>5 DEF Writes
  <2>2. call'[w].pc \notin WritePCs \/ (call'[w].order = call[w].order /\ row.status \in Live)
    BY <1>5, <1>w DEF Writes
  <2> QED
    BY <2>1, <2>2 DEF LiveInv, Solo
<1>6. ASSUME NEW w \in Workers, (\E row : Moves(w, row)) \/ Releases(w) PROVE LiveInv'
  BY <1>6, <1>w DEF Moves, Releases, LiveInv, Solo
<1>7. ASSUME NEW w \in Workers, Refunds(w) \/ Breaks(w) PROVE LiveInv'
  BY <1>7, <1>w DEF Refunds, Breaks, LiveInv, Solo
<1> QED
  BY <1>1, <1>2, <1>3, <1>4, <1>5, <1>6, <1>7, NextKinds DEF Kind, vars

(* No step of the single worker reopens a closed order.                    *)
LEMMA FinalStep ==
    ASSUME Solo, IInv, SoloInv, LiveInv, [Next]_vars, NEW o \in Placed,
           orders[o].status \in Final
    PROVE  orders'[o].status = orders[o].status
<1>0. orders \in [Orders -> OrderRow \cup {None}] /\ o \in Orders
  BY DEF IInv, TypeOK, Placed
<1>1. ASSUME NEW w \in Workers, call[w].pc \in WritePCs PROVE call[w].order # o
  BY <1>1 DEF LiveInv, Live, Final
<1>2. ASSUME NEW w \in Workers, NEW p, NEW row, Places(w, p, row)
      PROVE  orders'[o] = orders[o]
  BY <1>0, <1>2 DEF Places
<1>3. ASSUME NEW w \in Workers, NEW row, Writes(w, row) PROVE orders'[o] = orders[o]
  BY <1>0, <1>1, <1>3 DEF Writes
<1>4. ASSUME NEW w \in Workers, NEW row, Moves(w, row) PROVE orders'[o] = orders[o]
  BY <1>0, <1>1, <1>4 DEF Moves, WritePCs, OrderPCs
<1>5. ASSUME NEW w \in Workers, Opens(w) \/ Goes(w) \/ Refunds(w) \/ Releases(w) \/ Breaks(w)
      PROVE  orders'[o] = orders[o]
  BY <1>5 DEF Opens, Goes, Refunds, Releases, Breaks, tables
<1> QED
  BY <1>2, <1>3, <1>4, <1>5, NextKinds DEF Kind

LEMMA LiveInvariance ==
    ASSUME Solo
    PROVE  Spec /\ [][~RefundOfCancelled]_vars => []LiveInv
<1>1. Init => LiveInv
  BY DEF Init, Idle, LiveInv, WritePCs, OrderPCs
<1>2. IInv /\ SoloInv /\ LiveInv /\ [Next]_vars /\ [~RefundOfCancelled]_vars => LiveInv'
  BY LiveStep
<1> QED
  BY <1>1, <1>2, Invariance, SoloInvariance, PTL DEF Spec

(* With one worker, an order that was refunded, cancelled or never paid    *)
(* stays so, whatever fails, unless a cancelled order is refunded.         *)
THEOREM ClosedOrdersStayClosed ==
    ASSUME Solo
    PROVE  Spec /\ [][~RefundOfCancelled]_vars => FinalIsFinal
<1>1. IInv /\ SoloInv /\ LiveInv /\ [Next]_vars =>
        [\A o \in Placed : orders[o].status \in Final =>
            orders'[o].status = orders[o].status]_vars
  BY FinalStep
<1> QED
  BY <1>1, Invariance, SoloInvariance, LiveInvariance, PTL DEF Spec, FinalIsFinal

-----------------------------------------------------------------------------
(* Pending orders and refunds.                                             *)

FlightPCs == WritePCs \ {"mark_pending"}

(* A pending order is the order of a call that is past its first write.    *)
PendingInv ==
    faults = 0 =>
      \A o \in Placed : orders[o].status \in Transient =>
        \E w \in Workers : call[w].order = o /\ call[w].pc \in FlightPCs

LEMMA PendingStep ==
    ASSUME Solo, IInv, SoloInv, PendingInv, [Next]_vars
    PROVE  PendingInv'
<1>0. /\ orders \in [Orders -> OrderRow \cup {None}] /\ Placed \subseteq Orders
  BY DEF IInv, TypeOK, Placed
<1>w. {"settle", "move_dates", "refund_row", "mark_refunded", "mark_cancelled", "revert"}
        \subseteq FlightPCs
      /\ {"idle", "release", "save_quote", "create_order", "mark_pending"}
            \cap FlightPCs = {}
  BY DEF FlightPCs, WritePCs, OrderPCs
<1>t. "confirmed" \notin Transient /\ Final \cap Transient = {}
  BY DEF Transient, Final
<1>p. ASSUME faults = 0, NEW w \in Workers, NEW o \in Placed,
             call[w].pc \notin FlightPCs \/ call[w].order # o
      PROVE  orders[o].status \notin Transient
  BY <1>p DEF PendingInv, Solo
<1>1. CASE UNCHANGED <<orders, avail, refunds, call, faults>>
  BY <1>1 DEF PendingInv, Placed
<1>2. ASSUME NEW w \in Workers, Opens(w) PROVE PendingInv'
  BY <1>2, <1>p, <1>w DEF Opens, tables, PendingInv, Placed
<1>3. ASSUME NEW w \in Workers, Goes(w), faults' = faults PROVE PendingInv'
  <2>1. Placed' = Placed /\ orders' = orders
    BY <1>3 DEF Goes, Placed
  <2>2. CASE call[w].pc \notin FlightPCs
    BY <1>3, <1>p, <2>1, <2>2 DEF PendingInv
  <2>3. CASE call[w].pc \in FlightPCs
    <3>1. call'[w].pc \in FlightPCs /\ call'[w].order = call[w].order
      BY <1>3, <1>w, <2>3 DEF Goes
    <3> QED
      BY <1>3, <1>p, <2>1, <3>1 DEF PendingInv
  <2> QED
    BY <2>2, <2>3
<1>4. ASSUME NEW w \in Workers, NEW o, NEW row, Places(w, o, row), faults' = faults
      PROVE  PendingInv'
  <2>1. /\ call'[w].order = o /\ call'[w].pc \in FlightPCs /\ call[w].pc \notin FlightPCs
        /\ \A p \in Placed' : p = o \/ (p \in Placed /\ orders'[p] = orders[p])
    BY <1>0, <1>4, <1>w DEF Places, Placed
  <2> QED
    BY <1>4, <1>p, <2>1 DEF PendingInv
<1>5. ASSUME NEW w \in Workers, NEW row, Writes(w, row), faults' = faults PROVE PendingInv'
  <2>1. /\ orders'[call[w].order] = row
        /\ \A p \in Placed' : p = call[w].order \/ (p \in Placed /\ orders'[p] = orders[p])
    BY <1>0, <1>5 DEF Writes, Placed
  <2>2. row.status \notin Transient
          \/ (call'[w].order = call[w].order /\ call'[w].pc \in FlightPCs)
    BY <1>5, <1>w, <1>t DEF Writes
  <2> QED
    BY <1>5, <1>p, <2>1, <2>2 DEF PendingInv
<1>6. ASSUME NEW w \in Workers, NEW row, Moves(w, row), faults' = faults PROVE PendingInv'
  <2>1. /\ orders'[call[w].order] = row /\ row.status \notin Transient
        /\ \A p \in Placed' : p = call[w].order \/ (p \in Placed /\ orders'[p] = orders[p])
    BY <1>0, <1>6, <1>t DEF Moves, Placed
  <2> QED
    BY <1>6, <1>p, <2>1 DEF PendingInv
<1>7. ASSUME NEW w \in Workers, Refunds(w), faults' = faults PROVE PendingInv'
  <2>1. Placed' = Placed /\ orders' = orders
    BY <1>7 DEF Refunds, Placed
  <2>2. call'[w].pc \in FlightPCs /\ call'[w].order = call[w].order
    BY <1>7, <1>w DEF Refunds
  <2> QED
    BY <1>7, <1>p, <2>1, <2>2 DEF PendingInv
<1>8. ASSUME NEW w \in Workers, Releases(w), faults' = faults PROVE PendingInv'
  BY <1>8, <1>p, <1>w DEF Releases, PendingInv, Placed
<1>9. ASSUME NEW w \in Workers, Breaks(w) PROVE PendingInv'
  BY <1>9 DEF Breaks, PendingInv
<1> QED
  BY <1>1, <1>2, <1>3, <1>4, <1>5, <1>6, <1>7, <1>8, <1>9, NextKinds DEF Kind

(* With one worker, until a call fails an order is only pending while a    *)
(* call is working on it.                                                  *)
THEOREM PendingIsWorkedOn ==
    ASSUME Solo
    PROVE  Spec => []PendingOnlyInFlight
<1>1. Init => PendingInv
  BY DEF Init, PendingInv, Placed
<1>2. IInv /\ SoloInv /\ PendingInv /\ [Next]_vars => PendingInv'
  BY PendingStep
<1>3. PendingInv => PendingOnlyInFlight
  BY DEF PendingInv, PendingOnlyInFlight, FlightPCs, WritePCs, OrderPCs, At
<1> QED
  BY <1>1, <1>2, <1>3, Invariance, SoloInvariance, PTL DEF Spec

(* Without failures an order has at most one refund, of at most its price: *)
(* the call that recorded it goes on to mark the payment refunded.         *)
RefundInv ==
    faults = 0 =>
      /\ \A o \in Orders :
           \/ refunds[o].total = 0
           \/ /\ o \in Placed /\ refunds[o].total <= orders[o].total
              /\ \/ orders[o].payment = "refunded"
                 \/ \E w \in Workers : call[w].order = o /\ call[w].pc = "mark_refunded"
      /\ \A w \in Workers :
           call[w].pc = "refund_row" => call[w].amount <= orders[call[w].order].total

LEMMA RefundStep ==
    ASSUME Solo, IInv, SoloInv, RefundInv, [Next]_vars
    PROVE  RefundInv'
<1>0. /\ orders \in [Orders -> OrderRow \cup {None}] /\ Placed \subseteq Orders
      /\ refunds \in [Orders -> [count : Nat, total : Int]]
      /\ call \in [Workers -> Frame]
  BY DEF IInv, TypeOK, Placed
<1>m. ASSUME faults = 0, NEW w \in Workers, NEW o \in Orders,
             call[w].pc # "mark_refunded" \/ call[w].order # o
      PROVE  \/ refunds[o].total = 0
             \/ /\ o \in Placed /\ refunds[o].total <= orders[o].total
                /\ orders[o].payment = "refunded"
  BY <1>m DEF RefundInv, Solo
<1>1. CASE UNCHANGED <<orders, avail, refunds, call, faults>>
  BY <1>1 DEF RefundInv, Placed
<1>2. ASSUME NEW w \in Workers, Opens(w) PROVE RefundInv'
  <2>1. UNCHANGED <<orders, refunds, faults>> /\ Placed' = Placed /\ call[w].pc = "idle"
    BY <1>2 DEF Opens, tables, Placed
  <2>2. call'[w].pc = "refund_row" => call'[w].amount <= orders[call'[w].order].total
    BY <1>2 DEF Opens
  <2> QED
    BY <1>m, <2>1, <2>2 DEF RefundInv, Solo
<1>3. ASSUME NEW w \in Workers, Goes(w), faults' = faults PROVE RefundInv'
  <2>1. UNCHANGED <<orders, refunds>> /\ Placed' = Placed
    BY <1>3 DEF Goes, Placed
  <2>2. call[w].pc # "mark_refunded" /\ call'[w].pc # "refund_row"
    BY <1>3 DEF Goes
  <2> QED
    BY <1>3, <1>m, <2>1, <2>2 DEF RefundInv, Solo
<1>4. ASSUME NEW w \in Workers, NEW o, NEW row, Places(w, o, row), faults' = faults
      PROVE  RefundInv'
  <2>1. /\ o \in Orders /\ o \notin Placed /\ refunds' = refunds
        /\ call[w].pc # "mark_refunded" /\ call'[w].pc # "refund_row"
        /\ \A p \in Placed : p \in Placed' /\ orders'[p] = orders[p]
    BY <1>0, <1>4 DEF Places, Placed
  <2> QED
    BY <1>4, <1>m, <2>1 DEF RefundInv, Solo
<1>5. ASSUME NEW w \in Workers, NEW row, Writes(w, row), faults' = faults PROVE RefundInv'
  <2> DEFINE o == call[w].order
  <2>1. /\ o \in Placed /\ o \in Orders /\ orders'[o] = row /\ row.total = orders[o].total
        /\ refunds' = refunds /\ row \in OrderRow
        /\ \A p \in Placed : p # o => orders'[p] = orders[p]
    BY <1>0, <1>5 DEF Writes
  <2>2. Placed' = Placed
    BY <1>0, <1>5, <2>1, NoneAssumption DEF Writes, Placed
  <2>3. call'[w].pc = "refund_row" => call'[w].order = o /\ call'[w].amount <= row.total
    BY <1>5 DEF Writes
  <2>4. ASSUME faults = 0 PROVE refunds[o].total = 0 \/ row.payment = "refunded"
    <3>1. CASE call[w].pc = "mark_refunded"
      BY <1>5, <3>1 DEF Writes
    <3>2. CASE call[w].pc # "mark_refunded"
      <4>1. orders[o].payment \in {"pending", "captured"}
        BY <1>5, <3>2 DEF Writes, WritePCs, SoloInv, SoloFrameOK
      <4> QED
        BY <1>m, <2>1, <2>4, <3>2, <4>1
    <3> QED
      BY <3>1, <3>2
  <2>5. ASSUME faults = 0 PROVE refunds[o].total <= row.total
    <3>1. row.total \in Nat
      BY <2>1 DEF OrderRow
    <3> QED
      BY <2>1, <2>5, <3>1 DEF RefundInv
  <2> QED
    BY <1>5, <1>m, <2>1, <2>2, <2>3, <2>4, <2>5 DEF RefundInv, Solo
<1>6. ASSUME NEW w \in Workers, NEW row, Moves(w, row), faults' = faults PROVE RefundInv'
  <2> DEFINE o == call[w].order
  <2>1. /\ o \in Placed /\ o \in Orders /\ orders'[o] = row /\ row.total = orders[o].total
        /\ row.payment = orders[o].payment /\ refunds' = refunds /\ row \in OrderRow
        /\ \A p \in Placed : p # o => orders'[p] = orders[p]
        /\ call[w].pc # "mark_refunded" /\ call'[w].pc # "refund_row"
    BY <1>0, <1>6 DEF Moves
  <2>2. Placed' = Placed
    BY <1>0, <1>6, <2>1, NoneAssumption DEF Moves, Placed
  <2> QED
    BY <1>6, <1>m, <2>1, <2>2 DEF RefundInv, Solo
<1>7. ASSUME NEW w \in Workers, Refunds(w), faults' = faults PROVE RefundInv'
  <2> DEFINE o == call[w].order
             n == call[w].amount
  <2>1. /\ o \in Placed /\ o \in Orders /\ UNCHANGED orders /\ Placed' = Placed
        /\ call[w].pc = "refund_row" /\ call'[w].pc = "mark_refunded" /\ call'[w].order = o
        /\ n \in Int
    BY <1>0, <1>7 DEF Refunds, Placed, Frame
  <2>2. /\ refunds'[o].total = refunds[o].total + n
        /\ \A p \in Orders : p # o => refunds'[p] = refunds[p]
    BY <1>0, <1>7, <2>1 DEF Refunds, RefundRow
  <2>3. ASSUME faults = 0 PROVE refunds[o].total = 0 /\ n <= orders[o].total
    <3>1. orders[o].payment = "captured"
      BY <2>1 DEF SoloInv, SoloFrameOK, OrderPCs
    <3> QED
      BY <1>m, <2>1, <2>3, <3>1 DEF RefundInv
  <2> QED
    BY <1>7, <1>m, <2>1, <2>2, <2>3 DEF RefundInv, Solo
<1>8. ASSUME NEW w \in Workers, Releases(w), faults' = faults PROVE RefundInv'
  BY <1>8, <1>m DEF Releases, RefundInv, Solo, Placed
<1>9. ASSUME NEW w \in Workers, Breaks(w) PROVE RefundInv'
  BY <1>9 DEF Breaks, RefundInv
<1> QED
  BY <1>1, <1>2, <1>3, <1>4, <1>5, <1>6, <1>7, <1>8, <1>9, NextKinds DEF Kind

(* With one worker, until a call fails no order is paid back more than it  *)
(* cost: partial refunds do not add up, since the first one closes it.     *)
THEOREM RefundsStayWithinTotal ==
    ASSUME Solo
    PROVE  Spec => []RefundsWithinTotal
<1>1. Init => RefundInv
  BY DEF Init, Idle, RefundInv
<1>2. IInv /\ SoloInv /\ RefundInv /\ [Next]_vars => RefundInv'
  BY RefundStep
<1>3. IInv /\ RefundInv => RefundsWithinTotal
  BY NoneAssumption DEF IInv, TypeOK, RefundInv, RefundsWithinTotal, Placed, OrderRow
<1> QED
  BY <1>1, <1>2, <1>3, Invariance, SoloInvariance, PTL DEF Spec

-----------------------------------------------------------------------------
(* Rooms.                                                                  *)

Bit(b) == IF b THEN 1 ELSE 0

(* Two sets that differ in one element at most.                            *)
LEMMA CardChange ==
    ASSUME NEW S, NEW T, NEW x, IsFiniteSet(S), T \ {x} = S \ {x}
    PROVE  /\ IsFiniteSet(T) /\ Cardinality(S) \in Nat /\ Cardinality(T) \in Nat
           /\ Cardinality(T) - Bit(x \in T) = Cardinality(S) - Bit(x \in S)
<1> DEFINE R == S \ {x}
<1>1. /\ IsFiniteSet(R)
      /\ Cardinality(R) = IF x \in S THEN Cardinality(S) - 1 ELSE Cardinality(S)
  BY FS_RemoveElement
<1>2. IsFiniteSet(R \cup {x}) /\ Cardinality(R \cup {x}) = Cardinality(R) + 1
  BY <1>1, FS_AddElement
<1>3. T = IF x \in T THEN R \cup {x} ELSE R
  OBVIOUS
<1>4. /\ IsFiniteSet(T)
      /\ Cardinality(T) = IF x \in T THEN Cardinality(R) + 1 ELSE Cardinality(R)
  BY <1>1, <1>2, <1>3
<1>5. Cardinality(S) \in Nat /\ Cardinality(R) \in Nat /\ Cardinality(T) \in Nat
  BY <1>1, <1>4, FS_CardinalityType
<1> HIDE DEF R
<1> QED
  BY <1>1, <1>4, <1>5 DEF Bit

(* How many of the workers do something, when there is only one.           *)
LEMMA CardOfOne ==
    ASSUME Solo, NEW w \in Workers, NEW S \in SUBSET Workers
    PROVE  Cardinality(S) = Bit(w \in S)
<1>1. S = IF w \in S THEN {w} ELSE {}
  BY DEF Solo
<1> QED
  BY <1>1, FS_EmptySet, FS_Singleton DEF Bit

(* Every night of a room is offered, occupied by a live order, or about to *)
(* be released; a failure can only lose nights.                            *)
Used(r, d) == Cardinality(LiveOrders(r, d)) + Cardinality(Releasing(r, d)) + avail[r][d]

RoomInv ==
    \A r \in Rooms, d \in Days :
        /\ IsFiniteSet(LiveOrders(r, d))
        /\ Used(r, d) <= Capacity[r]
        /\ faults = 0 => Used(r, d) = Capacity[r]

(* A step of worker w that changes no order but o, and moves o's nights    *)
(* between the three.                                                      *)
OnlyOrder(o) == \A p \in Orders : p # o => orders'[p] = orders[p]

Balanced(w, o) ==
    \A r \in Rooms, d \in Days :
        Bit(o \in LiveOrders(r, d)') + Bit(w \in Releasing(r, d)') + avail'[r][d]
        = Bit(o \in LiveOrders(r, d)) + Bit(w \in Releasing(r, d)) + avail[r][d]

(* The other orders stay where they are.                                   *)
LEMMA OthersStay ==
    ASSUME IInv, RoomsKept, NEW o, OnlyOrder(o), NEW r, NEW d
    PROVE  LiveOrders(r, d)' \ {o} = LiveOrders(r, d) \ {o}
<1> SUFFICES ASSUME NEW p \in Orders, p # o
             PROVE  p \in LiveOrders(r, d)' <=> p \in LiveOrders(r, d)
  BY DEF LiveOrders, Placed
<1>1. orders'[p] = orders[p] /\ (p \in Placed' <=> p \in Placed)
  BY DEF OnlyOrder, Placed
<1>2. ASSUME p \in Placed PROVE quotes'[orders[p].quote].room = quotes[orders[p].quote].room
  BY <1>2 DEF IInv, OrderMatchesQuote, RoomsKept
<1> QED
  BY <1>1, <1>2 DEF LiveOrders, RoomOf

(* Such a step loses no night.                                             *)
LEMMA NightsMove ==
    ASSUME Solo, IInv, IInv', RoomInv, RoomsKept, NEW w \in Workers, NEW o,
           faults' = faults, OnlyOrder(o), Balanced(w, o)
    PROVE  RoomInv'
<1> SUFFICES ASSUME NEW r \in Rooms, NEW d \in Days
             PROVE  IsFiniteSet(LiveOrders(r, d)') /\ Used(r, d)' = Used(r, d)
  BY DEF RoomInv
<1> DEFINE S == LiveOrders(r, d)
           T == LiveOrders(r, d)'
           u == Bit(o \in S)
           v == Bit(o \in T)
           x == Bit(w \in Releasing(r, d))
           y == Bit(w \in Releasing(r, d)')
<1>0. T \ {o} = S \ {o}
  BY OthersStay
<1>1. /\ IsFiniteSet(T) /\ Cardinality(S) \in Nat /\ Cardinality(T) \in Nat
      /\ Cardinality(T) - v = Cardinality(S) - u
  BY <1>0, CardChange DEF RoomInv
<1>2. Releasing(r, d) \subseteq Workers /\ Releasing(r, d)' \subseteq Workers
  BY DEF Releasing
<1>3. Cardinality(Releasing(r, d)) = x /\ Cardinality(Releasing(r, d)') = y
  BY <1>2, CardOfOne
<1>4. v + y + avail'[r][d] = u + x + avail[r][d]
  BY DEF Balanced
<1>5. u \in Int /\ v \in Int /\ x \in Int /\ y \in Int
      /\ avail[r][d] \in Int /\ avail'[r][d] \in Int
  BY DEF Bit, IInv, TypeOK
<1> HIDE DEF S, T, u, v, x, y
<1>6. Used(r, d)' = Cardinality(T) + y + avail'[r][d]
      /\ Used(r, d) = Cardinality(S) + x + avail[r][d]
  BY <1>3 DEF Used, S, T
<1>7. Used(r, d)' = Used(r, d)
  BY <1>1, <1>4, <1>5, <1>6
<1> QED
  BY <1>1, <1>7 DEF T

(* What releasing and taking nights does to one night.                     *)
Covers(room, s, r, d) == room = r /\ d \in Nights(s)

LEMMA FreeAdds ==
    ASSUME NEW a \in [Rooms -> [Days -> Int]], NEW room \in Rooms, NEW s,
           NEW r \in Rooms, NEW d \in Days
    PROVE  /\ Free(a, room, s) \in [Rooms -> [Days -> Int]]
           /\ Free(a, room, s)[r][d] =
                IF Covers(room, s, r, d) THEN Least(a[r][d] + 1, Capacity[r]) ELSE a[r][d]
<1>1. Free(a, room, s) \in [Rooms -> [Days -> Int]]
  BY CapacityAssumption DEF Free, Least
<1>2. CASE room = r
  <2>1. Free(a, room, s)[r][d] =
          IF d \in Nights(s) THEN Least(a[r][d] + 1, Capacity[r]) ELSE a[r][d]
    BY <1>2 DEF Free
  <2> QED
    BY <1>1, <1>2, <2>1 DEF Covers
<1>3. CASE room # r
  BY <1>1, <1>3 DEF Free, Covers
<1> QED
  BY <1>2, <1>3

LEMMA HoldTakes ==
    ASSUME NEW a \in [Rooms -> [Days -> Int]], NEW room \in Rooms, NEW s,
           NEW r \in Rooms, NEW d \in Days
    PROVE  Hold(a, room, s)[r][d] = a[r][d] - Bit(Covers(room, s, r, d))
  BY DEF Hold, Covers, Bit

(* The night an order with a given row occupies, before and after a step.  *)
LEMMA LiveRow ==
    ASSUME NEW o \in Placed, NEW r, NEW d
    PROVE  o \in LiveOrders(r, d) <=>
             orders[o].status \in Live /\ Covers(RoomOf(o), orders[o].stay, r, d)
  BY DEF LiveOrders, Covers

LEMMA LiveRowAfter ==
    ASSUME IInv, RoomsKept, NEW o \in Orders, NEW row \in OrderRow,
           orders' = [orders EXCEPT ![o] = row], row.quote \in Quoted, NEW r, NEW d
    PROVE  /\ RoomOf(o)' = quotes[row.quote].room
           /\ o \in LiveOrders(r, d)' <=>
                row.status \in Live /\ Covers(quotes[row.quote].room, row.stay, r, d)
<1>1. orders'[o] = row /\ o \in Placed'
  BY NoneAssumption DEF IInv, TypeOK, Placed
<1>2. quotes'[row.quote].room = quotes[row.quote].room
  BY DEF RoomsKept
<1> QED
  BY <1>1, <1>2 DEF LiveOrders, RoomOf, Covers

(* A night that a live order occupies, or a call is about to release, is   *)
(* not offered as well.                                                    *)
LEMMA NightIsSpoken ==
    ASSUME Solo, IInv, RoomInv, NEW w \in Workers, NEW o, NEW r \in Rooms, NEW d \in Days,
           o \in LiveOrders(r, d) \/ w \in Releasing(r, d)
    PROVE  avail[r][d] + 1 <= Capacity[r]
<1> DEFINE S == LiveOrders(r, d)
           R == Releasing(r, d)
<1>1. IsFiniteSet(S) /\ Cardinality(S) + Cardinality(R) + avail[r][d] <= Capacity[r]
  BY DEF RoomInv, Used
<1>2. Cardinality(S) \in Nat /\ (o \in S => Cardinality(S) # 0)
  BY <1>1, FS_CardinalityType, FS_EmptySet
<1>3. R \subseteq Workers
  BY DEF Releasing
<1>4. Cardinality(R) = Bit(w \in R)
  BY <1>3, CardOfOne
<1>5. avail[r][d] \in Int /\ Capacity[r] \in Int
  BY CapacityAssumption DEF IInv, TypeOK
<1>6. o \in S \/ w \in R
  OBVIOUS
<1> HIDE DEF S, R
<1> QED
  BY <1>1, <1>2, <1>4, <1>5, <1>6 DEF Bit

(* The steps that take, return or exchange nights.                         *)
LEMMA RoomPlaces ==
    ASSUME Solo, IInv, IInv', RoomInv, RoomsKept, NEW w \in Workers, NEW o, NEW row,
           Places(w, o, row), faults' = faults
    PROVE  RoomInv'
<1> DEFINE room == quotes[row.quote].room
<1>0. orders \in [Orders -> OrderRow \cup {None}] /\ avail \in [Rooms -> [Days -> Int]]
  BY DEF IInv, TypeOK
<1>1. OnlyOrder(o)
  BY <1>0 DEF Places, OnlyOrder
<1>2. row.status \in Live /\ room \in Rooms /\ avail' = Hold(avail, room, row.stay)
  BY DEF Places, Live
<1> SUFFICES ASSUME NEW r \in Rooms, NEW d \in Days
             PROVE  Bit(o \in LiveOrders(r, d)') + Bit(w \in Releasing(r, d)') + avail'[r][d]
                  = Bit(o \in LiveOrders(r, d)) + Bit(w \in Releasing(r, d)) + avail[r][d]
  BY <1>1, NightsMove DEF Balanced
<1>3. o \notin LiveOrders(r, d)
  BY DEF Places, LiveOrders
<1>4. o \in LiveOrders(r, d)' <=> Covers(room, row.stay, r, d)
  BY <1>2, LiveRowAfter DEF Places
<1>5. w \notin Releasing(r, d) /\ w \notin Releasing(r, d)'
  BY DEF Places, Releasing, At
<1>6. avail'[r][d] = avail[r][d] - Bit(Covers(room, row.stay, r, d)) /\ avail[r][d] \in Int
  BY <1>0, <1>2, HoldTakes
<1> QED
  BY <1>3, <1>4, <1>5, <1>6 DEF Bit

LEMMA RoomWrites ==
    ASSUME Solo, IInv, IInv', RoomInv, LiveInv, RoomsKept, NEW w \in Workers, NEW row,
           Writes(w, row), faults' = faults
    PROVE  RoomInv'
<1> PICK o : o = call[w].order
  OBVIOUS
<1>0. orders \in [Orders -> OrderRow \cup {None}] /\ avail \in [Rooms -> [Days -> Int]]
      /\ Placed \subseteq Orders
  BY DEF IInv, TypeOK, Placed
<1>1. OnlyOrder(o)
  BY <1>0 DEF Writes, OnlyOrder
<1>2. /\ o \in Placed /\ o \in Orders /\ row.quote = orders[o].quote /\ row.quote \in Quoted
      /\ row.stay = orders[o].stay /\ orders[o].status \in Live
      /\ quotes[row.quote].room = RoomOf(o) /\ avail' = avail
  BY <1>0 DEF Writes, LiveInv, IInv, OrderMatchesQuote, RoomOf
<1> SUFFICES ASSUME NEW r \in Rooms, NEW d \in Days
             PROVE  Bit(o \in LiveOrders(r, d)') + Bit(w \in Releasing(r, d)') + avail'[r][d]
                  = Bit(o \in LiveOrders(r, d)) + Bit(w \in Releasing(r, d)) + avail[r][d]
  BY <1>1, NightsMove DEF Balanced
<1>3. o \in LiveOrders(r, d) <=> Covers(RoomOf(o), orders[o].stay, r, d)
  BY <1>2, LiveRow
<1>r. /\ row \in OrderRow /\ orders' = [orders EXCEPT ![o] = row]
  BY DEF Writes
<1>a. /\ RoomOf(o)' = quotes[row.quote].room
      /\ o \in LiveOrders(r, d)' <=>
           row.status \in Live /\ Covers(quotes[row.quote].room, row.stay, r, d)
  BY <1>2, <1>r, LiveRowAfter
<1>4. /\ RoomOf(o)' = RoomOf(o)
      /\ o \in LiveOrders(r, d)' <=>
           row.status \in Live /\ Covers(RoomOf(o), orders[o].stay, r, d)
  BY <1>2, <1>a
<1>5. w \notin Releasing(r, d)
  BY DEF Writes, WritePCs, Releasing, At
<1>6. CASE call'[w].pc = "release"
  <2>1. /\ call'[w].order = o /\ call'[w].stay = orders[o].stay /\ row.status \in Final
        /\ row.status \notin Live
    BY <1>2, <1>6 DEF Writes, Final, Live
  <2>2. w \in Releasing(r, d)' <=> Covers(RoomOf(o), orders[o].stay, r, d)
    BY <1>4, <1>6, <2>1 DEF Releasing, At, Covers
  <2> QED
    BY <1>2, <1>3, <1>4, <1>5, <2>1, <2>2 DEF Bit
<1>7. CASE call'[w].pc # "release"
  <2>1. row.status \in Live
    BY <1>7 DEF Writes, Live
  <2>2. w \notin Releasing(r, d)'
    BY <1>7 DEF Releasing, At
  <2> QED
    BY <1>2, <1>3, <1>4, <1>5, <2>1, <2>2 DEF Bit
<1> QED
  BY <1>6, <1>7

LEMMA RoomMoves ==
    ASSUME Solo, IInv, IInv', RoomInv, LiveInv, RoomsKept, NEW w \in Workers, NEW row,
           Moves(w, row), faults' = faults
    PROVE  RoomInv'
<1> PICK o : o = call[w].order
  OBVIOUS
<1> DEFINE room == RoomOf(o)
           freed == Free(avail, room, orders[o].stay)
<1>0. orders \in [Orders -> OrderRow \cup {None}] /\ avail \in [Rooms -> [Days -> Int]]
      /\ Placed \subseteq Orders
  BY DEF IInv, TypeOK, Placed
<1>1. OnlyOrder(o)
  BY <1>0 DEF Moves, OnlyOrder
<1>2. /\ o \in Placed /\ o \in Orders /\ row.quote = orders[o].quote /\ row.quote \in Quoted
      /\ row.status \in Live /\ orders[o].status \in Live /\ room \in Rooms
      /\ quotes[row.quote].room = room /\ avail' = Hold(freed, room, row.stay)
  BY <1>0, RoomOfPlaced DEF Moves, LiveInv, IInv, OrderMatchesQuote, RoomOf, Live, WritePCs,
     OrderPCs, MoveNights, AfterFree
<1> SUFFICES ASSUME NEW r \in Rooms, NEW d \in Days
             PROVE  Bit(o \in LiveOrders(r, d)') + Bit(w \in Releasing(r, d)') + avail'[r][d]
                  = Bit(o \in LiveOrders(r, d)) + Bit(w \in Releasing(r, d)) + avail[r][d]
  BY <1>1, NightsMove DEF Balanced
<1>3. o \in LiveOrders(r, d) <=> Covers(room, orders[o].stay, r, d)
  BY <1>2, LiveRow
<1>r. /\ row \in OrderRow /\ orders' = [orders EXCEPT ![o] = row]
  BY DEF Moves
<1>a. o \in LiveOrders(r, d)' <=>
        row.status \in Live /\ Covers(quotes[row.quote].room, row.stay, r, d)
  BY <1>2, <1>r, LiveRowAfter
<1>4. o \in LiveOrders(r, d)' <=> Covers(room, row.stay, r, d)
  BY <1>2, <1>a
<1>5. w \notin Releasing(r, d) /\ w \notin Releasing(r, d)'
  BY DEF Moves, Releasing, At
<1>6. Covers(room, orders[o].stay, r, d) => avail[r][d] + 1 <= Capacity[r]
  BY <1>3, NightIsSpoken
<1>7. /\ freed \in [Rooms -> [Days -> Int]]
      /\ freed[r][d] = avail[r][d] + Bit(Covers(room, orders[o].stay, r, d))
  <2>1. avail \in [Rooms -> [Days -> Int]] /\ room \in Rooms
    BY <1>0, <1>2
  <2> HIDE DEF room
  <2>2. /\ freed \in [Rooms -> [Days -> Int]]
        /\ freed[r][d] = IF Covers(room, orders[o].stay, r, d)
                         THEN Least(avail[r][d] + 1, Capacity[r]) ELSE avail[r][d]
    BY <2>1, FreeAdds
  <2> HIDE DEF freed
  <2> QED
    BY <1>6, <2>1, <2>2, CapacityAssumption DEF Bit, Least
<1> HIDE DEF room, freed
<1>8. avail'[r][d] = freed[r][d] - Bit(Covers(room, row.stay, r, d)) /\ avail[r][d] \in Int
  <2>1. Hold(freed, room, row.stay)[r][d] = freed[r][d] - Bit(Covers(room, row.stay, r, d))
    BY <1>2, <1>7, HoldTakes
  <2> QED
    BY <1>0, <1>2, <2>1
<1> QED
  BY <1>3, <1>4, <1>5, <1>7, <1>8 DEF Bit

(* Steps that leave the orders alone leave the live orders alone.          *)
LEMMA OrdersStay ==
    ASSUME IInv, RoomsKept, orders' = orders, NEW r, NEW d
    PROVE  LiveOrders(r, d)' = LiveOrders(r, d)
<1> SUFFICES ASSUME NEW p \in Orders
             PROVE  p \in LiveOrders(r, d)' <=> p \in LiveOrders(r, d)
  BY DEF LiveOrders, Placed
<1>1. p \in Placed' <=> p \in Placed
  BY DEF Placed
<1>2. ASSUME p \in Placed PROVE quotes'[orders[p].quote].room = quotes[orders[p].quote].room
  BY <1>2 DEF IInv, OrderMatchesQuote, RoomsKept
<1> QED
  BY <1>1, <1>2 DEF LiveOrders, RoomOf

LEMMA RoomReleases ==
    ASSUME Solo, IInv, IInv', RoomInv, RoomsKept, NEW w \in Workers,
           Releases(w), faults' = faults
    PROVE  RoomInv'
<1> DEFINE o == call[w].order
           s == call[w].stay
<1>0. /\ avail \in [Rooms -> [Days -> Int]] /\ RoomOf(o) \in Rooms
      /\ orders' = orders /\ avail' = Free(avail, RoomOf(o), s)
  BY RoomOfPlaced DEF IInv, TypeOK, Releases
<1>1. OnlyOrder(o)
  BY <1>0 DEF OnlyOrder
<1> SUFFICES ASSUME NEW r \in Rooms, NEW d \in Days
             PROVE  Bit(o \in LiveOrders(r, d)') + Bit(w \in Releasing(r, d)') + avail'[r][d]
                  = Bit(o \in LiveOrders(r, d)) + Bit(w \in Releasing(r, d)) + avail[r][d]
  BY <1>1, NightsMove DEF Balanced
<1>2. LiveOrders(r, d)' = LiveOrders(r, d)
  BY <1>0, OrdersStay
<1>3. w \in Releasing(r, d) <=> Covers(RoomOf(o), s, r, d)
  BY DEF Releases, Releasing, At, Covers
<1>4. w \notin Releasing(r, d)'
  BY DEF Releases, Releasing, At
<1>5. Covers(RoomOf(o), s, r, d) => avail[r][d] + 1 <= Capacity[r]
  BY <1>3, NightIsSpoken
<1>6. avail'[r][d] = avail[r][d] + Bit(Covers(RoomOf(o), s, r, d)) /\ avail[r][d] \in Int
  <2>1. avail'[r][d] = IF Covers(RoomOf(o), s, r, d)
                       THEN Least(avail[r][d] + 1, Capacity[r]) ELSE avail[r][d]
    BY <1>0, FreeAdds
  <2> QED
    BY <1>0, <1>5, <2>1, CapacityAssumption DEF Bit, Least
<1> QED
  BY <1>2, <1>3, <1>4, <1>6 DEF Bit

(* Steps that leave orders and nights alone and release nothing.           *)
LEMMA RoomStays ==
    ASSUME Solo, IInv, IInv', RoomInv, RoomsKept, NEW w \in Workers,
           UNCHANGED <<orders, avail>>, faults' = faults,
           call[w].pc # "release", call'[w].pc # "release"
    PROVE  RoomInv'
<1>1. OnlyOrder(w)
  BY DEF OnlyOrder
<1> SUFFICES ASSUME NEW r \in Rooms, NEW d \in Days
             PROVE  Bit(w \in LiveOrders(r, d)') + Bit(w \in Releasing(r, d)') + avail'[r][d]
                  = Bit(w \in LiveOrders(r, d)) + Bit(w \in Releasing(r, d)) + avail[r][d]
  BY <1>1, NightsMove DEF Balanced
<1>2. LiveOrders(r, d)' = LiveOrders(r, d)
  BY OrdersStay
<1>3. w \notin Releasing(r, d) /\ w \notin Releasing(r, d)'
  BY DEF Releasing, At
<1> QED
  BY <1>2, <1>3 DEF Bit

(* A failure may lose the nights a call was about to release.              *)
LEMMA RoomBreaks ==
    ASSUME Solo, IInv, IInv', RoomInv, RoomsKept, NEW w \in Workers, Breaks(w)
    PROVE  RoomInv'
<1>1. orders' = orders /\ avail' = avail /\ faults' # 0 /\ call'[w].pc # "release"
  BY DEF Breaks
<1> SUFFICES ASSUME NEW r \in Rooms, NEW d \in Days
             PROVE  IsFiniteSet(LiveOrders(r, d)') /\ Used(r, d)' <= Capacity[r]
  BY <1>1 DEF RoomInv
<1>2. /\ IsFiniteSet(LiveOrders(r, d)) /\ Used(r, d) <= Capacity[r]
      /\ LiveOrders(r, d)' = LiveOrders(r, d)
  BY <1>1, OrdersStay DEF RoomInv
<1>3. Releasing(r, d) \subseteq Workers /\ Releasing(r, d)' = {}
  BY <1>1 DEF Releasing, At, Solo
<1>4. Cardinality(Releasing(r, d)) \in Nat /\ Cardinality(Releasing(r, d)') = 0
  BY <1>3, CardOfOne, FS_EmptySet DEF Bit
<1>5. Cardinality(LiveOrders(r, d)) \in Nat /\ avail[r][d] \in Int /\ Capacity[r] \in Int
  BY <1>2, FS_CardinalityType, CapacityAssumption DEF IInv, TypeOK
<1> QED
  BY <1>1, <1>2, <1>4, <1>5 DEF Used

LEMMA RoomStep ==
    ASSUME Solo, IInv, IInv', SoloInv, LiveInv, RoomInv, [Next]_vars
    PROVE  RoomInv'
<1>0. RoomsKept
  BY QuotesKeepRooms
<1>1. CASE UNCHANGED <<orders, avail, refunds, call, faults>>
  <2>1. ASSUME NEW r \in Rooms, NEW d \in Days
        PROVE  LiveOrders(r, d)' = LiveOrders(r, d) /\ Releasing(r, d)' = Releasing(r, d)
    <3>1. LiveOrders(r, d)' = LiveOrders(r, d)
      BY <1>0, <1>1, OrdersStay
    <3>2. ASSUME NEW w \in Workers, call[w].pc = "release"
          PROVE  RoomOf(call[w].order)' = RoomOf(call[w].order)
      <4>1. call[w].order \in Placed
        BY <3>2 DEF IInv, FramesOK, FrameOK, OrderPCs, Placed
      <4> QED
        BY <1>0, <1>1, <4>1 DEF IInv, OrderMatchesQuote, RoomsKept, RoomOf
    <3> QED
      BY <1>1, <3>1, <3>2 DEF Releasing, At
  <2> QED
    BY <1>1, <2>1 DEF RoomInv, Used
<1>2. ASSUME NEW w \in Workers, Opens(w) PROVE RoomInv'
  <2>1. /\ UNCHANGED <<orders, avail, faults>>
        /\ call[w].pc # "release" /\ call'[w].pc # "release"
    BY <1>2 DEF Opens, tables
  <2> QED
    BY <1>0, <2>1, RoomStays
<1>3. ASSUME NEW w \in Workers, Goes(w) \/ Refunds(w), faults' = faults PROVE RoomInv'
  <2>1. /\ UNCHANGED <<orders, avail>>
        /\ call[w].pc # "release" /\ call'[w].pc # "release"
    BY <1>3 DEF Goes, Refunds
  <2> QED
    BY <1>0, <1>3, <2>1, RoomStays
<1>4. ASSUME NEW w \in Workers, Kind(w), faults' = faults PROVE RoomInv'
  BY <1>0, <1>3, <1>4, RoomPlaces, RoomWrites, RoomMoves, RoomReleases DEF Kind
<1>5. ASSUME NEW w \in Workers, Breaks(w) PROVE RoomInv'
  BY <1>0, <1>5, RoomBreaks
<1> QED
  BY <1>1, <1>2, <1>4, <1>5, NextKinds

LEMMA RoomInvariance ==
    ASSUME Solo
    PROVE  Spec /\ [][~RefundOfCancelled]_vars => []RoomInv
<1>1. Init => RoomInv
  <2> SUFFICES ASSUME Init, NEW r \in Rooms, NEW d \in Days
               PROVE  IsFiniteSet(LiveOrders(r, d)) /\ Used(r, d) = Capacity[r]
    BY CapacityAssumption DEF RoomInv
  <2>1. LiveOrders(r, d) = {} /\ Releasing(r, d) = {} /\ avail[r][d] = Capacity[r]
    BY DEF Init, LiveOrders, Placed, Releasing, At, Idle
  <2> QED
    BY <2>1, FS_EmptySet, CapacityAssumption DEF Used
<1>2. IInv /\ IInv' /\ SoloInv /\ LiveInv /\ RoomInv /\ [Next]_vars => RoomInv'
  BY RoomStep
<1> QED
  BY <1>1, <1>2, Invariance, SoloInvariance, LiveInvariance, PTL DEF Spec

LEMMA RoomInvMeans ==
    ASSUME Solo, IInv, RoomInv
    PROVE  InventoryCovered /\ InventoryExact /\ NoOversell
<1>1. ASSUME NEW r \in Rooms, NEW d \in Days
      PROVE  /\ Cardinality(LiveOrders(r, d)) + avail[r][d] <= Capacity[r]
             /\ Cardinality(LiveOrders(r, d)) <= Capacity[r]
  <2>1. /\ Cardinality(LiveOrders(r, d)) \in Nat
        /\ avail[r][d] \in 0 .. Capacity[r] /\ Capacity[r] \in Nat
    BY FS_CardinalityType, CapacityAssumption DEF RoomInv, IInv, TypeOK
  <2>2. Cardinality(Releasing(r, d)) \in Nat
    <3>1. Releasing(r, d) \subseteq Workers
      BY DEF Releasing
    <3>2. ASSUME NEW w \in Releasing(r, d) PROVE Cardinality(Releasing(r, d)) \in Nat
      BY <3>1, CardOfOne DEF Bit
    <3> QED
      BY <3>2, FS_EmptySet
  <2> QED
    BY <2>1, <2>2 DEF RoomInv, Used
<1> QED
  BY <1>1 DEF InventoryCovered, NoOversell, InventoryExact, RoomInv, Used

(* With one worker no night is sold to more guests than the room has, and  *)
(* what is offered and occupied never exceeds the room, whatever calls     *)
(* fail or die half-way: oversale takes a refund of a cancelled order.     *)
THEOREM RoomsAreCovered ==
    ASSUME Solo
    PROVE  Spec /\ [][~RefundOfCancelled]_vars => []InventoryCovered /\ []NoOversell
<1>1. IInv /\ RoomInv => InventoryCovered /\ NoOversell
  BY RoomInvMeans
<1> QED
  BY <1>1, Invariance, RoomInvariance, PTL

(* With one worker and until a call fails, every night of every room is    *)
(* offered, occupied or about to be released: none is lost.                *)
THEOREM RoomsAreExact ==
    ASSUME Solo
    PROVE  Spec /\ [][~RefundOfCancelled]_vars => []InventoryExact
<1>1. IInv /\ RoomInv => InventoryExact
  BY RoomInvMeans
<1> QED
  BY <1>1, Invariance, RoomInvariance, PTL

-----------------------------------------------------------------------------
(* Stays of two nights and more.                                           *)

TwoNights == \A s \in Stays : s.in < s.out => s.in + 2 <= s.out

(* A cancellation then refunds something unless the order was for nothing, *)
(* so that a cancelled order has nothing left to refund.                   *)
NothingInv ==
    /\ \A o \in Placed : orders[o].status = "cancelled" => orders[o].total = 0
    /\ \A w \in Workers : call[w].pc = "mark_cancelled" => orders[call[w].order].total = 0

LEMMA NothingStep ==
    ASSUME Solo, TwoNights, IInv, SoloInv, NothingInv, [Next]_vars
    PROVE  NothingInv'
<1>0. /\ orders \in [Orders -> OrderRow \cup {None}] /\ Placed \subseteq Orders
      /\ today \in Int
  BY DEF IInv, TypeOK, Placed
<1>1. ASSUME UNCHANGED <<orders, call>> PROVE NothingInv'
  BY <1>1 DEF NothingInv, Placed
<1>2. ASSUME NEW w \in Workers, Opens(w) \/ Goes(w) \/ Refunds(w) \/ Releases(w) \/ Breaks(w)
      PROVE  NothingInv'
  <2>1. orders' = orders /\ Placed' = Placed /\ call'[w].pc # "mark_cancelled"
    BY <1>2 DEF Opens, Goes, Refunds, Releases, Breaks, tables, Placed
  <2> QED
    BY <2>1 DEF NothingInv, Solo
<1>3. ASSUME NEW w \in Workers, NEW o, NEW row, Places(w, o, row) PROVE NothingInv'
  <2>1. /\ orders'[o] = row /\ row.status # "cancelled" /\ call'[w].pc # "mark_cancelled"
        /\ \A p \in Placed' : p = o \/ (p \in Placed /\ orders'[p] = orders[p])
    BY <1>0, <1>3 DEF Places, Placed
  <2> QED
    BY <2>1 DEF NothingInv, Solo
<1>4. ASSUME NEW w \in Workers, NEW row, Moves(w, row) PROVE NothingInv'
  <2>1. /\ orders'[call[w].order] = row /\ row.status # "cancelled"
        /\ call'[w].pc # "mark_cancelled"
        /\ \A p \in Placed' : p = call[w].order \/ (p \in Placed /\ orders'[p] = orders[p])
    BY <1>0, <1>4 DEF Moves, Placed
  <2> QED
    BY <2>1 DEF NothingInv, Solo
<1>5. ASSUME NEW w \in Workers, NEW row, Writes(w, row) PROVE NothingInv'
  <2> DEFINE c == call[w]
             s == call[w].stay
  <2>1. /\ orders'[c.order] = row /\ row.total = orders[c.order].total /\ row.total \in Nat
        /\ \A p \in Placed' : p = c.order \/ (p \in Placed /\ orders'[p] = orders[p])
    BY <1>0, <1>5 DEF Writes, Placed, OrderRow
  <2>2. row.status = "cancelled" => row.total = 0
    BY <1>5, <2>1 DEF Writes, NothingInv
  <2>3. ASSUME call'[w].pc = "mark_cancelled" PROVE row.total = 0 /\ call'[w].order = c.order
    <3>1. CancelRefund(row.total, s) <= 0 /\ call'[w].order = c.order
      BY <1>5, <2>3 DEF Writes
    <3>2. c.pc = "mark_pending"
      BY <1>5, <2>3 DEF Writes
    <3>3. s \in Stays /\ s.in < s.out /\ s.in \in Int /\ s.out \in Int
      BY <3>2, StaysAssumption DEF IInv, FramesOK, FrameOK, Stay
    <3>4. s.out - s.in \in Nat /\ s.out - s.in >= 2
      BY <3>3 DEF TwoNights
    <3>5. CASE s.in > today + 1
      BY <2>1, <3>1, <3>5 DEF CancelRefund
    <3>6. CASE ~(s.in > today + 1)
      <4>1. row.total - row.total \div (s.out - s.in) <= 0
        BY <3>1, <3>6 DEF CancelRefund
      <4>2. row.total = 0
        BY <2>1, <3>4, <4>1, OnlyNothingIsAllFee
      <4> QED
        BY <3>1, <4>2
    <3> QED
      BY <3>1, <3>5, <3>6
  <2> QED
    BY <2>1, <2>2, <2>3 DEF NothingInv, Solo
<1> QED
  BY <1>1, <1>2, <1>3, <1>4, <1>5, NextKinds DEF Kind

LEMMA NoRefundOfCancelled ==
    ASSUME Solo, TwoNights
    PROVE  Spec => [][~RefundOfCancelled]_vars
<1>1. Init => NothingInv
  BY DEF Init, Idle, NothingInv, Placed
<1>2. IInv /\ SoloInv /\ NothingInv /\ [Next]_vars => NothingInv'
  BY NothingStep
<1>3. IInv /\ SoloInv /\ NothingInv /\ [Next]_vars => [~RefundOfCancelled]_vars
  <2> SUFFICES ASSUME IInv, SoloInv, NothingInv, [Next]_vars, RefundOfCancelled
               PROVE  FALSE
    BY DEF vars
  <2> PICK w \in Workers : /\ call[w].pc = "idle" /\ call'[w].pc = "refund_row"
                           /\ orders[call'[w].order].status = "cancelled"
    BY DEF RefundOfCancelled
  <2>1. ~Kind(w) /\ ~Breaks(w)
    BY DEF Kind, Goes, Places, Writes, Moves, Refunds, Releases, Breaks, WritePCs, OrderPCs
  <2>2. Opens(w)
    BY <2>1, NextKinds DEF Solo
  <2>3. /\ call'[w].order \in Placed /\ 0 < call'[w].amount
        /\ call'[w].amount <= orders[call'[w].order].total
    BY <2>2 DEF Opens
  <2>4. orders[call'[w].order].total = 0
    BY <2>3 DEF NothingInv
  <2>5. call'[w].amount \in Int
    BY NextIInv DEF IInv, TypeOK, Frame
  <2> QED
    BY <2>3, <2>4, <2>5
<1> QED
  BY <1>1, <1>2, <1>3, Invariance, SoloInvariance, PTL DEF Spec

(* With one worker and stays of at least two nights, the hotel keeps its   *)
(* books: no oversale whatever fails, no night lost until a call fails,    *)
(* and a closed order stays closed.                                        *)
THEOREM LongStaysAreSafe ==
    ASSUME Solo, TwoNights
    PROVE  Spec => []InventoryCovered /\ []NoOversell /\ []InventoryExact /\ FinalIsFinal
  BY NoRefundOfCancelled, RoomsAreCovered, RoomsAreExact, ClosedOrdersStayClosed

=============================================================================
