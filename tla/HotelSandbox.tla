---------------------------- MODULE HotelSandbox ----------------------------
(***************************************************************************)
(* The transactional core: HotelSandboxService (travel/service.py) running *)
(* over PostgresTravelRepository (travel/repository.py).                   *)
(*                                                                         *)
(* Every repository method is one database transaction, hence one atomic   *)
(* step.  A service method is a sequence of such steps: between two of     *)
(* them another worker may run, the next await may raise, or the worker    *)
(* process may die.  A worker executes one call at a time (the worker is   *)
(* started with the solo pool); call[w] is that call's Python frame.       *)
(***************************************************************************)
EXTENDS Integers, FiniteSets

CONSTANTS
    Users,          \* application users
    Tasks,          \* agent task ids; a task runs on behalf of one user
    Owner,          \* Owner[t]: the user of task t
    Workers,        \* Celery worker processes
    Quotes,         \* quote ids (fresh uuids)
    Orders,         \* order ids (fresh uuids)
    Rooms,          \* rows of travel_room_inventory
    Capacity,       \* Capacity[r]: travel_room_inventory.available_rooms
    Rate,           \* Rate[r]: nightly rate
    Stays,          \* the (check-in, check-out) pairs the agent may ask for
    RefundAmounts,  \* the amounts request_refund may be called with
    PaymentModes,   \* SANDBOX_PAYMENT_MODE settings workers may start with
    MaxDay,         \* bound: last day the clock reaches
    MaxFaults,      \* bound: failed awaits and worker crashes
    MaxRefunds,     \* bound: refund rows an order may have when a call begins
    None            \* no row / Python None

Stay(s) == s \in [in : Int, out : Int]

ASSUME OwnerAssumption    == Owner \in [Tasks -> Users]
ASSUME CapacityAssumption == Capacity \in [Rooms -> Nat]
ASSUME RateAssumption     == Rate \in [Rooms -> Nat]
ASSUME StaysAssumption    == \A s \in Stays : Stay(s)
ASSUME AmountAssumption   == RefundAmounts \subseteq Int
ASSUME ModeAssumption     ==
    PaymentModes \subseteq {"success", "decline", "fail_after_capture"}
ASSUME BoundAssumption    == MaxDay \in Nat /\ MaxFaults \in Nat /\ MaxRefunds \in Nat
VARIABLES
    quotes,   \* travel_quotes: a row or None for every quote id
    orders,   \* travel_orders with travel_payments (written together)
    avail,    \* travel_daily_inventory: avail[r][d], lazily inserted at Capacity[r]
    refunds,  \* travel_refunds per order: how many rows, and their sum
    call,     \* the service call each worker is executing
    today,    \* today_provider()
    faults    \* failures so far

vars == <<quotes, orders, avail, refunds, call, today, faults>>

OrderStatus   == {"payment_pending", "confirmed", "change_pending", "cancel_pending",
                  "cancelled", "refunded", "payment_failed"}
PaymentStatus == {"pending", "captured", "declined", "refunded"}

Nights(s) == s.in .. (s.out - 1)
Days      == UNION {Nights(s) : s \in Stays}

QuoteRow == [user : Users, room : Rooms, stay : Stays, total : Nat,
             accepted : BOOLEAN, expired : BOOLEAN]
OrderRow == [user : Users, task : Tasks, quote : Quotes, stay : Stays, total : Nat,
             status : OrderStatus, payment : PaymentStatus]

ASSUME NoneAssumption     == None \notin QuoteRow \cup OrderRow

Quoted == {q \in Quotes : quotes[q] # None}
Placed == {o \in Orders : orders[o] # None}

-----------------------------------------------------------------------------
(* Call frames.                                                            *)

Ops == {"none", "quote", "confirm", "change", "cancel", "refund"}
PCs == {"idle", "save_quote", "create_order", "settle", "mark_pending", "move_dates",
        "refund_row", "mark_refunded", "mark_cancelled", "revert", "release"}

Frame == [op : Ops, pc : PCs, task : Tasks \cup {None}, quote : Quotes \cup {None},
          order : Orders \cup {None}, room : Rooms \cup {None},
          stay : Stays \cup {None}, amount : Int,
          mode : PaymentModes \cup {None}]

Idle == [op |-> "none", pc |-> "idle", task |-> None, quote |-> None, order |-> None,
         room |-> None, stay |-> None, amount |-> 0, mode |-> None]

At(w, pc)     == call[w].pc = pc
Begin(w, f)   == At(w, "idle") /\ call' = [call EXCEPT ![w] = f]
Return(w)     == call' = [call EXCEPT ![w] = Idle]
Continue(w, pc) == call' = [call EXCEPT ![w].pc = pc]

InTryReleaseMutant(f) ==
    \/ f.op = "change" /\ f.pc = "move_dates"
    \/ f.op = "cancel" /\ f.pc \in {"refund_row", "mark_refunded", "mark_cancelled", "release"}

(* Blocks of cancel_booking and change_dates guarded by try/except.        *)
InTry(f) == \/ f.op = "change" /\ f.pc = "move_dates"
            \/ f.op = "cancel" /\ f.pc \in {"refund_row", "mark_refunded", "mark_cancelled"}

-----------------------------------------------------------------------------
(* Repository operators.                                                   *)

Bookable(a, r, s) == \A d \in Nights(s) : a[r][d] > 0

Hold(a, r, s) ==
    [a EXCEPT ![r] = [d \in Days |-> IF d \in Nights(s) THEN a[r][d] - 1 ELSE a[r][d]]]

Least(x, y) == IF x < y THEN x ELSE y

(* Variants named ...Mutant are plausible slips; each must break a property. *)
FreeUncappedMutant(a, r, s) ==
    [a EXCEPT ![r] = [d \in Days |-> IF d \in Nights(s) THEN a[r][d] + 1 ELSE a[r][d]]]

FreeShortMutant(a, r, s) ==
    [a EXCEPT ![r] = [d \in Days |-> IF d \in s.in .. (s.out - 2)
                                     THEN Least(a[r][d] + 1, Capacity[r]) ELSE a[r][d]]]

Free(a, r, s) ==
    [a EXCEPT ![r] = [d \in Days |-> IF d \in Nights(s)
                                     THEN Least(a[r][d] + 1, Capacity[r]) ELSE a[r][d]]]

OrdersWithKeyMutant(t, q) == {}

OrdersWithKey(t, q) == {o \in Placed : orders[o].task = t /\ orders[o].quote = q}

NewOrder(t, q) ==
    [user |-> quotes[q].user, task |-> t, quote |-> q, stay |-> quotes[q].stay,
     total |-> quotes[q].total, status |-> "payment_pending", payment |-> "pending"]

UpdateOrderMutant(o, status, payment) == orders' = [orders EXCEPT ![o].status = status]

UpdateOrder(o, status, payment) ==
    orders' = [orders EXCEPT ![o].status = status, ![o].payment = payment]

RoomOf(o) == quotes[orders[o].quote].room

-----------------------------------------------------------------------------
(* create_quote: list the rooms that are free, then save the quote.        *)

ValidStay(s) == today <= s.in /\ s.in < s.out

BeginQuote(w, t, r, s) ==
    /\ ValidStay(s)
    /\ Bookable(avail, r, s)
    /\ \E q \in Quotes : quotes[q] = None          \* bound: an id is left
    /\ Begin(w, [Idle EXCEPT !.op = "quote", !.pc = "save_quote", !.task = t,
                             !.room = r, !.stay = s])
    /\ UNCHANGED <<quotes, orders, avail, refunds, today, faults>>

Price(r, s) == Rate[r] * (s.out - s.in)

SaveQuote(w) ==
    /\ At(w, "save_quote")
    /\ \E q \in Quotes \ Quoted :
         quotes' = [quotes EXCEPT ![q] =
             [user |-> Owner[call[w].task], room |-> call[w].room, stay |-> call[w].stay,
              total |-> Price(call[w].room, call[w].stay),
              accepted |-> FALSE, expired |-> FALSE]]
    /\ Return(w)
    /\ UNCHANGED <<orders, avail, refunds, today, faults>>

-----------------------------------------------------------------------------
(* confirm_booking: the payment saga.  The idempotency key is              *)
(* task_id:quote_id; the quote's own status is not looked at.              *)

BeginConfirm(w, t, q, m) ==
    /\ q \in Quoted
    /\ quotes[q].user = Owner[t]
    /\ ~quotes[q].expired
    /\ \E o \in Orders : orders[o] = None          \* bound: an id is left
    /\ Begin(w, [Idle EXCEPT !.op = "confirm", !.pc = "create_order", !.task = t,
                             !.quote = q, !.mode = m])
    /\ UNCHANGED <<quotes, orders, avail, refunds, today, faults>>

(* create_order finds a row for the key: an idempotent replay, unless the  *)
(* order is still waiting for its payment, when the saga goes on with it.  *)
ReplayOrder(w) ==
    /\ At(w, "create_order")
    /\ \E o \in OrdersWithKey(call[w].task, call[w].quote) :
         IF orders[o].status = "payment_pending"
         THEN call' = [call EXCEPT ![w].pc = "settle", ![w].order = o]
         ELSE Return(w)
    /\ UNCHANGED <<quotes, orders, avail, refunds, today, faults>>

PlaceOrder(w) ==
    LET t == call[w].task
        q == call[w].quote
        s == quotes[q].stay
    IN  /\ At(w, "create_order")
        /\ OrdersWithKey(t, q) = {}
        /\ Bookable(avail, quotes[q].room, s)
        /\ avail' = Hold(avail, quotes[q].room, s)
        /\ \E o \in Orders \ Placed :
             /\ orders' = [orders EXCEPT ![o] = NewOrder(t, q)]
             /\ call' = [call EXCEPT ![w].pc = "settle", ![w].order = o]
        /\ quotes' = [quotes EXCEPT ![q].accepted = TRUE]
        /\ UNCHANGED <<refunds, today, faults>>

SoldOut(w) ==
    /\ At(w, "create_order")
    /\ OrdersWithKey(call[w].task, call[w].quote) = {}
    /\ ~Bookable(avail, quotes[call[w].quote].room, quotes[call[w].quote].stay)
    /\ Return(w)
    /\ UNCHANGED <<quotes, orders, avail, refunds, today, faults>>

(* The payment outcome.  A declined order gives its nights back; a failure *)
(* after the capture is compensated with a full refund.                    *)
Decline(w) ==
    LET o == call[w].order
    IN  /\ At(w, "settle")
        /\ call[w].mode = "decline"
        /\ UpdateOrder(o, "payment_failed", "declined")
        /\ call' = [call EXCEPT ![w].pc = "release", ![w].stay = orders[o].stay]
        /\ UNCHANGED <<quotes, avail, refunds, today, faults>>

Capture(w) ==
    LET o == call[w].order
    IN  /\ At(w, "settle")
        /\ call[w].mode # "decline"
        /\ UpdateOrder(o, "confirmed", "captured")
        /\ IF call[w].mode = "fail_after_capture"
           THEN call' = [call EXCEPT ![w].pc = "refund_row",
                                     ![w].amount = orders[o].total]
           ELSE Return(w)
        /\ UNCHANGED <<quotes, avail, refunds, today, faults>>

-----------------------------------------------------------------------------
(* change_dates, cancel_booking, request_refund: each begins by reading    *)
(* the order of the current user and checking it.                          *)

Owned(t, o) == o \in Placed /\ orders[o].user = Owner[t]

Changeable(o)    == orders[o].status = "confirmed"
CancellableMutant(o) == orders[o].total > 0

Cancellable(o)   == orders[o].status = "confirmed"
RefundableMutant(o, n) == 0 < n /\ n <= orders[o].total

Refundable(o, n) == orders[o].payment = "captured" /\ 0 < n /\ n <= orders[o].total

BeginChange(w, t, o, s) ==
    /\ Owned(t, o) /\ Changeable(o) /\ ValidStay(s)
    /\ Begin(w, [Idle EXCEPT !.op = "change", !.pc = "mark_pending", !.order = o,
                             !.stay = s])
    /\ UNCHANGED <<quotes, orders, avail, refunds, today, faults>>

BeginCancel(w, t, o) ==
    /\ Owned(t, o) /\ Cancellable(o)
    /\ refunds[o].count < MaxRefunds                \* bound
    /\ Begin(w, [Idle EXCEPT !.op = "cancel", !.pc = "mark_pending", !.order = o,
                             !.stay = orders[o].stay])
    /\ UNCHANGED <<quotes, orders, avail, refunds, today, faults>>

BeginRefund(w, t, o, n) ==
    /\ Owned(t, o) /\ Refundable(o, n)
    /\ refunds[o].count < MaxRefunds                \* bound
    /\ Begin(w, [Idle EXCEPT !.op = "refund", !.pc = "refund_row", !.order = o,
                             !.amount = n])
    /\ UNCHANGED <<quotes, orders, avail, refunds, today, faults>>

(* Cancellation refunds everything until the day before check-in, then all *)
(* but one night: for a single night that is nothing.                      *)
CancelRefund(total, s) ==
    IF s.in > today + 1 THEN total ELSE total - total \div (s.out - s.in)

MarkPending(w) ==
    LET o == call[w].order
        n == CancelRefund(orders[o].total, call[w].stay)
    IN  /\ At(w, "mark_pending")
        /\ \/ /\ call[w].op = "change"
              /\ UpdateOrder(o, "change_pending", orders[o].payment)
              /\ Continue(w, "move_dates")
           \/ /\ call[w].op = "cancel"
              /\ UpdateOrder(o, "cancel_pending", orders[o].payment)
              /\ call' = [call EXCEPT
                     ![w].pc = IF n > 0 THEN "refund_row" ELSE "mark_cancelled",
                     ![w].amount = n]
        /\ UNCHANGED <<quotes, avail, refunds, today, faults>>

(* change_order_dates: give the old nights back, take the new ones and     *)
(* confirm the order, in one transaction.  A sold-out night rolls it back. *)
AfterFree(o) == Free(avail, RoomOf(o), orders[o].stay)

MoveNightsMutant(o, s) == AfterFree(o)

MoveNights(o, s) == Hold(AfterFree(o), RoomOf(o), s)

MoveDates(w) ==
    LET o == call[w].order
        s == call[w].stay
    IN  /\ At(w, "move_dates")
        /\ Bookable(AfterFree(o), RoomOf(o), s)
        /\ avail' = MoveNights(o, s)
        /\ orders' = [orders EXCEPT ![o].stay = s, ![o].status = "confirmed"]
        /\ Return(w)
        /\ UNCHANGED <<quotes, refunds, today, faults>>

MoveSoldOutForgetsMutant(w) ==
    /\ At(w, "move_dates")
    /\ ~Bookable(AfterFree(call[w].order), RoomOf(call[w].order), call[w].stay)
    /\ Return(w)
    /\ UNCHANGED <<quotes, orders, avail, refunds, today, faults>>

MoveSoldOutRetriesMutant(w) ==
    /\ At(w, "move_dates")
    /\ ~Bookable(AfterFree(call[w].order), RoomOf(call[w].order), call[w].stay)
    /\ UNCHANGED vars

MoveSoldOut(w) ==
    /\ At(w, "move_dates")
    /\ ~Bookable(AfterFree(call[w].order), RoomOf(call[w].order), call[w].stay)
    /\ Continue(w, "revert")
    /\ UNCHANGED <<quotes, orders, avail, refunds, today, faults>>

(* The except branch of change_dates and cancel_booking.                   *)
Revert(w) ==
    /\ At(w, "revert")
    /\ UpdateOrder(call[w].order, "confirmed", orders[call[w].order].payment)
    /\ Return(w)
    /\ UNCHANGED <<quotes, avail, refunds, today, faults>>

RefundRowMutant(o, n) == refunds

RefundRow(o, n) ==
    [refunds EXCEPT ![o] = [count |-> refunds[o].count + 1, total |-> refunds[o].total + n]]

RecordRefundMutant(w) ==
    /\ At(w, "refund_row")
    /\ refunds' = RefundRow(call[w].order, call[w].amount)
    /\ Return(w)
    /\ UNCHANGED <<quotes, orders, avail, today, faults>>

RecordRefund(w) ==
    /\ At(w, "refund_row")
    /\ refunds' = RefundRow(call[w].order, call[w].amount)
    /\ Continue(w, "mark_refunded")
    /\ UNCHANGED <<quotes, orders, avail, today, faults>>

MarkRefunded(w) ==
    /\ At(w, "mark_refunded")
    /\ UpdateOrder(call[w].order, "refunded", "refunded")
    /\ call' = [call EXCEPT ![w].pc = "release", ![w].stay = orders[call[w].order].stay]
    /\ UNCHANGED <<quotes, avail, refunds, today, faults>>

MarkCancelled(w) ==
    /\ At(w, "mark_cancelled")
    /\ UpdateOrder(call[w].order, "cancelled", orders[call[w].order].payment)
    /\ call' = [call EXCEPT ![w].pc = "release", ![w].stay = orders[call[w].order].stay]
    /\ UNCHANGED <<quotes, avail, refunds, today, faults>>

(* release_inventory runs in a transaction of its own, for the dates of    *)
(* the order object the status update returned.                            *)
ReleaseInventory(w) ==
    /\ At(w, "release")
    /\ avail' = Free(avail, RoomOf(call[w].order), call[w].stay)
    /\ Return(w)
    /\ UNCHANGED <<quotes, orders, refunds, today, faults>>

-----------------------------------------------------------------------------
(* Failures and time.                                                      *)

(* The await of the next step raises and its transaction has no effect.    *)
Fail(w) ==
    /\ ~At(w, "idle") /\ faults < MaxFaults
    /\ faults' = faults + 1
    /\ IF InTry(call[w]) THEN Continue(w, "revert") ELSE Return(w)
    /\ UNCHANGED <<quotes, orders, avail, refunds, today>>

(* The worker process dies.  Its message was acknowledged when it was      *)
(* received, so the call is not run again.                                 *)
Crash(w) ==
    /\ ~At(w, "idle") /\ faults < MaxFaults
    /\ faults' = faults + 1
    /\ Return(w)
    /\ UNCHANGED <<quotes, orders, avail, refunds, today>>

NextDay ==
    /\ today < MaxDay
    /\ today' = today + 1
    /\ UNCHANGED <<quotes, orders, avail, refunds, call, faults>>

ExpireQuote(q) ==
    /\ q \in Quoted /\ ~quotes[q].expired
    /\ quotes' = [quotes EXCEPT ![q].expired = TRUE]
    /\ UNCHANGED <<orders, avail, refunds, call, today, faults>>

-----------------------------------------------------------------------------

Init ==
    /\ quotes = [q \in Quotes |-> None]
    /\ orders = [o \in Orders |-> None]
    /\ avail = [r \in Rooms |-> [d \in Days |-> Capacity[r]]]
    /\ refunds = [o \in Orders |-> [count |-> 0, total |-> 0]]
    /\ call = [w \in Workers |-> Idle]
    /\ today = 0
    /\ faults = 0

(* A tool call of some task reaches the service.                           *)
Request(w) ==
    \E t \in Tasks :
        \/ \E r \in Rooms, s \in Stays : BeginQuote(w, t, r, s)
        \/ \E q \in Quotes, m \in PaymentModes : BeginConfirm(w, t, q, m)
        \/ \E o \in Orders :
             \/ \E s \in Stays : BeginChange(w, t, o, s)
             \/ BeginCancel(w, t, o)
             \/ \E n \in RefundAmounts : BeginRefund(w, t, o, n)

(* The call a worker is executing takes its next step.                     *)
Step(w) ==
    \/ SaveQuote(w)
    \/ ReplayOrder(w) \/ PlaceOrder(w) \/ SoldOut(w) \/ Decline(w) \/ Capture(w)
    \/ MarkPending(w) \/ MoveDates(w) \/ MoveSoldOut(w) \/ Revert(w)
    \/ RecordRefund(w) \/ MarkRefunded(w) \/ MarkCancelled(w) \/ ReleaseInventory(w)

Next ==
    \/ \E w \in Workers : Request(w) \/ Step(w) \/ Fail(w) \/ Crash(w)
    \/ \E q \in Quotes : ExpireQuote(q)
    \/ NextDay

Spec == Init /\ [][Next]_vars

(* A running coroutine is always scheduled again: the worker has nothing   *)
(* else to do until the call ends.  Requests, failures and the clock are   *)
(* not owed to anybody.                                                    *)
FairSpec == Spec /\ \A w \in Workers : WF_vars(Step(w))

-----------------------------------------------------------------------------
(* Properties.                                                             *)

(* Every row and every frame has its type; availability stays between      *)
(* sold out and the room's capacity (the CHECK of the schema and the LEAST *)
(* of the releases).                                                       *)
TypeOK ==
    /\ quotes \in [Quotes -> QuoteRow \cup {None}]
    /\ orders \in [Orders -> OrderRow \cup {None}]
    /\ avail \in [Rooms -> [Days -> Int]]
    /\ \A r \in Rooms : \A d \in Days : avail[r][d] \in 0 .. Capacity[r]
    /\ refunds \in [Orders -> [count : Nat, total : Int]]
    /\ call \in [Workers -> Frame]
    /\ today \in 0 .. MaxDay
    /\ faults \in 0 .. MaxFaults

(* However often a confirmation is retried, by however many workers and    *)
(* after whatever failure, a task confirms a quote with one order only.    *)
OneOrderPerKey ==
    \A o1, o2 \in Placed :
        /\ orders[o1].task = orders[o2].task
        /\ orders[o1].quote = orders[o2].quote
        => o1 = o2

(* Money is never reported as refunded without a refund on file.           *)
RefundedHasRefundRow ==
    \A o \in Placed : orders[o].payment = "refunded" => refunds[o].count > 0

(* The payment of an order agrees with the order's status: a guest with a  *)
(* live booking has paid and has not been paid back.                       *)
PaymentOf(status) ==
    CASE status = "payment_pending" -> "pending"
      [] status = "payment_failed"  -> "declined"
      [] status = "refunded"        -> "refunded"
      [] OTHER                      -> "captured"

StatusPaymentAgree ==
    \A o \in Placed : orders[o].payment = PaymentOf(orders[o].status)

(* No two calls are at work on one order.                                  *)
CallsApart ==
    \A v, w \in Workers :
        call[v].order \in Placed /\ call[v].order = call[w].order => v = w

(* Two calls at work on one order can part its status and its payment:     *)
(* each goes on from what it read before the other wrote.  Nothing else    *)
(* can, whatever workers do to other orders and whatever fails: a call     *)
(* that takes up an order where another left it finds all it relies on.    *)
ApartPaymentsAgree == []CallsApart => []StatusPaymentAgree

(* Orders a guest may still show up for on night d.                        *)
Live == {"payment_pending", "confirmed", "change_pending", "cancel_pending"}

LiveOrders(r, d) ==
    {o \in Placed : /\ RoomOf(o) = r
                    /\ d \in Nights(orders[o].stay)
                    /\ orders[o].status \in Live}

(* Every live order holds its nights: what the inventory offers and what   *)
(* the live orders occupy never exceed the room together, even when calls  *)
(* fail half-way.                                                          *)
InventoryCovered ==
    \A r \in Rooms, d \in Days :
        Cardinality(LiveOrders(r, d)) + avail[r][d] <= Capacity[r]

(* No room is sold to more guests than it has.                             *)
NoOversell ==
    \A r \in Rooms, d \in Days : Cardinality(LiveOrders(r, d)) <= Capacity[r]

(* Without failures no night is lost either: what is neither offered nor   *)
(* occupied is about to be released by a call in progress.                 *)
Releasing(r, d) ==
    {w \in Workers : /\ At(w, "release")
                     /\ RoomOf(call[w].order) = r
                     /\ d \in Nights(call[w].stay)}

InventoryExact ==
    faults = 0 =>
      \A r \in Rooms, d \in Days :
        Cardinality(LiveOrders(r, d)) + Cardinality(Releasing(r, d)) + avail[r][d]
            = Capacity[r]

(* As long as no call failed, an order is never paid back more than it     *)
(* cost.                                                                   *)
RefundsWithinTotal ==
    faults = 0 =>
      \A o \in Placed : refunds[o].total <= orders[o].total

(* The pending statuses only last while a call is working on the order,    *)
(* until one fails.                                                        *)
Transient == {"payment_pending", "change_pending", "cancel_pending"}

PendingOnlyInFlight ==
    faults = 0 =>
      \A o \in Placed :
        orders[o].status \in Transient =>
            \E w \in Workers : call[w].order = o /\ ~At(w, "idle")

(* An order that was refunded, cancelled or never paid stays so.           *)
Final == {"cancelled", "refunded", "payment_failed"}

FinalIsFinal ==
    [][\A o \in Placed : orders[o].status \in Final =>
            orders'[o].status = orders[o].status]_vars

(* Every call ends.                                                        *)
CallsEnd == \A w \in Workers : ~At(w, "idle") ~> At(w, "idle")

(* A capture whose booking then fails is paid back, unless a call failed.  *)
CompensationCompletes ==
    \A w \in Workers, o \in Orders :
        (/\ At(w, "refund_row")
         /\ call[w].op = "confirm"
         /\ call[w].order = o)
        ~> (orders[o] # None /\ orders[o].payment = "refunded") \/ faults > 0

=============================================================================
