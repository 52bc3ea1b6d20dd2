CONSTANTS
    u1 = u1
    u2 = u2
    t1 = t1
    t2 = t2
    r1 = r1
    Users = {u1, u2}
    Tasks = {t1}
    Owner <- OneUser
    Workers = {w1}
    Quotes = {q1, q2}
    Orders = {o1, o2}
    Rooms = {r1}
    Capacity <- OneRoom
    Rate <- NightRate
    Stays <- TwoNightStays
    RefundAmounts = {6}
    PaymentModes = {"success", "decline", "fail_after_capture"}
    MaxDay = 1
    MaxFaults = 1
    MaxRefunds = 2
    None = None
SPECIFICATION FairSpec
INVARIANT StatusPaymentAgree
INVARIANT InventoryCovered
PROPERTY FinalIsFinal
INVARIANT InventoryExact
INVARIANT PendingOnlyInFlight
INVARIANT RefundsWithinTotal
PROPERTY CallsEnd
PROPERTY CompensationCompletes
\* Users may simply stop asking.
CHECK_DEADLOCK FALSE
