CONSTANTS
    u1 = u1
    u2 = u2
    t1 = t1
    t2 = t2
    r1 = r1
    Users = {u1, u2}
    Tasks = {t1, t2}
    Owner <- TwoUsers
    Workers = {w1, w2}
    Quotes = {q1}
    Orders = {o1, o2}
    Rooms = {r1}
    Capacity <- OneRoom
    Rate <- NightRate
    Stays <- MixedStays
    RefundAmounts = {6}
    PaymentModes = {"success", "decline", "fail_after_capture"}
    MaxDay = 0
    MaxFaults = 1
    MaxRefunds = 1
    None = None
SPECIFICATION Spec
INVARIANT TypeOK
INVARIANT OneOrderPerKey
INVARIANT RefundedHasRefundRow
PROPERTY ApartPaymentsAgree
\* Users may simply stop asking.
CHECK_DEADLOCK FALSE
