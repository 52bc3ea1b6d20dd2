CONSTANTS
    u1 = u1
    u2 = u2
    t1 = t1
    t2 = t2
    r1 = r1
    Users = {u1, u2}
    Tasks = {t1, t2}
    Owner <- OneUser
    Workers = {w1}
    Quotes = {q1, q2}
    Orders = {o1, o2, o3}
    Rooms = {r1}
    Capacity <- OneRoom
    Rate <- NightRate
    Stays <- OneNightStays
    RefundAmounts = {6}
    PaymentModes = {"success"}
    MaxDay = 2
    MaxFaults = 0
    MaxRefunds = 1
    None = None
SYMMETRY Symmetry
SPECIFICATION Spec
INVARIANT NoOversell
\* Users may simply stop asking.
CHECK_DEADLOCK FALSE
