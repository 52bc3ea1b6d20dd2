CONSTANTS
    Sessions = {s1, s2}
    Tasks = {t1, t2}
    Decisions = {approve}
    MaxInFlight = 1
    MaxEvents = 0
    None = None
    Keep = Keep
SPECIFICATION Spec
INVARIANT AnswerShown
\* The user may simply stop.
CHECK_DEADLOCK FALSE
