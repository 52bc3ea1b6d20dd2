CONSTANTS
    Sessions = {s1, s2}
    Tasks = {t1, t2}
    Decisions = {approve, reject}
    MaxInFlight = 2
    MaxEvents = 2
    None = None
    Keep = Keep
SPECIFICATION FairSpec
INVARIANT LockedHasWayOut
INVARIANT OneTaskAtATime
PROPERTY DecidedAsShown
PROPERTY TabSettles
\* The user may simply stop.
CHECK_DEADLOCK FALSE
