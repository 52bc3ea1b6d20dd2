CONSTANTS
    Sessions = {s1}
    Tasks = {t1}
    Handlers = {h1}
    Workers = {w1}
    SessionTTL = 2
    TaskTTL = 2
    Forever = Forever
    None = None
SPECIFICATION Spec
INVARIANT StaysDeleted
\* Users may send no more requests.
CHECK_DEADLOCK FALSE
