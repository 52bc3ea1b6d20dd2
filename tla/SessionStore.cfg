CONSTANTS
    Sessions = {s1}
    Tasks = {t1, t2}
    Handlers = {h1, h2}
    Workers = {w1}
    SessionTTL = 2
    TaskTTL = 2
    Forever = Forever
    None = None
SPECIFICATION Spec
SYMMETRY Symmetry
INVARIANT RowsAreListed
INVARIANT DeletedIsGone
INVARIANT IndicesExpire
\* Users may send no more requests.
CHECK_DEADLOCK FALSE
