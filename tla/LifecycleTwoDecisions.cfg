CONSTANTS
    Tabs = {b1}
    Decisions = {approve, reject}
    Tasks = {t1}
    Workers = {w1}
    MaxApprovals = 2
    MaxCrashes = 0
    MaxOverlaps = 1
    None = None
SPECIFICATION Spec
PROPERTY DecidedAsShown
\* Humans may stop asking, and a crashed task leaves its tab waiting.
CHECK_DEADLOCK FALSE
