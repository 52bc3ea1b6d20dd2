CONSTANTS
    Tabs = {b1}
    Decisions = {approve, reject}
    Tasks = {t1, t2}
    Workers = {w1}
    MaxApprovals = 2
    MaxCrashes = 1
    MaxOverlaps = 1
    None = None
SPECIFICATION FairSpec
INVARIANT TypeOK
INVARIANT InterruptedIsResumable
PROPERTY LoneDecidedAsShown
PROPERTY TaskSettles
PROPERTY TabAnswered
\* Humans may stop asking, and a crashed task leaves its tab waiting.
CHECK_DEADLOCK FALSE
