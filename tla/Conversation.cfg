CONSTANTS
    Artifacts = {a1}
    Totals = {1, 5}
    PageSize = 2
    Unset = Unset
    Missing = Missing
    RecentTurns = 2
    Trigger = 5
    MaxInput = 7
    Prompts = {0, 1}
    RoleExtras = {0, 2}
    Sizes = {1, 4}
    Summaries = {1, 3}
    NewFacts = {0, 2}
    MaxFacts = 2
    MaxCalls = 2
    MaxMessages = 7
SPECIFICATION Spec
INVARIANT MergedOnce
INVARIANT WholeTurns
INVARIANT CallsAnswered
INVARIANT OldTurnsMakeRoom
INVARIANT PagesInOrder
INVARIANT DatesNearest
\* A conversation may simply end.
CHECK_DEADLOCK FALSE
