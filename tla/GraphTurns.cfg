CONSTANTS
    discovery = discovery
    booking = booking
    search = search
    quote = quote
    book = book
    to_booking = to_booking
    to_discovery = to_discovery
    a1 = a1
    a2 = a2
    Roles = {discovery, booking}
    Reads = {search, quote}
    Writes = {book}
    Handoffs = {to_booking, to_discovery}
    Toolbox <- TwoToolboxes
    Target <- TwoTargets
    Args = {a1, a2}
    Forged = {book}
    MaxReads = 2
    MaxHandoffs = 1
    MaxCalls = 2
    MaxWrites = 1
    MaxTurns = 2
    None = None
SPECIFICATION FairSpec
INVARIANT TypeOK
INVARIANT CallsAreCurrent
INVARIANT ReadsBounded
PROPERTY ReadsAsAsked
PROPERTY GateSpec
PROPERTY TurnEnds
\* A conversation may simply end.
CHECK_DEADLOCK FALSE
