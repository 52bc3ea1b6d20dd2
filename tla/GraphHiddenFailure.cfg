CONSTANTS
    discovery = discovery
    booking = booking
    search = search
    quote = quote
    book = book
    to_booking = to_booking
    to_discovery = to_discovery
    a1 = a1
    a2 = a2
    Roles = {discovery, booking}
    Reads = {search, quote}
    Writes = {book}
    Handoffs = {to_booking, to_discovery}
    Toolbox <- TwoToolboxes
    Target <- TwoTargets
    Args = {a1, a2}
    Forged = {}
    MaxReads = 2
    MaxHandoffs = 2
    MaxCalls = 2
    MaxWrites = 2
    MaxTurns = 1
    None = None
SYMMETRY Symmetry
SPECIFICATION Spec
INVARIANT FailureReported
\* A conversation may simply end.
CHECK_DEADLOCK FALSE
