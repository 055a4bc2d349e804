SPECIFICATION InstrumentationSpec
CONSTANTS
    Flows = {f1, f2}
    Transactions = {t1}
    Spans = {s1, s2, s3}
    MaxSpans = {1}
    Requests = {r1}
    EfCommands = {c1}
    SqlCommands = {c2}
    None = None
SYMMETRY Symmetry
VIEW Unsent
CHECK_DEADLOCK FALSE
INVARIANTS
    CommandCapturedOnce
    NothingLeftOpen
    OpenIsTracked
    StackIsKept
