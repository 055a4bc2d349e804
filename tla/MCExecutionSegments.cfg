SPECIFICATION Spec
CONSTANTS
    Flows = {f1, f2}
    Transactions = {t1}
    Spans = {s1, s2, s3}
    MaxSpans = {1}
    None = None
SYMMETRY Symmetry
INVARIANTS SpanLimit ReportMatchesSpanCount QueuedOnce NoOrphans ReferencedIsSent
