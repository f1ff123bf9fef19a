CONSTANTS
    View = {v1, v2}
    Query = {q1, q2}
    FetchId = {f1, f2, f3}
    Attempts = 3
    MaxRuns = 3
    None = None
    Paused = Paused
SPECIFICATION FairSpec
INVARIANTS OneFetchPerQuery AwaitedIsInFlight SettledViewIsCurrent
PROPERTIES ViewsSettle
CHECK_DEADLOCK FALSE
