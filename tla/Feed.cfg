CONSTANTS
    w1 = w1
    w2 = w2
    o1 = o1
    Socket = {w1, w2, o1}
    PageSocket = {w1, w2}
    TickTask = {k1, k2}
    ChannelCap = 1
    Throttle = 1
    Idle = Idle
    ListCap = 2
    PageSize <- MCPageSize
    Nothing = Nothing
    Asked = Asked
    Workload <- MCWorkload
    NoSocket = NoSocket
SPECIFICATION FairSpec
INVARIANTS SeriesAscending RowsAccounted PublishedInOrder
PROPERTIES BroadcastEnds
CHECK_DEADLOCK FALSE
