CONSTANTS
    Socket = {w1, w2, w3}
    None = None
    MaxMounts = 4
    MaxDrops = 4
SPECIFICATION FairSpec
INVARIANTS OneConnection NeverStranded BadgeIsHonest
PROPERTIES ComesBack
CHECK_DEADLOCK FALSE
