CONSTANTS
    Socket = {w1, w2, w3}
    None = None
    MaxMounts = 3
    MaxDrops = 1
SPECIFICATION Spec
PROPERTIES ConnectMakesNoSecondSocket
CHECK_DEADLOCK FALSE
