CONSTANTS
    Prices = {2, 3}
    Qtys = {1, 2}
    TradeSize = 1
    Threshold = 1
    SizeMax = 2
    PositionMax = 2
    LossMax <- MC_LossMax
    MaxTicks = 3
    INVALID = INVALID
    OID_INVALID = OID_INVALID
SPECIFICATION Spec
INVARIANT OrderRequestsSound
CHECK_DEADLOCK FALSE
