SPECIFICATION Spec
CONSTANTS
    Periods = {1, 3}
    PERIOD_BATTERY_FLAT = 4
    SUPERVISORY_TIMEOUT = 2
    PROTO_PREPARETIME = 1
    BATTERY_BLINKS_VALID = 1
    max_anchors = 1
    min_responses = 0
    Console = FALSE
INVARIANT ActiveIsWatched
PROPERTIES
    RadioFreed
    KeepsBlinking
