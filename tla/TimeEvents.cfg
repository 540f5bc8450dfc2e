SPECIFICATION Spec
CONSTANTS
    TIME_EVENTS = 2
    Modulus = 22
    early_wakeup_advance = 3
    TIME_SLEEP_THRESHOLD = 2
    MaxDelay = 5
    MaxLag = 1
INVARIANTS
    NeverLate
    PreparedInTime
PROPERTIES
    NeverEarly
    PreparedFirst
