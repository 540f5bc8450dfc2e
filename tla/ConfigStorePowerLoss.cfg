SPECIFICATION Spec
CONSTANTS
    KeyBits <- TwoKeyBits
    LenBits <- TwoLenBits
    Keys <- TwoKeys
    NoValue = NoValue
    Values <- EvenEntries
    AreaWords = 6
CONSTRAINT TornBound
INVARIANTS
    RunningIsDurable
    OneEntryPerKey
PROPERTIES
    ConfigMapSpec
    KeepsAFormattedPage
