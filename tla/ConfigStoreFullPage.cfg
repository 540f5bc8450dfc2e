SPECIFICATION PoweredSpec
CONSTANTS
    KeyBits <- TwoKeyBits
    LenBits <- TwoLenBits
    Keys <- TwoKeys
    NoValue = NoValue
    Values <- AnyEntries
    AreaWords = 6
INVARIANT FitsIsExact
PROPERTY StoredMeansStored
