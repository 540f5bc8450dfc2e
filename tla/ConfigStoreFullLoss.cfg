SPECIFICATION Spec
CONSTANTS
    KeyBits <- TwoKeyBits
    LenBits <- TwoLenBits
    Keys <- TwoKeys
    NoValue = NoValue
    Values <- OneWord
    AreaWords = 7
PROPERTY CompactionKeepsStore
