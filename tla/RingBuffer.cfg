SPECIFICATION Spec
CONSTANTS
    Size = 4
    Items = {a, b}
INVARIANT NoOverwrite
PROPERTY FifoSpec
