SPECIFICATION Spec
CONSTANTS
    Base = 64
    Width = 4
    Order = 16777213
    SequenceTag = 48
    IntegerTag = 2
    HighBit = 32
    Keys = {a, b}
    NoKey = NoKey
    a = a
    b = b
    Scalars <- MCScalars
    Bytes = {0, 1, 2, 32, 48}
INVARIANTS TypeOK CanonicalSignature FormsAreUnderstood SignatureIsOfKeptKey
CHECK_DEADLOCK FALSE
