SPECIFICATION Spec
CONSTANTS
    Typed <- TypedPlain
    RawData <- ShortData
INVARIANTS
    BytesInOrder
    WholeKeystrokes
    OneWritePerKey
