\* All calls on small buffers; messages, their variants and their way.
CONSTANTS
    Base = 4
    MaxLen = 3
    Widths = {1, 2}
    Texts <- SmallTexts
    Payloads <- SmallPayloads
    NodeId <- NodeBytes
    MaxMessage = 20
SPECIFICATION WireSpec
INVARIANTS InView ReadBack ArrivesUnchanged ForwardedVerbatim DecodeNeverThrows PrefixFree
PROPERTIES WritesInPlace
