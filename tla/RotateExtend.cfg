SPECIFICATION MCSpec
CONSTANTS
    Tag = {z, t0, t1}
    ZeroTag = z
    None = None
    XLEN = 16
    Stages = 4
    OperandSize = {"BYTE", "WORD", "LONG", "QUAD"}
    Width <- MCWidth
    Request <- AllRequests
INVARIANTS TypeOK RingIsPartlyRotated
PROPERTIES ImplementsUnit UnsquashedIsAnswered 
