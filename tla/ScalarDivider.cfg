SPECIFICATION MCSpec
CONSTANTS
    Tag = {z, t0, t1}
    ZeroTag = z
    None = None
    XLEN = 4
    OperandSize = {"LONG", "QUAD"}
    Width <- MCWidth
    Request <- AllRequests
INVARIANTS TypeOK Recurrence ResponseIsArchitectural
PROPERTIES ImplementsUnit UnsquashedIsAnswered AlwaysReadyAgain
