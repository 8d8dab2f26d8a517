SPECIFICATION FairSpec
CONSTANTS
    Tag = {t0, t1}
    ZeroTag = t0
    None = None
    XLEN = 4
    OperandSize = {"LONG", "QUAD"}
    Width <- MCWidth
    Request <- FewRequests
INVARIANTS TypeOK
PROPERTIES ImplementsUnit UnsquashedIsAnswered
