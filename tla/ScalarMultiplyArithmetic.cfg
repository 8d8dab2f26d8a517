SPECIFICATION OneRequestSpec
CONSTANTS
    Tag = {t0}
    ZeroTag = t0
    None = None
    XLEN = 8
    OperandSize = {"WORD", "LONG", "QUAD"}
    Width <- MCWidth
    Request <- AllRequests
INVARIANTS ReductionKeepsTheProduct
PROPERTIES ImplementsUnit
