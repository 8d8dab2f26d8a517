SPECIFICATION MCSpec
CONSTANTS
    Tag = {t0, t1}
    ZeroTag = t0
    None = None
    XLEN = 4
    OperandSize = {"LONG", "QUAD"}
    Width <- MCWidth
    Request <- AllRequests
    BitAnd <- MCAnd
    BitOr <- MCOr
    BitXor <- MCXor
INVARIANTS TypeOK ConditionsOrderComparedOperands
PROPERTIES ImplementsUnit
