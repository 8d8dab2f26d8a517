SPECIFICATION PublicationSpec
CONSTANTS
    Runner = {r1}
    BuildFile = {f1, f2, f3, f4}
    None = None
INVARIANTS PublicationInvariant OutputIsComplete SuccessIsDurable
PROPERTIES FailureKeepsOutput
