SPECIFICATION PublicationSpec
CONSTANTS
    Runner = {r1, r2}
    BuildFile = {f1, f2, f3}
    None = None
INVARIANTS InterruptedBuildKeepsOutput
