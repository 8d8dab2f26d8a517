SPECIFICATION MCSpec
CONSTANTS
    a = a
    b = b
    m = m
    c1 = c1
    c2 = c2
    i1 = i1
    i2 = i2
    Missing = Missing
    Torn = Torn
    MaxMakes = 2
    File <- MCFile
    Miter = m
    Content <- MCContent
    Line <- MCLine
    Manifest <- MCManifest
    Lock <- MCLock
    Image = {i1, i2}
    Technology <- MCTechnology
    Count = {0, 1, 2}
    MinimumCells = 1
    Evidence <- MCEvidence
    RequiredEmptyReportFamilies = {"drc"}
    RequiredZeroMetrics = {"tns", "setup"}
    RequiredNonnegativeMetrics = {"ws"}
    RequiredPositiveMetrics = {"fmax"}
    FinalReportMetrics <- MCFinalReportMetrics
INVARIANTS TypeOK CurrentRecordsPassed SteadyRecordsAreReproducible AuditedEvidenceIsConsistent TechnologyUnitsAgree
PROPERTIES PassedIsRecorded
