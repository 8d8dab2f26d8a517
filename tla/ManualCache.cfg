SPECIFICATION MCSpec
CONSTANTS
    f1 = f1
    f2 = f2
    elsewhere = elsewhere
    fetch = fetch
    check = check
    a = a
    b = b
    blank = blank
    None = None
    Process <- MCProcess
    Fetcher <- MCFetcher
    Filename <- MCFilename
    PdfName <- MCPdfName
    Body <- MCBody
    Empty <- empty
    Prefix <- MCPrefix
    DocumentId <- MCDocumentId
    Marker <- MCMarker
    Blank = blank
    Manifest <- MCManifest
INVARIANTS CacheInvariant CacheHoldsNothingElse SuccessMeansCached
PROPERTIES OnlyWrongManualsAreReplaced FetchingConverges
