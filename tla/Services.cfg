\* One service at a time; several of them stop for good at their bounds.
SPECIFICATION Spec
CONSTANTS
    Clients = {"c1", "c2"}
    Books = {"a", "b"}
    LibraryIds = {"l1", "l2"}
    Providers = {"local", "drive"}
    ProviderOf <- MCProviderOf
    Enrichments = {"enrichment"}
    Recordings = {"recording"}
    Editors = {"editor"}
    Candidates <- MCCandidates
    Flights = {"f1", "f2"}
    Pages = {1, 2}
    Collected <- MCCollected
    Online <- MCOnline
    MaxVersion <- MCMaxVersion
    Archives <- MCArchives
    Capacity = 1
    Bases <- MCBases
    Placeholders <- MCPlaceholders
    Attempts = 2
    Threshold = 2
    MaxWritten = 2
    MaxResets = 1
    MaxGrants = 2
    MaxRuns = 2
    MaxExtractions = 2
    MaxVersions = 3
    MaxFileChanges = 1
    MaxEdits = 2
    MaxKept = 2
    MaxSize = 3
    MaxSafe = 4
    MaxSaves = 3
    MaxStops = 1
CHECK_DEADLOCK FALSE
INVARIANTS
    ServicesTyped
    AnswerWasGranted
    CoverIsCurrent
    ForeignTitleMatches
    UncertainIsReviewed
    IsbnsAgree
    OneWatcher
    PageIsOfTheFile
    RangesAgree
    BookShowsItsLibrary
PROPERTIES
    VersionGuardsNewest
    CopyConverges
    RevocationArrives
    
    LookupsSucceed
    IndexNeverGoesBack
    ListConverges
    ChangesAreListed
    NothingLost
    StartsSucceed
