\* Two connections at a time, three in all: an upload, a second one that
\* displaces it, and a download; every request, every way to stall or leave.
CONSTANTS
    Slots = {c1, c2}
    MaxRequests = 3
SPECIFICATION FairSpec
INVARIANTS
    TypeOK
    OneAnswer
    SilenceMeansUndone
    DownloadFollowsUploads
PROPERTIES
    StallsOnlyOnClient
\* A server nobody connects to any more has nothing to do.
CHECK_DEADLOCK FALSE
