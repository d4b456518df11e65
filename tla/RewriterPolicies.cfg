CONSTANTS
    WorkingDir <- MCWorkingDir
    RssRange <- ShippedRss
    HeapTotalRange <- ShippedHeapTotal
    HeapUsedRange <- ShippedHeapUsed
    BuildMillis = 1774
    Index <- MCIndex
    ClientRequests <- MCRequests
    Options <- MCOptions
SPECIFICATION RewriteSpec
CHECK_DEADLOCK FALSE
INVARIANTS NothingOfTheClient NothingElseChanges HashMatchesMessage
PROPERTIES RelayChangesNothing
