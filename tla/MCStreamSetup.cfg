CONSTANTS
    PageSize = 4
    MaxEntries = 6
    Sizes <- AllSizes
    Notifications = {1, 2}
    Formats <- MCFormats
    ClientLists <- MCLists
SPECIFICATION SetupSpec
INVARIANT Covers
INVARIANT InterruptPoints
INVARIANT FitsList
INVARIANT FormatAgreed
INVARIANT PlaysItsBuffer
