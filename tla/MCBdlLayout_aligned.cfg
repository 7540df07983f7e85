CONSTANTS
    PageSize = 4
    MaxEntries = 16
    Sizes <- AlignedSizes
    Notifications = {1, 2}
SPECIFICATION Spec
INVARIANT StartsAtOffset
CHECK_DEADLOCK FALSE
