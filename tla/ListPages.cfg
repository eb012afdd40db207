SPECIFICATION Spec
CONSTANTS
    Rows <- MCRows
    Listings <- MCListings
    Fields <- MCFields
    Sizes = {1, 2, 3}
    Limits <- MCLimits
    None = None
INVARIANTS
    NothingMissedSilently
    CutsCounted
