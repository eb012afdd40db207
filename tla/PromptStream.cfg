SPECIFICATION Spec
CONSTANTS
    m1 = m1
    m2 = m2
    Cap = 3
    MaxLines = 4
    Values <- MCValues
    Events <- MCEvents
    Opening <- MCOpening
    None = None
INVARIANTS
    ResponseReleased
    ResultFaithful
    CompleteOrTruncated
PROPERTIES
    Terminates
