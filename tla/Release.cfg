SPECIFICATION Spec
CONSTANTS
    MaxRuns = 3
    Events <- MCEvents
    Patience = 2
    NoVersion = NoVersion
INVARIANTS
    NoTagClash
    VersionsFollowPushes
PROPERTIES
    IndexRecovers
    HeadReleased
