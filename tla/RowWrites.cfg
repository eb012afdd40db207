SPECIFICATION Spec
CONSTANTS
    c1 = c1
    c2 = c2
    blocked = blocked
    alias = alias
    key = key
    other = other
    yes = yes
    word = word
    on = on
    off = off
    Fields <- MCFields
    Required <- MCKey
    Unknown <- MCUnknown
    Values <- MCValues
    Types <- MCTypes
    Nullable <- MCNullable
    Flags <- MCFlags
    Spelled <- MCSpelled
    Null = Null
    UNSET = UNSET
    Calls <- MCCalls
    Transport <- MCKey
    Covers <- MCCovers
    Echoes <- MCEchoes
    Stale <- MCStale
INVARIANTS
    ColumnsTyped
    UpdatesCompose
PROPERTIES
    KeepsRowContract
