SPECIFICATION Spec
CONSTANTS
    w1 = w1
    w2 = w2
    w3 = w3
    k1 = k1
    k2 = k2
    Workers <- MCWorkers
    Bound <- MCBound
    Main = Main
    Keys <- MCKeys
    NoKey = NoKey
    None = None
    Probes <- MCProbes
INVARIANTS
    TypeOK
    NeverHandedNone
    WindowCloses
    CallsUseProbedClient
