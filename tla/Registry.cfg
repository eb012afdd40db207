SPECIFICATION Spec
CONSTANTS
    n1 = n1
    n2 = n2
    n3 = n3
    g1 = g1
    g2 = g2
    g3 = g3
    O12 = O12
    O3 = O3
    Names <- MCNames
    Groups <- MCGroups
    Root = Root
    Ops <- MCOps
    Pascal <- MCPascal
    DocOps <- MCDocOps
    MaxTools = 4
    None = None
INVARIANTS
    IndexSound
    RedirectsConverge
    NothingLost
    SearchHonest
