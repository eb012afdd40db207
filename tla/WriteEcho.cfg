SPECIFICATION EchoSpec
CONSTANTS
    a = a
    b = b
    Keys <- MCKeys
    Leaf = Leaf
    Documents <- MCDocuments
    Depth <- MCDepth
INVARIANTS
    NamesTheDrop
    PassMeansEchoed
