SPECIFICATION Spec
CONSTANTS
    h1 = h1
    h2 = h2
    n1 = n1
    n2 = n2
    n3 = n3
    Heads <- TwoHeads
    Nodes <- ThreeNodes
INVARIANTS WellLinked
PROPERTIES ImplementsLists
CHECK_DEADLOCK FALSE
