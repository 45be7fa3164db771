SPECIFICATION FairSpec
CONSTANTS
    Count = 4
    Nodes <- MCNodes
    NoGate <- MCNoGate
    Workflows <- AllKinds
    Seeds <- TwoSeeded
CHECK_DEADLOCK FALSE
INVARIANTS
    TypeOK
    EachNodeOnce
    NothingForgotten
    SeesItsAncestors
    GateHoldsTheRest
PROPERTIES ImplementsContract Closes
