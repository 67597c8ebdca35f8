SPECIFICATION Spec
CONSTANTS
    NodeNames <- MCNodeNames
    PropNames <- MCPropNames
    Values <- MCValues
    Reservations <- MCReservations
    Given <- MCGiven
    Sizes = {18, 24}
    Rooms = {46, 84}
    MaxEdits = 2
CHECK_DEADLOCK FALSE
INVARIANTS
    
    RetrySucceeds
    NodesAreFound
    ListsAgree
    SearchesAgree
PROPERTY ImplementsTree
