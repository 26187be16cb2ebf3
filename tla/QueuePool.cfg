SPECIFICATION PoolSpec
CONSTANTS
    MaxItems = 2
    MaxHistory = 2
    Printers <- MCTwo
    Connector <- MCConnector
    Slots <- MCOneSlot
    AutoBalance = TRUE
    LostReplies = TRUE
INVARIANT UniquePlacement
 
