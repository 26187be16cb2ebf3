SPECIFICATION RestartSpec
CONSTANTS
    MaxItems = 2
    MaxHistory = 0
    Printers <- MCPrinters
    Connector <- MCConnector
    Slots <- MCOneSlot
    AutoBalance = FALSE
    LostReplies = FALSE
INVARIANTS  NoSecondStart ClaimIsDurable
