SPECIFICATION LiveSpec
CONSTANTS
    MaxItems = 2
    MaxHistory = 0
    Printers <- MCPrinters
    Connector <- MCConnector
    Slots <- MCSlots
    AutoBalance = FALSE
    LostReplies = FALSE
INVARIANTS TypeOK  NoSecondStart
