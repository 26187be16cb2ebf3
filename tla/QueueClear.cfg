SPECIFICATION LiveSpec
CONSTANTS
    MaxItems = 2
    MaxHistory = 1
    Printers <- MCPrinters
    Connector <- MCConnector
    Slots <- MCOneSlot
    AutoBalance = FALSE
    LostReplies = FALSE
PROPERTY ClearedNeverPrints
