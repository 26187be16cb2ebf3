SPECIFICATION Spec
CONSTANTS
    MaxItems = 4
    MaxHistory = 0
    Printers <- MCPrinters
    Connector <- MCConnector
INVARIANT ItemsConserved
PROPERTIES  NoneLeftBehind
