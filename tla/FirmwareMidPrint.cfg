SPECIFICATION Spec
CONSTANTS
    Printers = {p1, p2}
    InMaintenance = {p2}
    Images = {f1}
    Requests = {r1}
    MaxWanted = 1
    None = None
PROPERTY NeverFlashedMidPrint
