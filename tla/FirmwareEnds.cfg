SPECIFICATION FairSpec
CONSTANTS
    Printers = {p1, p2}
    InMaintenance = {p2}
    Images = {f1}
    Requests = {r1, r2}
    MaxWanted = 2
    None = None
PROPERTY EveryJobEnds
