--------------------------- MODULE MCAutoBalance ---------------------------
(* Three printers on one connector and one on another. *)
EXTENDS AutoBalance

MCPrinters  == 1..4
MCConnector == [p \in MCPrinters |-> IF p <= 3 THEN "moonraker" ELSE "flashforge"]
=============================================================================
