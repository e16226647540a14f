------------------------------ MODULE MCService ------------------------------
(* A service that starts and shows its catalog, with the surfaces and the    *)
(* queue behind it.                                                          *)
EXTENDS MCRunQueue

(* Before the surfaces: whatever the file and the environment say, a         *)
(* process that starts has what it was asked for and all that this needs: a  *)
(* queue with room and an executor for every run, readers with their         *)
(* sources, sinks with a place to write, a login with its secrets and its    *)
(* database.  The service catalog shows what is governed anywhere, once; a   *)
(* maturity level, an initiative, a trend and a scorecard say of it what the *)
(* registry, the checkout, the log and the readers held.                     *)
Starts  == INSTANCE MCSettings
Catalog == INSTANCE MCServiceCatalog WITH AuditWindow <- 2

ReadingsHold == Init => Catalog!WorldsHold /\ Starts!StartsHold
=============================================================================
