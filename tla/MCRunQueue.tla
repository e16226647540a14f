----------------------------- MODULE MCRunQueue -----------------------------
(* RunQueue with small constants for TLC, and the HTTP surfaces before it. *)
EXTENDS RunQueue, PortalApi

(* All pool threads live in one replica. *)
OneHome == [w \in Workers |-> CHOOSE a \in Apis : TRUE]

NoRuns   == {}
FirstRun == {1}

(* Before the first request: the portal and the JSON APIs do alike what they *)
(* both offer; a view changes nothing but a stalled run; where the workers   *)
(* alone execute nothing is generated in the web process; a queue that       *)
(* refuses takes nothing; an error leaves only work halfway done; roles are  *)
(* kept; and whoever is sent to log in can.                                  *)
SurfacesHold == Init => AnswersHold
=============================================================================
