---------------------------- MODULE MCXdsStream ----------------------------
(* XdsStream on small instances.  MaxResponses and MaxSteps make the state   *)
(* space finite; the channels have the capacity of 2 that services.go gives  *)
(* them, or 1 where a run has to pass their limits within few responses.     *)
EXTENDS XdsStream

MCNoFault   == {}
MCEarlyEnd  == {"end"}
MCBadBody   == {"malformed"}
MCRequests  == {"request"}
MCUpdates   == {"request", "update"}
MCAnswersAcks == {"request", "ack"}
=============================================================================
