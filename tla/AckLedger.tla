----------------------------- MODULE AckLedger -----------------------------
(***************************************************************************)
(* What a stream of the harness promises, whatever channels and goroutines *)
(* it is made of: the responses received from the target are taken by the  *)
(* acknowledging side and ACKed one by one, in the order they came; once   *)
(* that side is stopped it takes no more, and what it had taken may still  *)
(* be ACKed.  Responses and ACKs are identified by their ordinal.          *)
(***************************************************************************)
EXTENDS Naturals

VARIABLES
    received, \* responses received and counted
    taken,    \* responses taken to be ACKed
    acked,    \* ACKs sent
    mode      \* "running", then "stopped" by the final check

vars == <<received, taken, acked, mode>>

Init == received = 0 /\ taken = 0 /\ acked = 0 /\ mode = "running"

Receive ==
    /\ received' = received + 1
    /\ UNCHANGED <<taken, acked, mode>>

Take ==
    /\ mode = "running" /\ taken < received
    /\ taken' = taken + 1
    /\ UNCHANGED <<received, acked, mode>>

Acknowledge ==
    /\ acked < taken
    /\ acked' = acked + 1
    /\ UNCHANGED <<received, taken, mode>>

Stop ==
    /\ mode' = "stopped"
    /\ UNCHANGED <<received, taken, acked>>

Next == Receive \/ Take \/ Acknowledge \/ Stop

Spec == Init /\ [][Next]_vars
=============================================================================
