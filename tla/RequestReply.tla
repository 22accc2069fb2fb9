---------------------------- MODULE RequestReply ----------------------------
(***************************************************************************)
(* What an HTTP connection promises to a client that waits for each        *)
(* response: requests are handed to the application once each, in the      *)
(* order they were sent, and answered in that order.  When the connection  *)
(* ends, one last request may be handed over, even a part of one, which is *)
(* never answered.                                                         *)
(***************************************************************************)
EXTENDS Naturals

CONSTANT N          \* the number of requests

VARIABLES
    phase,          \* how far each request is
    open            \* the connection exists

vars == <<phase, open>>

Phases == {"unsent", "sent", "delivered", "answered"}

Init ==
    /\ phase = [i \in 1..N |-> "unsent"]
    /\ open = TRUE

\* The client sends a request after the answers to the earlier ones.
Send(i) ==
    /\ open
    /\ phase[i] = "unsent"
    /\ \A j \in 1..i-1 : phase[j] = "answered"
    /\ phase' = [phase EXCEPT ![i] = "sent"]
    /\ UNCHANGED open

Deliver(i) ==
    /\ open
    /\ phase[i] = "sent"
    /\ phase' = [phase EXCEPT ![i] = "delivered"]
    /\ UNCHANGED open

Answer(i) ==
    /\ open
    /\ phase[i] = "delivered"
    /\ phase' = [phase EXCEPT ![i] = "answered"]
    /\ UNCHANGED open

Close ==
    /\ open
    /\ open' = FALSE
    /\ \/ UNCHANGED phase
       \/ \E i \in 1..N :
            /\ phase[i] \in {"unsent", "sent"}
            /\ \A j \in 1..i-1 : phase[j] = "answered"
            /\ phase' = [phase EXCEPT ![i] = "delivered"]

Next == (\E i \in 1..N : Send(i) \/ Deliver(i) \/ Answer(i)) \/ Close

Spec == Init /\ [][Next]_vars

=============================================================================
