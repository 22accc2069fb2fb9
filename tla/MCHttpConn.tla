----------------------------- MODULE MCHttpConn -----------------------------
(***************************************************************************)
(* Constants for model checking HttpConn, and its refinement mapping.      *)
(***************************************************************************)
EXTENDS HttpConn

MCBodyLen == [i \in 1..N |-> IF i = 1 THEN 1 ELSE IF i = N THEN 2 ELSE 0]
MCFileLen == [i \in 1..N |-> IF i = 1 THEN 3 ELSE 2]

\* The last body may have no announced end; one of the requests may not parse; and heads may be over the limit
\* when they come in pieces.
MCPlans == [announced : {{1}, {1, 3}}, malformed : {{}, {2}, {3}}, headMax : 1..3]
MCTwo == {[announced |-> {1, 2}, malformed |-> {}, headMax |-> 3]}

MCPhase == [i \in 1..N |->
    IF Answered(i) THEN "answered"
    ELSE IF i <= Len(delivered) THEN "delivered"
    ELSE IF written >= Start[i + 1] THEN "sent"
    ELSE "unsent"]

Abstract == INSTANCE RequestReply WITH phase <- MCPhase,
                                       open <- pc # "closed"

\* With a client that waits for each response, the connection is one that
\* hands over and answers each request once, in order.
ImplementsRequestReply == Abstract!Spec

=============================================================================
