--------------------------- MODULE MCChunkedBody ---------------------------
(***************************************************************************)
(* Constants for model checking ChunkedBody.                               *)
(***************************************************************************)
EXTENDS ChunkedBody

Shapes(sizes, n) == UNION {[1..m -> sizes] : m \in 0..n}

Posts == [method : {"POST"}, chunks : Shapes(1..2, 1)]

=============================================================================
