--------------------------- MODULE MCWriterLease ---------------------------
(* WriterLease with one daemon per process, all on one machine.             *)
EXTENDS WriterLease, TLC

CONSTANTS a1, a2, a3, p1, p2, p3

OneEach ==
    LET all == (a1 :> p1) @@ (a2 :> p2) @@ (a3 :> p3)
    IN  [a \in Actor |-> all[a]]
SameMachine == [p \in Process |-> "local"]
=============================================================================
