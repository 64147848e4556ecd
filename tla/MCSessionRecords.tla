-------------------------- MODULE MCSessionRecords --------------------------
(* SessionRecords with a few requests of each kind.                         *)
EXTENDS SessionRecords, TLC

CONSTANTS create, up1, up2, up3, purge, read, ups1, ups2, e1, e2, e3

Kinds ==
    LET all == (create :> "create") @@ (up1 :> "update") @@ (up2 :> "update")
               @@ (up3 :> "update") @@ (purge :> "purge") @@ (read :> "read")
               @@ (ups1 :> "upsert") @@ (ups2 :> "upsert")
    IN  [c \in Caller |-> all[c]]

Entries ==
    LET all == (create :> e1) @@ (up1 :> e2) @@ (up2 :> e3) @@ (up3 :> e1)
               @@ (purge :> e1) @@ (read :> e1) @@ (ups1 :> e1) @@ (ups2 :> e2)
    IN  [c \in Caller |-> all[c]]
=============================================================================
