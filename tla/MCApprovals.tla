---------------------------- MODULE MCApprovals ----------------------------
(* Approvals with up to two risk reviews, a double-clicked approve, a        *)
(* double-clicked commit and the boot of a second daemon.                  *)
EXTENDS Approvals, TLC

CONSTANTS rv, rv2, ap1, ap2, cm1, cm2, bt

Kinds ==
    LET all == (rv :> "review") @@ (rv2 :> "review") @@ (ap1 :> "approve") @@ (ap2 :> "approve")
               @@ (cm1 :> "commit") @@ (cm2 :> "commit") @@ (bt :> "boot")
    IN  [h \in Handler |-> all[h]]
=============================================================================
