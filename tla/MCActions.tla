----------------------------- MODULE MCActions -----------------------------
(***************************************************************************)
(* Actions with the functions that a configuration cannot write down.      *)
(***************************************************************************)
EXTENDS Actions, TLC

CONSTANTS tick, rn1, ap1, ap2, pause, del

Kinds ==
  LET all == (tick :> "tick") @@ (rn1 :> "runNow") @@ (ap1 :> "approve")
             @@ (ap2 :> "approve") @@ (pause :> "pause") @@ (del :> "delete")
  IN  [c \in Caller |-> all[c]]

\* Two mutations of one plan.
OnePlan == [t \in Mutating |-> "k"]
\* Two requests of one action, and one of another.
TwoActions == [r \in Inputs |-> IF r = "r2" THEN "a2" ELSE "a1"]
InputKinds == [r \in Inputs |-> IF r = "r1" THEN "click2" ELSE IF r = "r2" THEN "drag" ELSE "type"]

\* Who may ask; the others are done.
Only(S) == pc = [d \in Caller |-> IF d \in S THEN "idle" ELSE "done"]

MCInit ==
  /\ ActionsInit
  /\ \/ Only({tick, rn1, ap1, pause}) /\ crashes = 0
     \/ /\ part = "automation" /\ crashes = MaxCrashes
        /\ Only({rn1, ap1, pause, del}) \/ Only({tick, ap1, ap2}) \/ Only({tick, rn1, del})
  /\ part # "automation" => mutating

MCSpec == MCInit /\ [][ActionsNext]_ActionsVars
=============================================================================
