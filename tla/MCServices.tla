----------------------------- MODULE MCServices -----------------------------
(* Services with the functions that a configuration cannot write down.      *)
EXTENDS Services

\* The second version of the plug-in asks for the one permission.
SecondGrants == [v \in 1..MaxVersion |-> IF v = 2 THEN Permissions ELSE {}]

\* Alerts, and invocations, that all repeat one key.
OneDedupeKey == [a \in Submissions |-> "k"]
OneMutationKey == [i \in Invocations |-> "k1"]
=============================================================================
