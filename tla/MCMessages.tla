----------------------------- MODULE MCMessages -----------------------------
(* Messages with the scheduling of the daemon and what a configuration      *)
(* cannot write down.                                                       *)
EXTENDS Messages, FiniteSets

\* Session a1 is in the workspace that is made later, and comes first in the list.
WorkspaceOf == [s \in Sessions |-> IF s = "a1" THEN "A" ELSE "B"]
ByName == [some \in SUBSET Clients |-> IF "A" \in some THEN "A" ELSE "B"]

\* The first commit, with and without the file in a directory of its own.
FirstCommits ==
  {[p \in Paths |-> "t"], [p \in Paths |-> IF p \in NewDirs THEN NoFile ELSE "t"]}

\* A checkout as it was cloned. What another part does not use has one first state.
MCInit ==
  /\ MessagesInit
  /\ index = head /\ work = head
  /\ part # "repository" => head["d/n"] = NoFile

\* Bounds on the window: two state requests are under way at most, the settings are applied
\* before the first answer or not at all (later they are a Reload), and a first request
\* that a second one took the place of has ended when the person goes on.
MCNext ==
  /\ MessagesNext
  /\ Cardinality(loads') <= 2
  /\ settings' # settings => selected.client = Nobody
  /\ clicks' # clicks => \A t \in loads : t.scope.client = Nobody => t.newest

MCSpec ==
  /\ MCInit /\ [][MCNext]_MessagesVars
  /\ \A r \in Requests :
       /\ WF_vars(part = "message" /\ Handler(r))
       /\ WF_vars(part = "message" /\ Deadline(r))
       /\ WF_vars(part = "message" /\ Finish(r))
=============================================================================
