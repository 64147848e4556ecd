----------------------------- MODULE MCRecords -----------------------------
(* Records with the functions that a configuration cannot write down.       *)
EXTENDS Records

\* The requests of one session record.
KindOfCall == [c \in Caller |-> IF c \in {"up1", "up2", "up3"} THEN "update" ELSE c]
EntryOfCall == [c \in Caller |-> IF c = "up1" THEN 2 ELSE IF c = "up2" THEN 3 ELSE 1]

\* The requests of the legacy mapping.
Marks == {"mark1", "mark2"}
KindOfMapping == [c \in MappingCalls |-> IF c \in Marks THEN "mark" ELSE "upsert"]
EntryOfMapping == [c \in MappingCalls |-> IF c \in {"ups2", "mark2"} THEN "e2" ELSE "e1"]

\* The agent plans while the window completes a task.
PlanOps == [c \in {"a1", "w1"} |->
             IF c = "a1" THEN {"depend", "many", "attach", "work"} ELSE {"complete"}]

\* What another part does not use has one first state.
MCInit == RecordsInit /\ (part # "legacy" => legacyLog = {})

MCSpec ==
  /\ MCInit /\ [][RecordsNext]_RecordsVars
  /\ \A c \in Caller : WF_vars(part = "record" /\ Step(c))
=============================================================================
