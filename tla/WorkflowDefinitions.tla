------------------------- MODULE WorkflowDefinitions -------------------------
(***************************************************************************)
(* The definition of one workflow and the runs that read it. The routes    *)
(* replace the whole document and compare no revision, so an edit that was *)
(* read from a draft can land on what has been published or archived. A    *)
(* run keeps the result slots of the steps it was created with, and reads  *)
(* the definition again whenever it is executed or resumed.                *)
(***************************************************************************)
EXTENDS Integers, FiniteSets

CONSTANTS
  Edits,    \* requests to the routes
  Runs,     \* runs that are created
  Steps,    \* ids of steps, executed in ascending order
  MaxPauses \* steps that fail, each of which pauses its run

None == "none"

VARIABLES
  workflow, \* the definition: status, revision, steps, and those that mutate
  edit,     \* what each request is doing, and the document it read
  run,      \* the record of each run: status, slots, results, approval
  loop,     \* the execution of each run: the definition it read, the step it is at
  executed, \* what the executor was asked: run, step, whether it mutates
  pauses

vars == <<workflow, edit, run, loop, executed, pauses>>

Doc(status, revision, steps, mutations) ==
  [status |-> status, revision |-> revision, steps |-> steps, mutations |-> mutations]

Init ==
  /\ workflow = Doc("draft", 1, Steps, {})
  /\ edit = [e \in Edits |-> [kind |-> None, read |-> {}]]
  /\ run = [r \in Runs |-> [status |-> None, slots |-> {}, succeeded |-> {}, approval |-> FALSE]]
  /\ loop = [r \in Runs |-> [at |-> "idle", read |-> {}, step |-> 0]]
  /\ executed = {}
  /\ pauses = 0

(***************************************************************************)
(* The routes: what each refuses, then what it saves.                      *)
(***************************************************************************)

Begin(e, kind) ==
  /\ edit[e].kind = None
  /\ CASE kind = "patch" -> workflow.status = "draft"
       [] kind = "describe" -> workflow.status # "archived"
       [] kind = "publish" -> workflow.status = "draft" /\ workflow.steps # {}
       [] kind = "archive" -> workflow.status # "archived"
  /\ edit' = [edit EXCEPT ![e] = [kind |-> kind, read |-> {workflow}]]
  /\ UNCHANGED <<workflow, run, loop, executed, pauses>>

\* What a request makes of the document it read. A description edit changes
\* nothing that a run looks at, and puts back everything else.
Edited(kind, doc) ==
  CASE kind = "patch" -> {Doc("draft", doc.revision + 1, S, M) : S \in SUBSET Steps, M \in SUBSET Steps}
    [] kind = "describe" -> {[doc EXCEPT !.revision = @ + 1]}
    [] kind = "publish" -> {[doc EXCEPT !.status = "published", !.revision = @ + 1]}
    [] kind = "archive" -> {[doc EXCEPT !.status = "archived", !.revision = @ + 1]}

Save(e) ==
  /\ \E doc \in edit[e].read : \E new \in Edited(edit[e].kind, doc) :
       new.mutations \subseteq new.steps /\ workflow' = new
  /\ edit' = [edit EXCEPT ![e] = [kind |-> "done", read |-> {}]]
  /\ UNCHANGED <<run, loop, executed, pauses>>

(***************************************************************************)
(* Runs.                                                                   *)
(***************************************************************************)

Set(r, status, succeeded) ==
  run' = [run EXCEPT ![r] = [@ EXCEPT !.status = status, !.succeeded = succeeded]]

\* A published workflow; one that mutates only with an approval.
CreateRun(r, approval) ==
  /\ run[r].status = None /\ workflow.status = "published"
  /\ workflow.mutations # {} => approval
  /\ run' = [run EXCEPT ![r] = [status |-> "running", slots |-> workflow.steps,
                                succeeded |-> {}, approval |-> approval]]
  /\ loop' = [loop EXCEPT ![r].at = "loading"]
  /\ UNCHANGED <<workflow, edit, executed, pauses>>

Resume(r) ==
  /\ run[r].status = "paused" /\ loop[r].at = "idle"
  /\ loop' = [loop EXCEPT ![r].at = "loading"]
  /\ UNCHANGED <<workflow, edit, run, executed, pauses>>

\* requireWorkflow, whatever its status and revision are by now.
Load(r) ==
  /\ loop[r].at = "loading"
  /\ loop' = [loop EXCEPT ![r] = [at |-> "next", read |-> {workflow}, step |-> 0]]
  /\ Set(r, "running", run[r].succeeded)
  /\ UNCHANGED <<workflow, edit, executed, pauses>>

Later(r, doc) == {s \in doc.steps : s > loop[r].step /\ s \notin run[r].succeeded}
Least(S) == CHOOSE s \in S : \A t \in S : s <= t

Leave(r) == loop' = [loop EXCEPT ![r] = [at |-> "idle", read |-> {}, step |-> 0]]

\* Mutant: the approval is only looked for when the run is created.
MutWithoutApproval(r, doc, s) == FALSE

WithoutApproval(r, doc, s) == s \in doc.mutations /\ ~run[r].approval

\* The next step that has not succeeded: it fails without a slot, pauses the run
\* without the approval that it needs, and is executed otherwise.
NextStep(r) ==
  /\ loop[r].at = "next"
  /\ \E doc \in loop[r].read :
       /\ Later(r, doc) # {}
       /\ LET s == Least(Later(r, doc)) IN
            \/ /\ s \notin run[r].slots
               /\ Set(r, "failed", run[r].succeeded) /\ Leave(r)
               /\ UNCHANGED <<executed, pauses>>
            \/ /\ s \in run[r].slots /\ WithoutApproval(r, doc, s)
               /\ pauses < MaxPauses /\ pauses' = pauses + 1
               /\ Set(r, "paused", run[r].succeeded) /\ Leave(r)
               /\ UNCHANGED executed
            \/ /\ s \in run[r].slots /\ ~WithoutApproval(r, doc, s)
               /\ executed' = executed \cup
                    {[run |-> r, step |-> s, mutation |-> s \in doc.mutations]}
               /\ loop' = [loop EXCEPT ![r].at = "executing", ![r].step = s]
               /\ UNCHANGED <<run, pauses>>
  /\ UNCHANGED <<workflow, edit>>

\* The executor verified the step, or the failure policy pauses the run.
StepEnds(r) ==
  /\ loop[r].at = "executing"
  /\ \/ /\ Set(r, "running", run[r].succeeded \cup {loop[r].step})
        /\ loop' = [loop EXCEPT ![r].at = "next"] /\ UNCHANGED pauses
     \/ /\ pauses < MaxPauses /\ pauses' = pauses + 1
        /\ Set(r, "paused", run[r].succeeded) /\ Leave(r)
  /\ UNCHANGED <<workflow, edit, executed>>

Complete(r) ==
  /\ loop[r].at = "next" /\ \E doc \in loop[r].read : Later(r, doc) = {}
  /\ Set(r, "completed", run[r].succeeded) /\ Leave(r)
  /\ UNCHANGED <<workflow, edit, executed, pauses>>

Next ==
  \/ \E e \in Edits : Save(e) \/ \E kind \in {"patch", "describe", "publish", "archive"} : Begin(e, kind)
  \/ \E r \in Runs : \/ \E approval \in BOOLEAN : CreateRun(r, approval)
                     \/ Resume(r) \/ Load(r) \/ NextStep(r) \/ StepEnds(r) \/ Complete(r)

Spec == Init /\ [][Next]_vars

-----------------------------------------------------------------------------
\* No step that mutates is executed for a run without an approval, although the
\* steps of a run can be changed under it after it was created.
MutationsApproved == \A x \in executed : x.mutation => run[x.run].approval

\* The inductive invariant: a run that executed anything was created, and a run is
\* created once, so its approval is the one that the executed step was checked with.
DefinitionsInv ==
  /\ DOMAIN run = Runs
  /\ \A r \in Runs : run[r].status = None => loop[r].at = "idle"
  /\ DOMAIN loop = Runs
  /\ \A x \in executed : x.run \in Runs /\ run[x.run].status # None
  /\ MutationsApproved
=============================================================================
