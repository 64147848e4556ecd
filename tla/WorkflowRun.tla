----------------------------- MODULE WorkflowRun -----------------------------
(***************************************************************************)
(* One workflow run: runner.ts and the run store of packages/workflows.    *)
(*                                                                         *)
(* The daemon has two runners over one store: one behind the agent tool    *)
(* workflow.run (server/src/index.ts), one behind the HTTP routes          *)
(* (workflow-routes.ts).  Each guards only its own executions with its     *)
(* own active map.  A run is created and executed by either; it is resumed *)
(* and cancelled through the routes.                                       *)
(*                                                                         *)
(* Reads and swaps of the stored run are one action each: withFileRunLock  *)
(* makes a swap's read, check and rename indivisible, and the turn that    *)
(* follows a swap ends before another caller's file access does.  The      *)
(* workflow is the same at every read; its mutation steps are approved     *)
(* (createRun refuses otherwise).                                          *)
(***************************************************************************)
EXTENDS Integers

CONSTANTS
    Steps,       \* number of steps
    Stopping,    \* the steps whose failure policy is "stop"
    Resumes,     \* resume requests
    Cancels,     \* cancel requests
    MaxFaults,   \* bound: failing swaps
    MaxCrashes   \* bound: daemon restarts

ASSUME WorkflowAssumption ==
    /\ Steps \in Nat \ {0}
    /\ Stopping \subseteq 1 .. Steps
    /\ "created" \notin Resumes
    /\ MaxFaults \in Nat /\ MaxCrashes \in Nat

Step == 1 .. Steps
Exec == {"created"} \cup Resumes
Runner == {"agent", "routes"}

VARIABLES
    run,      \* the stored WorkflowRun
    origin,   \* the runner that created it
    pc,       \* execution -> the await it stands at
    held,     \* execution -> the run it read or wrote last
    at,       \* execution -> the step of its loop
    active,   \* runners with this run in their active map
    aborted,  \* executions whose signal is aborted
    asking,   \* cancel request -> where it stands
    seen,     \* cancel request -> the revision it read
    matched,  \* step -> executions of it that were verified
    faults, crashes

loops == <<pc, held, at, active>>
cancels == <<asking, seen>>
counts == <<matched, faults, crashes>>
vars == <<run, origin, loops, aborted, cancels, counts>>

Status == {"running", "paused", "completed", "failed", "cancelled"}
Result == {"pending", "running", "succeeded", "failed"}
Run == [status : Status, steps : [Step -> Result], revision : Nat]
Place == {"idle", "entering", "loading", "reopening", "stepping", "marking", "executing",
          "rereadWon", "rereadLost", "succeeding", "failing", "evidence", "applying",
          "completing", "done"}

TypeOK ==
    /\ run \in Run /\ origin \in Runner
    /\ pc \in [Exec -> Place]
    /\ held \in [Exec -> Run]
    /\ at \in [Exec -> 1 .. Steps + 1]
    /\ active \subseteq Runner /\ aborted \subseteq Exec
    /\ asking \in [Cancels -> {"reading", "swapping", "done", "thrown"}]
    /\ seen \in [Cancels -> Nat]
    /\ matched \in [Step -> Nat]
    /\ faults \in Nat /\ crashes \in Nat

-----------------------------------------------------------------------------
Home(e) == IF e = "created" THEN origin ELSE "routes"
Running(e) == pc[e] \notin {"idle", "entering", "done"}
Ended == {"completed", "failed", "cancelled"}

Goto(e, place) == pc' = [pc EXCEPT ![e] = place] /\ UNCHANGED active

(* executeLoop returns or throws; execute's finally forgets the run.        *)
Leave(e) ==
    /\ pc' = [pc EXCEPT ![e] = "done"]
    /\ active' = active \ {Home(e)}

Hold(e) == held' = [held EXCEPT ![e] = run]

(* Mutant: the store takes the swap without looking at the revision.        *)
SwappableBlind(revision) == TRUE

(* assertRunTransition(); only cancelled is final for the store.            *)
Swappable(revision) == run.status # "cancelled" /\ run.revision = revision

Fails == faults < MaxFaults /\ faults' = faults + 1

(* persist(): the swap, or a conflict or a failing write that ends the      *)
(* execution (a conflict with a cancellation returns, any other throws).    *)
Persist(e, status, steps, place) ==
    \/ /\ Swappable(held[e].revision)
       /\ run' = [status |-> status, steps |-> steps, revision |-> held[e].revision + 1]
       /\ held' = [held EXCEPT ![e] = run']
       /\ IF place = "done" THEN Leave(e) ELSE Goto(e, place)
       /\ UNCHANGED faults
    \/ /\ IF Swappable(held[e].revision) THEN Fails ELSE UNCHANGED faults
       /\ Leave(e)
       /\ UNCHANGED <<run, held>>

Marked(e, result) == [held[e].steps EXCEPT ![at[e]] = result]

UpdateStep(e, result, place) == Persist(e, held[e].status, Marked(e, result), place)

Init ==
    /\ run = [status |-> "running", steps |-> [s \in Step |-> "pending"], revision |-> 1]
    /\ origin \in Runner
    /\ pc = [e \in Exec |-> IF e = "created" THEN "loading" ELSE "idle"]
    /\ held = [e \in Exec |-> run]
    /\ at = [e \in Exec |-> 1]
    /\ active = {origin}
    /\ aborted = {}
    /\ asking = [c \in Cancels |-> "reading"]
    /\ seen = [c \in Cancels |-> 0]
    /\ matched = [s \in Step |-> 0]
    /\ faults = 0 /\ crashes = 0

-----------------------------------------------------------------------------
(* resume() and execute()                                                  *)

Ask(e) ==
    /\ pc[e] = "idle"
    /\ Goto(e, IF run.status = "paused" THEN "entering" ELSE "done")
    /\ UNCHANGED <<run, origin, held, at, aborted, cancels, counts>>

Enter(e) ==
    /\ pc[e] = "entering"
    /\ IF Home(e) \in active
         THEN Goto(e, "done")
         ELSE /\ pc' = [pc EXCEPT ![e] = "loading"]
              /\ active' = active \cup {Home(e)}
    /\ UNCHANGED <<run, origin, held, at, aborted, cancels, counts>>

Load(e) ==
    /\ pc[e] = "loading"
    /\ Hold(e)
    /\ IF run.status \in Ended THEN Leave(e)
       ELSE Goto(e, IF run.status = "paused" THEN "reopening" ELSE "stepping")
    /\ UNCHANGED <<run, origin, at, aborted, cancels, counts>>

Reopen(e) ==
    /\ pc[e] = "reopening"
    /\ Persist(e, "running", held[e].steps, "stepping")
    /\ UNCHANGED <<origin, at, aborted, cancels, matched, crashes>>

-----------------------------------------------------------------------------
(* The loop over the steps                                                 *)

(* Mutant: a step that has a result is not executed again. *)
SkippedWhenTried(result) == result # "pending"

Skipped(result) == result = "succeeded"

(* The run is read again before every step and after the last one.          *)
NextStep(e) ==
    /\ pc[e] = "stepping"
    /\ Hold(e)
    /\ \/ /\ run.status = "cancelled"
          /\ Leave(e)
          /\ UNCHANGED at
       \/ /\ run.status # "cancelled" /\ at[e] > Steps
          /\ Goto(e, "completing")
          /\ UNCHANGED at
       \/ /\ run.status # "cancelled" /\ at[e] \in Step
          /\ IF Skipped(run.steps[at[e]])
               THEN at' = [at EXCEPT ![e] = @ + 1] /\ UNCHANGED <<pc, active>>
               ELSE Goto(e, "marking") /\ UNCHANGED at
    /\ UNCHANGED <<run, origin, aborted, cancels, counts>>

(* The step is marked running and handed to the executor in the same turn.  *)
Mark(e) ==
    /\ pc[e] = "marking"
    /\ UpdateStep(e, "running", IF e \in aborted THEN "done" ELSE "executing")
    /\ UNCHANGED <<origin, at, aborted, cancels, matched, crashes>>

(* The executor reports a verified success, or anything else.               *)
Finish(e) ==
    /\ pc[e] = "executing"
    /\ \/ /\ Goto(e, "rereadWon")
          /\ matched' = [matched EXCEPT ![at[e]] = @ + 1]
       \/ Goto(e, "rereadLost") /\ UNCHANGED matched
    /\ UNCHANGED <<run, origin, held, at, aborted, cancels, faults, crashes>>

Reread(e) ==
    /\ pc[e] \in {"rereadWon", "rereadLost"}
    /\ Hold(e)
    /\ IF run.status = "cancelled" THEN Leave(e)
       ELSE Goto(e, IF pc[e] = "rereadWon" THEN "succeeding" ELSE "failing")
    /\ UNCHANGED <<run, origin, at, aborted, cancels, counts>>

Succeed(e) ==
    /\ pc[e] = "succeeding"
    /\ UpdateStep(e, "succeeded", "evidence")
    /\ UNCHANGED <<origin, at, aborted, cancels, matched, crashes>>

Evidence(e) ==
    /\ pc[e] = "evidence"
    /\ Persist(e, held[e].status, held[e].steps, "stepping")
    /\ at' = IF pc'[e] = "stepping" THEN [at EXCEPT ![e] = @ + 1] ELSE at
    /\ UNCHANGED <<origin, aborted, cancels, matched, crashes>>

Fail(e) ==
    /\ pc[e] = "failing"
    /\ UpdateStep(e, "failed", "applying")
    /\ UNCHANGED <<origin, at, aborted, cancels, matched, crashes>>

ApplyFailurePolicy(e) ==
    /\ pc[e] = "applying"
    /\ Persist(e, IF at[e] \in Stopping THEN "failed" ELSE "paused", held[e].steps, "done")
    /\ UNCHANGED <<origin, at, aborted, cancels, matched, crashes>>

Complete(e) ==
    /\ pc[e] = "completing"
    /\ Persist(e, "completed", held[e].steps, "done")
    /\ UNCHANGED <<origin, at, aborted, cancels, matched, crashes>>

-----------------------------------------------------------------------------
(* cancel(), always on the routes' runner                                  *)

Abort == aborted' = aborted \cup {e \in Exec : Running(e) /\ Home(e) = "routes"}

Answer(c, place) == asking' = [asking EXCEPT ![c] = place]

CancelRead(c) ==
    /\ asking[c] = "reading"
    /\ seen' = [seen EXCEPT ![c] = run.revision]
    /\ \/ run.status \in {"completed", "failed"} /\ Answer(c, "done") /\ UNCHANGED aborted
       \/ run.status = "cancelled" /\ Answer(c, "done") /\ Abort
       \/ run.status \notin Ended /\ Answer(c, "swapping") /\ UNCHANGED aborted
    /\ UNCHANGED <<run, origin, loops, counts>>

(* Mutant: a conflict is taken for a cancellation. *)
CancelSwapOnce(c) ==
    /\ asking[c] = "swapping"
    /\ Answer(c, "done")
    /\ IF Swappable(seen[c])
         THEN run' = [run EXCEPT !.status = "cancelled", !.revision = seen[c] + 1] /\ Abort
         ELSE UNCHANGED <<run, aborted>>
    /\ UNCHANGED <<origin, loops, seen, counts>>

(* Mutant: a conflict is retried with the revision read before. *)
CancelSwapStubborn(c) ==
    /\ asking[c] = "swapping"
    /\ IF Swappable(seen[c])
         THEN /\ run' = [run EXCEPT !.status = "cancelled", !.revision = seen[c] + 1]
              /\ Answer(c, "done") /\ Abort
         ELSE UNCHANGED <<run, aborted, asking>>
    /\ UNCHANGED <<origin, loops, seen, counts>>

CancelSwap(c) ==
    /\ asking[c] = "swapping"
    /\ \/ /\ Swappable(seen[c])
          /\ run' = [run EXCEPT !.status = "cancelled", !.revision = seen[c] + 1]
          /\ Answer(c, "done") /\ Abort
          /\ UNCHANGED faults
       \/ /\ run.status = "cancelled"
          /\ Answer(c, "done") /\ Abort
          /\ UNCHANGED <<run, faults>>
       \/ /\ run.status # "cancelled" /\ run.revision # seen[c]
          /\ Answer(c, "reading")
          /\ UNCHANGED <<run, aborted, faults>>
       \/ /\ Swappable(seen[c]) /\ Fails
          /\ Answer(c, "thrown")
          /\ UNCHANGED <<run, aborted>>
    /\ UNCHANGED <<origin, loops, seen, matched, crashes>>

(* The daemon dies and is started again; nothing continues its runs.        *)
Crash ==
    /\ crashes < MaxCrashes
    /\ crashes' = crashes + 1
    /\ pc' = [e \in Exec |-> IF pc[e] = "idle" THEN "idle" ELSE "done"]
    /\ active' = {}
    /\ asking' = [c \in Cancels |-> IF asking[c] = "swapping" THEN "thrown" ELSE asking[c]]
    /\ UNCHANGED <<run, origin, held, at, aborted, seen, matched, faults>>

-----------------------------------------------------------------------------
Loop(e) ==
    \/ Ask(e) \/ Enter(e) \/ Load(e) \/ Reopen(e)
    \/ NextStep(e) \/ Mark(e) \/ Finish(e) \/ Reread(e)
    \/ Succeed(e) \/ Evidence(e) \/ Fail(e) \/ ApplyFailurePolicy(e) \/ Complete(e)

Cancel(c) == CancelRead(c) \/ CancelSwap(c)

Next ==
    \/ \E e \in Exec : Loop(e)
    \/ \E c \in Cancels : Cancel(c)
    \/ Crash

Spec == Init /\ [][Next]_vars

(* A request that the server took keeps running; the executor's answer is   *)
(* not relied upon.                                                        *)
FairSpec == Spec /\ \A c \in Cancels : WF_vars(Cancel(c))

-----------------------------------------------------------------------------
(* Properties                                                              *)

(* "a step that already succeeded inside this run is never executed again": *)
(* at most one execution of a step is verified, over all resumes of the run *)
(* and whoever runs them, and one more for each result that was not saved.  *)
VerifiedOnce == \A s \in Step : matched[s] <= 1 + faults

(* A step is executed only after the executions of all steps before it were *)
(* verified, also in a resumed run, and a completed run had them all.       *)
InOrder ==
    /\ \A e \in Exec : pc[e] = "executing" =>
          \A s \in 1 .. at[e] - 1 : run.steps[s] = "succeeded" /\ matched[s] >= 1
    /\ run.status = "completed" => \A s \in Step : matched[s] >= 1

(* Together: every step is verified in its turn, and once.                  *)
StepsInOrderOnce == VerifiedOnce /\ InOrder

(* "Cancellation is an authority boundary": a cancelled record is never     *)
(* written again and no execution hands another step to the executor.       *)
CancelIsFinal ==
    [][run.status = "cancelled" =>
          /\ run' = run
          /\ \A e \in Exec : pc'[e] = "executing" => pc[e] = "executing"]_vars

(* A cancel request that is answered found or made the run's end.           *)
CancelAnswered == \A c \in Cancels : asking[c] = "done" => run.status \in Ended

(* Both: what cancel answers is true, and stays so.                         *)
CancelHolds == [][CancelAnswered']_vars /\ CancelIsFinal

(* "Retry optimistic conflicts until cancellation linearizes or another     *)
(* terminal state wins": the retries come to an end.                        *)
CancelSettles ==
    \A c \in Cancels : asking[c] = "swapping" ~> asking[c] \in {"done", "thrown"}

(* "Aborted as soon as the durable run reaches `cancelled`" (executor.ts):  *)
(* the executor that still works on a cancelled run was told.               *)
AbortReachesExecutor ==
    \A e \in Exec : run.status = "cancelled" /\ pc[e] = "executing" => e \in aborted

(* "a process crash leaves a truthful record and `resume(runId)` continues  *)
(* from the first non-succeeded step" (runner.ts): a run that no execution  *)
(* works on any more has ended or can be resumed.                           *)
Continues ==
    crashes > 0 /\ (\A e \in Exec : ~Running(e)) => run.status \in Ended \cup {"paused"}
-----------------------------------------------------------------------------
(* The inductive invariant behind CancelAnswered: one execution at a time,  *)
(* and the only other writer of what it holds is a cancellation.            *)
Works(e) == Running(e) /\ pc[e] # "loading"

AtStep == {"marking", "executing", "rereadWon", "rereadLost", "succeeding", "failing",
           "evidence", "applying"}

OneExecution == \A e, f \in Exec : Running(e) /\ Running(f) => e = f

RunInv ==
    /\ TypeOK
    /\ OneExecution
    /\ pc["created"] \notin {"idle", "entering"}
    /\ \A e \in Exec : Running(e) => Home(e) \in active
    /\ origin = "agent" /\ Running("created") =>
          /\ run.status \in {"running", "cancelled"}
          /\ \A e \in Exec : pc[e] # "entering"
    /\ \A e \in Exec : pc[e] \in AtStep => at[e] \in Step
    /\ \A e \in Exec : Works(e) =>
          /\ held[e].status = (IF pc[e] = "reopening" THEN "paused" ELSE "running")
          /\ run = held[e] \/ run.status = "cancelled"
    /\ CancelAnswered

-----------------------------------------------------------------------------
(* The inductive invariant behind StepsInOrderOnce                           *)

(* A verified step whose result is not saved yet.                            *)
Unsaved == {"rereadWon", "succeeding"}
InFlight(s) == \E e \in Exec : pc[e] \in Unsaved /\ at[e] = s

(* Nothing executes a step of this run any more.                             *)
Over ==
    \/ run.status = "cancelled"
    \/ run.status = "running" /\ \A e \in Exec : pc[e] \in {"idle", "done"}

(* A verified execution is saved, about to be, was lost to a fault, or the   *)
(* run is over; and a step that is about to be executed has none.            *)
StepsCounted ==
    /\ \A s \in Step :
         matched[s] <= faults \/ run.steps[s] = "succeeded" \/ InFlight(s) \/ Over
    /\ \A e \in Exec :
         pc[e] \in {"marking", "executing", "rereadLost", "failing", "applying"} =>
             matched[at[e]] <= faults
    /\ \A e \in Exec : pc[e] \in Unsaved => matched[at[e]] >= 1
    /\ \A s \in Step : run.steps[s] = "succeeded" => matched[s] >= 1

(* An execution has left behind only steps that succeeded.                   *)
PrefixSucceeded ==
    /\ \A e \in Exec : pc[e] \in {"idle", "entering", "loading", "reopening"} => at[e] = 1
    /\ \A e \in Exec : Running(e) => \A s \in 1 .. at[e] - 1 : run.steps[s] = "succeeded"
    /\ \A e \in Exec : pc[e] = "evidence" => run.steps[at[e]] = "succeeded"
    /\ \A e \in Exec : pc[e] = "completing" => at[e] = Steps + 1

StepsInv ==
    /\ RunInv
    /\ VerifiedOnce
    /\ StepsCounted
    /\ PrefixSucceeded
    /\ run.status = "completed" => \A s \in Step : matched[s] >= 1
=============================================================================
