--------------------------- MODULE VisualRuntime ---------------------------
(***************************************************************************)
(* Micro-tasks of one Computer Session: VisualComputerRuntime captures,    *)
(* grounds, checks again, claims, records, executes and verifies; the      *)
(* native operator queues the input and drops it when control changes; and *)
(* commitApprovedVisualAction confirms what an approved mutation did. Every *)
(* await is a place where the user takes control, the page changes,        *)
(* another task moves, the helper hangs or the daemon dies.                *)
(*                                                                         *)
(* The helper and the pixels are external. The checks that follow each     *)
(* other with nothing but events between them are one step, since a        *)
(* controller that was aborted stays so.                                   *)
(***************************************************************************)
EXTENDS Naturals, FiniteSets

CONSTANTS
  Tasks,       \* calls of runMicroTask
  Mutating,    \* those that commitApprovedVisualAction makes
  KeyOf,       \* the approval and the plan of each of them
  MaxAttempts, \* bound: maxAttempts of the runtime
  MaxCalls,    \* bound: tasks that are asked for in one behaviour
  MaxControls, \* bound: changes of control
  MaxCrashes   \* bound: deaths of the daemon

\* What the constants have to be; the module of the run assumes it.
RuntimeAssumption ==
  /\ Mutating \subseteq Tasks
  /\ MaxAttempts \in 1..3

VARIABLES
  control,   \* who controls the session
  revision,  \* how often that changed
  fresh,     \* requiresFreshCapture
  live,      \* tasks whose controller is active and not aborted
  attempted, \* attemptedMutationPlans, in memory
  claims,    \* mutation claims on disk
  task,      \* each task: the await it stands at and what it took before
  record,    \* the Computer Action record of its last attempt
  input,     \* its native request
  posted,    \* history: inputs that each mutating task posted
  approval,  \* what became of its approval
  crashes

memory == <<control, revision, fresh, live, attempted>>
disk == <<claims, record, approval>>
world == <<input, posted>>
vars == <<memory, disk, world, task, crashes>>

Idle == [at |-> "idle", rev |-> 0, taken |-> 0, same |-> FALSE, attempt |-> 1, mutated |-> FALSE]

Init ==
  /\ control = "running" /\ revision = 0 /\ fresh = FALSE
  /\ live = {} /\ attempted = {} /\ claims = {}
  /\ task = [t \in Tasks |-> Idle]
  /\ record = [t \in Tasks |-> "none"]
  /\ input = [t \in Tasks |-> "none"]
  /\ posted = [t \in Mutating |-> 0]
  /\ approval = [t \in Mutating |-> "approved"]
  /\ crashes = 0

At(t, at) == task[t].at = at
Go(t, at) == task' = [task EXCEPT ![t].at = at]

\* assertRunControl
Interrupted(t) == t \notin live \/ control # "running" \/ task[t].rev # revision

\* The task returns or throws; a mutation that did not verify fails its approval.
Conclude(t) ==
  /\ Go(t, "done")
  /\ live' = live \ {t}
  /\ approval' = IF t \in Mutating THEN [approval EXCEPT ![t] = "failed"] ELSE approval

Asked(t) == At(t, "idle") /\ Cardinality({u \in Tasks : ~At(u, "idle")}) < MaxCalls

-----------------------------------------------------------------------------
(* commitApprovedVisualAction before the runtime                           *)

Preflight(t) ==
  /\ t \in Mutating /\ Asked(t)
  /\ \/ /\ control = "running"
        /\ task' = [task EXCEPT ![t] = [Idle EXCEPT !.at = "given", !.same = TRUE, !.taken = revision]]
        /\ UNCHANGED approval
     \/ /\ Go(t, "done")
        /\ approval' = [approval EXCEPT ![t] = "cancelled"]
  /\ UNCHANGED <<memory, claims, record, world, crashes>>

-----------------------------------------------------------------------------
(* runMicroTask                                                            *)

Begin(t) ==
  /\ IF t \in Mutating THEN At(t, "given") ELSE Asked(t)
  /\ IF control = "running"
       THEN /\ task' = [task EXCEPT ![t].at = "bind", ![t].rev = revision]
            /\ live' = live \cup {t}
            /\ UNCHANGED approval
       ELSE Conclude(t)
  /\ UNCHANGED <<control, revision, fresh, attempted, claims, record, world, crashes>>

\* The task is bound: the screenshot it was given counts unless control changed
\* since somebody last took a fresh one.
Bound(t) ==
  /\ At(t, "bind")
  /\ IF Interrupted(t)
       THEN Conclude(t) /\ UNCHANGED fresh
       ELSE /\ Go(t, IF t \in Mutating /\ ~fresh THEN "ground" ELSE "capture")
            /\ fresh' = FALSE
            /\ UNCHANGED <<live, approval>>
  /\ UNCHANGED <<control, revision, attempted, claims, record, world, crashes>>

Capture(t) ==
  /\ At(t, "capture") /\ ~Interrupted(t)
  /\ task' = [task EXCEPT ![t].at = "ground", ![t].same = TRUE, ![t].taken = revision]
  /\ UNCHANGED <<memory, disk, world, crashes>>

\* An action is grounded and the window is still the one of the screenshot.
Ground(t) ==
  /\ At(t, "ground") /\ ~Interrupted(t)
  /\ Go(t, IF t \in Mutating THEN "recheck" ELSE "save")
  /\ UNCHANGED <<memory, disk, world, crashes>>

\* Immediate capture, the plan not attempted yet, and the claim in memory.
Recheck(t) ==
  /\ At(t, "recheck") /\ ~Interrupted(t)
  /\ IF ~task[t].same \/ KeyOf[t] \in attempted
       THEN Conclude(t) /\ UNCHANGED attempted
       ELSE /\ task' = [task EXCEPT ![t].at = "claim", ![t].mutated = TRUE]
            /\ attempted' = attempted \cup {KeyOf[t]}
            /\ UNCHANGED <<live, approval>>
  /\ UNCHANGED <<control, revision, fresh, claims, record, world, crashes>>

\* Mutant: the claim on disk is written over.
MutClaim(t) ==
  /\ At(t, "claim")
  /\ claims' = claims \cup {KeyOf[t]}
  /\ Go(t, "save")
  /\ UNCHANGED <<memory, record, approval, world, crashes>>

\* The claim on disk, created only where there is none.
Claim(t) ==
  /\ At(t, "claim")
  /\ IF KeyOf[t] \in claims
       THEN Conclude(t) /\ UNCHANGED claims
       ELSE /\ claims' = claims \cup {KeyOf[t]}
            /\ Go(t, "save")
            /\ UNCHANGED <<live, approval>>
  /\ UNCHANGED <<control, revision, fresh, attempted, record, world, crashes>>

\* Saved, then handed to the operator in the same turn unless control changed.
Save(t) ==
  /\ At(t, "save")
  /\ IF t \in live
       THEN /\ record' = [record EXCEPT ![t] = "planned"]
            /\ input' = [input EXCEPT ![t] = "queued"]
            /\ Go(t, "execute")
            /\ UNCHANGED <<live, approval>>
       ELSE /\ record' = [record EXCEPT ![t] = "unknown"]
            /\ input' = [input EXCEPT ![t] = "none"]
            /\ Conclude(t)
  /\ UNCHANGED <<control, revision, fresh, attempted, claims, posted, crashes>>

\* Mutant: the native action counts as started once it returned.
MutCaught(t) ==
  IF task[t].at \in {"save", "execute"} THEN "blocked"
  ELSE IF task[t].at \in {"after", "verify"} THEN "unknown" ELSE record[t]

\* What the catch block makes of the record of this attempt.
Caught(t) ==
  IF task[t].at = "save" THEN "blocked"
  ELSE IF task[t].at \in {"execute", "after", "verify"} THEN "unknown" ELSE record[t]

CaughtRecord(t) == record' = [record EXCEPT ![t] = Caught(t)]

\* The next attempt, where a mutation was not attempted and control is the agent's.
MayRetry(t) ==
  ~task[t].mutated /\ task[t].attempt < MaxAttempts /\ control = "running"

Again(t) ==
  IF MayRetry(t)
    THEN /\ task' = [task EXCEPT ![t].at = "capture", ![t].attempt = @ + 1]
         /\ UNCHANGED <<live, approval>>
    ELSE Conclude(t)

\* A capture, the record or the native request fails with an error of its own.
Fail(t) ==
  /\ \/ task[t].at \in {"capture", "ground", "recheck", "save", "after", "verify"}
     \/ At(t, "execute") /\ input[t] \in {"failed", "dropped"}
  /\ CaughtRecord(t)
  /\ input' = [input EXCEPT ![t] = IF At(t, "save") THEN "none" ELSE @]
  /\ Again(t)
  /\ UNCHANGED <<control, revision, fresh, attempted, claims, posted, crashes>>

\* Mutant: the native request is awaited without a timeout.
MutAwaits == {"capture", "ground", "recheck", "after", "verify"}

Awaits == {"capture", "ground", "recheck", "execute", "after", "verify"}

\* A timeout, another window, a policy or a done action ends the task.
Stopped(t) ==
  /\ task[t].at \in Awaits
  /\ CaughtRecord(t)
  /\ Conclude(t)
  /\ UNCHANGED <<control, revision, fresh, attempted, claims, world, crashes>>

\* Control changed while the task waited: no retry, and the record stays open.
Interrupt(t) ==
  /\ task[t].at \in Awaits /\ Interrupted(t)
  /\ CaughtRecord(t)
  /\ Conclude(t)
  /\ UNCHANGED <<control, revision, fresh, attempted, claims, world, crashes>>

Executed(t) ==
  /\ At(t, "execute") /\ input[t] = "posted" /\ ~Interrupted(t)
  /\ record' = [record EXCEPT ![t] = "posted"]
  /\ Go(t, "after")
  /\ UNCHANGED <<memory, claims, approval, world, crashes>>

After(t) ==
  /\ At(t, "after") /\ ~Interrupted(t)
  /\ Go(t, "verify")
  /\ UNCHANGED <<memory, disk, world, crashes>>

\* The verifier matched, or not; the record says which.
Verify(t) ==
  /\ At(t, "verify") /\ ~Interrupted(t)
  /\ \/ /\ record' = [record EXCEPT ![t] = "verified"]
        /\ live' = live \ {t}
        /\ Go(t, IF t \in Mutating THEN "confirm" ELSE "done")
        /\ UNCHANGED approval
     \/ record' = [record EXCEPT ![t] = "unverified"] /\ Again(t)
  /\ UNCHANGED <<control, revision, fresh, attempted, claims, world, crashes>>

-----------------------------------------------------------------------------
(* commitApprovedVisualAction after the runtime                            *)

\* The exact value was read; refreshForPersistence takes control as it is now.
Confirm(t) ==
  /\ At(t, "confirm")
  /\ IF control = "running"
       THEN /\ task' = [task EXCEPT ![t].at = "refresh", ![t].rev = revision]
            /\ live' = live \cup {t}
            /\ UNCHANGED approval
       ELSE Conclude(t)
  /\ UNCHANGED <<control, revision, fresh, attempted, claims, record, world, crashes>>

\* Reviewers, the refresh or a store fail: the approval does, the input stays.
ConfirmFails(t) ==
  /\ task[t].at \in {"confirm", "refresh", "final"}
  /\ Conclude(t)
  /\ UNCHANGED <<control, revision, fresh, attempted, claims, record, world, crashes>>

Refreshed(t) ==
  /\ At(t, "refresh") /\ ~Interrupted(t)
  /\ Go(t, "final")
  /\ live' = live \ {t}
  /\ UNCHANGED <<control, revision, fresh, attempted, disk, world, crashes>>

\* finalizeActionRecord, then finish.
Finalize(t) ==
  /\ At(t, "final")
  /\ IF record[t] = "final"
       THEN Go(t, "done") /\ approval' = [approval EXCEPT ![t] = "executed"] /\ UNCHANGED record
       ELSE record' = [record EXCEPT ![t] = "final"] /\ UNCHANGED <<task, approval>>
  /\ UNCHANGED <<memory, claims, world, crashes>>

-----------------------------------------------------------------------------
(* Control                                                                 *)

\* Mutant: the queue of the operator outlives a change of control.
MutDropped == input

\* cancelPendingInput: what the helper has not begun is dropped.
Dropped == [t \in Tasks |-> IF input[t] = "queued" THEN "dropped" ELSE input[t]]

SetControl(next) ==
  /\ revision < MaxControls
  /\ control' = next
  /\ revision' = revision + 1
  /\ fresh' = TRUE
  /\ live' = {}
  /\ input' = Dropped
  /\ UNCHANGED <<attempted, disk, posted, task, crashes>>

\* pause, resume, takeover (of the user's own input too), returnControl, cancel.
ChangeControl ==
  \/ control \in {"running", "user_control"} /\ SetControl("paused")
  \/ control \in {"paused", "user_control"} /\ SetControl("running")
  \/ control \in {"running", "paused"} /\ SetControl("user_control")
  \/ control # "cancelled" /\ SetControl("cancelled")

-----------------------------------------------------------------------------
(* The helper, the page and the daemon                                     *)

\* The pixels are no longer those that anybody read.
Repainted == [t \in Tasks |-> [task[t] EXCEPT !.same = FALSE]]

\* Later than a task that timed out, too: nothing aborted its controller.
Send(t) ==
  /\ input[t] = "queued"
  /\ input' = [input EXCEPT ![t] = "sent"]
  /\ UNCHANGED <<memory, disk, posted, task, crashes>>

Post(t) ==
  /\ input[t] = "sent"
  /\ input' = [input EXCEPT ![t] = "posted"]
  /\ posted' = IF t \in Mutating THEN [posted EXCEPT ![t] = @ + 1] ELSE posted
  /\ task' = Repainted
  /\ UNCHANGED <<memory, disk, crashes>>

Refuse(t) ==
  /\ input[t] \in {"queued", "sent"}
  /\ input' = [input EXCEPT ![t] = "failed"]
  /\ UNCHANGED <<memory, disk, posted, task, crashes>>

PageChanges ==
  /\ task' = Repainted
  /\ UNCHANGED <<memory, disk, world, crashes>>

Crash ==
  /\ crashes < MaxCrashes
  /\ crashes' = crashes + 1
  /\ control' = "running" /\ revision' = 0 /\ fresh' = FALSE
  /\ live' = {} /\ attempted' = {}
  /\ input' = Dropped
  /\ task' = [t \in Tasks |-> IF At(t, "idle") THEN task[t] ELSE [Idle EXCEPT !.at = "done"]]
  /\ UNCHANGED <<disk, posted>>

-----------------------------------------------------------------------------
Step(t) ==
  \/ Bound(t) \/ Capture(t) \/ Ground(t) \/ Recheck(t) \/ Claim(t) \/ Save(t)
  \/ Fail(t) \/ Stopped(t) \/ Interrupt(t) \/ Executed(t) \/ After(t) \/ Verify(t)
  \/ Confirm(t) \/ ConfirmFails(t) \/ Refreshed(t) \/ Finalize(t)

Next ==
  \/ \E t \in Tasks : Preflight(t) \/ Begin(t) \/ Step(t) \/ Send(t) \/ Post(t) \/ Refuse(t)
  \/ ChangeControl \/ PageChanges \/ Crash

Spec == Init /\ [][Next]_vars

-----------------------------------------------------------------------------
(* The invariant                                                           *)

Early == {"idle", "given", "bind", "capture", "ground", "recheck", "claim"}
Seen == {"after", "verify", "confirm", "refresh", "final"}
Places == Early \cup {"save", "execute", "done"} \cup Seen

TypeOK ==
  /\ control \in {"running", "paused", "user_control", "cancelled"}
  /\ revision \in Nat /\ fresh \in BOOLEAN /\ live \subseteq Tasks
  /\ task \in [Tasks -> [at : Places, rev : Nat, taken : Nat, same : BOOLEAN,
                         attempt : Nat, mutated : BOOLEAN]]
  /\ record \in [Tasks -> {"none", "planned", "unknown", "blocked", "posted", "verified",
                           "unverified", "final"}]
  /\ input \in [Tasks -> {"none", "queued", "dropped", "sent", "posted", "failed"}]
  /\ posted \in [Mutating -> 0..1]
  /\ approval \in [Mutating -> {"approved", "cancelled", "failed", "executed"}]

\* A task that may go on has had control since it began, and so has one whose input waits.
Controlled(t) ==
  /\ t \in live \/ input[t] = "queued" => control = "running" /\ task[t].rev = revision
  /\ t \in live => task[t].at \notin {"idle", "given", "confirm", "final", "done"}
  /\ t \notin Mutating /\ ((t \in live /\ task[t].at \in {"ground", "save"}) \/ input[t] = "queued") =>
       task[t].taken = revision

\* Where a task stands, with what became of its input.
InputOf(t) ==
  /\ input[t] = "queued" => task[t].at \in {"execute", "done"}
  /\ task[t].at \in Seen => input[t] = "posted"
  /\ task[t].at = "idle" => input[t] = "none"
  /\ t \notin Mutating => task[t].at \notin {"given", "recheck", "claim", "confirm", "refresh", "final"}

RecordOf(t) ==
  /\ input[t] \in {"queued", "sent", "posted"} => record[t] \notin {"none", "blocked"}
  /\ record[t] \in {"posted", "verified", "unverified", "final"} => input[t] = "posted"

\* A mutating task is past its claim, or its input is.
Holds(t) == task[t].at \in {"save", "execute"} \cup Seen \/ input[t] # "none"

Attempts(t) ==
  /\ task[t].at \in Early \cup {"save"} => input[t] = "none"
  /\ task[t].at \in {"claim", "save", "execute", "after", "verify"} => task[t].mutated
  /\ posted[t] = IF input[t] = "posted" THEN 1 ELSE 0
  /\ approval[t] = "executed" => task[t].at = "done" /\ record[t] = "final"
  /\ Holds(t) => KeyOf[t] \in claims

OneHolder ==
  \A t, u \in Mutating : t # u /\ KeyOf[t] = KeyOf[u] => ~Holds(t) \/ ~Holds(u)

VisualInv ==
  /\ TypeOK
  /\ \A t \in Tasks : Controlled(t) /\ InputOf(t) /\ RecordOf(t)
  /\ \A t \in Mutating : Attempts(t)
  /\ OneHolder

-----------------------------------------------------------------------------
(* "native execution ... mutating actions are never retried" and "cannot be *)
(* replayed after restart": whatever tasks ask for it, before and after a   *)
(* crash, an approved mutation reaches the screen once.                     *)
MutationOnce ==
  \A t \in Mutating :
    /\ posted[t] <= 1
    /\ \A u \in Mutating \ {t} : KeyOf[t] = KeyOf[u] => posted[t] + posted[u] <= 1

(* A record never hides an input and never claims one: blocked or absent    *)
(* means that nothing was posted, posted that something was, and an         *)
(* approval ends as executed only with a finalised record.                  *)
RecordHonest ==
  \A t \in Tasks :
    /\ input[t] \in {"sent", "posted"} => record[t] \notin {"none", "blocked"}
    /\ record[t] \in {"posted", "verified", "unverified", "final"} => input[t] = "posted"
    /\ t \in Mutating /\ approval[t] = "executed" => record[t] = "final"

(* Input leaves for the helper only while the agent has had control since   *)
(* the task began, and on pixels that were read under that control.         *)
SentUnderControl ==
  [][\A t \in Tasks :
       input[t] # "sent" /\ input'[t] = "sent" =>
         /\ control = "running" /\ task[t].rev = revision
         /\ t \in Mutating \/ task[t].taken = revision]_vars

InputHolds == [][MutationOnce' /\ RecordHonest']_vars /\ SentUnderControl

(* Every task that began returns, however long the helper hangs.            *)
TasksEnd == \A t \in Tasks : At(t, "bind") ~> At(t, "done")

(* requiresFreshCapture asks that input after a return of control be        *)
(* grounded on a capture taken since; one flag serves all tasks, and the    *)
(* first one clears it for another that was given an older screenshot.      *)
FreshAfterReturn ==
  [][\A t \in Tasks : input[t] # "sent" /\ input'[t] = "sent" => task[t].taken = revision]_vars
=============================================================================
