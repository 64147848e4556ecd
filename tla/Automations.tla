---------------------------- MODULE Automations ----------------------------
(***************************************************************************)
(* One scheduled automation: AutomationScheduler                           *)
(* (packages/automations/src/scheduler.ts), the file stores under it and   *)
(* the routes that pause, resume, delete and approve                       *)
(* (packages/server/src/automation-routes.ts).                             *)
(*                                                                         *)
(* The stores are whole-document and last-writer-wins; every await is a    *)
(* step.  Inside the scheduler the in-flight guard serialises dispatch and *)
(* approveRun; the routes write the same record without it.  A caller is   *)
(* one request (run-now, approve, pause, resume, delete) or the 30 s tick, *)
(* which starts over when it is done.                                      *)
(***************************************************************************)
EXTENDS FiniteSets, Integers

CONSTANTS
    Caller,          \* the tick and the requests
    KindOf,          \* what each caller is
    Run,             \* run ids (randomUUID)
    NoRun,           \* a caller without a run
    Window,          \* idempotencyWindowSeconds
    Period,          \* distance of two cron slots
    DayLength,       \* a UTC day
    MaxRunsPerDay,   \* guards.maxRunsPerDay
    Cost, MaxCost,   \* costUsd of a succeeded run; guards.maxCostUsd
    MaxNow,          \* bound: the clock stops here
    MaxCrashes       \* bound: daemon crashes

Kind == {"tick", "runNow", "approve", "pause", "resume", "delete"}

ASSUME AutomationAssumption ==
    /\ KindOf \in [Caller -> Kind]
    /\ NoRun \notin Run
    /\ Window \in Nat \ {0} /\ Period \in Nat \ {0} /\ DayLength \in Nat \ {0}
    /\ MaxRunsPerDay \in Nat \ {0} /\ Cost \in Nat /\ MaxCost \in Nat \ {0}
    /\ MaxNow \in Nat /\ MaxCrashes \in Nat

VARIABLES
    automation,   \* automations/<id>.json
    runs,         \* automation-runs/<id>.json
    mutating,     \* actionIsMutating(automation.action)
    inflight,     \* is the automation in the scheduler's in-flight set?
    pc,           \* the await each caller stands at
    mem,          \* what each caller read or decided before it
    now,          \* the clock
    crashes,      \* daemon crashes so far
    admitted,     \* history: runs that passed the guards of dispatch
    effects,      \* history: times each run's action succeeded
    entered,      \* history: times an action was entered, per day
    reruns,       \* history: approvals that took each run up
    removed       \* history: runs a delete took off the disk

vars == <<automation, runs, mutating, inflight, pc, mem, now, crashes,
          admitted, effects, entered, reruns, removed>>
history == <<admitted, effects, entered, reruns, removed>>
disk == <<automation, runs>>

Automation == [present : BOOLEAN, state : {"active", "paused"}, next : Nat, runCount : Nat]

Blocking == {"running", "succeeded", "waiting-approval"}
Status == Blocking \cup {"failed", "skipped-duplicate"}
RunRecord == [status : Status \cup {"none", "deleted"}, key : Nat, startedAt : Nat]

Label == {"idle", "list", "load", "enter", "dedupe", "caps", "skip", "capped",
          "park", "start", "act", "succeeded", "failed", "readFresh", "writeFresh",
          "release", "approveAutomation", "approveEnter", "rerun", "write",
          "delete", "done"}
Patch == {"bump", "schedule", "touch"}

Memory == [snap : Automation, fresh : Automation, trigger : Nat, at : Nat,
           run : Run \cup {NoRun}, patch : Patch, doomed : SUBSET Run]

Day(t) == t \div DayLength
Bucket(t) == t \div Window
NextFireAt(t) == Period * (t \div Period) + Period
Days == 0 .. MaxNow

TypeOK ==
    /\ automation \in Automation
    /\ runs \in [Run -> RunRecord]
    /\ mutating \in BOOLEAN
    /\ inflight \in BOOLEAN
    /\ pc \in [Caller -> Label]
    /\ mem \in [Caller -> Memory]
    /\ now \in Nat /\ crashes \in Nat
    /\ admitted \subseteq Run
    /\ effects \in [Run -> Nat]
    /\ entered \in [Days -> Nat]
    /\ reruns \in [Run -> Nat]
    /\ removed \subseteq Run

Created == [present |-> TRUE, state |-> "active", next |-> NextFireAt(0), runCount |-> 0]
Blank == [snap |-> Created, fresh |-> Created, trigger |-> 0, at |-> 0,
          run |-> NoRun, patch |-> "bump", doomed |-> {}]

Fresh ==
    /\ automation = Created
    /\ runs = [r \in Run |-> [status |-> "none", key |-> 0, startedAt |-> 0]]
    /\ mutating \in BOOLEAN
    /\ inflight = FALSE
    /\ mem = [c \in Caller |-> Blank]
    /\ now = 0
    /\ admitted = {}
    /\ effects = [r \in Run |-> 0]
    /\ entered = [d \in Days |-> 0]
    /\ reruns = [r \in Run |-> 0]
    /\ removed = {}

Init ==
    /\ Fresh
    /\ pc = [c \in Caller |-> "idle"]
    /\ crashes = 0

world == <<mutating, now, crashes>>

Goto(c, label) == pc' = [pc EXCEPT ![c] = label]

Remember(c, m) == mem' = [mem EXCEPT ![c] = m]

(* The caller returns or throws; the tick is armed again.                  *)
Finish(c) ==
    /\ Goto(c, IF KindOf[c] = "tick" THEN "idle" ELSE "done")
    /\ Remember(c, Blank)

-----------------------------------------------------------------------------
(* tick() and runNow() up to the in-flight guard of dispatch               *)

Tick(c) ==
    /\ KindOf[c] = "tick" /\ pc[c] = "idle"
    /\ Goto(c, "list")
    /\ Remember(c, [mem[c] EXCEPT !.at = now])
    /\ UNCHANGED <<disk, inflight, world, history>>

(* The slot is due when the clock read before the listing is past it.      *)
ListActive(c) ==
    /\ pc[c] = "list"
    /\ IF automation.present /\ automation.state = "active"
            /\ automation.next <= mem[c].at /\ ~inflight
         THEN /\ Goto(c, "load")
              /\ Remember(c, [mem[c] EXCEPT !.trigger = automation.next])
         ELSE Finish(c)
    /\ UNCHANGED <<disk, inflight, world, history>>

RunNow(c) ==
    /\ KindOf[c] = "runNow" /\ pc[c] = "idle"
    /\ IF automation.present
         THEN /\ Goto(c, "load")
              /\ Remember(c, [mem[c] EXCEPT !.trigger = now])
         ELSE Finish(c)
    /\ UNCHANGED <<disk, inflight, world, history>>

Load(c) ==
    /\ pc[c] = "load"
    /\ IF automation.present
         THEN /\ Goto(c, "enter")
              /\ Remember(c, [mem[c] EXCEPT !.snap = automation])
         ELSE Finish(c)
    /\ UNCHANGED <<disk, inflight, world, history>>

(* Mutant: the in-flight set is not consulted. *)
EnterUnguarded(c) ==
    /\ pc[c] = "enter"
    /\ inflight' = TRUE
    /\ Goto(c, "dedupe")
    /\ Remember(c, [mem[c] EXCEPT !.at = now])
    /\ UNCHANGED <<disk, world, history>>

(* AUTOMATION_BUSY, or the in-flight entry is taken in the same turn.      *)
Enter(c) ==
    /\ pc[c] = "enter"
    /\ \/ inflight /\ Finish(c) /\ UNCHANGED inflight
       \/ /\ ~inflight
          /\ inflight' = TRUE
          /\ Goto(c, "dedupe")
          /\ Remember(c, [mem[c] EXCEPT !.at = now])
    /\ UNCHANGED <<disk, world, history>>

-----------------------------------------------------------------------------
(* dispatch(): dedupe, daily caps, approval gate                           *)

(* Mutant: a run that never reported its end does not block. *)
DuplicateOfFinished(key) ==
    \E r \in Run : runs[r].key = key /\ runs[r].status \in Blocking \ {"running"}

Duplicate(key) == \E r \in Run : runs[r].key = key /\ runs[r].status \in Blocking

Dedupe(c) ==
    /\ pc[c] = "dedupe"
    /\ Goto(c, IF Duplicate(Bucket(mem[c].trigger)) THEN "skip" ELSE "caps")
    /\ UNCHANGED <<disk, inflight, mem, world, history>>

RunsToday(t) ==
    {r \in Run : /\ runs[r].status \notin {"none", "deleted", "skipped-duplicate"}
                 /\ runs[r].startedAt >= Day(t) * DayLength}

(* Mutant: one run too many. *)
CapHitLate(t) == Cardinality(RunsToday(t)) > MaxRunsPerDay

CapHit(t) ==
    \/ Cardinality(RunsToday(t)) >= MaxRunsPerDay
    \/ Cost * Cardinality({r \in RunsToday(t) : runs[r].status = "succeeded"}) >= MaxCost

CheckCaps(c) ==
    /\ pc[c] = "caps"
    /\ Goto(c, IF CapHit(mem[c].at) THEN "capped" ELSE IF mutating THEN "park" ELSE "start")
    /\ UNCHANGED <<disk, inflight, mem, world, history>>

(* randomUUID: any id not used before; which one makes no difference.      *)
FreshRun == CHOOSE r \in Run : runs[r].status = "none"

SaveNewRun(c, status) ==
    /\ \E r \in Run : runs[r].status = "none"
    /\ runs' = [runs EXCEPT ![FreshRun] =
                   [status |-> status, key |-> Bucket(mem[c].trigger), startedAt |-> mem[c].at]]
    /\ UNCHANGED <<automation, inflight, world, effects, entered, reruns, removed>>

(* A tick consumes its slot, a manual run does not.                        *)
Skip(c) ==
    /\ pc[c] \in {"skip", "capped"}
    /\ SaveNewRun(c, IF pc[c] = "skip" THEN "skipped-duplicate" ELSE "failed")
    /\ Goto(c, IF KindOf[c] = "tick" THEN "readFresh" ELSE "release")
    /\ Remember(c, [mem[c] EXCEPT !.patch = "schedule"])
    /\ UNCHANGED admitted

Park(c) ==
    /\ pc[c] = "park"
    /\ SaveNewRun(c, "waiting-approval")
    /\ admitted' = admitted \cup {FreshRun}
    /\ Goto(c, "readFresh")
    /\ Remember(c, [mem[c] EXCEPT !.patch = IF KindOf[c] = "tick" THEN "schedule" ELSE "touch"])

Start(c) ==
    /\ pc[c] = "start"
    /\ SaveNewRun(c, "running")
    /\ admitted' = admitted \cup {FreshRun}
    /\ Remember(c, [mem[c] EXCEPT !.run = FreshRun])
    /\ Goto(c, "act")

-----------------------------------------------------------------------------
(* execute(): the action takes effect or fails, then the run is written    *)

Act(c) ==
    /\ pc[c] = "act"
    /\ entered' = [entered EXCEPT ![Day(now)] = @ + 1]
    /\ \/ /\ effects' = [effects EXCEPT ![mem[c].run] = @ + 1]
          /\ Goto(c, "succeeded")
       \/ Goto(c, "failed") /\ UNCHANGED effects
    /\ UNCHANGED <<disk, inflight, mem, world, admitted, reruns, removed>>

(* The record it spreads was read or built before the action ran.          *)
Record(c) ==
    /\ pc[c] \in {"succeeded", "failed"}
    /\ runs' = [runs EXCEPT ![mem[c].run].status = pc[c]]
    /\ Remember(c, [mem[c] EXCEPT !.patch = "bump"])
    /\ Goto(c, "readFresh")
    /\ UNCHANGED <<automation, inflight, world, history>>

-----------------------------------------------------------------------------
(* saveAutomation(): read the freshest record, write it back patched       *)

ReadFresh(c) ==
    /\ pc[c] = "readFresh"
    /\ Remember(c, [mem[c] EXCEPT !.fresh = IF automation.present THEN automation ELSE mem[c].snap])
    /\ Goto(c, "writeFresh")
    /\ UNCHANGED <<disk, inflight, world, history>>

(* runCount comes from the snapshot, everything else from the fresh record. *)
Patched(m) ==
    IF m.patch = "bump" THEN [m.fresh EXCEPT !.runCount = m.snap.runCount + 1]
    ELSE IF m.patch = "schedule" THEN [m.fresh EXCEPT !.next = NextFireAt(m.at)]
    ELSE m.fresh

(* After the bump a tick consumes its slot and a manual run is touched; an  *)
(* approval is done.                                                       *)
WriteFresh(c) ==
    /\ pc[c] = "writeFresh"
    /\ automation' = Patched(mem[c])
    /\ IF mem[c].patch = "bump" /\ KindOf[c] # "approve"
         THEN /\ Goto(c, "readFresh")
              /\ Remember(c, [mem[c] EXCEPT !.patch =
                            IF KindOf[c] = "tick" THEN "schedule" ELSE "touch"])
         ELSE Goto(c, "release") /\ UNCHANGED mem
    /\ UNCHANGED <<runs, inflight, world, history>>

(* Mutant: a run that failed returns before the finally block. *)
ReleaseSucceeded(c) ==
    /\ pc[c] = "release"
    /\ inflight' = (mem[c].run \in Run /\ runs[mem[c].run].status = "failed")
    /\ Finish(c)
    /\ UNCHANGED <<disk, world, history>>

Release(c) ==
    /\ pc[c] = "release"
    /\ inflight' = FALSE
    /\ Finish(c)
    /\ UNCHANGED <<disk, world, history>>

-----------------------------------------------------------------------------
(* approveRun(): the route minted and consumed a central approval for this  *)
(* request before it, so verifyApproval accepts it.  The action is never    *)
(* edited after creation, so the pinned fingerprint matches.               *)

ApproveLoad(c) ==
    /\ KindOf[c] = "approve" /\ pc[c] = "idle"
    /\ \E r \in Run :
          /\ runs[r].status = "waiting-approval"
          /\ Remember(c, [mem[c] EXCEPT !.run = r])
    /\ Goto(c, "approveAutomation")
    /\ UNCHANGED <<disk, inflight, world, history>>

ApproveAutomation(c) ==
    /\ pc[c] = "approveAutomation"
    /\ IF automation.present
         THEN /\ Goto(c, "approveEnter")
              /\ Remember(c, [mem[c] EXCEPT !.snap = automation])
         ELSE Finish(c)
    /\ UNCHANGED <<disk, inflight, world, history>>

(* The status read before two awaits is not read again.                    *)
ApproveEnter(c) ==
    /\ pc[c] = "approveEnter"
    /\ \/ inflight /\ Finish(c) /\ UNCHANGED inflight
       \/ /\ ~inflight
          /\ inflight' = TRUE
          /\ Goto(c, "rerun")
          /\ UNCHANGED mem
    /\ UNCHANGED <<disk, world, history>>

Rerun(c) ==
    /\ pc[c] = "rerun"
    /\ runs' = [runs EXCEPT ![mem[c].run].status = "running"]
    /\ reruns' = [reruns EXCEPT ![mem[c].run] = @ + 1]
    /\ Goto(c, "act")
    /\ UNCHANGED <<automation, inflight, mem, world, admitted, effects, entered, removed>>

-----------------------------------------------------------------------------
(* The routes that write the record without the guard                      *)

(* Pause and resume decide on the record they read; resume re-arms.        *)
SetState(c) ==
    /\ KindOf[c] \in {"pause", "resume"} /\ pc[c] = "idle"
    /\ LET state == IF KindOf[c] = "pause" THEN "paused" ELSE "active"
           next  == IF KindOf[c] = "pause" THEN automation.next ELSE NextFireAt(now)
       IN  IF automation.present /\ automation.state # state
             THEN /\ Goto(c, "write")
                  /\ Remember(c, [mem[c] EXCEPT !.fresh =
                                [automation EXCEPT !.state = state, !.next = next]])
             ELSE Finish(c)
    /\ UNCHANGED <<disk, inflight, world, history>>

WriteState(c) ==
    /\ pc[c] = "write"
    /\ automation' = mem[c].fresh
    /\ Finish(c)
    /\ UNCHANGED <<runs, inflight, world, history>>

(* The runs listed now go one by one, then the automation.                 *)
Delete(c) ==
    /\ KindOf[c] = "delete" /\ pc[c] = "idle"
    /\ IF automation.present
         THEN /\ Goto(c, "delete")
              /\ Remember(c, [mem[c] EXCEPT !.doomed =
                            {r \in Run : runs[r].status \notin {"none", "deleted"}}])
         ELSE Finish(c)
    /\ UNCHANGED <<disk, inflight, world, history>>

DeleteRun(c) ==
    /\ pc[c] = "delete"
    /\ \E r \in mem[c].doomed :
          /\ runs' = [runs EXCEPT ![r].status = "deleted"]
          /\ removed' = removed \cup {r}
          /\ Remember(c, [mem[c] EXCEPT !.doomed = @ \ {r}])
    /\ UNCHANGED <<automation, inflight, pc, world, admitted, effects, entered, reruns>>

DeleteAutomation(c) ==
    /\ pc[c] = "delete" /\ mem[c].doomed = {}
    /\ automation' = [automation EXCEPT !.present = FALSE]
    /\ Finish(c)
    /\ UNCHANGED <<runs, inflight, world, history>>

-----------------------------------------------------------------------------
(* The environment                                                         *)

(* The daemon dies with its in-flight set and is started again.            *)
Crash ==
    /\ crashes < MaxCrashes
    /\ crashes' = crashes + 1
    /\ inflight' = FALSE
    /\ pc' = [c \in Caller |-> IF KindOf[c] = "tick" \/ pc[c] = "idle" THEN "idle" ELSE "done"]
    /\ mem' = [c \in Caller |-> Blank]
    /\ UNCHANGED <<disk, mutating, now, history>>

Clock ==
    /\ now < MaxNow
    /\ now' = now + 1
    /\ UNCHANGED <<disk, mutating, inflight, pc, mem, crashes, history>>

-----------------------------------------------------------------------------
Dispatch(c) ==
    \/ Load(c) \/ Enter(c) \/ Dedupe(c) \/ CheckCaps(c) \/ Skip(c) \/ Park(c) \/ Start(c)

Execute(c) == Act(c) \/ Record(c) \/ ReadFresh(c) \/ WriteFresh(c) \/ Release(c)

Approve(c) == ApproveAutomation(c) \/ ApproveEnter(c) \/ Rerun(c)

Routes(c) == WriteState(c) \/ DeleteRun(c) \/ DeleteAutomation(c)

(* What follows the start of a request or of a tick.                       *)
Continue(c) ==
    ListActive(c) \/ Dispatch(c) \/ Execute(c) \/ Approve(c) \/ Routes(c)

Request(c) == RunNow(c) \/ ApproveLoad(c) \/ SetState(c) \/ Delete(c)

Next ==
    \/ \E c \in Caller : Tick(c) \/ Request(c) \/ Continue(c)
    \/ Crash \/ Clock

Spec == Init /\ [][Next]_vars

(* The timer keeps ticking, every await returns (executors included) and    *)
(* time passes; requests need not come.                                    *)
FairSpec ==
    /\ Spec
    /\ WF_vars(Clock)
    /\ \A c \in Caller : WF_vars(Tick(c)) /\ WF_vars(Continue(c))

-----------------------------------------------------------------------------
(* Properties                                                              *)

Executing == {"dedupe", "caps", "skip", "capped", "park", "start", "act", "succeeded",
              "failed", "readFresh", "writeFresh", "release", "rerun"}

(* "the same automation never executes twice concurrently" (class comment): *)
(* one caller at a time is past the in-flight guard, and only while it is   *)
(* in the set.                                                             *)
OneAtATime ==
    \A c, d \in Caller :
        pc[c] \in Executing => inflight /\ (pc[d] \in Executing => c = d)

Max1(n) == IF n > 1 THEN n ELSE 1

(* Two approvals read a parked run before either took it up, or a delete    *)
(* took the run off the disk that dispatch looks for its key in.           *)
Excused(r) == reruns[r] > 1 \/ r \in removed

(* "a second attempt inside the same trigger period bucket is recorded as   *)
(* skipped-duplicate instead of executing the action twice" (entities.ts),  *)
(* across ticks, manual runs, approvals, deletes and a crash inside the     *)
(* action: a run takes effect once, or once for each approval that took it  *)
(* up, and two runs of a bucket both do only if one of them is excused.     *)
EffectOncePerKey ==
    \A r, s \in Run :
        /\ effects[r] <= Max1(reruns[r])
        /\ effects[r] > 0 /\ effects[s] > 0 /\ runs[r].key = runs[s].key =>
              r = s \/ Excused(r) \/ Excused(s)

(* maxRunsPerDay (entities.ts) bounds what dispatch lets through per day,   *)
(* whatever was parked, approved, failed or lost in a crash; a run that a   *)
(* delete took off the disk is counted no more.                            *)
AdmittedWithinCap ==
    \A t \in 0 .. MaxNow :
        Cardinality({r \in admitted \ removed : Day(runs[r].startedAt) = Day(t)})
            <= MaxRunsPerDay

Due(slot) ==
    automation.present /\ automation.state = "active" /\ automation.next = slot /\ slot <= now

(* A due slot of an active automation is fired or skipped: nextFireAt moves *)
(* past it unless the automation is paused or deleted, and no failure,      *)
(* cap or crash leaves the in-flight guard taken.                          *)
DueSlotConsumed == \A slot \in 0 .. MaxNow : Due(slot) ~> ~Due(slot)

(* "re-approving a run that is not waiting-approval is a 409"               *)
(* (APPROVAL_FLOW.md): a run takes effect once.                            *)
RunTakesEffectOnce == \A r \in Run : effects[r] <= 1

(* "never fires a paused automation" (scheduler.test.ts): no tick starts to *)
(* dispatch once the stored state is paused.                               *)
PausedNeverFires ==
    [][\A c \in Caller :
          KindOf[c] = "tick" /\ pc[c] = "enter" /\ pc'[c] = "dedupe" =>
              automation.state = "active"]_vars

(* "a pause or edit that landed while the action executed is never          *)
(* clobbered" (saveAutomation): only a resume makes it active again.        *)
PauseKept ==
    [][automation.state = "paused" /\ automation'.state = "active" =>
          \E c \in Caller : KindOf[c] = "resume" /\ pc[c] = "write"]_vars

(* "Apply scheduler-owned fields onto the freshest stored record"           *)
(* (saveAutomation): a deleted automation is not written back.             *)
DeletedStaysDeleted == [][~automation.present => ~automation'.present]_vars

(* "Executions (runs that actually entered the action) allowed per UTC day" *)
(* (guards.maxRunsPerDay, entities.ts).                                    *)
ExecutionsWithinDailyCap == \A d \in Days : entered[d] <= MaxRunsPerDay

EnteredTotal ==
    LET upTo[d \in Days] == entered[d] + (IF d = 0 THEN 0 ELSE upTo[d - 1])
    IN  upTo[MaxNow]

(* "Number of times the action actually executed" (runCount, entities.ts):  *)
(* exact whenever no caller is between the action and its bookkeeping.      *)
RunCountExact ==
    crashes = 0 /\ (\A c \in Caller : pc[c] \notin Executing) =>
        automation.runCount = EnteredTotal

-----------------------------------------------------------------------------
(* The inductive invariant behind EffectOncePerKey.                         *)

OneBlockingPerKey ==
    \A r, s \in Run :
        runs[r].status \in Blocking /\ runs[s].status \in Blocking
            /\ runs[r].key = runs[s].key => r = s \/ Excused(r) \/ Excused(s)

(* What took effect shows in the status; what waits or is not there has     *)
(* taken none.                                                             *)
EffectShows ==
    \A r \in Run :
        /\ effects[r] <= Max1(reruns[r])
        /\ effects[r] > 0 => Excused(r) \/ runs[r].status \in {"running", "succeeded"}
        /\ runs[r].status \in {"none", "waiting-approval"} => effects[r] = 0 /\ reruns[r] = 0

Approving == {"approveAutomation", "approveEnter", "rerun"}
Acting == {"act", "succeeded", "failed"}

(* What a caller decided on still holds when it acts on it, or another      *)
(* approval was there, or a delete.                                        *)
DecisionStands(c) ==
    /\ pc[c] \in Approving =>
          /\ mem[c].run \in Run
          /\ effects[mem[c].run] <= reruns[mem[c].run]
          /\ \/ runs[mem[c].run].status = "waiting-approval"
             \/ reruns[mem[c].run] > 0 \/ mem[c].run \in removed
    /\ pc[c] \in Acting =>
          /\ mem[c].run \in Run
          /\ runs[mem[c].run].status = "running" \/ Excused(mem[c].run)
    /\ pc[c] \in {"act", "failed"} => effects[mem[c].run] < Max1(reruns[mem[c].run])
    /\ pc[c] \in {"caps", "park", "start"} => ~Duplicate(Bucket(mem[c].trigger))

(* A run that is only there for a caller that started it is in no           *)
(* approval's hands; an unused id is in nobody's.                          *)
OwnRuns ==
    \A c \in Caller :
        /\ mem[c].run \in Run => runs[mem[c].run].status # "none"
        /\ pc[c] \in Acting => runs[mem[c].run].status # "waiting-approval"
        /\ \A d \in Caller : pc[c] \in Approving /\ pc[d] \in Acting /\ mem[c].run = mem[d].run
              => reruns[mem[c].run] > 0

EffectInv ==
    /\ TypeOK
    /\ OneAtATime
    /\ OneBlockingPerKey
    /\ EffectShows
    /\ OwnRuns
    /\ \A c \in Caller : DecisionStands(c)

-----------------------------------------------------------------------------
(* The inductive invariant behind AdmittedWithinCap.                        *)

Counted == Status \ {"skipped-duplicate"}
Stored == {r \in Run : runs[r].status # "none"}

AdmittedLike(t) == {r \in admitted \ removed : Day(runs[r].startedAt) = Day(t)}

(* What the guards counted is still the count when the run is written.      *)
CapInv ==
    /\ TypeOK
    /\ OneAtATime
    /\ IsFiniteSet(Stored)
    /\ \A r \in admitted \ removed : runs[r].status \in Counted
    /\ \A t \in 0 .. MaxNow :
          /\ Cardinality(AdmittedLike(t)) <= MaxRunsPerDay
          /\ \A c \in Caller : pc[c] \in {"park", "start"} /\ Day(mem[c].at) = Day(t) =>
                Cardinality(AdmittedLike(t)) < MaxRunsPerDay
=============================================================================
