---------------------------- MODULE WriterLease ----------------------------
(***************************************************************************)
(* The workspace writer lease of packages/session-service/src/lease.ts.    *)
(*                                                                         *)
(* At most one daemon may write a workspace.  Ownership is a record at     *)
(* <root>/.adpilot/writer.lock, published with link(2); recovering the     *)
(* record of a dead process is serialised by a second record, the          *)
(* recovery guard.  Every await of acquire(), release() and runWhileHeld() *)
(* that touches a shared path is one action, so the file system operations *)
(* of several processes interleave as they do on disk.                     *)
(*                                                                         *)
(* An actor is one call of acquire() and the lease it returns; its name    *)
(* stands for the UUID of the records it publishes.  Paths with a UUID in  *)
(* their name (pending, stale, released) are private to one actor.         *)
(***************************************************************************)
EXTENDS FiniteSets, Integers

CONSTANTS
    Actor,              \* calls of WorkspaceWriterLease.acquire
    Process,            \* operating system processes
    Host,               \* machines that mount the workspace
    ProcOf,             \* the process (record.pid) an actor runs in
    HostOf,             \* the machine (record.hostname) of a process
    RecoverStale,       \* the actors whose options leave recoverStale on
    MaxRecoveries,      \* stale records one call moves away; 3 in the code
    MaxRemoved,         \* bound: guards of dead processes deleted by hand
    MaxForced,          \* bound: guards of live processes deleted by hand
    MaxPidTaken,        \* bound: times the pid of a dead process is reused
    MaxCrashes,         \* bound: processes that crash
    NoFile              \* an absent path

ASSUME LeaseAssumption ==
    /\ ProcOf \in [Actor -> Process]
    /\ HostOf \in [Process -> Host]
    /\ RecoverStale \subseteq Actor
    /\ MaxRecoveries \in Nat
    /\ MaxRemoved \in Nat
    /\ MaxForced \in Nat
    /\ MaxPidTaken \in Nat
    /\ MaxCrashes \in Nat
    /\ NoFile \notin Actor

VARIABLES
    files,      \* the record at each shared path, named by its actor
    pc,         \* the await each actor stands at
    observed,   \* the stale snapshot acquire() wants to move away
    aside,      \* the record an actor has renamed to its private path
    preserved,  \* records of the lock path left for good at a .stale or .released path
    recoveries, \* staleRecoveries of each call
    purpose,    \* why the actor runs releaseOwnedLeaseRecord
    dead,       \* processes that have crashed
    pidTaken,   \* dead processes whose pid a stranger uses now
    operator    \* guards deleted by hand, of dead or live processes; pids reused

vars == <<files, pc, observed, aside, preserved, recoveries, purpose, dead,
          pidTaken, operator>>

Path == {"lock", "guard"}
Guarded == {"verify", "beforeMove", "move", "checkMoved"}
Releasing == {"relRead", "relMove", "relCheck"}
Owning == {"held", "writing"}
Settled == {"failed", "released"} \cup Owning
Purpose == {"withdraw", "retry", "giveUp", "release"}
Label == {"idle", "readGuard", "publish", "recheck", "confirm", "observe",
          "judge", "takeGuard", "guardBusy"}
         \cup Guarded \cup Releasing \cup Settled

TypeOK ==
    /\ files \in [Path -> Actor \cup {NoFile}]
    /\ pc \in [Actor -> Label]
    /\ observed \in [Actor -> Actor \cup {NoFile}]
    /\ aside \in [Actor -> Actor \cup {NoFile}]
    /\ preserved \subseteq Actor
    /\ recoveries \in [Actor -> Nat]
    /\ purpose \in [Actor -> Purpose]
    /\ dead \subseteq Process
    /\ pidTaken \subseteq dead
    /\ operator \in [{"removed", "forced", "reused"} -> Nat]

Live(a) == ProcOf[a] \notin dead
At(a, label) == Live(a) /\ pc[a] = label

(* definitelyStale: only ESRCH on this host proves the holder gone.  EPERM  *)
(* and every other error count as alive.                                   *)
DefinitelyStale(a, holder) ==
    /\ HostOf[ProcOf[holder]] = HostOf[ProcOf[a]]
    /\ ProcOf[holder] \in dead \ pidTaken

Goto(a, label) == pc' = [pc EXCEPT ![a] = label]

Init ==
    /\ files = [p \in Path |-> NoFile]
    /\ pc = [a \in Actor |-> "idle"]
    /\ observed = [a \in Actor |-> NoFile]
    /\ aside = [a \in Actor |-> NoFile]
    /\ preserved = {}
    /\ recoveries = [a \in Actor |-> 0]
    /\ purpose = [a \in Actor |-> "giveUp"]
    /\ dead = {}
    /\ pidTaken = {}
    /\ operator = [k \in {"removed", "forced", "reused"} |-> 0]

-----------------------------------------------------------------------------
(* acquire(): publishing                                                   *)

world == <<dead, pidTaken, operator>>
recovery == <<observed, aside, preserved, recoveries, purpose>>

Start(a) ==
    /\ At(a, "idle")
    /\ Goto(a, "readGuard")
    /\ UNCHANGED <<files, recovery, world>>

ReadGuard(a) ==
    /\ At(a, "readGuard")
    /\ Goto(a, IF files["guard"] = NoFile THEN "publish" ELSE "failed")
    /\ UNCHANGED <<files, recovery, world>>

(* Mutant: the lock is published with rename(2), which overwrites. *)
PublishOverwriting(a) ==
    /\ At(a, "publish")
    /\ files' = [files EXCEPT !["lock"] = a]
    /\ Goto(a, "recheck")
    /\ UNCHANGED <<recovery, world>>

(* createExclusiveLease: link(2) creates the path or reports EEXIST.       *)
Publish(a) ==
    /\ At(a, "publish")
    /\ IF files["lock"] = NoFile
         THEN files' = [files EXCEPT !["lock"] = a] /\ Goto(a, "recheck")
         ELSE UNCHANGED files /\ Goto(a, "observe")
    /\ UNCHANGED <<recovery, world>>

(* A guard that appeared before the record was published wins: withdraw.   *)
Recheck(a) ==
    /\ At(a, "recheck")
    /\ IF files["guard"] = NoFile
         THEN Goto(a, "confirm") /\ UNCHANGED purpose
         ELSE /\ Goto(a, "relRead")
              /\ purpose' = [purpose EXCEPT ![a] = "withdraw"]
    /\ UNCHANGED <<files, observed, aside, preserved, recoveries, world>>

Confirm(a) ==
    /\ At(a, "confirm")
    /\ Goto(a, IF files["lock"] = a THEN "held" ELSE "failed")
    /\ UNCHANGED <<files, recovery, world>>

-----------------------------------------------------------------------------
(* acquire(): judging the holder and taking the recovery guard             *)

Observe(a) ==
    /\ At(a, "observe")
    /\ IF files["lock"] = NoFile
         THEN Goto(a, "readGuard") /\ UNCHANGED observed
         ELSE /\ Goto(a, "judge")
              /\ observed' = [observed EXCEPT ![a] = files["lock"]]
    /\ UNCHANGED <<files, aside, preserved, recoveries, purpose, world>>

Judge(a) ==
    /\ At(a, "judge")
    /\ Goto(a, IF /\ DefinitelyStale(a, observed[a])
                  /\ a \in RecoverStale
                  /\ recoveries[a] < MaxRecoveries
                 THEN "takeGuard" ELSE "failed")
    /\ UNCHANGED <<files, recovery, world>>

TakeGuard(a) ==
    /\ At(a, "takeGuard")
    /\ IF files["guard"] = NoFile
         THEN files' = [files EXCEPT !["guard"] = a] /\ Goto(a, "verify")
         ELSE UNCHANGED files /\ Goto(a, "guardBusy")
    /\ UNCHANGED <<recovery, world>>

(* Mutant: retry the guard without looking at it. *)
GuardBusyRetrying(a) ==
    /\ At(a, "guardBusy")
    /\ Goto(a, "takeGuard")
    /\ UNCHANGED <<files, recovery, world>>

(* The other recoverer may have finished between EEXIST and this read.     *)
GuardBusy(a) ==
    /\ At(a, "guardBusy")
    /\ Goto(a, IF files["guard"] = NoFile THEN "readGuard" ELSE "failed")
    /\ UNCHANGED <<files, recovery, world>>

-----------------------------------------------------------------------------
(* acquire(): moving the stale record away; `finally` always drops the     *)
(* guard, whether the loop continues ("retry") or throws ("giveUp").       *)

DropGuard(a, why) ==
    /\ Goto(a, "relRead")
    /\ purpose' = [purpose EXCEPT ![a] = why]

(* Mutant: the guarded re-read of the lock file is dropped. *)
VerifyTrusting(a) ==
    /\ At(a, "verify")
    /\ Goto(a, "move")
    /\ UNCHANGED <<files, recovery, world>>

Verify(a) ==
    /\ At(a, "verify")
    /\ \/ /\ files["lock"] # observed[a]
          /\ DropGuard(a, "retry")
       \/ /\ files["lock"] = observed[a]
          /\ ~DefinitelyStale(a, observed[a])
          /\ DropGuard(a, "giveUp")
       \/ /\ files["lock"] = observed[a]
          /\ DefinitelyStale(a, observed[a])
          /\ Goto(a, "beforeMove") /\ UNCHANGED purpose
    /\ UNCHANGED <<files, observed, aside, preserved, recoveries, world>>

(* The second comparison; ENOENT here is not caught inside the loop.       *)
BeforeMove(a) ==
    /\ At(a, "beforeMove")
    /\ \/ files["lock"] = NoFile /\ DropGuard(a, "giveUp")
       \/ files["lock"] \notin {NoFile, observed[a]} /\ DropGuard(a, "retry")
       \/ files["lock"] = observed[a] /\ Goto(a, "move") /\ UNCHANGED purpose
    /\ UNCHANGED <<files, observed, aside, preserved, recoveries, world>>

Move(a) ==
    /\ At(a, "move")
    /\ \/ /\ files["lock"] = NoFile
          /\ DropGuard(a, "giveUp")
          /\ UNCHANGED <<files, aside, recoveries>>
       \/ /\ files["lock"] # NoFile
          /\ files' = [files EXCEPT !["lock"] = NoFile]
          /\ aside' = [aside EXCEPT ![a] = files["lock"]]
          /\ recoveries' = [recoveries EXCEPT ![a] = @ + 1]
          /\ Goto(a, "checkMoved")
          /\ UNCHANGED purpose
    /\ UNCHANGED <<observed, preserved, world>>

(* Mutant: what was moved by mistake is not put back. *)
RestoreForgotten(a, path) ==
    /\ aside' = [aside EXCEPT ![a] = NoFile]
    /\ UNCHANGED <<files, preserved>>

(* restoreLeaseIfAbsent: link(2) never overwrites; on failure both records *)
(* stay on disk.                                                           *)
RestoreIfAbsent(a, path) ==
    /\ aside' = [aside EXCEPT ![a] = NoFile]
    /\ IF files[path] = NoFile
         THEN files' = [files EXCEPT ![path] = aside[a]] /\ UNCHANGED preserved
         ELSE /\ preserved' = IF path = "lock" THEN preserved \cup {aside[a]} ELSE preserved
              /\ UNCHANGED files

CheckMoved(a) ==
    /\ At(a, "checkMoved")
    /\ \/ /\ aside[a] = observed[a]
          /\ aside' = [aside EXCEPT ![a] = NoFile]
          /\ preserved' = preserved \cup {aside[a]}
          /\ DropGuard(a, "retry")
          /\ UNCHANGED files
       \/ /\ aside[a] # observed[a]
          /\ RestoreIfAbsent(a, "lock")
          /\ DropGuard(a, "giveUp")
    /\ UNCHANGED <<observed, recoveries, world>>

-----------------------------------------------------------------------------
(* releaseOwnedLeaseRecord, for the lock (withdraw, release) and the guard *)

Target(a) == IF purpose[a] \in {"withdraw", "release"} THEN "lock" ELSE "guard"

(* Where the caller stands when the record was released, and when it threw. *)
AfterRelease(a) == CASE purpose[a] = "retry" -> "readGuard"
                     [] purpose[a] = "release" -> "released"
                     [] OTHER -> "failed"
AfterThrow(a) == IF purpose[a] = "release" THEN "held" ELSE "failed"

RelRead(a) ==
    /\ At(a, "relRead")
    /\ Goto(a, IF files[Target(a)] = a THEN "relMove" ELSE AfterThrow(a))
    /\ UNCHANGED <<files, recovery, world>>

RelMove(a) ==
    /\ At(a, "relMove")
    /\ \/ /\ files[Target(a)] = NoFile
          /\ Goto(a, AfterThrow(a))
          /\ UNCHANGED <<files, aside>>
       \/ /\ files[Target(a)] # NoFile
          /\ files' = [files EXCEPT ![Target(a)] = NoFile]
          /\ aside' = [aside EXCEPT ![a] = files[Target(a)]]
          /\ Goto(a, "relCheck")
    /\ UNCHANGED <<observed, preserved, recoveries, purpose, world>>

RelCheck(a) ==
    /\ At(a, "relCheck")
    /\ \/ /\ aside[a] = a
          /\ aside' = [aside EXCEPT ![a] = NoFile]
          /\ Goto(a, AfterRelease(a))
          /\ UNCHANGED <<files, preserved>>
       \/ /\ aside[a] # a
          /\ RestoreIfAbsent(a, Target(a))
          /\ Goto(a, AfterThrow(a))
    /\ UNCHANGED <<observed, recoveries, purpose, world>>

-----------------------------------------------------------------------------
(* The lease in use.  withGate runs writes and release() one at a time:    *)
(* "writing" is a commit that passed assertHeldUnlocked.                    *)

BeginWrite(a) ==
    /\ At(a, "held")
    /\ files["lock"] = a
    /\ Goto(a, "writing")
    /\ UNCHANGED <<files, recovery, world>>

EndWrite(a) ==
    /\ At(a, "writing")
    /\ Goto(a, "held")
    /\ UNCHANGED <<files, recovery, world>>

(* ENOENT counts as released; a foreign record throws and stays held.      *)
Release(a) ==
    /\ At(a, "held")
    /\ \/ /\ files["lock"] = a
          /\ Goto(a, "relRead")
          /\ purpose' = [purpose EXCEPT ![a] = "release"]
       \/ /\ files["lock"] = NoFile
          /\ Goto(a, "released")
          /\ UNCHANGED purpose
    /\ UNCHANGED <<files, observed, aside, preserved, recoveries, world>>

-----------------------------------------------------------------------------
(* The environment                                                         *)

Crash(p) ==
    /\ p \notin dead
    /\ Cardinality(dead) < MaxCrashes
    /\ dead' = dead \cup {p}
    /\ UNCHANGED <<files, pc, recovery, pidTaken, operator>>

PidReused(p) ==
    /\ p \in dead \ pidTaken
    /\ operator["reused"] < MaxPidTaken
    /\ pidTaken' = pidTaken \cup {p}
    /\ operator' = [operator EXCEPT !["reused"] = @ + 1]
    /\ UNCHANGED <<files, pc, recovery, dead>>

(* The code never removes a guard that is not its own; a person can, though *)
(* only that of a dead process is left over.                                *)
RemoveGuardByHand ==
    /\ files["guard"] # NoFile
    /\ \/ /\ ~Live(files["guard"]) /\ operator["removed"] < MaxRemoved
          /\ operator' = [operator EXCEPT !["removed"] = @ + 1]
       \/ /\ Live(files["guard"]) /\ operator["forced"] < MaxForced
          /\ operator' = [operator EXCEPT !["forced"] = @ + 1]
    /\ files' = [files EXCEPT !["guard"] = NoFile]
    /\ UNCHANGED <<pc, recovery, dead, pidTaken>>

-----------------------------------------------------------------------------
Acquire(a) ==
    \/ ReadGuard(a) \/ Publish(a) \/ Recheck(a) \/ Confirm(a)
    \/ Observe(a) \/ Judge(a) \/ TakeGuard(a) \/ GuardBusy(a)
    \/ Verify(a) \/ BeforeMove(a) \/ Move(a) \/ CheckMoved(a)
    \/ RelRead(a) \/ RelMove(a) \/ RelCheck(a)

Use(a) == BeginWrite(a) \/ EndWrite(a) \/ Release(a)

Environment ==
    \/ \E p \in Process : Crash(p) \/ PidReused(p)
    \/ RemoveGuardByHand

Next ==
    \/ \E a \in Actor : Start(a) \/ Acquire(a) \/ Use(a)
    \/ Environment

Spec == Init /\ [][Next]_vars

(* A promise chain that is awaited makes progress: acquire() once started,  *)
(* and a write once begun.  Nothing obliges a daemon to release its lease. *)
FairSpec == Spec /\ \A a \in Actor : WF_vars(Acquire(a)) /\ WF_vars(EndWrite(a))

-----------------------------------------------------------------------------
(* Properties                                                              *)

(* Nobody deleted the guard of a recovery that was under way.               *)
Undisturbed == operator["forced"] = 0

(* Two live daemons never both hold the workspace: whatever the order of    *)
(* publishing, stale recovery and crashes (lease.ts acquire).              *)
MutualExclusion ==
    \A a, b \in Actor :
        Live(a) /\ Live(b) /\ pc[a] \in Owning /\ pc[b] \in Owning => a = b

(* While a gated commit runs, the lock file still names its owner, so the   *)
(* ownership read in assertHeldUnlocked is not stale when the commit acts. *)
WriterOwnsLock ==
    \A a \in Actor : At(a, "writing") => files["lock"] = a

(* Until a person deletes the guard of a live process: one writer, and what *)
(* it writes it writes as the owner.                                        *)
SoleWriter == Undisturbed => MutualExclusion /\ WriterOwnsLock

(* Until then stale recovery never takes the record of a live process off   *)
(* the lock path: only its own actor does (withdraw or release).            *)
LiveRecordStays ==
    [][\A a \in Actor :
          Undisturbed /\ files["lock"] = a /\ files'["lock"] # a /\ Live(a)
            => pc[a] = "relMove"]_vars

(* A live holder's record is never destroyed, even when an operator deletes *)
(* the guard of a running recovery: it is at the lock path, set aside by a  *)
(* recoverer, or preserved (the comment in restoreLeaseIfAbsent).          *)
HolderRecordSurvives ==
    \A a \in Actor :
        Live(a) /\ pc[a] \in Owning =>
            \/ files["lock"] = a
            \/ a \in preserved
            \/ \E b \in Actor : aside[b] = a

(* Every started acquire() of a live process returns or throws: the retry   *)
(* loop cannot spin for ever on other actors' records.                     *)
AcquireSettles ==
    \A a \in Actor : pc[a] = "readGuard" ~> (pc[a] \in Settled \/ ~Live(a))

(* A guard is dropped by the recovery that took it, unless its process dies *)
(* (the `finally` of acquire): a recovery that fails never blocks the next. *)
(* After a person deleted a live guard, a recoverer that puts the guard of  *)
(* another back may do so too late for that one to drop it.                 *)
GuardDropped ==
    \A a \in Actor :
        files["guard"] = a ~> (files["guard"] # a \/ ~Live(a) \/ ~Undisturbed)

(* Both: neither an acquire nor its recovery guard outlives its reason.     *)
NothingHangs == AcquireSettles /\ GuardDropped
-----------------------------------------------------------------------------
(* The inductive invariant behind HolderRecordSurvives                      *)

(* A lease from the publication of its record until its own actor has       *)
(* dropped that record, or has given up.                                    *)
Bound(a) ==
    \/ pc[a] \in {"recheck", "confirm"} \cup Owning
    \/ pc[a] \in Releasing /\ Target(a) = "lock"

(* The record is on disk, or in the hands of somebody who moved it off the  *)
(* lock path and will look at it next.                                      *)
Moved(b) == pc[b] = "checkMoved" \/ (pc[b] = "relCheck" /\ Target(b) = "lock")
Kept(a) ==
    \/ files["lock"] = a
    \/ a \in preserved
    \/ \E b \in Actor : aside[b] = a /\ Moved(b)

HolderInv ==
    /\ TypeOK
    /\ \A a \in Actor : pc[a] \in {"checkMoved", "relCheck"} => aside[a] # NoFile
    /\ \A a \in Actor : Live(a) /\ Bound(a) => Kept(a)

-----------------------------------------------------------------------------
(* The inductive invariant behind the other safety properties               *)

(* The record at the lock path from its publication to its withdrawal.     *)
Published(a) ==
    \/ pc[a] \in {"recheck", "confirm"} \cup Owning
    \/ pc[a] \in {"relRead", "relMove"} /\ purpose[a] \in {"withdraw", "release"}

HasGuard(a) ==
    \/ pc[a] \in Guarded
    \/ pc[a] \in {"relRead", "relMove"} /\ purpose[a] \in {"retry", "giveUp"}

PublishedOwnsLock == \A a \in Actor : Live(a) /\ Published(a) => files["lock"] = a
RecovererOwnsGuard == \A a \in Actor : Live(a) /\ HasGuard(a) => files["guard"] = a

(* What a recoverer is about to move belongs to a dead process ...          *)
ObservedDead ==
    \A a \in Actor :
        pc[a] \in {"takeGuard"} \cup Guarded =>
            observed[a] \in Actor /\ ProcOf[observed[a]] \in dead

(* ... and is still at the lock path when it is moved.                      *)
MoverSeesObserved ==
    \A a \in Actor :
        Live(a) /\ pc[a] \in {"beforeMove", "move"} => files["lock"] = observed[a]

SetAside ==
    \A a \in Actor :
        /\ pc[a] = "relCheck" => aside[a] = a
        /\ pc[a] = "checkMoved" => aside[a] = observed[a]
        /\ pc[a] = "judge" => observed[a] \in Actor

(* Together: a published record stays its live owner's, and whoever moves a *)
(* record away holds the guard and moves a dead process's record.          *)
RecoveryGuarded ==
    /\ PublishedOwnsLock
    /\ RecovererOwnsGuard
    /\ ObservedDead
    /\ MoverSeesObserved
    /\ SetAside

LeaseInv == HolderInv /\ (Undisturbed => RecoveryGuarded)
=============================================================================
