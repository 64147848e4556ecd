------------------------- MODULE WriterLease_proofs -------------------------
(* Safety of the workspace writer lease for every set of actors, processes  *)
(* and machines, any number of crashes and reused pids, and any number of   *)
(* guards that a person deletes.                                            *)
EXTENDS WriterLease, TLAPS

(* What a person with rm cannot do to a holder: destroy its record.         *)

LEMMA HolderStep ==
    ASSUME HolderInv, [Next]_vars
    PROVE  HolderInv'
<1> USE LeaseAssumption
<1> USE DEF HolderInv, TypeOK, Bound, Moved, Kept, Live, At, Goto, Target, world, recovery,
            Path, Label, Guarded, Releasing, Owning, Settled, Purpose
<1>1. ASSUME NEW a \in Actor, Start(a) PROVE HolderInv'
  BY <1>1 DEF Start
<1>2. ASSUME NEW a \in Actor, ReadGuard(a) PROVE HolderInv'
  BY <1>2 DEF ReadGuard
<1>3. ASSUME NEW a \in Actor, Publish(a) PROVE HolderInv'
  BY <1>3 DEF Publish
<1>4. ASSUME NEW a \in Actor, Recheck(a) PROVE HolderInv'
  BY <1>4 DEF Recheck
<1>5. ASSUME NEW a \in Actor, Confirm(a) PROVE HolderInv'
  BY <1>5 DEF Confirm
<1>6. ASSUME NEW a \in Actor, Observe(a) PROVE HolderInv'
  BY <1>6 DEF Observe
<1>7. ASSUME NEW a \in Actor, Judge(a) PROVE HolderInv'
  BY <1>7 DEF Judge
<1>8. ASSUME NEW a \in Actor, TakeGuard(a) PROVE HolderInv'
  BY <1>8 DEF TakeGuard
<1>9. ASSUME NEW a \in Actor, GuardBusy(a) PROVE HolderInv'
  BY <1>9 DEF GuardBusy
<1>10. ASSUME NEW a \in Actor, Verify(a) PROVE HolderInv'
  BY <1>10 DEF Verify, DropGuard
<1>11. ASSUME NEW a \in Actor, BeforeMove(a) PROVE HolderInv'
  BY <1>11 DEF BeforeMove, DropGuard
<1>12. ASSUME NEW a \in Actor, Move(a) PROVE HolderInv'
  BY <1>12 DEF Move, DropGuard
<1>13. ASSUME NEW a \in Actor, CheckMoved(a) PROVE HolderInv'
  BY <1>13 DEF CheckMoved, DropGuard, RestoreIfAbsent
<1>14. ASSUME NEW a \in Actor, RelRead(a) PROVE HolderInv'
  BY <1>14 DEF RelRead, AfterThrow
<1>15. ASSUME NEW a \in Actor, RelMove(a) PROVE HolderInv'
  BY <1>15 DEF RelMove, AfterThrow
<1>16. ASSUME NEW a \in Actor, RelCheck(a) PROVE HolderInv'
  BY <1>16 DEF RelCheck, AfterThrow, AfterRelease, RestoreIfAbsent
<1>17. ASSUME NEW a \in Actor, BeginWrite(a) PROVE HolderInv'
  BY <1>17 DEF BeginWrite
<1>18. ASSUME NEW a \in Actor, EndWrite(a) PROVE HolderInv'
  BY <1>18 DEF EndWrite
<1>19. ASSUME NEW a \in Actor, Release(a) PROVE HolderInv'
  BY <1>19 DEF Release
<1>20. ASSUME NEW p \in Process, Crash(p) PROVE HolderInv'
  BY <1>20 DEF Crash
<1>21. ASSUME NEW p \in Process, PidReused(p) PROVE HolderInv'
  BY <1>21 DEF PidReused
<1>22. CASE RemoveGuardByHand
  BY <1>22 DEF RemoveGuardByHand
<1>23. CASE UNCHANGED vars
  BY <1>23 DEF vars
<1> QED
  BY <1>1, <1>2, <1>3, <1>4, <1>5, <1>6, <1>7, <1>8, <1>9, <1>10, <1>11, <1>12, <1>13, <1>14, <1>15, <1>16, <1>17, <1>18, <1>19, <1>20, <1>21, <1>22, <1>23 DEF Next, Acquire, Use, Environment

LEMMA HolderInit == Init => HolderInv
<1> SUFFICES ASSUME Init PROVE HolderInv
  OBVIOUS
<1>1. TypeOK
  BY LeaseAssumption DEF Init, TypeOK, Path, Label, Purpose
<1>2. \A a \in Actor : pc[a] = "idle"
  BY DEF Init
<1> QED
  BY <1>1, <1>2 DEF HolderInv, Bound, Releasing, Owning

(* Whoever deletes guards of live recoveries, crashes and reuses pids: the  *)
(* record of a live holder is at the lock path, preserved, or in the hands  *)
(* of somebody who moved it (restoreLeaseIfAbsent of lease.ts).             *)
THEOREM LeaseHolderRecordSurvives == Spec => []HolderRecordSurvives
<1>1. HolderInv => HolderRecordSurvives
  BY DEF HolderInv, HolderRecordSurvives, Bound, Kept
<1>2. HolderInv /\ [Next]_vars => HolderInv'
  BY HolderStep
<1> QED
  BY <1>1, <1>2, HolderInit, PTL DEF Spec

-----------------------------------------------------------------------------
(* As long as nobody deletes the guard of a live process                    *)

LEMMA UndisturbedBefore ==
    ASSUME TypeOK, [Next]_vars, Undisturbed'
    PROVE  Undisturbed
<1>1. CASE RemoveGuardByHand
  BY <1>1 DEF RemoveGuardByHand, Undisturbed, TypeOK
<1>2. CASE \E p \in Process : PidReused(p)
  BY <1>2 DEF PidReused, Undisturbed, TypeOK
<1>3. CASE UNCHANGED operator
  BY <1>3 DEF Undisturbed
<1> QED
  BY <1>1, <1>2, <1>3
     DEF Next, Acquire, Use, Environment, vars, world, recovery, Start, ReadGuard, Publish, Recheck,
         Confirm, Observe, Judge, TakeGuard, GuardBusy, Verify, BeforeMove, Move,
         CheckMoved, RelRead, RelMove, RelCheck, BeginWrite, EndWrite, Release, Crash, DropGuard, RestoreIfAbsent

(* Every step of the protocol and of its environment keeps RecoveryGuarded. *)
LEMMA RecoveryStep ==
    ASSUME HolderInv, HolderInv', Undisturbed, Undisturbed', RecoveryGuarded, [Next]_vars
    PROVE  RecoveryGuarded'
<1>0. TypeOK /\ TypeOK'
  BY DEF HolderInv
<1> USE <1>0, LeaseAssumption
<1> USE DEF RecoveryGuarded, Undisturbed, TypeOK, PublishedOwnsLock, RecovererOwnsGuard, ObservedDead,
            MoverSeesObserved, SetAside, Published, HasGuard, Live, At, Goto,
            DropGuard, world, recovery, Path, Label, Guarded, Releasing, Owning,
            Settled, Purpose
<1>1. ASSUME NEW a \in Actor, Start(a) PROVE RecoveryGuarded'
  BY <1>1 DEF Start
<1>2. ASSUME NEW a \in Actor, ReadGuard(a) PROVE RecoveryGuarded'
  BY <1>2 DEF ReadGuard
<1>3. ASSUME NEW a \in Actor, Publish(a) PROVE RecoveryGuarded'
  BY <1>3 DEF Publish
<1>4. ASSUME NEW a \in Actor, Recheck(a) PROVE RecoveryGuarded'
  BY <1>4 DEF Recheck
<1>5. ASSUME NEW a \in Actor, Confirm(a) PROVE RecoveryGuarded'
  BY <1>5 DEF Confirm
<1>6. ASSUME NEW a \in Actor, Observe(a) PROVE RecoveryGuarded'
  BY <1>6 DEF Observe
<1>7. ASSUME NEW a \in Actor, Judge(a) PROVE RecoveryGuarded'
  BY <1>7 DEF Judge, DefinitelyStale
<1>8. ASSUME NEW a \in Actor, TakeGuard(a) PROVE RecoveryGuarded'
  BY <1>8 DEF TakeGuard
<1>9. ASSUME NEW a \in Actor, GuardBusy(a) PROVE RecoveryGuarded'
  BY <1>9 DEF GuardBusy
<1>10. ASSUME NEW a \in Actor, Verify(a) PROVE RecoveryGuarded'
  BY <1>10 DEF Verify, DefinitelyStale
<1>11. ASSUME NEW a \in Actor, BeforeMove(a) PROVE RecoveryGuarded'
  BY <1>11 DEF BeforeMove
(* The guard holder moves a dead process's record, so no live owner's.      *)
<1>12. ASSUME NEW a \in Actor, Move(a) PROVE RecoveryGuarded'
  BY <1>12 DEF Move
<1>13. ASSUME NEW a \in Actor, CheckMoved(a) PROVE RecoveryGuarded'
  BY <1>13 DEF CheckMoved
<1>14. ASSUME NEW a \in Actor, RelRead(a) PROVE RecoveryGuarded'
  BY <1>14 DEF RelRead, Target, AfterThrow
<1>15. ASSUME NEW a \in Actor, RelMove(a) PROVE RecoveryGuarded'
  <2>1. files[Target(a)] = a /\ a # NoFile /\ Target(a) \in Path
    BY <1>15 DEF RelMove, Target
  <2>2. /\ files' = [files EXCEPT ![Target(a)] = NoFile]
        /\ aside' = [aside EXCEPT ![a] = a]
        /\ Goto(a, "relCheck") /\ At(a, "relMove")
        /\ UNCHANGED <<observed, preserved, recoveries, purpose, world>>
    BY <1>15, <2>1 DEF RelMove
  <2>4. PublishedOwnsLock' /\ RecovererOwnsGuard'
    BY <2>1, <2>2 DEF Target
  <2>5. ObservedDead' /\ MoverSeesObserved' /\ SetAside'
    BY <2>1, <2>2 DEF Target
  <2> QED
    BY <2>4, <2>5
<1>16. ASSUME NEW a \in Actor, RelCheck(a) PROVE RecoveryGuarded'
  BY <1>16 DEF RelCheck, AfterRelease
<1>17. ASSUME NEW a \in Actor, BeginWrite(a) PROVE RecoveryGuarded'
  BY <1>17 DEF BeginWrite
<1>18. ASSUME NEW a \in Actor, EndWrite(a) PROVE RecoveryGuarded'
  BY <1>18 DEF EndWrite
<1>19. ASSUME NEW a \in Actor, Release(a) PROVE RecoveryGuarded'
  BY <1>19 DEF Release
<1>20. ASSUME NEW p \in Process, Crash(p) PROVE RecoveryGuarded'
  BY <1>20 DEF Crash
<1>21. ASSUME NEW p \in Process, PidReused(p) PROVE RecoveryGuarded'
  BY <1>21 DEF PidReused
<1>22. CASE RemoveGuardByHand
  BY <1>22 DEF RemoveGuardByHand
<1>23. CASE UNCHANGED vars
  BY <1>23 DEF vars
<1> QED
  BY <1>1, <1>2, <1>3, <1>4, <1>5, <1>6, <1>7, <1>8, <1>9, <1>10, <1>11, <1>12, <1>13, <1>14, <1>15, <1>16, <1>17, <1>18, <1>19, <1>20, <1>21, <1>22, <1>23 DEF Next, Acquire, Use, Environment

LEMMA LeaseInit == Init => LeaseInv
<1> SUFFICES ASSUME Init PROVE LeaseInv
  OBVIOUS
<1>1. \A a \in Actor : pc[a] = "idle"
  BY DEF Init
<1> QED
  BY <1>1, HolderInit DEF LeaseInv, RecoveryGuarded, PublishedOwnsLock, RecovererOwnsGuard,
     ObservedDead, MoverSeesObserved, SetAside, Published, HasGuard, Guarded, Owning

LEMMA LeaseStep ==
    ASSUME LeaseInv, [Next]_vars
    PROVE  LeaseInv'
<1>1. HolderInv'
  BY HolderStep DEF LeaseInv
<1>2. ASSUME Undisturbed' PROVE RecoveryGuarded'
  <2>1. Undisturbed
    BY <1>2, UndisturbedBefore DEF LeaseInv, HolderInv
  <2> QED
    BY <2>1, <1>1, <1>2, RecoveryStep DEF LeaseInv
<1> QED
  BY <1>1, <1>2 DEF LeaseInv

(* For every set of actors, processes and machines the lease keeps its       *)
(* inductive invariant, its second half until the guard of a live process   *)
(* is deleted.                                                              *)
THEOREM LeaseInvariant == Spec => []LeaseInv
<1>1. LeaseInv /\ [Next]_vars => LeaseInv'
  BY LeaseStep
<1> QED
  BY <1>1, LeaseInit, PTL DEF Spec

(* The variables keep their types (acquire, release and the environment).   *)
THEOREM LeaseTypeCorrect == Spec => []TypeOK
<1>1. LeaseInv => TypeOK
  BY DEF LeaseInv, HolderInv
<1> QED
  BY <1>1, LeaseInvariant, PTL

(* Two live daemons never both hold the workspace: each holder's record     *)
(* would have to be the one at the lock path.                              *)
THEOREM LeaseMutualExclusion == Spec => [](Undisturbed => MutualExclusion)
<1>1. LeaseInv => (Undisturbed => MutualExclusion)
  BY DEF LeaseInv, RecoveryGuarded, PublishedOwnsLock, MutualExclusion, Published
<1> QED
  BY <1>1, LeaseInvariant, PTL

(* A commit that passed assertHeldUnlocked still owns the lock file when it  *)
(* acts.                                                                   *)
THEOREM LeaseWriterOwnsLock == Spec => [](Undisturbed => WriterOwnsLock)
<1>1. LeaseInv => (Undisturbed => WriterOwnsLock)
  BY DEF LeaseInv, RecoveryGuarded, PublishedOwnsLock, WriterOwnsLock, Published, Owning, At
<1> QED
  BY <1>1, LeaseInvariant, PTL

(* Together: two live daemons never both own the workspace, and a gated     *)
(* commit is made by the one whose record is on disk.                      *)
THEOREM LeaseSoleWriter == Spec => []SoleWriter
<1>1. (Undisturbed => MutualExclusion) /\ (Undisturbed => WriterOwnsLock) => SoleWriter
  BY DEF SoleWriter
<1> QED
  BY <1>1, LeaseMutualExclusion, LeaseWriterOwnsLock, PTL

(* Nobody but its own actor takes a live process's record off the lock path: *)
(* stale recovery (Move) only ever reaches the record of a dead process.    *)
THEOREM LeaseLiveRecordStays == Spec => LiveRecordStays
<1> DEFINE Stays == \A a \in Actor :
                       Undisturbed /\ files["lock"] = a /\ files'["lock"] # a /\ Live(a)
                         => pc[a] = "relMove"
<1>1. LeaseInv /\ [Next]_vars => [Stays]_vars
  <2> SUFFICES ASSUME LeaseInv, Next, NEW a \in Actor,
                      Undisturbed, files["lock"] = a, files'["lock"] # a, Live(a)
               PROVE  pc[a] = "relMove"
    OBVIOUS
  <2> USE LeaseAssumption DEF LeaseInv, HolderInv, RecoveryGuarded, TypeOK, Path, At
  <2>1. ASSUME NEW b \in Actor, Move(b) PROVE FALSE
    BY <2>1 DEF Move, ObservedDead, MoverSeesObserved, Guarded, Live
  <2>2. ASSUME NEW b \in Actor, RelMove(b) PROVE pc[a] = "relMove"
    BY <2>2 DEF RelMove, Target, PublishedOwnsLock, Published
  <2>3. ASSUME NEW b \in Actor, CheckMoved(b) \/ RelCheck(b) PROVE FALSE
    BY <2>3 DEF CheckMoved, RelCheck, SetAside
  <2>4. ASSUME NEW b \in Actor, Publish(b) \/ TakeGuard(b) PROVE FALSE
    BY <2>4 DEF Publish, TakeGuard
  <2>5. ASSUME RemoveGuardByHand PROVE FALSE
    BY <2>5 DEF RemoveGuardByHand
  <2>6. ASSUME UNCHANGED files PROVE FALSE
    BY <2>6
  <2> QED
    BY <2>1, <2>2, <2>3, <2>4, <2>5, <2>6
       DEF Next, Acquire, Use, Environment, Start, ReadGuard, Recheck, Confirm,
           Observe, Judge, GuardBusy, Verify, BeforeMove, RelRead, BeginWrite,
           EndWrite, Release, Crash, PidReused
<1>2. Spec => [][Stays]_vars
  BY <1>1, LeaseInvariant, PTL DEF Spec
<1> QED
  BY <1>2 DEF LiveRecordStays
=============================================================================
