-------------------------- MODULE Actions_proofs --------------------------
(***************************************************************************)
(* Safety of what acts on its own, for every value of the bounds: the runs *)
(* of an automation for every set of callers first, then the parts that    *)
(* Actions instantiates, and at the end the property it names.             *)
(***************************************************************************)
EXTENDS Actions, Sequences, SequenceTheorems, FiniteSetTheorems, TLAPS


-----------------------------------------------------------------------------
(* Type correctness                                                         *)

LEMMA NextFireAtNat == ASSUME NEW t \in Nat PROVE NextFireAt(t) \in Nat
<1>1. t \div Period \in Nat
  BY AutomationAssumption
<1>2. \A m, n \in Nat : m * n + m \in Nat
  OBVIOUS
<1> QED
  BY <1>1, <1>2, AutomationAssumption DEF NextFireAt

LEMMA BucketNat == ASSUME NEW t \in Nat PROVE Bucket(t) \in Nat
  BY AutomationAssumption DEF Bucket

LEMMA CreatedType == Created \in Automation
  BY NextFireAtNat DEF Created, Automation

LEMMA BlankType == Blank \in Memory
  BY CreatedType DEF Blank, Memory, Patch

LEMMA PatchedType == ASSUME NEW m \in Memory PROVE Patched(m) \in Automation
<1>1. m.fresh \in Automation /\ m.snap.runCount + 1 \in Nat /\ m.at \in Nat
  BY DEF Memory, Automation
<1>2. NextFireAt(m.at) \in Nat
  BY <1>1, NextFireAtNat
<1>3. [m.fresh EXCEPT !.runCount = m.snap.runCount + 1] \in Automation
  BY <1>1 DEF Automation
<1>4. [m.fresh EXCEPT !.next = NextFireAt(m.at)] \in Automation
  BY <1>1, <1>2 DEF Automation
<1> QED
  BY <1>1, <1>3, <1>4 DEF Patched

LEMMA FreshRunType ==
    ASSUME \E r \in Run : runs[r].status = "none"
    PROVE  FreshRun \in Run /\ runs[FreshRun].status = "none"
  BY DEF FreshRun

LEMMA InitType == Init => TypeOK
<1> SUFFICES ASSUME Init PROVE TypeOK
  OBVIOUS
<1>1. automation \in Automation /\ mem \in [Caller -> Memory]
  BY CreatedType, BlankType DEF Init, Fresh
<1>2. runs \in [Run -> RunRecord]
  BY DEF Init, Fresh, RunRecord
<1>3. entered \in [Days -> Nat] /\ effects \in [Run -> Nat] /\ reruns \in [Run -> Nat]
  BY DEF Init, Fresh
<1>4. pc \in [Caller -> Label] /\ now \in Nat /\ crashes \in Nat
  BY DEF Init, Fresh, Label
<1> QED
  BY <1>1, <1>2, <1>3, <1>4 DEF Init, Fresh, TypeOK

LEMMA RememberType ==
    ASSUME TypeOK, NEW c \in Caller, NEW m \in Memory, Remember(c, m)
    PROVE  mem' \in [Caller -> Memory]
  BY DEF Remember, TypeOK

LEMMA FinishType ==
    ASSUME TypeOK, NEW c \in Caller, Finish(c)
    PROVE  pc' \in [Caller -> Label] /\ mem' \in [Caller -> Memory]
<1>1. mem' \in [Caller -> Memory]
  BY BlankType, RememberType DEF Finish
<1>2. pc' \in [Caller -> Label]
  BY DEF Finish, Goto, TypeOK, Label
<1> QED
  BY <1>1, <1>2

(* What a caller remembers has its type.                                    *)
LEMMA MemoryType ==
    ASSUME TypeOK, NEW c \in Caller
    PROVE  /\ mem[c] \in Memory
           /\ \A t \in Nat : /\ [mem[c] EXCEPT !.at = t] \in Memory
                             /\ [mem[c] EXCEPT !.trigger = t] \in Memory
           /\ \A a \in Automation : /\ [mem[c] EXCEPT !.snap = a] \in Memory
                                    /\ [mem[c] EXCEPT !.fresh = a] \in Memory
           /\ \A r \in Run : [mem[c] EXCEPT !.run = r] \in Memory
           /\ \A p \in Patch : [mem[c] EXCEPT !.patch = p] \in Memory
           /\ \A d \in SUBSET Run : [mem[c] EXCEPT !.doomed = d] \in Memory
<1>1. mem[c] \in Memory
  BY DEF TypeOK
<1> QED
  BY <1>1 DEF Memory

(* A run record that is created or closed.                                  *)
LEMMA CloseType ==
    ASSUME TypeOK, NEW r, NEW s \in Status \cup {"deleted"},
           runs' = [runs EXCEPT ![r].status = s]
    PROVE  runs' \in [Run -> RunRecord]
<1>1. ASSUME r \in Run PROVE [runs[r] EXCEPT !.status = s] \in RunRecord
  BY <1>1 DEF TypeOK, RunRecord
<1> QED
  BY <1>1 DEF TypeOK

LEMMA SaveNewRunType ==
    ASSUME TypeOK, NEW c \in Caller, NEW s \in Status, SaveNewRun(c, s)
    PROVE  /\ runs' \in [Run -> RunRecord]
           /\ FreshRun \in Run
           /\ UNCHANGED <<automation, inflight, world, effects, entered, reruns, removed>>
<1>1. mem[c].trigger \in Nat /\ mem[c].at \in Nat
  BY MemoryType DEF Memory
<1>2. Bucket(mem[c].trigger) \in Nat
  BY <1>1, BucketNat
<1>3. [status |-> s, key |-> Bucket(mem[c].trigger), startedAt |-> mem[c].at] \in RunRecord
  BY <1>1, <1>2 DEF RunRecord
<1> QED
  BY <1>3, FreshRunType DEF SaveNewRun, TypeOK

LEMMA CountUp ==
    ASSUME NEW S, NEW f \in [S -> Nat], NEW d
    PROVE  [f EXCEPT ![d] = @ + 1] \in [S -> Nat]
<1>1. ASSUME d \in S PROVE f[d] + 1 \in Nat
  BY <1>1
<1>2. CASE d \in S
  BY <1>1, <1>2
<1>3. CASE d \notin S
  BY <1>3
<1> QED
  BY <1>2, <1>3

LEMMA NextType == TypeOK /\ [Next]_vars => TypeOK'
<1> SUFFICES ASSUME TypeOK, [Next]_vars PROVE TypeOK'
  OBVIOUS
<1> USE DEF TypeOK, disk, world, history
<1>1. ASSUME NEW c \in Caller, Tick(c) \/ ListActive(c) \/ RunNow(c) \/ Load(c) \/ Enter(c)
      PROVE  TypeOK'
  <2>1. CASE Finish(c)
    BY <1>1, <2>1, FinishType DEF Tick, ListActive, RunNow, Load, Enter
  <2>2. CASE ~Finish(c)
    <3>1. automation.next \in Nat
      BY DEF Automation
    <3>2. \/ \E t \in Nat : \/ Remember(c, [mem[c] EXCEPT !.at = t])
                          \/ Remember(c, [mem[c] EXCEPT !.trigger = t])
          \/ Remember(c, [mem[c] EXCEPT !.snap = automation])
      BY <1>1, <2>2, <3>1 DEF Tick, ListActive, RunNow, Load, Enter
    <3>3. mem' \in [Caller -> Memory]
      BY <3>2, MemoryType, RememberType
    <3>4. pc' \in [Caller -> Label]
      BY <1>1, <2>2 DEF Tick, ListActive, RunNow, Load, Enter, Goto, Label
    <3> QED
      BY <1>1, <3>3, <3>4 DEF Tick, ListActive, RunNow, Load, Enter
  <2> QED
    BY <2>1, <2>2
<1>2. ASSUME NEW c \in Caller, Dedupe(c) \/ CheckCaps(c) PROVE TypeOK'
  BY <1>2 DEF Dedupe, CheckCaps, Goto, Label
<1>3. ASSUME NEW c \in Caller, Skip(c) \/ Park(c) \/ Start(c) PROVE TypeOK'
  <2>1. PICK s \in Status : SaveNewRun(c, s)
    BY <1>3 DEF Skip, Park, Start, Status, Blocking
  <2>2. runs' \in [Run -> RunRecord] /\ FreshRun \in Run
    BY <2>1, SaveNewRunType
  <2>3. mem' \in [Caller -> Memory]
    <3>1. \/ \E p \in Patch : Remember(c, [mem[c] EXCEPT !.patch = p])
          \/ Remember(c, [mem[c] EXCEPT !.run = FreshRun])
      BY <1>3 DEF Skip, Park, Start, Patch
    <3> QED
      BY <2>2, <3>1, MemoryType, RememberType
  <2>4. pc' \in [Caller -> Label] /\ admitted' \subseteq Run
    BY <1>3, <2>2 DEF Skip, Park, Start, Goto, Label
  <2> QED
    BY <2>1, <2>2, <2>3, <2>4 DEF SaveNewRun
<1>4. ASSUME NEW c \in Caller, Act(c) PROVE TypeOK'
  <2>1. pc' \in [Caller -> Label]
    BY <1>4 DEF Act, Goto, Label
  <2>2. entered' \in [Days -> Nat]
    <3>1. entered' = [entered EXCEPT ![Day(now)] = @ + 1]
      BY <1>4 DEF Act
    <3>2. entered \in [Days -> Nat]
      OBVIOUS
    <3> QED
      BY <3>1, <3>2, CountUp
  <2>3. effects' \in [Run -> Nat]
    <3>1. effects' = effects \/ effects' = [effects EXCEPT ![mem[c].run] = @ + 1]
      BY <1>4 DEF Act
    <3>2. effects \in [Run -> Nat]
      OBVIOUS
    <3> QED
      BY <3>1, <3>2, CountUp
  <2> QED
    BY <1>4, <2>1, <2>2, <2>3 DEF Act
<1>5. ASSUME NEW c \in Caller, Record(c) PROVE TypeOK'
  <2>1. runs' \in [Run -> RunRecord]
    <3>1. PICK s \in {"succeeded", "failed"} : runs' = [runs EXCEPT ![mem[c].run].status = s]
      BY <1>5 DEF Record
    <3> QED
      BY <3>1, CloseType DEF Status, Blocking
  <2>2. [mem[c] EXCEPT !.patch = "bump"] \in Memory
    BY MemoryType DEF Patch
  <2>3. mem' \in [Caller -> Memory] /\ pc' \in [Caller -> Label]
    BY <1>5, <2>2, RememberType DEF Record, Goto, Label
  <2> QED
    BY <1>5, <2>1, <2>3 DEF Record
<1>6. ASSUME NEW c \in Caller, ReadFresh(c) PROVE TypeOK'
  <2>1. mem[c].snap \in Automation
    BY MemoryType DEF Memory
  <2>2. mem' \in [Caller -> Memory] /\ pc' \in [Caller -> Label]
    BY <1>6, <2>1, MemoryType, RememberType DEF ReadFresh, Goto, Label
  <2> QED
    BY <1>6, <2>2 DEF ReadFresh
<1>7. ASSUME NEW c \in Caller, WriteFresh(c) PROVE TypeOK'
  <2>1. automation' \in Automation
    BY <1>7, PatchedType, MemoryType DEF WriteFresh
  <2>2. \A p \in {"schedule", "touch"} : [mem[c] EXCEPT !.patch = p] \in Memory
    BY MemoryType DEF Patch
  <2>3. mem' \in [Caller -> Memory] /\ pc' \in [Caller -> Label]
    BY <1>7, <2>2, RememberType DEF WriteFresh, Goto, Label
  <2> QED
    BY <1>7, <2>1, <2>3 DEF WriteFresh
<1>8. ASSUME NEW c \in Caller, Release(c) PROVE TypeOK'
  BY <1>8, FinishType DEF Release
<1>9. ASSUME NEW c \in Caller, ApproveLoad(c) \/ ApproveAutomation(c) \/ ApproveEnter(c) \/ Rerun(c)
      PROVE  TypeOK'
  <2>1. CASE Finish(c)
    <3>1. UNCHANGED <<automation, runs, world, history>> /\ inflight' \in BOOLEAN
      BY <1>9, <2>1 DEF ApproveLoad, ApproveAutomation, ApproveEnter, Rerun, Finish, Goto, Label
    <3> QED
      BY <2>1, <3>1, FinishType
  <2>2. CASE ~Finish(c)
    <3>0. reruns' \in [Run -> Nat]
      <4>1. reruns' = reruns \/ reruns' = [reruns EXCEPT ![mem[c].run] = @ + 1]
        BY <1>9 DEF ApproveLoad, ApproveAutomation, ApproveEnter, Rerun
      <4>2. reruns \in [Run -> Nat]
        OBVIOUS
      <4> QED
        BY <4>1, <4>2, CountUp
    <3>1. \/ \E r \in Run : Remember(c, [mem[c] EXCEPT !.run = r])
          \/ Remember(c, [mem[c] EXCEPT !.snap = automation])
          \/ UNCHANGED mem
      BY <1>9, <2>2 DEF ApproveLoad, ApproveAutomation, ApproveEnter, Rerun
    <3>2. mem' \in [Caller -> Memory]
      BY <3>1, MemoryType, RememberType
    <3>3. pc' \in [Caller -> Label]
      BY <1>9, <2>2 DEF ApproveLoad, ApproveAutomation, ApproveEnter, Rerun, Goto, Label
    <3>4. UNCHANGED runs \/ runs' = [runs EXCEPT ![mem[c].run].status = "running"]
      BY <1>9 DEF ApproveLoad, ApproveAutomation, ApproveEnter, Rerun
    <3>5. runs' \in [Run -> RunRecord]
      BY <3>4, CloseType DEF Status, Blocking
    <3> QED
      BY <1>9, <3>0, <3>2, <3>3, <3>5 DEF ApproveLoad, ApproveAutomation, ApproveEnter, Rerun
  <2> QED
    BY <2>1, <2>2
<1>10. ASSUME NEW c \in Caller, SetState(c) PROVE TypeOK'
  <2>1. NextFireAt(now) \in Nat
    BY NextFireAtNat
  <2>2. \A s \in {"paused", "active"}, n \in {automation.next, NextFireAt(now)} :
           [automation EXCEPT !.state = s, !.next = n] \in Automation
    BY <2>1 DEF Automation
  <2>3. mem' \in [Caller -> Memory] /\ pc' \in [Caller -> Label]
    <3>1. CASE Finish(c)
      BY <3>1, FinishType
    <3>2. CASE ~Finish(c)
      <4>1. PICK a \in Automation : Remember(c, [mem[c] EXCEPT !.fresh = a])
        BY <1>10, <2>2, <3>2 DEF SetState
      <4>2. mem' \in [Caller -> Memory]
        BY <4>1, MemoryType, RememberType
      <4> QED
        BY <1>10, <3>2, <4>2 DEF SetState, Goto, Label
    <3> QED
      BY <3>1, <3>2
  <2> QED
    BY <1>10, <2>3 DEF SetState
<1>11. ASSUME NEW c \in Caller, WriteState(c) PROVE TypeOK'
  <2>1. mem[c].fresh \in Automation
    BY MemoryType DEF Memory
  <2> QED
    BY <1>11, <2>1, FinishType DEF WriteState
<1>12. ASSUME NEW c \in Caller, Delete(c) PROVE TypeOK'
  <2>1. mem' \in [Caller -> Memory] /\ pc' \in [Caller -> Label]
    <3>1. CASE Finish(c)
      BY <3>1, FinishType
    <3>2. CASE ~Finish(c)
      <4>1. PICK d \in SUBSET Run : Remember(c, [mem[c] EXCEPT !.doomed = d])
        BY <1>12, <3>2 DEF Delete
      <4>2. mem' \in [Caller -> Memory]
        BY <4>1, MemoryType, RememberType
      <4> QED
        BY <1>12, <3>2, <4>2 DEF Delete, Goto, Label
    <3> QED
      BY <3>1, <3>2
  <2> QED
    BY <1>12, <2>1 DEF Delete
<1>13. ASSUME NEW c \in Caller, DeleteRun(c) PROVE TypeOK'
  <2>1. PICK r \in mem[c].doomed :
           /\ runs' = [runs EXCEPT ![r].status = "deleted"]
           /\ removed' = removed \cup {r}
           /\ Remember(c, [mem[c] EXCEPT !.doomed = mem[c].doomed \ {r}])
    BY <1>13 DEF DeleteRun
  <2>2. [mem[c] EXCEPT !.doomed = mem[c].doomed \ {r}] \in Memory
    BY MemoryType DEF Memory
  <2>3. mem' \in [Caller -> Memory]
    BY <2>1, <2>2, RememberType
  <2>4. runs' \in [Run -> RunRecord]
    BY <2>1, CloseType
  <2>5. removed' \subseteq Run
    BY <2>1, MemoryType DEF Memory
  <2> QED
    BY <1>13, <2>3, <2>4, <2>5 DEF DeleteRun
<1>14. ASSUME NEW c \in Caller, DeleteAutomation(c) PROVE TypeOK'
  <2>1. automation' \in Automation
    BY <1>14 DEF DeleteAutomation, Automation
  <2> QED
    BY <1>14, <2>1, FinishType DEF DeleteAutomation
<1>15. CASE Crash
  <2>1. mem' \in [Caller -> Memory] /\ pc' \in [Caller -> Label]
    BY <1>15, BlankType DEF Crash, Label
  <2>2. crashes' \in Nat
    BY <1>15 DEF Crash
  <2> QED
    BY <1>15, <2>1, <2>2 DEF Crash
<1>16. CASE Clock
  BY <1>16 DEF Clock
<1>17. CASE UNCHANGED vars
  BY <1>17 DEF vars
<1> QED
  BY <1>1, <1>2, <1>3, <1>4, <1>5, <1>6, <1>7, <1>8, <1>9, <1>10, <1>11, <1>12, <1>13,
     <1>14, <1>15, <1>16, <1>17
     DEF Next, Request, Continue, Dispatch, Execute, Approve, Routes

-----------------------------------------------------------------------------
(* Mutual exclusion by the in-flight set                                    *)

MutexInv == TypeOK /\ OneAtATime

(* A caller that moves on without touching the set, one that takes it and   *)
(* one that gives it back.                                                  *)
LEMMA MutexSteps ==
    ASSUME MutexInv, NEW c \in Caller, NEW l \in Label, Goto(c, l),
           \/ inflight' = inflight /\ (l \in Executing => pc[c] \in Executing)
           \/ ~inflight /\ inflight' = TRUE
           \/ pc[c] \in Executing /\ l \notin Executing
    PROVE  OneAtATime'
<1> USE DEF MutexInv, OneAtATime, Goto, TypeOK
<1>1. CASE inflight' = inflight /\ (l \in Executing => pc[c] \in Executing)
  BY <1>1
<1>2. CASE ~inflight /\ inflight' = TRUE
  BY <1>2
<1>3. CASE pc[c] \in Executing /\ l \notin Executing
  BY <1>3
<1> QED
  BY <1>1, <1>2, <1>3

LEMMA MutexFinish ==
    ASSUME MutexInv, NEW c \in Caller, Finish(c),
           inflight' = inflight \/ pc[c] \in Executing
    PROVE  OneAtATime'
<1> DEFINE l == IF KindOf[c] = "tick" THEN "idle" ELSE "done"
<1>1. Goto(c, l) /\ l \in Label /\ l \notin Executing
  BY DEF Finish, Label, Executing
<1> HIDE DEF l
<1> QED
  BY <1>1, MutexSteps

LEMMA MutexNext == MutexInv /\ [Next]_vars => OneAtATime'
<1> SUFFICES ASSUME MutexInv, [Next]_vars PROVE OneAtATime'
  OBVIOUS
<1> DEFINE Inside == Executing
<1>1. ASSUME NEW c \in Caller, Finish(c), inflight' = inflight \/ Release(c) PROVE OneAtATime'
  BY <1>1, MutexFinish DEF Release, Executing
<1>2. ASSUME NEW c \in Caller, ~Finish(c),
             Tick(c) \/ ListActive(c) \/ RunNow(c) \/ Load(c) \/ ApproveLoad(c)
                \/ ApproveAutomation(c) \/ SetState(c) \/ Delete(c)
      PROVE  OneAtATime'
  <2>1. PICK l \in {"list", "load", "enter", "approveAutomation", "approveEnter", "write", "delete"} :
           Goto(c, l)
    BY <1>2 DEF Tick, ListActive, RunNow, Load, ApproveLoad, ApproveAutomation, SetState, Delete
  <2>2. l \in Label /\ l \notin Executing
    BY DEF Label, Executing
  <2>3. inflight' = inflight
    BY <1>2 DEF Tick, ListActive, RunNow, Load, ApproveLoad, ApproveAutomation, SetState, Delete
  <2> QED
    BY <2>1, <2>2, <2>3, MutexSteps
<1>3. ASSUME NEW c \in Caller, ~Finish(c), Enter(c) \/ ApproveEnter(c) PROVE OneAtATime'
  <2>1. PICK l \in {"dedupe", "rerun"} : Goto(c, l)
    BY <1>3 DEF Enter, ApproveEnter
  <2>2. l \in Label
    BY DEF Label
  <2>3. ~inflight /\ inflight' = TRUE
    BY <1>3 DEF Enter, ApproveEnter
  <2> QED
    BY <2>1, <2>2, <2>3, MutexSteps
<1>4. ASSUME NEW c \in Caller,
             Dedupe(c) \/ CheckCaps(c) \/ Skip(c) \/ Park(c) \/ Start(c) \/ Act(c) \/ Record(c)
                \/ ReadFresh(c) \/ WriteFresh(c) \/ Rerun(c)
      PROVE  OneAtATime'
  <2>1. PICK l \in Executing : Goto(c, l)
    BY <1>4 DEF Dedupe, CheckCaps, Skip, Park, Start, Act, Record, ReadFresh, WriteFresh, Rerun,
       Executing
  <2>2. l \in Label
    BY DEF Label, Executing
  <2>3. pc[c] \in Executing
    BY <1>4 DEF Dedupe, CheckCaps, Skip, Park, Start, Act, Record, ReadFresh, WriteFresh, Rerun,
       Executing
  <2>4. inflight' = inflight
    BY <1>4 DEF Dedupe, CheckCaps, Skip, Park, Start, Act, Record, ReadFresh, WriteFresh, Rerun,
       SaveNewRun
  <2> QED
    BY <2>1, <2>2, <2>3, <2>4, MutexSteps
<1>5. ASSUME NEW c \in Caller, WriteState(c) \/ Release(c) \/ DeleteAutomation(c) PROVE OneAtATime'
  BY <1>1, <1>5 DEF WriteState, Release, DeleteAutomation
<1>6. ASSUME NEW c \in Caller, DeleteRun(c) PROVE OneAtATime'
  BY <1>6 DEF DeleteRun, MutexInv, OneAtATime
<1>7. CASE Crash
  BY <1>7 DEF Crash, MutexInv, OneAtATime, Executing
<1>8. CASE Clock \/ UNCHANGED vars
  BY <1>8 DEF Clock, vars, MutexInv, OneAtATime
<1>9. ASSUME NEW c \in Caller,
             Tick(c) \/ ListActive(c) \/ RunNow(c) \/ Load(c) \/ ApproveLoad(c)
                \/ ApproveAutomation(c) \/ SetState(c) \/ Delete(c),
             Finish(c)
      PROVE  OneAtATime'
  <2>1. inflight' = inflight
    BY <1>9 DEF Tick, ListActive, RunNow, Load, ApproveLoad, ApproveAutomation, SetState, Delete
  <2> QED
    BY <1>1, <1>9, <2>1
<1>10. ASSUME NEW c \in Caller, Enter(c) \/ ApproveEnter(c), Finish(c) PROVE OneAtATime'
  <2>1. CASE inflight' = inflight
    BY <1>1, <1>10, <2>1
  <2>2. CASE inflight' # inflight
    <3>1. \E l \in {"dedupe", "rerun"} : pc' = [pc EXCEPT ![c] = l]
      BY <1>10, <2>2 DEF Enter, ApproveEnter, Goto
    <3>2. \E l \in {"idle", "done"} : pc' = [pc EXCEPT ![c] = l]
      BY <1>10 DEF Finish, Goto
    <3> QED
      BY <3>1, <3>2 DEF MutexInv, TypeOK
  <2> QED
    BY <2>1, <2>2
<1> QED
  BY <1>2, <1>3, <1>4, <1>5, <1>6, <1>7, <1>8, <1>9, <1>10
     DEF Next, Request, Continue, Dispatch, Execute, Approve, Routes

(* For every set of callers, the state keeps its types, and at most one     *)
(* caller is past the in-flight guard: the automation never executes twice  *)
(* concurrently, whatever crashes and requests interleave.                  *)
THEOREM AutomationMutex == Spec => [](TypeOK /\ OneAtATime)
<1>1. Init => MutexInv
  BY InitType DEF Init, Fresh, MutexInv, OneAtATime, Executing
<1>2. MutexInv /\ [Next]_vars => MutexInv'
  BY NextType, MutexNext DEF MutexInv
<1> QED
  BY <1>1, <1>2, PTL DEF Spec, MutexInv

-----------------------------------------------------------------------------
(* One effect per idempotency bucket                                        *)

(* The facts about runs that no caller has a copy of.                       *)
known == <<runs, effects, reruns, removed>>

LEMMA EffectInit == Init => EffectInv
<1> SUFFICES ASSUME Init PROVE EffectInv
  OBVIOUS
<1>1. TypeOK
  BY InitType
<1>2. OneAtATime /\ OneBlockingPerKey /\ EffectShows
  BY DEF Init, Fresh, OneAtATime, OneBlockingPerKey, EffectShows, Executing, Blocking, Max1
<1>3. \A c \in Caller : DecisionStands(c)
  BY DEF Init, Fresh, DecisionStands, Approving, Acting
<1>4. OwnRuns
  BY AutomationAssumption DEF Init, Fresh, OwnRuns, Approving, Acting, Blank
<1> QED
  BY <1>1, <1>2, <1>3, <1>4 DEF EffectInv

LEMMA OthersUntouched ==
    ASSUME TypeOK, NEW c \in Caller
    PROVE  /\ \A l : Goto(c, l) => pc'[c] = l /\ \A d \in Caller \ {c} : pc'[d] = pc[d]
           /\ \A m : Remember(c, m) => mem'[c] = m /\ \A d \in Caller \ {c} : mem'[d] = mem[d]
  BY DEF TypeOK, Goto, Remember

(* What a caller remembers beside its run.                                  *)
LEMMA SameRun ==
    ASSUME TypeOK, NEW c \in Caller, NEW v,
           \/ Remember(c, [mem[c] EXCEPT !.at = v]) \/ Remember(c, [mem[c] EXCEPT !.trigger = v])
           \/ Remember(c, [mem[c] EXCEPT !.snap = v]) \/ Remember(c, [mem[c] EXCEPT !.fresh = v])
           \/ Remember(c, [mem[c] EXCEPT !.patch = v]) \/ Remember(c, [mem[c] EXCEPT !.doomed = v])
    PROVE  mem'[c].run = mem[c].run /\ \A d \in Caller \ {c} : mem'[d] = mem[d]
<1>1. mem[c] \in Memory
  BY DEF TypeOK
<1> QED
  BY <1>1, OthersUntouched DEF Memory

(* A step of one caller that leaves the runs alone.                         *)
LEMMA QuietKeeps ==
    ASSUME EffectInv, (TypeOK /\ OneAtATime)', NEW c \in Caller, DecisionStands(c)',
           UNCHANGED known, pc'[c] \notin Acting,
           mem'[c].run \in Run => runs[mem'[c].run].status # "none",
           pc'[c] \in Approving => \A d \in Caller \ {c} :
               pc[d] \in Acting /\ mem[d].run = mem'[c].run => reruns[mem'[c].run] > 0,
           \A d \in Caller \ {c} : pc'[d] = pc[d] /\ mem'[d] = mem[d]
    PROVE  EffectInv'
<1>1. OneBlockingPerKey' /\ EffectShows'
  BY DEF EffectInv, OneBlockingPerKey, EffectShows, Excused, known
<1>2. ASSUME NEW d \in Caller \ {c} PROVE DecisionStands(d)'
  <2>1. DecisionStands(d) /\ pc'[d] = pc[d] /\ mem'[d] = mem[d]
    BY DEF EffectInv
  <2> QED
    BY <2>1 DEF DecisionStands, Duplicate, Excused, known
<1>3. OwnRuns'
  <2>1. ASSUME NEW d \in Caller
        PROVE  /\ mem'[d].run \in Run => runs'[mem'[d].run].status # "none"
               /\ pc'[d] \in Acting => runs'[mem'[d].run].status # "waiting-approval"
    BY DEF EffectInv, OwnRuns, known
  <2>2. ASSUME NEW d \in Caller, NEW e \in Caller,
               pc'[d] \in Approving, pc'[e] \in Acting, mem'[d].run = mem'[e].run
        PROVE  reruns'[mem'[d].run] > 0
    <3>1. e # c
      BY <2>2
    <3>2. CASE d = c
      BY <2>2, <3>1, <3>2 DEF known
    <3>3. CASE d # c
      BY <2>2, <3>1, <3>3 DEF EffectInv, OwnRuns, known
    <3> QED
      BY <3>2, <3>3
  <2> QED
    BY <2>1, <2>2 DEF OwnRuns
<1> QED
  BY <1>1, <1>2, <1>3 DEF EffectInv

(* A step of the caller in the set that changes one run: an approval that   *)
(* has read this run finds that another took it up.                         *)
LEMMA RunChangeKeeps ==
    ASSUME EffectInv, (TypeOK /\ OneAtATime)', NEW c \in Caller, DecisionStands(c)',
           pc[c] \in Executing, NEW r \in Run, removed' = removed,
           \A s \in Run \ {r} : runs'[s] = runs[s] /\ effects'[s] = effects[s] /\ reruns'[s] = reruns[s],
           OneBlockingPerKey', EffectShows',
           runs'[r].status # "none", pc'[c] \notin Approving,
           mem'[c].run \in Run => mem'[c].run = r \/ mem'[c].run = mem[c].run,
           pc'[c] \in Acting => mem'[c].run = r /\ runs'[r].status # "waiting-approval",
           \A d \in Caller \ {c} : pc[d] \in Approving /\ mem[d].run = r =>
               effects'[r] <= reruns'[r] /\ reruns'[r] > 0,
           \A d \in Caller \ {c} : pc'[d] = pc[d] /\ mem'[d] = mem[d]
    PROVE  EffectInv'
<1>0. \A d \in Caller \ {c} : pc[d] \notin Executing
  BY DEF EffectInv, OneAtATime
<1>1. \A d \in Caller \ {c} : pc[d] \notin Acting \cup {"caps", "park", "start"}
  BY <1>0 DEF Executing, Acting
<1>2. ASSUME NEW d \in Caller \ {c} PROVE DecisionStands(d)'
  <2>1. DecisionStands(d) /\ pc'[d] = pc[d] /\ mem'[d] = mem[d]
    BY DEF EffectInv
  <2>2. pc'[d] \notin Acting /\ pc'[d] \notin {"act", "failed", "caps", "park", "start"}
    BY <1>1, <2>1 DEF Acting
  <2>3. ASSUME pc'[d] \in Approving
        PROVE  /\ mem'[d].run \in Run
               /\ effects'[mem'[d].run] <= reruns'[mem'[d].run]
               /\ \/ runs'[mem'[d].run].status = "waiting-approval"
                  \/ reruns'[mem'[d].run] > 0 \/ mem'[d].run \in removed'
    <3>1. CASE mem[d].run = r
      BY <2>1, <2>3, <3>1
    <3>2. CASE mem[d].run # r
      BY <2>1, <2>3, <3>2 DEF DecisionStands
    <3> QED
      BY <3>1, <3>2
  <2> QED
    BY <2>2, <2>3 DEF DecisionStands
<1>3. OwnRuns'
  <2>1. ASSUME NEW d \in Caller, mem'[d].run \in Run PROVE runs'[mem'[d].run].status # "none"
    <3>1. mem'[d].run = r \/ (mem'[d].run = mem[d].run /\ mem[d].run # r)
      BY <2>1
    <3> QED
      BY <2>1, <3>1 DEF EffectInv, OwnRuns
  <2>2. ASSUME NEW d \in Caller, pc'[d] \in Acting
        PROVE  d = c /\ mem'[d].run = r /\ runs'[r].status # "waiting-approval"
    BY <1>1, <2>2
  <2>3. ASSUME NEW d \in Caller, NEW e \in Caller,
               pc'[d] \in Approving, pc'[e] \in Acting, mem'[d].run = mem'[e].run
        PROVE  reruns'[mem'[d].run] > 0
    <3>1. d # c /\ mem'[e].run = r
      BY <2>2, <2>3
    <3> QED
      BY <2>3, <3>1
  <2> QED
    BY <2>1, <2>2, <2>3 DEF OwnRuns
<1> QED
  BY <1>2, <1>3 DEF EffectInv

(* Closing or reopening a run that already blocks its bucket, or that the   *)
(* statement excuses from now on.                                           *)
LEMMA BlockingKept ==
    ASSUME OneBlockingPerKey, NEW r \in Run, runs[r].status \in Blocking \/ Excused(r)',
           runs'[r].key = runs[r].key, \A t \in Run \ {r} : runs'[t] = runs[t],
           \A t \in Run : Excused(t) => Excused(t)'
    PROVE  OneBlockingPerKey'
<1> SUFFICES ASSUME NEW s \in Run, NEW t \in Run,
                    runs'[s].status \in Blocking, runs'[t].status \in Blocking,
                    runs'[s].key = runs'[t].key, ~Excused(s)', ~Excused(t)'
             PROVE  s = t
  BY DEF OneBlockingPerKey
<1>1. runs[s].status \in Blocking /\ runs[t].status \in Blocking /\ runs[s].key = runs[t].key
  OBVIOUS
<1>2. ~Excused(s) /\ ~Excused(t)
  OBVIOUS
<1> QED
  BY <1>1, <1>2 DEF OneBlockingPerKey

(* The runs but one are as they were.                                       *)
LEMMA ShowsKept ==
    ASSUME EffectShows, NEW r \in Run, removed \subseteq removed',
           \A t \in Run \ {r} : runs'[t] = runs[t] /\ effects'[t] = effects[t] /\ reruns'[t] = reruns[t],
           effects'[r] <= Max1(reruns'[r]),
           effects'[r] > 0 => Excused(r)' \/ runs'[r].status \in {"running", "succeeded"},
           runs'[r].status \in {"none", "waiting-approval"} => effects'[r] = 0 /\ reruns'[r] = 0
    PROVE  EffectShows'
<1> SUFFICES ASSUME NEW t \in Run
             PROVE  /\ effects'[t] <= Max1(reruns'[t])
                    /\ effects'[t] > 0 => Excused(t)' \/ runs'[t].status \in {"running", "succeeded"}
                    /\ runs'[t].status \in {"none", "waiting-approval"} => effects'[t] = 0 /\ reruns'[t] = 0
  BY DEF EffectShows, Max1
<1>1. CASE t = r
  BY <1>1
<1>2. CASE t # r
  <2>1. Excused(t) => Excused(t)'
    BY <1>2 DEF Excused
  <2> QED
    BY <1>2, <2>1 DEF EffectShows
<1> QED
  BY <1>1, <1>2

LEMMA EffectSaves ==
    ASSUME EffectInv, (TypeOK /\ OneAtATime)', NEW c \in Caller, Skip(c) \/ Park(c) \/ Start(c)
    PROVE  EffectInv'
<1> DEFINE key == Bucket(mem[c].trigger)
<1>0. TypeOK /\ DecisionStands(c)
  BY DEF EffectInv
<1>1. PICK s \in Status : SaveNewRun(c, s)
  BY DEF Skip, Park, Start, Status, Blocking
<1>2. /\ FreshRun \in Run /\ runs[FreshRun].status = "none"
      /\ \A t \in Run \ {FreshRun} : runs'[t] = runs[t]
      /\ runs'[FreshRun].status = s /\ runs'[FreshRun].key = key
      /\ UNCHANGED <<effects, reruns, removed>>
  BY <1>0, <1>1, FreshRunType DEF SaveNewRun, TypeOK
<1>3. effects[FreshRun] = 0 /\ reruns[FreshRun] = 0
  BY <1>2 DEF EffectInv, EffectShows
<1>4. s \in Blocking => ~Duplicate(key)
  <2>1. CASE Skip(c)
    <3>1. s \in {"skipped-duplicate", "failed"}
      BY <1>0, <1>2, <2>1 DEF Skip, SaveNewRun, TypeOK
    <3> QED
      BY <3>1 DEF Blocking
  <2>2. CASE Park(c) \/ Start(c)
    BY <1>0, <2>2 DEF Park, Start, DecisionStands
  <2> QED
    BY <2>1, <2>2
<1>5. OneBlockingPerKey'
  <2> SUFFICES ASSUME NEW t \in Run, NEW u \in Run,
                      runs'[t].status \in Blocking, runs'[u].status \in Blocking,
                      runs'[t].key = runs'[u].key, ~Excused(t)', ~Excused(u)', t # u
               PROVE  FALSE
    BY DEF OneBlockingPerKey
  <2>1. CASE t # FreshRun /\ u # FreshRun
    BY <1>2, <2>1 DEF EffectInv, OneBlockingPerKey, Excused
  <2>2. CASE t = FreshRun \/ u = FreshRun
    BY <1>2, <1>4, <2>2 DEF Duplicate
  <2> QED
    BY <2>1, <2>2
<1>6. EffectShows'
  BY <1>2, <1>3, ShowsKept DEF EffectInv, Max1
<1>7. PICK l \in {"readFresh", "release", "act"} :
         Goto(c, l) /\ (l = "act" => Start(c)) /\ \E m : Remember(c, m)
  BY DEF Skip, Park, Start
<1>8. l = "act" => mem'[c].run = FreshRun /\ runs'[FreshRun].status = "running"
  <2>1. SUFFICES ASSUME Start(c) PROVE mem'[c].run = FreshRun /\ runs'[FreshRun].status = "running"
    BY <1>7
  <2>2. mem'[c] = [mem[c] EXCEPT !.run = FreshRun]
    BY <1>0, <2>1, OthersUntouched DEF Start
  <2>3. mem'[c].run = FreshRun
    BY <1>0, <2>2 DEF TypeOK, Memory
  <2>4. runs' = [runs EXCEPT ![FreshRun] =
                   [status |-> "running", key |-> key, startedAt |-> mem[c].at]]
    BY <2>1 DEF Start, SaveNewRun
  <2> QED
    BY <1>0, <1>2, <2>3, <2>4 DEF TypeOK
<1>9. pc'[c] = l /\ l \notin Approving /\ (l \in Acting => l = "act")
  BY <1>0, <1>7, OthersUntouched DEF Approving, Acting
<1>10. DecisionStands(c)'
  BY <1>2, <1>3, <1>7, <1>8, <1>9 DEF DecisionStands, Max1, Acting
<1>11. pc[c] \in Executing
  BY DEF Skip, Park, Start, Executing
<1>12. \A d \in Caller \ {c} : pc'[d] = pc[d] /\ mem'[d] = mem[d]
  BY <1>0, <1>7, OthersUntouched
<1>13. mem'[c].run = FreshRun \/ mem'[c].run = mem[c].run
  <2>1. CASE Start(c)
    <3>1. mem'[c] = [mem[c] EXCEPT !.run = FreshRun]
      BY <1>0, <2>1, OthersUntouched DEF Start
    <3> QED
      BY <1>0, <3>1 DEF TypeOK, Memory
  <2>2. CASE Skip(c) \/ Park(c)
    <3>1. \E v : Remember(c, [mem[c] EXCEPT !.patch = v])
      BY <2>2 DEF Skip, Park
    <3> QED
      BY <1>0, <3>1, SameRun
  <2> QED
    BY <2>1, <2>2
<1>14. \A d \in Caller : mem[d].run # FreshRun
  BY <1>2 DEF EffectInv, OwnRuns
<1>15. s # "none"
  BY DEF Status, Blocking
<1> QED
  BY <1>2, <1>5, <1>6, <1>8, <1>9, <1>10, <1>11, <1>12, <1>13, <1>14, <1>15, RunChangeKeeps

LEMMA EffectActs ==
    ASSUME EffectInv, (TypeOK /\ OneAtATime)', NEW c \in Caller, Act(c)
    PROVE  EffectInv'
<1> DEFINE r == mem[c].run
<1>0. TypeOK /\ DecisionStands(c)
  BY DEF EffectInv
<1>1. /\ r \in Run /\ (runs[r].status = "running" \/ Excused(r)) /\ effects[r] < Max1(reruns[r])
      /\ effects[r] \in Nat /\ reruns[r] \in Nat /\ pc[c] = "act"
  BY <1>0 DEF Act, DecisionStands, Acting, TypeOK
<1>2. PICK l \in {"succeeded", "failed"} :
         /\ Goto(c, l)
         /\ l = "succeeded" => effects' = [effects EXCEPT ![r] = @ + 1]
         /\ l = "failed" => effects' = effects
  BY DEF Act
<1>3. UNCHANGED <<runs, mem, reruns, removed>>
  BY DEF Act, disk
<1>4. /\ \A t \in Run \ {r} : effects'[t] = effects[t]
      /\ effects'[r] = IF l = "succeeded" THEN effects[r] + 1 ELSE effects[r]
  <2>1. CASE l = "succeeded"
    BY <1>0, <1>1, <1>2, <2>1 DEF TypeOK
  <2>2. CASE l = "failed"
    BY <1>1, <1>2, <2>2
  <2> QED
    BY <2>1, <2>2
<1>5. OneBlockingPerKey'
  BY <1>3 DEF EffectInv, OneBlockingPerKey, Excused
<1>6. effects'[r] <= Max1(reruns'[r])
  BY <1>1, <1>3, <1>4 DEF Max1
<1>7. pc[c] \in Acting /\ runs[r].status # "waiting-approval" /\ runs[r].status # "none"
  BY <1>1 DEF EffectInv, OwnRuns, Acting
<1>8. EffectShows'
  BY <1>1, <1>3, <1>4, <1>6, <1>7, ShowsKept DEF EffectInv, Excused
<1>9. pc'[c] = l /\ \A d \in Caller \ {c} : pc'[d] = pc[d] /\ mem'[d] = mem[d]
  BY <1>0, <1>2, <1>3, OthersUntouched
<1>10. DecisionStands(c)'
  BY <1>1, <1>2, <1>3, <1>4, <1>9 DEF DecisionStands, Approving, Acting, Excused
<1>11. pc[c] \in Executing /\ pc'[c] \notin Approving
  BY <1>1, <1>2, <1>9 DEF Executing, Approving
<1>12. ASSUME NEW d \in Caller \ {c}, pc[d] \in Approving, mem[d].run = r
       PROVE  effects'[r] <= reruns'[r] /\ reruns'[r] > 0
  <2>1. reruns[r] > 0
    BY <1>7, <1>12 DEF EffectInv, OwnRuns
  <2> QED
    BY <1>1, <1>3, <1>4, <2>1 DEF Max1
<1> QED
  BY <1>1, <1>3, <1>4, <1>5, <1>7, <1>8, <1>9, <1>10, <1>11, <1>12, RunChangeKeeps

LEMMA EffectRecords ==
    ASSUME EffectInv, (TypeOK /\ OneAtATime)', NEW c \in Caller, Record(c)
    PROVE  EffectInv'
<1>0. TypeOK /\ DecisionStands(c)
  BY DEF EffectInv
<1> PICK r \in Run : r = mem[c].run
  BY <1>0 DEF Record, DecisionStands, Acting, TypeOK
<1>1. /\ r \in Run /\ (runs[r].status = "running" \/ Excused(r)) /\ pc[c] \in Acting
      /\ pc[c] \in {"succeeded", "failed"} /\ (pc[c] = "failed" => effects[r] < Max1(reruns[r]))
      /\ effects[r] \in Nat /\ reruns[r] \in Nat
  BY <1>0 DEF Record, DecisionStands, Acting, TypeOK
<1>2. /\ \A t \in Run \ {r} : runs'[t] = runs[t]
      /\ runs'[r] = [runs[r] EXCEPT !.status = pc[c]]
      /\ UNCHANGED <<effects, reruns, removed>>
  BY <1>0, <1>1 DEF Record, TypeOK, history
<1>3. runs'[r].status = pc[c] /\ runs'[r].key = runs[r].key
  BY <1>0, <1>1, <1>2 DEF TypeOK, RunRecord
<1>4. \A t \in Run : Excused(t)' <=> Excused(t)
  BY <1>2 DEF Excused
<1>5. OneBlockingPerKey'
  BY <1>1, <1>2, <1>3, <1>4, BlockingKept DEF EffectInv, Blocking
<1>6. EffectShows'
  <2>1. effects'[r] <= Max1(reruns'[r])
    BY <1>1, <1>2 DEF EffectInv, EffectShows
  <2>2. effects'[r] > 0 => Excused(r)' \/ runs'[r].status \in {"running", "succeeded"}
    <3>1. CASE pc[c] = "succeeded"
      BY <1>3, <3>1
    <3>2. CASE pc[c] = "failed"
      <4>1. effects[r] > 0 => reruns[r] > 1
        BY <1>1, <3>2 DEF Max1
      <4>2. effects'[r] = effects[r] /\ reruns'[r] = reruns[r]
        BY <1>2
      <4>3. effects'[r] > 0 => reruns'[r] > 1
        BY <4>1, <4>2
      <4>4. Excused(r)' <=> (r \in removed' \/ reruns'[r] > 1)
        BY DEF Excused
      <4> QED
        BY <4>3, <4>4
    <3> QED
      BY <1>1, <3>1, <3>2
  <2>3. runs'[r].status \notin {"none", "waiting-approval"} /\ removed \subseteq removed'
    BY <1>1, <1>2, <1>3
  <2>4. \A t \in Run \ {r} : runs'[t] = runs[t] /\ effects'[t] = effects[t] /\ reruns'[t] = reruns[t]
    BY <1>2
  <2>5. r \in Run /\ EffectShows
    BY <1>1 DEF EffectInv
  <2>6. runs'[r].status \in {"none", "waiting-approval"} => effects'[r] = 0 /\ reruns'[r] = 0
    BY <2>3
  <2> QED
    BY <2>1, <2>2, <2>3, <2>4, <2>5, <2>6, ShowsKept
<1>7. Goto(c, "readFresh") /\ Remember(c, [mem[c] EXCEPT !.patch = "bump"])
  BY DEF Record
<1>8. /\ pc'[c] = "readFresh" /\ mem'[c].run = r
      /\ \A d \in Caller \ {c} : pc'[d] = pc[d] /\ mem'[d] = mem[d]
  BY <1>0, <1>7, OthersUntouched, SameRun
<1>9. DecisionStands(c)' /\ pc'[c] \notin Approving \cup Acting
  BY <1>8 DEF DecisionStands, Approving, Acting
<1>10. pc[c] \in Executing
  BY <1>1 DEF Executing
<1>11. ASSUME NEW d \in Caller \ {c}, pc[d] \in Approving, mem[d].run = r
       PROVE  effects'[r] <= reruns'[r] /\ reruns'[r] > 0
  BY <1>1, <1>2, <1>11 DEF EffectInv, OwnRuns, DecisionStands
<1> QED
  BY <1>1, <1>2, <1>3, <1>5, <1>6, <1>8, <1>9, <1>10, <1>11, RunChangeKeeps

LEMMA EffectReruns ==
    ASSUME EffectInv, (TypeOK /\ OneAtATime)', NEW c \in Caller, Rerun(c)
    PROVE  EffectInv'
<1> DEFINE r == mem[c].run
<1>0. TypeOK /\ DecisionStands(c)
  BY DEF EffectInv
<1>1. /\ r \in Run /\ effects[r] <= reruns[r]
      /\ runs[r].status = "waiting-approval" \/ reruns[r] > 0 \/ r \in removed
      /\ effects[r] \in Nat /\ reruns[r] \in Nat
  BY <1>0 DEF Rerun, DecisionStands, Approving, TypeOK
<1>2. /\ \A t \in Run \ {r} : runs'[t] = runs[t] /\ reruns'[t] = reruns[t]
      /\ runs'[r] = [runs[r] EXCEPT !.status = "running"]
      /\ reruns'[r] = reruns[r] + 1
      /\ UNCHANGED <<effects, removed, mem>>
  BY <1>0, <1>1 DEF Rerun, TypeOK
<1>3. runs'[r].status = "running" /\ runs'[r].key = runs[r].key
  BY <1>0, <1>1, <1>2 DEF TypeOK, RunRecord
<1>4. \A t \in Run : Excused(t) => Excused(t)'
  BY <1>0, <1>1, <1>2 DEF Excused, TypeOK
<1>5. OneBlockingPerKey'
  <2>1. runs[r].status \in Blocking \/ Excused(r)'
    BY <1>1, <1>2 DEF Excused, Blocking
  <2> QED
    BY <1>1, <1>2, <1>3, <1>4, <2>1, BlockingKept DEF EffectInv
<1>6. EffectShows'
  <2>1. effects'[r] <= Max1(reruns'[r])
    BY <1>1, <1>2 DEF Max1
  <2> QED
    BY <1>1, <1>2, <1>3, <2>1, ShowsKept DEF EffectInv
<1>7. pc'[c] = "act" /\ \A d \in Caller \ {c} : pc'[d] = pc[d] /\ mem'[d] = mem[d]
  BY <1>0, <1>2, OthersUntouched DEF Rerun
<1>8. DecisionStands(c)'
  <2>1. effects'[r] < Max1(reruns'[r])
    BY <1>1, <1>2 DEF Max1
  <2> QED
    BY <1>1, <1>2, <1>3, <1>7, <2>1 DEF DecisionStands, Approving, Acting
<1>9. pc[c] \in Executing /\ pc'[c] \notin Approving
  BY <1>7 DEF Rerun, Executing, Approving
<1>10. effects'[r] <= reruns'[r] /\ reruns'[r] > 0
  BY <1>1, <1>2
<1> QED
  BY <1>1, <1>2, <1>3, <1>5, <1>6, <1>7, <1>8, <1>9, <1>10, RunChangeKeeps

LEMMA EffectDeletes ==
    ASSUME EffectInv, (TypeOK /\ OneAtATime)', NEW c \in Caller, DeleteRun(c)
    PROVE  EffectInv'
<1>0. TypeOK
  BY DEF EffectInv
<1>1. PICK r \in mem[c].doomed :
        /\ runs' = [runs EXCEPT ![r].status = "deleted"]
        /\ removed' = removed \cup {r}
        /\ Remember(c, [mem[c] EXCEPT !.doomed = mem[c].doomed \ {r}])
  BY DEF DeleteRun
<1>2. r \in Run /\ UNCHANGED <<pc, effects, reruns>> /\ pc[c] = "delete"
  BY <1>0, <1>1 DEF DeleteRun, TypeOK, Memory
<1>3. /\ runs'[r].status = "deleted" /\ runs'[r].key = runs[r].key
      /\ \A t \in Run \ {r} : runs'[t] = runs[t]
  BY <1>0, <1>1, <1>2 DEF TypeOK, RunRecord
<1>4. /\ Excused(r)' /\ \A t \in Run : Excused(t) => Excused(t)'
  BY <1>1, <1>2 DEF Excused
<1>5. mem'[c].run = mem[c].run /\ \A d \in Caller \ {c} : mem'[d] = mem[d]
  BY <1>0, <1>1, SameRun
<1>6. OneBlockingPerKey'
  BY <1>2, <1>3, <1>4, BlockingKept DEF EffectInv
<1>7. EffectShows'
  <2>1. effects'[r] <= Max1(reruns'[r])
    BY <1>2 DEF EffectInv, EffectShows
  <2> QED
    BY <1>1, <1>2, <1>3, <1>4, <2>1, ShowsKept DEF EffectInv
<1>8. OwnRuns'
  <2>1. \A d \in Caller : mem'[d].run = mem[d].run /\ pc'[d] = pc[d]
    BY <1>2, <1>5
  <2>2. \A t \in Run : runs'[t].status \in {runs[t].status, "deleted"}
    BY <1>3
  <2>3. ASSUME NEW d \in Caller
        PROVE  /\ mem'[d].run \in Run => runs'[mem'[d].run].status # "none"
               /\ pc'[d] \in Acting => runs'[mem'[d].run].status # "waiting-approval"
    <3>1. pc[d] \in Acting => mem[d].run \in Run
      BY DEF EffectInv, DecisionStands
    <3> QED
      BY <2>1, <2>2, <3>1 DEF EffectInv, OwnRuns
  <2> QED
    BY <1>2, <2>1, <2>3 DEF EffectInv, OwnRuns
<1>9. ASSUME NEW d \in Caller PROVE DecisionStands(d)'
  <2>0. DecisionStands(d) /\ pc'[d] = pc[d] /\ mem'[d].run = mem[d].run
    BY <1>2, <1>5 DEF EffectInv
  <2>1. mem[d].run \in Run =>
          /\ effects'[mem[d].run] = effects[mem[d].run] /\ reruns'[mem[d].run] = reruns[mem[d].run]
          /\ runs'[mem[d].run] = runs[mem[d].run] \/ mem[d].run \in removed'
          /\ mem[d].run \in removed => mem[d].run \in removed'
    BY <1>1, <1>2, <1>3
  <2>2. ASSUME pc'[d] \in {"caps", "park", "start"} PROVE ~Duplicate(Bucket(mem[d].trigger))'
    <3>1. d # c /\ mem'[d] = mem[d] /\ ~Duplicate(Bucket(mem[d].trigger))
      BY <1>2, <1>5, <2>0, <2>2 DEF DecisionStands
    <3> DEFINE key == Bucket(mem[d].trigger)
    <3>2. key' = key
      BY <3>1
    <3> HIDE DEF key
    <3>3. ASSUME NEW t \in Run, runs'[t].key = key, runs'[t].status \in Blocking PROVE FALSE
      <4>1. t # r
        BY <1>3, <3>3 DEF Blocking
      <4> QED
        BY <1>3, <3>1, <3>3, <4>1 DEF Duplicate, key
    <3> QED
      BY <3>2, <3>3 DEF Duplicate, key
  <2>3. pc'[d] \in Approving =>
          /\ mem'[d].run \in Run
          /\ effects'[mem'[d].run] <= reruns'[mem'[d].run]
          /\ \/ runs'[mem'[d].run].status = "waiting-approval"
             \/ reruns'[mem'[d].run] > 0 \/ mem'[d].run \in removed'
    BY <2>0, <2>1 DEF DecisionStands
  <2>4. pc'[d] \in Acting =>
          /\ mem'[d].run \in Run
          /\ \/ runs'[mem'[d].run].status = "running"
             \/ reruns'[mem'[d].run] > 1 \/ mem'[d].run \in removed'
    BY <2>0, <2>1 DEF DecisionStands, Excused
  <2>5. pc'[d] \in {"act", "failed"} => effects'[mem'[d].run] < Max1(reruns'[mem'[d].run])
    <3>1. pc'[d] \in {"act", "failed"} => mem[d].run \in Run
      BY <2>0 DEF DecisionStands, Acting
    <3> QED
      BY <2>0, <2>1, <3>1 DEF DecisionStands
  <2>6. pc'[d] \in {"caps", "park", "start"} => ~Duplicate(Bucket(mem[d].trigger))'
    BY <2>2
  <2> QED
    BY <2>3, <2>4, <2>5, <2>6 DEF DecisionStands, Excused, Max1
<1> QED
  BY <1>6, <1>7, <1>8, <1>9 DEF EffectInv

LEMMA EffectNext ==
    ASSUME EffectInv, [Next]_vars
    PROVE  EffectInv'
<1>0. (TypeOK /\ OneAtATime)' /\ TypeOK /\ \A c \in Caller : DecisionStands(c)
  BY NextType, MutexNext DEF EffectInv, MutexInv
<1>1. ASSUME NEW c \in Caller, Finish(c), UNCHANGED known PROVE EffectInv'
  <2>1. PICK l \in {"idle", "done"} : Goto(c, l) /\ Remember(c, Blank)
    BY <1>1 DEF Finish
  <2>2. pc'[c] = l /\ mem'[c] = Blank /\ \A d \in Caller \ {c} : pc'[d] = pc[d] /\ mem'[d] = mem[d]
    BY <1>0, <2>1, OthersUntouched
  <2>3. DecisionStands(c)' /\ pc'[c] \notin Acting \cup Approving
    BY <2>2 DEF DecisionStands, Approving, Acting
  <2>4. mem'[c].run \notin Run
    BY <2>2, AutomationAssumption DEF Blank
  <2> QED
    BY <1>0, <1>1, <2>2, <2>3, <2>4, QuietKeeps
<1>2. ASSUME NEW c \in Caller,
             NEW l \in Label \ (Approving \cup Acting \cup {"caps", "park", "start"}),
             Goto(c, l), mem'[c].run = mem[c].run,
             \A d \in Caller \ {c} : mem'[d] = mem[d], UNCHANGED known
      PROVE  EffectInv'
  <2>1. pc'[c] = l /\ \A d \in Caller \ {c} : pc'[d] = pc[d]
    BY <1>0, <1>2, OthersUntouched
  <2>2. DecisionStands(c)'
    BY <1>2, <2>1 DEF DecisionStands, Acting
  <2>3. mem'[c].run \in Run => runs[mem'[c].run].status # "none"
    BY <1>2 DEF EffectInv, OwnRuns
  <2> QED
    BY <1>0, <1>2, <2>1, <2>2, <2>3, QuietKeeps
<1>3. ASSUME NEW c \in Caller, ~Finish(c),
             \/ Tick(c) \/ ListActive(c) \/ RunNow(c) \/ Load(c) \/ Enter(c)
             \/ ReadFresh(c) \/ WriteFresh(c) \/ SetState(c) \/ Delete(c)
      PROVE  EffectInv'
  <2>1. PICK l \in {"list", "load", "enter", "dedupe", "writeFresh", "readFresh", "release", "write",
                    "delete"} :
           Goto(c, l)
    BY <1>3 DEF Tick, ListActive, RunNow, Load, Enter, ReadFresh, WriteFresh, SetState, Delete
  <2>2. l \in Label \ (Approving \cup Acting \cup {"caps", "park", "start"})
    BY DEF Label, Approving, Acting
  <2>3. \/ UNCHANGED mem
        \/ \E v : \/ Remember(c, [mem[c] EXCEPT !.at = v]) \/ Remember(c, [mem[c] EXCEPT !.trigger = v])
                  \/ Remember(c, [mem[c] EXCEPT !.snap = v]) \/ Remember(c, [mem[c] EXCEPT !.fresh = v])
                  \/ Remember(c, [mem[c] EXCEPT !.patch = v])
                  \/ Remember(c, [mem[c] EXCEPT !.doomed = v])
    BY <1>3 DEF Tick, ListActive, RunNow, Load, Enter, ReadFresh, WriteFresh, SetState, Delete
  <2>4. mem'[c].run = mem[c].run /\ \A d \in Caller \ {c} : mem'[d] = mem[d]
    BY <1>0, <2>3, SameRun
  <2>5. UNCHANGED known
    BY <1>3 DEF Tick, ListActive, RunNow, Load, Enter, ReadFresh, WriteFresh, SetState, Delete,
       disk, history, known
  <2> QED
    BY <1>2, <2>1, <2>2, <2>4, <2>5
<1>4. ASSUME NEW c \in Caller, Finish(c),
             \/ Tick(c) \/ ListActive(c) \/ RunNow(c) \/ Load(c) \/ Enter(c) \/ ReadFresh(c)
             \/ WriteFresh(c) \/ SetState(c) \/ Release(c) \/ WriteState(c) \/ DeleteAutomation(c)
             \/ ApproveLoad(c) \/ ApproveAutomation(c) \/ ApproveEnter(c) \/ Delete(c)
      PROVE  EffectInv'
  <2>1. UNCHANGED known
    BY <1>4 DEF Tick, ListActive, RunNow, Load, Enter, ReadFresh, WriteFresh, SetState, Release,
       WriteState, DeleteAutomation, ApproveLoad, ApproveAutomation, ApproveEnter, Delete,
       disk, history, known
  <2> QED
    BY <1>1, <1>4, <2>1
<1>5. ASSUME NEW c \in Caller, Dedupe(c) \/ CheckCaps(c) PROVE EffectInv'
  <2>1. PICK l \in {"skip", "caps", "capped", "park", "start"} : Goto(c, l)
    BY <1>5 DEF Dedupe, CheckCaps
  <2>2. UNCHANGED known /\ UNCHANGED mem
    BY <1>5 DEF Dedupe, CheckCaps, disk, history, known
  <2>3. l \in {"caps", "park", "start"} => ~Duplicate(Bucket(mem[c].trigger))
    <3>1. CASE Dedupe(c)
      BY <1>0, <2>1, <3>1, OthersUntouched DEF Dedupe
    <3>2. CASE CheckCaps(c)
      BY <1>0, <3>2 DEF CheckCaps, DecisionStands
    <3> QED
      BY <1>5, <3>1, <3>2
  <2>4. pc'[c] = l /\ \A d \in Caller \ {c} : pc'[d] = pc[d]
    BY <1>0, <2>1, OthersUntouched
  <2>5. DecisionStands(c)' /\ l \notin Acting \cup Approving
    BY <2>2, <2>3, <2>4 DEF DecisionStands, Duplicate, Approving, Acting, known
  <2>6. mem'[c].run \in Run => runs[mem'[c].run].status # "none"
    BY <2>2 DEF EffectInv, OwnRuns
  <2> QED
    BY <1>0, <2>2, <2>4, <2>5, <2>6, QuietKeeps
<1>6. ASSUME NEW c \in Caller, ~Finish(c), ApproveLoad(c) \/ ApproveAutomation(c) \/ ApproveEnter(c)
      PROVE  EffectInv'
  <2>1. PICK l \in Approving : Goto(c, l)
    BY <1>6 DEF ApproveLoad, ApproveAutomation, ApproveEnter, Approving
  <2>2. UNCHANGED known
    BY <1>6 DEF ApproveLoad, ApproveAutomation, ApproveEnter, disk, history, known
  <2>3. pc'[c] = l /\ \A d \in Caller \ {c} : pc'[d] = pc[d] /\ mem'[d] = mem[d]
    BY <1>0, <1>6, <2>1, OthersUntouched DEF ApproveLoad, ApproveAutomation, ApproveEnter
  <2>4. /\ mem'[c].run \in Run /\ effects[mem'[c].run] <= reruns[mem'[c].run]
        /\ \/ runs[mem'[c].run].status = "waiting-approval"
           \/ reruns[mem'[c].run] > 0 \/ mem'[c].run \in removed
        /\ runs[mem'[c].run].status # "none"
        /\ \A d \in Caller : pc[d] \in Acting /\ mem[d].run = mem'[c].run => reruns[mem'[c].run] > 0
    <3>1. CASE ApproveLoad(c)
      <4>1. PICK r \in Run : /\ runs[r].status = "waiting-approval"
                             /\ Remember(c, [mem[c] EXCEPT !.run = r])
        BY <3>1 DEF ApproveLoad
      <4>2. mem'[c] = [mem[c] EXCEPT !.run = r]
        BY <1>0, <4>1, OthersUntouched
      <4>3. mem'[c].run = r
        BY <1>0, <4>2 DEF TypeOK, Memory
      <4>4. effects[r] = 0 /\ reruns[r] = 0
        BY <4>1 DEF EffectInv, EffectShows
      <4>5. \A d \in Caller : pc[d] \in Acting => mem[d].run # r
        BY <4>1 DEF EffectInv, OwnRuns
      <4> QED
        BY <4>1, <4>3, <4>4, <4>5
    <3>2. CASE ApproveAutomation(c) \/ ApproveEnter(c)
      <4>1. UNCHANGED mem \/ Remember(c, [mem[c] EXCEPT !.snap = automation])
        BY <1>6, <3>2 DEF ApproveAutomation, ApproveEnter
      <4>2. mem'[c].run = mem[c].run
        BY <1>0, <4>1, SameRun
      <4>3. pc[c] \in Approving
        BY <3>2 DEF ApproveAutomation, ApproveEnter, Approving
      <4> QED
        BY <1>0, <4>2, <4>3 DEF DecisionStands, EffectInv, OwnRuns
    <3> QED
      BY <1>6, <3>1, <3>2
  <2>5. DecisionStands(c)' /\ l \notin Acting
    BY <2>2, <2>3, <2>4 DEF DecisionStands, Approving, Acting, known
  <2> QED
    BY <1>0, <2>2, <2>3, <2>4, <2>5, QuietKeeps
<1>7. CASE Crash
  <2>1. UNCHANGED known /\ mem' = [c \in Caller |-> Blank] /\ \A c \in Caller : pc'[c] \in {"idle", "done"}
    BY <1>7 DEF Crash, disk, history, known
  <2>2. OneBlockingPerKey' /\ EffectShows'
    BY <2>1 DEF EffectInv, OneBlockingPerKey, EffectShows, Excused, known
  <2>3. ASSUME NEW c \in Caller PROVE DecisionStands(c)'
    BY <2>1 DEF DecisionStands, Approving, Acting
  <2>4. OwnRuns'
    BY <2>1, AutomationAssumption DEF OwnRuns, Approving, Acting, Blank
  <2> QED
    BY <1>0, <2>2, <2>3, <2>4 DEF EffectInv
<1>8. CASE Clock \/ UNCHANGED vars
  <2>1. UNCHANGED <<runs, effects, reruns, removed, pc, mem>>
    BY <1>8 DEF Clock, vars, disk, history
  <2> QED
    BY <1>0, <2>1 DEF EffectInv, OneBlockingPerKey, EffectShows, DecisionStands, Duplicate, Excused,
       OwnRuns
<1> QED
  BY <1>0, <1>3, <1>4, <1>5, <1>6, <1>7, <1>8, EffectSaves, EffectActs, EffectRecords, EffectReruns,
     EffectDeletes
     DEF Next, Request, Continue, Dispatch, Execute, Approve, Routes, Release, WriteState,
         DeleteAutomation

(* For every set of callers, with any number of approvals and deletes: a    *)
(* run takes effect once, or once for each approval that took it up, and an *)
(* idempotency bucket takes effect at most once, across ticks, manual runs  *)
(* and crashes between the action and its record, but for runs that two     *)
(* approvals took up or a delete removed.                                   *)
THEOREM AutomationEffectOnce == Spec => []EffectOncePerKey
<1>1. EffectInv => EffectOncePerKey
  BY DEF EffectInv, EffectShows, OneBlockingPerKey, EffectOncePerKey, Blocking
<1>2. EffectInv /\ [Next]_vars => EffectInv'
  BY EffectNext
<1> QED
  BY <1>1, <1>2, EffectInit, PTL DEF Spec

-----------------------------------------------------------------------------
(* The daily cap on what dispatch lets through                              *)

LEMMA DayFloor ==
    ASSUME NEW t \in Nat, NEW u \in Nat, Day(t) = Day(u)
    PROVE  t >= Day(u) * DayLength
<1>1. DayLength \in Nat \ {0}
  BY AutomationAssumption
<1>2. t >= (t \div DayLength) * DayLength
  BY <1>1
<1> QED
  BY <1>2 DEF Day

(* The runs that the guards of dispatch count include the admitted ones.    *)
LEMMA AdmittedCounted ==
    ASSUME CapInv, NEW t \in 0 .. MaxNow, NEW at \in Nat, Day(at) = Day(t), ~CapHit(at)
    PROVE  Cardinality(AdmittedLike(t)) < MaxRunsPerDay
<1>1. RunsToday(at) \subseteq Stored /\ IsFiniteSet(Stored)
  BY DEF RunsToday, Stored, CapInv
<1>2. IsFiniteSet(RunsToday(at)) /\ Cardinality(RunsToday(at)) \in Nat
  BY <1>1, FS_Subset, FS_CardinalityType
<1>3. AdmittedLike(t) \subseteq RunsToday(at)
  <2> SUFFICES ASSUME NEW r \in AdmittedLike(t) PROVE r \in RunsToday(at)
    OBVIOUS
  <2>1. r \in admitted \ removed /\ r \in Run /\ Day(runs[r].startedAt) = Day(at)
        /\ runs[r].startedAt \in Nat
    BY DEF AdmittedLike, CapInv, TypeOK, RunRecord
  <2>2. runs[r].status \notin {"none", "deleted", "skipped-duplicate"}
    BY <2>1 DEF CapInv, Counted, Status, Blocking
  <2>3. runs[r].startedAt >= Day(at) * DayLength
    BY <2>1, DayFloor
  <2> QED
    BY <2>1, <2>2, <2>3 DEF RunsToday
<1>4. Cardinality(AdmittedLike(t)) <= Cardinality(RunsToday(at))
      /\ Cardinality(AdmittedLike(t)) \in Nat
  BY <1>2, <1>3, FS_Subset, FS_CardinalityType
<1>5. Cardinality(RunsToday(at)) < MaxRunsPerDay
  BY <1>2, AutomationAssumption DEF CapHit
<1> QED
  BY <1>2, <1>4, <1>5, AutomationAssumption

(* A step that stores no new run and admits none.                           *)
LEMMA CapQuiet ==
    ASSUME CapInv, (TypeOK /\ OneAtATime)', UNCHANGED <<runs, admitted, removed>>,
           \A c \in Caller : pc'[c] \in {"park", "start"} =>
               pc[c] \in {"park", "start"} /\ mem'[c] = mem[c]
    PROVE  CapInv'
<1>1. \A t \in 0 .. MaxNow : AdmittedLike(t)' = AdmittedLike(t)
  BY DEF AdmittedLike
<1>2. Stored' = Stored
  BY DEF Stored
<1>3. ASSUME NEW t \in 0 .. MaxNow
      PROVE  /\ Cardinality(AdmittedLike(t)') <= MaxRunsPerDay
             /\ \A c \in Caller : pc'[c] \in {"park", "start"} /\ Day(mem'[c].at) = Day(t) =>
                   Cardinality(AdmittedLike(t)') < MaxRunsPerDay
  BY <1>1 DEF CapInv
<1> QED
  BY <1>1, <1>2, <1>3 DEF CapInv

(* A run whose status moves on keeps its place in the count.                *)
LEMMA CapMoves ==
    ASSUME CapInv, (TypeOK /\ OneAtATime)', UNCHANGED <<admitted, removed>>,
           NEW x, NEW s \in Counted, runs' = [runs EXCEPT ![x].status = s],
           \A c \in Caller : pc'[c] \in {"park", "start"} =>
               pc[c] \in {"park", "start"} /\ mem'[c] = mem[c]
    PROVE  CapInv'
<1>0. runs \in [Run -> RunRecord] /\ admitted \subseteq Run
  BY DEF CapInv, TypeOK
<1>1. \A r \in Run : /\ runs'[r].startedAt = runs[r].startedAt
                     /\ runs'[r].status = runs[r].status \/ runs'[r].status = s
                     /\ r # x => runs'[r].status = runs[r].status
  BY <1>0 DEF RunRecord
<1>2. \A t \in 0 .. MaxNow : AdmittedLike(t)' = AdmittedLike(t)
  BY <1>0, <1>1 DEF AdmittedLike
<1>3. Stored' \subseteq Stored \cup {x}
  BY <1>1 DEF Stored
<1>4. IsFiniteSet(Stored')
  BY <1>3, FS_AddElement, FS_Subset DEF CapInv
<1>5. \A r \in admitted' \ removed' : runs'[r].status \in Counted
  BY <1>0, <1>1 DEF CapInv
<1>6. ASSUME NEW t \in 0 .. MaxNow
      PROVE  /\ Cardinality(AdmittedLike(t)') <= MaxRunsPerDay
             /\ \A c \in Caller : pc'[c] \in {"park", "start"} /\ Day(mem'[c].at) = Day(t) =>
                   Cardinality(AdmittedLike(t)') < MaxRunsPerDay
  BY <1>2 DEF CapInv
<1> QED
  BY <1>4, <1>5, <1>6 DEF CapInv

(* A run that a delete takes off the disk leaves the count.                 *)
LEMMA CapDeletes ==
    ASSUME CapInv, (TypeOK /\ OneAtATime)', NEW c \in Caller, DeleteRun(c)
    PROVE  CapInv'
<1>0. /\ runs \in [Run -> RunRecord] /\ admitted \subseteq Run /\ mem \in [Caller -> Memory]
      /\ MaxRunsPerDay \in Nat
  BY AutomationAssumption DEF CapInv, TypeOK
<1>1. PICK x \in mem[c].doomed : /\ runs' = [runs EXCEPT ![x].status = "deleted"]
                                 /\ removed' = removed \cup {x}
                                 /\ Remember(c, [mem[c] EXCEPT !.doomed = @ \ {x}])
  BY DEF DeleteRun
<1>2. \A r \in Run : /\ runs'[r].startedAt = runs[r].startedAt
                     /\ r # x => runs'[r].status = runs[r].status
  BY <1>0, <1>1 DEF RunRecord
<1>3. UNCHANGED <<admitted, pc>>
  BY DEF DeleteRun
<1>4. \A t \in 0 .. MaxNow : AdmittedLike(t)' \subseteq AdmittedLike(t)
  BY <1>0, <1>1, <1>2, <1>3 DEF AdmittedLike
<1>5. IsFiniteSet(Stored')
  <2>1. Stored' \subseteq Stored \cup {x}
    BY <1>2 DEF Stored
  <2> QED
    BY <2>1, FS_AddElement, FS_Subset DEF CapInv
<1>6. \A r \in admitted' \ removed' : runs'[r].status \in Counted
  BY <1>0, <1>1, <1>2, <1>3 DEF CapInv
<1>7. \A d \in Caller : mem'[d].at = mem[d].at
  BY <1>0, <1>1 DEF Remember, Memory
<1>8. ASSUME NEW t \in 0 .. MaxNow
      PROVE  /\ Cardinality(AdmittedLike(t)') <= Cardinality(AdmittedLike(t))
             /\ Cardinality(AdmittedLike(t)') \in Nat /\ Cardinality(AdmittedLike(t)) \in Nat
  <2>1. AdmittedLike(t) \subseteq Stored
    BY <1>0 DEF AdmittedLike, Stored, CapInv, Counted, Status, Blocking
  <2>2. IsFiniteSet(AdmittedLike(t))
    BY <2>1, FS_Subset DEF CapInv
  <2> QED
    BY <1>4, <2>2, FS_Subset, FS_CardinalityType
<1>9. ASSUME NEW t \in 0 .. MaxNow
      PROVE  /\ Cardinality(AdmittedLike(t)') <= MaxRunsPerDay
             /\ \A d \in Caller : pc'[d] \in {"park", "start"} /\ Day(mem'[d].at) = Day(t) =>
                   Cardinality(AdmittedLike(t)') < MaxRunsPerDay
  <2>1. Cardinality(AdmittedLike(t)) <= MaxRunsPerDay
    BY DEF CapInv
  <2>2. ASSUME NEW d \in Caller, pc'[d] \in {"park", "start"}, Day(mem'[d].at) = Day(t)
        PROVE  Cardinality(AdmittedLike(t)) < MaxRunsPerDay
    BY <1>3, <1>7, <2>2 DEF CapInv
  <2> QED
    BY <1>0, <1>8, <2>1, <2>2
<1> QED
  BY <1>5, <1>6, <1>9 DEF CapInv

(* A run that is stored for the first time, admitted or not.                *)
LEMMA CapStores ==
    ASSUME CapInv, (TypeOK /\ OneAtATime)', NEW c \in Caller, NEW s \in Status,
           SaveNewRun(c, s),
           \/ UNCHANGED admitted
           \/ admitted' = admitted \cup {FreshRun} /\ pc[c] \in {"park", "start"} /\ s \in Counted,
           pc[c] \in Executing,
           pc'[c] \notin {"park", "start"},
           \A d \in Caller \ {c} : pc'[d] = pc[d]
    PROVE  CapInv'
<1> DEFINE f == FreshRun
<1>0. /\ runs \in [Run -> RunRecord] /\ admitted \subseteq Run /\ mem[c].at \in Nat
      /\ MaxRunsPerDay \in Nat
  BY MemoryType, AutomationAssumption DEF CapInv, TypeOK, Memory
<1>1. f \in Run /\ runs[f].status = "none" /\ f \notin admitted \ removed /\ removed' = removed
  BY FreshRunType DEF SaveNewRun, CapInv, Counted, Status, Blocking
<1>2. /\ runs'[f].status = s /\ runs'[f].startedAt = mem[c].at
      /\ \A r \in Run : r # f => runs'[r] = runs[r]
  BY <1>0, <1>1 DEF SaveNewRun
<1>3. IsFiniteSet(Stored')
  <2>1. Stored' \subseteq Stored \cup {f}
    BY <1>2 DEF Stored
  <2> QED
    BY <2>1, FS_AddElement, FS_Subset DEF CapInv
<1>4. \A r \in admitted' \ removed' : runs'[r].status \in Counted
  BY <1>0, <1>1, <1>2 DEF CapInv
<1>5. \A d \in Caller : pc'[d] \notin {"park", "start"}
  BY DEF CapInv, OneAtATime, Executing
<1>6. ASSUME NEW t \in 0 .. MaxNow PROVE Cardinality(AdmittedLike(t)') <= MaxRunsPerDay
  <2>1. IsFiniteSet(AdmittedLike(t)) /\ Cardinality(AdmittedLike(t)) \in Nat
    <3>1. AdmittedLike(t) \subseteq Stored
      BY <1>0 DEF AdmittedLike, Stored, CapInv, Counted, Status, Blocking
    <3> QED
      BY <3>1, FS_Subset, FS_CardinalityType DEF CapInv
  <2>2. Cardinality(AdmittedLike(t)) <= MaxRunsPerDay
    BY DEF CapInv
  <2>3. CASE AdmittedLike(t)' = AdmittedLike(t)
    BY <2>2, <2>3
  <2>4. CASE /\ admitted' = admitted \cup {f} /\ pc[c] \in {"park", "start"}
             /\ f \notin removed /\ Day(mem[c].at) = Day(t)
    <3>1. AdmittedLike(t)' = AdmittedLike(t) \cup {f} /\ f \notin AdmittedLike(t)
      BY <1>0, <1>1, <1>2, <2>4 DEF AdmittedLike
    <3>2. Cardinality(AdmittedLike(t)) < MaxRunsPerDay
      BY <2>4 DEF CapInv
    <3>3. Cardinality(AdmittedLike(t)') = Cardinality(AdmittedLike(t)) + 1
      BY <2>1, <3>1, FS_AddElement
    <3> QED
      BY <1>0, <2>1, <3>2, <3>3
  <2>5. CASE UNCHANGED admitted
    BY <1>0, <1>1, <1>2, <2>3, <2>5 DEF AdmittedLike
  <2>6. CASE admitted' = admitted \cup {f} /\ (f \in removed \/ Day(mem[c].at) # Day(t))
    <3>1. AdmittedLike(t)' = AdmittedLike(t)
      BY <1>0, <1>1, <1>2, <2>6 DEF AdmittedLike
    <3> QED
      BY <2>3, <3>1
  <2> QED
    BY <2>4, <2>5, <2>6
<1> QED
  BY <1>3, <1>4, <1>5, <1>6 DEF CapInv

LEMMA CapInit == Init => CapInv
<1> SUFFICES ASSUME Init PROVE CapInv
  OBVIOUS
<1>1. TypeOK /\ OneAtATime
  BY InitType DEF Init, Fresh, OneAtATime, Executing
<1>2. Stored = {} /\ \A t \in 0 .. MaxNow : AdmittedLike(t) = {}
  BY DEF Init, Fresh, Stored, AdmittedLike
<1>3. \A c \in Caller : pc[c] = "idle"
  BY DEF Init
<1>4. IsFiniteSet(Stored) /\ \A t \in 0 .. MaxNow : Cardinality(AdmittedLike(t)) = 0
  BY <1>2, FS_EmptySet
<1>5. 0 <= MaxRunsPerDay /\ 0 < MaxRunsPerDay
  BY AutomationAssumption
<1>6. \A r \in admitted \ removed : runs[r].status \in Counted
  BY DEF Init, Fresh
<1> QED
  BY <1>1, <1>3, <1>4, <1>5, <1>6 DEF CapInv

LEMMA CapNext ==
    ASSUME CapInv, [Next]_vars
    PROVE  CapInv'
<1>0. (TypeOK /\ OneAtATime)' /\ pc \in [Caller -> Label] /\ mem \in [Caller -> Memory]
  BY NextType, MutexNext DEF CapInv, MutexInv, TypeOK
<1>1. ASSUME NEW c \in Caller, Finish(c), UNCHANGED <<runs, admitted, removed>> PROVE CapInv'
  <2>1. /\ pc'[c] \in {"idle", "done"}
        /\ \A d \in Caller \ {c} : pc'[d] = pc[d] /\ mem'[d] = mem[d]
    BY <1>0, <1>1 DEF Finish, Goto, Remember
  <2> QED
    BY <1>0, <1>1, <2>1, CapQuiet DEF CapInv
<1>2. ASSUME NEW c \in Caller, NEW l, Goto(c, l), l \notin {"park", "start"},
             UNCHANGED <<runs, admitted, removed>>,
             \A d \in Caller \ {c} : mem'[d] = mem[d]
      PROVE  CapInv'
  <2>1. pc'[c] = l /\ \A d \in Caller \ {c} : pc'[d] = pc[d]
    BY <1>0, <1>2 DEF Goto
  <2> QED
    BY <1>0, <1>2, <2>1, CapQuiet DEF CapInv
<1>3. ASSUME NEW c \in Caller,
             Tick(c) \/ ListActive(c) \/ RunNow(c) \/ Load(c) \/ Enter(c) \/ ApproveLoad(c)
               \/ ApproveAutomation(c) \/ ApproveEnter(c) \/ SetState(c) \/ Delete(c)
      PROVE  CapInv'
  <2>1. UNCHANGED <<runs, admitted, removed>> /\ \A d \in Caller \ {c} : mem'[d] = mem[d]
    BY <1>0, <1>3 DEF Tick, ListActive, RunNow, Load, Enter, ApproveLoad, ApproveAutomation,
       ApproveEnter, SetState, Delete, Finish, Remember, disk, history
  <2>2. Finish(c) \/ \E l \in {"list", "load", "enter", "dedupe", "approveAutomation",
                              "approveEnter", "rerun", "write", "delete"} : Goto(c, l)
    BY <1>3 DEF Tick, ListActive, RunNow, Load, Enter, ApproveLoad, ApproveAutomation,
       ApproveEnter, SetState, Delete
  <2> QED
    BY <1>1, <1>2, <2>1, <2>2
<1>4. ASSUME NEW c \in Caller,
             Dedupe(c) \/ Act(c) \/ ReadFresh(c) \/ WriteFresh(c)
      PROVE  CapInv'
  <2>1. UNCHANGED <<runs, admitted, removed>> /\ \A d \in Caller \ {c} : mem'[d] = mem[d]
    BY <1>0, <1>4 DEF Dedupe, Act, ReadFresh, WriteFresh, Remember, disk, history
  <2>2. \E l \in {"skip", "caps", "succeeded", "failed", "writeFresh", "readFresh", "release"} :
          Goto(c, l)
    BY <1>4 DEF Dedupe, Act, ReadFresh, WriteFresh
  <2> QED
    BY <1>2, <2>1, <2>2
<1>5. ASSUME NEW c \in Caller, Release(c) \/ WriteState(c) \/ DeleteAutomation(c) PROVE CapInv'
  BY <1>1, <1>5 DEF Release, WriteState, DeleteAutomation, disk, history
<1>6. ASSUME NEW c \in Caller, CheckCaps(c) PROVE CapInv'
  <2>1. /\ UNCHANGED <<runs, admitted, removed, mem>> /\ pc[c] = "caps"
        /\ pc'[c] = IF CapHit(mem[c].at) THEN "capped" ELSE IF mutating THEN "park" ELSE "start"
        /\ \A d \in Caller \ {c} : pc'[d] = pc[d]
    BY <1>0, <1>6 DEF CheckCaps, Goto, disk, history
  <2>2. mem[c].at \in Nat
    BY <1>0 DEF Memory
  <2>3. Stored' = Stored /\ \A t \in 0 .. MaxNow : AdmittedLike(t)' = AdmittedLike(t)
    BY <2>1 DEF Stored, AdmittedLike
  <2>4. ASSUME NEW t \in 0 .. MaxNow, NEW d \in Caller,
               pc'[d] \in {"park", "start"}, Day(mem'[d].at) = Day(t)
        PROVE  Cardinality(AdmittedLike(t)') < MaxRunsPerDay
    <3>1. CASE d = c
      <4>1. ~CapHit(mem[c].at) /\ Day(mem[c].at) = Day(t)
        BY <2>1, <2>4, <3>1
      <4> QED
        BY <2>2, <2>3, <4>1, AdmittedCounted
    <3>2. CASE d # c
      BY <2>1, <2>3, <2>4, <3>2 DEF CapInv
    <3> QED
      BY <3>1, <3>2
  <2>5. \A t \in 0 .. MaxNow : Cardinality(AdmittedLike(t)') <= MaxRunsPerDay
    BY <2>3 DEF CapInv
  <2> QED
    BY <1>0, <2>1, <2>3, <2>4, <2>5 DEF CapInv
<1>7. ASSUME NEW c \in Caller, Skip(c) \/ Park(c) \/ Start(c) PROVE CapInv'
  <2>1. pc[c] \in Executing /\ \A d \in Caller \ {c} : pc'[d] = pc[d]
    BY <1>0, <1>7 DEF Skip, Park, Start, Goto, Executing
  <2>2. pc'[c] \in {"readFresh", "release", "act"}
    BY <1>0, <1>7 DEF Skip, Park, Start, Goto
  <2>3. {"skipped-duplicate", "failed", "waiting-approval", "running"} \subseteq Status
        /\ {"waiting-approval", "running"} \subseteq Counted
    BY DEF Status, Blocking, Counted
  <2>4. CASE Skip(c)
    BY <1>0, <2>1, <2>2, <2>3, <2>4, CapStores DEF Skip
  <2>5. CASE Park(c)
    BY <1>0, <2>1, <2>2, <2>3, <2>5, CapStores DEF Park
  <2>6. CASE Start(c)
    BY <1>0, <2>1, <2>2, <2>3, <2>6, CapStores DEF Start
  <2> QED
    BY <1>7, <2>4, <2>5, <2>6
<1>8. ASSUME NEW c \in Caller, Record(c) \/ Rerun(c) PROVE CapInv'
  <2>1. /\ UNCHANGED <<admitted, removed>> /\ pc'[c] \in {"readFresh", "act"}
        /\ \A d \in Caller \ {c} : pc'[d] = pc[d] /\ mem'[d] = mem[d]
    BY <1>0, <1>8 DEF Record, Rerun, Goto, Remember, history
  <2>2. \E s \in Counted : runs' = [runs EXCEPT ![mem[c].run].status = s]
    BY <1>8 DEF Record, Rerun, Counted, Status, Blocking
  <2>3. \A d \in Caller : pc'[d] \in {"park", "start"} =>
          pc[d] \in {"park", "start"} /\ mem'[d] = mem[d]
    BY <2>1
  <2>4. PICK s \in Counted : runs' = [runs EXCEPT ![mem[c].run].status = s]
    BY <2>2
  <2> QED
    BY <1>0, <2>1, <2>3, <2>4, CapMoves
<1>9. ASSUME NEW c \in Caller, DeleteRun(c) PROVE CapInv'
  BY <1>0, <1>9, CapDeletes
<1>10. CASE Crash
  <2>1. UNCHANGED <<runs, admitted, removed>> /\ \A d \in Caller : pc'[d] \in {"idle", "done"}
    BY <1>10 DEF Crash, disk, history
  <2> QED
    BY <1>0, <2>1, CapQuiet
<1>11. CASE Clock \/ UNCHANGED vars
  <2>1. UNCHANGED <<runs, admitted, removed, pc, mem>>
    BY <1>11 DEF Clock, vars, disk, history
  <2> QED
    BY <1>0, <2>1, CapQuiet DEF CapInv
<1> QED
  BY <1>3, <1>4, <1>5, <1>6, <1>7, <1>8, <1>9, <1>10, <1>11
     DEF Next, Request, Continue, Dispatch, Execute, Approve, Routes

(* For every set of callers, every cap and every clock: of the runs of one  *)
(* day that no delete removed, dispatch lets at most maxRunsPerDay through,  *)
(* whatever was parked, approved, failed or lost in a crash.                *)
THEOREM AutomationAdmittedWithinCap == Spec => []AdmittedWithinCap
<1>1. CapInv => AdmittedWithinCap
  BY DEF CapInv, AdmittedLike, AdmittedWithinCap
<1>2. CapInv /\ [Next]_vars => CapInv'
  BY CapNext
<1> QED
  BY <1>1, <1>2, CapInit, PTL DEF Spec
(***************************************************************************)
(* The visual runtime and its approved actions.                            *)
(***************************************************************************)

(* What the tasks other than t hold is left alone by a step of t.            *)
VisualMoves(t) ==
  /\ visualControl' = visualControl /\ visualRevision' = visualRevision /\ visualClaims \subseteq visualClaims'
  /\ \A u \in MicroTasks : u # t =>
       /\ task'[u] = task[u] /\ record'[u] = record[u] /\ input'[u] = input[u]
       /\ (u \in live' <=> u \in live)
  /\ \A u \in Mutating : u # t => posted'[u] = posted[u] /\ approval'[u] = approval[u]

(* What the invariant says of one task.                                      *)
VisualTask(t) ==
  Visual!Controlled(t) /\ Visual!InputOf(t) /\ Visual!RecordOf(t) /\ (t \in Mutating => Visual!Attempts(t))

LEMMA VisualParts ==
    /\ Visual!VisualInv <=> Visual!TypeOK /\ (\A t \in MicroTasks : VisualTask(t)) /\ Visual!OneHolder
    /\ Visual!VisualInv' <=> Visual!TypeOK' /\ (\A t \in MicroTasks : VisualTask(t)') /\ Visual!OneHolder'
<1>1. Mutating \subseteq MicroTasks
  BY ActionsAssumption DEF Visual!RuntimeAssumption
<1> QED
  BY <1>1 DEF Visual!VisualInv, VisualTask

LEMMA VisualGo ==
    ASSUME Visual!TypeOK, NEW t \in MicroTasks, NEW x \in Visual!Places, Visual!Go(t, x)
    PROVE  /\ task' \in [MicroTasks -> [at : Visual!Places, rev : Nat, taken : Nat, same : BOOLEAN,
                                   attempt : Nat, mutated : BOOLEAN]]
           /\ task'[t] = [at |-> x, rev |-> task[t].rev, taken |-> task[t].taken,
                          same |-> task[t].same, attempt |-> task[t].attempt,
                          mutated |-> task[t].mutated]
  BY DEF Visual!TypeOK, Visual!Go

(* A task that becomes the holder of its key finds the key unclaimed.        *)
LEMMA VisualStep ==
    ASSUME Visual!VisualInv, NEW t \in MicroTasks, VisualMoves(t), Visual!TypeOK', VisualTask(t)',
           t \in Mutating /\ Visual!Holds(t)' => Visual!Holds(t) \/ KeyOf[t] \notin visualClaims
    PROVE  Visual!VisualInv'
<1>0. Mutating \subseteq MicroTasks
  BY ActionsAssumption DEF Visual!RuntimeAssumption
<1>1. Visual!TypeOK /\ (\A u \in MicroTasks : VisualTask(u)) /\ Visual!OneHolder
  BY VisualParts
<1>2. ASSUME NEW u \in MicroTasks, u # t PROVE VisualTask(u)' /\ (Visual!Holds(u)' <=> Visual!Holds(u))
  <2>1. VisualTask(u)
    BY <1>1
  <2>2. /\ task'[u] = task[u] /\ record'[u] = record[u] /\ input'[u] = input[u]
        /\ (u \in live' <=> u \in live) /\ visualControl' = visualControl /\ visualRevision' = visualRevision
        /\ (u \in Mutating => posted'[u] = posted[u] /\ approval'[u] = approval[u])
        /\ (KeyOf[u] \in visualClaims => KeyOf[u] \in visualClaims')
    BY <1>2 DEF VisualMoves
  <2>3. Visual!Holds(u)' <=> Visual!Holds(u)
    BY <2>2 DEF Visual!Holds
  <2>4. Visual!Controlled(u)' /\ Visual!InputOf(u)' /\ Visual!RecordOf(u)'
    BY <2>1, <2>2 DEF VisualTask, Visual!Controlled, Visual!InputOf, Visual!RecordOf
  <2>5. u \in Mutating => Visual!Attempts(u)'
    BY <2>1, <2>2, <2>3 DEF VisualTask, Visual!Attempts
  <2> QED
    BY <2>3, <2>4, <2>5 DEF VisualTask
<1>3. Visual!OneHolder'
  <2> SUFFICES ASSUME NEW a \in Mutating, NEW b \in Mutating, a # b, KeyOf[a] = KeyOf[b],
                      Visual!Holds(a)', Visual!Holds(b)'
               PROVE  FALSE
    BY DEF Visual!OneHolder
  <2>1. \A u \in Mutating : Visual!Holds(u) => KeyOf[u] \in visualClaims
    BY <1>0, <1>1 DEF VisualTask, Visual!Attempts
  <2>2. ~Visual!Holds(a) \/ ~Visual!Holds(b)
    BY <1>1 DEF Visual!OneHolder
  <2>3. \A u \in Mutating : u # t => (Visual!Holds(u)' <=> Visual!Holds(u))
    BY <1>0, <1>2
  <2> QED
    BY <2>1, <2>2, <2>3
<1> QED
  BY <1>1, <1>2, <1>3, VisualParts

(* A task that is bound, or not.                                             *)
LEMMA VisualBound ==
    ASSUME Visual!VisualInv, NEW t \in MicroTasks, Visual!Bound(t)
    PROVE  Visual!VisualInv'
<1>0. Mutating \subseteq MicroTasks
  BY ActionsAssumption DEF Visual!RuntimeAssumption
<1>1. Visual!TypeOK /\ VisualTask(t)
  BY VisualParts
<1>2. Visual!TypeOK'
  <2>1. task' \in [MicroTasks -> [at : Visual!Places, rev : Nat, taken : Nat, same : BOOLEAN,
                           attempt : Nat, mutated : BOOLEAN]]
    <3>1. PICK x \in {"done", "ground", "capture", "save", "execute"} : Visual!Go(t, x)
      BY <1>1 DEF Visual!Bound, Visual!Conclude
    <3> QED
      BY <1>1, <3>1, VisualGo DEF Visual!Places, Visual!Early, Visual!Seen
  <2>2. visualControl' = visualControl /\ visualRevision' = visualRevision /\ visualFresh' \in BOOLEAN /\ live' \subseteq MicroTasks
    BY <1>0, <1>1 DEF Visual!TypeOK, Visual!Bound, Visual!Conclude, Visual!Go, Visual!At, Visual!Interrupted, Visual!world
  <2>3. record' \in [MicroTasks -> {"none", "planned", "unknown", "blocked", "posted", "verified",
                             "unverified", "final"}]
    BY <1>0, <1>1 DEF Visual!TypeOK, Visual!Bound, Visual!Conclude, Visual!Go, Visual!At, Visual!Interrupted, Visual!world
  <2>4. input' \in [MicroTasks -> {"none", "queued", "dropped", "sent", "posted", "failed"}] /\ posted' = posted
    BY <1>0, <1>1 DEF Visual!TypeOK, Visual!Bound, Visual!Conclude, Visual!Go, Visual!At, Visual!Interrupted, Visual!world
  <2>5. approval' \in [Mutating -> {"approved", "cancelled", "failed", "executed"}]
    BY <1>0, <1>1 DEF Visual!TypeOK, Visual!Bound, Visual!Conclude, Visual!Go, Visual!At, Visual!Interrupted, Visual!world
  <2> QED
    BY <1>1, <2>1, <2>2, <2>3, <2>4, <2>5 DEF Visual!TypeOK
<1>3. VisualMoves(t)
  BY <1>0, <1>1 DEF Visual!TypeOK, VisualMoves, Visual!Bound, Visual!Conclude, Visual!Go, Visual!At, Visual!Interrupted, Visual!world
<1>4. Visual!Controlled(t)' /\ Visual!InputOf(t)'
  BY <1>0, <1>1 DEF Visual!TypeOK, VisualTask, Visual!Controlled, Visual!InputOf, Visual!Attempts, Visual!Bound, Visual!Conclude, Visual!Go, Visual!At,
     Visual!Interrupted, Visual!world, Visual!Places, Visual!Early, Visual!Seen
<1>5. Visual!RecordOf(t)'
  BY <1>0, <1>1 DEF Visual!TypeOK, VisualTask, Visual!InputOf, Visual!RecordOf, Visual!Attempts, Visual!Bound, Visual!Conclude, Visual!Go, Visual!At,
     Visual!Interrupted, Visual!world, Visual!Places, Visual!Early, Visual!Seen
<1>6. t \in Mutating => Visual!Attempts(t)'
  BY <1>0, <1>1 DEF Visual!TypeOK, VisualTask, Visual!InputOf, Visual!RecordOf, Visual!Attempts, Visual!Holds, Visual!Bound, Visual!Conclude, Visual!Go, Visual!At,
     Visual!Interrupted, Visual!world, Visual!Places, Visual!Early, Visual!Seen
<1>7. t \in Mutating /\ Visual!Holds(t)' => Visual!Holds(t) \/ KeyOf[t] \notin visualClaims
  BY <1>0, <1>1 DEF Visual!TypeOK, VisualTask, Visual!InputOf, Visual!Attempts, Visual!Holds, Visual!Bound, Visual!Conclude, Visual!Go, Visual!At,
     Visual!Interrupted, Visual!world, Visual!Places, Visual!Early, Visual!Seen
<1> QED
  BY <1>1, <1>2, <1>3, <1>4, <1>5, <1>6, <1>7, VisualStep DEF VisualTask

(* The capture before the grounding.                                         *)
LEMMA VisualCapture ==
    ASSUME Visual!VisualInv, NEW t \in MicroTasks, Visual!Capture(t)
    PROVE  Visual!VisualInv'
<1>0. Mutating \subseteq MicroTasks
  BY ActionsAssumption DEF Visual!RuntimeAssumption
<1>1. Visual!TypeOK /\ VisualTask(t)
  BY VisualParts
<1>2. Visual!TypeOK'
  <2>1. task' \in [MicroTasks -> [at : Visual!Places, rev : Nat, taken : Nat, same : BOOLEAN,
                           attempt : Nat, mutated : BOOLEAN]]
    <3>1. PICK P, T : /\ P = Visual!Places
                      /\ T = [at : P, rev : Nat, taken : Nat, same : BOOLEAN,
                              attempt : Nat, mutated : BOOLEAN]
      OBVIOUS
    <3>2. "ground" \in P
      BY <3>1 DEF Visual!Places, Visual!Early
    <3>3. visualRevision \in Nat /\ task \in [MicroTasks -> T]
      BY <1>1, <3>1 DEF Visual!TypeOK
    <3>4. [[[task[t] EXCEPT !.at = "ground"] EXCEPT !.same = TRUE] EXCEPT !.taken = visualRevision] \in T
      <4>1. [task[t] EXCEPT !.at = "ground"] \in T
        BY <3>1, <3>2, <3>3
      <4>2. [[task[t] EXCEPT !.at = "ground"] EXCEPT !.same = TRUE] \in T
        BY <3>1, <4>1
      <4> QED
        BY <3>1, <3>3, <4>2
    <3>5. task' = [task EXCEPT ![t] = [[[task[t] EXCEPT !.at = "ground"] EXCEPT !.same = TRUE]
                                          EXCEPT !.taken = visualRevision]]
      BY <1>1 DEF Visual!Capture, Visual!TypeOK
    <3>6. task' \in [MicroTasks -> T]
      BY <3>3, <3>4, <3>5
    <3> QED
      BY <3>1, <3>6
  <2>2. visualControl' = visualControl /\ visualRevision' = visualRevision /\ visualFresh' \in BOOLEAN /\ live' \subseteq MicroTasks
    BY <1>0, <1>1 DEF Visual!TypeOK, Visual!Capture, Visual!At, Visual!Interrupted, Visual!memory, Visual!disk, Visual!world
  <2>3. record' \in [MicroTasks -> {"none", "planned", "unknown", "blocked", "posted", "verified",
                             "unverified", "final"}]
    BY <1>0, <1>1 DEF Visual!TypeOK, Visual!Capture, Visual!At, Visual!Interrupted, Visual!memory, Visual!disk, Visual!world
  <2>4. input' \in [MicroTasks -> {"none", "queued", "dropped", "sent", "posted", "failed"}] /\ posted' = posted
    BY <1>0, <1>1 DEF Visual!TypeOK, Visual!Capture, Visual!At, Visual!Interrupted, Visual!memory, Visual!disk, Visual!world
  <2>5. approval' \in [Mutating -> {"approved", "cancelled", "failed", "executed"}]
    BY <1>0, <1>1 DEF Visual!TypeOK, Visual!Capture, Visual!At, Visual!Interrupted, Visual!memory, Visual!disk, Visual!world
  <2> QED
    BY <1>1, <2>1, <2>2, <2>3, <2>4, <2>5 DEF Visual!TypeOK
<1>3. VisualMoves(t)
  BY <1>0, <1>1 DEF Visual!TypeOK, VisualMoves, Visual!Capture, Visual!At, Visual!Interrupted, Visual!memory, Visual!disk, Visual!world
<1>4. Visual!Controlled(t)' /\ Visual!InputOf(t)'
  BY <1>0, <1>1 DEF Visual!TypeOK, VisualTask, Visual!Controlled, Visual!InputOf, Visual!Attempts, Visual!Capture, Visual!At, Visual!Interrupted,
     Visual!memory, Visual!disk, Visual!world, Visual!Places, Visual!Early, Visual!Seen
<1>5. Visual!RecordOf(t)'
  BY <1>0, <1>1 DEF Visual!TypeOK, VisualTask, Visual!InputOf, Visual!RecordOf, Visual!Attempts, Visual!Capture, Visual!At, Visual!Interrupted,
     Visual!memory, Visual!disk, Visual!world, Visual!Places, Visual!Early, Visual!Seen
<1>6. t \in Mutating => Visual!Attempts(t)'
  BY <1>0, <1>1 DEF Visual!TypeOK, VisualTask, Visual!InputOf, Visual!RecordOf, Visual!Attempts, Visual!Holds, Visual!Capture, Visual!At,
     Visual!Interrupted, Visual!memory, Visual!disk, Visual!world, Visual!Places, Visual!Early, Visual!Seen
<1>7. t \in Mutating /\ Visual!Holds(t)' => Visual!Holds(t) \/ KeyOf[t] \notin visualClaims
  BY <1>0, <1>1 DEF Visual!TypeOK, VisualTask, Visual!InputOf, Visual!Attempts, Visual!Holds, Visual!Capture, Visual!At, Visual!Interrupted, Visual!memory,
     Visual!disk, Visual!world, Visual!Places, Visual!Early, Visual!Seen
<1> QED
  BY <1>1, <1>2, <1>3, <1>4, <1>5, <1>6, <1>7, VisualStep DEF VisualTask

(* A grounded action.                                                        *)
LEMMA VisualGround ==
    ASSUME Visual!VisualInv, NEW t \in MicroTasks, Visual!Ground(t)
    PROVE  Visual!VisualInv'
<1>0. Mutating \subseteq MicroTasks
  BY ActionsAssumption DEF Visual!RuntimeAssumption
<1>1. Visual!TypeOK /\ VisualTask(t)
  BY VisualParts
<1>2. Visual!TypeOK'
  <2>1. task' \in [MicroTasks -> [at : Visual!Places, rev : Nat, taken : Nat, same : BOOLEAN,
                           attempt : Nat, mutated : BOOLEAN]]
    BY <1>0, <1>1 DEF Visual!TypeOK, Visual!Ground, Visual!Go, Visual!At, Visual!Interrupted, Visual!memory, Visual!disk, Visual!world, Visual!Places, Visual!Early, Visual!Seen
  <2>2. visualControl' = visualControl /\ visualRevision' = visualRevision /\ visualFresh' \in BOOLEAN /\ live' \subseteq MicroTasks
    BY <1>0, <1>1 DEF Visual!TypeOK, Visual!Ground, Visual!Go, Visual!At, Visual!Interrupted, Visual!memory, Visual!disk, Visual!world
  <2>3. record' \in [MicroTasks -> {"none", "planned", "unknown", "blocked", "posted", "verified",
                             "unverified", "final"}]
    BY <1>0, <1>1 DEF Visual!TypeOK, Visual!Ground, Visual!Go, Visual!At, Visual!Interrupted, Visual!memory, Visual!disk, Visual!world
  <2>4. input' \in [MicroTasks -> {"none", "queued", "dropped", "sent", "posted", "failed"}] /\ posted' = posted
    BY <1>0, <1>1 DEF Visual!TypeOK, Visual!Ground, Visual!Go, Visual!At, Visual!Interrupted, Visual!memory, Visual!disk, Visual!world
  <2>5. approval' \in [Mutating -> {"approved", "cancelled", "failed", "executed"}]
    BY <1>0, <1>1 DEF Visual!TypeOK, Visual!Ground, Visual!Go, Visual!At, Visual!Interrupted, Visual!memory, Visual!disk, Visual!world
  <2> QED
    BY <1>1, <2>1, <2>2, <2>3, <2>4, <2>5 DEF Visual!TypeOK
<1>3. VisualMoves(t)
  BY <1>0, <1>1 DEF Visual!TypeOK, VisualMoves, Visual!Ground, Visual!Go, Visual!At, Visual!Interrupted, Visual!memory, Visual!disk, Visual!world
<1>4. Visual!Controlled(t)' /\ Visual!InputOf(t)'
  BY <1>0, <1>1 DEF Visual!TypeOK, VisualTask, Visual!Controlled, Visual!InputOf, Visual!Attempts, Visual!Ground, Visual!Go, Visual!At, Visual!Interrupted,
     Visual!memory, Visual!disk, Visual!world, Visual!Places, Visual!Early, Visual!Seen
<1>5. Visual!RecordOf(t)'
  BY <1>0, <1>1 DEF Visual!TypeOK, VisualTask, Visual!InputOf, Visual!RecordOf, Visual!Attempts, Visual!Ground, Visual!Go, Visual!At, Visual!Interrupted,
     Visual!memory, Visual!disk, Visual!world, Visual!Places, Visual!Early, Visual!Seen
<1>6. t \in Mutating => Visual!Attempts(t)'
  BY <1>0, <1>1 DEF Visual!TypeOK, VisualTask, Visual!InputOf, Visual!RecordOf, Visual!Attempts, Visual!Holds, Visual!Ground, Visual!Go, Visual!At,
     Visual!Interrupted, Visual!memory, Visual!disk, Visual!world, Visual!Places, Visual!Early, Visual!Seen
<1>7. t \in Mutating /\ Visual!Holds(t)' => Visual!Holds(t) \/ KeyOf[t] \notin visualClaims
  BY <1>0, <1>1 DEF Visual!TypeOK, VisualTask, Visual!InputOf, Visual!Attempts, Visual!Holds, Visual!Ground, Visual!Go, Visual!At, Visual!Interrupted,
     Visual!memory, Visual!disk, Visual!world, Visual!Places, Visual!Early, Visual!Seen
<1> QED
  BY <1>1, <1>2, <1>3, <1>4, <1>5, <1>6, <1>7, VisualStep DEF VisualTask

(* The last look, and the claim in memory.                                   *)
LEMMA VisualRecheck ==
    ASSUME Visual!VisualInv, NEW t \in MicroTasks, Visual!Recheck(t)
    PROVE  Visual!VisualInv'
<1>0. Mutating \subseteq MicroTasks
  BY ActionsAssumption DEF Visual!RuntimeAssumption
<1>1. Visual!TypeOK /\ VisualTask(t)
  BY VisualParts
<1>2. Visual!TypeOK'
  <2>1. task' \in [MicroTasks -> [at : Visual!Places, rev : Nat, taken : Nat, same : BOOLEAN,
                           attempt : Nat, mutated : BOOLEAN]]
    BY <1>0, <1>1 DEF Visual!TypeOK, Visual!Recheck, Visual!Conclude, Visual!Go, Visual!At, Visual!Interrupted, Visual!world, Visual!Places, Visual!Early, Visual!Seen
  <2>2. visualControl' = visualControl /\ visualRevision' = visualRevision /\ visualFresh' \in BOOLEAN /\ live' \subseteq MicroTasks
    BY <1>0, <1>1 DEF Visual!TypeOK, Visual!Recheck, Visual!Conclude, Visual!Go, Visual!At, Visual!Interrupted, Visual!world
  <2>3. record' \in [MicroTasks -> {"none", "planned", "unknown", "blocked", "posted", "verified",
                             "unverified", "final"}]
    BY <1>0, <1>1 DEF Visual!TypeOK, Visual!Recheck, Visual!Conclude, Visual!Go, Visual!At, Visual!Interrupted, Visual!world
  <2>4. input' \in [MicroTasks -> {"none", "queued", "dropped", "sent", "posted", "failed"}] /\ posted' = posted
    BY <1>0, <1>1 DEF Visual!TypeOK, Visual!Recheck, Visual!Conclude, Visual!Go, Visual!At, Visual!Interrupted, Visual!world
  <2>5. approval' \in [Mutating -> {"approved", "cancelled", "failed", "executed"}]
    BY <1>0, <1>1 DEF Visual!TypeOK, Visual!Recheck, Visual!Conclude, Visual!Go, Visual!At, Visual!Interrupted, Visual!world
  <2> QED
    BY <1>1, <2>1, <2>2, <2>3, <2>4, <2>5 DEF Visual!TypeOK
<1>3. VisualMoves(t)
  BY <1>0, <1>1 DEF Visual!TypeOK, VisualMoves, Visual!Recheck, Visual!Conclude, Visual!Go, Visual!At, Visual!Interrupted, Visual!world
<1>4. Visual!Controlled(t)' /\ Visual!InputOf(t)'
  BY <1>0, <1>1 DEF Visual!TypeOK, VisualTask, Visual!Controlled, Visual!InputOf, Visual!Attempts, Visual!Recheck, Visual!Conclude, Visual!Go, Visual!At,
     Visual!Interrupted, Visual!world, Visual!Places, Visual!Early, Visual!Seen
<1>5. Visual!RecordOf(t)'
  BY <1>0, <1>1 DEF Visual!TypeOK, VisualTask, Visual!InputOf, Visual!RecordOf, Visual!Attempts, Visual!Recheck, Visual!Conclude, Visual!Go, Visual!At,
     Visual!Interrupted, Visual!world, Visual!Places, Visual!Early, Visual!Seen
<1>6. t \in Mutating => Visual!Attempts(t)'
  BY <1>0, <1>1 DEF Visual!TypeOK, VisualTask, Visual!InputOf, Visual!RecordOf, Visual!Attempts, Visual!Holds, Visual!Recheck, Visual!Conclude, Visual!Go,
     Visual!At, Visual!Interrupted, Visual!world, Visual!Places, Visual!Early, Visual!Seen
<1>7. t \in Mutating /\ Visual!Holds(t)' => Visual!Holds(t) \/ KeyOf[t] \notin visualClaims
  BY <1>0, <1>1 DEF Visual!TypeOK, VisualTask, Visual!InputOf, Visual!Attempts, Visual!Holds, Visual!Recheck, Visual!Conclude, Visual!Go, Visual!At,
     Visual!Interrupted, Visual!world, Visual!Places, Visual!Early, Visual!Seen
<1> QED
  BY <1>1, <1>2, <1>3, <1>4, <1>5, <1>6, <1>7, VisualStep DEF VisualTask

(* The claim on disk: the key had none, so nobody else holds it.             *)
LEMMA VisualClaim ==
    ASSUME Visual!VisualInv, NEW t \in MicroTasks, Visual!Claim(t)
    PROVE  Visual!VisualInv'
<1>0. Mutating \subseteq MicroTasks
  BY ActionsAssumption DEF Visual!RuntimeAssumption
<1>1. Visual!TypeOK /\ VisualTask(t)
  BY VisualParts
<1>2. Visual!TypeOK'
  <2>1. task' \in [MicroTasks -> [at : Visual!Places, rev : Nat, taken : Nat, same : BOOLEAN,
                           attempt : Nat, mutated : BOOLEAN]]
    <3>1. PICK x \in {"done", "ground", "capture", "save", "execute"} : Visual!Go(t, x)
      BY <1>1 DEF Visual!Claim, Visual!Conclude
    <3> QED
      BY <1>1, <3>1, VisualGo DEF Visual!Places, Visual!Early, Visual!Seen
  <2>2. visualControl' = visualControl /\ visualRevision' = visualRevision /\ visualFresh' \in BOOLEAN /\ live' \subseteq MicroTasks
    BY <1>0, <1>1 DEF Visual!TypeOK, Visual!Claim, Visual!Conclude, Visual!Go, Visual!At, Visual!world
  <2>3. record' \in [MicroTasks -> {"none", "planned", "unknown", "blocked", "posted", "verified",
                             "unverified", "final"}]
    BY <1>0, <1>1 DEF Visual!TypeOK, Visual!Claim, Visual!Conclude, Visual!Go, Visual!At, Visual!world
  <2>4. input' \in [MicroTasks -> {"none", "queued", "dropped", "sent", "posted", "failed"}] /\ posted' = posted
    BY <1>0, <1>1 DEF Visual!TypeOK, Visual!Claim, Visual!Conclude, Visual!Go, Visual!At, Visual!world
  <2>5. approval' \in [Mutating -> {"approved", "cancelled", "failed", "executed"}]
    BY <1>0, <1>1 DEF Visual!TypeOK, Visual!Claim, Visual!Conclude, Visual!Go, Visual!At, Visual!world
  <2> QED
    BY <1>1, <2>1, <2>2, <2>3, <2>4, <2>5 DEF Visual!TypeOK
<1>3. VisualMoves(t)
  BY <1>0, <1>1 DEF Visual!TypeOK, VisualMoves, Visual!Claim, Visual!Conclude, Visual!Go, Visual!At, Visual!world
<1>4. Visual!Controlled(t)' /\ Visual!InputOf(t)'
  BY <1>0, <1>1 DEF Visual!TypeOK, VisualTask, Visual!Controlled, Visual!InputOf, Visual!Attempts, Visual!Claim, Visual!Conclude, Visual!Go, Visual!At,
     Visual!world, Visual!Places, Visual!Early, Visual!Seen
<1>5. Visual!RecordOf(t)'
  BY <1>0, <1>1 DEF Visual!TypeOK, VisualTask, Visual!InputOf, Visual!RecordOf, Visual!Attempts, Visual!Claim, Visual!Conclude, Visual!Go, Visual!At, Visual!world,
     Visual!Places, Visual!Early, Visual!Seen
<1>6. t \in Mutating => Visual!Attempts(t)'
  BY <1>0, <1>1 DEF Visual!TypeOK, VisualTask, Visual!InputOf, Visual!RecordOf, Visual!Attempts, Visual!Holds, Visual!Claim, Visual!Conclude, Visual!Go, Visual!At,
     Visual!world, Visual!Places, Visual!Early, Visual!Seen
<1>7. t \in Mutating /\ Visual!Holds(t)' => Visual!Holds(t) \/ KeyOf[t] \notin visualClaims
  BY <1>0, <1>1 DEF Visual!TypeOK, VisualTask, Visual!InputOf, Visual!Attempts, Visual!Holds, Visual!Claim, Visual!Conclude, Visual!Go, Visual!At, Visual!world,
     Visual!Places, Visual!Early, Visual!Seen
<1> QED
  BY <1>1, <1>2, <1>3, <1>4, <1>5, <1>6, <1>7, VisualStep DEF VisualTask

(* The record, and the input that is queued under the control of the task.   *)
LEMMA VisualSave ==
    ASSUME Visual!VisualInv, NEW t \in MicroTasks, Visual!Save(t)
    PROVE  Visual!VisualInv'
<1>0. Mutating \subseteq MicroTasks
  BY ActionsAssumption DEF Visual!RuntimeAssumption
<1>1. Visual!TypeOK /\ VisualTask(t)
  BY VisualParts
<1>2. Visual!TypeOK'
  <2>1. task' \in [MicroTasks -> [at : Visual!Places, rev : Nat, taken : Nat, same : BOOLEAN,
                           attempt : Nat, mutated : BOOLEAN]]
    <3>1. PICK x \in {"done", "ground", "capture", "save", "execute"} : Visual!Go(t, x)
      BY <1>1 DEF Visual!Save, Visual!Conclude
    <3> QED
      BY <1>1, <3>1, VisualGo DEF Visual!Places, Visual!Early, Visual!Seen
  <2>2. visualControl' = visualControl /\ visualRevision' = visualRevision /\ visualFresh' \in BOOLEAN /\ live' \subseteq MicroTasks
    BY <1>0, <1>1 DEF Visual!TypeOK, Visual!Save, Visual!Conclude, Visual!Go, Visual!At
  <2>3. record' \in [MicroTasks -> {"none", "planned", "unknown", "blocked", "posted", "verified",
                             "unverified", "final"}]
    BY <1>0, <1>1 DEF Visual!TypeOK, Visual!Save, Visual!Conclude, Visual!Go, Visual!At
  <2>4. input' \in [MicroTasks -> {"none", "queued", "dropped", "sent", "posted", "failed"}] /\ posted' = posted
    BY <1>0, <1>1 DEF Visual!TypeOK, Visual!Save, Visual!Conclude, Visual!Go, Visual!At
  <2>5. approval' \in [Mutating -> {"approved", "cancelled", "failed", "executed"}]
    BY <1>0, <1>1 DEF Visual!TypeOK, Visual!Save, Visual!Conclude, Visual!Go, Visual!At
  <2> QED
    BY <1>1, <2>1, <2>2, <2>3, <2>4, <2>5 DEF Visual!TypeOK
<1>3. VisualMoves(t)
  BY <1>0, <1>1 DEF Visual!TypeOK, VisualMoves, Visual!Save, Visual!Conclude, Visual!Go, Visual!At
<1>4. Visual!Controlled(t)' /\ Visual!InputOf(t)'
  BY <1>0, <1>1 DEF Visual!TypeOK, VisualTask, Visual!Controlled, Visual!InputOf, Visual!Attempts, Visual!Save, Visual!Conclude, Visual!Go, Visual!At,
     Visual!Places, Visual!Early, Visual!Seen
<1>5. Visual!RecordOf(t)'
  BY <1>0, <1>1 DEF Visual!TypeOK, VisualTask, Visual!InputOf, Visual!RecordOf, Visual!Attempts, Visual!Save, Visual!Conclude, Visual!Go, Visual!At, Visual!Places,
     Visual!Early, Visual!Seen
<1>6. t \in Mutating => Visual!Attempts(t)'
  BY <1>0, <1>1 DEF Visual!TypeOK, VisualTask, Visual!InputOf, Visual!RecordOf, Visual!Attempts, Visual!Holds, Visual!Save, Visual!Conclude, Visual!Go, Visual!At,
     Visual!Places, Visual!Early, Visual!Seen
<1>7. t \in Mutating /\ Visual!Holds(t)' => Visual!Holds(t) \/ KeyOf[t] \notin visualClaims
  BY <1>0, <1>1 DEF Visual!TypeOK, VisualTask, Visual!InputOf, Visual!Attempts, Visual!Holds, Visual!Save, Visual!Conclude, Visual!Go, Visual!At, Visual!Places,
     Visual!Early, Visual!Seen
<1> QED
  BY <1>1, <1>2, <1>3, <1>4, <1>5, <1>6, <1>7, VisualStep DEF VisualTask

(* An error of its own, and the next attempt where nothing was claimed.      *)
LEMMA VisualFail ==
    ASSUME Visual!VisualInv, NEW t \in MicroTasks, Visual!Fail(t)
    PROVE  Visual!VisualInv'
<1>0. Mutating \subseteq MicroTasks
  BY ActionsAssumption DEF Visual!RuntimeAssumption
<1>1. Visual!TypeOK /\ VisualTask(t)
  BY VisualParts
<1>2. Visual!TypeOK'
  <2>1. task' \in [MicroTasks -> [at : Visual!Places, rev : Nat, taken : Nat, same : BOOLEAN,
                           attempt : Nat, mutated : BOOLEAN]]
    BY <1>0, <1>1 DEF Visual!TypeOK, Visual!Fail, Visual!Conclude, Visual!Go, Visual!At, Visual!Caught, Visual!CaughtRecord, Visual!MayRetry, Visual!Again, Visual!Places,
       Visual!Early, Visual!Seen
  <2>2. visualControl' = visualControl /\ visualRevision' = visualRevision /\ visualFresh' \in BOOLEAN /\ live' \subseteq MicroTasks
    BY <1>0, <1>1 DEF Visual!TypeOK, Visual!Fail, Visual!Conclude, Visual!Go, Visual!At, Visual!Caught, Visual!CaughtRecord, Visual!MayRetry, Visual!Again
  <2>3. record' \in [MicroTasks -> {"none", "planned", "unknown", "blocked", "posted", "verified",
                             "unverified", "final"}]
    BY <1>0, <1>1 DEF Visual!TypeOK, Visual!Fail, Visual!Conclude, Visual!Go, Visual!At, Visual!Caught, Visual!CaughtRecord, Visual!MayRetry, Visual!Again
  <2>4. input' \in [MicroTasks -> {"none", "queued", "dropped", "sent", "posted", "failed"}] /\ posted' = posted
    BY <1>0, <1>1 DEF Visual!TypeOK, Visual!Fail, Visual!Conclude, Visual!Go, Visual!At, Visual!Caught, Visual!CaughtRecord, Visual!MayRetry, Visual!Again
  <2>5. approval' \in [Mutating -> {"approved", "cancelled", "failed", "executed"}]
    BY <1>0, <1>1 DEF Visual!TypeOK, Visual!Fail, Visual!Conclude, Visual!Go, Visual!At, Visual!Caught, Visual!CaughtRecord, Visual!MayRetry, Visual!Again
  <2> QED
    BY <1>1, <2>1, <2>2, <2>3, <2>4, <2>5 DEF Visual!TypeOK
<1>3. VisualMoves(t)
  BY <1>0, <1>1 DEF Visual!TypeOK, VisualMoves, Visual!Fail, Visual!Conclude, Visual!Go, Visual!At, Visual!Caught, Visual!CaughtRecord, Visual!MayRetry,
     Visual!Again
<1>4. Visual!Controlled(t)' /\ Visual!InputOf(t)'
  BY <1>0, <1>1 DEF Visual!TypeOK, VisualTask, Visual!Controlled, Visual!InputOf, Visual!Attempts, Visual!Fail, Visual!Conclude, Visual!Go, Visual!At,
     Visual!Caught, Visual!CaughtRecord, Visual!MayRetry, Visual!Again, Visual!Places, Visual!Early, Visual!Seen
<1>5. Visual!RecordOf(t)'
  BY <1>0, <1>1 DEF Visual!TypeOK, VisualTask, Visual!InputOf, Visual!RecordOf, Visual!Attempts, Visual!Fail, Visual!Conclude, Visual!Go, Visual!At, Visual!Caught,
     Visual!CaughtRecord, Visual!MayRetry, Visual!Again, Visual!Places, Visual!Early, Visual!Seen
<1>6. t \in Mutating => Visual!Attempts(t)'
  BY <1>0, <1>1 DEF Visual!TypeOK, VisualTask, Visual!InputOf, Visual!RecordOf, Visual!Attempts, Visual!Holds, Visual!Fail, Visual!Conclude, Visual!Go, Visual!At,
     Visual!Caught, Visual!CaughtRecord, Visual!MayRetry, Visual!Again, Visual!Places, Visual!Early, Visual!Seen
<1>7. t \in Mutating /\ Visual!Holds(t)' => Visual!Holds(t) \/ KeyOf[t] \notin visualClaims
  BY <1>0, <1>1 DEF Visual!TypeOK, VisualTask, Visual!InputOf, Visual!Attempts, Visual!Holds, Visual!Fail, Visual!Conclude, Visual!Go, Visual!At, Visual!Caught,
     Visual!CaughtRecord, Visual!MayRetry, Visual!Again, Visual!Places, Visual!Early, Visual!Seen
<1> QED
  BY <1>1, <1>2, <1>3, <1>4, <1>5, <1>6, <1>7, VisualStep DEF VisualTask

(* The end of a task, whatever its input does.                               *)
LEMMA VisualStopped ==
    ASSUME Visual!VisualInv, NEW t \in MicroTasks, Visual!Stopped(t)
    PROVE  Visual!VisualInv'
<1>0. Mutating \subseteq MicroTasks
  BY ActionsAssumption DEF Visual!RuntimeAssumption
<1>1. Visual!TypeOK /\ VisualTask(t)
  BY VisualParts
<1>2. Visual!TypeOK'
  <2>1. task' \in [MicroTasks -> [at : Visual!Places, rev : Nat, taken : Nat, same : BOOLEAN,
                           attempt : Nat, mutated : BOOLEAN]]
    BY <1>0, <1>1 DEF Visual!TypeOK, Visual!Stopped, Visual!Conclude, Visual!Go, Visual!Caught, Visual!CaughtRecord, Visual!Awaits, Visual!world, Visual!Places,
       Visual!Early, Visual!Seen
  <2>2. visualControl' = visualControl /\ visualRevision' = visualRevision /\ visualFresh' \in BOOLEAN /\ live' \subseteq MicroTasks
    BY <1>0, <1>1 DEF Visual!TypeOK, Visual!Stopped, Visual!Conclude, Visual!Go, Visual!Caught, Visual!CaughtRecord, Visual!Awaits, Visual!world
  <2>3. record' \in [MicroTasks -> {"none", "planned", "unknown", "blocked", "posted", "verified",
                             "unverified", "final"}]
    BY <1>0, <1>1 DEF Visual!TypeOK, Visual!Stopped, Visual!Conclude, Visual!Go, Visual!Caught, Visual!CaughtRecord, Visual!Awaits, Visual!world
  <2>4. input' \in [MicroTasks -> {"none", "queued", "dropped", "sent", "posted", "failed"}] /\ posted' = posted
    BY <1>0, <1>1 DEF Visual!TypeOK, Visual!Stopped, Visual!Conclude, Visual!Go, Visual!Caught, Visual!CaughtRecord, Visual!Awaits, Visual!world
  <2>5. approval' \in [Mutating -> {"approved", "cancelled", "failed", "executed"}]
    BY <1>0, <1>1 DEF Visual!TypeOK, Visual!Stopped, Visual!Conclude, Visual!Go, Visual!Caught, Visual!CaughtRecord, Visual!Awaits, Visual!world
  <2> QED
    BY <1>1, <2>1, <2>2, <2>3, <2>4, <2>5 DEF Visual!TypeOK
<1>3. VisualMoves(t)
  BY <1>0, <1>1 DEF Visual!TypeOK, VisualMoves, Visual!Stopped, Visual!Conclude, Visual!Go, Visual!Caught, Visual!CaughtRecord, Visual!Awaits, Visual!world
<1>4. Visual!Controlled(t)' /\ Visual!InputOf(t)'
  BY <1>0, <1>1 DEF Visual!TypeOK, VisualTask, Visual!Controlled, Visual!InputOf, Visual!Attempts, Visual!Stopped, Visual!Conclude, Visual!Go,
     Visual!Caught, Visual!CaughtRecord, Visual!Awaits, Visual!world, Visual!Places, Visual!Early, Visual!Seen
<1>5. Visual!RecordOf(t)'
  BY <1>0, <1>1 DEF Visual!TypeOK, VisualTask, Visual!InputOf, Visual!RecordOf, Visual!Attempts, Visual!Stopped, Visual!Conclude, Visual!Go, Visual!Caught,
     Visual!CaughtRecord, Visual!Awaits, Visual!world, Visual!Places, Visual!Early, Visual!Seen
<1>6. t \in Mutating => Visual!Attempts(t)'
  BY <1>0, <1>1 DEF Visual!TypeOK, VisualTask, Visual!InputOf, Visual!RecordOf, Visual!Attempts, Visual!Holds, Visual!Stopped, Visual!Conclude, Visual!Go,
     Visual!Caught, Visual!CaughtRecord, Visual!Awaits, Visual!world, Visual!Places, Visual!Early, Visual!Seen
<1>7. t \in Mutating /\ Visual!Holds(t)' => Visual!Holds(t) \/ KeyOf[t] \notin visualClaims
  BY <1>0, <1>1 DEF Visual!TypeOK, VisualTask, Visual!InputOf, Visual!Attempts, Visual!Holds, Visual!Stopped, Visual!Conclude, Visual!Go, Visual!Caught,
     Visual!CaughtRecord, Visual!Awaits, Visual!world, Visual!Places, Visual!Early, Visual!Seen
<1> QED
  BY <1>1, <1>2, <1>3, <1>4, <1>5, <1>6, <1>7, VisualStep DEF VisualTask

(* The end of a task that lost control.                                      *)
LEMMA VisualInterrupt ==
    ASSUME Visual!VisualInv, NEW t \in MicroTasks, Visual!Interrupt(t)
    PROVE  Visual!VisualInv'
<1>0. Mutating \subseteq MicroTasks
  BY ActionsAssumption DEF Visual!RuntimeAssumption
<1>1. Visual!TypeOK /\ VisualTask(t)
  BY VisualParts
<1>2. Visual!TypeOK'
  <2>1. task' \in [MicroTasks -> [at : Visual!Places, rev : Nat, taken : Nat, same : BOOLEAN,
                           attempt : Nat, mutated : BOOLEAN]]
    BY <1>0, <1>1 DEF Visual!TypeOK, Visual!Interrupt, Visual!Conclude, Visual!Go, Visual!Interrupted, Visual!Caught, Visual!CaughtRecord, Visual!Awaits,
       Visual!world, Visual!Places, Visual!Early, Visual!Seen
  <2>2. visualControl' = visualControl /\ visualRevision' = visualRevision /\ visualFresh' \in BOOLEAN /\ live' \subseteq MicroTasks
    BY <1>0, <1>1 DEF Visual!TypeOK, Visual!Interrupt, Visual!Conclude, Visual!Go, Visual!Interrupted, Visual!Caught, Visual!CaughtRecord, Visual!Awaits,
       Visual!world
  <2>3. record' \in [MicroTasks -> {"none", "planned", "unknown", "blocked", "posted", "verified",
                             "unverified", "final"}]
    BY <1>0, <1>1 DEF Visual!TypeOK, Visual!Interrupt, Visual!Conclude, Visual!Go, Visual!Interrupted, Visual!Caught, Visual!CaughtRecord, Visual!Awaits,
       Visual!world
  <2>4. input' \in [MicroTasks -> {"none", "queued", "dropped", "sent", "posted", "failed"}] /\ posted' = posted
    BY <1>0, <1>1 DEF Visual!TypeOK, Visual!Interrupt, Visual!Conclude, Visual!Go, Visual!Interrupted, Visual!Caught, Visual!CaughtRecord, Visual!Awaits,
       Visual!world
  <2>5. approval' \in [Mutating -> {"approved", "cancelled", "failed", "executed"}]
    BY <1>0, <1>1 DEF Visual!TypeOK, Visual!Interrupt, Visual!Conclude, Visual!Go, Visual!Interrupted, Visual!Caught, Visual!CaughtRecord, Visual!Awaits,
       Visual!world
  <2> QED
    BY <1>1, <2>1, <2>2, <2>3, <2>4, <2>5 DEF Visual!TypeOK
<1>3. VisualMoves(t)
  BY <1>0, <1>1 DEF Visual!TypeOK, VisualMoves, Visual!Interrupt, Visual!Conclude, Visual!Go, Visual!Interrupted, Visual!Caught, Visual!CaughtRecord,
     Visual!Awaits, Visual!world
<1>4. Visual!Controlled(t)' /\ Visual!InputOf(t)'
  BY <1>0, <1>1 DEF Visual!TypeOK, VisualTask, Visual!Controlled, Visual!InputOf, Visual!Attempts, Visual!Interrupt, Visual!Conclude, Visual!Go,
     Visual!Interrupted, Visual!Caught, Visual!CaughtRecord, Visual!Awaits, Visual!world, Visual!Places, Visual!Early, Visual!Seen
<1>5. Visual!RecordOf(t)'
  BY <1>0, <1>1 DEF Visual!TypeOK, VisualTask, Visual!InputOf, Visual!RecordOf, Visual!Attempts, Visual!Interrupt, Visual!Conclude, Visual!Go,
     Visual!Interrupted, Visual!Caught, Visual!CaughtRecord, Visual!Awaits, Visual!world, Visual!Places, Visual!Early, Visual!Seen
<1>6. t \in Mutating => Visual!Attempts(t)'
  BY <1>0, <1>1 DEF Visual!TypeOK, VisualTask, Visual!InputOf, Visual!RecordOf, Visual!Attempts, Visual!Holds, Visual!Interrupt, Visual!Conclude, Visual!Go,
     Visual!Interrupted, Visual!Caught, Visual!CaughtRecord, Visual!Awaits, Visual!world, Visual!Places, Visual!Early, Visual!Seen
<1>7. t \in Mutating /\ Visual!Holds(t)' => Visual!Holds(t) \/ KeyOf[t] \notin visualClaims
  BY <1>0, <1>1 DEF Visual!TypeOK, VisualTask, Visual!InputOf, Visual!Attempts, Visual!Holds, Visual!Interrupt, Visual!Conclude, Visual!Go,
     Visual!Interrupted, Visual!Caught, Visual!CaughtRecord, Visual!Awaits, Visual!world, Visual!Places, Visual!Early, Visual!Seen
<1> QED
  BY <1>1, <1>2, <1>3, <1>4, <1>5, <1>6, <1>7, VisualStep DEF VisualTask

(* An input that came back.                                                  *)
LEMMA VisualExecuted ==
    ASSUME Visual!VisualInv, NEW t \in MicroTasks, Visual!Executed(t)
    PROVE  Visual!VisualInv'
<1>0. Mutating \subseteq MicroTasks
  BY ActionsAssumption DEF Visual!RuntimeAssumption
<1>1. Visual!TypeOK /\ VisualTask(t)
  BY VisualParts
<1>2. Visual!TypeOK'
  <2>1. task' \in [MicroTasks -> [at : Visual!Places, rev : Nat, taken : Nat, same : BOOLEAN,
                           attempt : Nat, mutated : BOOLEAN]]
    BY <1>0, <1>1 DEF Visual!TypeOK, Visual!Executed, Visual!Go, Visual!At, Visual!Interrupted, Visual!memory, Visual!world, Visual!Places, Visual!Early, Visual!Seen
  <2>2. visualControl' = visualControl /\ visualRevision' = visualRevision /\ visualFresh' \in BOOLEAN /\ live' \subseteq MicroTasks
    BY <1>0, <1>1 DEF Visual!TypeOK, Visual!Executed, Visual!Go, Visual!At, Visual!Interrupted, Visual!memory, Visual!world
  <2>3. record' \in [MicroTasks -> {"none", "planned", "unknown", "blocked", "posted", "verified",
                             "unverified", "final"}]
    BY <1>0, <1>1 DEF Visual!TypeOK, Visual!Executed, Visual!Go, Visual!At, Visual!Interrupted, Visual!memory, Visual!world
  <2>4. input' \in [MicroTasks -> {"none", "queued", "dropped", "sent", "posted", "failed"}] /\ posted' = posted
    BY <1>0, <1>1 DEF Visual!TypeOK, Visual!Executed, Visual!Go, Visual!At, Visual!Interrupted, Visual!memory, Visual!world
  <2>5. approval' \in [Mutating -> {"approved", "cancelled", "failed", "executed"}]
    BY <1>0, <1>1 DEF Visual!TypeOK, Visual!Executed, Visual!Go, Visual!At, Visual!Interrupted, Visual!memory, Visual!world
  <2> QED
    BY <1>1, <2>1, <2>2, <2>3, <2>4, <2>5 DEF Visual!TypeOK
<1>3. VisualMoves(t)
  BY <1>0, <1>1 DEF Visual!TypeOK, VisualMoves, Visual!Executed, Visual!Go, Visual!At, Visual!Interrupted, Visual!memory, Visual!world
<1>4. Visual!Controlled(t)' /\ Visual!InputOf(t)'
  BY <1>0, <1>1 DEF Visual!TypeOK, VisualTask, Visual!Controlled, Visual!InputOf, Visual!Attempts, Visual!Executed, Visual!Go, Visual!At,
     Visual!Interrupted, Visual!memory, Visual!world, Visual!Places, Visual!Early, Visual!Seen
<1>5. Visual!RecordOf(t)'
  BY <1>0, <1>1 DEF Visual!TypeOK, VisualTask, Visual!InputOf, Visual!RecordOf, Visual!Attempts, Visual!Executed, Visual!Go, Visual!At, Visual!Interrupted,
     Visual!memory, Visual!world, Visual!Places, Visual!Early, Visual!Seen
<1>6. t \in Mutating => Visual!Attempts(t)'
  BY <1>0, <1>1 DEF Visual!TypeOK, VisualTask, Visual!InputOf, Visual!RecordOf, Visual!Attempts, Visual!Holds, Visual!Executed, Visual!Go, Visual!At,
     Visual!Interrupted, Visual!memory, Visual!world, Visual!Places, Visual!Early, Visual!Seen
<1>7. t \in Mutating /\ Visual!Holds(t)' => Visual!Holds(t) \/ KeyOf[t] \notin visualClaims
  BY <1>0, <1>1 DEF Visual!TypeOK, VisualTask, Visual!InputOf, Visual!Attempts, Visual!Holds, Visual!Executed, Visual!Go, Visual!At, Visual!Interrupted,
     Visual!memory, Visual!world, Visual!Places, Visual!Early, Visual!Seen
<1> QED
  BY <1>1, <1>2, <1>3, <1>4, <1>5, <1>6, <1>7, VisualStep DEF VisualTask

(* The capture after the input.                                              *)
LEMMA VisualAfter ==
    ASSUME Visual!VisualInv, NEW t \in MicroTasks, Visual!After(t)
    PROVE  Visual!VisualInv'
<1>0. Mutating \subseteq MicroTasks
  BY ActionsAssumption DEF Visual!RuntimeAssumption
<1>1. Visual!TypeOK /\ VisualTask(t)
  BY VisualParts
<1>2. Visual!TypeOK'
  <2>1. task' \in [MicroTasks -> [at : Visual!Places, rev : Nat, taken : Nat, same : BOOLEAN,
                           attempt : Nat, mutated : BOOLEAN]]
    BY <1>0, <1>1 DEF Visual!TypeOK, Visual!After, Visual!Go, Visual!At, Visual!Interrupted, Visual!memory, Visual!disk, Visual!world, Visual!Places, Visual!Early, Visual!Seen
  <2>2. visualControl' = visualControl /\ visualRevision' = visualRevision /\ visualFresh' \in BOOLEAN /\ live' \subseteq MicroTasks
    BY <1>0, <1>1 DEF Visual!TypeOK, Visual!After, Visual!Go, Visual!At, Visual!Interrupted, Visual!memory, Visual!disk, Visual!world
  <2>3. record' \in [MicroTasks -> {"none", "planned", "unknown", "blocked", "posted", "verified",
                             "unverified", "final"}]
    BY <1>0, <1>1 DEF Visual!TypeOK, Visual!After, Visual!Go, Visual!At, Visual!Interrupted, Visual!memory, Visual!disk, Visual!world
  <2>4. input' \in [MicroTasks -> {"none", "queued", "dropped", "sent", "posted", "failed"}] /\ posted' = posted
    BY <1>0, <1>1 DEF Visual!TypeOK, Visual!After, Visual!Go, Visual!At, Visual!Interrupted, Visual!memory, Visual!disk, Visual!world
  <2>5. approval' \in [Mutating -> {"approved", "cancelled", "failed", "executed"}]
    BY <1>0, <1>1 DEF Visual!TypeOK, Visual!After, Visual!Go, Visual!At, Visual!Interrupted, Visual!memory, Visual!disk, Visual!world
  <2> QED
    BY <1>1, <2>1, <2>2, <2>3, <2>4, <2>5 DEF Visual!TypeOK
<1>3. VisualMoves(t)
  BY <1>0, <1>1 DEF Visual!TypeOK, VisualMoves, Visual!After, Visual!Go, Visual!At, Visual!Interrupted, Visual!memory, Visual!disk, Visual!world
<1>4. Visual!Controlled(t)' /\ Visual!InputOf(t)'
  BY <1>0, <1>1 DEF Visual!TypeOK, VisualTask, Visual!Controlled, Visual!InputOf, Visual!Attempts, Visual!After, Visual!Go, Visual!At, Visual!Interrupted,
     Visual!memory, Visual!disk, Visual!world, Visual!Places, Visual!Early, Visual!Seen
<1>5. Visual!RecordOf(t)'
  BY <1>0, <1>1 DEF Visual!TypeOK, VisualTask, Visual!InputOf, Visual!RecordOf, Visual!Attempts, Visual!After, Visual!Go, Visual!At, Visual!Interrupted,
     Visual!memory, Visual!disk, Visual!world, Visual!Places, Visual!Early, Visual!Seen
<1>6. t \in Mutating => Visual!Attempts(t)'
  BY <1>0, <1>1 DEF Visual!TypeOK, VisualTask, Visual!InputOf, Visual!RecordOf, Visual!Attempts, Visual!Holds, Visual!After, Visual!Go, Visual!At,
     Visual!Interrupted, Visual!memory, Visual!disk, Visual!world, Visual!Places, Visual!Early, Visual!Seen
<1>7. t \in Mutating /\ Visual!Holds(t)' => Visual!Holds(t) \/ KeyOf[t] \notin visualClaims
  BY <1>0, <1>1 DEF Visual!TypeOK, VisualTask, Visual!InputOf, Visual!Attempts, Visual!Holds, Visual!After, Visual!Go, Visual!At, Visual!Interrupted,
     Visual!memory, Visual!disk, Visual!world, Visual!Places, Visual!Early, Visual!Seen
<1> QED
  BY <1>1, <1>2, <1>3, <1>4, <1>5, <1>6, <1>7, VisualStep DEF VisualTask

(* What the verifier said.                                                   *)
LEMMA VisualVerify ==
    ASSUME Visual!VisualInv, NEW t \in MicroTasks, Visual!Verify(t)
    PROVE  Visual!VisualInv'
<1>0. Mutating \subseteq MicroTasks
  BY ActionsAssumption DEF Visual!RuntimeAssumption
<1>1. Visual!TypeOK /\ VisualTask(t)
  BY VisualParts
<1>2. Visual!TypeOK'
  <2>1. task' \in [MicroTasks -> [at : Visual!Places, rev : Nat, taken : Nat, same : BOOLEAN,
                           attempt : Nat, mutated : BOOLEAN]]
    BY <1>0, <1>1 DEF Visual!TypeOK, Visual!Verify, Visual!Conclude, Visual!Go, Visual!At, Visual!Interrupted, Visual!MayRetry, Visual!Again, Visual!world, Visual!Places,
       Visual!Early, Visual!Seen
  <2>2. visualControl' = visualControl /\ visualRevision' = visualRevision /\ visualFresh' \in BOOLEAN /\ live' \subseteq MicroTasks
    BY <1>0, <1>1 DEF Visual!TypeOK, Visual!Verify, Visual!Conclude, Visual!Go, Visual!At, Visual!Interrupted, Visual!MayRetry, Visual!Again, Visual!world
  <2>3. record' \in [MicroTasks -> {"none", "planned", "unknown", "blocked", "posted", "verified",
                             "unverified", "final"}]
    BY <1>0, <1>1 DEF Visual!TypeOK, Visual!Verify, Visual!Conclude, Visual!Go, Visual!At, Visual!Interrupted, Visual!MayRetry, Visual!Again, Visual!world
  <2>4. input' \in [MicroTasks -> {"none", "queued", "dropped", "sent", "posted", "failed"}] /\ posted' = posted
    BY <1>0, <1>1 DEF Visual!TypeOK, Visual!Verify, Visual!Conclude, Visual!Go, Visual!At, Visual!Interrupted, Visual!MayRetry, Visual!Again, Visual!world
  <2>5. approval' \in [Mutating -> {"approved", "cancelled", "failed", "executed"}]
    BY <1>0, <1>1 DEF Visual!TypeOK, Visual!Verify, Visual!Conclude, Visual!Go, Visual!At, Visual!Interrupted, Visual!MayRetry, Visual!Again, Visual!world
  <2> QED
    BY <1>1, <2>1, <2>2, <2>3, <2>4, <2>5 DEF Visual!TypeOK
<1>3. VisualMoves(t)
  BY <1>0, <1>1 DEF Visual!TypeOK, VisualMoves, Visual!Verify, Visual!Conclude, Visual!Go, Visual!At, Visual!Interrupted, Visual!MayRetry, Visual!Again,
     Visual!world
<1>4. Visual!Controlled(t)' /\ Visual!InputOf(t)'
  BY <1>0, <1>1 DEF Visual!TypeOK, VisualTask, Visual!Controlled, Visual!InputOf, Visual!Attempts, Visual!Verify, Visual!Conclude, Visual!Go, Visual!At,
     Visual!Interrupted, Visual!MayRetry, Visual!Again, Visual!world, Visual!Places, Visual!Early, Visual!Seen
<1>5. Visual!RecordOf(t)'
  BY <1>0, <1>1 DEF Visual!TypeOK, VisualTask, Visual!InputOf, Visual!RecordOf, Visual!Attempts, Visual!Verify, Visual!Conclude, Visual!Go, Visual!At,
     Visual!Interrupted, Visual!MayRetry, Visual!Again, Visual!world, Visual!Places, Visual!Early, Visual!Seen
<1>6. t \in Mutating => Visual!Attempts(t)'
  BY <1>0, <1>1 DEF Visual!TypeOK, VisualTask, Visual!InputOf, Visual!RecordOf, Visual!Attempts, Visual!Holds, Visual!Verify, Visual!Conclude, Visual!Go,
     Visual!At, Visual!Interrupted, Visual!MayRetry, Visual!Again, Visual!world, Visual!Places, Visual!Early, Visual!Seen
<1>7. t \in Mutating /\ Visual!Holds(t)' => Visual!Holds(t) \/ KeyOf[t] \notin visualClaims
  BY <1>0, <1>1 DEF Visual!TypeOK, VisualTask, Visual!InputOf, Visual!Attempts, Visual!Holds, Visual!Verify, Visual!Conclude, Visual!Go, Visual!At,
     Visual!Interrupted, Visual!MayRetry, Visual!Again, Visual!world, Visual!Places, Visual!Early, Visual!Seen
<1> QED
  BY <1>1, <1>2, <1>3, <1>4, <1>5, <1>6, <1>7, VisualStep DEF VisualTask

(* The confirmation of a mutation that was verified.                         *)
LEMMA VisualConfirm ==
    ASSUME Visual!VisualInv, NEW t \in MicroTasks, Visual!Confirm(t)
    PROVE  Visual!VisualInv'
<1>0. Mutating \subseteq MicroTasks
  BY ActionsAssumption DEF Visual!RuntimeAssumption
<1>1. Visual!TypeOK /\ VisualTask(t)
  BY VisualParts
<1>2. Visual!TypeOK'
  <2>1. task' \in [MicroTasks -> [at : Visual!Places, rev : Nat, taken : Nat, same : BOOLEAN,
                           attempt : Nat, mutated : BOOLEAN]]
    BY <1>0, <1>1 DEF Visual!TypeOK, Visual!Confirm, Visual!Conclude, Visual!Go, Visual!At, Visual!world, Visual!Places, Visual!Early, Visual!Seen
  <2>2. visualControl' = visualControl /\ visualRevision' = visualRevision /\ visualFresh' \in BOOLEAN /\ live' \subseteq MicroTasks
    BY <1>0, <1>1 DEF Visual!TypeOK, Visual!Confirm, Visual!Conclude, Visual!Go, Visual!At, Visual!world
  <2>3. record' \in [MicroTasks -> {"none", "planned", "unknown", "blocked", "posted", "verified",
                             "unverified", "final"}]
    BY <1>0, <1>1 DEF Visual!TypeOK, Visual!Confirm, Visual!Conclude, Visual!Go, Visual!At, Visual!world
  <2>4. input' \in [MicroTasks -> {"none", "queued", "dropped", "sent", "posted", "failed"}] /\ posted' = posted
    BY <1>0, <1>1 DEF Visual!TypeOK, Visual!Confirm, Visual!Conclude, Visual!Go, Visual!At, Visual!world
  <2>5. approval' \in [Mutating -> {"approved", "cancelled", "failed", "executed"}]
    BY <1>0, <1>1 DEF Visual!TypeOK, Visual!Confirm, Visual!Conclude, Visual!Go, Visual!At, Visual!world
  <2> QED
    BY <1>1, <2>1, <2>2, <2>3, <2>4, <2>5 DEF Visual!TypeOK
<1>3. VisualMoves(t)
  BY <1>0, <1>1 DEF Visual!TypeOK, VisualMoves, Visual!Confirm, Visual!Conclude, Visual!Go, Visual!At, Visual!world
<1>4. Visual!Controlled(t)' /\ Visual!InputOf(t)'
  BY <1>0, <1>1 DEF Visual!TypeOK, VisualTask, Visual!Controlled, Visual!InputOf, Visual!Attempts, Visual!Confirm, Visual!Conclude, Visual!Go, Visual!At,
     Visual!world, Visual!Places, Visual!Early, Visual!Seen
<1>5. Visual!RecordOf(t)'
  BY <1>0, <1>1 DEF Visual!TypeOK, VisualTask, Visual!InputOf, Visual!RecordOf, Visual!Attempts, Visual!Confirm, Visual!Conclude, Visual!Go, Visual!At,
     Visual!world, Visual!Places, Visual!Early, Visual!Seen
<1>6. t \in Mutating => Visual!Attempts(t)'
  BY <1>0, <1>1 DEF Visual!TypeOK, VisualTask, Visual!InputOf, Visual!RecordOf, Visual!Attempts, Visual!Holds, Visual!Confirm, Visual!Conclude, Visual!Go,
     Visual!At, Visual!world, Visual!Places, Visual!Early, Visual!Seen
<1>7. t \in Mutating /\ Visual!Holds(t)' => Visual!Holds(t) \/ KeyOf[t] \notin visualClaims
  BY <1>0, <1>1 DEF Visual!TypeOK, VisualTask, Visual!InputOf, Visual!Attempts, Visual!Holds, Visual!Confirm, Visual!Conclude, Visual!Go, Visual!At, Visual!world,
     Visual!Places, Visual!Early, Visual!Seen
<1> QED
  BY <1>1, <1>2, <1>3, <1>4, <1>5, <1>6, <1>7, VisualStep DEF VisualTask

(* A confirmation that fails.                                                *)
LEMMA VisualConfirmFails ==
    ASSUME Visual!VisualInv, NEW t \in MicroTasks, Visual!ConfirmFails(t)
    PROVE  Visual!VisualInv'
<1>0. Mutating \subseteq MicroTasks
  BY ActionsAssumption DEF Visual!RuntimeAssumption
<1>1. Visual!TypeOK /\ VisualTask(t)
  BY VisualParts
<1>2. Visual!TypeOK'
  <2>1. task' \in [MicroTasks -> [at : Visual!Places, rev : Nat, taken : Nat, same : BOOLEAN,
                           attempt : Nat, mutated : BOOLEAN]]
    BY <1>0, <1>1 DEF Visual!TypeOK, Visual!ConfirmFails, Visual!Conclude, Visual!Go, Visual!world, Visual!Places, Visual!Early, Visual!Seen
  <2>2. visualControl' = visualControl /\ visualRevision' = visualRevision /\ visualFresh' \in BOOLEAN /\ live' \subseteq MicroTasks
    BY <1>0, <1>1 DEF Visual!TypeOK, Visual!ConfirmFails, Visual!Conclude, Visual!Go, Visual!world
  <2>3. record' \in [MicroTasks -> {"none", "planned", "unknown", "blocked", "posted", "verified",
                             "unverified", "final"}]
    BY <1>0, <1>1 DEF Visual!TypeOK, Visual!ConfirmFails, Visual!Conclude, Visual!Go, Visual!world
  <2>4. input' \in [MicroTasks -> {"none", "queued", "dropped", "sent", "posted", "failed"}] /\ posted' = posted
    BY <1>0, <1>1 DEF Visual!TypeOK, Visual!ConfirmFails, Visual!Conclude, Visual!Go, Visual!world
  <2>5. approval' \in [Mutating -> {"approved", "cancelled", "failed", "executed"}]
    BY <1>0, <1>1 DEF Visual!TypeOK, Visual!ConfirmFails, Visual!Conclude, Visual!Go, Visual!world
  <2> QED
    BY <1>1, <2>1, <2>2, <2>3, <2>4, <2>5 DEF Visual!TypeOK
<1>3. VisualMoves(t)
  BY <1>0, <1>1 DEF Visual!TypeOK, VisualMoves, Visual!ConfirmFails, Visual!Conclude, Visual!Go, Visual!world
<1>4. Visual!Controlled(t)' /\ Visual!InputOf(t)'
  BY <1>0, <1>1 DEF Visual!TypeOK, VisualTask, Visual!Controlled, Visual!InputOf, Visual!Attempts, Visual!ConfirmFails, Visual!Conclude, Visual!Go,
     Visual!world, Visual!Places, Visual!Early, Visual!Seen
<1>5. Visual!RecordOf(t)'
  BY <1>0, <1>1 DEF Visual!TypeOK, VisualTask, Visual!InputOf, Visual!RecordOf, Visual!Attempts, Visual!ConfirmFails, Visual!Conclude, Visual!Go,
     Visual!world, Visual!Places, Visual!Early, Visual!Seen
<1>6. t \in Mutating => Visual!Attempts(t)'
  BY <1>0, <1>1 DEF Visual!TypeOK, VisualTask, Visual!InputOf, Visual!RecordOf, Visual!Attempts, Visual!Holds, Visual!ConfirmFails, Visual!Conclude,
     Visual!Go, Visual!world, Visual!Places, Visual!Early, Visual!Seen
<1>7. t \in Mutating /\ Visual!Holds(t)' => Visual!Holds(t) \/ KeyOf[t] \notin visualClaims
  BY <1>0, <1>1 DEF Visual!TypeOK, VisualTask, Visual!InputOf, Visual!Attempts, Visual!Holds, Visual!ConfirmFails, Visual!Conclude, Visual!Go, Visual!world,
     Visual!Places, Visual!Early, Visual!Seen
<1> QED
  BY <1>1, <1>2, <1>3, <1>4, <1>5, <1>6, <1>7, VisualStep DEF VisualTask

(* The refresh for persistence.                                              *)
LEMMA VisualRefreshed ==
    ASSUME Visual!VisualInv, NEW t \in MicroTasks, Visual!Refreshed(t)
    PROVE  Visual!VisualInv'
<1>0. Mutating \subseteq MicroTasks
  BY ActionsAssumption DEF Visual!RuntimeAssumption
<1>1. Visual!TypeOK /\ VisualTask(t)
  BY VisualParts
<1>2. Visual!TypeOK'
  <2>1. task' \in [MicroTasks -> [at : Visual!Places, rev : Nat, taken : Nat, same : BOOLEAN,
                           attempt : Nat, mutated : BOOLEAN]]
    BY <1>0, <1>1 DEF Visual!TypeOK, Visual!Refreshed, Visual!Go, Visual!At, Visual!Interrupted, Visual!disk, Visual!world, Visual!Places, Visual!Early, Visual!Seen
  <2>2. visualControl' = visualControl /\ visualRevision' = visualRevision /\ visualFresh' \in BOOLEAN /\ live' \subseteq MicroTasks
    BY <1>0, <1>1 DEF Visual!TypeOK, Visual!Refreshed, Visual!Go, Visual!At, Visual!Interrupted, Visual!disk, Visual!world
  <2>3. record' \in [MicroTasks -> {"none", "planned", "unknown", "blocked", "posted", "verified",
                             "unverified", "final"}]
    BY <1>0, <1>1 DEF Visual!TypeOK, Visual!Refreshed, Visual!Go, Visual!At, Visual!Interrupted, Visual!disk, Visual!world
  <2>4. input' \in [MicroTasks -> {"none", "queued", "dropped", "sent", "posted", "failed"}] /\ posted' = posted
    BY <1>0, <1>1 DEF Visual!TypeOK, Visual!Refreshed, Visual!Go, Visual!At, Visual!Interrupted, Visual!disk, Visual!world
  <2>5. approval' \in [Mutating -> {"approved", "cancelled", "failed", "executed"}]
    BY <1>0, <1>1 DEF Visual!TypeOK, Visual!Refreshed, Visual!Go, Visual!At, Visual!Interrupted, Visual!disk, Visual!world
  <2> QED
    BY <1>1, <2>1, <2>2, <2>3, <2>4, <2>5 DEF Visual!TypeOK
<1>3. VisualMoves(t)
  BY <1>0, <1>1 DEF Visual!TypeOK, VisualMoves, Visual!Refreshed, Visual!Go, Visual!At, Visual!Interrupted, Visual!disk, Visual!world
<1>4. Visual!Controlled(t)' /\ Visual!InputOf(t)'
  BY <1>0, <1>1 DEF Visual!TypeOK, VisualTask, Visual!Controlled, Visual!InputOf, Visual!Attempts, Visual!Refreshed, Visual!Go, Visual!At,
     Visual!Interrupted, Visual!disk, Visual!world, Visual!Places, Visual!Early, Visual!Seen
<1>5. Visual!RecordOf(t)'
  BY <1>0, <1>1 DEF Visual!TypeOK, VisualTask, Visual!InputOf, Visual!RecordOf, Visual!Attempts, Visual!Refreshed, Visual!Go, Visual!At, Visual!Interrupted,
     Visual!disk, Visual!world, Visual!Places, Visual!Early, Visual!Seen
<1>6. t \in Mutating => Visual!Attempts(t)'
  BY <1>0, <1>1 DEF Visual!TypeOK, VisualTask, Visual!InputOf, Visual!RecordOf, Visual!Attempts, Visual!Holds, Visual!Refreshed, Visual!Go, Visual!At,
     Visual!Interrupted, Visual!disk, Visual!world, Visual!Places, Visual!Early, Visual!Seen
<1>7. t \in Mutating /\ Visual!Holds(t)' => Visual!Holds(t) \/ KeyOf[t] \notin visualClaims
  BY <1>0, <1>1 DEF Visual!TypeOK, VisualTask, Visual!InputOf, Visual!Attempts, Visual!Holds, Visual!Refreshed, Visual!Go, Visual!At, Visual!Interrupted,
     Visual!disk, Visual!world, Visual!Places, Visual!Early, Visual!Seen
<1> QED
  BY <1>1, <1>2, <1>3, <1>4, <1>5, <1>6, <1>7, VisualStep DEF VisualTask

(* The record and the approval at the end.                                   *)
LEMMA VisualFinalize ==
    ASSUME Visual!VisualInv, NEW t \in MicroTasks, Visual!Finalize(t)
    PROVE  Visual!VisualInv'
<1>0. Mutating \subseteq MicroTasks
  BY ActionsAssumption DEF Visual!RuntimeAssumption
<1>1. Visual!TypeOK /\ VisualTask(t)
  BY VisualParts
<1>2. Visual!TypeOK'
  <2>1. task' \in [MicroTasks -> [at : Visual!Places, rev : Nat, taken : Nat, same : BOOLEAN,
                           attempt : Nat, mutated : BOOLEAN]]
    BY <1>0, <1>1 DEF Visual!TypeOK, Visual!Finalize, Visual!Go, Visual!At, Visual!memory, Visual!world, Visual!Places, Visual!Early, Visual!Seen
  <2>2. visualControl' = visualControl /\ visualRevision' = visualRevision /\ visualFresh' \in BOOLEAN /\ live' \subseteq MicroTasks
    BY <1>0, <1>1 DEF Visual!TypeOK, Visual!Finalize, Visual!Go, Visual!At, Visual!memory, Visual!world
  <2>3. record' \in [MicroTasks -> {"none", "planned", "unknown", "blocked", "posted", "verified",
                             "unverified", "final"}]
    BY <1>0, <1>1 DEF Visual!TypeOK, Visual!Finalize, Visual!Go, Visual!At, Visual!memory, Visual!world
  <2>4. input' \in [MicroTasks -> {"none", "queued", "dropped", "sent", "posted", "failed"}] /\ posted' = posted
    BY <1>0, <1>1 DEF Visual!TypeOK, Visual!Finalize, Visual!Go, Visual!At, Visual!memory, Visual!world
  <2>5. approval' \in [Mutating -> {"approved", "cancelled", "failed", "executed"}]
    BY <1>0, <1>1 DEF Visual!TypeOK, Visual!Finalize, Visual!Go, Visual!At, Visual!memory, Visual!world
  <2> QED
    BY <1>1, <2>1, <2>2, <2>3, <2>4, <2>5 DEF Visual!TypeOK
<1>3. VisualMoves(t)
  BY <1>0, <1>1 DEF Visual!TypeOK, VisualMoves, Visual!Finalize, Visual!Go, Visual!At, Visual!memory, Visual!world
<1>4. Visual!Controlled(t)' /\ Visual!InputOf(t)'
  <2>1. \/ Visual!Go(t, "done") \/ task' = task
    BY DEF Visual!Finalize
  <2>2. task'[t].at \in {"done", "final"} /\ task'[t].rev = task[t].rev /\ task'[t].taken = task[t].taken
    <3>1. CASE task' = task
      BY <1>1, <3>1 DEF Visual!Finalize, Visual!At
    <3>2. CASE Visual!Go(t, "done")
      <4>1. task' = [task EXCEPT ![t].at = "done"]
        BY <3>2 DEF Visual!Go
      <4> QED
        BY <1>1, <4>1 DEF Visual!TypeOK
    <3> QED
      BY <2>1, <3>1, <3>2
  <2>3. UNCHANGED <<visualControl, visualRevision, live, input>>
    BY DEF Visual!Finalize, Visual!memory, Visual!world
  <2> QED
    BY <1>0, <1>1, <2>2, <2>3 DEF VisualTask, Visual!Controlled, Visual!InputOf, Visual!Finalize, Visual!At, Visual!Seen
<1>5. Visual!RecordOf(t)'
  BY <1>0, <1>1 DEF Visual!TypeOK, VisualTask, Visual!InputOf, Visual!RecordOf, Visual!Attempts, Visual!Finalize, Visual!Go, Visual!At, Visual!memory,
     Visual!world, Visual!Places, Visual!Early, Visual!Seen
<1>6. t \in Mutating => Visual!Attempts(t)'
  BY <1>0, <1>1 DEF Visual!TypeOK, VisualTask, Visual!InputOf, Visual!RecordOf, Visual!Attempts, Visual!Holds, Visual!Finalize, Visual!Go, Visual!At,
     Visual!memory, Visual!world, Visual!Places, Visual!Early, Visual!Seen
<1>7. t \in Mutating /\ Visual!Holds(t)' => Visual!Holds(t) \/ KeyOf[t] \notin visualClaims
  BY <1>0, <1>1 DEF Visual!TypeOK, VisualTask, Visual!InputOf, Visual!Attempts, Visual!Holds, Visual!Finalize, Visual!Go, Visual!At, Visual!memory, Visual!world,
     Visual!Places, Visual!Early, Visual!Seen
<1> QED
  BY <1>1, <1>2, <1>3, <1>4, <1>5, <1>6, <1>7, VisualStep DEF VisualTask

(* The approved plan before the runtime.                                     *)
LEMMA VisualPreflight ==
    ASSUME Visual!VisualInv, NEW t \in MicroTasks, Visual!Preflight(t)
    PROVE  Visual!VisualInv'
<1>0. Mutating \subseteq MicroTasks
  BY ActionsAssumption DEF Visual!RuntimeAssumption
<1>1. Visual!TypeOK /\ VisualTask(t)
  BY VisualParts
<1>p. PICK r : /\ r = [at |-> "given", rev |-> 0, taken |-> visualRevision, same |-> TRUE,
                       attempt |-> 1, mutated |-> FALSE]
  OBVIOUS
<1>g. \/ task' = [task EXCEPT ![t] = r] /\ approval' = approval
      \/ Visual!Go(t, "done") /\ approval' = [approval EXCEPT ![t] = "cancelled"]
  BY <1>p DEF Visual!Preflight, Visual!Idle
<1>t. /\ task' \in [MicroTasks -> [at : Visual!Places, rev : Nat, taken : Nat, same : BOOLEAN,
                           attempt : Nat, mutated : BOOLEAN]]
      /\ task'[t].at \in {"given", "done"}
  <2>1. CASE task' = [task EXCEPT ![t] = r]
    BY <1>1, <1>p, <2>1 DEF Visual!TypeOK, Visual!Places, Visual!Early, Visual!Seen
  <2>2. CASE Visual!Go(t, "done")
    <3>1. task' = [task EXCEPT ![t].at = "done"]
      BY <2>2 DEF Visual!Go
    <3> QED
      BY <1>1, <3>1 DEF Visual!TypeOK, Visual!Places
  <2> QED
    BY <1>g, <2>1, <2>2
<1>2. Visual!TypeOK'
  <2>1. task' \in [MicroTasks -> [at : Visual!Places, rev : Nat, taken : Nat, same : BOOLEAN,
                           attempt : Nat, mutated : BOOLEAN]]
    BY <1>t
  <2>2. visualControl' = visualControl /\ visualRevision' = visualRevision /\ visualFresh' \in BOOLEAN /\ live' \subseteq MicroTasks
    BY <1>0, <1>1 DEF Visual!TypeOK, Visual!Preflight, Visual!Go, Visual!At, Visual!Asked, Visual!Idle, Visual!memory, Visual!world
  <2>3. record' \in [MicroTasks -> {"none", "planned", "unknown", "blocked", "posted", "verified",
                             "unverified", "final"}]
    BY <1>0, <1>1 DEF Visual!TypeOK, Visual!Preflight, Visual!Go, Visual!At, Visual!Asked, Visual!Idle, Visual!memory, Visual!world
  <2>4. input' \in [MicroTasks -> {"none", "queued", "dropped", "sent", "posted", "failed"}] /\ posted' = posted
    BY <1>0, <1>1 DEF Visual!TypeOK, Visual!Preflight, Visual!Go, Visual!At, Visual!Asked, Visual!Idle, Visual!memory, Visual!world
  <2>5. approval' \in [Mutating -> {"approved", "cancelled", "failed", "executed"}]
    BY <1>0, <1>1 DEF Visual!TypeOK, Visual!Preflight, Visual!Go, Visual!At, Visual!Asked, Visual!Idle, Visual!memory, Visual!world
  <2> QED
    BY <1>1, <2>1, <2>2, <2>3, <2>4, <2>5 DEF Visual!TypeOK
<1>3. VisualMoves(t)
  BY <1>0, <1>1 DEF Visual!TypeOK, VisualMoves, Visual!Preflight, Visual!Go, Visual!At, Visual!Asked, Visual!Idle, Visual!memory, Visual!world
<1>4. Visual!Controlled(t)' /\ Visual!InputOf(t)'
  BY <1>t, <1>0, <1>1 DEF Visual!TypeOK, VisualTask, Visual!Controlled, Visual!InputOf, Visual!RecordOf, Visual!Attempts, Visual!Holds,
     Visual!Preflight, Visual!At, Visual!Asked, Visual!Idle, Visual!memory, Visual!disk, Visual!world, Visual!Early, Visual!Seen
<1>5. Visual!RecordOf(t)'
  BY <1>t, <1>0, <1>1 DEF Visual!TypeOK, VisualTask, Visual!Controlled, Visual!InputOf, Visual!RecordOf, Visual!Attempts, Visual!Holds,
     Visual!Preflight, Visual!At, Visual!Asked, Visual!Idle, Visual!memory, Visual!disk, Visual!world, Visual!Early, Visual!Seen
<1>6. t \in Mutating => Visual!Attempts(t)'
  BY <1>t, <1>0, <1>1 DEF Visual!TypeOK, VisualTask, Visual!Controlled, Visual!InputOf, Visual!RecordOf, Visual!Attempts, Visual!Holds,
     Visual!Preflight, Visual!At, Visual!Asked, Visual!Idle, Visual!memory, Visual!disk, Visual!world, Visual!Early, Visual!Seen
<1>7. t \in Mutating /\ Visual!Holds(t)' => Visual!Holds(t) \/ KeyOf[t] \notin visualClaims
  BY <1>t, <1>0, <1>1 DEF Visual!TypeOK, VisualTask, Visual!Controlled, Visual!InputOf, Visual!RecordOf, Visual!Attempts, Visual!Holds,
     Visual!Preflight, Visual!At, Visual!Asked, Visual!Idle, Visual!memory, Visual!disk, Visual!world, Visual!Early, Visual!Seen
<1> QED
  BY <1>1, <1>2, <1>3, <1>4, <1>5, <1>6, <1>7, VisualStep DEF VisualTask

(* A task begins, under control.                                             *)
LEMMA VisualBegin ==
    ASSUME Visual!VisualInv, NEW t \in MicroTasks, Visual!Begin(t)
    PROVE  Visual!VisualInv'
<1>0. Mutating \subseteq MicroTasks
  BY ActionsAssumption DEF Visual!RuntimeAssumption
<1>1. Visual!TypeOK /\ VisualTask(t)
  BY VisualParts
<1>2. Visual!TypeOK'
  <2>1. task' \in [MicroTasks -> [at : Visual!Places, rev : Nat, taken : Nat, same : BOOLEAN,
                           attempt : Nat, mutated : BOOLEAN]]
    BY <1>0, <1>1 DEF Visual!TypeOK, Visual!Begin, Visual!Conclude, Visual!Go, Visual!At, Visual!Asked, Visual!world, Visual!Places, Visual!Early, Visual!Seen
  <2>2. visualControl' = visualControl /\ visualRevision' = visualRevision /\ visualFresh' \in BOOLEAN /\ live' \subseteq MicroTasks
    BY <1>0, <1>1 DEF Visual!TypeOK, Visual!Begin, Visual!Conclude, Visual!Go, Visual!At, Visual!Asked, Visual!world
  <2>3. record' \in [MicroTasks -> {"none", "planned", "unknown", "blocked", "posted", "verified",
                             "unverified", "final"}]
    BY <1>0, <1>1 DEF Visual!TypeOK, Visual!Begin, Visual!Conclude, Visual!Go, Visual!At, Visual!Asked, Visual!world
  <2>4. input' \in [MicroTasks -> {"none", "queued", "dropped", "sent", "posted", "failed"}] /\ posted' = posted
    BY <1>0, <1>1 DEF Visual!TypeOK, Visual!Begin, Visual!Conclude, Visual!Go, Visual!At, Visual!Asked, Visual!world
  <2>5. approval' \in [Mutating -> {"approved", "cancelled", "failed", "executed"}]
    BY <1>0, <1>1 DEF Visual!TypeOK, Visual!Begin, Visual!Conclude, Visual!Go, Visual!At, Visual!Asked, Visual!world
  <2> QED
    BY <1>1, <2>1, <2>2, <2>3, <2>4, <2>5 DEF Visual!TypeOK
<1>3. VisualMoves(t)
  BY <1>0, <1>1 DEF Visual!TypeOK, VisualMoves, Visual!Begin, Visual!Conclude, Visual!Go, Visual!At, Visual!Asked, Visual!world
<1>4. Visual!Controlled(t)' /\ Visual!InputOf(t)'
  BY <1>0, <1>1 DEF Visual!TypeOK, VisualTask, Visual!Controlled, Visual!InputOf, Visual!Attempts, Visual!Begin, Visual!Conclude, Visual!Go, Visual!At,
     Visual!Asked, Visual!world, Visual!Places, Visual!Early, Visual!Seen
<1>5. Visual!RecordOf(t)'
  BY <1>0, <1>1 DEF Visual!TypeOK, VisualTask, Visual!InputOf, Visual!RecordOf, Visual!Attempts, Visual!Begin, Visual!Conclude, Visual!Go, Visual!At, Visual!Asked,
     Visual!world, Visual!Places, Visual!Early, Visual!Seen
<1>6. t \in Mutating => Visual!Attempts(t)'
  BY <1>0, <1>1 DEF Visual!TypeOK, VisualTask, Visual!InputOf, Visual!RecordOf, Visual!Attempts, Visual!Holds, Visual!Begin, Visual!Conclude, Visual!Go, Visual!At,
     Visual!Asked, Visual!world, Visual!Places, Visual!Early, Visual!Seen
<1>7. t \in Mutating /\ Visual!Holds(t)' => Visual!Holds(t) \/ KeyOf[t] \notin visualClaims
  BY <1>0, <1>1 DEF Visual!TypeOK, VisualTask, Visual!InputOf, Visual!Attempts, Visual!Holds, Visual!Begin, Visual!Conclude, Visual!Go, Visual!At, Visual!Asked,
     Visual!world, Visual!Places, Visual!Early, Visual!Seen
<1> QED
  BY <1>1, <1>2, <1>3, <1>4, <1>5, <1>6, <1>7, VisualStep DEF VisualTask

(* What the world does, and what becomes of the queue.                       *)
LEMMA VisualSend ==
    ASSUME Visual!VisualInv, NEW t \in MicroTasks, Visual!Send(t) \/ Visual!Refuse(t)
    PROVE  Visual!VisualInv'
<1>0. Mutating \subseteq MicroTasks
  BY ActionsAssumption DEF Visual!RuntimeAssumption
<1>1. Visual!TypeOK /\ VisualTask(t)
  BY VisualParts
<1>2. PICK i \in {"sent", "failed"} : /\ input' = [input EXCEPT ![t] = i]
        /\ (i = "sent" => input[t] = "queued") /\ input[t] \in {"queued", "sent"}
        /\ UNCHANGED <<Visual!memory, Visual!disk, posted, task, visualCrashes>>
  BY DEF Visual!Send, Visual!Refuse
<1>3. Visual!TypeOK'
  BY <1>0, <1>1, <1>2 DEF Visual!TypeOK, Visual!memory, Visual!disk
<1>4. VisualMoves(t)
  BY <1>0, <1>1, <1>2 DEF Visual!TypeOK, VisualMoves, Visual!memory, Visual!disk
<1>5. Visual!Controlled(t)' /\ Visual!InputOf(t)'
  BY <1>0, <1>1, <1>2 DEF Visual!TypeOK, VisualTask, Visual!Controlled, Visual!InputOf, Visual!memory, Visual!disk, Visual!Seen
<1>6. Visual!RecordOf(t)'
  BY <1>0, <1>1, <1>2 DEF Visual!TypeOK, VisualTask, Visual!RecordOf, Visual!memory, Visual!disk
<1>7. t \in Mutating => Visual!Attempts(t)' /\ Visual!Holds(t)
  BY <1>0, <1>1, <1>2 DEF Visual!TypeOK, VisualTask, Visual!InputOf, Visual!Attempts, Visual!Holds, Visual!memory, Visual!disk, Visual!Early, Visual!Seen
<1> QED
  BY <1>1, <1>3, <1>4, <1>5, <1>6, <1>7, VisualStep DEF VisualTask

(* A repaint touches no more than what the pixels of the tasks are.          *)
LEMMA VisualRepainted ==
    ASSUME Visual!TypeOK, task' = Visual!Repainted
    PROVE  /\ task' \in [MicroTasks -> [at : Visual!Places, rev : Nat, taken : Nat, same : BOOLEAN,
                                   attempt : Nat, mutated : BOOLEAN]]
           /\ \A u \in MicroTasks : task'[u].at = task[u].at /\ task'[u].rev = task[u].rev
                /\ task'[u].taken = task[u].taken /\ task'[u].mutated = task[u].mutated
  BY DEF Visual!TypeOK, Visual!Repainted

(* What matters of the places of the tasks stays, and so does what holds.    *)
LEMMA VisualPost ==
    ASSUME Visual!VisualInv, NEW t \in MicroTasks, Visual!Post(t)
    PROVE  Visual!VisualInv'
<1>0. Mutating \subseteq MicroTasks
  BY ActionsAssumption DEF Visual!RuntimeAssumption
<1>1. Visual!TypeOK /\ (\A u \in MicroTasks : VisualTask(u)) /\ Visual!OneHolder
  BY VisualParts
<1>2. /\ input[t] = "sent" /\ input' = [input EXCEPT ![t] = "posted"]
      /\ UNCHANGED <<visualControl, visualRevision, visualFresh, live, attempted, visualClaims, record, approval>>
      /\ \A u \in Mutating : posted'[u] = IF u = t THEN posted[u] + 1 ELSE posted[u]
  BY <1>1 DEF Visual!Post, Visual!memory, Visual!disk, Visual!TypeOK
<1>3. /\ task' \in [MicroTasks -> [at : Visual!Places, rev : Nat, taken : Nat, same : BOOLEAN,
                              attempt : Nat, mutated : BOOLEAN]]
      /\ \A u \in MicroTasks : task'[u].at = task[u].at /\ task'[u].rev = task[u].rev
           /\ task'[u].taken = task[u].taken /\ task'[u].mutated = task[u].mutated
  BY <1>1, VisualRepainted DEF Visual!Post
<1>4. t \in Mutating => posted[t] = 0
  BY <1>1, <1>2 DEF VisualTask, Visual!Attempts
<1>5. posted' \in [Mutating -> 0..1]
  BY <1>1, <1>4 DEF Visual!Post, Visual!TypeOK
<1>6. Visual!TypeOK'
  BY <1>1, <1>2, <1>3, <1>5 DEF Visual!TypeOK
<1>7. ASSUME NEW u \in MicroTasks PROVE VisualTask(u)' /\ (Visual!Holds(u)' <=> Visual!Holds(u))
  <2>1. input'[u] = IF u = t THEN "posted" ELSE input[u]
    BY <1>1, <1>2 DEF Visual!TypeOK
  <2>2. Visual!Holds(u)' <=> Visual!Holds(u)
    BY <1>2, <1>3, <2>1 DEF Visual!Holds
  <2>3. VisualTask(u)
    BY <1>1
  <2>4. Visual!Controlled(u)' /\ Visual!InputOf(u)' /\ Visual!RecordOf(u)'
    BY <1>2, <1>3, <2>1, <2>3 DEF VisualTask, Visual!Controlled, Visual!InputOf, Visual!RecordOf
  <2>5. u \in Mutating => Visual!Attempts(u)'
    BY <1>2, <1>3, <1>4, <2>1, <2>2, <2>3 DEF VisualTask, Visual!Attempts, Visual!Holds, Visual!InputOf
  <2> QED
    BY <2>2, <2>4, <2>5 DEF VisualTask
<1>8. Visual!OneHolder'
  BY <1>0, <1>1, <1>7 DEF Visual!OneHolder
<1> QED
  BY <1>6, <1>7, <1>8, VisualParts

LEMMA VisualPageChanges ==
    ASSUME Visual!VisualInv, Visual!PageChanges
    PROVE  Visual!VisualInv'
<1>0. Mutating \subseteq MicroTasks
  BY ActionsAssumption DEF Visual!RuntimeAssumption
<1>1. Visual!TypeOK /\ (\A u \in MicroTasks : VisualTask(u)) /\ Visual!OneHolder
  BY VisualParts
<1>2. UNCHANGED <<visualControl, visualRevision, visualFresh, live, attempted, visualClaims, record, approval, input, posted>>
  BY DEF Visual!PageChanges, Visual!memory, Visual!disk, Visual!world
<1>3. /\ task' \in [MicroTasks -> [at : Visual!Places, rev : Nat, taken : Nat, same : BOOLEAN,
                              attempt : Nat, mutated : BOOLEAN]]
      /\ \A u \in MicroTasks : task'[u].at = task[u].at /\ task'[u].rev = task[u].rev
           /\ task'[u].taken = task[u].taken /\ task'[u].mutated = task[u].mutated
  BY <1>1, VisualRepainted DEF Visual!PageChanges
<1>6. Visual!TypeOK'
  BY <1>1, <1>2, <1>3 DEF Visual!TypeOK
<1>7. ASSUME NEW u \in MicroTasks PROVE VisualTask(u)' /\ (Visual!Holds(u)' <=> Visual!Holds(u))
  <2>2. Visual!Holds(u)' <=> Visual!Holds(u)
    BY <1>2, <1>3 DEF Visual!Holds
  <2>3. VisualTask(u)
    BY <1>1
  <2>4. Visual!Controlled(u)' /\ Visual!InputOf(u)' /\ Visual!RecordOf(u)'
    BY <1>2, <1>3, <2>3 DEF VisualTask, Visual!Controlled, Visual!InputOf, Visual!RecordOf
  <2>5. u \in Mutating => Visual!Attempts(u)'
    BY <1>2, <1>3, <2>2, <2>3 DEF VisualTask, Visual!Attempts
  <2> QED
    BY <2>2, <2>4, <2>5 DEF VisualTask
<1>8. Visual!OneHolder'
  BY <1>0, <1>1, <1>7 DEF Visual!OneHolder
<1> QED
  BY <1>6, <1>7, <1>8, VisualParts

(* A change of control and a death of the daemon empty the queue and the set *)
(* of the tasks that may go on.                                              *)
LEMMA VisualControl ==
    ASSUME Visual!VisualInv, Visual!ChangeControl \/ Visual!Crash
    PROVE  Visual!VisualInv'
<1>0. Mutating \subseteq MicroTasks
  BY ActionsAssumption DEF Visual!RuntimeAssumption
<1>1. Visual!TypeOK /\ (\A u \in MicroTasks : VisualTask(u)) /\ Visual!OneHolder
  BY VisualParts
<1>2. /\ visualControl' \in {"running", "paused", "user_control", "cancelled"} /\ visualRevision' \in Nat
      /\ visualFresh' \in BOOLEAN /\ live' = {} /\ input' = Visual!Dropped
      /\ UNCHANGED <<visualClaims, record, approval, posted>>
  <2>1. CASE Visual!Crash
    BY <2>1 DEF Visual!Crash, Visual!disk
  <2>2. CASE Visual!ChangeControl
    <3>1. PICK next \in {"running", "paused", "user_control", "cancelled"} : Visual!SetControl(next)
      BY <2>2 DEF Visual!ChangeControl
    <3>2. visualRevision \in Nat
      BY <1>1 DEF Visual!TypeOK
    <3> QED
      BY <3>1, <3>2 DEF Visual!SetControl, Visual!disk
  <2> QED
    BY <2>1, <2>2
<1>3. /\ task' \in [MicroTasks -> [at : Visual!Places, rev : Nat, taken : Nat, same : BOOLEAN,
                              attempt : Nat, mutated : BOOLEAN]]
      /\ \A u \in MicroTasks : task'[u] = task[u] \/ (task[u].at # "idle" /\ task'[u].at = "done")
  <2>1. CASE Visual!ChangeControl
    BY <1>1, <2>1 DEF Visual!TypeOK, Visual!ChangeControl, Visual!SetControl
  <2>2. CASE Visual!Crash
    <3>1. PICK r : r = [at |-> "done", rev |-> 0, taken |-> 0, same |-> FALSE, attempt |-> 1,
                        mutated |-> FALSE]
      OBVIOUS
    <3>2. task' = [t \in MicroTasks |-> IF task[t].at = "idle" THEN task[t] ELSE r]
      <4>1. PICK i : i = [Visual!Idle EXCEPT !.at = "done"]
        OBVIOUS
      <4>2. i = [at |-> "done", rev |-> 0, taken |-> 0, same |-> FALSE, attempt |-> 1,
                 mutated |-> FALSE]
        BY <4>1 DEF Visual!Idle
      <4> QED
        BY <2>2, <3>1, <4>1, <4>2 DEF Visual!Crash, Visual!At
    <3>3. r \in [at : Visual!Places, rev : Nat, taken : Nat, same : BOOLEAN, attempt : Nat, mutated : BOOLEAN]
      BY <3>1 DEF Visual!Places
    <3>4. r.at = "done"
      BY <3>1
    <3>5. task \in [MicroTasks -> [at : Visual!Places, rev : Nat, taken : Nat, same : BOOLEAN,
                              attempt : Nat, mutated : BOOLEAN]]
      BY <1>1 DEF Visual!TypeOK
    <3> QED
      BY <3>2, <3>3, <3>4, <3>5
  <2> QED
    BY <2>1, <2>2
<1>4. \A u \in MicroTasks : input'[u] = IF input[u] = "queued" THEN "dropped" ELSE input[u]
  BY <1>2 DEF Visual!Dropped
<1>5. input' \in [MicroTasks -> {"none", "queued", "dropped", "sent", "posted", "failed"}]
  BY <1>1, <1>2 DEF Visual!TypeOK, Visual!Dropped
<1>6. Visual!TypeOK'
  BY <1>1, <1>2, <1>3, <1>5 DEF Visual!TypeOK
<1>7. ASSUME NEW u \in MicroTasks PROVE VisualTask(u)' /\ (Visual!Holds(u)' => Visual!Holds(u))
  <2>1. VisualTask(u)
    BY <1>1
  <2>2. Visual!Holds(u)' => Visual!Holds(u)
    BY <1>3, <1>4 DEF Visual!Holds, Visual!Seen
  <2>3. Visual!Controlled(u)' /\ Visual!InputOf(u)'
    BY <1>2, <1>3, <1>4, <2>1 DEF VisualTask, Visual!Controlled, Visual!InputOf, Visual!Seen
  <2>4. Visual!RecordOf(u)'
    BY <1>2, <1>4, <2>1 DEF VisualTask, Visual!RecordOf
  <2>5. u \in Mutating => Visual!Attempts(u)'
    BY <1>2, <1>3, <1>4, <2>1, <2>2 DEF VisualTask, Visual!Attempts, Visual!Early
  <2> QED
    BY <2>2, <2>3, <2>4, <2>5 DEF VisualTask
<1>8. Visual!OneHolder'
  BY <1>0, <1>1, <1>7 DEF Visual!OneHolder
<1> QED
  BY <1>6, <1>7, <1>8, VisualParts

(* The invariant holds.                                                      *)
THEOREM VisualInvariant == Visual!Spec => []Visual!VisualInv
<1>1. Visual!Init => Visual!VisualInv
  <2> SUFFICES ASSUME Visual!Init PROVE Visual!VisualInv
    OBVIOUS
  <2>0. Mutating \subseteq MicroTasks
    BY ActionsAssumption DEF Visual!RuntimeAssumption
  <2>1. PICK r : r = [at |-> "idle", rev |-> 0, taken |-> 0, same |-> FALSE, attempt |-> 1,
                      mutated |-> FALSE]
    OBVIOUS
  <2>2. task = [t \in MicroTasks |-> r] /\ r.at = "idle"
        /\ r \in [at : Visual!Places, rev : Nat, taken : Nat, same : BOOLEAN, attempt : Nat, mutated : BOOLEAN]
    BY <2>1 DEF Visual!Init, Visual!Idle, Visual!Places, Visual!Early
  <2>3. Visual!TypeOK
    <3>1. task \in [MicroTasks -> [at : Visual!Places, rev : Nat, taken : Nat, same : BOOLEAN,
                             attempt : Nat, mutated : BOOLEAN]]
      BY <2>2
    <3>2. /\ record \in [MicroTasks -> {"none", "planned", "unknown", "blocked", "posted", "verified",
                                   "unverified", "final"}]
          /\ input \in [MicroTasks -> {"none", "queued", "dropped", "sent", "posted", "failed"}]
      BY DEF Visual!Init
    <3>3. /\ posted \in [Mutating -> 0..1]
          /\ approval \in [Mutating -> {"approved", "cancelled", "failed", "executed"}]
      BY DEF Visual!Init
    <3> QED
      BY <3>1, <3>2, <3>3 DEF Visual!Init, Visual!TypeOK
  <2>4. ASSUME NEW u \in MicroTasks PROVE VisualTask(u) /\ ~Visual!Holds(u)
    BY <2>2 DEF Visual!Init, VisualTask, Visual!Controlled, Visual!InputOf, Visual!RecordOf, Visual!Attempts, Visual!Holds, Visual!Seen
  <2>5. Visual!OneHolder
    BY <2>0, <2>4 DEF Visual!OneHolder
  <2> QED
    BY <2>3, <2>4, <2>5, VisualParts
<1>2. Visual!VisualInv /\ [Visual!Next]_(Visual!vars) => Visual!VisualInv'
  <2> SUFFICES ASSUME Visual!VisualInv, [Visual!Next]_(Visual!vars) PROVE Visual!VisualInv'
    OBVIOUS
  <2>1. CASE UNCHANGED Visual!vars
    BY <2>1 DEF Visual!VisualInv, Visual!TypeOK, Visual!Controlled, Visual!InputOf, Visual!RecordOf, Visual!Attempts, Visual!Holds, Visual!OneHolder,
                Visual!vars, Visual!memory, Visual!disk, Visual!world
  <2>2. ASSUME NEW t \in MicroTasks, Visual!Step(t) PROVE Visual!VisualInv'
    BY <2>2, VisualBound, VisualCapture, VisualGround, VisualRecheck, VisualClaim, VisualSave,
       VisualFail, VisualStopped, VisualInterrupt, VisualExecuted, VisualAfter, VisualVerify,
       VisualConfirm, VisualConfirmFails, VisualRefreshed, VisualFinalize DEF Visual!Step
  <2>3. ASSUME NEW t \in MicroTasks, Visual!Preflight(t) \/ Visual!Begin(t) \/ Visual!Send(t) \/ Visual!Post(t) \/ Visual!Refuse(t)
        PROVE  Visual!VisualInv'
    BY <2>3, VisualPreflight, VisualBegin, VisualSend, VisualPost
  <2>4. CASE Visual!ChangeControl \/ Visual!PageChanges \/ Visual!Crash
    BY <2>4, VisualControl, VisualPageChanges
  <2> QED
    BY <2>1, <2>2, <2>3, <2>4 DEF Visual!Next
<1> QED
  BY <1>1, <1>2, PTL DEF Visual!Spec

(* An approved mutation reaches the screen once, a record never hides an     *)
(* input or claims one, and input leaves only under the control its task     *)
(* began with.                                                               *)
THEOREM VisualInputHolds == Visual!Spec => Visual!InputHolds
<1>1. Visual!VisualInv => Visual!MutationOnce /\ Visual!RecordHonest
  <2> SUFFICES ASSUME Visual!VisualInv PROVE Visual!MutationOnce /\ Visual!RecordHonest
    OBVIOUS
  <2>0. Mutating \subseteq MicroTasks
    BY ActionsAssumption DEF Visual!RuntimeAssumption
  <2>1. Visual!TypeOK /\ (\A u \in MicroTasks : VisualTask(u)) /\ Visual!OneHolder
    BY VisualParts
  <2>2. \A t \in Mutating : posted[t] \in 0..1 /\ (posted[t] = 1 => Visual!Holds(t))
    BY <2>0, <2>1 DEF VisualTask, Visual!Attempts, Visual!Holds, Visual!TypeOK
  <2>3. Visual!MutationOnce
    BY <2>1, <2>2 DEF Visual!MutationOnce, Visual!OneHolder
  <2>4. Visual!RecordHonest
    BY <2>0, <2>1 DEF Visual!RecordHonest, VisualTask, Visual!RecordOf, Visual!Attempts
  <2> QED
    BY <2>3, <2>4
<1>2. Visual!VisualInv /\ [Visual!Next]_(Visual!vars) => [\A t \in MicroTasks :
       input[t] # "sent" /\ input'[t] = "sent" =>
         /\ visualControl = "running" /\ task[t].rev = visualRevision
         /\ t \in Mutating \/ task[t].taken = visualRevision]_(Visual!vars)
  <2> SUFFICES ASSUME Visual!VisualInv, Visual!Next, NEW t \in MicroTasks, input[t] # "sent", input'[t] = "sent"
               PROVE  /\ visualControl = "running" /\ task[t].rev = visualRevision
                      /\ t \in Mutating \/ task[t].taken = visualRevision
    OBVIOUS
  <2>1. Visual!TypeOK /\ VisualTask(t)
    BY VisualParts
  <2>2. ASSUME input[t] = "queued"
        PROVE  /\ visualControl = "running" /\ task[t].rev = visualRevision
               /\ t \in Mutating \/ task[t].taken = visualRevision
    BY <2>1, <2>2 DEF VisualTask, Visual!Controlled
  <2>3. CASE Visual!ChangeControl \/ Visual!PageChanges \/ Visual!Crash
    BY <2>1, <2>3 DEF Visual!ChangeControl, Visual!SetControl, Visual!PageChanges, Visual!Crash, Visual!Dropped, Visual!world, Visual!TypeOK
  <2>4. ASSUME NEW u \in MicroTasks, Visual!Preflight(u) \/ Visual!Begin(u) \/ Visual!Send(u) \/ Visual!Post(u) \/ Visual!Refuse(u)
        PROVE  input[t] = "queued"
    BY <2>1, <2>4 DEF Visual!Preflight, Visual!Begin, Visual!Send, Visual!Post, Visual!Refuse, Visual!Conclude, Visual!world, Visual!TypeOK
  <2>5. ASSUME NEW u \in MicroTasks, Visual!Step(u) PROVE FALSE
    BY <2>1, <2>5 DEF Visual!Step, Visual!Bound, Visual!Capture, Visual!Ground, Visual!Recheck, Visual!Claim, Visual!Save, Visual!Fail, Visual!Stopped, Visual!Interrupt,
       Visual!Executed, Visual!After, Visual!Verify, Visual!Confirm, Visual!ConfirmFails, Visual!Refreshed, Visual!Finalize, Visual!world, Visual!TypeOK
  <2> QED
    BY <2>2, <2>3, <2>4, <2>5 DEF Visual!Next
<1>3. Visual!VisualInv /\ Visual!VisualInv' => [Visual!MutationOnce' /\ Visual!RecordHonest']_(Visual!vars)
  <2>1. Visual!VisualInv' => Visual!MutationOnce' /\ Visual!RecordHonest'
    BY <1>1, PTL
  <2> QED
    BY <2>1
<1> QED
  BY <1>2, <1>3, VisualInvariant, PTL DEF Visual!Spec, Visual!InputHolds, Visual!SentUnderControl

(***************************************************************************)
(* The input requests of the helper.                                       *)
(***************************************************************************)

(* The sequences: what follows a press is a place where the button is down.  *)
LEMMA InputScript ==
    ASSUME NEW k \in {"move", "type", "click2", "drag"}
    PROVE  /\ Len(Machine!Script[k]) = IF k \in {"click2", "drag"} THEN 4 ELSE 1
           /\ \A n \in 1..Len(Machine!Script[k]) :
                /\ Machine!Script[k][n] = "down" => n < Len(Machine!Script[k]) /\ Machine!Down(k, n + 1)
                /\ Machine!Script[k][n] # "down" /\ Machine!Script[k][n] # "up" /\ Machine!Down(k, n) =>
                     n < Len(Machine!Script[k]) /\ Machine!Down(k, n + 1)
                /\ k \in {"move", "type"} => Machine!Script[k][n] = k
<1>1. CASE k = "click2"
  <2>1. Machine!Script[k] = <<"down", "up", "down", "up">>
    BY <1>1 DEF Machine!Script
  <2> QED
    BY <1>1, <2>1 DEF Machine!Down
<1>2. CASE k = "drag"
  <2>1. Machine!Script[k] = <<"down", "drag", "drag", "up">>
    BY <1>2 DEF Machine!Script
  <2> QED
    BY <1>2, <2>1 DEF Machine!Down
<1>3. CASE k \in {"move", "type"}
  <2>1. Machine!Script[k] = <<k>>
    BY <1>3 DEF Machine!Script
  <2> QED
    BY <1>3, <2>1 DEF Machine!Down
<1> QED
  BY <1>1, <1>2, <1>3

(* What the requests other than r hold is left alone by a step of r, which   *)
(* has the helper for itself.                                                *)
InputMoves(r) ==
  /\ touches' = touches /\ captures' = captures /\ capture' = capture
  /\ machineClaims \subseteq machineClaims' /\ machineLeases' \subseteq machineLeases
  /\ current \in {r, Machine!None} /\ current' \in {r, Machine!None}
  /\ \A s \in Inputs : s # r =>
       /\ req'[s] = req[s] /\ answer'[s] = answer[s]
       /\ events'[s] = events[s] /\ overrun'[s] = overrun[s]

(* What the invariant says of one request.                                   *)
InputOne(r) == Machine!Stage(r) /\ Machine!Overrun(r) /\ Machine!Owned(r)

LEMMA InputParts ==
    /\ Machine!InputInv <=> Machine!TypeOK /\ Machine!ButtonHeld /\ Machine!LeasesHeld /\ Machine!OneEach /\ (\A r \in Inputs : InputOne(r))
    /\ Machine!InputInv' <=>
         /\ Machine!TypeOK' /\ Machine!ButtonHeld' /\ Machine!LeasesHeld' /\ Machine!OneEach'
         /\ (\A r \in Inputs : InputOne(r)')
  BY DEF Machine!InputInv, InputOne

(* A request is admitted when its action is not claimed, and uses a lease    *)
(* that is still there.                                                      *)
LEMMA InputStep ==
    ASSUME Machine!InputInv, NEW r \in Inputs, InputMoves(r), Machine!TypeOK', Machine!ButtonHeld', InputOne(r)',
           Machine!Admitted(r)' => Machine!Admitted(r) \/ ActionOf[r] \notin machineClaims,
           Machine!Spent(r)' =>
             /\ req'[r].lease = req[r].lease
             /\ Machine!Spent(r) \/ req[r].lease \in machineLeases
    PROVE  Machine!InputInv'
<1>1. Machine!TypeOK /\ Machine!LeasesHeld /\ Machine!OneEach /\ (\A s \in Inputs : InputOne(s))
  BY InputParts
<1>2. \A l : Machine!Fair(l)' <=> Machine!Fair(l)
  BY DEF InputMoves, Machine!Fair
<1>3. Machine!LeasesHeld'
  BY <1>1, <1>2 DEF Machine!LeasesHeld, InputMoves
<1>4. ASSUME NEW s \in Inputs, s # r
      PROVE  InputOne(s)' /\ (Machine!Admitted(s)' <=> Machine!Admitted(s)) /\ (Machine!Spent(s)' <=> Machine!Spent(s))
  <2>1. /\ req'[s] = req[s] /\ answer'[s] = answer[s] /\ events'[s] = events[s]
        /\ overrun'[s] = overrun[s] /\ touches' = touches
        /\ current # s /\ current' # s
        /\ (ActionOf[s] \in machineClaims => ActionOf[s] \in machineClaims') /\ machineLeases' \subseteq machineLeases
    BY <1>4, ActionsAssumption DEF InputMoves, Machine!InputAssumption
  <2>2. Machine!Stage(s) /\ Machine!Overrun(s) /\ Machine!Owned(s)
    BY <1>1 DEF InputOne
  <2>3. (Machine!Admitted(s)' <=> Machine!Admitted(s)) /\ (Machine!Spent(s)' <=> Machine!Spent(s))
    BY <2>1 DEF Machine!Admitted, Machine!Spent
  <2>4. Machine!Stage(s)'
    BY <2>1, <2>2 DEF Machine!Stage
  <2>5. req[s].at # "check"
    BY <2>1, <2>2 DEF Machine!Stage, Machine!Posting
  <2>6. Machine!Overrun(s)'
    BY <2>1, <2>2, <2>5 DEF Machine!Overrun
  <2>7. Machine!Owned(s)'
    BY <1>2, <2>1, <2>2, <2>3 DEF Machine!Owned
  <2> QED
    BY <2>3, <2>4, <2>6, <2>7 DEF InputOne
<1>5. Machine!OneEach'
  <2>1. \A s \in Inputs : (Machine!Admitted(s) => ActionOf[s] \in machineClaims)
                          /\ (Machine!Spent(s) => \A l \in machineLeases : l.gen # req[s].lease.gen)
    BY <1>1 DEF InputOne, Machine!Owned
  <2>2. \A s \in Inputs : s # r =>
          req'[s] = req[s] /\ (Machine!Admitted(s)' <=> Machine!Admitted(s)) /\ (Machine!Spent(s)' <=> Machine!Spent(s))
    BY <1>4 DEF InputMoves
  <2>3. ASSUME NEW s \in Inputs, s # r
        PROVE  /\ Machine!Admitted(r)' /\ Machine!Admitted(s)' => ActionOf[r] # ActionOf[s]
               /\ Machine!Spent(r)' /\ Machine!Spent(s)' => req'[r].lease.gen # req'[s].lease.gen
    BY <1>1, <2>1, <2>2, <2>3 DEF Machine!OneEach
  <2> QED
    BY <1>1, <2>2, <2>3 DEF Machine!OneEach
<1> QED
  BY <1>1, <1>3, <1>4, <1>5, InputParts

(* A request goes on.                                                        *)
LEMMA InputGo ==
    ASSUME Machine!TypeOK, NEW r \in Inputs, NEW x \in Machine!Waiting \cup Machine!Posting \cup {"answered"}, Machine!Go(r, x)
    PROVE  /\ req' \in [Inputs -> [at : Machine!Waiting \cup Machine!Posting \cup {"answered"}, lease : Machine!LeaseType,
                                  next : 1..4]]
           /\ req'[r].at = x /\ req'[r].lease = req[r].lease /\ req'[r].next = req[r].next
           /\ \A s \in Inputs : s # r => req'[s] = req[s]
<1>1. PICK A : A = Machine!Waiting \cup Machine!Posting \cup {"answered"}
  OBVIOUS
<1>2. req \in [Inputs -> [at : A, lease : Machine!LeaseType, next : 1..4]] /\ x \in A
  BY <1>1 DEF Machine!TypeOK
<1>3. req' = [req EXCEPT ![r].at = x]
  BY DEF Machine!Go
<1> QED
  BY <1>1, <1>2, <1>3

(* The answers: the request is over and the helper is free.                  *)
LEMMA InputAnswer ==
    ASSUME Machine!TypeOK, NEW r \in Inputs, NEW what \in {"refused", "unknown", "posted"}, Machine!Answer(r, what)
    PROVE  /\ req' \in [Inputs -> [at : Machine!Waiting \cup Machine!Posting \cup {"answered"}, lease : Machine!LeaseType,
                                  next : 1..4]]
           /\ req'[r].at = "answered" /\ req'[r].lease = req[r].lease
           /\ answer' \in [Inputs -> {Machine!None, "refused", "unknown", "posted"}] /\ answer'[r] = what
           /\ current' = Machine!None
           /\ \A s \in Inputs : s # r => req'[s] = req[s] /\ answer'[s] = answer[s]
<1>1. PICK x \in {"answered"} : Machine!Go(r, x)
  BY DEF Machine!Answer
<1>2. answer' = [answer EXCEPT ![r] = what] /\ current' = Machine!None
  BY DEF Machine!Answer
<1> QED
  BY <1>1, <1>2, InputGo DEF Machine!TypeOK

(* A request that has not posted is refused: only its lease is lost.         *)
LEMMA InputRefused ==
    ASSUME Machine!InputInv, NEW r \in Inputs, req[r].at \in Machine!Waiting, current \in {r, Machine!None},
           Machine!Answer(r, "refused"), machineClaims \subseteq machineClaims', machineLeases' \subseteq machineLeases,
           marker' \in BOOLEAN,
           UNCHANGED <<touches, capture, captures, events, overrun, button>>
    PROVE  Machine!InputInv'
<1>1. Machine!TypeOK /\ Machine!ButtonHeld /\ InputOne(r)
  BY InputParts
<1>2. /\ req' \in [Inputs -> [at : Machine!Waiting \cup Machine!Posting \cup {"answered"}, lease : Machine!LeaseType,
                             next : 1..4]]
      /\ req'[r].at = "answered" /\ req'[r].lease = req[r].lease
      /\ answer' \in [Inputs -> {Machine!None, "refused", "unknown", "posted"}] /\ answer'[r] = "refused"
      /\ current' = Machine!None
      /\ \A s \in Inputs : s # r => req'[s] = req[s] /\ answer'[s] = answer[s]
  <2>1. PICK what \in {"refused", "unknown"} : what = "refused" /\ Machine!Answer(r, what)
    OBVIOUS
  <2> QED
    BY <1>1, <2>1, InputAnswer
<1>3. Machine!TypeOK'
  BY <1>1, <1>2 DEF Machine!TypeOK
<1>4. InputMoves(r)
  BY <1>2 DEF InputMoves
<1>5. events[r] = 0 /\ overrun[r] = 0
  BY <1>1 DEF InputOne, Machine!Stage, Machine!Overrun
<1>6. Machine!ButtonHeld'
  BY <1>1, ActionsAssumption DEF Machine!ButtonHeld, Machine!InputAssumption, Machine!Waiting, Machine!Posting
<1>7. ~Machine!Admitted(r)' /\ ~Machine!Spent(r)'
  BY <1>2, <1>5 DEF Machine!Admitted, Machine!Spent, Machine!Posting
<1>8. Machine!Stage(r)'
  BY <1>2, <1>5, ActionsAssumption DEF Machine!Stage, Machine!Waiting, Machine!Posting, Machine!None, Machine!InputAssumption
<1>9. Machine!Overrun(r)' /\ Machine!Owned(r)'
  BY <1>2, <1>5, <1>7 DEF Machine!Overrun, Machine!Owned, Machine!Waiting
<1> QED
  BY <1>3, <1>4, <1>6, <1>7, <1>8, <1>9, InputStep DEF InputOne

(* A request that is let in, and one that is refused.                        *)
LEMMA InputReceive ==
    ASSUME Machine!InputInv, NEW r \in Inputs, Machine!Receive(r)
    PROVE  Machine!InputInv'
<1>0. Machine!TypeOK /\ Machine!ButtonHeld /\ InputOne(r)
  BY InputParts
<1>1. /\ current = Machine!None /\ req[r].at = "sent" /\ machineClaims' = machineClaims \cup {ActionOf[r]}
      /\ UNCHANGED <<touches, pressed, front, marker, machineLeases, capture, captures, events, overrun, button>>
  BY DEF Machine!Receive, Machine!Free, Machine!machine, Machine!store
<1>2. CASE Machine!Claimed(r) \/ r \in late
  BY <1>1, <1>2, <1>0, InputRefused DEF Machine!Receive, Machine!Waiting, Machine!TypeOK
<1>3. CASE ~(Machine!Claimed(r) \/ r \in late)
  <2>1. PICK x \in {"resolve"} : x = "resolve" /\ Machine!Go(r, x) /\ current' = r /\ answer' = answer
    BY <1>3 DEF Machine!Receive
  <2>2. /\ req' \in [Inputs -> [at : Machine!Waiting \cup Machine!Posting \cup {"answered"}, lease : Machine!LeaseType,
                               next : 1..4]]
        /\ req'[r].at = "resolve" /\ req'[r].lease = req[r].lease /\ req'[r].next = req[r].next
        /\ \A s \in Inputs : s # r => req'[s] = req[s]
    BY <1>0, <2>1, InputGo DEF Machine!Waiting
  <2>3. Machine!TypeOK'
    BY <1>0, <1>1, <2>1, <2>2 DEF Machine!TypeOK
  <2>4. InputMoves(r)
    BY <1>1, <2>1, <2>2 DEF InputMoves
  <2>5. button' = Machine!None
    BY <1>0, <1>1, ActionsAssumption DEF Machine!ButtonHeld, Machine!InputAssumption, Machine!TypeOK
  <2>6. Machine!ButtonHeld'
    BY <2>5 DEF Machine!ButtonHeld
  <2>7. events[r] = 0 /\ overrun[r] = 0 /\ req[r].next = 1 /\ answer[r] = Machine!None
    BY <1>0, <1>1 DEF InputOne, Machine!Stage, Machine!Overrun, Machine!Waiting
  <2>8. ActionOf[r] \notin machineClaims /\ ActionOf[r] \in machineClaims'
    BY <1>1, <1>3 DEF Machine!Claimed
  <2>9. ~Machine!Spent(r)'
    BY <1>1, <2>2, <2>7 DEF Machine!Spent, Machine!Posting
  <2>10. Machine!Stage(r)'
    BY <1>1, <2>1, <2>2, <2>7 DEF Machine!Stage, Machine!Waiting, Machine!Posting, Machine!None
  <2>11. Machine!Overrun(r)' /\ Machine!Owned(r)'
    BY <1>1, <2>2, <2>7, <2>8, <2>9 DEF Machine!Overrun, Machine!Owned
  <2> QED
    BY <2>3, <2>4, <2>6, <2>8, <2>9, <2>10, <2>11, InputStep DEF InputOne
<1> QED
  BY <1>2, <1>3

(* A request that is refused before its lease is looked at.                  *)
LEMMA InputFails ==
    ASSUME Machine!InputInv, NEW r \in Inputs, Machine!CancelledEarly(r) \/ Machine!ResolveFails(r)
    PROVE  Machine!InputInv'
<1>1. Machine!TypeOK
  BY InputParts
<1> QED
  BY <1>1, InputRefused DEF Machine!CancelledEarly, Machine!ResolveFails, Machine!Refused, Machine!machine, Machine!store, Machine!Waiting, Machine!TypeOK

(* The lease that the host sent.                                             *)
LEMMA InputResolve ==
    ASSUME Machine!InputInv, NEW r \in Inputs, NEW l \in machineLeases, Machine!Resolve(r, l)
    PROVE  Machine!InputInv'
<1>0. Machine!TypeOK /\ Machine!ButtonHeld /\ InputOne(r)
  BY InputParts
<1>1. /\ current = r /\ req[r].at = "resolve"
      /\ UNCHANGED <<touches, pressed, front, marker, machineLeases, capture, captures, answer, events,
                     overrun, late, machineClaims, current, button>>
  BY DEF Machine!Resolve, Machine!machine, Machine!store, Machine!told
<1>2. /\ req' \in [Inputs -> [at : Machine!Waiting \cup Machine!Posting \cup {"answered"}, lease : Machine!LeaseType,
                             next : 1..4]]
      /\ req'[r].at = "consume" /\ req'[r].next = req[r].next
      /\ \A s \in Inputs : s # r => req'[s] = req[s]
  <2>1. PICK A : A = Machine!Waiting \cup Machine!Posting \cup {"answered"}
    OBVIOUS
  <2>2. req \in [Inputs -> [at : A, lease : Machine!LeaseType, next : 1..4]] /\ "consume" \in A /\ l \in Machine!LeaseType
    BY <1>0, <2>1 DEF Machine!TypeOK, Machine!Waiting
  <2>3. req' = [req EXCEPT ![r].at = "consume", ![r].lease = l]
    BY DEF Machine!Resolve
  <2> QED
    BY <2>1, <2>2, <2>3
<1>3. Machine!TypeOK'
  BY <1>0, <1>1, <1>2 DEF Machine!TypeOK
<1>4. InputMoves(r)
  BY <1>1, <1>2 DEF InputMoves
<1>5. events[r] = 0 /\ overrun[r] = 0 /\ req[r].next = 1 /\ answer[r] = Machine!None
  BY <1>0, <1>1 DEF InputOne, Machine!Stage, Machine!Overrun, Machine!Waiting
<1>6. Machine!ButtonHeld'
  BY <1>0, <1>1 DEF Machine!ButtonHeld, Machine!Posting
<1>7. ~Machine!Spent(r)' /\ Machine!Admitted(r) /\ ActionOf[r] \in machineClaims'
  BY <1>0, <1>1, <1>2, <1>5 DEF Machine!Spent, Machine!Admitted, Machine!Posting, InputOne, Machine!Owned
<1>8. Machine!Stage(r)'
  BY <1>1, <1>2, <1>5 DEF Machine!Stage, Machine!Waiting, Machine!Posting, Machine!None
<1>9. Machine!Overrun(r)' /\ Machine!Owned(r)'
  BY <1>1, <1>2, <1>5, <1>7 DEF Machine!Overrun, Machine!Owned
<1> QED
  BY <1>3, <1>4, <1>6, <1>7, <1>8, <1>9, InputStep DEF InputOne

(* A lease is used by one request: it was there, and is not any more.        *)
LEMMA InputConsume ==
    ASSUME Machine!InputInv, NEW r \in Inputs, Machine!Consume(r)
    PROVE  Machine!InputInv'
<1>0. Machine!TypeOK /\ Machine!ButtonHeld /\ Machine!LeasesHeld /\ InputOne(r)
  BY InputParts
<1>1. /\ current = r /\ req[r].at = "consume"
      /\ machineLeases' = IF r \in late THEN machineLeases ELSE machineLeases \ {req[r].lease}
      /\ UNCHANGED <<touches, pressed, front, marker, capture, captures, events, overrun, late,
                     machineClaims, button>>
  BY DEF Machine!Consume, Machine!machine
<1>2. CASE req[r].lease \in machineLeases /\ front /\ r \notin late
  <2>1. PICK x \in {"check"} : x = "check" /\ Machine!Go(r, x) /\ answer' = answer /\ current' = current
    BY <1>2 DEF Machine!Consume
  <2>2. /\ req' \in [Inputs -> [at : Machine!Waiting \cup Machine!Posting \cup {"answered"}, lease : Machine!LeaseType,
                               next : 1..4]]
        /\ req'[r].at = "check" /\ req'[r].lease = req[r].lease /\ req'[r].next = req[r].next
        /\ \A s \in Inputs : s # r => req'[s] = req[s]
    BY <1>0, <2>1, InputGo DEF Machine!Posting
  <2>3. Machine!TypeOK'
    BY <1>0, <1>1, <2>1, <2>2 DEF Machine!TypeOK
  <2>4. InputMoves(r)
    BY <1>1, <2>1, <2>2 DEF InputMoves
  <2>5. events[r] = 0 /\ overrun[r] = 0 /\ req[r].next = 1 /\ answer[r] = Machine!None
    BY <1>0, <1>1 DEF InputOne, Machine!Stage, Machine!Overrun, Machine!Waiting
  <2>6. Machine!ButtonHeld'
    BY <1>0, <1>1 DEF Machine!ButtonHeld, Machine!Posting
  <2>7. Machine!Admitted(r) /\ ActionOf[r] \in machineClaims'
    BY <1>0, <1>1 DEF Machine!Admitted, InputOne, Machine!Owned
  <2>8. Machine!Stage(r)'
    <3>1. Len(Machine!Script[InputKind[r]]) \in {1, 4}
      BY ActionsAssumption, InputScript DEF Machine!InputAssumption
    <3>2. PICK m \in {1, 4} : m = Len(Machine!Script[InputKind[r]])
      BY <3>1
    <3>3. events'[r] + 1 = req'[r].next /\ req'[r].next <= m
      <4>1. events'[r] = 0 /\ req'[r].next = 1
        BY <1>1, <2>2, <2>5
      <4>2. 1 <= m
        OBVIOUS
      <4> QED
        BY <4>1, <4>2
    <3>4. answer'[r] = Machine!None /\ current' = r
      BY <1>1, <2>1, <2>5
    <3> QED
      BY <2>2, <3>2, <3>3, <3>4 DEF Machine!Stage, Machine!Waiting, Machine!Posting, Machine!None
  <2>9. \E l0 : l0 = req[r].lease /\ Machine!Fair(l0)' /\ \A l \in machineLeases' : l.gen # l0.gen
    <3>1. PICK l0 : l0 = req[r].lease
      OBVIOUS
    <3>2. l0 \in machineLeases /\ machineLeases' = machineLeases \ {l0}
      BY <1>1, <1>2, <3>1
    <3>3. Machine!Fair(l0) /\ \A l \in machineLeases' : l.gen # l0.gen
      BY <1>0, <3>2 DEF Machine!LeasesHeld
    <3>4. Machine!Fair(l0)'
      BY <1>1, <3>3 DEF Machine!Fair
    <3> QED
      BY <3>1, <3>3, <3>4
  <2>10. Machine!Overrun(r)' /\ Machine!Owned(r)'
    BY <1>1, <2>2, <2>5, <2>7, <2>9 DEF Machine!Overrun, Machine!Owned
  <2> QED
    BY <1>2, <2>2, <2>3, <2>4, <2>6, <2>7, <2>8, <2>10, InputStep DEF InputOne
<1>3. CASE ~(req[r].lease \in machineLeases /\ front /\ r \notin late)
  BY <1>0, <1>1, <1>3, InputRefused DEF Machine!Consume, Machine!Waiting, Machine!TypeOK
<1> QED
  BY <1>2, <1>3

(* A checkpoint lets an event pass only if nobody touched the machine since  *)
(* the capture.                                                              *)
LEMMA InputPass ==
    ASSUME Machine!InputInv, NEW r \in Inputs, Machine!Pass(r)
    PROVE  Machine!InputInv'
<1>0. Machine!TypeOK /\ Machine!ButtonHeld /\ InputOne(r)
  BY InputParts
<1>1. /\ current = r /\ req[r].at = "check" /\ ~marker /\ touches = req[r].lease.base
      /\ UNCHANGED <<touches, pressed, front, marker, machineLeases, capture, captures, answer, events,
                     overrun, late, machineClaims, current, button>>
  BY DEF Machine!Pass, Machine!Allowed, Machine!Watched, Machine!Untouched, Machine!machine, Machine!store, Machine!told
<1>2. PICK x \in {"post"} : x = "post" /\ Machine!Go(r, x)
  BY DEF Machine!Pass
<1>3. /\ req' \in [Inputs -> [at : Machine!Waiting \cup Machine!Posting \cup {"answered"}, lease : Machine!LeaseType,
                             next : 1..4]]
      /\ req'[r].at = "post" /\ req'[r].lease = req[r].lease /\ req'[r].next = req[r].next
      /\ \A s \in Inputs : s # r => req'[s] = req[s]
  BY <1>0, <1>2, InputGo DEF Machine!Posting
<1>4. Machine!TypeOK'
  BY <1>0, <1>1, <1>3 DEF Machine!TypeOK
<1>5. InputMoves(r)
  BY <1>1, <1>3 DEF InputMoves
<1>6. Machine!Admitted(r) /\ Machine!Spent(r)
  BY <1>1 DEF Machine!Admitted, Machine!Spent, Machine!Posting
<1>7. Machine!ButtonHeld'
  BY <1>0, <1>1, <1>3, ActionsAssumption DEF Machine!ButtonHeld, Machine!Posting, Machine!InputAssumption
<1>8. Machine!Fair(req[r].lease)
  BY <1>0, <1>6 DEF InputOne, Machine!Owned
<1>9. Machine!Stage(r)'
  BY <1>0, <1>1, <1>3 DEF InputOne, Machine!Stage, Machine!Waiting, Machine!Posting
<1>10. Machine!Overrun(r)'
  <2>1. overrun[r] # 1
    BY <1>0, <1>1, <1>8 DEF InputOne, Machine!Overrun, Machine!Fair
  <2>2. overrun[r] \in Nat /\ overrun[r] <= 1
    BY <1>0 DEF InputOne, Machine!Overrun, Machine!TypeOK
  <2> QED
    BY <1>1, <1>3, <2>1, <2>2 DEF Machine!Overrun, Machine!Waiting
<1>11. Machine!Owned(r)'
  BY <1>0, <1>1, <1>3, <1>6, <1>8 DEF InputOne, Machine!Owned, Machine!Fair
<1> QED
  BY <1>3, <1>4, <1>5, <1>6, <1>7, <1>9, <1>10, <1>11, InputStep DEF InputOne

(* A sequence that is stopped releases its button, and is not refused if     *)
(* anything was posted.                                                      *)
LEMMA InputStop ==
    ASSUME Machine!InputInv, NEW r \in Inputs, Machine!Stop(r)
    PROVE  Machine!InputInv'
<1>0. Machine!TypeOK /\ Machine!ButtonHeld /\ InputOne(r)
  BY InputParts
<1>1. /\ current = r /\ req[r].at = "check" /\ marker' \in BOOLEAN
      /\ button' = IF button = r THEN Machine!None ELSE button
      /\ UNCHANGED <<touches, pressed, front, machineLeases, capture, captures, overrun, late, machineClaims>>
  BY <1>0 DEF Machine!Stop, Machine!MustRelease, Machine!store, Machine!TypeOK
<1>2. PICK n : /\ n = events[r] + (IF button = r THEN 1 ELSE 0)
               /\ events' = [events EXCEPT ![r] = n] /\ Machine!Answer(r, Machine!Outcome(r, n))
  BY DEF Machine!Stop, Machine!MustRelease
<1>3. n \in Nat /\ events' \in [Inputs -> Nat] /\ events'[r] = n
      /\ \A s \in Inputs : s # r => events'[s] = events[s]
  BY <1>0, <1>2 DEF Machine!TypeOK
<1>4. PICK what \in {"refused", "unknown", "posted"} :
        /\ Machine!Answer(r, what) /\ what # "posted" /\ (what = "refused" => n = 0)
  BY <1>2 DEF Machine!Outcome
<1>5. /\ req' \in [Inputs -> [at : Machine!Waiting \cup Machine!Posting \cup {"answered"}, lease : Machine!LeaseType,
                             next : 1..4]]
      /\ req'[r].at = "answered" /\ req'[r].lease = req[r].lease
      /\ answer' \in [Inputs -> {Machine!None, "refused", "unknown", "posted"}] /\ answer'[r] = what
      /\ current' = Machine!None
      /\ \A s \in Inputs : s # r => req'[s] = req[s] /\ answer'[s] = answer[s]
  BY <1>0, <1>4, InputAnswer
<1>6. button' = Machine!None
  BY <1>0, <1>1 DEF Machine!ButtonHeld
<1>7. Machine!ButtonHeld'
  BY <1>6 DEF Machine!ButtonHeld
<1>8. Machine!TypeOK'
  BY <1>0, <1>1, <1>3, <1>5, <1>6 DEF Machine!TypeOK
<1>9. InputMoves(r)
  BY <1>1, <1>3, <1>5 DEF InputMoves
<1>10. Machine!Admitted(r) /\ Machine!Spent(r)
  BY <1>1 DEF Machine!Admitted, Machine!Spent, Machine!Posting
<1>11. Machine!Stage(r)'
  BY <1>3, <1>4, <1>5, ActionsAssumption DEF Machine!Stage, Machine!Waiting, Machine!Posting, Machine!None, Machine!InputAssumption
<1>12. Machine!Overrun(r)'
  BY <1>0, <1>1, <1>5 DEF InputOne, Machine!Overrun, Machine!Waiting
<1>13. Machine!Owned(r)'
  BY <1>0, <1>1, <1>5, <1>10 DEF InputOne, Machine!Owned, Machine!Fair
<1> QED
  BY <1>5, <1>7, <1>8, <1>9, <1>10, <1>11, <1>12, <1>13, InputStep DEF InputOne

(* An event: the first that comes after a touch or a cancellation leaves the *)
(* request at a checkpoint that will stop it.                                *)
LEMMA InputPost ==
    ASSUME Machine!InputInv, NEW r \in Inputs, Machine!Post(r)
    PROVE  Machine!InputInv'
<1>0. Machine!TypeOK /\ Machine!ButtonHeld /\ InputOne(r)
  BY InputParts
<1>1. /\ current = r /\ req[r].at = "post"
      /\ events' = [events EXCEPT ![r] = @ + 1]
      /\ UNCHANGED <<touches, pressed, front, marker, machineLeases, capture, captures, late, machineClaims>>
  BY DEF Machine!Post, Machine!machine, Machine!store
<1>2. PICK k, n, e : /\ k = InputKind[r] /\ n = req[r].next /\ e = Machine!Script[k][n]
                     /\ k \in {"move", "type", "click2", "drag"} /\ n \in 1..Len(Machine!Script[k])
                     /\ Len(Machine!Script[k]) \in {1, 4} /\ events[r] + 1 = n
  <2>1. InputKind[r] \in {"move", "type", "click2", "drag"}
    BY ActionsAssumption DEF Machine!InputAssumption
  <2>2. Len(Machine!Script[InputKind[r]]) \in {1, 4}
    BY <2>1, InputScript
  <2>3. req[r].next \in 1..4
    BY <1>0 DEF Machine!TypeOK
  <2> QED
    BY <1>0, <1>1, <2>1, <2>2, <2>3 DEF InputOne, Machine!Stage, Machine!Posting
<1>3. /\ e = "down" => n < Len(Machine!Script[k]) /\ Machine!Down(k, n + 1)
      /\ e # "down" /\ e # "up" /\ Machine!Down(k, n) => n < Len(Machine!Script[k]) /\ Machine!Down(k, n + 1)
  BY <1>2, InputScript
<1>4. button' = IF e = "down" THEN r ELSE IF e = "up" THEN Machine!None ELSE button
  BY <1>2 DEF Machine!Post, Machine!Event
<1>5. /\ overrun' \in [Inputs -> Nat] /\ overrun'[r] \in {0, 1}
      /\ overrun'[r] = 1 => marker \/ touches # req[r].lease.seen
      /\ \A s \in Inputs : s # r => overrun'[s] = overrun[s]
  <2>1. overrun[r] = 0
    BY <1>0, <1>1 DEF InputOne, Machine!Overrun
  <2> QED
    BY <1>0, <2>1 DEF Machine!Post, Machine!TypeOK
<1>6. /\ events' \in [Inputs -> Nat] /\ events'[r] = n
      /\ \A s \in Inputs : s # r => events'[s] = events[s]
  BY <1>0, <1>1, <1>2 DEF Machine!TypeOK
<1>7. Machine!Admitted(r) /\ Machine!Spent(r)
  BY <1>1 DEF Machine!Admitted, Machine!Spent, Machine!Posting
<1>8. CASE n < Len(Machine!Script[k])
  <2>1. req' = [req EXCEPT ![r].at = "check", ![r].next = @ + 1] /\ answer' = answer /\ current' = current
    BY <1>2, <1>8 DEF Machine!Post
  <2>2. n + 1 \in 1..4 /\ n + 1 <= Len(Machine!Script[k])
    <3>1. PICK m \in {1, 4} : m = Len(Machine!Script[k])
      BY <1>2
    <3>2. n \in 1..m /\ n < m
      BY <1>2, <1>8, <3>1
    <3>3. n + 1 \in 1..4 /\ n + 1 <= m
      BY <3>2
    <3> QED
      BY <3>1, <3>3
  <2>3. /\ req' \in [Inputs -> [at : Machine!Waiting \cup Machine!Posting \cup {"answered"}, lease : Machine!LeaseType,
                               next : 1..4]]
        /\ req'[r].at = "check" /\ req'[r].lease = req[r].lease /\ req'[r].next = n + 1
        /\ \A s \in Inputs : s # r => req'[s] = req[s]
    <3>1. PICK A : A = Machine!Waiting \cup Machine!Posting \cup {"answered"}
      OBVIOUS
    <3>2. req \in [Inputs -> [at : A, lease : Machine!LeaseType, next : 1..4]] /\ "check" \in A
      BY <1>0, <3>1 DEF Machine!TypeOK, Machine!Posting
    <3> QED
      BY <1>2, <2>1, <2>2, <3>1, <3>2
  <2>4. Machine!TypeOK'
    BY <1>0, <1>1, <1>4, <1>5, <1>6, <2>1, <2>3 DEF Machine!TypeOK
  <2>5. InputMoves(r)
    BY <1>1, <1>5, <1>6, <2>1, <2>3 DEF InputMoves
  <2>6. Machine!ButtonHeld'
    BY <1>0, <1>1, <1>2, <1>3, <1>4, <2>1, <2>3 DEF Machine!ButtonHeld, Machine!Posting
  <2>7. Machine!Stage(r)'
    BY <1>0, <1>1, <1>2, <1>6, <2>1, <2>2, <2>3 DEF InputOne, Machine!Stage, Machine!Waiting, Machine!Posting, Machine!None
  <2>8. Machine!Overrun(r)'
    BY <1>1, <1>5, <2>3 DEF Machine!Overrun, Machine!Waiting
  <2>9. Machine!Owned(r)'
    BY <1>0, <1>1, <1>7, <2>3 DEF InputOne, Machine!Owned, Machine!Fair
  <2> QED
    BY <1>7, <2>3, <2>4, <2>5, <2>6, <2>7, <2>8, <2>9, InputStep DEF InputOne
<1>9. CASE n = Len(Machine!Script[k])
  <2>1. PICK what \in {"refused", "unknown", "posted"} : Machine!Answer(r, what) /\ what # "refused"
    BY <1>2, <1>9 DEF Machine!Post
  <2>2. /\ req' \in [Inputs -> [at : Machine!Waiting \cup Machine!Posting \cup {"answered"}, lease : Machine!LeaseType,
                               next : 1..4]]
        /\ req'[r].at = "answered" /\ req'[r].lease = req[r].lease
        /\ answer' \in [Inputs -> {Machine!None, "refused", "unknown", "posted"}] /\ answer'[r] = what
        /\ current' = Machine!None
        /\ \A s \in Inputs : s # r => req'[s] = req[s] /\ answer'[s] = answer[s]
    BY <1>0, <2>1, InputAnswer
  <2>3. button' = Machine!None
    <3>1. button # Machine!None => button = r /\ Machine!Down(k, n)
      BY <1>0, <1>1, <1>2 DEF Machine!ButtonHeld
    <3> QED
      BY <1>2, <1>3, <1>4, <1>9, <3>1
  <2>4. Machine!ButtonHeld'
    BY <2>3 DEF Machine!ButtonHeld
  <2>5. Machine!TypeOK'
    BY <1>0, <1>1, <1>5, <1>6, <2>2, <2>3 DEF Machine!TypeOK
  <2>6. InputMoves(r)
    BY <1>1, <1>5, <1>6, <2>2 DEF InputMoves
  <2>7. Machine!Stage(r)'
    BY <1>2, <1>6, <1>9, <2>1, <2>2, ActionsAssumption DEF Machine!Stage, Machine!Waiting, Machine!Posting, Machine!None, Machine!InputAssumption
  <2>8. Machine!Overrun(r)'
    BY <1>5, <2>2 DEF Machine!Overrun, Machine!Waiting
  <2>9. Machine!Owned(r)'
    BY <1>0, <1>1, <1>7, <2>2 DEF InputOne, Machine!Owned, Machine!Fair
  <2> QED
    BY <1>7, <2>2, <2>4, <2>5, <2>6, <2>7, <2>8, <2>9, InputStep DEF InputOne
<1> QED
  BY <1>2, <1>8, <1>9

(* What the machine and the captures do leaves the requests where they are.  *)
LEMMA InputWorld ==
    ASSUME Machine!InputInv, Machine!Touch \/ Machine!SwitchWindow \/ Machine!Cancel \/ Machine!BeginCapture \/ Machine!EndCapture
                     \/ (\E l \in machineLeases : Machine!LeaseExpires(l)) \/ (\E r \in Inputs : Machine!Expire(r))
    PROVE  Machine!InputInv'
<1>0. Machine!TypeOK /\ Machine!ButtonHeld /\ Machine!LeasesHeld /\ Machine!OneEach /\ (\A r \in Inputs : InputOne(r))
  BY InputParts
<1>1. UNCHANGED <<answer, events, overrun, machineClaims, current, req, button>>
  BY DEF Machine!Touch, Machine!SwitchWindow, Machine!Cancel, Machine!BeginCapture, Machine!EndCapture, Machine!LeaseExpires, Machine!Expire, Machine!told, Machine!store, Machine!machine
<1>2. /\ touches' \in Nat /\ touches <= touches' /\ marker' \in BOOLEAN /\ (marker => marker')
      /\ captures' \in Nat /\ capture' \in [on : BOOLEAN, seen : Nat]
      /\ machineLeases' \subseteq Machine!LeaseType /\ Machine!LeasesHeld'
      /\ \A l \in Machine!LeaseType : Machine!Fair(l) => Machine!Fair(l)'
      /\ \A l \in Machine!LeaseType : Machine!Fair(l) /\ (\A m \in machineLeases : m.gen # l.gen) =>
           \A m \in machineLeases' : m.gen # l.gen
  <2>1. CASE Machine!Touch \/ Machine!SwitchWindow \/ Machine!Cancel \/ (\E r \in Inputs : Machine!Expire(r))
    <3>1. UNCHANGED <<machineLeases, capture, captures>> /\ touches' \in {touches, touches + 1}
          /\ marker' \in BOOLEAN /\ (marker => marker')
      BY <1>0, <2>1 DEF Machine!Touch, Machine!SwitchWindow, Machine!Cancel, Machine!Expire, Machine!store, Machine!machine, Machine!TypeOK
    <3>2. touches' \in Nat /\ touches <= touches'
      BY <1>0, <3>1 DEF Machine!TypeOK
    <3>3. \A l \in Machine!LeaseType : Machine!Fair(l) => Machine!Fair(l)'
      BY <1>0, <3>1, <3>2 DEF Machine!Fair, Machine!LeaseType, Machine!TypeOK
    <3>4. capture.seen \in Nat
      BY <1>0 DEF Machine!TypeOK
    <3>5. Machine!LeasesHeld'
      BY <1>0, <3>1, <3>2, <3>3, <3>4 DEF Machine!LeasesHeld, Machine!TypeOK
    <3> QED
      BY <1>0, <3>1, <3>2, <3>3, <3>5 DEF Machine!TypeOK
  <2>2. CASE \E l \in machineLeases : Machine!LeaseExpires(l)
    <3>1. machineLeases' \subseteq machineLeases /\ UNCHANGED <<touches, marker, capture, captures>>
      BY <2>2 DEF Machine!LeaseExpires, Machine!machine
    <3>2. \A l : Machine!Fair(l)' <=> Machine!Fair(l)
      BY <3>1 DEF Machine!Fair
    <3> QED
      BY <1>0, <3>1, <3>2 DEF Machine!LeasesHeld, Machine!TypeOK
  <2>3. CASE Machine!BeginCapture
    <3>1. /\ captures' = captures + 1 /\ capture' = [on |-> TRUE, seen |-> touches]
          /\ UNCHANGED <<touches, marker, machineLeases>>
      BY <2>3 DEF Machine!BeginCapture, Machine!machine
    <3>2. captures' \in Nat /\ capture' \in [on : BOOLEAN, seen : Nat] /\ capture'.seen = touches
      BY <1>0, <3>1 DEF Machine!TypeOK
    <3>3. \A l \in Machine!LeaseType : Machine!Fair(l) => Machine!Fair(l)'
      BY <1>0, <3>1 DEF Machine!Fair, Machine!LeaseType, Machine!TypeOK
    <3>4. Machine!LeasesHeld'
      BY <1>0, <3>1, <3>2, <3>3 DEF Machine!LeasesHeld, Machine!TypeOK
    <3> QED
      BY <1>0, <3>1, <3>2, <3>3, <3>4 DEF Machine!TypeOK
  <2>4. CASE Machine!EndCapture
    <3>1. /\ capture.on /\ capture' = Machine!NoCapture /\ UNCHANGED <<touches, marker, captures>>
      BY <2>4 DEF Machine!EndCapture, Machine!machine
    <3>2. PICK n : n = [gen |-> captures, base |-> capture.seen, seen |-> capture.seen]
      OBVIOUS
    <3>3. machineLeases' \in {machineLeases, machineLeases \cup {n}}
      BY <2>4, <3>2 DEF Machine!EndCapture, Machine!Baseline
    <3>4. capture.seen \in Nat /\ capture.seen <= touches /\ captures \in Nat
      BY <1>0, <3>1 DEF Machine!TypeOK, Machine!LeasesHeld
    <3>5. n \in Machine!LeaseType /\ n.gen = captures /\ n.base = n.seen /\ n.seen <= touches
      BY <3>2, <3>4 DEF Machine!LeaseType
    <3>6. capture' \in [on : BOOLEAN, seen : Nat] /\ ~capture'.on
      BY <3>1 DEF Machine!NoCapture
    <3>7. \A l \in Machine!LeaseType : Machine!Fair(l) => Machine!Fair(l)' /\ l.gen # captures
      BY <3>1, <3>6 DEF Machine!Fair
    <3>8. Machine!Fair(n)'
      BY <3>1, <3>4, <3>5, <3>6 DEF Machine!Fair
    <3>9. Machine!LeasesHeld'
      BY <1>0, <3>3, <3>5, <3>6, <3>7, <3>8 DEF Machine!LeasesHeld, Machine!TypeOK
    <3> QED
      BY <1>0, <3>1, <3>3, <3>5, <3>6, <3>7, <3>9 DEF Machine!TypeOK
  <2> QED
    BY <2>1, <2>2, <2>3, <2>4
<1>3. Machine!TypeOK'
  BY <1>0, <1>1, <1>2 DEF Machine!TypeOK
<1>4. Machine!ButtonHeld' /\ Machine!OneEach'
  BY <1>0, <1>1 DEF Machine!ButtonHeld, Machine!OneEach, Machine!Admitted, Machine!Spent
<1>5. ASSUME NEW r \in Inputs PROVE InputOne(r)'
  <2>1. Machine!Stage(r) /\ Machine!Overrun(r) /\ Machine!Owned(r)
    BY <1>0 DEF InputOne
  <2>2. Machine!Stage(r)'
    BY <1>1, <2>1 DEF Machine!Stage
  <2>3. req[r].lease \in Machine!LeaseType
    BY <1>0 DEF Machine!TypeOK
  <2>4. Machine!Owned(r)'
    BY <1>1, <1>2, <2>1, <2>3 DEF Machine!Owned, Machine!Admitted, Machine!Spent
  <2>5. req[r].at = "check" => req[r].lease.seen <= touches
    BY <2>1 DEF Machine!Owned, Machine!Spent, Machine!Posting, Machine!Fair
  <2>6. Machine!Overrun(r)'
    <3>1. req[r].lease.seen \in Nat /\ touches \in Nat
      BY <1>0, <2>3 DEF Machine!TypeOK, Machine!LeaseType
    <3> QED
      BY <1>1, <1>2, <2>1, <2>5, <3>1 DEF Machine!Overrun
  <2> QED
    BY <2>2, <2>4, <2>6 DEF InputOne
<1> QED
  BY <1>2, <1>3, <1>4, <1>5, InputParts

(* The invariant holds.                                                      *)
THEOREM InputInvariant == Machine!Spec => []Machine!InputInv
<1>1. Machine!Init => Machine!InputInv
  <2> SUFFICES ASSUME Machine!Init PROVE Machine!InputInv
    OBVIOUS
  <2>1. PICK r0 : r0 = [at |-> "sent", lease |-> Machine!NoLease, next |-> 1]
    OBVIOUS
  <2>2. Machine!NoLease \in Machine!LeaseType
    BY DEF Machine!NoLease, Machine!LeaseType
  <2>3. req = [r \in Inputs |-> r0] /\ r0.at = "sent" /\ r0.next = 1
        /\ r0 \in [at : Machine!Waiting \cup Machine!Posting \cup {"answered"}, lease : Machine!LeaseType, next : 1..4]
    BY <2>1, <2>2 DEF Machine!Init, Machine!Waiting
  <2>4. Machine!TypeOK
    BY <2>3 DEF Machine!Init, Machine!TypeOK, Machine!NoCapture
  <2>5. Machine!ButtonHeld /\ Machine!LeasesHeld
    BY DEF Machine!Init, Machine!ButtonHeld, Machine!LeasesHeld, Machine!NoCapture
  <2>6. \A r \in Inputs : ~Machine!Admitted(r) /\ ~Machine!Spent(r)
    BY <2>3 DEF Machine!Init, Machine!Admitted, Machine!Spent, Machine!Posting
  <2>7. Machine!OneEach
    BY <2>6 DEF Machine!OneEach
  <2>8. ASSUME NEW r \in Inputs PROVE InputOne(r)
    <3>1. Machine!Stage(r)
      BY <2>3, ActionsAssumption DEF Machine!Init, Machine!Stage, Machine!Waiting, Machine!Posting, Machine!InputAssumption, Machine!None
    <3>2. Machine!Overrun(r) /\ Machine!Owned(r)
      BY <2>3, <2>6 DEF Machine!Init, Machine!Overrun, Machine!Owned
    <3> QED
      BY <3>1, <3>2 DEF InputOne
  <2> QED
    BY <2>4, <2>5, <2>7, <2>8, InputParts
<1>2. Machine!InputInv /\ [Machine!Next]_(Machine!vars) => Machine!InputInv'
  <2> SUFFICES ASSUME Machine!InputInv, [Machine!Next]_(Machine!vars) PROVE Machine!InputInv'
    OBVIOUS
  <2>1. CASE UNCHANGED Machine!vars
    BY <2>1 DEF Machine!InputInv, Machine!TypeOK, Machine!ButtonHeld, Machine!LeasesHeld, Machine!OneEach, Machine!Stage, Machine!Overrun, Machine!Owned, Machine!Admitted,
                Machine!Spent, Machine!Fair, Machine!vars, Machine!machine, Machine!store, Machine!told
  <2>2. ASSUME NEW r \in Inputs,
               \/ Machine!Receive(r) \/ Machine!CancelledEarly(r) \/ Machine!ResolveFails(r) \/ Machine!Consume(r)
               \/ Machine!Pass(r) \/ Machine!Stop(r) \/ Machine!Post(r) \/ (\E l \in machineLeases : Machine!Resolve(r, l))
        PROVE  Machine!InputInv'
    BY <2>2, InputReceive, InputFails, InputConsume, InputPass, InputStop, InputPost, InputResolve
  <2>3. CASE Machine!Touch \/ Machine!SwitchWindow \/ Machine!Cancel \/ Machine!BeginCapture \/ Machine!EndCapture
             \/ (\E l \in machineLeases : Machine!LeaseExpires(l)) \/ (\E r \in Inputs : Machine!Expire(r))
    BY <2>3, InputWorld
  <2> QED
    BY <2>1, <2>2, <2>3 DEF Machine!Next
<1> QED
  BY <1>1, <1>2, PTL DEF Machine!Spec

(* A takeover strands no button, answers say what was posted, one event at   *)
(* most follows a touch, and leases and action ids serve one request.        *)
THEOREM InputHoldsOfMachine == Machine!Spec => Machine!InputHolds
<1>1. Machine!InputInv => Machine!ButtonReleased /\ Machine!AnswerHonest /\ Machine!TakeoverStops /\ Machine!UsedOnce
  <2> SUFFICES ASSUME Machine!InputInv PROVE Machine!ButtonReleased /\ Machine!AnswerHonest /\ Machine!TakeoverStops /\ Machine!UsedOnce
    OBVIOUS
  <2>1. Machine!ButtonHeld /\ Machine!OneEach /\ (\A r \in Inputs : InputOne(r))
    BY InputParts
  <2>2. Machine!ButtonReleased
    BY <2>1 DEF Machine!ButtonHeld, Machine!ButtonReleased
  <2>3. Machine!AnswerHonest /\ Machine!TakeoverStops
    BY <2>1 DEF InputOne, Machine!Stage, Machine!Overrun, Machine!AnswerHonest, Machine!TakeoverStops
  <2>4. Machine!UsedOnce
    BY <2>1 DEF Machine!OneEach, Machine!UsedOnce, Machine!Admitted, Machine!Spent
  <2> QED
    BY <2>2, <2>3, <2>4
<1>2. Machine!InputInv' => (Machine!ButtonReleased /\ Machine!AnswerHonest /\ Machine!TakeoverStops /\ Machine!UsedOnce)'
  BY <1>1, PTL
<1>3. Machine!InputInv' => [(Machine!ButtonReleased /\ Machine!AnswerHonest /\ Machine!TakeoverStops /\ Machine!UsedOnce)']_(Machine!vars)
  BY <1>2
<1> QED
  BY <1>3, InputInvariant, PTL DEF Machine!InputHolds

(***************************************************************************)
(* The page an input is for.                                               *)
(***************************************************************************)

(* A call that is replaced in the sequence of the calls, and one that is     *)
(* added to it.                                                              *)
LEMMA PageReplaced ==
    ASSUME call \in Seq(Page!CallType), NEW c \in Page!Calls, NEW x \in Page!CallType,
           call' = [call EXCEPT ![c] = x]
    PROVE  /\ call' \in Seq(Page!CallType) /\ Len(call') = Len(call) /\ Page!Calls' = Page!Calls
           /\ call'[c] = x /\ \A d \in Page!Calls : d # c => call'[d] = call[d]
<1>1. c \in 1..Len(call)
  BY DEF Page!Calls
<1>2. /\ call' \in Seq(Page!CallType) /\ Len(call') = Len(call)
      /\ \A d \in 1..Len(call) : call'[d] = IF d = c THEN x ELSE call[d]
  BY <1>1, ExceptSeq
<1> QED
  BY <1>1, <1>2 DEF Page!Calls

LEMMA PageAppended ==
    ASSUME call \in Seq(Page!CallType), NEW x \in Page!CallType, call' = Append(call, x)
    PROVE  /\ Len(call) \in Nat
           /\ call' \in Seq(Page!CallType) /\ Len(call') = Len(call) + 1
           /\ Page!Calls' = Page!Calls \cup {Len(call) + 1} /\ Len(call) + 1 \notin Page!Calls
           /\ call'[Len(call) + 1] = x /\ \A d \in Page!Calls : call'[d] = call[d]
<1>1. Len(call) \in Nat
  BY LenProperties
<1>2. /\ call' \in Seq(Page!CallType) /\ Len(call') = Len(call) + 1
      /\ call'[Len(call) + 1] = x /\ \A d \in 1..Len(call) : call'[d] = call[d]
  OBVIOUS
<1> QED
  BY <1>1, <1>2 DEF Page!Calls

(* The calls are what they are.                                              *)
LEMMA PageCall ==
    ASSUME call \in Seq(Page!CallType), NEW c \in Page!Calls
    PROVE  /\ call[c] \in Page!CallType /\ c \in Nat /\ c # 0 /\ Len(call) \in Nat /\ c <= Len(call)
           /\ call[c] = [task |-> call[c].task, kind |-> call[c].kind, at |-> call[c].at,
                         shot |-> call[c].shot, page |-> call[c].page, nav |-> call[c].nav,
                         proof |-> call[c].proof, live |-> call[c].live]
<1>1. Len(call) \in Nat /\ c \in 1..Len(call)
  BY LenProperties DEF Page!Calls
<1>2. call[c] \in Page!CallType
  BY <1>1, ElementOfSeq
<1> QED
  BY <1>1, <1>2 DEF Page!CallType, Page!CallRecord, Page!Stage

LEMMA PageNone == Page!None \in Page!ShotType /\ Page!None.call = 0 /\ Page!None.page \in Pages
<1>1. (CHOOSE p \in Pages : TRUE) \in Pages
  BY ActionsAssumption DEF Page!PageAssumption
<1> QED
  BY <1>1 DEF Page!None, Page!ShotType

LEMMA PageParts ==
    /\ Page!PageInv <=>
         /\ Page!TypeOK /\ Page!Bonds /\ Page!Posted /\ Page!InputsBound
         /\ (\A c \in Page!Calls : Page!CaptureHeld(c) /\ Page!ExecuteHeld(c)) /\ (\A t \in PageTasks : Page!RunHeld(t))
    /\ Page!PageInv' <=>
         /\ Page!TypeOK' /\ Page!Bonds' /\ Page!Posted' /\ Page!InputsBound'
         /\ (\A c \in Page!Calls' : Page!CaptureHeld(c)' /\ Page!ExecuteHeld(c)')
         /\ (\A t \in PageTasks : Page!RunHeld(t)')
  BY DEF Page!PageInv, Page!Calls

(* Screenshots and proofs come from where they were, or from call c.         *)
PageFrom(c) ==
  /\ \A s \in Page!Shots' : s \in Page!Shots \/ s.call = 0 \/ s.call = c
  /\ \A p \in Page!Proofs' : p \in Page!Proofs \/ p.call = 0 \/ p.call = c

(* What a step of the operator in call c leaves of another call.             *)
LEMMA PageOther ==
    ASSUME Page!PageInv, NEW c \in Nat, PageFrom(c), NEW d \in Page!Calls, d # c, call'[d] = call[d],
           UNCHANGED <<page, navs, pageRevision>>, d \in pageLeases' => d \in pageLeases,
           call[d].kind = "execute" /\ Page!Waits(d)' /\ call[d].live /\ Page!Waits(d) =>
             /\ run'[call[d].task].at = run[call[d].task].at
             /\ run'[call[d].task].live = run[call[d].task].live,
           Page!Waits(d)' => Page!Waits(d)
    PROVE  Page!CaptureHeld(d)' /\ Page!ExecuteHeld(d)'
<1>0. Page!TypeOK /\ Page!CaptureHeld(d) /\ Page!ExecuteHeld(d)
  BY PageParts
<1>1. d \in Nat /\ d # 0
  BY <1>0, PageCall DEF Page!TypeOK
<1>2. /\ \A s \in Page!Shots' : s.call = d => s \in Page!Shots
      /\ \A p \in Page!Proofs' : p.call = d => p \in Page!Proofs
  BY <1>1 DEF PageFrom
<1>3. \A n, p, q : Page!ReadThenSeen(n, p, q)' <=> Page!ReadThenSeen(n, p, q)
  BY DEF Page!ReadThenSeen
<1>4. Page!CaptureHeld(d)'
  <2> SUFFICES ASSUME call[d].kind = "capture" PROVE Page!CaptureHeld(d)'
    BY DEF Page!CaptureHeld
  <2>1. call[d].at \in {"open", "pixels"} =>
          d \notin pageLeases' /\ \A s \in Page!Shots' \cup Page!Proofs' : s.call # d
    BY <1>0, <1>2 DEF Page!CaptureHeld
  <2>2. call[d].at = "pixels" => Page!ReadThenSeen(call[d].nav, call[d].page, page)'
    BY <1>0 DEF Page!CaptureHeld, Page!ReadThenSeen
  <2>3. call[d].at = "store" =>
         /\ call[d].shot.call = d
         /\ \A p \in Page!Proofs' : p.call # d
         /\ \A s \in Page!Shots' : s.call = d => s = call[d].shot
    BY <1>0, <1>2 DEF Page!CaptureHeld
  <2>4. call[d].at = "store" => Page!ReadThenSeen(call[d].nav, call[d].page, call[d].shot.page)'
    BY <1>0 DEF Page!CaptureHeld, Page!ReadThenSeen
  <2> QED
    BY <2>1, <2>2, <2>3, <2>4 DEF Page!CaptureHeld
<1>5. Page!ExecuteHeld(d)'
  BY <1>0 DEF Page!ExecuteHeld, Page!OwnProof
<1> QED
  BY <1>4, <1>5

(* Screenshots that meet no new proof, and proofs that meet no new one.      *)
LEMMA PageBonds ==
    ASSUME Page!PageInv, UNCHANGED <<page, navs>>, Len(call') \in Nat, Len(call) \in Nat, Len(call) <= Len(call'),
           \A s \in Page!Shots' : s \in Page!Shots \/ s.call = 0, \A p \in Page!Proofs' : p \in Page!Proofs \/ p.call = 0,
           \A s \in Page!Shots \cup Page!Proofs : s.call \in Nat
    PROVE  Page!Bonds'
<1>1. Page!Bonds
  BY PageParts
<1>2. \A s \in Page!Shots' \cup Page!Proofs' : s.call <= Len(call')
  BY <1>1 DEF Page!Bonds
<1>3. \A n, p, q : Page!ReadThenSeen(n, p, q)' <=> Page!ReadThenSeen(n, p, q)
  BY DEF Page!ReadThenSeen
<1>4. ASSUME NEW p \in Page!Proofs', NEW s \in Page!Shots', p.call # 0, p.call = s.call
      PROVE  Page!ReadThenSeen(p.nav, p.page, s.page)'
  <2>1. Page!ReadThenSeen(p.nav, p.page, s.page)
    BY <1>1, <1>4 DEF Page!Bonds
  <2> QED
    BY <2>1 DEF Page!ReadThenSeen
<1> QED
  BY <1>2, <1>4 DEF Page!Bonds

(* Screenshots and proofs have a number for a call.                          *)
LEMMA PageNumbers ==
    ASSUME Page!TypeOK
    PROVE  \A s \in Page!Shots \cup Page!Proofs : s \in Page!ShotType /\ s.call \in Nat /\ s.page \in Pages
<1>1. \A c \in Page!Calls : call[c] \in Page!CallType
  BY PageCall DEF Page!TypeOK
<1>2. \A s \in Page!Shots \cup Page!Proofs : s \in Page!ShotType
  BY <1>1 DEF Page!Shots, Page!Proofs, Page!TypeOK, Page!CallType, Page!CallRecord, Page!Stage, Page!RunType
<1> QED
  BY <1>2 DEF Page!ShotType

(* The runtime changes one run, to one without a call.                       *)
LEMMA PageRun ==
    ASSUME Page!PageInv, NEW t \in PageTasks, NEW x \in Page!RunType, run' = [run EXCEPT ![t] = x],
           x.shot \in {Page!None, taken[t]}, x.call = 0, x.at = "run" /\ x.live => x.rev = pageRevision,
           UNCHANGED <<page, navs, pageRevision, taken, call, evidence, pageLeases, inputs>>
    PROVE  Page!PageInv'
<1>0. /\ Page!TypeOK /\ Page!Bonds /\ Page!Posted /\ Page!InputsBound
      /\ (\A c \in Page!Calls : Page!CaptureHeld(c) /\ Page!ExecuteHeld(c)) /\ (\A u \in PageTasks : Page!RunHeld(u))
  BY PageParts
<1>1. Page!TypeOK' /\ Page!Calls' = Page!Calls
  BY <1>0 DEF Page!TypeOK, Page!Calls
<1>2. run'[t] = x /\ \A u \in PageTasks : u # t => run'[u] = run[u]
  BY <1>0 DEF Page!TypeOK
<1>3. (\A s \in Page!Shots' : s \in Page!Shots \/ s = Page!None) /\ Page!Proofs' = Page!Proofs
  BY <1>1, <1>2 DEF Page!Shots, Page!Proofs
<1>4. (\A s \in Page!Shots' : s \in Page!Shots \/ s.call = 0)
  BY <1>3, PageNone
<1>5. Len(call) \in Nat
  BY <1>0, LenProperties DEF Page!TypeOK
<1>6. Page!Bonds'
  BY <1>0, <1>3, <1>4, <1>5, PageBonds, PageNumbers
<1>7. ASSUME NEW d \in Page!Calls PROVE Page!CaptureHeld(d)' /\ Page!ExecuteHeld(d)'
  <2>1. d # 0 /\ call[d] \in Page!CallType
    BY <1>0, PageCall DEF Page!TypeOK
  <2>2. call[d].task \in PageTasks
    BY <2>1 DEF Page!CallType, Page!CallRecord, Page!Stage
  <2>3. Page!Waits(d)' => run'[call[d].task] = run[call[d].task] /\ Page!Waits(d)
    BY <1>2, <2>1, <2>2 DEF Page!Waits
  <2>4. PageFrom(0)
    BY <1>3, <1>4 DEF PageFrom
  <2> QED
    BY <2>1, <2>3, <2>4, PageOther
<1>8. ASSUME NEW u \in PageTasks PROVE Page!RunHeld(u)'
  BY <1>0, <1>2, <1>5 DEF Page!RunHeld
<1>9. Page!Posted' /\ Page!InputsBound'
  <2>1. Page!Posted'
    BY <1>0, <1>1 DEF Page!Posted
  <2>2. Page!InputsBound'
    BY <1>0 DEF Page!InputsBound, Page!LeaseOnce
  <2> QED
    BY <2>1, <2>2
<1> QED
  BY <1>1, <1>6, <1>7, <1>8, <1>9, PageParts

(* A run begins, a screenshot is asked for, and a run ends.                  *)
LEMMA PageBegin ==
    ASSUME Page!PageInv, NEW t \in PageTasks, Page!Begin(t) \/ Page!BeginCapture(t) \/ Page!End(t)
    PROVE  Page!PageInv'
<1>0. Page!TypeOK
  BY PageParts
<1>1. PICK x : /\ run' = [run EXCEPT ![t] = x]
               /\ \/ x = [Page!Off EXCEPT !.at = "run", !.rev = pageRevision, !.live = TRUE,
                                     !.shot = IF pageFresh THEN Page!None ELSE taken[t]]
                  \/ x = [Page!Off EXCEPT !.at = "take", !.live = TRUE]
                  \/ x = Page!Off
  BY DEF Page!Begin, Page!BeginCapture, Page!End
<1>2. UNCHANGED <<page, navs, pageRevision, taken, call, evidence, pageLeases, inputs>>
  BY DEF Page!Begin, Page!BeginCapture, Page!End, Page!window, Page!authority, Page!operator
<1>3. \/ x = [at |-> "run", rev |-> pageRevision, live |-> TRUE,
              shot |-> IF pageFresh THEN Page!None ELSE taken[t], call |-> 0]
      \/ x = [at |-> "take", rev |-> 0, live |-> TRUE, shot |-> Page!None, call |-> 0]
      \/ x = [at |-> "off", rev |-> 0, live |-> FALSE, shot |-> Page!None, call |-> 0]
  BY <1>1 DEF Page!Off
<1>4. taken[t] \in Page!ShotType /\ pageRevision \in Nat
  BY <1>0 DEF Page!TypeOK
<1>5. x \in Page!RunType /\ x.shot \in {Page!None, taken[t]} /\ x.call = 0
      /\ (x.at = "run" /\ x.live => x.rev = pageRevision)
  <2>1. PICK s \in Page!ShotType : s \in {Page!None, taken[t]} /\ s = IF pageFresh THEN Page!None ELSE taken[t]
    BY <1>4, PageNone
  <2>2. CASE x = [at |-> "run", rev |-> pageRevision, live |-> TRUE, shot |-> s, call |-> 0]
    BY <1>4, <2>1, <2>2 DEF Page!RunType
  <2>3. CASE \E a \in {"take", "off"}, l \in BOOLEAN : x = [at |-> a, rev |-> 0, live |-> l, shot |-> Page!None, call |-> 0]
    BY <2>3, PageNone DEF Page!RunType
  <2> QED
    BY <1>3, <2>1, <2>2, <2>3
<1> QED
  BY <1>1, <1>2, <1>5, PageRun

(* A call of the operator begins with what its run has.                      *)
LEMMA PageAsk ==
    ASSUME Page!PageInv, NEW t \in PageTasks, Page!AskCapture(t) \/ Page!AskExecute(t)
    PROVE  Page!PageInv'
<1>0. /\ Page!TypeOK /\ Page!Bonds /\ Page!Posted /\ Page!InputsBound
      /\ (\A c \in Page!Calls : Page!CaptureHeld(c) /\ Page!ExecuteHeld(c)) /\ (\A u \in PageTasks : Page!RunHeld(u))
  BY PageParts
<1>1. PICK kind \in {"capture", "execute"} :
        /\ Page!Ask(t, kind) /\ run[t].call = 0 /\ run[t].live
        /\ kind = "execute" => run[t].at = "run"
  BY DEF Page!AskCapture, Page!AskExecute
<1>2. UNCHANGED <<page, navs, pageRevision, taken, evidence, pageLeases, inputs>>
  BY DEF Page!AskCapture, Page!AskExecute, Page!window, Page!authority, Page!operator
<1>3. PICK x : x = [task |-> t, kind |-> kind, at |-> "open", shot |-> run[t].shot,
                    page |-> page, nav |-> 0, proof |-> Page!None, live |-> run[t].live]
  OBVIOUS
<1>4. x \in Page!CallType /\ run[t] \in Page!RunType
  BY <1>0, <1>3, PageNone DEF Page!TypeOK, Page!RunType, Page!CallType, Page!CallRecord, Page!Stage
<1>5. /\ Len(call) \in Nat
      /\ call' \in Seq(Page!CallType) /\ Len(call') = Len(call) + 1
      /\ Page!Calls' = Page!Calls \cup {Len(call) + 1} /\ Len(call) + 1 \notin Page!Calls
      /\ call'[Len(call) + 1] = x /\ \A d \in Page!Calls : call'[d] = call[d]
  BY <1>0, <1>1, <1>3, <1>4, PageAppended DEF Page!Ask, Page!TypeOK
<1>6. PICK n \in Nat : n = Len(call) + 1
  BY <1>5
<1>7. /\ run' = [run EXCEPT ![t].call = n]
      /\ run'[t].call = n /\ run'[t].at = run[t].at /\ run'[t].live = run[t].live
      /\ run'[t].rev = run[t].rev /\ run'[t].shot = run[t].shot /\ run'[t] \in Page!RunType
      /\ \A u \in PageTasks : u # t => run'[u] = run[u]
  BY <1>0, <1>1, <1>4, <1>6 DEF Page!Ask, Page!TypeOK, Page!RunType
<1>8. Page!TypeOK'
  BY <1>0, <1>2, <1>5, <1>7 DEF Page!TypeOK
<1>9. Page!Shots' \subseteq Page!Shots /\ \A p \in Page!Proofs' : p \in Page!Proofs \/ p = Page!None
  <2>1. x.shot = run[t].shot /\ x.proof = Page!None
    BY <1>3
  <2>2. \A u \in PageTasks : run'[u].shot = run[u].shot
    BY <1>7
  <2> QED
    BY <1>2, <1>5, <2>1, <2>2 DEF Page!Shots, Page!Proofs
<1>10. \A p \in Page!Proofs' : p \in Page!Proofs \/ p.call = 0
  BY <1>9, PageNone
<1>11. Page!Bonds'
  BY <1>0, <1>2, <1>5, <1>9, <1>10, PageBonds, PageNumbers
<1>12. ASSUME NEW d \in Page!Calls PROVE Page!CaptureHeld(d)' /\ Page!ExecuteHeld(d)'
  <2>1. d # 0 /\ call[d] \in Page!CallType /\ d # n
    BY <1>0, <1>5, <1>6, PageCall DEF Page!TypeOK
  <2>2. call[d].task \in PageTasks /\ call'[d] = call[d]
    BY <1>5, <2>1 DEF Page!CallType, Page!CallRecord, Page!Stage
  <2>3. Page!Waits(d)' => run'[call[d].task] = run[call[d].task] /\ Page!Waits(d)
    BY <1>7, <2>1, <2>2 DEF Page!Waits
  <2>4. PageFrom(0)
    BY <1>9, <1>10 DEF PageFrom
  <2> QED
    BY <1>2, <2>1, <2>2, <2>3, <2>4, PageOther
<1>13. Page!CaptureHeld(n)' /\ Page!ExecuteHeld(n)'
  <2>1. call'[n] = x /\ x.kind = kind /\ x.at = "open" /\ x.task = t /\ n \notin Page!Calls
    BY <1>3, <1>5, <1>6
  <2>2. \A s \in Page!Shots' \cup Page!Proofs' : s.call # n
    <3>1. \A s \in Page!Shots \cup Page!Proofs : s.call <= Len(call) /\ s.call \in Nat
      BY <1>0, PageNumbers DEF Page!Bonds
    <3>2. \A s \in Page!Shots \cup Page!Proofs : s.call # n
      BY <1>5, <1>6, <3>1
    <3>3. n # 0
      BY <1>5, <1>6
    <3> QED
      BY <1>9, <1>10, <3>2, <3>3
  <2>3. n \notin pageLeases'
    BY <1>0, <1>2, <2>1 DEF Page!TypeOK
  <2>4. Page!CaptureHeld(n)'
    BY <2>1, <2>2, <2>3 DEF Page!CaptureHeld
  <2>5. Page!ExecuteHeld(n)'
    BY <1>1, <1>7, <2>1 DEF Page!ExecuteHeld
  <2> QED
    BY <2>4, <2>5
<1>14. ASSUME NEW u \in PageTasks PROVE Page!RunHeld(u)'
  <2>1. Page!RunHeld(u) /\ run[u].call \in Nat
    BY <1>0 DEF Page!TypeOK, Page!RunType
  <2>2. run'[u].call <= Len(call')
    BY <1>5, <1>6, <1>7, <2>1 DEF Page!RunHeld
  <2>3. run'[u].at = run[u].at /\ run'[u].live = run[u].live /\ run'[u].rev = run[u].rev
    BY <1>7
  <2> QED
    BY <1>2, <2>1, <2>2, <2>3 DEF Page!RunHeld
<1>15. Page!Posted'
  <2>1. ASSUME NEW i \in DOMAIN inputs PROVE inputs[i].shot.call # n
    BY <1>0, <1>5, <1>6 DEF Page!Posted
  <2> QED
    BY <1>0, <1>2, <1>5, <1>6, <2>1 DEF Page!Posted
<1>16. Page!InputsBound'
  BY <1>0, <1>2 DEF Page!InputsBound, Page!LeaseOnce
<1> QED
  BY <1>5, <1>6, <1>8, <1>11, <1>12, <1>13, <1>14, <1>15, <1>16, PageParts

(* The screenshots and the proofs when call c becomes x and a run at most    *)
(* forgets its call.                                                         *)
Answered(c) ==
  run' \in [PageTasks -> Page!RunType] /\
  \A u \in PageTasks :
    /\ run'[u].at = run[u].at /\ run'[u].live = run[u].live /\ run'[u].rev = run[u].rev
    /\ run'[u].shot = run[u].shot /\ run'[u].call \in {run[u].call, 0}

LEMMA PageOne ==
    ASSUME Page!TypeOK, NEW c \in Page!Calls, NEW x \in Page!CallType, call' = [call EXCEPT ![c] = x],
           Answered(c), UNCHANGED <<taken, evidence>>
    PROVE  /\ call' \in Seq(Page!CallType) /\ Len(call') = Len(call) /\ Page!Calls' = Page!Calls
           /\ call'[c] = x /\ (\A d \in Page!Calls : d # c => call'[d] = call[d])
           /\ Page!Shots' \subseteq Page!Shots \cup {x.shot} /\ Page!Proofs' \subseteq Page!Proofs \cup {x.proof}
<1>1. /\ call' \in Seq(Page!CallType) /\ Len(call') = Len(call) /\ Page!Calls' = Page!Calls
      /\ call'[c] = x /\ (\A d \in Page!Calls : d # c => call'[d] = call[d])
  BY PageReplaced DEF Page!TypeOK
<1>2. \A u \in PageTasks : run'[u].shot = run[u].shot
  BY DEF Answered
<1>3. Page!Shots' \subseteq Page!Shots \cup {x.shot}
  BY <1>1, <1>2 DEF Page!Shots
<1>4. Page!Proofs' \subseteq Page!Proofs \cup {x.proof}
  BY <1>1 DEF Page!Proofs
<1> QED
  BY <1>1, <1>3, <1>4

(* A step of call c that takes no new screenshot and stores no proof.        *)
LEMMA PageStep ==
    ASSUME Page!PageInv, NEW c \in Page!Calls, NEW x \in Page!CallType, call' = [call EXCEPT ![c] = x],
           Answered(c), pageLeases' \subseteq pageLeases,
           x.shot \in Page!Shots \cup {Page!None}, x.proof \in Page!Proofs \cup {Page!None},
           UNCHANGED <<page, navs, pageRevision, taken, evidence>>,
           Page!CaptureHeld(c)' /\ Page!ExecuteHeld(c)', Page!Posted' /\ Page!InputsBound' /\ inputs' \in Seq(Page!InputType)
    PROVE  Page!PageInv'
<1>0. /\ Page!TypeOK /\ Page!Bonds /\ Page!Posted /\ Page!InputsBound
      /\ (\A d \in Page!Calls : Page!CaptureHeld(d) /\ Page!ExecuteHeld(d)) /\ (\A u \in PageTasks : Page!RunHeld(u))
  BY PageParts
<1>1. /\ call' \in Seq(Page!CallType) /\ Len(call') = Len(call) /\ Page!Calls' = Page!Calls
      /\ call'[c] = x /\ (\A d \in Page!Calls : d # c => call'[d] = call[d])
      /\ Page!Shots' \subseteq Page!Shots \cup {x.shot} /\ Page!Proofs' \subseteq Page!Proofs \cup {x.proof}
  BY <1>0, PageOne
<1>2. c \in Nat /\ Len(call) \in Nat
  BY <1>0, PageCall DEF Page!TypeOK
<1>3. Page!TypeOK'
  BY <1>0, <1>1 DEF Page!TypeOK, Answered
<1>4. (\A s \in Page!Shots' : s \in Page!Shots \/ s.call = 0) /\ (\A p \in Page!Proofs' : p \in Page!Proofs \/ p.call = 0)
  BY <1>1, PageNone
<1>5. Page!Bonds'
  BY <1>0, <1>1, <1>2, <1>4, PageBonds, PageNumbers
<1>6. ASSUME NEW d \in Page!Calls, d # c PROVE Page!CaptureHeld(d)' /\ Page!ExecuteHeld(d)'
  <2>1. d # 0 /\ call[d] \in Page!CallType /\ call'[d] = call[d]
    BY <1>0, <1>1, <1>6, PageCall DEF Page!TypeOK
  <2>2. call[d].task \in PageTasks
    BY <2>1 DEF Page!CallType, Page!CallRecord, Page!Stage
  <2>3. /\ Page!Waits(d)' => Page!Waits(d)
        /\ run'[call[d].task].at = run[call[d].task].at
        /\ run'[call[d].task].live = run[call[d].task].live
    BY <2>1, <2>2 DEF Page!Waits, Answered
  <2>4. PageFrom(c)
    BY <1>4 DEF PageFrom
  <2> QED
    BY <1>2, <1>6, <2>1, <2>3, <2>4, PageOther
<1>7. ASSUME NEW u \in PageTasks PROVE Page!RunHeld(u)'
  <2>1. Page!RunHeld(u) /\ run[u].call \in Nat
    BY <1>0 DEF Page!TypeOK, Page!RunType
  <2>2. /\ run'[u].at = run[u].at /\ run'[u].live = run[u].live /\ run'[u].rev = run[u].rev
        /\ run'[u].call \in {run[u].call, 0}
    BY DEF Answered
  <2>3. run'[u].call <= Len(call')
    BY <1>1, <1>2, <2>1, <2>2 DEF Page!RunHeld
  <2> QED
    BY <2>1, <2>2, <2>3 DEF Page!RunHeld
<1> QED
  BY <1>1, <1>3, <1>5, <1>6, <1>7, PageParts

(* Nothing was posted.                                                       *)
LEMMA PageQuiet ==
    ASSUME Page!PageInv, NEW c \in Page!Calls, NEW x \in Page!CallType, call' = [call EXCEPT ![c] = x],
           pageLeases' \subseteq pageLeases, UNCHANGED inputs,
           x.kind = "capture" /\ x.at \in {"open", "pixels"} =>
             call[c].kind = "capture" /\ call[c].at \in {"open", "pixels"}
    PROVE  Page!Posted' /\ Page!InputsBound' /\ inputs' \in Seq(Page!InputType)
<1>0. Page!TypeOK /\ Page!Posted /\ Page!InputsBound
  BY PageParts
<1>1. Page!Calls' = Page!Calls /\ call'[c] = x /\ (\A d \in Page!Calls : d # c => call'[d] = call[d])
  BY <1>0, PageReplaced DEF Page!TypeOK
<1>2. Page!Posted'
  BY <1>0, <1>1 DEF Page!Posted
<1>3. Page!InputsBound'
  BY <1>0 DEF Page!InputsBound, Page!LeaseOnce
<1> QED
  BY <1>0, <1>2, <1>3 DEF Page!TypeOK

(* What is over.                                                             *)
LEMMA PageOver ==
    ASSUME Page!TypeOK, NEW c \in Page!Calls, NEW at \in {"done", "failed"}
    PROVE  /\ Page!Over(c, at) \in Page!CallType /\ Page!Over(c, at).kind = "over"
           /\ Page!Over(c, at).shot = Page!None /\ Page!Over(c, at).proof = Page!None
<1>1. call[c].task \in PageTasks
  BY PageCall DEF Page!TypeOK, Page!CallType, Page!CallRecord, Page!Stage
<1> QED
  BY <1>1, PageNone DEF Page!Over, Page!CallType, Page!CallRecord, Page!Stage

(* A call ends, with or without its session, and nothing else happens.       *)
LEMMA PageEnds ==
    ASSUME Page!PageInv, NEW c \in Page!Calls, NEW at \in {"done", "failed"}, Page!Go(c, at), Answered(c),
           pageLeases' \subseteq pageLeases, UNCHANGED <<page, navs, pageRevision, taken, evidence, inputs>>
    PROVE  Page!PageInv'
<1>0. Page!TypeOK
  BY PageParts
<1>1. PICK x \in Page!CallType : x = Page!Over(c, at)
  BY <1>0, PageOver
<1>2. call' = [call EXCEPT ![c] = x] /\ x.kind = "over" /\ x.shot = Page!None /\ x.proof = Page!None
  BY <1>0, <1>1, PageOver DEF Page!Go
<1>3. call'[c] = x
  BY <1>0, <1>2, PageReplaced DEF Page!TypeOK
<1>4. Page!CaptureHeld(c)' /\ Page!ExecuteHeld(c)'
  BY <1>2, <1>3 DEF Page!CaptureHeld, Page!ExecuteHeld
<1>5. Page!Posted' /\ Page!InputsBound' /\ inputs' \in Seq(Page!InputType)
  BY <1>2, PageQuiet
<1> QED
  BY <1>2, <1>4, <1>5, PageStep

(* A run that stays has answered nothing.                                    *)
LEMMA PageStays == ASSUME Page!TypeOK, NEW c, UNCHANGED run PROVE Answered(c)
  BY DEF Answered, Page!TypeOK

(* The address is read, of a capture and of an input.                        *)
LEMMA PageRead ==
    ASSUME Page!PageInv, NEW c \in Page!Calls, Page!Read(c)
    PROVE  Page!PageInv'
<1>0. /\ Page!TypeOK /\ Page!Bonds /\ Page!Posted /\ Page!InputsBound
      /\ (\A d \in Page!Calls : Page!CaptureHeld(d) /\ Page!ExecuteHeld(d)) /\ (\A u \in PageTasks : Page!RunHeld(u))
  BY PageParts
<1>1. UNCHANGED <<page, navs, pageRevision, run, taken, evidence, pageLeases, inputs>> /\ Answered(c)
  BY <1>0, PageStays DEF Page!Read, Page!window, Page!authority, Page!operator
<1>2. CASE Page!Go(c, "failed")
  BY <1>1, <1>2, PageEnds
<1>3. ASSUME Page!Expected(c),
             call' = [call EXCEPT ![c].at = IF call[c].kind = "capture" THEN "pixels" ELSE "post",
                                  ![c].page = page, ![c].nav = navs]
      PROVE  Page!PageInv'
  <2>1. /\ call[c] \in Page!CallType /\ c \in Nat /\ c # 0
        /\ call[c] = [task |-> call[c].task, kind |-> call[c].kind, at |-> call[c].at,
                      shot |-> call[c].shot, page |-> call[c].page, nav |-> call[c].nav,
                      proof |-> call[c].proof, live |-> call[c].live]
    BY <1>0, PageCall DEF Page!TypeOK
  <2>2. PICK x : x = [call[c] EXCEPT !.at = IF call[c].kind = "capture" THEN "pixels" ELSE "post",
                                     !.page = page, !.nav = navs]
    OBVIOUS
  <2>3. call' = [call EXCEPT ![c] = x]
    BY <1>3, <2>2
  <2>4. /\ x.task = call[c].task /\ x.kind = call[c].kind /\ x.shot = call[c].shot
        /\ x.proof = call[c].proof /\ x.live = call[c].live /\ x.page = page /\ x.nav = navs
        /\ x.at = (IF call[c].kind = "capture" THEN "pixels" ELSE "post")
        /\ x \in Page!CallType
    <3>1. call[c] \in Page!CallRecord /\ Page!Stage(call[c])
      BY <2>1 DEF Page!CallType
    <3>2. x = [task |-> call[c].task, kind |-> call[c].kind,
               at |-> IF call[c].kind = "capture" THEN "pixels" ELSE "post",
               shot |-> call[c].shot, page |-> page, nav |-> navs,
               proof |-> call[c].proof, live |-> call[c].live]
      BY <2>1, <2>2
    <3>3. call[c].kind # "capture" => call[c].kind = "execute"
      BY <3>1 DEF Page!Read, Page!At, Page!Stage
    <3>4. x \in Page!CallRecord
      BY <1>0, <3>1, <3>2 DEF Page!TypeOK, Page!CallRecord
    <3>5. Page!Stage(x)
      BY <3>2, <3>3 DEF Page!Stage
    <3> QED
      BY <3>2, <3>4, <3>5 DEF Page!CallType
  <2>5. /\ Page!Calls' = Page!Calls /\ call'[c] = x
        /\ Page!Shots' \subseteq Page!Shots \cup {x.shot} /\ Page!Proofs' \subseteq Page!Proofs \cup {x.proof}
    BY <1>0, <1>1, <2>3, <2>4, PageOne
  <2>6. x.shot \in Page!Shots /\ x.proof \in Page!Proofs
    BY <2>4 DEF Page!Shots, Page!Proofs
  <2>7. Page!Posted' /\ Page!InputsBound' /\ inputs' \in Seq(Page!InputType)
    BY <1>1, <2>3, <2>4, PageQuiet DEF Page!Read, Page!At
  <2>8. Page!CaptureHeld(c)'
    <3> SUFFICES ASSUME call[c].kind = "capture" PROVE Page!CaptureHeld(c)'
      BY <2>4, <2>5 DEF Page!CaptureHeld
    <3>1. call[c].at = "open"
      BY DEF Page!Read, Page!At
    <3>2. c \notin pageLeases' /\ \A s \in Page!Shots' \cup Page!Proofs' : s.call # c
      BY <1>0, <1>1, <2>5, <2>6, <3>1 DEF Page!CaptureHeld
    <3>3. Page!ReadThenSeen(x.nav, x.page, page)'
      BY <1>0, <1>1, <2>4 DEF Page!ReadThenSeen, Page!TypeOK
    <3>4. x.at = "pixels"
      BY <2>4
    <3> QED
      BY <1>1, <2>5, <3>2, <3>3, <3>4 DEF Page!CaptureHeld, Page!ReadThenSeen
  <2>9. Page!ExecuteHeld(c)'
    <3> SUFFICES ASSUME call[c].kind = "execute" PROVE Page!ExecuteHeld(c)'
      BY <2>4, <2>5 DEF Page!ExecuteHeld
    <3>1. call[c].at = "read" /\ Page!ExecuteHeld(c)
      BY <1>0 DEF Page!Read, Page!At
    <3>2. x.proof.call # 0 /\ page \in AllowedPages /\ page = x.proof.page
      BY <1>3, <2>4, <3>1 DEF Page!ExecuteHeld, Page!Expected
    <3>3. x.nav <= navs'
      BY <1>0, <1>1, <2>4 DEF Page!TypeOK
    <3>4. Page!OwnProof(x) /\ x.nav <= x.proof.nav + 1 => x.shot.page = x.proof.page
      <4> SUFFICES ASSUME x.proof.call = x.shot.call, x.nav <= x.proof.nav + 1
                   PROVE  x.shot.page = x.proof.page
        BY DEF Page!OwnProof
      <4>1. Page!ReadThenSeen(x.proof.nav, x.proof.page, x.shot.page)
        BY <1>0, <2>6, <3>2 DEF Page!Bonds
      <4>2. x.proof.nav \in Nat /\ navs \in Nat
        BY <1>0, <2>4 DEF Page!TypeOK, Page!CallType, Page!CallRecord, Page!Stage, Page!ShotType
      <4>3. navs = x.proof.nav \/ navs = x.proof.nav + 1
        BY <2>4, <4>1, <4>2 DEF Page!ReadThenSeen
      <4> QED
        BY <3>2, <4>1, <4>3 DEF Page!ReadThenSeen
    <3>5. Page!Waits(c)' => Page!Waits(c)
      BY <1>1, <2>4, <2>5 DEF Page!Waits
    <3>6. Page!Waits(c) /\ x.live =>
            /\ run[x.task].at = "run" /\ run[x.task].live
            /\ x.proof.rev = pageRevision
      BY <2>4, <3>1 DEF Page!ExecuteHeld
    <3> QED
      BY <1>1, <2>4, <2>5, <3>2, <3>3, <3>4, <3>5, <3>6 DEF Page!ExecuteHeld, Page!OwnProof
  <2> QED
    BY <1>1, <2>3, <2>4, <2>6, <2>7, <2>8, <2>9, PageStep
<1> QED
  BY <1>2, <1>3 DEF Page!Read, Page!Lose

(* An input finds the proof of its task.                                     *)
LEMMA PageProve ==
    ASSUME Page!PageInv, NEW c \in Page!Calls, Page!Prove(c)
    PROVE  Page!PageInv'
<1>0. /\ Page!TypeOK /\ Page!Bonds /\ Page!Posted /\ Page!InputsBound
      /\ (\A d \in Page!Calls : Page!CaptureHeld(d) /\ Page!ExecuteHeld(d)) /\ (\A u \in PageTasks : Page!RunHeld(u))
  BY PageParts
<1>1. UNCHANGED <<page, navs, pageRevision, run, taken, evidence, pageLeases, inputs>> /\ Answered(c)
  BY <1>0, PageStays DEF Page!Prove, Page!window, Page!authority, Page!operator
<1>2. CASE Page!Go(c, "failed")
  BY <1>1, <1>2, PageEnds
<1>3. ASSUME Page!Proof(c) # Page!None, call' = [call EXCEPT ![c].at = "read", ![c].proof = Page!Proof(c)]
      PROVE  Page!PageInv'
  <2>1. /\ call[c] \in Page!CallType /\ c \in Nat /\ c # 0
        /\ call[c] = [task |-> call[c].task, kind |-> call[c].kind, at |-> call[c].at,
                      shot |-> call[c].shot, page |-> call[c].page, nav |-> call[c].nav,
                      proof |-> call[c].proof, live |-> call[c].live]
        /\ call[c].task \in PageTasks
    BY <1>0, PageCall DEF Page!TypeOK, Page!CallType, Page!CallRecord, Page!Stage
  <2>2. PICK x : x = [call[c] EXCEPT !.at = "read", !.proof = evidence[call[c].task]]
    OBVIOUS
  <2>3. call' = [call EXCEPT ![c] = x]
    BY <1>3, <2>2 DEF Page!Proof
  <2>4. /\ x.task = call[c].task /\ x.kind = call[c].kind /\ x.shot = call[c].shot
        /\ x.proof = evidence[call[c].task] /\ x.live = call[c].live /\ x.at = "read"
        /\ x \in Page!CallType
    <3>1. x = [task |-> call[c].task, kind |-> call[c].kind, at |-> "read",
               shot |-> call[c].shot, page |-> call[c].page, nav |-> call[c].nav,
               proof |-> evidence[call[c].task], live |-> call[c].live]
      BY <2>1, <2>2
    <3>2. x \in Page!CallRecord
      BY <1>0, <2>1, <3>1 DEF Page!TypeOK, Page!CallType, Page!CallRecord
    <3>3. Page!Stage(x)
      BY <3>1 DEF Page!Stage, Page!Prove
    <3> QED
      BY <3>1, <3>2, <3>3 DEF Page!CallType
  <2>5. /\ Page!Calls' = Page!Calls /\ call'[c] = x
    BY <1>0, <1>1, <2>3, <2>4, PageOne
  <2>6. x.shot \in Page!Shots /\ x.proof \in Page!Proofs /\ x.kind = "execute"
    BY <2>1, <2>4 DEF Page!Shots, Page!Proofs, Page!Prove
  <2>7. Page!Posted' /\ Page!InputsBound' /\ inputs' \in Seq(Page!InputType)
    BY <1>1, <2>3, <2>4, <2>6, PageQuiet
  <2>8. Page!CaptureHeld(c)'
    BY <2>5, <2>6 DEF Page!CaptureHeld
  <2>9. Page!ExecuteHeld(c)'
    <3>1. Page!ExecuteHeld(c) /\ Page!RunHeld(x.task)
      BY <1>0, <2>1, <2>4
    <3>2. x.proof.call # 0 /\ x.proof.rev = pageRevision
      BY <1>3, <2>4, <3>1 DEF Page!RunHeld, Page!Proof
    <3>3. Page!Waits(c)' => Page!Waits(c)
      BY <1>1, <2>4, <2>5 DEF Page!Waits
    <3>4. Page!Waits(c) /\ x.live => run[x.task].at = "run" /\ run[x.task].live
      BY <2>4, <2>6, <3>1 DEF Page!ExecuteHeld
    <3> QED
      BY <1>1, <2>4, <2>5, <3>2, <3>3, <3>4 DEF Page!ExecuteHeld
  <2> QED
    BY <1>1, <2>3, <2>4, <2>6, <2>7, <2>8, <2>9, PageStep
<1> QED
  BY <1>2, <1>3 DEF Page!Prove, Page!Lose

(* An input is posted, or not.                                               *)
LEMMA PagePost ==
    ASSUME Page!PageInv, NEW c \in Page!Calls, Page!Post(c)
    PROVE  Page!PageInv'
<1>0. /\ Page!TypeOK /\ Page!Bonds /\ Page!Posted /\ Page!InputsBound
      /\ (\A d \in Page!Calls : Page!CaptureHeld(d) /\ Page!ExecuteHeld(d)) /\ (\A u \in PageTasks : Page!RunHeld(u))
  BY PageParts
<1>1. UNCHANGED <<page, navs, pageRevision, taken, evidence>> /\ Page!At(c, "post")
  BY DEF Page!Post, Page!window, Page!authority
<1>2. call[c] \in Page!CallType /\ call[c].task \in PageTasks /\ c \in Nat /\ c # 0
  BY <1>0, PageCall DEF Page!TypeOK, Page!CallType, Page!CallRecord, Page!Stage
<1>3. Answered(c)
  <2>1. \A u \in PageTasks : run[u] \in Page!RunType
    BY <1>0 DEF Page!TypeOK
  <2>2. CASE run' = run
    BY <1>0, <2>2, PageStays
  <2>3. CASE run' = [run EXCEPT ![call[c].task].call = 0]
    <3>1. run' \in [PageTasks -> Page!RunType]
      BY <1>0, <1>2, <2>1, <2>3 DEF Page!TypeOK, Page!RunType
    <3>2. ASSUME NEW u \in PageTasks
          PROVE  /\ run'[u].at = run[u].at /\ run'[u].live = run[u].live /\ run'[u].rev = run[u].rev
                 /\ run'[u].shot = run[u].shot /\ run'[u].call \in {run[u].call, 0}
      BY <1>0, <2>1, <2>3 DEF Page!TypeOK, Page!RunType
    <3> QED
      BY <3>1, <3>2 DEF Answered
  <2> QED
    BY <2>2, <2>3 DEF Page!Post
<1>4. CASE Page!Go(c, "failed") /\ UNCHANGED <<inputs, pageLeases>>
  BY <1>1, <1>3, <1>4, PageEnds
<1>5. ASSUME call[c].live, call[c].shot.call \in pageLeases, pageLeases' = Page!Spent(c), Page!Go(c, "done"),
             inputs' = Append(inputs, [task |-> call[c].task, shot |-> call[c].shot, proof |-> call[c].proof,
                                       read |-> call[c].nav, page |-> page, nav |-> navs, rev |-> pageRevision,
                                       awaited |-> Page!Waits(c), at |-> run[call[c].task].rev])
      PROVE  Page!PageInv'
  <2>1. PICK x \in Page!CallType : x = Page!Over(c, "done")
    BY <1>0, PageOver
  <2>2. call' = [call EXCEPT ![c] = x] /\ x.kind = "over" /\ x.shot = Page!None /\ x.proof = Page!None
    BY <1>0, <1>5, <2>1, PageOver DEF Page!Go
  <2>3. Page!Calls' = Page!Calls /\ call'[c] = x /\ (\A d \in Page!Calls : d # c => call'[d] = call[d])
    BY <1>0, <2>2, PageReplaced DEF Page!TypeOK
  <2>4. Page!CaptureHeld(c)' /\ Page!ExecuteHeld(c)'
    BY <2>2, <2>3 DEF Page!CaptureHeld, Page!ExecuteHeld
  <2>5. PICK i : i = [task |-> call[c].task, shot |-> call[c].shot, proof |-> call[c].proof,
                      read |-> call[c].nav, page |-> page, nav |-> navs, rev |-> pageRevision,
                      awaited |-> Page!Waits(c), at |-> run[call[c].task].rev]
    OBVIOUS
  <2>6. inputs' = Append(inputs, i)
    BY <1>5, <2>5
  <2>7. i \in Page!InputType
    <3>1. run[call[c].task] \in Page!RunType /\ page \in Pages /\ navs \in Nat /\ pageRevision \in Nat
      BY <1>0, <1>2 DEF Page!TypeOK
    <3>2. Page!Waits(c) \in BOOLEAN
      BY DEF Page!Waits
    <3> QED
      BY <1>2, <2>5, <3>1, <3>2 DEF Page!InputType, Page!CallType, Page!CallRecord, Page!Stage, Page!RunType
  <2>8. /\ inputs' \in Seq(Page!InputType) /\ DOMAIN inputs' = DOMAIN inputs \cup {Len(inputs) + 1}
        /\ Len(inputs) + 1 \notin DOMAIN inputs /\ inputs'[Len(inputs) + 1] = i
        /\ \A j \in DOMAIN inputs : inputs'[j] = inputs[j]
    BY <1>0, <2>6, <2>7 DEF Page!TypeOK
  <2>9. PICK n : n = Len(inputs) + 1
    OBVIOUS
  <2>10. i.shot.call \in pageLeases /\ i.shot.call \in Page!Calls /\ i.shot.call \notin pageLeases' /\ pageLeases' \subseteq pageLeases
    BY <1>0, <1>5, <2>5 DEF Page!TypeOK, Page!Spent
  <2>11. Page!Posted'
    <3>1. ASSUME NEW j \in DOMAIN inputs
          PROVE  /\ inputs[j].shot.call \in Page!Calls' \ pageLeases'
                 /\ \A d \in Page!Calls' : call'[d].kind = "capture" /\ call'[d].at \in {"open", "pixels"} =>
                      inputs[j].shot.call # d
      BY <1>0, <2>2, <2>3, <2>10 DEF Page!Posted
    <3>2. \A d \in Page!Calls' : call'[d].kind = "capture" /\ call'[d].at \in {"open", "pixels"} => i.shot.call # d
      BY <1>0, <2>2, <2>3, <2>10 DEF Page!CaptureHeld
    <3> QED
      BY <2>3, <2>8, <2>9, <2>10, <3>1, <3>2 DEF Page!Posted
  <2>12. Page!PageOfItsShot(i) /\ Page!PageOfItsTask(i) /\ Page!ControlOfItsRun(i)
    <3>1. call[c].kind = "execute"
      BY <1>1, <1>2 DEF Page!At, Page!CallType, Page!Stage
    <3> QED
      BY <1>0, <1>1, <1>2, <1>5, <2>5, <3>1 DEF Page!ExecuteHeld, Page!RunHeld, Page!At, Page!PageOfItsShot, Page!PageOfItsTask,
         Page!ControlOfItsRun, Page!OwnProof
  <2>13. Page!InputsBound'
    <3>1. \A j \in DOMAIN inputs' : Page!PageOfItsShot(inputs'[j]) /\ Page!PageOfItsTask(inputs'[j]) /\ Page!ControlOfItsRun(inputs'[j])
      BY <1>0, <2>8, <2>12 DEF Page!InputsBound
    <3>2. \A j \in DOMAIN inputs : inputs[j].shot.call # i.shot.call
      BY <1>0, <2>10 DEF Page!Posted
    <3>3. Page!LeaseOnce'
      BY <1>0, <2>8, <2>9, <3>2 DEF Page!InputsBound, Page!LeaseOnce
    <3> QED
      BY <3>1, <3>3 DEF Page!InputsBound
  <2> QED
    BY <1>1, <1>3, <2>2, <2>4, <2>8, <2>10, <2>11, <2>13, PageStep
<1> QED
  BY <1>4, <1>5 DEF Page!Post

(* A new screenshot, which no proof is of yet.                               *)
LEMMA PagePixels ==
    ASSUME Page!PageInv, NEW c \in Page!Calls, Page!Pixels(c)
    PROVE  Page!PageInv'
<1>0. /\ Page!TypeOK /\ Page!Bonds /\ Page!Posted /\ Page!InputsBound
      /\ (\A d \in Page!Calls : Page!CaptureHeld(d) /\ Page!ExecuteHeld(d)) /\ (\A u \in PageTasks : Page!RunHeld(u))
  BY PageParts
<1>1. UNCHANGED <<page, navs, pageRevision, run, taken, evidence, inputs>> /\ Answered(c) /\ Page!At(c, "pixels")
  BY <1>0, PageStays DEF Page!Pixels, Page!window, Page!authority
<1>2. CASE Page!Go(c, "failed") /\ UNCHANGED pageLeases
  BY <1>1, <1>2, PageEnds
<1>3. ASSUME call' = [call EXCEPT ![c].at = "store", ![c].shot = [Page!None EXCEPT !.call = c, !.page = page]],
             pageLeases' = pageLeases \cup {c}
      PROVE  Page!PageInv'
  <2>1. /\ call[c] \in Page!CallType /\ c \in Nat /\ c # 0 /\ Len(call) \in Nat /\ c <= Len(call)
        /\ call[c] = [task |-> call[c].task, kind |-> call[c].kind, at |-> call[c].at,
                      shot |-> call[c].shot, page |-> call[c].page, nav |-> call[c].nav,
                      proof |-> call[c].proof, live |-> call[c].live]
        /\ call[c] \in Page!CallRecord /\ call[c].kind = "capture" /\ call[c].at = "pixels"
    BY <1>0, <1>1, PageCall DEF Page!TypeOK, Page!At, Page!CallType, Page!Stage
  <2>2. PICK s : s = [call |-> c, page |-> page, nav |-> 0, rev |-> 0]
    OBVIOUS
  <2>3. s = [Page!None EXCEPT !.call = c, !.page = page] /\ s \in Page!ShotType /\ s.call = c /\ s.page = page
    <3>1. s = [Page!None EXCEPT !.call = c, !.page = page]
      <4>1. PICK q : q = CHOOSE r \in Pages : TRUE
        OBVIOUS
      <4>2. Page!None = [call |-> 0, page |-> q, nav |-> 0, rev |-> 0]
        BY <4>1 DEF Page!None
      <4>3. PICK n : n = Page!None
        OBVIOUS
      <4>4. n = [call |-> 0, page |-> q, nav |-> 0, rev |-> 0]
        BY <4>2, <4>3
      <4>5. PICK m : m = [n EXCEPT !.call = c, !.page = page]
        OBVIOUS
      <4>6. m = [call |-> c, page |-> page, nav |-> 0, rev |-> 0]
        BY <4>4, <4>5
      <4> QED
        BY <2>2, <4>3, <4>5, <4>6
    <3>2. s \in Page!ShotType
      BY <1>0, <2>1, <2>2 DEF Page!ShotType, Page!TypeOK
    <3> QED
      BY <2>2, <3>1, <3>2
  <2>4. PICK x : x = [call[c] EXCEPT !.at = "store", !.shot = s]
    OBVIOUS
  <2>5. call' = [call EXCEPT ![c] = x]
    BY <1>3, <2>3, <2>4
  <2>6. /\ x.task = call[c].task /\ x.kind = "capture" /\ x.shot = s
        /\ x.proof = call[c].proof /\ x.live = call[c].live /\ x.at = "store"
        /\ x.page = call[c].page /\ x.nav = call[c].nav /\ x \in Page!CallType
    <3>1. x = [task |-> call[c].task, kind |-> call[c].kind, at |-> "store",
               shot |-> s, page |-> call[c].page, nav |-> call[c].nav,
               proof |-> call[c].proof, live |-> call[c].live]
      BY <2>1, <2>4
    <3>2. x \in Page!CallRecord
      BY <2>1, <2>3, <3>1 DEF Page!CallRecord
    <3>3. Page!Stage(x)
      BY <2>1, <3>1 DEF Page!Stage
    <3> QED
      BY <2>1, <3>1, <3>2, <3>3 DEF Page!CallType
  <2>7. /\ call' \in Seq(Page!CallType) /\ Len(call') = Len(call) /\ Page!Calls' = Page!Calls /\ call'[c] = x
        /\ (\A d \in Page!Calls : d # c => call'[d] = call[d])
        /\ Page!Shots' \subseteq Page!Shots \cup {s} /\ Page!Proofs' \subseteq Page!Proofs
    <3>1. x.proof \in Page!Proofs
      BY <2>6 DEF Page!Proofs
    <3> QED
      BY <1>0, <1>1, <2>5, <2>6, <3>1, PageOne
  <2>8. Page!TypeOK'
    BY <1>0, <1>1, <1>3, <2>7 DEF Page!TypeOK
  <2>9. PageFrom(c)
    BY <2>3, <2>7 DEF PageFrom
  <2>10. c \notin pageLeases /\ (\A r \in Page!Shots \cup Page!Proofs : r.call # c) /\ Page!ReadThenSeen(x.nav, x.page, page)
    BY <1>0, <2>1, <2>6 DEF Page!CaptureHeld
  <2>11. Page!Bonds'
    <3>1. \A r \in Page!Shots' \cup Page!Proofs' : r.call <= Len(call')
      BY <1>0, <2>1, <2>3, <2>7 DEF Page!Bonds
    <3>2. ASSUME NEW p \in Page!Proofs', NEW r \in Page!Shots', p.call # 0, p.call = r.call
          PROVE  Page!ReadThenSeen(p.nav, p.page, r.page)'
      <4>1. p \in Page!Proofs /\ p.call # c
        BY <2>7, <2>10
      <4>2. r \in Page!Shots
        BY <2>3, <2>7, <3>2, <4>1
      <4>3. Page!ReadThenSeen(p.nav, p.page, r.page)
        BY <1>0, <3>2, <4>1, <4>2 DEF Page!Bonds
      <4> QED
        BY <1>1, <4>3 DEF Page!ReadThenSeen
    <3> QED
      BY <3>1, <3>2 DEF Page!Bonds
  <2>12. Page!CaptureHeld(c)' /\ Page!ExecuteHeld(c)'
    <3>1. (\A p \in Page!Proofs' : p.call # c) /\ (\A r \in Page!Shots' : r.call = c => r = s)
      BY <2>7, <2>10
    <3>2. Page!CaptureHeld(c)'
      BY <1>1, <2>3, <2>6, <2>7, <2>10, <3>1 DEF Page!CaptureHeld, Page!ReadThenSeen
    <3>3. Page!ExecuteHeld(c)'
      BY <2>6, <2>7 DEF Page!ExecuteHeld
    <3> QED
      BY <3>2, <3>3
  <2>13. ASSUME NEW d \in Page!Calls, d # c PROVE Page!CaptureHeld(d)' /\ Page!ExecuteHeld(d)'
    <3>1. call'[d] = call[d]
      BY <2>7, <2>13
    <3>2. Page!Waits(d)' <=> Page!Waits(d)
      BY <1>1, <3>1 DEF Page!Waits
    <3>3. d \in pageLeases' => d \in pageLeases
      BY <1>3, <2>13
    <3> QED
      BY <1>1, <2>1, <2>9, <2>13, <3>1, <3>2, <3>3, PageOther
  <2>14. ASSUME NEW u \in PageTasks PROVE Page!RunHeld(u)'
    BY <1>0, <1>1, <2>7 DEF Page!RunHeld
  <2>15. Page!Posted'
    <3>1. ASSUME NEW i \in DOMAIN inputs
          PROVE  /\ inputs[i].shot.call \in Page!Calls \ pageLeases /\ inputs[i].shot.call # c
                 /\ \A d \in Page!Calls' : call'[d].kind = "capture" /\ call'[d].at \in {"open", "pixels"} =>
                      inputs[i].shot.call # d
      BY <1>0, <2>1, <2>6, <2>7 DEF Page!Posted
    <3> QED
      BY <1>1, <1>3, <2>7, <3>1 DEF Page!Posted
  <2>16. Page!InputsBound'
    BY <1>0, <1>1 DEF Page!InputsBound, Page!LeaseOnce
  <2> QED
    BY <2>7, <2>8, <2>11, <2>12, <2>13, <2>14, <2>15, <2>16, PageParts
<1> QED
  BY <1>2, <1>3 DEF Page!Pixels

(* A capture stores its proof.                                               *)
LEMMA PageStore ==
    ASSUME Page!PageInv, NEW c \in Page!Calls, Page!Store(c)
    PROVE  Page!PageInv'
<1>0. /\ Page!TypeOK /\ Page!Bonds /\ Page!Posted /\ Page!InputsBound
      /\ (\A d \in Page!Calls : Page!CaptureHeld(d) /\ Page!ExecuteHeld(d)) /\ (\A u \in PageTasks : Page!RunHeld(u))
  BY PageParts
<1>1. UNCHANGED <<page, navs, pageRevision, pageLeases, inputs>> /\ Page!At(c, "store")
  BY DEF Page!Store, Page!window, Page!authority
<1>2. PICK at \in {"done", "failed"} : at = IF connected THEN "done" ELSE "failed"
  OBVIOUS
<1>3. Page!Go(c, at)
  BY <1>2 DEF Page!Store
<1>4. CASE UNCHANGED <<run, taken, evidence>>
  BY <1>0, <1>1, <1>3, <1>4, PageEnds, PageStays
<1>5. PICK t : t = call[c].task
  OBVIOUS
<1>6. PICK s : s = call[c].shot
  OBVIOUS
<1>7. /\ call[c] \in Page!CallType /\ call[c] \in Page!CallRecord /\ c \in Nat /\ c # 0
      /\ Len(call) \in Nat /\ c <= Len(call)
      /\ call[c].kind = "capture" /\ call[c].at = "store" /\ t \in PageTasks /\ s \in Page!ShotType /\ s \in Page!Shots
  BY <1>0, <1>1, <1>5, <1>6, PageCall DEF Page!TypeOK, Page!At, Page!CallType, Page!Stage, Page!CallRecord, Page!Shots
<1>8. PICK p : p = [call |-> c, page |-> call[c].page, nav |-> call[c].nav, rev |-> pageRevision]
  OBVIOUS
<1>9. p \in Page!ShotType /\ p.call = c /\ p.rev = pageRevision /\ p.page = call[c].page /\ p.nav = call[c].nav
  BY <1>0, <1>7, <1>8 DEF Page!TypeOK, Page!CallRecord, Page!ShotType
<1>10. ASSUME evidence' = Page!EvidenceOf(c),
              \/ UNCHANGED <<run, taken>>
              \/ run' = [run EXCEPT ![t] = Page!Off] /\ UNCHANGED taken
              \/ run' = [run EXCEPT ![t] = Page!Off] /\ taken' = [taken EXCEPT ![t] = s]
              \/ run' = [run EXCEPT ![t].shot = s, ![t].call = 0] /\ UNCHANGED taken
       PROVE  Page!PageInv'
  <2>1. PICK x \in Page!CallType : x = Page!Over(c, at)
    BY <1>0, PageOver
  <2>2. call' = [call EXCEPT ![c] = x] /\ x.kind = "over" /\ x.shot = Page!None /\ x.proof = Page!None
    BY <1>0, <1>3, <2>1, PageOver DEF Page!Go
  <2>3. /\ call' \in Seq(Page!CallType) /\ Len(call') = Len(call) /\ Page!Calls' = Page!Calls /\ call'[c] = x
        /\ (\A d \in Page!Calls : d # c => call'[d] = call[d])
    BY <1>0, <2>2, PageReplaced DEF Page!TypeOK
  <2>4. evidence' = [evidence EXCEPT ![t] = p]
    BY <1>5, <1>8, <1>10 DEF Page!EvidenceOf
  <2>5. /\ evidence' \in [PageTasks -> Page!ShotType] /\ evidence'[t] = p
        /\ \A u \in PageTasks : u # t => evidence'[u] = evidence[u]
    BY <1>0, <1>7, <1>9, <2>4 DEF Page!TypeOK
  <2>6. /\ taken' \in [PageTasks -> Page!ShotType]
        /\ \A u \in PageTasks : taken'[u] \in {taken[u], s}
    BY <1>0, <1>7, <1>10 DEF Page!TypeOK
  <2>7. /\ Page!Off \in Page!RunType /\ Page!Off.at = "off" /\ Page!Off.call = 0 /\ Page!Off.shot = Page!None
    BY PageNone DEF Page!Off, Page!RunType
  <2>8. /\ run' \in [PageTasks -> Page!RunType]
        /\ \A u \in PageTasks :
             \/ run'[u] = run[u] \/ run'[u] = Page!Off
             \/ /\ run'[u].at = run[u].at /\ run'[u].live = run[u].live /\ run'[u].rev = run[u].rev
                /\ run'[u].shot = s /\ run'[u].call = 0
    <3>1. CASE run' = run
      BY <1>0, <3>1 DEF Page!TypeOK
    <3>2. CASE run' = [run EXCEPT ![t] = Page!Off]
      BY <1>0, <1>7, <2>7, <3>2 DEF Page!TypeOK
    <3>3. CASE run' = [run EXCEPT ![t].shot = s, ![t].call = 0]
      <4>1. run[t] \in Page!RunType
        BY <1>0, <1>7 DEF Page!TypeOK
      <4>2. PICK r : r = [run[t] EXCEPT !.shot = s, !.call = 0]
        OBVIOUS
      <4>3. run' = [run EXCEPT ![t] = r]
        BY <3>3, <4>2
      <4>4. /\ r.at = run[t].at /\ r.live = run[t].live /\ r.rev = run[t].rev /\ r.shot = s /\ r.call = 0
            /\ r \in Page!RunType
        BY <1>7, <4>1, <4>2 DEF Page!RunType
      <4> QED
        BY <1>0, <1>7, <4>3, <4>4 DEF Page!TypeOK
    <3> QED
      BY <1>10, <3>1, <3>2, <3>3
  <2>9. Page!TypeOK'
    BY <1>0, <1>1, <2>3, <2>5, <2>6, <2>8 DEF Page!TypeOK
  <2>10. Page!Shots' \subseteq Page!Shots \cup {Page!None}
    <3>1. \A u \in PageTasks : run'[u].shot \in Page!Shots \cup {Page!None}
      BY <1>7, <2>7, <2>8 DEF Page!Shots
    <3>2. \A u \in PageTasks : taken'[u] \in Page!Shots
      BY <1>7, <2>6 DEF Page!Shots
    <3>3. \A d \in Page!Calls' : call'[d].shot \in Page!Shots \cup {Page!None}
      BY <2>2, <2>3 DEF Page!Shots
    <3> QED
      BY <3>1, <3>2, <3>3 DEF Page!Shots
  <2>11. Page!Proofs' \subseteq Page!Proofs \cup {Page!None, p}
    <3>1. \A u \in PageTasks : evidence'[u] \in Page!Proofs \cup {p}
      BY <2>5 DEF Page!Proofs
    <3>2. \A d \in Page!Calls' : call'[d].proof \in Page!Proofs \cup {Page!None}
      BY <2>2, <2>3 DEF Page!Proofs
    <3> QED
      BY <3>1, <3>2 DEF Page!Proofs
  <2>12. PageFrom(c)
    BY <1>9, <2>10, <2>11, PageNone DEF PageFrom
  <2>13. /\ s.call = c /\ Page!ReadThenSeen(p.nav, p.page, s.page)
         /\ \A r \in Page!Shots : r.call = c => r = s
    BY <1>0, <1>6, <1>7, <1>9 DEF Page!CaptureHeld
  <2>14. Page!Bonds'
    <3>1. \A r \in Page!Shots' \cup Page!Proofs' : r.call <= Len(call')
      BY <1>0, <1>7, <1>9, <2>3, <2>10, <2>11, PageNone DEF Page!Bonds
    <3>2. ASSUME NEW q \in Page!Proofs', NEW r \in Page!Shots', q.call # 0, q.call = r.call
          PROVE  Page!ReadThenSeen(q.nav, q.page, r.page)'
      <4>1. r \in Page!Shots
        BY <2>10, <3>2, PageNone
      <4>2. Page!ReadThenSeen(q.nav, q.page, r.page)
        BY <1>0, <1>9, <2>11, <2>13, <3>2, <4>1, PageNone DEF Page!Bonds
      <4> QED
        BY <1>1, <4>2 DEF Page!ReadThenSeen
    <3> QED
      BY <3>1, <3>2 DEF Page!Bonds
  <2>15. Page!CaptureHeld(c)' /\ Page!ExecuteHeld(c)'
    BY <2>2, <2>3 DEF Page!CaptureHeld, Page!ExecuteHeld
  <2>16. ASSUME NEW d \in Page!Calls, d # c PROVE Page!CaptureHeld(d)' /\ Page!ExecuteHeld(d)'
    <3>1. call'[d] = call[d] /\ call[d] \in Page!CallType /\ d # 0
      BY <1>0, <2>3, <2>16, PageCall DEF Page!TypeOK
    <3>2. call[d].task \in PageTasks
      BY <3>1 DEF Page!CallType, Page!CallRecord
    <3>3. Page!Waits(d)' => Page!Waits(d) /\ run'[call[d].task] = run[call[d].task]
      BY <2>7, <2>8, <3>1, <3>2 DEF Page!Waits
    <3> QED
      BY <1>1, <1>7, <2>12, <2>16, <3>1, <3>3, PageOther
  <2>17. ASSUME NEW u \in PageTasks PROVE Page!RunHeld(u)'
    <3>1. Page!RunHeld(u) /\ run[u].call <= Len(call)
      BY <1>0 DEF Page!RunHeld
    <3>2. run'[u].call <= Len(call')
      BY <1>7, <2>3, <2>7, <2>8, <3>1
    <3>3. run'[u].at = "run" /\ run'[u].live => run'[u].rev = pageRevision'
      BY <1>1, <2>7, <2>8, <3>1 DEF Page!RunHeld
    <3>4. evidence'[u] # Page!None => evidence'[u].call # 0 /\ evidence'[u].rev = pageRevision'
      BY <1>1, <1>7, <1>9, <2>5, <3>1 DEF Page!RunHeld
    <3> QED
      BY <3>2, <3>3, <3>4 DEF Page!RunHeld
  <2>18. Page!Posted' /\ Page!InputsBound'
    BY <1>0, <1>1, <2>2, PageQuiet
  <2> QED
    BY <2>3, <2>9, <2>14, <2>15, <2>16, <2>17, <2>18, PageParts
<1>11. CASE ~connected
  BY <1>4, <1>11 DEF Page!Store
<1>12. CASE connected
  <2>1. evidence' = Page!EvidenceOf(c)
    BY <1>12 DEF Page!Store
  <2>2. CASE ~Page!Waits(c) \/ ~run[t].live
    BY <1>5, <1>10, <1>12, <2>1, <2>2 DEF Page!Store
  <2>3. CASE Page!Waits(c) /\ run[t].live /\ run[t].at = "take"
    <3>1. /\ run' = [run EXCEPT ![t] = Page!Off]
          /\ taken' = [taken EXCEPT ![t] = IF pageControl = "running" THEN s ELSE taken[t]]
      BY <1>5, <1>6, <1>12, <2>3 DEF Page!Store
    <3>2. pageControl # "running" => taken' = taken
      BY <1>0, <3>1 DEF Page!TypeOK
    <3> QED
      BY <1>10, <2>1, <3>1, <3>2
  <2>4. CASE Page!Waits(c) /\ run[t].live /\ run[t].at # "take"
    BY <1>5, <1>6, <1>10, <1>12, <2>1, <2>4 DEF Page!Store
  <2> QED
    BY <2>2, <2>3, <2>4
<1> QED
  BY <1>11, <1>12

(* The control changes: the proofs go, and the runs that have a call.        *)
LEMMA PageControl ==
    ASSUME Page!PageInv, Page!ChangeControl
    PROVE  Page!PageInv'
<1>0. /\ Page!TypeOK /\ Page!Bonds /\ Page!Posted /\ Page!InputsBound
      /\ (\A d \in Page!Calls : Page!CaptureHeld(d) /\ Page!ExecuteHeld(d)) /\ (\A u \in PageTasks : Page!RunHeld(u))
  BY PageParts
<1>1. UNCHANGED <<page, navs, taken, pageLeases, inputs>> /\ pageRevision' = pageRevision + 1
  BY DEF Page!ChangeControl, Page!window
<1>2. ASSUME NEW d \in Page!Calls
      PROVE  /\ call[d] \in Page!CallRecord /\ Page!Stage(call[d]) /\ d # 0 /\ call[d].task \in PageTasks
             /\ call[d] = [task |-> call[d].task, kind |-> call[d].kind, at |-> call[d].at,
                           shot |-> call[d].shot, page |-> call[d].page, nav |-> call[d].nav,
                           proof |-> call[d].proof, live |-> call[d].live]
  <2>1. /\ call[d] \in Page!CallType /\ d # 0
        /\ call[d] = [task |-> call[d].task, kind |-> call[d].kind, at |-> call[d].at,
                      shot |-> call[d].shot, page |-> call[d].page, nav |-> call[d].nav,
                      proof |-> call[d].proof, live |-> call[d].live]
    BY <1>0, PageCall DEF Page!TypeOK
  <2> QED
    BY <2>1 DEF Page!CallType, Page!CallRecord
<1>3. /\ Len(call) \in Nat /\ Page!Calls = 1..Len(call)
      /\ call' = [d \in Page!Calls |-> [call[d] EXCEPT !.live = @ /\ ~(Page!Waits(d) /\ run[call[d].task].at = "run")]]
  BY <1>0, LenProperties DEF Page!TypeOK, Page!Calls, Page!ChangeControl, Page!Aborted
<1>4. ASSUME NEW d \in Page!Calls
      PROVE  /\ call'[d].task = call[d].task /\ call'[d].kind = call[d].kind /\ call'[d].at = call[d].at
             /\ call'[d].shot = call[d].shot /\ call'[d].page = call[d].page /\ call'[d].nav = call[d].nav
             /\ call'[d].proof = call[d].proof
             /\ call'[d].live => call[d].live /\ ~(Page!Waits(d) /\ run[call[d].task].at = "run")
             /\ call'[d] \in Page!CallType
  <2>1. PICK l \in BOOLEAN : l = (call[d].live /\ ~(Page!Waits(d) /\ run[call[d].task].at = "run"))
    OBVIOUS
  <2>2. call'[d] = [task |-> call[d].task, kind |-> call[d].kind, at |-> call[d].at,
                    shot |-> call[d].shot, page |-> call[d].page, nav |-> call[d].nav,
                    proof |-> call[d].proof, live |-> l]
    <3>1. call'[d] = [call[d] EXCEPT !.live = call[d].live /\ ~(Page!Waits(d) /\ run[call[d].task].at = "run")]
      BY <1>3, Zenon
    <3>2. call'[d] = [call[d] EXCEPT !.live = l]
      BY <2>1, <3>1, Zenon
    <3> QED
      BY <1>2, <3>2
  <2>3. call[d] \in Page!CallRecord /\ Page!Stage(call[d])
    BY <1>2
  <2>4. call'[d] \in Page!CallRecord
    BY <2>1, <2>2, <2>3 DEF Page!CallRecord
  <2>5. Page!Stage(call'[d])
    BY <2>2, <2>3 DEF Page!Stage
  <2>6. call'[d].live = l /\ call'[d] \in Page!CallType
    BY <2>2, <2>4, <2>5 DEF Page!CallType
  <2>7. call'[d].live => call[d].live /\ ~(Page!Waits(d) /\ run[call[d].task].at = "run")
    BY <2>1, <2>6, Zenon
  <2>8. /\ call'[d].task = call[d].task /\ call'[d].kind = call[d].kind /\ call'[d].at = call[d].at
        /\ call'[d].shot = call[d].shot /\ call'[d].page = call[d].page /\ call'[d].nav = call[d].nav
        /\ call'[d].proof = call[d].proof
    BY <2>2
  <2> QED
    BY <2>6, <2>7, <2>8
<1>5. call' \in Seq(Page!CallType) /\ Len(call') = Len(call) /\ Page!Calls' = Page!Calls
  <2>1. call' \in [1..Len(call) -> Page!CallType]
    BY <1>3, <1>4
  <2>2. call' \in Seq(Page!CallType)
    BY <1>3, <2>1, SeqDef
  <2>3. Len(call') = Len(call)
    BY <1>3, <2>1, <2>2, LenProperties
  <2> QED
    BY <2>2, <2>3 DEF Page!Calls
<1>6. ASSUME NEW u \in PageTasks
      PROVE  /\ run'[u].at = run[u].at /\ run'[u].rev = run[u].rev /\ run'[u].shot = run[u].shot
             /\ run'[u].call = run[u].call
             /\ run'[u].at = "run" => ~run'[u].live
             /\ run'[u] \in Page!RunType
  <2>1. run[u] \in Page!RunType
    BY <1>0 DEF Page!TypeOK
  <2>2. PICK l \in BOOLEAN : l <=> run[u].live /\ run[u].at # "run"
    OBVIOUS
  <2>3. run'[u] = [run[u] EXCEPT !.live = run[u].live /\ run[u].at # "run"]
    BY DEF Page!ChangeControl
  <2>4. run'[u] = [at |-> run[u].at, rev |-> run[u].rev, live |-> l, shot |-> run[u].shot, call |-> run[u].call]
    BY <2>1, <2>2, <2>3 DEF Page!RunType
  <2> QED
    BY <2>1, <2>2, <2>4 DEF Page!RunType
<1>7. run' \in [PageTasks -> Page!RunType]
  <2>1. run' = [u \in PageTasks |-> run'[u]]
    BY DEF Page!ChangeControl
  <2> QED
    BY <1>6, <2>1
<1>8. evidence' \in [PageTasks -> Page!ShotType] /\ \A u \in PageTasks : evidence'[u] = Page!None
  BY PageNone DEF Page!ChangeControl, Page!Withdrawn
<1>9. Page!TypeOK'
  BY <1>0, <1>1, <1>5, <1>7, <1>8 DEF Page!TypeOK
<1>10. Page!Shots' \subseteq Page!Shots /\ Page!Proofs' \subseteq Page!Proofs \cup {Page!None}
  <2>1. Page!Shots' \subseteq Page!Shots
    BY <1>1, <1>4, <1>5, <1>6 DEF Page!Shots
  <2>2. Page!Proofs' \subseteq Page!Proofs \cup {Page!None}
    BY <1>4, <1>5, <1>8 DEF Page!Proofs
  <2> QED
    BY <2>1, <2>2
<1>11. Page!Bonds'
  BY <1>0, <1>1, <1>3, <1>5, <1>10, PageNone, PageBonds, PageNumbers
<1>12. ASSUME NEW d \in Page!Calls PROVE Page!CaptureHeld(d)'
  <2>1. d # 0 /\ Page!CaptureHeld(d)
    BY <1>0, <1>2
  <2>2. \A p \in Page!Proofs' : p.call = d => p \in Page!Proofs
    BY <1>10, <2>1, PageNone
  <2> SUFFICES ASSUME call[d].kind = "capture" PROVE Page!CaptureHeld(d)'
    BY <1>4 DEF Page!CaptureHeld
  <2>3. call[d].at \in {"open", "pixels"} => d \notin pageLeases' /\ \A s \in Page!Shots' \cup Page!Proofs' : s.call # d
    BY <1>1, <1>10, <2>1, <2>2 DEF Page!CaptureHeld
  <2>4. call[d].at = "pixels" => Page!ReadThenSeen(call[d].nav, call[d].page, page)
    BY <2>1 DEF Page!CaptureHeld
  <2>5. call[d].at = "store" =>
          /\ call[d].shot.call = d
          /\ Page!ReadThenSeen(call[d].nav, call[d].page, call[d].shot.page)
          /\ \A p \in Page!Proofs' : p.call # d
          /\ \A s \in Page!Shots' : s.call = d => s = call[d].shot
    BY <1>10, <2>1, <2>2 DEF Page!CaptureHeld
  <2>6. /\ call'[d].kind = call[d].kind /\ call'[d].at = call[d].at /\ call'[d].shot = call[d].shot
        /\ call'[d].page = call[d].page /\ call'[d].nav = call[d].nav
    BY <1>4
  <2> QED
    BY <1>1, <2>3, <2>4, <2>5, <2>6 DEF Page!CaptureHeld, Page!ReadThenSeen
<1>13. ASSUME NEW d \in Page!Calls PROVE Page!ExecuteHeld(d)'
  <2>1. Page!ExecuteHeld(d) /\ call[d].task \in PageTasks
    BY <1>0, <1>2
  <2>2. Page!Waits(d)' => Page!Waits(d)
    <3>1. call'[d].task = call[d].task /\ run'[call[d].task].call = run[call[d].task].call
      BY <1>4, <1>6, <2>1
    <3> QED
      BY <3>1 DEF Page!Waits
  <2>3. call[d].kind = "execute" => ~(Page!Waits(d)' /\ call'[d].live)
    BY <1>4, <2>1, <2>2 DEF Page!ExecuteHeld
  <2> QED
    BY <1>1, <1>4, <2>1, <2>3 DEF Page!ExecuteHeld, Page!OwnProof
<1>14. ASSUME NEW u \in PageTasks PROVE Page!RunHeld(u)'
  <2>1. run'[u].call <= Len(call')
    BY <1>0, <1>5, <1>6 DEF Page!RunHeld
  <2>2. ~(run'[u].at = "run" /\ run'[u].live)
    BY <1>6
  <2> QED
    BY <1>8, <2>1, <2>2 DEF Page!RunHeld
<1>15. Page!Posted'
  BY <1>0, <1>1, <1>4, <1>5 DEF Page!Posted
<1>16. Page!InputsBound'
  BY <1>0, <1>1 DEF Page!InputsBound, Page!LeaseOnce
<1> QED
  BY <1>5, <1>9, <1>11, <1>12, <1>13, <1>14, <1>15, <1>16, PageParts

(* The window goes to another page.                                          *)
LEMMA PageNavigate ==
    ASSUME Page!PageInv, Page!Navigate
    PROVE  Page!PageInv'
<1>0. /\ Page!TypeOK /\ Page!Bonds /\ Page!Posted /\ Page!InputsBound
      /\ (\A d \in Page!Calls : Page!CaptureHeld(d) /\ Page!ExecuteHeld(d)) /\ (\A u \in PageTasks : Page!RunHeld(u))
  BY PageParts
<1>1. /\ UNCHANGED <<pageRevision, run, taken, call, evidence, pageLeases, inputs>>
      /\ navs' = navs + 1 /\ page' \in Pages /\ navs \in Nat
  BY <1>0 DEF Page!Navigate, Page!authority, Page!operator, Page!TypeOK
<1>2. Page!Calls' = Page!Calls /\ Page!Shots' = Page!Shots /\ Page!Proofs' = Page!Proofs /\ (\A d \in Page!Calls : Page!Waits(d)' <=> Page!Waits(d))
  BY <1>1 DEF Page!Calls, Page!Shots, Page!Proofs, Page!Waits
<1>3. Page!TypeOK'
  BY <1>0, <1>1, <1>2 DEF Page!TypeOK
<1>4. ASSUME NEW n \in Nat, NEW p, NEW q, Page!ReadThenSeen(n, p, q)
      PROVE  Page!ReadThenSeen(n, p, q)'
  BY <1>1, <1>4 DEF Page!ReadThenSeen
<1>5. ASSUME NEW n \in Nat, NEW p, Page!ReadThenSeen(n, p, page)
      PROVE  n <= navs' /\ navs' # n /\ (navs' = n + 1 => page' \in {p, page'})
  BY <1>1, <1>5 DEF Page!ReadThenSeen
<1>6. \A p \in Page!Proofs : p.nav \in Nat
  BY <1>0, PageNumbers DEF Page!ShotType
<1>7. Page!Bonds'
  BY <1>0, <1>1, <1>2, <1>4, <1>6 DEF Page!Bonds
<1>8. ASSUME NEW d \in Page!Calls PROVE Page!CaptureHeld(d)'
  <2>1. Page!CaptureHeld(d) /\ call[d].nav \in Nat
    BY <1>0, PageCall DEF Page!TypeOK, Page!CallType, Page!CallRecord
  <2> SUFFICES ASSUME call[d].kind = "capture" PROVE Page!CaptureHeld(d)'
    BY <1>1 DEF Page!CaptureHeld
  <2>2. PICK n \in Nat : n = call[d].nav
    BY <2>1
  <2>3. call[d].at = "pixels" => n <= navs' /\ navs' # n /\ (navs' = n + 1 => page' \in {call[d].page, page'})
    BY <1>5, <2>1, <2>2 DEF Page!CaptureHeld
  <2>4. call[d].at = "store" => Page!ReadThenSeen(n, call[d].page, call[d].shot.page)'
    <3>1. call[d].at = "store" => Page!ReadThenSeen(n, call[d].page, call[d].shot.page)
      BY <2>1, <2>2 DEF Page!CaptureHeld
    <3> QED
      BY <1>1, <2>2, <3>1 DEF Page!ReadThenSeen
  <2> QED
    BY <1>1, <1>2, <2>1, <2>2, <2>3, <2>4 DEF Page!CaptureHeld, Page!ReadThenSeen
<1>9. ASSUME NEW d \in Page!Calls PROVE Page!ExecuteHeld(d)'
  <2>1. Page!ExecuteHeld(d) /\ call[d].nav \in Nat
    BY <1>0, PageCall DEF Page!TypeOK, Page!CallType, Page!CallRecord
  <2>2. PICK n \in Nat : n = call[d].nav
    BY <2>1
  <2>3. n <= navs => n <= navs' /\ navs' # n
    BY <1>1
  <2> QED
    BY <1>1, <1>2, <2>1, <2>2, <2>3 DEF Page!ExecuteHeld, Page!OwnProof
<1>10. ASSUME NEW u \in PageTasks PROVE Page!RunHeld(u)'
  BY <1>0, <1>1 DEF Page!RunHeld
<1>11. Page!Posted' /\ Page!InputsBound'
  BY <1>0, <1>1, <1>2 DEF Page!Posted, Page!InputsBound, Page!LeaseOnce
<1> QED
  BY <1>2, <1>3, <1>7, <1>8, <1>9, <1>10, <1>11, PageParts

(* Whatever happens keeps the invariant.                                     *)
LEMMA PageKept == Page!PageInv /\ [Page!Next]_(Page!vars) => Page!PageInv'
<1> SUFFICES ASSUME Page!PageInv, [Page!Next]_(Page!vars) PROVE Page!PageInv'
  OBVIOUS
<1>1. ASSUME UNCHANGED Page!vars PROVE Page!PageInv'
  <2>1. /\ UNCHANGED <<page, navs, pageRevision, run, taken, call, evidence, pageLeases, inputs>>
    BY <1>1 DEF Page!vars, Page!window, Page!authority, Page!operator
  <2>2. /\ Page!TypeOK /\ Page!Bonds /\ Page!Posted /\ Page!InputsBound
        /\ (\A d \in Page!Calls : Page!CaptureHeld(d) /\ Page!ExecuteHeld(d)) /\ (\A u \in PageTasks : Page!RunHeld(u))
    BY PageParts
  <2>3. Page!Calls' = Page!Calls /\ Page!Shots' = Page!Shots /\ Page!Proofs' = Page!Proofs
    BY <2>1 DEF Page!Calls, Page!Shots, Page!Proofs
  <2>4. Page!TypeOK'
    BY <2>1, <2>2, <2>3 DEF Page!TypeOK
  <2>5. Page!Bonds'
    BY <2>1, <2>2, <2>3 DEF Page!Bonds, Page!ReadThenSeen
  <2>6. Page!Posted' /\ Page!InputsBound'
    BY <2>1, <2>2, <2>3 DEF Page!Posted, Page!InputsBound, Page!LeaseOnce
  <2>7. \A d \in Page!Calls : Page!CaptureHeld(d)'
    BY <2>1, <2>2, <2>3 DEF Page!CaptureHeld, Page!ReadThenSeen
  <2>8. \A d \in Page!Calls : Page!ExecuteHeld(d)'
    BY <2>1, <2>2 DEF Page!ExecuteHeld, Page!Waits
  <2>9. \A u \in PageTasks : Page!RunHeld(u)'
    BY <2>1, <2>2 DEF Page!RunHeld
  <2> QED
    BY <2>3, <2>4, <2>5, <2>6, <2>7, <2>8, <2>9, PageParts
<1>2. ASSUME NEW t \in PageTasks, Page!Runtime(t) PROVE Page!PageInv'
  BY <1>2, PageBegin, PageAsk DEF Page!Runtime
<1>3. ASSUME NEW c \in Page!Calls, Page!Step(c) PROVE Page!PageInv'
  BY <1>3, PageRead, PagePixels, PageStore, PageProve, PagePost DEF Page!Step
<1>4. ASSUME Page!World PROVE Page!PageInv'
  BY <1>4, PageControl, PageNavigate DEF Page!World
<1> QED
  BY <1>1, <1>2, <1>3, <1>4 DEF Page!Next

(* Nothing has happened.                                                     *)
LEMMA PageBegins == Page!Init => Page!PageInv
<1> SUFFICES ASSUME Page!Init PROVE Page!PageInv
  OBVIOUS
<1>1. Page!Calls = {} /\ call \in Seq(Page!CallType) /\ Len(call) = 0 /\ inputs \in Seq(Page!InputType) /\ DOMAIN inputs = {}
  BY DEF Page!Init, Page!Calls
<1>2. Page!Off \in Page!RunType /\ Page!Off.at = "off" /\ Page!Off.call = 0 /\ Page!Off.shot = Page!None
  BY PageNone DEF Page!Off, Page!RunType
<1>3. Page!TypeOK
  BY <1>1, <1>2, ActionsAssumption, PageNone DEF Page!Init, Page!TypeOK, Page!PageAssumption
<1>4. \A s \in Page!Shots \cup Page!Proofs : s = Page!None
  BY <1>1, <1>2 DEF Page!Init, Page!Shots, Page!Proofs
<1>5. Page!Bonds
  BY <1>1, <1>4, PageNone DEF Page!Bonds
<1>6. Page!Posted /\ Page!InputsBound
  BY <1>1 DEF Page!Posted, Page!InputsBound, Page!LeaseOnce
<1>7. \A t \in PageTasks : Page!RunHeld(t)
  BY <1>1, <1>2 DEF Page!Init, Page!RunHeld
<1> QED
  BY <1>1, <1>3, <1>5, <1>6, <1>7 DEF Page!PageInv

(* The inductive invariant of the pages: which call every screenshot and     *)
(* proof is of, how often the window can have changed since, and what a      *)
(* live caller can rely on.                                                  *)
THEOREM PageInvariant == Page!Spec => []Page!PageInv
  BY PageBegins, PageKept, PTL DEF Page!Spec

(* Every posted input is of its page, its task, its run's control and its    *)
(* own lease.                                                                *)
THEOREM PageInputHolds == Page!Spec => Page!InputHolds
<1>1. Page!PageInv /\ [Page!Next]_(Page!vars) /\ Page!PageInv' => [Page!InputsBound']_(Page!vars)
  BY DEF Page!PageInv
<1> QED
  BY <1>1, PageInvariant, PTL DEF Page!Spec, Page!InputHolds

(***************************************************************************)
(* The property of Actions.                                                *)
(***************************************************************************)

(* Each part runs its own specification in the composition: when another part *)
(* is the one that moves, its own variables stay.                             *)
THEOREM ActionsRunTheirParts ==
    ActionsSpec => Visual!Spec /\ Machine!Spec /\ Page!Spec
<1>1. ActionsSpec => Visual!Spec
  <2>1. ActionsInit => Visual!Init
    BY DEF ActionsInit
  <2>2. [ActionsNext]_ActionsVars => [Visual!Next]_(Visual!vars)
    BY DEF ActionsNext, ActionsVars, VisualVars, Visual!vars, Visual!memory, Visual!disk, Visual!world
  <2> QED
    BY <2>1, <2>2, PTL DEF ActionsSpec, Visual!Spec
<1>2. ActionsSpec => Machine!Spec
  <2>1. ActionsInit => Machine!Init
    BY DEF ActionsInit
  <2>2. [ActionsNext]_ActionsVars => [Machine!Next]_(Machine!vars)
    BY DEF ActionsNext, ActionsVars, MachineVars, Machine!vars, Machine!machine, Machine!store, Machine!told
  <2> QED
    BY <2>1, <2>2, PTL DEF ActionsSpec, Machine!Spec
<1>3. ActionsSpec => Page!Spec
  <2>1. ActionsInit => Page!Init
    BY DEF ActionsInit
  <2>2. [ActionsNext]_ActionsVars => [Page!Next]_(Page!vars)
    BY DEF ActionsNext, ActionsVars, PageVars, Page!vars, Page!window, Page!authority, Page!operator
  <2> QED
    BY <2>1, <2>2, PTL DEF ActionsSpec, Page!Spec
<1> QED
  BY <1>1, <1>2, <1>3

(* An approved mutation is posted once, under control, and recorded for what  *)
(* it was, for the page of its screenshot; the helper releases what it        *)
(* pressed, stops for the person at the machine and answers what it did.      *)
THEOREM ActionsInputHolds == ActionsSpec => InputHolds
<1>1. Visual!InputHolds /\ Machine!InputHolds /\ Page!InputHolds => InputHolds
  BY DEF InputHolds
<1> QED
  BY <1>1, ActionsRunTheirParts, VisualInputHolds, InputHoldsOfMachine, PageInputHolds
=============================================================================
