------------------------- MODULE WorkflowRun_proofs -------------------------
(***************************************************************************)
(* Proofs about WorkflowRun, for any number of steps, of resume and cancel *)
(* requests, of failing writes and of restarts: one execution at a time, a *)
(* cancelled run is final, and an answered cancel request found the end.   *)
(***************************************************************************)
EXTENDS WorkflowRun, TLAPS

LEMMA CreatedRuns == "created" \in Exec
  BY DEF Exec

LEMMA InitKeeps == Init => RunInv
<1> SUFFICES ASSUME Init PROVE RunInv
  OBVIOUS
<1>1. Steps \in Nat \ {0}
  BY WorkflowAssumption
<1>2. run \in Run
  BY DEF Init, Run, Status, Result
<1>3. TypeOK
  BY <1>1, <1>2 DEF Init, TypeOK, Runner, Place, Step
<1>4. \A e \in Exec : Running(e) => e = "created"
  BY DEF Init, Running
<1>5. \A e \in Exec : ~Works(e) /\ pc[e] \notin AtStep /\ pc[e] # "entering"
  BY DEF Init, Running, Works, AtStep
<1>6. pc["created"] = "loading"
  BY CreatedRuns DEF Init
<1> QED
  BY <1>3, <1>4, <1>5, <1>6 DEF Init, RunInv, OneExecution, Home, CancelAnswered

(* Any step of an execution that leaves the stored run alone.                 *)
LEMMA QuietKeeps ==
    ASSUME RunInv, NEW e \in Exec, NEW place \in Place,
           pc' = [pc EXCEPT ![e] = place],
           active' \subseteq Runner,
           \A h \in active : h \in active' \/ (place = "done" /\ Running(e) /\ h = Home(e)),
           Running(e) \/ ~Running(e)',
           held' \in [Exec -> Run],
           \A f \in Exec : f # e => held'[f] = held[f],
           Works(e)' => /\ held'[e].status = (IF place = "reopening" THEN "paused" ELSE "running")
                        /\ run = held'[e] \/ run.status = "cancelled",
           place # "entering" \/ run.status = "paused",
           e = "created" => place \notin {"idle", "entering"},
           at' \in [Exec -> 1 .. Steps + 1],
           \A f \in Exec : f # e => at'[f] = at[f],
           place \in AtStep => at'[e] \in Step,
           matched' \in [Step -> Nat],
           UNCHANGED <<run, origin, aborted, cancels, faults, crashes>>
    PROVE  RunInv'
<1> USE DEF RunInv
<1>1. pc' \in [Exec -> Place] /\ pc'[e] = place /\ \A f \in Exec : f # e => pc'[f] = pc[f]
  BY DEF TypeOK
<1>2. TypeOK'
  BY <1>1 DEF TypeOK, cancels
<1>3. \A f \in Exec : Running(f)' => Running(f)
  BY <1>1 DEF Running
<1>4. OneExecution'
  BY <1>3 DEF OneExecution
<1>5. \A f \in Exec : Home(f)' = Home(f)
  BY DEF Home
<1>6. \A f \in Exec : Running(f)' => Home(f)' \in active'
  <2> SUFFICES ASSUME NEW f \in Exec, Running(f)' PROVE Home(f)' \in active'
    OBVIOUS
  <2>1. Running(f) /\ Home(f) \in active
    BY <1>3
  <2>2. CASE place = "done"
    <3>1. f # e
      BY <1>1, <2>2 DEF Running
    <3>2. ~Running(e)
      BY <2>1, <3>1 DEF OneExecution
    <3> QED
      BY <2>1, <3>2, <1>5
  <2> QED
    BY <2>1, <2>2, <1>5
<1>7. origin' = "agent" /\ Running("created")' =>
          /\ run'.status \in {"running", "cancelled"}
          /\ \A f \in Exec : pc'[f] # "entering"
  BY <1>1, <1>3, CreatedRuns
<1>8. \A f \in Exec : pc'[f] \in AtStep => at'[f] \in Step
  BY <1>1
<1>9. \A f \in Exec : Works(f)' =>
          /\ held'[f].status = (IF pc'[f] = "reopening" THEN "paused" ELSE "running")
          /\ run' = held'[f] \/ run'.status = "cancelled"
  <2> SUFFICES ASSUME NEW f \in Exec, Works(f)'
               PROVE  /\ held'[f].status = (IF pc'[f] = "reopening" THEN "paused" ELSE "running")
                      /\ run' = held'[f] \/ run'.status = "cancelled"
    OBVIOUS
  <2>1. CASE f = e
    BY <2>1, <1>1
  <2>2. CASE f # e
    BY <2>2, <1>1 DEF Works, Running
  <2> QED
    BY <2>1, <2>2
<1>10. CancelAnswered'
  BY DEF CancelAnswered, cancels
<1>11. pc'["created"] \notin {"idle", "entering"}
  BY <1>1, CreatedRuns
<1> QED
  BY <1>2, <1>4, <1>6, <1>7, <1>8, <1>9, <1>10, <1>11 DEF Step
(* The steps of an execution that read and wait.                              *)
LEMMA ReadsKeep ==
    ASSUME RunInv, NEW e \in Exec,
           Ask(e) \/ Load(e) \/ NextStep(e) \/ Finish(e) \/ Reread(e)
    PROVE  RunInv'
<1> USE DEF RunInv
<1>0. /\ pc \in [Exec -> Place] /\ held \in [Exec -> Run] /\ at \in [Exec -> 1 .. Steps + 1]
      /\ run \in Run /\ active \subseteq Runner /\ Steps \in Nat /\ matched \in [Step -> Nat]
  BY WorkflowAssumption DEF TypeOK
<1>1. CASE Ask(e)
  <2> DEFINE place == IF run.status = "paused" THEN "entering" ELSE "done"
  <2>1. place \in Place /\ place \notin AtStep
    BY DEF Place, AtStep
  <2>2. ~Running(e)' /\ ~Works(e)'
    BY <1>0, <1>1 DEF Ask, Goto, Running, Works
  <2>3. pc' = [pc EXCEPT ![e] = place] /\ UNCHANGED <<run, origin, held, at, active, aborted, cancels, counts>>
    BY <1>1 DEF Ask, Goto
  <2>4. e # "created"
    BY <1>1 DEF Ask
  <2> QED
    BY <2>1, <2>2, <2>3, <2>4, <1>0, QuietKeeps DEF counts
<1>2. CASE Load(e)
  <2>1. held' = [held EXCEPT ![e] = run] /\ Running(e)
    BY <1>2 DEF Load, Hold, Running
  <2>2. held' \in [Exec -> Run] /\ held'[e] = run /\ \A f \in Exec : f # e => held'[f] = held[f]
    BY <2>1, <1>0
  <2>3. UNCHANGED <<run, origin, at, aborted, cancels, matched, faults, crashes>>
    BY <1>2 DEF Load, counts
  <2>4. CASE run.status \in Ended
    <3>1. pc' = [pc EXCEPT ![e] = "done"] /\ active' = active \ {Home(e)}
      BY <1>2, <2>4 DEF Load, Leave
    <3>2. ~Works(e)' /\ "done" \in Place /\ "done" \notin AtStep
      BY <1>0, <3>1 DEF Works, Running, Place, AtStep
    <3> QED
      BY <2>1, <2>2, <2>3, <3>1, <3>2, <1>0, QuietKeeps
  <2>5. CASE run.status \notin Ended
    <3> DEFINE place == IF run.status = "paused" THEN "reopening" ELSE "stepping"
    <3>1. pc' = [pc EXCEPT ![e] = place] /\ UNCHANGED active
      BY <1>2, <2>5 DEF Load, Goto
    <3>2. place \in Place /\ place \notin AtStep
      BY DEF Place, AtStep
    <3>3. run.status = (IF place = "reopening" THEN "paused" ELSE "running")
      BY <2>5, <1>0 DEF Ended, Run, Status
    <3> QED
      BY <2>1, <2>2, <2>3, <3>1, <3>2, <3>3, <1>0, QuietKeeps
  <2> QED
    BY <2>4, <2>5
<1>3. CASE NextStep(e)
  <2>1. held' = [held EXCEPT ![e] = run] /\ pc[e] = "stepping" /\ Running(e) /\ Works(e)
    BY <1>3 DEF NextStep, Hold, Running, Works
  <2>2. held' \in [Exec -> Run] /\ held'[e] = run /\ \A f \in Exec : f # e => held'[f] = held[f]
    BY <2>1, <1>0
  <2>3. UNCHANGED <<run, origin, aborted, cancels, matched, faults, crashes>>
    BY <1>3 DEF NextStep, counts
  <2>4. run.status \in {"running", "cancelled"}
    BY <2>1
  <2>5. CASE run.status = "cancelled" /\ Leave(e) /\ UNCHANGED at
    <3>1. pc' = [pc EXCEPT ![e] = "done"] /\ active' = active \ {Home(e)}
      BY <2>5 DEF Leave
    <3>2. ~Works(e)' /\ "done" \in Place /\ "done" \notin AtStep
      BY <1>0, <3>1 DEF Works, Running, Place, AtStep
    <3> QED
      BY <2>1, <2>2, <2>3, <2>5, <3>1, <3>2, <1>0, QuietKeeps
  <2>6. CASE run.status # "cancelled" /\ Goto(e, "completing") /\ UNCHANGED at
    <3>1. "completing" \in Place /\ "completing" \notin AtStep
      BY DEF Place, AtStep
    <3> QED
      BY <2>1, <2>2, <2>3, <2>4, <2>6, <3>1, <1>0, QuietKeeps DEF Goto
  <2>7. CASE run.status # "cancelled" /\ at[e] \in Step /\ Goto(e, "marking") /\ UNCHANGED at
    <3>1. "marking" \in Place
      BY DEF Place
    <3> QED
      BY <2>1, <2>2, <2>3, <2>4, <2>7, <3>1, <1>0, QuietKeeps DEF Goto
  <2>8. CASE /\ run.status # "cancelled" /\ at[e] \in Step
             /\ at' = [at EXCEPT ![e] = @ + 1] /\ UNCHANGED <<pc, active>>
    <3>1. "stepping" \in Place /\ "stepping" \notin AtStep /\ pc' = [pc EXCEPT ![e] = "stepping"]
      BY <2>1, <2>8, <1>0 DEF Place, AtStep
    <3>2. at' \in [Exec -> 1 .. Steps + 1] /\ \A f \in Exec : f # e => at'[f] = at[f]
      BY <2>8, <1>0 DEF Step
    <3>3. UNCHANGED active /\ run.status = "running"
      BY <2>4, <2>8
    <3> QED
      BY <2>1, <2>2, <2>3, <3>1, <3>2, <3>3, <1>0, QuietKeeps
  <2> QED
    BY <1>3, <2>5, <2>6, <2>7, <2>8 DEF NextStep
<1>4. CASE Finish(e)
  <2>1. PICK place \in {"rereadWon", "rereadLost"} : pc' = [pc EXCEPT ![e] = place]
    BY <1>4 DEF Finish, Goto
  <2>2. place \in Place /\ pc[e] \in AtStep /\ Running(e) /\ Works(e) /\ pc[e] # "reopening"
    BY <1>4 DEF Finish, Place, AtStep, Running, Works
  <2>3. UNCHANGED <<active, run, origin, held, at, aborted, cancels, faults, crashes>>
    BY <1>4 DEF Finish, Goto
  <2>4. matched' \in [Step -> Nat]
    <3>1. CASE matched' = [matched EXCEPT ![at[e]] = @ + 1]
      BY <3>1, <1>0, <2>2
    <3>2. CASE UNCHANGED matched
      BY <3>2, <1>0
    <3> QED
      BY <1>4, <3>1, <3>2 DEF Finish
  <2> QED
    BY <2>1, <2>2, <2>3, <2>4, <1>0, QuietKeeps
<1>5. CASE Reread(e)
  <2>1. /\ held' = [held EXCEPT ![e] = run] /\ Running(e) /\ Works(e)
        /\ pc[e] \in AtStep /\ pc[e] # "reopening"
    BY <1>5 DEF Reread, Hold, Running, Works, AtStep
  <2>2. held' \in [Exec -> Run] /\ held'[e] = run /\ \A f \in Exec : f # e => held'[f] = held[f]
    BY <2>1, <1>0
  <2>3. UNCHANGED <<run, origin, at, aborted, cancels, matched, faults, crashes>>
    BY <1>5 DEF Reread, counts
  <2>4. run.status \in {"running", "cancelled"}
    BY <2>1
  <2>5. CASE run.status = "cancelled"
    <3>1. pc' = [pc EXCEPT ![e] = "done"] /\ active' = active \ {Home(e)}
      BY <1>5, <2>5 DEF Reread, Leave
    <3>2. ~Works(e)' /\ "done" \in Place /\ "done" \notin AtStep
      BY <1>0, <3>1 DEF Works, Running, Place, AtStep
    <3> QED
      BY <2>1, <2>2, <2>3, <3>1, <3>2, <1>0, QuietKeeps
  <2>6. CASE run.status # "cancelled"
    <3> DEFINE place == IF pc[e] = "rereadWon" THEN "succeeding" ELSE "failing"
    <3>1. pc' = [pc EXCEPT ![e] = place] /\ UNCHANGED active
      BY <1>5, <2>6 DEF Reread, Goto
    <3>2. place \in Place /\ place \notin {"done", "entering", "reopening"}
      BY DEF Place
    <3>3. run.status = "running" /\ at'[e] \in Step
      BY <2>1, <2>3, <2>4, <2>6
    <3> QED
      BY <2>1, <2>2, <2>3, <3>1, <3>2, <3>3, <1>0, QuietKeeps
  <2> QED
    BY <2>5, <2>6
<1> QED
  BY <1>1, <1>2, <1>3, <1>4, <1>5
(* A step of an execution that swaps the stored run.                          *)
LEMMA PersistKeeps ==
    ASSUME RunInv, NEW e \in Exec, Works(e),
           NEW status \in Status \ {"cancelled"}, NEW steps \in [Step -> Result],
           NEW place \in Place \ {"idle", "entering", "loading", "reopening"},
           place # "done" => status = "running",
           place \in AtStep => at'[e] \in Step,
           Persist(e, status, steps, place),
           at' \in [Exec -> 1 .. Steps + 1],
           \A f \in Exec : f # e => at'[f] = at[f],
           UNCHANGED <<origin, aborted, cancels, matched, crashes>>
    PROVE  RunInv'
<1> USE DEF RunInv
<1>0. /\ pc \in [Exec -> Place] /\ held \in [Exec -> Run] /\ run \in Run
      /\ active \subseteq Runner /\ faults \in Nat /\ matched \in [Step -> Nat]
  BY DEF TypeOK
<1>1. Running(e) /\ \A f \in Exec : Running(f) => f = e
  BY DEF Works, OneExecution
<1>2. CASE /\ IF Swappable(held[e].revision) THEN Fails ELSE UNCHANGED faults
           /\ Leave(e) /\ UNCHANGED <<run, held>>
  <2>1. pc' = [pc EXCEPT ![e] = "done"] /\ active' = active \ {Home(e)} /\ faults' \in Nat
    BY <1>2, <1>0 DEF Leave, Fails
  <2>2. pc' \in [Exec -> Place] /\ pc'[e] = "done" /\ \A f \in Exec : f # e => pc'[f] = pc[f]
    BY <2>1, <1>0 DEF Place
  <2>3. \A f \in Exec : ~Running(f)'
    BY <1>1, <2>2 DEF Running
  <2>4. TypeOK'
    BY <1>2, <2>1, <2>2 DEF TypeOK, cancels
  <2>5. \A f \in Exec : pc'[f] \notin AtStep
    BY <2>2, <2>3 DEF Running, AtStep
  <2>6. CancelAnswered'
    BY <1>2 DEF CancelAnswered, cancels
  <2>7. pc'["created"] \notin {"idle", "entering"}
    BY <2>2, CreatedRuns
  <2> QED
    BY <2>3, <2>4, <2>5, <2>6, <2>7, CreatedRuns DEF OneExecution, Works
<1>3. CASE /\ Swappable(held[e].revision)
           /\ run' = [status |-> status, steps |-> steps, revision |-> held[e].revision + 1]
           /\ held' = [held EXCEPT ![e] = run']
           /\ IF place = "done" THEN Leave(e) ELSE Goto(e, place)
           /\ UNCHANGED faults
  <2>1. pc' = [pc EXCEPT ![e] = place]
    BY <1>3 DEF Leave, Goto
  <2>2. pc' \in [Exec -> Place] /\ pc'[e] = place /\ \A f \in Exec : f # e => pc'[f] = pc[f]
    BY <2>1, <1>0
  <2>3. run' \in Run /\ run'.status = status
    BY <1>3, <1>0 DEF Run
  <2>4. held' \in [Exec -> Run] /\ held'[e] = run'
    BY <1>3, <2>3, <1>0
  <2>5. active' \subseteq active /\ (place # "done" => active' = active)
    BY <1>3 DEF Leave, Goto
  <2>6. \A f \in Exec : Running(f)' => f = e /\ place # "done"
    BY <1>1, <2>2 DEF Running
  <2>7. TypeOK'
    <3>1. active' \subseteq Runner /\ faults' \in Nat /\ matched' \in [Step -> Nat]
      BY <1>3, <1>0, <2>5
    <3> QED
      BY <2>2, <2>3, <2>4, <3>1 DEF TypeOK, cancels
  <2>8. \A f \in Exec : Running(f)' => Home(f)' \in active'
    BY <2>5, <2>6, <1>1 DEF Home
  <2>9. origin' = "agent" /\ Running("created")' =>
           /\ run'.status \in {"running", "cancelled"}
           /\ \A f \in Exec : pc'[f] # "entering"
    BY <1>1, <2>2, <2>3, <2>6, CreatedRuns
  <2>10. \A f \in Exec : pc'[f] \in AtStep => at'[f] \in Step
    <3>1. \A f \in Exec : pc'[f] \in AtStep => f = e
      BY <2>6 DEF AtStep, Running
    <3> QED
      BY <2>2, <3>1
  <2>11. \A f \in Exec : Works(f)' =>
           /\ held'[f].status = (IF pc'[f] = "reopening" THEN "paused" ELSE "running")
           /\ run' = held'[f] \/ run'.status = "cancelled"
    BY <2>2, <2>3, <2>4, <2>6 DEF Works
  <2>12. CancelAnswered'
    <3>1. run.revision = held[e].revision /\ run.status # "cancelled"
      BY <1>3 DEF Swappable
    <3>2. run.status \notin Ended
      BY <3>1, <1>0 DEF Ended
    <3> QED
      BY <3>2 DEF CancelAnswered, cancels
  <2>13. pc'["created"] \notin {"idle", "entering"}
    BY <2>2, CreatedRuns
  <2> QED
    BY <2>6, <2>7, <2>8, <2>9, <2>10, <2>11, <2>12, <2>13 DEF OneExecution
<1> QED
  BY <1>2, <1>3 DEF Persist
LEMMA WritesKeep ==
    ASSUME RunInv, NEW e \in Exec,
           Reopen(e) \/ Mark(e) \/ Succeed(e) \/ Evidence(e) \/ Fail(e)
             \/ ApplyFailurePolicy(e) \/ Complete(e)
    PROVE  RunInv'
<1> USE DEF RunInv
<1>0. /\ held[e] \in Run /\ at \in [Exec -> 1 .. Steps + 1] /\ Steps \in Nat
      /\ pc \in [Exec -> Place]
  BY WorkflowAssumption DEF TypeOK
<1>1. \A r \in Result : Marked(e, r) \in [Step -> Result]
  BY <1>0 DEF Marked, Run
<1>2. held[e].steps \in [Step -> Result]
  BY <1>0 DEF Run
<1>3. {"running", "paused", "failed", "completed"} \subseteq Status \ {"cancelled"}
  BY DEF Status
<1>4. {"running", "succeeded", "failed"} \subseteq Result
  BY DEF Result
<1>5. {"stepping", "executing", "evidence", "applying", "done"}
        \subseteq Place \ {"idle", "entering", "loading", "reopening"}
  BY DEF Place
<1>6. {"stepping", "done"} \cap AtStep = {}
  BY DEF AtStep
<1>7. CASE Reopen(e)
  <2>1. Works(e)
    BY <1>7 DEF Reopen, Works, Running
  <2>2. Persist(e, "running", held[e].steps, "stepping")
    BY <1>7 DEF Reopen
  <2> QED
    BY <1>7, <2>1, <2>2, <1>0, <1>2, <1>3, <1>5, <1>6, PersistKeeps DEF Reopen
<1>8. CASE Mark(e)
  <2> DEFINE place == IF e \in aborted THEN "done" ELSE "executing"
  <2>1. Works(e) /\ pc[e] \in AtStep /\ held[e].status = "running"
    BY <1>8 DEF Mark, Works, Running, AtStep
  <2>2. Persist(e, "running", Marked(e, "running"), place)
    BY <1>8, <2>1 DEF Mark, UpdateStep
  <2>3. place \in Place \ {"idle", "entering", "loading", "reopening"}
    BY <1>5
  <2> QED
    BY <1>8, <2>1, <2>2, <2>3, <1>0, <1>1, <1>3, <1>4, PersistKeeps DEF Mark
<1>9. CASE Succeed(e)
  <2>1. Works(e) /\ pc[e] \in AtStep /\ held[e].status = "running"
    BY <1>9 DEF Succeed, Works, Running, AtStep
  <2>2. Persist(e, "running", Marked(e, "succeeded"), "evidence")
    BY <1>9, <2>1 DEF Succeed, UpdateStep
  <2> QED
    BY <1>9, <2>1, <2>2, <1>0, <1>1, <1>3, <1>4, <1>5, PersistKeeps DEF Succeed
<1>10. CASE Evidence(e)
  <2>1. Works(e) /\ pc[e] \in AtStep /\ held[e].status = "running" /\ at[e] \in Step
    BY <1>10 DEF Evidence, Works, Running, AtStep
  <2>2. Persist(e, "running", held[e].steps, "stepping")
    BY <1>10, <2>1 DEF Evidence
  <2>3. at' \in [Exec -> 1 .. Steps + 1] /\ \A f \in Exec : f # e => at'[f] = at[f]
    BY <1>10, <2>1, <1>0 DEF Evidence, Step
  <2> QED
    BY <1>10, <2>1, <2>2, <2>3, <1>0, <1>2, <1>3, <1>5, <1>6, PersistKeeps DEF Evidence
<1>11. CASE Fail(e)
  <2>1. Works(e) /\ pc[e] \in AtStep /\ held[e].status = "running"
    BY <1>11 DEF Fail, Works, Running, AtStep
  <2>2. Persist(e, "running", Marked(e, "failed"), "applying")
    BY <1>11, <2>1 DEF Fail, UpdateStep
  <2> QED
    BY <1>11, <2>1, <2>2, <1>0, <1>1, <1>3, <1>4, <1>5, PersistKeeps DEF Fail
<1>12. CASE ApplyFailurePolicy(e)
  <2> DEFINE status == IF at[e] \in Stopping THEN "failed" ELSE "paused"
  <2>1. Works(e) /\ status \in Status \ {"cancelled"}
    BY <1>12, <1>3 DEF ApplyFailurePolicy, Works, Running
  <2>2. Persist(e, status, held[e].steps, "done")
    BY <1>12 DEF ApplyFailurePolicy
  <2> QED
    BY <1>12, <2>1, <2>2, <1>0, <1>2, <1>5, <1>6, PersistKeeps DEF ApplyFailurePolicy
<1>13. CASE Complete(e)
  <2>1. Works(e)
    BY <1>13 DEF Complete, Works, Running
  <2>2. Persist(e, "completed", held[e].steps, "done")
    BY <1>13 DEF Complete
  <2> QED
    BY <1>13, <2>1, <2>2, <1>0, <1>2, <1>3, <1>5, <1>6, PersistKeeps DEF Complete
<1> QED
  BY <1>7, <1>8, <1>9, <1>10, <1>11, <1>12, <1>13

LEMMA EnterKeeps == ASSUME RunInv, NEW e \in Exec, Enter(e) PROVE RunInv'
<1> USE DEF RunInv
<1>0. pc \in [Exec -> Place] /\ pc[e] = "entering" /\ Home(e) \in Runner
  BY DEF Enter, TypeOK, Home, Runner
<1>1. CASE Home(e) \in active
  <2>1. pc' = [pc EXCEPT ![e] = "done"] /\ UNCHANGED <<active, run, origin, held, at, aborted, cancels, counts>>
    BY <1>1 DEF Enter, Goto
  <2>2. "done" \in Place /\ "done" \notin AtStep /\ ~Running(e)' /\ ~Works(e)'
    BY <2>1, <1>0 DEF Place, AtStep, Running, Works
  <2> QED
    BY <2>1, <2>2, QuietKeeps DEF counts, TypeOK
<1>2. CASE Home(e) \notin active
  <2>1. /\ pc' = [pc EXCEPT ![e] = "loading"] /\ active' = active \cup {Home(e)}
        /\ UNCHANGED <<run, origin, held, at, aborted, cancels, counts>>
    BY <1>2 DEF Enter
  <2>2. pc' \in [Exec -> Place] /\ pc'[e] = "loading" /\ \A f \in Exec : f # e => pc'[f] = pc[f]
    BY <2>1, <1>0 DEF Place
  <2>3. \A f \in Exec : ~Running(f)
    <3> SUFFICES ASSUME NEW f \in Exec, Running(f) PROVE FALSE
      OBVIOUS
    <3>1. Home(f) \in active /\ Home(f) # Home(e)
      BY <1>2
    <3>2. f = "created" \/ e = "created"
      BY <3>1 DEF Home
    <3>3. f = "created"
      BY <3>2, <1>0
    <3>4. origin = "agent"
      BY <3>1, <3>3 DEF Home, TypeOK, Runner
    <3> QED
      BY <3>3, <3>4, <1>0
  <2>4. \A f \in Exec : Running(f)' => f = e
    BY <2>2, <2>3 DEF Running
  <2>5. TypeOK'
    BY <2>1, <2>2, <1>0 DEF TypeOK, cancels, counts
  <2>6. \A f \in Exec : Running(f)' => Home(f)' \in active'
    BY <2>1, <2>4 DEF Home
  <2>7. e # "created" /\ ~Running("created")' /\ pc'["created"] \notin {"idle", "entering"}
    BY <2>2, <2>4, <1>0, CreatedRuns
  <2>8. \A f \in Exec : ~Works(f)' /\ pc'[f] \notin AtStep
    BY <2>2, <2>4 DEF Works, Running, AtStep
  <2>9. CancelAnswered'
    BY <2>1 DEF CancelAnswered, cancels
  <2> QED
    BY <2>4, <2>5, <2>6, <2>7, <2>8, <2>9 DEF OneExecution
<1> QED
  BY <1>1, <1>2

(* A cancel request: the run it swaps had not ended, and then it has.         *)
LEMMA CancelKeeps == ASSUME RunInv, NEW c \in Cancels, Cancel(c) PROVE RunInv'
<1> USE DEF RunInv
<1>0. /\ UNCHANGED <<origin, pc, held, at, active, matched, crashes>>
      /\ asking \in [Cancels -> {"reading", "swapping", "done", "thrown"}]
      /\ seen \in [Cancels -> Nat] /\ run \in Run /\ aborted \subseteq Exec /\ faults \in Nat
  BY DEF Cancel, CancelRead, CancelSwap, loops, counts, TypeOK
<1>1. PICK place \in {"reading", "swapping", "done", "thrown"} :
        /\ Answer(c, place)
        /\ place = "done" => run'.status \in Ended
        /\ \/ UNCHANGED run
           \/ run' = [run EXCEPT !.status = "cancelled", !.revision = seen[c] + 1]
  <2>1. CASE CancelRead(c)
    BY <2>1 DEF CancelRead, Ended
  <2>2. CASE CancelSwap(c)
    BY <2>2, <1>0 DEF CancelSwap, Ended, Run
  <2> QED
    BY <2>1, <2>2 DEF Cancel
<1>2. run' \in Run /\ (run' = run \/ run'.status = "cancelled")
  <2>1. CASE UNCHANGED run
    BY <2>1, <1>0
  <2>2. CASE run' = [run EXCEPT !.status = "cancelled", !.revision = seen[c] + 1]
    <3>1. "cancelled" \in Status /\ seen[c] + 1 \in Nat
      BY <1>0 DEF Status
    <3>2. run' = [status |-> "cancelled", steps |-> run.steps, revision |-> seen[c] + 1]
      BY <2>2, <1>0 DEF Run
    <3> QED
      BY <3>1, <3>2, <1>0 DEF Run
  <2> QED
    BY <1>1, <2>1, <2>2
<1>3. aborted' \subseteq Exec /\ faults' \in Nat /\ seen' \in [Cancels -> Nat]
  <2>1. aborted' = aborted \/ aborted' \subseteq aborted \cup Exec
    BY DEF Cancel, CancelRead, CancelSwap, Abort
  <2>2. faults' \in Nat
    BY <1>0 DEF Cancel, CancelRead, CancelSwap, Fails, counts
  <2>3. seen' \in [Cancels -> Nat]
    BY <1>0 DEF Cancel, CancelRead, CancelSwap, Run
  <2> QED
    BY <1>0, <2>1, <2>2, <2>3
<1>4. asking' \in [Cancels -> {"reading", "swapping", "done", "thrown"}]
  BY <1>0, <1>1 DEF Answer
<1>5. TypeOK'
  BY <1>0, <1>2, <1>3, <1>4 DEF TypeOK
<1>6. \A e \in Exec : Running(e)' = Running(e) /\ Works(e)' = Works(e) /\ Home(e)' = Home(e)
  BY <1>0 DEF Running, Works, Home
<1>7. CancelAnswered'
  <2> SUFFICES ASSUME NEW d \in Cancels, asking'[d] = "done" PROVE run'.status \in Ended
    BY DEF CancelAnswered
  <2>1. CASE d = c
    BY <2>1, <1>0, <1>1 DEF Answer
  <2>2. CASE d # c
    <3>1. asking[d] = "done"
      BY <2>2, <1>0, <1>1 DEF Answer
    <3> QED
      BY <3>1, <1>2 DEF CancelAnswered, Ended
  <2> QED
    BY <2>1, <2>2
<1>8. origin' = "agent" /\ Running("created")' =>
        run'.status \in {"running", "cancelled"} /\ \A e \in Exec : pc'[e] # "entering"
  BY <1>0, <1>2, <1>6, CreatedRuns
<1> QED
  BY <1>0, <1>2, <1>5, <1>6, <1>7, <1>8 DEF OneExecution

LEMMA CrashKeeps == ASSUME RunInv, Crash PROVE RunInv'
<1> USE DEF RunInv
<1>1. /\ pc' \in [Exec -> Place] /\ \A e \in Exec : pc'[e] \in {"idle", "done"}
      /\ pc'["created"] = "done"
  BY CreatedRuns DEF Crash, TypeOK, Place
<1>2. asking' \in [Cancels -> {"reading", "swapping", "done", "thrown"}] /\ crashes' \in Nat
  BY DEF Crash, TypeOK
<1>3. TypeOK'
  BY <1>1, <1>2 DEF Crash, TypeOK
<1>4. \A e \in Exec : ~Running(e)' /\ ~Works(e)' /\ pc'[e] \notin AtStep
  BY <1>1 DEF Running, Works, AtStep
<1>5. CancelAnswered'
  BY DEF Crash, CancelAnswered
<1> QED
  BY <1>1, <1>3, <1>4, <1>5, CreatedRuns DEF OneExecution

LEMMA StepKeeps == RunInv /\ [Next]_vars => RunInv'
<1> SUFFICES ASSUME RunInv, [Next]_vars PROVE RunInv'
  OBVIOUS
<1>1. ASSUME NEW e \in Exec, Loop(e) PROVE RunInv'
  BY <1>1, ReadsKeep, WritesKeep, EnterKeeps DEF Loop
<1>2. ASSUME NEW c \in Cancels, Cancel(c) PROVE RunInv'
  BY <1>2, CancelKeeps
<1>3. CASE Crash
  BY <1>3, CrashKeeps
<1>4. CASE UNCHANGED vars
  BY <1>4 DEF RunInv, TypeOK, OneExecution, CancelAnswered, Running, Works, Home,
              vars, loops, cancels, counts
<1> QED
  BY <1>1, <1>2, <1>3, <1>4 DEF Next

(* One execution of a run at a time, over both runners, and the only other    *)
(* writer of the run it holds is a cancellation.                              *)
THEOREM WorkflowInvariant == Spec => []RunInv
<1> QED
  BY InitKeeps, StepKeeps, PTL DEF Spec

(* An answered cancel request found the run's end or made it.                 *)
THEOREM WorkflowCancelAnswered == Spec => []CancelAnswered
<1>1. RunInv => CancelAnswered
  BY DEF RunInv
<1> QED
  BY <1>1, WorkflowInvariant, PTL

(* Nothing is written and no step is started once the run is cancelled.       *)
LEMMA CancelledStays ==
    ASSUME RunInv, [Next]_vars, run.status = "cancelled"
    PROVE  run' = run /\ \A e \in Exec : pc'[e] = "executing" => pc[e] = "executing"
<1>0. pc \in [Exec -> Place]
  BY DEF RunInv, TypeOK
<1>1. ASSUME NEW e \in Exec, Loop(e)
      PROVE  run' = run /\ \A f \in Exec : pc'[f] = "executing" => pc[f] = "executing"
  <2>1. \A revision : ~Swappable(revision)
    BY DEF Swappable
  <2>2. run' = run
    BY <1>1, <2>1 DEF Loop, Ask, Enter, Load, Reopen, NextStep, Mark, Finish, Reread, Succeed,
          Evidence, Fail, ApplyFailurePolicy, Complete, UpdateStep, Persist
  <2>3. PICK place : place # "executing" /\ (pc' = [pc EXCEPT ![e] = place] \/ pc' = pc)
    <3>1. CASE Reopen(e) \/ Mark(e) \/ Succeed(e) \/ Evidence(e) \/ Fail(e)
                 \/ ApplyFailurePolicy(e) \/ Complete(e)
      BY <3>1, <2>1 DEF Reopen, Mark, Succeed, Evidence, Fail, ApplyFailurePolicy, Complete,
                        UpdateStep, Persist, Leave
    <3>2. CASE Ask(e) \/ Enter(e) \/ Load(e)
      BY <3>2 DEF Ask, Enter, Load, Goto, Leave
    <3>3. CASE NextStep(e) \/ Finish(e) \/ Reread(e)
      BY <3>3 DEF NextStep, Finish, Reread, Goto, Leave
    <3> QED
      BY <1>1, <3>1, <3>2, <3>3 DEF Loop
  <2> QED
    BY <1>0, <2>2, <2>3
<1>2. ASSUME NEW c \in Cancels, Cancel(c)
      PROVE  run' = run /\ \A f \in Exec : pc'[f] = "executing" => pc[f] = "executing"
  BY <1>2 DEF Cancel, CancelRead, CancelSwap, Swappable, loops
<1>3. CASE Crash
  BY <1>0, <1>3 DEF Crash
<1>4. CASE UNCHANGED vars
  BY <1>4 DEF vars, loops
<1> QED
  BY <1>1, <1>2, <1>3, <1>4 DEF Next

(* Cancellation wins over every stale write of an execution in flight.        *)
THEOREM WorkflowCancelIsFinal == Spec => CancelIsFinal
<1>1. RunInv /\ [Next]_vars =>
        [run.status = "cancelled" =>
          /\ run' = run
          /\ \A e \in Exec : pc'[e] = "executing" => pc[e] = "executing"]_vars
  BY CancelledStays
<1> QED
  BY <1>1, WorkflowInvariant, PTL DEF Spec, CancelIsFinal

(* What a cancel answers is true when it answers and stays true.              *)
THEOREM WorkflowCancelHolds == Spec => CancelHolds
  BY WorkflowCancelAnswered, WorkflowCancelIsFinal, PTL DEF CancelHolds

(***************************************************************************)
(* Every step is verified in its turn, and once                            *)
(***************************************************************************)
Ordered ==
    /\ VerifiedOnce /\ StepsCounted /\ PrefixSucceeded
    /\ run.status = "completed" => \A s \in Step : matched[s] >= 1

Counting == {"marking", "executing", "rereadLost", "failing", "applying"}

LEMMA InitOrders == Init => StepsInv
<1> SUFFICES ASSUME Init PROVE StepsInv
  OBVIOUS
<1>1. RunInv
  BY InitKeeps
<1>2. Steps \in Nat \ {0} /\ faults = 0 /\ \A s \in Step : matched[s] = 0 /\ run.steps[s] = "pending"
  BY WorkflowAssumption DEF Init
<1>3. \A e \in Exec : pc[e] \in {"idle", "loading"} /\ at[e] = 1
  BY DEF Init
<1>4. VerifiedOnce
  BY <1>2 DEF VerifiedOnce
<1>5. StepsCounted
  BY <1>2, <1>3 DEF StepsCounted, Unsaved
<1>6. PrefixSucceeded
  BY <1>3 DEF PrefixSucceeded
<1> QED
  BY <1>1, <1>4, <1>5, <1>6 DEF StepsInv, Init

(* A step of an execution that leaves the stored run and the counts alone.    *)
Quiet(e, place) ==
    /\ pc' = [pc EXCEPT ![e] = place]
    /\ at' \in [Exec -> 1 .. Steps + 1]
    /\ \A f \in Exec : f # e => at'[f] = at[f]
    /\ UNCHANGED <<run, matched>>
    /\ faults' \in Nat /\ faults' >= faults
    /\ pc[e] \in Unsaved => \/ place \in Unsaved /\ at'[e] = at[e]
                            \/ run.status = "cancelled" \/ faults' > faults
    /\ pc[e] \in {"idle", "done"} => place = "done" \/ run.status = "paused"
    /\ place \in Counting => matched[at'[e]] <= faults
    /\ place \in Unsaved => matched[at'[e]] >= 1
    /\ place \in {"idle", "entering", "loading", "reopening"} => at'[e] = 1
    /\ place \notin {"idle", "entering", "done"} =>
           \A s \in 1 .. at'[e] - 1 : run.steps[s] = "succeeded"
    /\ place = "evidence" => run.steps[at'[e]] = "succeeded"
    /\ place = "completing" => at'[e] = Steps + 1

LEMMA QuietOrders ==
    ASSUME StepsInv, RunInv', NEW e \in Exec, NEW place \in Place, Quiet(e, place)
    PROVE  Ordered'
<1> USE DEF Quiet
<1>0. /\ pc \in [Exec -> Place] /\ at \in [Exec -> 1 .. Steps + 1] /\ Steps \in Nat
      /\ matched \in [Step -> Nat] /\ faults \in Nat
  BY WorkflowAssumption DEF StepsInv, RunInv, TypeOK
<1>1. pc'[e] = place /\ \A f \in Exec : f # e => pc'[f] = pc[f]
  BY <1>0
<1>2. VerifiedOnce'
  BY <1>0 DEF StepsInv, VerifiedOnce
<1>3. Over => Over'
  BY <1>1 DEF Over
<1>4. \A s \in Step : InFlight(s) => InFlight(s)' \/ faults' > faults \/ Over'
  BY <1>1 DEF InFlight, Over
<1>5. \A s \in Step :
        matched'[s] <= faults' \/ run'.steps[s] = "succeeded" \/ InFlight(s)' \/ Over'
  <2> SUFFICES ASSUME NEW s \in Step, ~InFlight(s)', ~Over', run'.steps[s] # "succeeded"
               PROVE  matched'[s] <= faults'
    OBVIOUS
  <2>1. matched[s] \in Nat /\ (matched[s] <= faults \/ faults' > faults)
    BY <1>0, <1>3, <1>4 DEF StepsInv, StepsCounted
  <2>2. matched[s] <= 1 + faults
    BY DEF StepsInv, VerifiedOnce
  <2> QED
    BY <1>0, <2>1, <2>2
<1>6. \A f \in Exec : pc'[f] \in Counting => matched'[at'[f]] <= faults'
  <2> SUFFICES ASSUME NEW f \in Exec, pc'[f] \in Counting PROVE matched[at'[f]] <= faults'
    OBVIOUS
  <2>1. matched[at'[f]] <= faults
    BY <1>1 DEF StepsInv, StepsCounted, Counting
  <2>2. at'[f] \in Step
    BY DEF RunInv, Counting, AtStep, Step
  <2> QED
    BY <1>0, <2>1, <2>2
<1>7. \A f \in Exec : pc'[f] \in Unsaved => matched'[at'[f]] >= 1
  BY <1>1 DEF StepsInv, StepsCounted
<1>8. StepsCounted'
  <2>1. \A s \in Step : run'.steps[s] = "succeeded" => matched'[s] >= 1
    BY DEF StepsInv, StepsCounted
  <2> QED
    BY <1>5, <1>6, <1>7, <2>1 DEF StepsCounted, Counting, Step
<1>9. PrefixSucceeded'
  BY <1>0, <1>1 DEF StepsInv, PrefixSucceeded, Running
<1> QED
  BY <1>2, <1>8, <1>9 DEF Ordered, StepsInv

(* A swap of the stored run: it succeeds from the run that the execution      *)
(* holds, or the execution leaves because the run was cancelled meanwhile or  *)
(* the write failed.                                                          *)
Swaps(e, status, steps, place) ==
    /\ Persist(e, status, steps, place)
    /\ UNCHANGED matched
    /\ at' \in [Exec -> 1 .. Steps + 1]
    /\ \A f \in Exec : f # e => at'[f] = at[f]
    /\ status = "completed" => \A s \in Step : matched[s] >= 1
    /\ \A s \in Step : held[e].steps[s] = "succeeded" /\ steps[s] # "succeeded" =>
           matched[s] <= faults
    /\ \A s \in Step : steps[s] = "succeeded" => matched[s] >= 1
    /\ pc[e] \in Unsaved => steps[at[e]] = "succeeded"
    /\ place \notin Unsaved
    /\ place \in Counting => matched[at'[e]] <= faults
    /\ place # "done" => \A s \in 1 .. at'[e] - 1 : steps[s] = "succeeded"
    /\ place = "evidence" => steps[at'[e]] = "succeeded"
    /\ place = "completing" => at'[e] = Steps + 1

Started == Place \ {"idle", "entering", "loading", "reopening"}

LEMMA PersistOrders ==
    ASSUME StepsInv, RunInv', NEW e \in Exec, Works(e),
           NEW status \in Status, NEW steps \in [Step -> Result], NEW place \in Started,
           Swaps(e, status, steps, place)
    PROVE  Ordered'
<1> USE DEF Swaps, Started
<1>0. /\ pc \in [Exec -> Place] /\ at \in [Exec -> 1 .. Steps + 1] /\ Steps \in Nat
      /\ matched \in [Step -> Nat] /\ faults \in Nat /\ run \in Run /\ held \in [Exec -> Run]
  BY WorkflowAssumption DEF StepsInv, RunInv, TypeOK
<1>a. run = held[e] \/ run.status = "cancelled"
  BY DEF StepsInv, RunInv
<1>b. Running(e) /\ \A f \in Exec : Running(f) => f = e
  BY DEF StepsInv, RunInv, OneExecution, Works
<1>1. CASE /\ IF Swappable(held[e].revision) THEN Fails ELSE UNCHANGED faults
           /\ Leave(e) /\ UNCHANGED <<run, held>>
  <2>1. pc' = [pc EXCEPT ![e] = "done"] /\ "done" \in Place
    BY <1>1 DEF Leave, Place
  <2>2. faults' \in Nat /\ faults' >= faults /\ (faults' > faults \/ run.status = "cancelled")
    BY <1>0, <1>1, <1>a DEF Fails, Swappable
  <2>3. Quiet(e, "done")
    BY <1>0, <1>1, <2>1, <2>2 DEF Quiet, Counting, Unsaved
  <2> QED
    BY <2>1, <2>3, QuietOrders
<1>2. CASE /\ Swappable(held[e].revision)
           /\ run' = [status |-> status, steps |-> steps, revision |-> held[e].revision + 1]
           /\ IF place = "done" THEN Leave(e) ELSE Goto(e, place)
           /\ UNCHANGED faults
  <2>1. pc' = [pc EXCEPT ![e] = place]
    BY <1>2 DEF Leave, Goto
  <2>2. pc'[e] = place /\ \A f \in Exec : f # e => pc'[f] = pc[f]
    BY <2>1, <1>0
  <2>3. run = held[e] /\ run'.status = status /\ run'.steps = steps /\ ~Over
    BY <1>2, <1>a, <1>b DEF Swappable, Over, Running
  <2>4. \A f \in Exec : f # e => ~Running(f)
    BY <1>b
  <2>5. \A s \in Step : matched[s] <= faults \/ steps[s] = "succeeded"
    <3> SUFFICES ASSUME NEW s \in Step, steps[s] # "succeeded" PROVE matched[s] <= faults
      OBVIOUS
    <3>1. CASE InFlight(s)
      BY <2>4, <3>1 DEF InFlight, Unsaved, Running
    <3>2. CASE ~InFlight(s)
      BY <2>3, <3>2 DEF StepsInv, StepsCounted
    <3> QED
      BY <3>1, <3>2
  <2>6. StepsCounted'
    <3>1. \A f \in Exec : pc'[f] \in Counting => matched'[at'[f]] <= faults'
      BY <1>2, <2>2, <2>4 DEF Counting, Running
    <3>2. \A f \in Exec : pc'[f] \notin Unsaved
      BY <2>2, <2>4 DEF Unsaved, Running
    <3> QED
      BY <1>2, <2>3, <2>5, <3>1, <3>2 DEF StepsCounted, Counting, Step
  <2>7. PrefixSucceeded'
    <3>1. \A f \in Exec : Running(f)' => f = e /\ place # "done"
      BY <2>2, <2>4 DEF Running
    <3>2. \A f \in Exec : pc'[f] \in {"idle", "entering", "loading", "reopening"} => at'[f] = 1
      BY <2>2 DEF StepsInv, PrefixSucceeded
    <3> QED
      BY <2>2, <2>3, <3>1, <3>2 DEF PrefixSucceeded, Running
  <2>8. VerifiedOnce'
    BY <1>2 DEF StepsInv, VerifiedOnce
  <2> QED
    BY <2>3, <2>6, <2>7, <2>8 DEF Ordered
<1> QED
  BY <1>1, <1>2 DEF Persist

LEMMA ReadsOrder ==
    ASSUME StepsInv, RunInv', NEW e \in Exec,
           Ask(e) \/ Enter(e) \/ Load(e) \/ NextStep(e) \/ Finish(e) \/ Reread(e)
    PROVE  Ordered'
<1>0. /\ pc \in [Exec -> Place] /\ at \in [Exec -> 1 .. Steps + 1] /\ Steps \in Nat
      /\ matched \in [Step -> Nat] /\ faults \in Nat /\ run \in Run
  BY WorkflowAssumption DEF StepsInv, RunInv, TypeOK
<1>1. CASE Ask(e)
  <2>1. PICK place \in {"entering", "done"} :
          pc' = [pc EXCEPT ![e] = place] /\ (place = "done" \/ run.status = "paused")
    BY <1>1 DEF Ask, Goto
  <2>2. UNCHANGED <<run, at, matched, faults>> /\ pc[e] = "idle" /\ place \in Place
    BY <1>1 DEF Ask, counts, Place
  <2>3. at[e] = 1
    BY <2>2 DEF StepsInv, PrefixSucceeded
  <2>q. Quiet(e, place)
    BY <1>0, <2>1, <2>2, <2>3 DEF Quiet, Counting, Unsaved
  <2> QED
    BY <1>0, <2>1, <2>2, <2>3, <2>q, QuietOrders DEF Place
<1>2. CASE Enter(e)
  <2>1. PICK place \in {"loading", "done"} : pc' = [pc EXCEPT ![e] = place]
    BY <1>2 DEF Enter, Goto
  <2>2. UNCHANGED <<run, at, matched, faults>> /\ pc[e] = "entering" /\ place \in Place
    BY <1>2 DEF Enter, counts, Place
  <2>3. at[e] = 1
    BY <2>2 DEF StepsInv, PrefixSucceeded
  <2>q. Quiet(e, place)
    BY <1>0, <2>1, <2>2, <2>3 DEF Quiet, Counting, Unsaved
  <2> QED
    BY <1>0, <2>1, <2>2, <2>3, <2>q, QuietOrders DEF Place
<1>3. CASE Load(e)
  <2>1. PICK place \in {"reopening", "stepping", "done"} : pc' = [pc EXCEPT ![e] = place]
    BY <1>3 DEF Load, Goto, Leave
  <2>2. UNCHANGED <<run, at, matched, faults>> /\ pc[e] = "loading" /\ place \in Place
    BY <1>3 DEF Load, counts, Place
  <2>3. at[e] = 1
    BY <2>2 DEF StepsInv, PrefixSucceeded
  <2>q. Quiet(e, place)
    BY <1>0, <2>1, <2>2, <2>3 DEF Quiet, Counting, Unsaved
  <2> QED
    BY <1>0, <2>1, <2>2, <2>3, <2>q, QuietOrders DEF Place
<1>4. CASE NextStep(e)
  <2>1. /\ UNCHANGED <<run, matched, faults>> /\ pc[e] = "stepping"
        /\ Running(e)
    BY <1>4 DEF NextStep, counts, Running
  <2>2. \A s \in 1 .. at[e] - 1 : run.steps[s] = "succeeded"
    BY <2>1 DEF StepsInv, PrefixSucceeded
  <2>3. CASE Leave(e) /\ UNCHANGED at
    <3>1. pc' = [pc EXCEPT ![e] = "done"] /\ "done" \in Place
      BY <2>3 DEF Leave, Place
    <3>q. Quiet(e, "done")
      BY <1>0, <2>1, <2>3, <3>1 DEF Quiet, Counting, Unsaved
    <3> QED
      BY <1>0, <2>1, <2>3, <3>1, <3>q, QuietOrders DEF Place
  <2>4. CASE at[e] > Steps /\ Goto(e, "completing") /\ UNCHANGED at
    <3>1. pc' = [pc EXCEPT ![e] = "completing"] /\ "completing" \in Place
      BY <2>4 DEF Goto, Place
    <3>2. at[e] = Steps + 1
      BY <1>0, <2>4
    <3>q. Quiet(e, "completing")
      BY <1>0, <2>1, <2>2, <2>4, <3>1, <3>2 DEF Quiet, Counting, Unsaved
    <3> QED
      BY <1>0, <2>1, <2>2, <2>4, <3>1, <3>2, <3>q, QuietOrders DEF Place
  <2>5. CASE /\ at[e] \in Step /\ run.steps[at[e]] = "succeeded"
             /\ at' = [at EXCEPT ![e] = @ + 1] /\ UNCHANGED pc
    <3>1. pc' = [pc EXCEPT ![e] = "stepping"] /\ "stepping" \in Place
      BY <1>0, <2>1, <2>5 DEF Place
    <3>2. /\ at' \in [Exec -> 1 .. Steps + 1] /\ at'[e] = at[e] + 1
          /\ \A f \in Exec : f # e => at'[f] = at[f]
      BY <1>0, <2>5 DEF Step
    <3>3. \A s \in 1 .. at'[e] - 1 : run.steps[s] = "succeeded"
      BY <1>0, <2>2, <2>5, <3>2 DEF Step
    <3>4. pc[e] \notin Unsaved \cup {"idle", "done"} /\ "stepping" \notin Counting \cup Unsaved
      BY <2>1 DEF Counting, Unsaved
    <3>5. faults' \in Nat /\ faults' >= faults
      BY <1>0, <2>1
    <3>q. Quiet(e, "stepping")
      BY <2>1, <3>1, <3>2, <3>3, <3>4, <3>5 DEF Quiet
    <3> QED
      BY <1>0, <2>1, <3>1, <3>2, <3>3, <3>q, QuietOrders DEF Place
  <2>6. CASE /\ run.status # "cancelled" /\ at[e] \in Step
             /\ run.steps[at[e]] # "succeeded"
             /\ Goto(e, "marking") /\ UNCHANGED at
    <3>1. pc' = [pc EXCEPT ![e] = "marking"] /\ "marking" \in Place
      BY <2>6 DEF Goto, Place
    <3>2. ~Over
      BY <2>1, <2>6 DEF Over
    <3>3. ~InFlight(at[e])
      BY <2>1 DEF InFlight, Unsaved, Running, StepsInv, RunInv, OneExecution
    <3>4. matched[at[e]] <= faults
      BY <2>6, <3>2, <3>3 DEF StepsInv, StepsCounted
    <3>q. Quiet(e, "marking")
      BY <1>0, <2>1, <2>2, <2>6, <3>1, <3>4 DEF Quiet, Counting, Unsaved
    <3> QED
      BY <1>0, <2>1, <2>2, <2>6, <3>1, <3>4, <3>q, QuietOrders DEF Place
  <2> QED
    BY <1>4, <2>3, <2>4, <2>5, <2>6 DEF NextStep, Skipped
<1>5. CASE Finish(e)
  <2>1. /\ UNCHANGED <<run, at, faults>> /\ pc[e] = "executing" /\ Running(e)
        /\ at[e] \in Step /\ matched[at[e]] <= faults
    BY <1>5 DEF Finish, Running, StepsInv, StepsCounted, RunInv, AtStep
  <2>2. \A s \in 1 .. at[e] - 1 : run.steps[s] = "succeeded"
    BY <2>1 DEF StepsInv, PrefixSucceeded
  <2>3. CASE Goto(e, "rereadLost") /\ UNCHANGED matched
    <3>1. pc' = [pc EXCEPT ![e] = "rereadLost"] /\ "rereadLost" \in Place
      BY <2>3 DEF Goto, Place
    <3>q. Quiet(e, "rereadLost")
      BY <1>0, <2>1, <2>2, <2>3, <3>1 DEF Quiet, Counting, Unsaved
    <3> QED
      BY <1>0, <2>1, <2>2, <2>3, <3>1, <3>q, QuietOrders DEF Place
  <2>4. CASE Goto(e, "rereadWon") /\ matched' = [matched EXCEPT ![at[e]] = @ + 1]
    <3>1. pc'[e] = "rereadWon" /\ \A f \in Exec : f # e => pc'[f] = pc[f] /\ ~Running(f)
      BY <1>0, <2>1, <2>4 DEF Goto, StepsInv, RunInv, OneExecution
    <3>2. /\ matched'[at[e]] = matched[at[e]] + 1 /\ matched[at[e]] \in Nat
          /\ \A s \in Step : s # at[e] => matched'[s] = matched[s]
          /\ \A s \in Step : matched[s] \in Nat /\ matched'[s] \in Nat /\ matched'[s] >= matched[s]
      BY <1>0, <2>1, <2>4
    <3>3. VerifiedOnce'
      BY <1>0, <2>1, <3>2 DEF StepsInv, VerifiedOnce
    <3>4. StepsCounted'
      <4>1. ASSUME NEW s \in Step, s = at[e] PROVE InFlight(s)'
        BY <2>1, <3>1, <4>1 DEF InFlight, Unsaved
      <4>2. ASSUME NEW s \in Step, InFlight(s) \/ Over PROVE Over'
        <5>1. ~InFlight(s)
          BY <2>1, <3>1 DEF InFlight, Unsaved, Running
        <5> QED
          BY <2>1, <4>2, <5>1 DEF Over
      <4>3. \A s \in Step : matched'[s] <= faults' \/ run'.steps[s] = "succeeded"
                              \/ InFlight(s)' \/ Over'
        <5> SUFFICES ASSUME NEW s \in Step
                     PROVE  matched'[s] <= faults' \/ run'.steps[s] = "succeeded"
                              \/ InFlight(s)' \/ Over'
          OBVIOUS
        <5>1. CASE s = at[e]
          BY <4>1, <5>1
        <5>2. CASE s # at[e]
          BY <2>1, <3>2, <4>2, <5>2 DEF StepsInv, StepsCounted
        <5> QED
          BY <5>1, <5>2
      <4>4. \A f \in Exec : pc'[f] \in Counting => matched'[at'[f]] <= faults'
        BY <3>1 DEF Counting, Running
      <4>5. \A f \in Exec : pc'[f] \in Unsaved => matched'[at'[f]] >= 1
        BY <2>1, <3>1, <3>2 DEF Unsaved, Running
      <4>6. \A s \in Step : run'.steps[s] = "succeeded" => matched'[s] >= 1
        BY <2>1, <3>2 DEF StepsInv, StepsCounted
      <4> QED
        BY <4>3, <4>4, <4>5, <4>6 DEF StepsCounted, Counting, Step
    <3>5. PrefixSucceeded'
      BY <2>1, <3>1 DEF StepsInv, PrefixSucceeded, Running
    <3>6. run'.status = "completed" => \A s \in Step : matched'[s] >= 1
      BY <2>1, <3>2 DEF StepsInv
    <3> QED
      BY <3>3, <3>4, <3>5, <3>6 DEF Ordered, Step
  <2> QED
    BY <1>5, <2>3, <2>4 DEF Finish
<1>6. CASE Reread(e)
  <2>1. /\ UNCHANGED <<run, at, matched, faults>> /\ Running(e)
        /\ pc[e] \in {"rereadWon", "rereadLost"}
    BY <1>6 DEF Reread, counts, Running
  <2>2. \A s \in 1 .. at[e] - 1 : run.steps[s] = "succeeded"
    BY <2>1 DEF StepsInv, PrefixSucceeded
  <2>3. CASE run.status = "cancelled"
    <3>1. pc' = [pc EXCEPT ![e] = "done"] /\ "done" \in Place
      BY <1>6, <2>3 DEF Reread, Leave, Place
    <3>q. Quiet(e, "done")
      BY <1>0, <2>1, <2>3, <3>1 DEF Quiet, Counting, Unsaved
    <3> QED
      BY <1>0, <2>1, <2>3, <3>1, <3>q, QuietOrders DEF Place
  <2>4. CASE run.status # "cancelled" /\ pc[e] = "rereadWon"
    <3>1. pc' = [pc EXCEPT ![e] = "succeeding"] /\ "succeeding" \in Place
      BY <1>6, <2>4 DEF Reread, Goto, Place
    <3>2. matched[at[e]] >= 1
      BY <2>4 DEF StepsInv, StepsCounted, Unsaved
    <3>q. Quiet(e, "succeeding")
      BY <1>0, <2>1, <2>2, <3>1, <3>2 DEF Quiet, Counting, Unsaved
    <3> QED
      BY <1>0, <2>1, <2>2, <3>1, <3>2, <3>q, QuietOrders DEF Place
  <2>5. CASE run.status # "cancelled" /\ pc[e] = "rereadLost"
    <3>1. pc' = [pc EXCEPT ![e] = "failing"] /\ "failing" \in Place
      BY <1>6, <2>5 DEF Reread, Goto, Place
    <3>2. matched[at[e]] <= faults
      BY <2>5 DEF StepsInv, StepsCounted
    <3>q. Quiet(e, "failing")
      BY <1>0, <2>1, <2>2, <2>5, <3>1, <3>2 DEF Quiet, Counting, Unsaved
    <3> QED
      BY <1>0, <2>1, <2>2, <2>5, <3>1, <3>2, <3>q, QuietOrders DEF Place
  <2> QED
    BY <2>1, <2>3, <2>4, <2>5
<1> QED
  BY <1>1, <1>2, <1>3, <1>4, <1>5, <1>6

LEMMA WritesOrder ==
    ASSUME StepsInv, RunInv', NEW e \in Exec,
           Reopen(e) \/ Mark(e) \/ Succeed(e) \/ Evidence(e) \/ Fail(e)
             \/ ApplyFailurePolicy(e) \/ Complete(e)
    PROVE  Ordered'
<1>0. /\ pc \in [Exec -> Place] /\ at \in [Exec -> 1 .. Steps + 1] /\ Steps \in Nat
      /\ matched \in [Step -> Nat] /\ faults \in Nat /\ run \in Run /\ held[e] \in Run
  BY WorkflowAssumption DEF StepsInv, RunInv, TypeOK
<1>a. Works(e) /\ Running(e) /\ UNCHANGED matched
  BY DEF Works, Running, Reopen, Mark, Succeed, Evidence, Fail, ApplyFailurePolicy, Complete
(* What it holds is what is stored, up to a cancellation, which keeps the     *)
(* steps; a stored result is the only one that counts.                        *)
<1>b. CASE run # held[e]
  <2>1. run.status = "cancelled" /\ ~Swappable(held[e].revision)
    BY <1>a, <1>b DEF StepsInv, RunInv, Swappable
  <2>2. pc' = [pc EXCEPT ![e] = "done"] /\ "done" \in Place /\ UNCHANGED <<run, faults>>
    BY <2>1 DEF Reopen, Mark, Succeed, Evidence, Fail, ApplyFailurePolicy, Complete,
                UpdateStep, Persist, Leave, Place
  <2>3. UNCHANGED at
    BY <1>0, <2>2 DEF Reopen, Mark, Succeed, Evidence, Fail, ApplyFailurePolicy, Complete
  <2>q. Quiet(e, "done")
    BY <1>0, <1>a, <2>1, <2>2, <2>3 DEF Quiet, Counting, Unsaved
  <2> QED
    BY <1>0, <1>a, <2>1, <2>2, <2>3, <2>q, QuietOrders DEF Place
<1>c. CASE run = held[e]
  <2> DEFINE steps == held[e].steps
  <2>0. /\ steps \in [Step -> Result]
        /\ \A r \in Result : Marked(e, r) \in [Step -> Result]
    BY <1>0 DEF Marked, Run
  <2>1. /\ \A s \in Step : steps[s] = "succeeded" => matched[s] >= 1
        /\ \A s \in 1 .. at[e] - 1 : steps[s] = "succeeded"
    BY <1>a, <1>c DEF StepsInv, StepsCounted, PrefixSucceeded
  <2>2. /\ {"running", "succeeded", "failed"} \subseteq Result
        /\ {"stepping", "executing", "evidence", "applying", "done"}
             \subseteq Place \ {"idle", "entering", "loading", "reopening"}
        /\ {"running", "paused", "failed", "completed"} \subseteq Status
    BY DEF Result, Place, Status
  <2>3. ASSUME pc[e] \in AtStep
        PROVE  /\ at[e] \in Step /\ held[e].status = "running"
               /\ \A r \in Result : /\ Marked(e, r)[at[e]] = r
                                    /\ \A s \in Step : s # at[e] => Marked(e, r)[s] = steps[s]
    BY <1>a, <2>0, <2>3 DEF StepsInv, RunInv, AtStep, Marked
  <2>4. CASE Reopen(e)
    <3>1. Persist(e, "running", steps, "stepping") /\ pc[e] = "reopening" /\ UNCHANGED at
      BY <2>4 DEF Reopen
    <3>q. Swaps(e, "running", steps, "stepping")
      BY <1>0, <1>a, <2>0, <2>1, <2>2, <3>1 DEF Swaps, Counting, Unsaved
    <3> QED
      BY <1>0, <1>a, <2>0, <2>1, <2>2, <3>1, <3>q, PersistOrders DEF Started
  <2>5. CASE Mark(e)
    <3> DEFINE place == IF e \in aborted THEN "done" ELSE "executing"
               new == Marked(e, "running")
    <3>1. /\ Persist(e, "running", new, place) /\ pc[e] = "marking" /\ UNCHANGED at
          /\ place \in Place \ {"idle", "entering", "loading", "reopening"}
      BY <2>2, <2>3, <2>5 DEF Mark, UpdateStep, AtStep
    <3>2. matched[at[e]] <= faults
      BY <3>1 DEF StepsInv, StepsCounted
    <3>3. /\ at[e] \in Step /\ new \in [Step -> Result] /\ new[at[e]] = "running"
          /\ \A s \in Step : s # at[e] => new[s] = steps[s]
      BY <2>0, <2>2, <2>3, <3>1 DEF AtStep
    <3>4. \A s \in 1 .. at[e] - 1 : new[s] = "succeeded"
      <4> SUFFICES ASSUME NEW s \in 1 .. at[e] - 1 PROVE new[s] = "succeeded"
        OBVIOUS
      <4>1. s \in Step /\ s # at[e]
        BY <1>0, <3>3 DEF Step
      <4>2. steps[s] = "succeeded"
        BY <2>1
      <4> QED
        BY <3>3, <4>1, <4>2
    <3>5. place \notin Unsaved /\ place # "evidence" /\ place # "completing"
      BY DEF Unsaved
    <3> HIDE DEF new, place
    <3>q. Swaps(e, "running", new, place)
      BY <1>0, <1>a, <2>1, <2>2, <3>1, <3>2, <3>3, <3>4, <3>5 DEF Swaps, Counting, Unsaved
    <3> QED
      BY <1>0, <1>a, <2>1, <2>2, <3>1, <3>2, <3>3, <3>4, <3>5, <3>q, PersistOrders DEF Started
  <2>6. CASE Succeed(e)
    <3> DEFINE new == Marked(e, "succeeded")
    <3>1. Persist(e, "running", new, "evidence") /\ pc[e] = "succeeding" /\ UNCHANGED at
      BY <2>3, <2>6 DEF Succeed, UpdateStep, AtStep
    <3>2. matched[at[e]] >= 1
      BY <3>1 DEF StepsInv, StepsCounted, Unsaved
    <3>3. /\ at[e] \in Step /\ new \in [Step -> Result] /\ new[at[e]] = "succeeded"
          /\ \A s \in Step : s # at[e] => new[s] = steps[s]
      BY <2>0, <2>2, <2>3, <3>1 DEF AtStep
    <3>4. \A s \in 1 .. at[e] - 1 : new[s] = "succeeded"
      <4> SUFFICES ASSUME NEW s \in 1 .. at[e] - 1 PROVE new[s] = "succeeded"
        OBVIOUS
      <4>1. s \in Step /\ s # at[e]
        BY <1>0, <3>3 DEF Step
      <4>2. steps[s] = "succeeded"
        BY <2>1
      <4> QED
        BY <3>3, <4>1, <4>2
    <3> HIDE DEF new
    <3>q. Swaps(e, "running", new, "evidence")
      BY <1>0, <1>a, <2>1, <2>2, <3>1, <3>2, <3>3, <3>4 DEF Swaps, Counting, Unsaved
    <3> QED
      BY <1>0, <1>a, <2>1, <2>2, <3>1, <3>2, <3>3, <3>4, <3>q, PersistOrders DEF Started
  <2>7. CASE Evidence(e)
    <3>1. Persist(e, "running", steps, "stepping") /\ pc[e] = "evidence"
      BY <2>3, <2>7 DEF Evidence, AtStep
    <3>2. at[e] \in Step /\ steps[at[e]] = "succeeded"
      BY <1>c, <2>3, <3>1 DEF AtStep, StepsInv, PrefixSucceeded
    <3>3. CASE pc'[e] = "stepping"
      <4>1. /\ at' \in [Exec -> 1 .. Steps + 1] /\ at'[e] = at[e] + 1
            /\ \A f \in Exec : f # e => at'[f] = at[f]
        BY <1>0, <2>7, <3>2, <3>3 DEF Evidence, Step
      <4>2. \A s \in 1 .. at'[e] - 1 : steps[s] = "succeeded"
        BY <1>0, <2>1, <3>2, <4>1 DEF Step
      <4>q. Swaps(e, "running", steps, "stepping")
        BY <1>a, <2>0, <2>1, <2>2, <3>1, <4>1, <4>2 DEF Swaps, Counting, Unsaved
      <4> QED
        BY <1>a, <2>0, <2>1, <2>2, <3>1, <4>1, <4>2, <4>q, PersistOrders DEF Started
    <3>4. CASE pc'[e] # "stepping"
      <4>1. UNCHANGED at
        BY <2>7, <3>4 DEF Evidence
      <4>q. Swaps(e, "running", steps, "stepping")
        BY <1>0, <1>a, <2>0, <2>1, <2>2, <3>1, <4>1 DEF Swaps, Counting, Unsaved
      <4> QED
        BY <1>0, <1>a, <2>0, <2>1, <2>2, <3>1, <4>1, <4>q, PersistOrders DEF Started
    <3> QED
      BY <3>3, <3>4
  <2>8. CASE Fail(e)
    <3> DEFINE new == Marked(e, "failed")
    <3>1. Persist(e, "running", new, "applying") /\ pc[e] = "failing" /\ UNCHANGED at
      BY <2>3, <2>8 DEF Fail, UpdateStep, AtStep
    <3>2. matched[at[e]] <= faults
      BY <3>1 DEF StepsInv, StepsCounted
    <3>3. /\ at[e] \in Step /\ new \in [Step -> Result] /\ new[at[e]] = "failed"
          /\ \A s \in Step : s # at[e] => new[s] = steps[s]
      BY <2>0, <2>2, <2>3, <3>1 DEF AtStep
    <3>4. \A s \in 1 .. at[e] - 1 : new[s] = "succeeded"
      <4> SUFFICES ASSUME NEW s \in 1 .. at[e] - 1 PROVE new[s] = "succeeded"
        OBVIOUS
      <4>1. s \in Step /\ s # at[e]
        BY <1>0, <3>3 DEF Step
      <4>2. steps[s] = "succeeded"
        BY <2>1
      <4> QED
        BY <3>3, <4>1, <4>2
    <3> HIDE DEF new
    <3>q. Swaps(e, "running", new, "applying")
      BY <1>0, <1>a, <2>1, <2>2, <3>1, <3>2, <3>3, <3>4 DEF Swaps, Counting, Unsaved
    <3> QED
      BY <1>0, <1>a, <2>1, <2>2, <3>1, <3>2, <3>3, <3>4, <3>q, PersistOrders DEF Started
  <2>9. CASE ApplyFailurePolicy(e)
    <3> DEFINE status == IF at[e] \in Stopping THEN "failed" ELSE "paused"
    <3>1. /\ Persist(e, status, steps, "done") /\ pc[e] = "applying" /\ UNCHANGED at
          /\ status \in Status /\ status # "completed"
      BY <2>2, <2>9 DEF ApplyFailurePolicy
    <3> HIDE DEF status
    <3>q. Swaps(e, status, steps, "done")
      BY <1>0, <1>a, <2>0, <2>1, <2>2, <3>1 DEF Swaps, Counting, Unsaved
    <3> QED
      BY <1>0, <1>a, <2>0, <2>1, <2>2, <3>1, <3>q, PersistOrders DEF Started
  <2>10. CASE Complete(e)
    <3>1. /\ Persist(e, "completed", steps, "done") /\ pc[e] = "completing"
          /\ UNCHANGED at
      BY <2>10 DEF Complete
    <3>2. at[e] = Steps + 1
      BY <3>1 DEF StepsInv, PrefixSucceeded
    <3>3. \A s \in Step : matched[s] >= 1
      BY <1>0, <2>1, <3>2 DEF Step
    <3>q. Swaps(e, "completed", steps, "done")
      BY <1>0, <1>a, <2>0, <2>1, <2>2, <3>1, <3>3 DEF Swaps, Counting, Unsaved
    <3> QED
      BY <1>0, <1>a, <2>0, <2>1, <2>2, <3>1, <3>3, <3>q, PersistOrders DEF Started
  <2> QED
    BY <2>4, <2>5, <2>6, <2>7, <2>8, <2>9, <2>10
<1> QED
  BY <1>b, <1>c

(* A cancellation keeps the steps; a crash loses results only of a run that   *)
(* nothing executes again.                                                    *)
LEMMA EndsOrder ==
    ASSUME StepsInv, RunInv', Crash \/ \E c \in Cancels : Cancel(c)
    PROVE  Ordered'
<1>0. /\ pc \in [Exec -> Place] /\ run \in Run /\ faults \in Nat
      /\ matched \in [Step -> Nat] /\ seen \in [Cancels -> Nat]
  BY DEF StepsInv, RunInv, TypeOK
<1>1. ASSUME NEW c \in Cancels, Cancel(c) PROVE Ordered'
  <2>0. UNCHANGED <<pc, at, matched>> /\ (faults' = faults \/ faults' = faults + 1)
    BY <1>1 DEF Cancel, CancelRead, CancelSwap, loops, counts, Fails
  <2>1. UNCHANGED <<pc, at, matched>> /\ faults' \in Nat /\ faults' >= faults
    BY <1>0, <2>0
  <2>2. run'.steps = run.steps /\ (run' = run \/ run'.status = "cancelled")
    <3>1. run' = run \/ run' = [run EXCEPT !.status = "cancelled", !.revision = seen[c] + 1]
      BY <1>1 DEF Cancel, CancelRead, CancelSwap
    <3> QED
      BY <1>0, <3>1 DEF Run
  <2>3. Over => Over'
    BY <2>1, <2>2 DEF Over
  <2>4. \A s \in Step : InFlight(s)' = InFlight(s)
    BY <2>1 DEF InFlight
  <2>5. \A f \in Exec : pc[f] \in Counting => at[f] \in Step
    BY DEF StepsInv, RunInv, Counting, AtStep
  <2>6. StepsCounted'
    <3>1. \A s \in Step : matched'[s] <= faults' \/ run'.steps[s] = "succeeded"
                            \/ InFlight(s)' \/ Over'
      BY <1>0, <2>1, <2>2, <2>3, <2>4 DEF StepsInv, StepsCounted
    <3>2. \A f \in Exec : pc'[f] \in Counting => matched'[at'[f]] <= faults'
      BY <1>0, <2>1, <2>5 DEF StepsInv, StepsCounted, Counting
    <3> QED
      BY <2>1, <2>2, <3>1, <3>2 DEF StepsInv, StepsCounted, Counting, Step
  <2>7. PrefixSucceeded'
    BY <2>1, <2>2 DEF StepsInv, PrefixSucceeded, Running
  <2>8. VerifiedOnce'
    BY <1>0, <2>1 DEF StepsInv, VerifiedOnce
  <2> QED
    BY <2>1, <2>2, <2>6, <2>7, <2>8 DEF Ordered, StepsInv
<1>2. CASE Crash
  <2>1. UNCHANGED <<run, at, matched, faults>> /\ (\A e \in Exec : pc'[e] \in {"idle", "done"})
        /\ \A e \in Exec : pc'[e] = "idle" => pc[e] = "idle"
    BY <1>0, <1>2 DEF Crash
  <2>2. ASSUME NEW s \in Step, InFlight(s) \/ Over PROVE Over'
    <3>1. CASE InFlight(s)
      <4>1. PICK e \in Exec : pc[e] \in Unsaved
        BY <3>1 DEF InFlight
      <4>2. run.status \in {"running", "cancelled"}
        BY <4>1 DEF StepsInv, RunInv, Works, Running, Unsaved
      <4> QED
        BY <2>1, <4>2 DEF Over
    <3>2. CASE Over
      BY <2>1, <3>2 DEF Over
    <3> QED
      BY <2>2, <3>1, <3>2
  <2>3. StepsCounted'
    BY <2>1, <2>2 DEF StepsInv, StepsCounted, Unsaved
  <2>4. PrefixSucceeded'
    BY <2>1 DEF StepsInv, PrefixSucceeded, Running
  <2>5. VerifiedOnce'
    BY <2>1 DEF StepsInv, VerifiedOnce
  <2> QED
    BY <2>1, <2>3, <2>4, <2>5 DEF Ordered, StepsInv
<1> QED
  BY <1>1, <1>2

LEMMA StepOrders == StepsInv /\ [Next]_vars => StepsInv'
<1> SUFFICES ASSUME StepsInv, [Next]_vars PROVE StepsInv'
  OBVIOUS
<1>1. RunInv'
  BY StepKeeps DEF StepsInv
<1>2. ASSUME NEW e \in Exec, Loop(e) PROVE Ordered'
  BY <1>1, <1>2, ReadsOrder, WritesOrder DEF Loop
<1>3. ASSUME Crash \/ \E c \in Cancels : Cancel(c) PROVE Ordered'
  BY <1>1, <1>3, EndsOrder
<1>4. CASE UNCHANGED vars
  <2>1. UNCHANGED <<run, pc, at, matched, faults>>
    BY <1>4 DEF vars, loops, counts
  <2>2. VerifiedOnce' /\ PrefixSucceeded'
    BY <2>1 DEF StepsInv, VerifiedOnce, PrefixSucceeded, Running
  <2>3. Over' = Over /\ \A s \in Step : InFlight(s)' = InFlight(s)
    BY <2>1 DEF Over, InFlight
  <2>4. StepsCounted'
    BY <2>1, <2>3 DEF StepsInv, StepsCounted
  <2> QED
    BY <1>1, <2>1, <2>2, <2>4 DEF StepsInv, Ordered
<1> QED
  BY <1>1, <1>2, <1>3, <1>4 DEF Next, Ordered, StepsInv

(* The invariant of the steps: the log of executions grows in the order of    *)
(* the definition, and what an execution holds is what the log says.          *)
THEOREM WorkflowStepsInvariant == Spec => []StepsInv
<1> QED
  BY InitOrders, StepOrders, PTL DEF Spec

(* Steps are executed in their order and, but for results that a failing      *)
(* write lost, once over all resumes, runners, cancellations and restarts; a  *)
(* completed run had all of them verified.                                    *)
THEOREM WorkflowStepsInOrderOnce == Spec => []StepsInOrderOnce
<1>1. StepsInv => StepsInOrderOnce
  <2> SUFFICES ASSUME StepsInv PROVE StepsInOrderOnce
    OBVIOUS
  <2>0. at \in [Exec -> 1 .. Steps + 1] /\ Steps \in Nat
    BY WorkflowAssumption DEF StepsInv, RunInv, TypeOK
  <2>1. ASSUME NEW e \in Exec, pc[e] = "executing", NEW s \in 1 .. at[e] - 1
        PROVE  run.steps[s] = "succeeded" /\ matched[s] >= 1
    <3>1. run.steps[s] = "succeeded"
      BY <2>1 DEF StepsInv, PrefixSucceeded, Running
    <3>2. s \in Step
      BY <2>0, <2>1 DEF Step
    <3> QED
      BY <3>1, <3>2 DEF StepsInv, StepsCounted
  <2> QED
    BY <2>1 DEF StepsInv, StepsInOrderOnce, InOrder
<1> QED
  BY <1>1, WorkflowStepsInvariant, PTL
=============================================================================
