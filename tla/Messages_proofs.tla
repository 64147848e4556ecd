-------------------------- MODULE Messages_proofs --------------------------
(***************************************************************************)
(* A message and what its run does, for every value of the bounds: the run *)
(* of a conversation first, then the parts that Messages instantiates, and *)
(* at the end the properties it names.                                     *)
(***************************************************************************)
EXTENDS Messages, FiniteSetTheorems, WellFoundedInduction, TLAPS


(* The actions that leave the lock and the session as they are. *)
Reply(r) == Commit(r) \/ Withdraw(r) \/ Store(r)
Starts(r) == Reserve(r) \/ Prepare(r) \/ StatusRunning(r) \/ EnterRespond(r) \/ StartRuntime(r)
Locked(r) == Acquire(r) \/ Turn(r) \/ Return(r) \/ ReturnLate(r) \/ Deadline(r)
Ends(r) == StatusCompleted(r) \/ StatusFailed(r) \/ Finish(r) \/ Stop(r) \/ Close(r)
World == Delete \/ Restore \/ Restart

LEMMA NextCases ==
    ASSUME Next
    PROVE  (\E r \in Requests : Starts(r) \/ Locked(r) \/ Reply(r) \/ Ends(r)) \/ World
  BY DEF Next, Handler, Starts, Locked, Reply, Ends, World

-----------------------------------------------------------------------------
(* Type correctness                                                         *)

LEMMA InitType == Init => TypeOK
  BY DEF Init, TypeOK, NoReservation, Steps, Statuses

LEMMA GoType ==
    ASSUME TypeOK, NEW r \in Requests, NEW from, NEW to \in Steps, Go(r, from, to)
    PROVE  /\ step' \in [Requests -> Steps] /\ step[r] = from /\ step'[r] = to
           /\ \A x \in Requests : x # r => step'[x] = step[x]
  BY DEF TypeOK, Go

LEMMA GoSteps ==
    ASSUME TypeOK, NEW r \in Requests, NEW from,
           \/ Go(r, from, "failing") \/ Go(r, from, "thinking") \/ Go(r, from, "waiting")
           \/ Go(r, from, "stopped") \/ Go(r, from, "replied") \/ Go(r, from, "closing")
           \/ Go(r, from, "committed") \/ Go(r, from, "stored")
    PROVE  step' \in [Requests -> Steps]
<1>1. {"failing", "thinking", "waiting", "stopped", "replied", "closing", "committed", "stored"}
        \subseteq Steps
  BY DEF Steps
<1> QED
  BY <1>1, GoType

Reservations == [run : Requests \cup {NoRun}, by : {"route", "respond"}, committed : BOOLEAN]

LEMMA ReservationTypes ==
    ASSUME TypeOK, NEW r \in Requests
    PROVE  /\ NoReservation \in Reservations
           /\ Reservation(r, "route") \in Reservations /\ Reservation(r, "respond") \in Reservations
           /\ Release(registry, r) \in Reservations /\ Left(r) \in Reservations
           /\ Committed(Left(r)) \in Reservations
<1>1. NoReservation \in Reservations /\ registry \in Reservations
  BY DEF NoReservation, Reservations, TypeOK
<1>2. Release(registry, r) \in Reservations /\ Left(r) \in Reservations
  BY <1>1 DEF Release, Left
<1>3. Committed(Left(r)) \in Reservations
  BY <1>2 DEF Committed, Reservations
<1> QED
  BY <1>1, <1>2, <1>3 DEF Reservation, Reservations

LEMMA PassedType ==
    ASSUME TypeOK, NEW r \in Requests
    PROVE  Passed(queue, r) \in Seq(Requests)
  BY DEF TypeOK, Passed

LEMMA AbortType ==
    ASSUME TypeOK, NEW r \in Requests, Abort(r)
    PROVE  /\ aborted' \subseteq Requests \X {"route", "respond"}
           /\ budget' \in [Requests -> {"none", "open", "stopped", "exceeded"}]
<1>1. registry.by \in {"route", "respond"}
  BY DEF TypeOK
<1>2. <<r, registry.by>> \in Requests \X {"route", "respond"}
  BY <1>1
<1> QED
  BY <1>2 DEF Abort, TypeOK

LEMMA TypeStarts ==
    ASSUME TypeOK, NEW r \in Requests, Starts(r) PROVE TypeOK'
<1> USE DEF Reservations
<1>1. CASE Reserve(r)
  <2>1. step' \in [Requests -> Steps]
    BY <1>1 DEF Reserve, Go, TypeOK, Steps
  <2>2. registry' \in Reservations
    BY <1>1, ReservationTypes DEF Reserve, TypeOK
  <2> QED
    BY <1>1, <2>1, <2>2 DEF Reserve, runtime, TypeOK
<1>2. CASE Prepare(r)
  <2>1. step' \in [Requests -> Steps]
    BY <1>2 DEF Prepare, Go, TypeOK, Steps
  <2> QED
    BY <1>2, <2>1 DEF Prepare, runtime, TypeOK
<1>3. CASE StatusRunning(r)
  <2>1. step' \in [Requests -> Steps]
    BY <1>3 DEF StatusRunning, Go, TypeOK, Steps
  <2> QED
    BY <1>3, <2>1 DEF StatusRunning, runtime, TypeOK, Statuses
<1>4. CASE EnterRespond(r)
  <2>1. step' \in [Requests -> Steps]
    BY <1>4, GoSteps DEF EnterRespond
  <2>2. registry' \in Reservations
    BY <1>4, ReservationTypes DEF EnterRespond, TypeOK
  <2>3. signal' \in [Requests -> {"route", "respond"}]
    BY <1>4 DEF EnterRespond, TypeOK
  <2> QED
    BY <1>4, <2>1, <2>2, <2>3 DEF EnterRespond, runtime, TypeOK
<1>5. CASE StartRuntime(r)
  <2>1. step' \in [Requests -> Steps]
    BY <1>5, GoSteps DEF StartRuntime
  <2>2. budget' \in [Requests -> {"none", "open", "stopped", "exceeded"}]
    BY <1>5 DEF StartRuntime, TypeOK
  <2>3. queue' = queue \/ queue' = Append(queue, r)
    BY <1>5 DEF StartRuntime
  <2>4. queue' \in Seq(Requests)
    <3>1. queue \in Seq(Requests)
      BY DEF TypeOK
    <3> QED
      BY <2>3, <3>1
  <2> QED
    BY <1>5, <2>1, <2>2, <2>4 DEF StartRuntime, TypeOK
<1> QED
  BY <1>1, <1>2, <1>3, <1>4, <1>5 DEF Starts

LEMMA TypeLocked ==
    ASSUME TypeOK, NEW r \in Requests, Locked(r) PROVE TypeOK'
<1>1. CASE Acquire(r)
  BY <1>1 DEF Acquire, handler, TypeOK
<1>2. CASE Turn(r)
  BY <1>2 DEF Turn, handler, TypeOK
<1>3. CASE Return(r) \/ ReturnLate(r)
  <2>1. step' \in [Requests -> Steps]
    BY <1>3, GoSteps DEF Return, ReturnLate, TypeOK
  <2>2. queue' \in Seq(Requests)
    BY <1>3, PassedType DEF Return, ReturnLate, Unlock
  <2> QED
    BY <1>3, <2>1, <2>2 DEF Return, ReturnLate, Unlock, TypeOK
<1>4. CASE Deadline(r)
  <2>1. step' \in [Requests -> Steps]
    BY <1>4 DEF Deadline, Go, TypeOK, Steps
  <2>2. budget' \in [Requests -> {"none", "open", "stopped", "exceeded"}]
    BY <1>4 DEF Deadline, TypeOK
  <2> QED
    BY <1>4, <2>1, <2>2 DEF Deadline, AfterDeadline, TypeOK
<1> QED
  BY <1>1, <1>2, <1>3, <1>4 DEF Locked

LEMMA TypeReply ==
    ASSUME TypeOK, NEW r \in Requests, Reply(r) PROVE TypeOK'
<1>1. step' \in [Requests -> Steps]
  BY GoSteps DEF Reply, Commit, Withdraw, Store
<1>2. registry' \in Reservations
  BY ReservationTypes DEF Reply, Commit, Withdraw, Store, TypeOK, Reservations
<1> QED
  BY <1>1, <1>2 DEF Reply, Commit, Withdraw, Store, runtime, TypeOK, Reservations

LEMMA TypeEnds ==
    ASSUME TypeOK, NEW r \in Requests, Ends(r) PROVE TypeOK'
<1> USE DEF Reservations
<1>1. CASE StatusCompleted(r)
  <2>1. step' \in [Requests -> Steps]
    BY <1>1 DEF StatusCompleted, Go, TypeOK, Steps
  <2> QED
    BY <1>1, <2>1 DEF StatusCompleted, runtime, TypeOK, Statuses, SetStatus
<1>2. CASE StatusFailed(r)
  <2>1. step' \in [Requests -> Steps]
    BY <1>2 DEF StatusFailed, Go, TypeOK, Steps
  <2> QED
    BY <1>2, <2>1, ReservationTypes DEF StatusFailed, runtime, TypeOK, Statuses, SetStatus
<1>3. CASE Finish(r)
  BY <1>3, ReservationTypes DEF Finish, runtime, TypeOK
<1>4. CASE Stop(r)
  <2>1. told' \in [Requests -> {"nothing", "stopped", "already_completed"}]
    BY <1>4 DEF Stop, StopAnswer, TypeOK
  <2>2. /\ aborted' \subseteq Requests \X {"route", "respond"}
        /\ budget' \in [Requests -> {"none", "open", "stopped", "exceeded"}]
    BY <1>4, AbortType DEF Stop, TypeOK
  <2> QED
    BY <1>4, <2>1, <2>2 DEF Stop, handler, TypeOK
<1>5. CASE Close(r)
  <2>1. /\ aborted' \subseteq Requests \X {"route", "respond"}
        /\ budget' \in [Requests -> {"none", "open", "stopped", "exceeded"}]
    BY <1>5, AbortType DEF Close, TypeOK
  <2>2. socket' \in [Requests -> {"open", "closed", "finished"}] /\ registry' \in Reservations
    BY <1>5, ReservationTypes DEF Close, TypeOK
  <2> QED
    BY <1>5, <2>1, <2>2 DEF Close, TypeOK
<1> QED
  BY <1>1, <1>2, <1>3, <1>4, <1>5 DEF Ends

LEMMA TypeWorld == ASSUME TypeOK, World PROVE TypeOK'
<1>1. CASE Delete \/ Restore
  BY <1>1 DEF Delete, Restore, handler, runtime, TypeOK, Statuses
<1>2. CASE Restart
  <2>1. /\ step' \in [Requests -> Steps]
        /\ socket' \in [Requests -> {"open", "closed", "finished"}]
    BY <1>2 DEF Restart, TypeOK, Steps
  <2>2. registry' \in Reservations
    BY <1>2 DEF Restart, NoReservation, Reservations
  <2>3. session' \in [status : Statuses, before : Statuses]
    BY <1>2 DEF Restart, TypeOK, Statuses, AtBoot
  <2> QED
    BY <1>2, <2>1, <2>2, <2>3 DEF Restart, TypeOK, Reservations
<1> QED
  BY <1>1, <1>2 DEF World

LEMMA TypeStep == TypeOK /\ [Next]_vars => TypeOK'
<1> SUFFICES ASSUME TypeOK, [Next]_vars PROVE TypeOK'
  OBVIOUS
<1>1. CASE Next
  BY <1>1, NextCases, TypeStarts, TypeLocked, TypeReply, TypeEnds, TypeWorld
<1>2. CASE UNCHANGED vars
  BY <1>2 DEF vars, TypeOK
<1> QED
  BY <1>1, <1>2

-----------------------------------------------------------------------------
(* The session file has one writer                                          *)

LEMMA HeadRunsStep == TypeOK /\ HeadRuns /\ [Next]_vars => HeadRuns'
<1> SUFFICES ASSUME TypeOK, HeadRuns, [Next]_vars PROVE HeadRuns'
  OBVIOUS
<1>1. CASE UNCHANGED <<queue, running>>
  BY <1>1 DEF HeadRuns
<1>2. ASSUME NEW r \in Requests, Starts(r) PROVE HeadRuns'
  <2>1. CASE StartRuntime(r) /\ queue' = Append(queue, r) /\ UNCHANGED running
    BY <2>1 DEF HeadRuns, TypeOK
  <2> QED
    BY <1>1, <1>2, <2>1 DEF Starts, Reserve, Prepare, StatusRunning, EnterRespond,
                            StartRuntime, runtime
<1>3. ASSUME NEW r \in Requests, Locked(r) PROVE HeadRuns'
  <2>1. CASE Acquire(r)
    BY <2>1 DEF Acquire, HeadRuns
  <2>2. CASE Return(r) \/ ReturnLate(r)
    BY <2>2 DEF Return, ReturnLate, Unlock, HeadRuns
  <2>3. CASE Turn(r) \/ Deadline(r)
    BY <1>1, <2>3 DEF Turn, Deadline, AfterDeadline
  <2> QED
    BY <1>3, <2>1, <2>2, <2>3 DEF Locked
<1>4. ASSUME NEW r \in Requests, Reply(r) \/ Ends(r) PROVE HeadRuns'
  BY <1>1, <1>4 DEF Reply, Commit, Withdraw, Store, Ends, StatusCompleted, StatusFailed,
                    Finish, Stop, Close, runtime
<1>5. CASE World
  BY <1>1, <1>5 DEF World, Delete, Restore, Restart, runtime, HeadRuns
<1>6. CASE UNCHANGED vars
  BY <1>1, <1>6 DEF vars
<1> QED
  BY <1>2, <1>3, <1>4, <1>5, <1>6, NextCases

-----------------------------------------------------------------------------
(* A session that shows a run has one                                       *)

StatusInv == RunningHasRun /\ (Deleted => deletes > 0)

(* The runs and the status, where the status does not become "running". *)
LEMMA StatusKept ==
    ASSUME StatusInv, UNCHANGED <<session, deletes>>,
           \A r \in Requests : InRun(r) => InRun(r)'
    PROVE  StatusInv'
  BY DEF StatusInv, RunningHasRun, Deleted

LEMMA InRunMoves ==
    ASSUME TypeOK, NEW r \in Requests, NEW from, NEW to \in Steps, Go(r, from, to),
           InRun(r) => to \notin {"new", "reserved", "starting", "answered"}
    PROVE  \A x \in Requests : InRun(x) => InRun(x)'
  BY GoType DEF InRun, Steps

LEMMA StatusStep == TypeOK /\ StatusInv /\ [Next]_vars => StatusInv'
<1> SUFFICES ASSUME TypeOK, StatusInv, [Next]_vars PROVE StatusInv'
  OBVIOUS
<1>0. deletes \in Nat
  BY DEF TypeOK
<1>1. CASE UNCHANGED <<step, session, deletes>>
  BY <1>1, StatusKept DEF InRun
<1>2. ASSUME NEW r \in Requests, Starts(r) PROVE StatusInv'
  <2>1. CASE StatusRunning(r) /\ ~Deleted
    <3>1. step'[r] = "entering" /\ session'.status # "deleted" /\ UNCHANGED deletes
      BY <2>1 DEF StatusRunning, Go, TypeOK, Deleted
    <3>2. InRun(r)'
      BY <3>1 DEF InRun
    <3> QED
      BY <3>1, <3>2 DEF StatusInv, RunningHasRun, Deleted
  <2>2. CASE (StatusRunning(r) /\ Deleted) \/ Reserve(r) \/ Prepare(r)
    <3>1. UNCHANGED <<session, deletes>> /\ ~InRun(r)
      BY <2>2 DEF StatusRunning, Reserve, Prepare, Go, InRun
    <3>2. \A x \in Requests : InRun(x) => InRun(x)'
      BY <2>2, <3>1 DEF StatusRunning, Reserve, Prepare, Go, InRun, TypeOK
    <3> QED
      BY <3>1, <3>2, StatusKept
  <2>3. CASE EnterRespond(r) \/ StartRuntime(r)
    <3>1. UNCHANGED <<session, deletes>>
      BY <2>3 DEF EnterRespond, StartRuntime
    <3>2. \A x \in Requests : InRun(x) => InRun(x)'
      BY <2>3 DEF EnterRespond, StartRuntime, Go, InRun, TypeOK
    <3> QED
      BY <3>1, <3>2, StatusKept
  <2> QED
    BY <1>2, <2>1, <2>2, <2>3 DEF Starts
<1>3. ASSUME NEW r \in Requests, Locked(r) \/ Reply(r) PROVE StatusInv'
  <2>1. UNCHANGED <<session, deletes>>
    BY <1>3 DEF Locked, Acquire, Turn, Return, ReturnLate, Unlock, Deadline,
                Reply, Commit, Withdraw, Store
  <2>2. \A x \in Requests : InRun(x) => InRun(x)'
    BY <1>3 DEF Locked, Acquire, Turn, Return, ReturnLate, Deadline, Reply, Commit,
                Withdraw, Store, Go, InRun, TypeOK, handler
  <2> QED
    BY <2>1, <2>2, StatusKept
<1>4. ASSUME NEW r \in Requests, Ends(r) PROVE StatusInv'
  <2>1. CASE StatusCompleted(r) \/ StatusFailed(r)
    <3>1. CASE Deleted
      <4>1. Deleted' /\ deletes' = deletes
        BY <2>1, <3>1 DEF StatusCompleted, StatusFailed, Deleted
      <4> QED
        BY <3>1, <4>1 DEF StatusInv, RunningHasRun, Deleted
    <3>2. CASE ~Deleted
      <4>1. \E s \in {"completed", "failed"} : session' = [session EXCEPT !.status = s]
        BY <2>1, <3>2 DEF StatusCompleted, StatusFailed, SetStatus
      <4> QED
        BY <4>1 DEF StatusInv, RunningHasRun, Deleted
    <3> QED
      BY <3>1, <3>2
  <2>2. CASE Finish(r) \/ Stop(r) \/ Close(r)
    BY <1>1, <2>2 DEF Finish, Stop, Close, handler
  <2> QED
    BY <1>4, <2>1, <2>2 DEF Ends
<1>5. CASE World
  <2>1. CASE Delete
    BY <1>0, <2>1 DEF Delete, StatusInv, RunningHasRun, Deleted
  <2>2. CASE Restore
    BY <1>0, <2>2 DEF Restore, StatusInv, RunningHasRun, Deleted
  <2>3. CASE Restart
    <3>1. session'.status # "running" /\ (Deleted' => Deleted) /\ UNCHANGED deletes
      BY <2>3 DEF Restart, AtBoot, Deleted
    <3> QED
      BY <3>1 DEF StatusInv, RunningHasRun, Deleted
  <2> QED
    BY <1>5, <2>1, <2>2, <2>3 DEF World
<1>6. CASE UNCHANGED vars
  BY <1>1, <1>6 DEF vars
<1> QED
  BY <1>2, <1>3, <1>4, <1>5, <1>6, NextCases

-----------------------------------------------------------------------------
(* A stop is final                                                          *)

Decisions(r) == ReservationHeld(r) /\ StopDecided(r)

(* What a step of one request leaves to the others. *)
MovedBy(r) ==
    /\ \A x \in Requests \ {r} :
          /\ step'[x] = step[x] /\ socket'[x] = socket[x]
          /\ signal'[x] = signal[x] /\ told'[x] = told[x]
          /\ budget'[x] = "open" => budget[x] = "open"
    /\ aborted \subseteq aborted'
    /\ \/ registry' = registry
       \/ registry.run \in {NoRun, r} /\ registry'.run \in {NoRun, r}

LEMMA OthersDecided ==
    ASSUME TypeOK, NEW r \in Requests, MovedBy(r), NEW x \in Requests \ {r}, Decisions(x)
    PROVE  Decisions(x)'
<1>1. /\ step'[x] = step[x] /\ socket'[x] = socket[x]
      /\ signal'[x] = signal[x] /\ told'[x] = told[x]
      /\ budget'[x] = "open" => budget[x] = "open"
      /\ aborted \subseteq aborted' /\ x # NoRun
  BY RunIdAssumption DEF MovedBy
<1>2. CASE registry' = registry
  BY <1>1, <1>2 DEF Decisions, ReservationHeld, StopDecided
<1>3. CASE registry.run \in {NoRun, r} /\ registry'.run \in {NoRun, r}
  BY <1>1, <1>3 DEF Decisions, ReservationHeld, StopDecided
<1> QED
  BY <1>2, <1>3 DEF MovedBy

LEMMA ReleaseRun ==
    ASSUME TypeOK, NEW r \in Requests
    PROVE  \A reg \in {Release(registry, r), Left(r)} :
             \/ reg = registry
             \/ registry.run = r /\ reg.run = NoRun /\ ~reg.committed
  BY DEF Release, Left, NoReservation

LEMMA AbortFrame ==
    ASSUME TypeOK, NEW r \in Requests, Abort(r)
    PROVE  /\ aborted \subseteq aborted' /\ <<r, registry.by>> \in aborted'
           /\ \A x \in Requests : budget'[x] = "open" => budget[x] = "open"
           /\ signal[r] = registry.by => budget'[r] # "open"
  BY DEF Abort, TypeOK

LEMMA StartsMove ==
    ASSUME TypeOK, NEW r \in Requests, Starts(r) PROVE MovedBy(r)
<1>1. CASE Reserve(r)
  BY <1>1 DEF Reserve, Go, NoReservation, Reservation, MovedBy, TypeOK, runtime
<1>2. CASE Prepare(r) \/ StatusRunning(r)
  BY <1>2 DEF Prepare, StatusRunning, Go, MovedBy, TypeOK, runtime
<1>3. CASE EnterRespond(r)
  BY <1>3 DEF EnterRespond, Go, Reservation, MovedBy, TypeOK, runtime
<1>4. CASE StartRuntime(r)
  BY <1>4 DEF StartRuntime, Go, MovedBy, TypeOK
<1> QED
  BY <1>1, <1>2, <1>3, <1>4 DEF Starts

LEMMA LockedMove ==
    ASSUME TypeOK, NEW r \in Requests, Locked(r) PROVE MovedBy(r)
  BY DEF Locked, Acquire, Turn, Return, ReturnLate, Unlock, Deadline, Go, MovedBy, TypeOK, handler

LEMMA ReplyMove ==
    ASSUME TypeOK, NEW r \in Requests, Reply(r) PROVE MovedBy(r)
<1>1. CASE Commit(r)
  <2>1. Left(r).run = r
    BY <1>1 DEF Commit, MayCommit
  <2>2. Left(r) = registry /\ registry.run = r
    BY <2>1, ReleaseRun, RunIdAssumption
  <2>3. registry'.run = r
    BY <1>1, <2>2 DEF Commit, Committed, TypeOK
  <2> QED
    BY <1>1, <2>2, <2>3 DEF Commit, Go, MovedBy, TypeOK, runtime
<1>2. CASE Withdraw(r)
  <2>1. registry' = registry \/ (registry.run = r /\ registry'.run = NoRun)
    BY <1>2, ReleaseRun DEF Withdraw
  <2> QED
    BY <1>2, <2>1 DEF Withdraw, Go, MovedBy, TypeOK, runtime
<1>3. CASE Store(r)
  BY <1>3 DEF Store, Go, MovedBy, TypeOK, runtime
<1> QED
  BY <1>1, <1>2, <1>3 DEF Reply

LEMMA EndsMove ==
    ASSUME TypeOK, NEW r \in Requests, Ends(r) PROVE MovedBy(r)
<1>1. CASE StatusCompleted(r)
  BY <1>1 DEF StatusCompleted, Go, MovedBy, TypeOK, runtime
<1>2. CASE StatusFailed(r)
  <2>1. registry' = registry \/ (registry.run = r /\ registry'.run = NoRun)
    BY <1>2, ReleaseRun DEF StatusFailed
  <2> QED
    BY <1>2, <2>1 DEF StatusFailed, Go, MovedBy, TypeOK, runtime
<1>3. CASE Finish(r)
  <2>1. registry' = registry \/ (registry.run = r /\ registry'.run = NoRun)
    BY <1>3, ReleaseRun DEF Finish
  <2> QED
    BY <1>3, <2>1 DEF Finish, MovedBy, TypeOK, runtime
<1>4. CASE Stop(r)
  <2>1. aborted \subseteq aborted' /\ \A x \in Requests : budget'[x] = "open" => budget[x] = "open"
    BY <1>4, AbortFrame DEF Stop
  <2> QED
    BY <1>4, <2>1 DEF Stop, MovedBy, TypeOK, handler
<1>5. CASE Close(r)
  <2>1. aborted \subseteq aborted' /\ \A x \in Requests : budget'[x] = "open" => budget[x] = "open"
    BY <1>5, AbortFrame DEF Close
  <2>2. registry' = registry \/ (registry.run = r /\ registry'.run = NoRun)
    BY <1>5, ReleaseRun DEF Close
  <2> QED
    BY <1>5, <2>1, <2>2 DEF Close, MovedBy, TypeOK
<1> QED
  BY <1>1, <1>2, <1>3, <1>4, <1>5 DEF Ends

LEMMA StartsDecide ==
    ASSUME TypeOK, NEW r \in Requests, Decisions(r), Starts(r) PROVE Decisions(r)'
<1> USE DEF Decisions, ReservationHeld, StopDecided
<1>1. CASE Reserve(r)
  <2>1. /\ step[r] = "new" /\ told'[r] = "nothing" /\ UNCHANGED <<socket, signal>>
        /\ step'[r] = IF registry = NoReservation THEN "reserved" ELSE "answered"
    BY <1>1 DEF Reserve, Go, TypeOK
  <2>2. CASE registry = NoReservation
    BY <1>1, <2>1, <2>2 DEF Reserve, Reservation
  <2>3. CASE registry # NoReservation
    BY <1>1, <2>1, <2>3 DEF Reserve
  <2> QED
    BY <2>2, <2>3
<1>2. CASE Prepare(r) \/ StatusRunning(r)
  <2>1. /\ step[r] \in {"reserved", "starting"}
        /\ step'[r] \in {"starting", "entering", "answered"}
        /\ UNCHANGED <<socket, registry, aborted, signal, budget, told>>
    BY <1>2 DEF Prepare, StatusRunning, Go, TypeOK, runtime
  <2> QED
    BY <2>1
<1>3. CASE EnterRespond(r)
  <2>1. /\ step[r] = "entering" /\ step'[r] \in {"failing", "thinking"}
        /\ UNCHANGED <<socket, aborted, budget, told>>
    BY <1>3 DEF EnterRespond, Go, TypeOK, runtime
  <2>2. CASE registry.run = r
    BY <1>3, <2>1, <2>2 DEF EnterRespond, TypeOK
  <2>3. CASE registry.run # r
    <3>1. socket[r] # "open"
      BY <2>1, <2>3
    <3>2. registry'.run = r => ~registry'.committed
      BY <1>3, <2>3 DEF EnterRespond, Reservation
    <3> QED
      BY <2>1, <3>1, <3>2
  <2> QED
    BY <2>2, <2>3
<1>4. CASE StartRuntime(r)
  <2>1. /\ step[r] = "thinking" /\ step'[r] \in {"stopped", "waiting"}
        /\ UNCHANGED <<socket, registry, aborted, signal, told>>
        /\ step'[r] = "stopped" => UNCHANGED budget
        /\ step'[r] = "waiting" => ~Stopped(r)
    BY <1>4 DEF StartRuntime, Go, TypeOK
  <2> QED
    BY <2>1 DEF Stopped
<1> QED
  BY <1>1, <1>2, <1>3, <1>4 DEF Starts

LEMMA LockedDecide ==
    ASSUME TypeOK, NEW r \in Requests, Decisions(r), Locked(r) PROVE Decisions(r)'
<1>1. /\ UNCHANGED <<socket, registry, aborted, signal, told>>
      /\ budget'[r] = "open" => budget[r] = "open"
      /\ \/ step'[r] = step[r]
         \/ step[r] = "waiting" /\ step'[r] \in {"replied", "failing", "stopped"}
  BY DEF Locked, Acquire, Turn, Return, ReturnLate, Unlock, Deadline, Go, TypeOK, handler
<1> QED
  BY <1>1 DEF Decisions, ReservationHeld, StopDecided

LEMMA ReplyDecides ==
    ASSUME TypeOK, NEW r \in Requests, Decisions(r), Reply(r) PROVE Decisions(r)'
<1> USE DEF Decisions, ReservationHeld, StopDecided
<1>1. CASE Commit(r)
  <2>1. /\ step[r] = "replied" /\ step'[r] = "committed" /\ <<r, "route">> \notin aborted
        /\ UNCHANGED <<socket, aborted, signal, told, budget>>
    BY <1>1 DEF Commit, Go, TypeOK, runtime
  <2>2. Left(r) = registry /\ registry.run = r
    BY <1>1, ReleaseRun, RunIdAssumption DEF Commit, MayCommit
  <2>3. registry'.run = r /\ registry'.by = registry.by /\ registry'.committed
    BY <1>1, <2>2 DEF Commit, Committed, TypeOK
  <2> QED
    BY <2>1, <2>2, <2>3
<1>2. CASE Withdraw(r)
  <2>1. /\ step[r] \in {"stopped", "replied"} /\ step'[r] = "closing"
        /\ UNCHANGED <<socket, aborted, signal, told, budget>>
        /\ registry' = Left(r)
    BY <1>2 DEF Withdraw, Go, TypeOK, runtime
  <2>2. CASE signal[r] = "route"
    BY <2>1, <2>2 DEF Left
  <2>3. CASE signal[r] # "route"
    BY <2>1, <2>3, ReleaseRun, RunIdAssumption
  <2> QED
    BY <2>2, <2>3
<1>3. CASE Store(r)
  <2>1. /\ step[r] = "committed" /\ step'[r] \in {"stored", "failing"}
        /\ UNCHANGED <<socket, registry, aborted, signal, told, budget>>
    BY <1>3 DEF Store, Go, TypeOK, runtime
  <2> QED
    BY <2>1
<1> QED
  BY <1>1, <1>2, <1>3 DEF Reply

LEMMA EndsDecide ==
    ASSUME TypeOK, NEW r \in Requests, Decisions(r), Ends(r) PROVE Decisions(r)'
<1> USE DEF Decisions, ReservationHeld, StopDecided
<1>1. CASE StatusCompleted(r)
  <2>1. /\ step[r] \in {"stored", "closing"} /\ step'[r] \in {"failing", "answered"}
        /\ UNCHANGED <<socket, registry, aborted, signal, told, budget>>
    BY <1>1 DEF StatusCompleted, Go, TypeOK, runtime
  <2> QED
    BY <2>1
<1>2. CASE StatusFailed(r)
  <2>1. /\ step[r] = "failing" /\ step'[r] = "answered" /\ registry' = Left(r)
        /\ UNCHANGED <<socket, aborted, signal, told, budget>>
    BY <1>2 DEF StatusFailed, Go, TypeOK, runtime
  <2>2. CASE signal[r] = "route"
    BY <2>1, <2>2 DEF Left
  <2>3. CASE signal[r] # "route"
    BY <2>1, <2>3, ReleaseRun, RunIdAssumption
  <2> QED
    BY <2>2, <2>3
<1>3. CASE Finish(r)
  <2>1. /\ step[r] = "answered" /\ socket'[r] = "finished"
        /\ UNCHANGED <<step, aborted, signal, told, budget>>
        /\ registry' = registry \/ ~registry'.committed
    BY <1>3, ReleaseRun DEF Finish, TypeOK, runtime
  <2> QED
    BY <2>1
<1>4. CASE Stop(r)
  <2>1. /\ registry.run = r /\ UNCHANGED <<step, socket, registry, signal>>
        /\ told'[r] = StopAnswer(r) /\ StopAnswer(r) \in {"stopped", "already_completed"}
        /\ StopAnswer(r) = "stopped" <=> ~registry.committed
    BY <1>4 DEF Stop, StopAnswer, handler, TypeOK
  <2>2. CASE StopAnswer(r) = "stopped"
    BY <1>4, <2>1, <2>2, AbortFrame DEF Stop
  <2>3. CASE StopAnswer(r) # "stopped"
    BY <1>4, <2>1, <2>3 DEF Stop
  <2> QED
    BY <2>2, <2>3
<1>5. CASE Close(r)
  <2>1. /\ step[r] # "new" /\ socket'[r] = "closed" /\ UNCHANGED <<step, signal, told>>
        /\ registry' = registry \/ ~registry'.committed
    BY <1>5, ReleaseRun DEF Close, TypeOK
  <2> QED
    BY <2>1
<1> QED
  BY <1>1, <1>2, <1>3, <1>4, <1>5 DEF Ends

LEMMA DecisionsStep ==
    ASSUME TypeOK, \A r \in Requests : Decisions(r), [Next]_vars
    PROVE  \A r \in Requests : Decisions(r)'
<1>1. ASSUME NEW r \in Requests, Starts(r) \/ Locked(r) \/ Reply(r) \/ Ends(r)
      PROVE  \A x \in Requests : Decisions(x)'
  <2>1. MovedBy(r)
    BY <1>1, StartsMove, LockedMove, ReplyMove, EndsMove
  <2>2. Decisions(r)'
    BY <1>1, StartsDecide, LockedDecide, ReplyDecides, EndsDecide
  <2> QED
    BY <2>1, <2>2, OthersDecided
<1>2. CASE Delete \/ Restore \/ UNCHANGED vars
  <2>1. UNCHANGED <<step, socket, registry, aborted, signal, budget, told>>
    BY <1>2 DEF Delete, Restore, vars, handler, runtime
  <2> QED
    BY <2>1 DEF Decisions, ReservationHeld, StopDecided
<1>3. CASE Restart
  <2>1. ASSUME NEW r \in Requests
        PROVE  /\ registry'.run # r /\ told'[r] = "nothing" /\ signal'[r] = "route"
               /\ step'[r] \in {"new", "answered"}
               /\ step'[r] = "new" => socket'[r] = "open"
    BY <1>3, RunIdAssumption DEF Restart, NoReservation
  <2> QED
    BY <2>1 DEF Decisions, ReservationHeld, StopDecided
<1> QED
  BY <1>1, <1>2, <1>3, NextCases DEF World

-----------------------------------------------------------------------------
(* The invariant and what follows from it                                   *)

LEMMA InitInv == Init => RunInv
<1> SUFFICES ASSUME Init PROVE RunInv
  OBVIOUS
<1>1. TypeOK
  BY InitType
<1>2. HeadRuns /\ RunningHasRun /\ ~Deleted
  BY DEF Init, HeadRuns, RunningHasRun, Deleted
<1>3. \A r \in Requests : ReservationHeld(r) /\ StopDecided(r)
  BY RunIdAssumption DEF Init, NoReservation, ReservationHeld, StopDecided
<1> QED
  BY <1>1, <1>2, <1>3 DEF RunInv

(* One operation at the head of the lock, reservations that belong to the   *)
(* client that is connected, and decisions of Stop that stand: these hold   *)
(* together in every reachable state.                                       *)
THEOREM ConversationInvariant == Spec => []RunInv
<1>1. RunInv /\ [Next]_vars => RunInv'
  BY TypeStep, HeadRunsStep, StatusStep, DecisionsStep DEF RunInv, StatusInv, Decisions
<1> QED
  BY <1>1, InitInv, PTL DEF Spec

(* A session file has one writer at a time, also while an operation whose   *)
(* caller was answered at the deadline is still running, and a session      *)
(* shows a run only while it has one, also after a restart.                 *)
THEOREM ConversationRunAccountedFor == Spec => []RunAccountedFor
<1>1. RunInv => RunAccountedFor
  BY DEF RunInv, HeadRuns, RunAccountedFor, OneOperation
<1> QED
  BY <1>1, ConversationInvariant, PTL

LEMMA StopStays ==
    ASSUME RunInv, [Next]_vars, NEW r \in Requests
    PROVE  /\ told[r] = "stopped" /\ socket[r] = "open" =>
                turns'[r] <= turns[r] /\ ~(step[r] = "committed" /\ step'[r] = "stored")
           /\ told'[r] = "already_completed" /\ told[r] # told'[r] =>
                step[r] \in {"committed", "stored", "failing", "answered"}
<1>0. TypeOK /\ StopDecided(r) /\ turns[r] \in Nat
  BY DEF RunInv, TypeOK
<1>1. ASSUME told[r] = "stopped", socket[r] = "open" PROVE turns'[r] <= turns[r]
  <2>1. budget[r] # "open"
    BY <1>0, <1>1 DEF StopDecided
  <2>2. turns'[r] = turns[r] \/ turns'[r] = 0
    <3>1. ASSUME NEW x \in Requests, Turn(x) PROVE turns'[r] = turns[r]
      BY <1>0, <2>1, <3>1 DEF Turn, TypeOK
    <3>2. ASSUME NEW x \in Requests, Starts(x) \/ Locked(x) \/ Reply(x) \/ Ends(x)
          PROVE  turns'[r] = turns[r]
      BY <3>1, <3>2 DEF Starts, Reserve, Prepare, StatusRunning, EnterRespond, StartRuntime,
           Locked, Acquire, Return, ReturnLate, Unlock, Deadline, Reply, Commit, Withdraw, Store,
           Ends, StatusCompleted, StatusFailed, Finish, Stop, Close, runtime
    <3>3. CASE World
      BY <3>3 DEF World, Delete, Restore, Restart, runtime
    <3>4. CASE UNCHANGED vars
      BY <3>4 DEF vars
    <3> QED
      BY <3>2, <3>3, <3>4, NextCases
  <2> QED
    BY <1>0, <2>2
<1>2. ASSUME told'[r] = "already_completed", told[r] # told'[r]
      PROVE  registry.run = r /\ registry.committed
  <2>1. ASSUME NEW x \in Requests, Stop(x) PROVE registry.run = r /\ registry.committed
    BY <1>0, <1>2, <2>1 DEF Stop, StopAnswer, TypeOK
  <2>2. ASSUME NEW x \in Requests, Starts(x) \/ Locked(x) \/ Reply(x) \/ Ends(x)
        PROVE  registry.run = r /\ registry.committed
    BY <1>2, <2>1, <2>2 DEF Starts, Reserve, Prepare, StatusRunning, EnterRespond, StartRuntime,
         Locked, Acquire, Turn, Return, ReturnLate, Unlock, Deadline, Reply, Commit, Withdraw,
         Store, Ends, StatusCompleted, StatusFailed, Finish, Close
  <2>3. CASE World
    BY <1>2, <2>3 DEF World, Delete, Restore, Restart
  <2>4. CASE UNCHANGED vars
    BY <1>2, <2>4 DEF vars
  <2> QED
    BY <2>2, <2>3, <2>4, NextCases
<1> QED
  BY <1>0, <1>1, <1>2 DEF StopDecided

(* After Stop answered "stopped" to a connected client its run takes no     *)
(* turn and stores no answer; after "already_completed" the answer exists.  *)
THEOREM ConversationStopHolds == Spec => StopHolds
<1>1. RunInv /\ [Next]_vars =>
        [\A r \in Requests :
           /\ told[r] = "stopped" /\ socket[r] = "open" =>
                turns'[r] <= turns[r] /\ ~(step[r] = "committed" /\ step'[r] = "stored")
           /\ told'[r] = "already_completed" /\ told[r] # told'[r] =>
                step[r] \in {"committed", "stored", "failing", "answered"}]_vars
  BY StopStays
<1> QED
  BY <1>1, ConversationInvariant, PTL DEF Spec, StopHolds

(***************************************************************************)
(* The facts and the investigations that rest on them.                     *)
(***************************************************************************)

(* What every step leaves of the facts that are there.                       *)
FactsGrow ==
  /\ ledger' \in Seq(Facts!FactRecord) /\ Len(ledger') \in Nat /\ Len(ledger') >= Len(ledger)
  /\ \A i \in Facts!Facts :
       /\ ledger'[i].task = ledger[i].task /\ ledger'[i].slot = ledger[i].slot
       /\ ledger'[i].from = ledger[i].from /\ ledger'[i].origin = ledger[i].origin
       /\ Facts!Current(ledger'[i]) => Facts!Current(ledger[i])
FactsStay == FactsGrow /\ Len(ledger') = Len(ledger)

(* A fact of the ledger is a record, and so is one whose status changes.     *)
LEMMA FactTypes ==
    ASSUME Facts!TypeOK
    PROVE  /\ Len(ledger) \in Nat
           /\ \A i \in Facts!Facts :
                   /\ i \in Nat /\ ledger[i] \in Facts!FactRecord /\ ledger[i].task \in Facts!Owners
                   /\ ledger[i].from \subseteq Nat
                   /\ ledger[i].origin \subseteq Facts!Owners \X Nat
<1>1. ledger \in Seq(Facts!FactRecord)
  BY DEF Facts!TypeOK
<1>2. Len(ledger) \in Nat /\ \A i \in 1 .. Len(ledger) : i \in Nat /\ ledger[i] \in Facts!FactRecord
  BY <1>1
<1>3. \A r \in Facts!FactRecord : /\ r.task \in Facts!Owners /\ r.from \subseteq Nat
                            /\ r.origin \subseteq Facts!Owners \X Nat
  BY DEF Facts!FactRecord
<1> QED
  BY <1>2, <1>3 DEF Facts!Facts

(* A step that leaves the ledger alone keeps every fact.                     *)
LEMMA FactsAsTheyAre ==
    ASSUME Facts!TypeOK, ledger' = ledger PROVE FactsStay
  BY DEF Facts!TypeOK, FactsStay, FactsGrow, Facts!Facts

(* A step that restates some facts: only a current one may be current after. *)
LEMMA FactsRestated ==
    ASSUME Facts!TypeOK, NEW new, new = [i \in Facts!Facts |-> new[i]], ledger' = new,
           \A i \in Facts!Facts :
             \/ new[i] = ledger[i]
             \/ \E s \in {"observed", "verified", "stale", "superseded", "rejected"} :
                  /\ new[i] = [ledger[i] EXCEPT !.status = s]
                  /\ s \in {"observed", "verified"} => Facts!Current(ledger[i])
    PROVE  FactsStay
<1>1. Len(ledger) \in Nat
  BY FactTypes
<1>2. \A i \in Facts!Facts :
        /\ new[i] \in Facts!FactRecord
        /\ new[i].task = ledger[i].task /\ new[i].slot = ledger[i].slot
        /\ new[i].from = ledger[i].from /\ new[i].origin = ledger[i].origin
        /\ Facts!Current(new[i]) => Facts!Current(ledger[i])
  <2> SUFFICES ASSUME NEW i \in Facts!Facts
               PROVE  /\ new[i] \in Facts!FactRecord
                      /\ new[i].task = ledger[i].task /\ new[i].slot = ledger[i].slot
                      /\ new[i].from = ledger[i].from /\ new[i].origin = ledger[i].origin
                      /\ Facts!Current(new[i]) => Facts!Current(ledger[i])
    OBVIOUS
  <2>1. ledger[i] \in Facts!FactRecord
    BY FactTypes
  <2>2. CASE new[i] = ledger[i]
    BY <2>1, <2>2
  <2>3. CASE new[i] # ledger[i]
    <3>1. PICK s \in {"observed", "verified", "stale", "superseded", "rejected"} :
                  /\ new[i] = [ledger[i] EXCEPT !.status = s]
                  /\ s \in {"observed", "verified"} => Facts!Current(ledger[i])
      BY <2>3
    <3> QED
      BY <2>1, <3>1 DEF Facts!FactRecord, Facts!Current
  <2> QED
    BY <2>2, <2>3
<1>3. new \in [1 .. Len(ledger) -> Facts!FactRecord]
  <2>1. \A i \in 1 .. Len(ledger) : new[i] \in Facts!FactRecord
    <3> SUFFICES ASSUME NEW i \in 1 .. Len(ledger) PROVE new[i] \in Facts!FactRecord
      OBVIOUS
    <3>1. i \in Facts!Facts
      BY DEF Facts!Facts
    <3> QED
      BY <1>2, <3>1
  <2>2. new = [i \in 1 .. Len(ledger) |-> new[i]]
    BY DEF Facts!Facts
  <2> QED
    BY <2>1, <2>2
<1>4. new \in Seq(Facts!FactRecord) /\ Len(new) = Len(ledger)
  BY <1>1, <1>3
<1>5. Facts!Facts \subseteq 1 .. Len(new)
  BY <1>4 DEF Facts!Facts
<1> QED
  BY <1>2, <1>4, <1>5 DEF FactsStay, FactsGrow

(* A step that verifies nothing new keeps one answer to a question.          *)
LEMMA FactsOneValue ==
    ASSUME Facts!TypeOK, Facts!OneValue, FactsGrow,
           \A i \in 1 .. Len(ledger') : ledger'[i].status = "verified" =>
             i \in Facts!Facts /\ ledger[i].status = "verified"
    PROVE  Facts!OneValue'
  BY DEF Facts!OneValue, FactsGrow, Facts!SameSlot, Facts!Facts

(* expire only makes current facts stale.                                    *)
LEMMA FactsSwept ==
    ASSUME Facts!TypeOK, Facts!OneValue, ledger' = Facts!Swept
    PROVE  FactsStay /\ Facts!OneValue'
<1>1. /\ Facts!Swept = [i \in Facts!Facts |-> Facts!Swept[i]]
      /\ \A i \in Facts!Facts : Facts!Swept[i] = IF i \in due /\ Facts!Current(ledger[i])
                            THEN [ledger[i] EXCEPT !.status = "stale"] ELSE ledger[i]
  BY DEF Facts!Swept
<1>2. FactsStay
  BY <1>1, FactsRestated
<1>3. \A i \in 1 .. Len(ledger') : ledger'[i].status = "verified" =>
             i \in Facts!Facts /\ ledger[i].status = "verified"
  <2> SUFFICES ASSUME NEW i \in Facts!Facts, ledger'[i].status = "verified"
               PROVE  ledger[i].status = "verified"
    BY <1>2 DEF FactsStay, Facts!Facts
  <2>1. ledger[i] \in Facts!FactRecord
    BY FactTypes
  <2> QED
    BY <1>1, <2>1 DEF Facts!FactRecord
<1> QED
  BY <1>2, <1>3, FactsOneValue DEF FactsStay

(* verify supersedes what was verified for the same slot.                    *)
LEMMA FactsVerified ==
    ASSUME Facts!TypeOK, Facts!OneValue, NEW c, Facts!Verifiable(c), Facts!Verify(c)
    PROVE  FactsStay /\ Facts!OneValue'
<1> DEFINE f == [j \in Facts!Facts |-> IF j = c THEN [ledger[j] EXCEPT !.status = "verified"]
                                 ELSE IF Facts!Replaced(c, j)
                                      THEN [ledger[j] EXCEPT !.status = "superseded"]
                                      ELSE ledger[j]]
<1>1. ledger' = f /\ f = [j \in Facts!Facts |-> f[j]]
  BY DEF Facts!Verify
<1>2. \A j \in Facts!Facts : f[j] = IF j = c THEN [ledger[j] EXCEPT !.status = "verified"]
                              ELSE IF Facts!Replaced(c, j)
                                   THEN [ledger[j] EXCEPT !.status = "superseded"] ELSE ledger[j]
  OBVIOUS
<1> HIDE DEF f
<1>3. FactsStay
  <2>1. c \in Facts!Facts => Facts!Current(ledger[c])
    BY DEF Facts!Verifiable, Facts!Current
  <2> QED
    BY <1>1, <1>2, <2>1, FactsRestated
<1>4. \A j \in Facts!Facts : f[j].status = "verified" =>
         \/ j = c
         \/ ledger[j].status = "verified" /\ ~Facts!SameSlot(c, j)
  <2> SUFFICES ASSUME NEW j \in Facts!Facts, f[j].status = "verified", j # c
               PROVE  ledger[j].status = "verified" /\ ~Facts!SameSlot(c, j)
    OBVIOUS
  <2>1. ledger[j] \in Facts!FactRecord
    BY FactTypes
  <2>2. CASE Facts!Replaced(c, j)
    BY <1>2, <2>1, <2>2 DEF Facts!FactRecord
  <2>3. CASE ~Facts!Replaced(c, j)
    BY <1>2, <2>3 DEF Facts!Replaced
  <2> QED
    BY <2>2, <2>3
<1>5. Facts!OneValue'
  <2> SUFFICES ASSUME NEW i \in Facts!Facts, NEW j \in Facts!Facts, f[i].status = "verified",
                      f[j].status = "verified", Facts!SameSlot(i, j)
               PROVE  i = j
    BY <1>1, <1>3 DEF Facts!OneValue, FactsStay, FactsGrow, Facts!SameSlot, Facts!Facts
  <2>1. CASE i = c \/ j = c
    BY <2>1, <1>4 DEF Facts!SameSlot
  <2>2. CASE i # c /\ j # c
    BY <2>2, <1>4 DEF Facts!OneValue
  <2> QED
    BY <2>1, <2>2
<1> QED
  BY <1>3, <1>5

(* reject leaves a superseded fact as it is.                                 *)
LEMMA FactsRejected ==
    ASSUME Facts!TypeOK, Facts!OneValue, NEW c, Facts!Reject(c)
    PROVE  FactsStay /\ Facts!OneValue'
<1>1. CASE c \in Facts!Facts
  <2> DEFINE s == IF ledger[c].status = "superseded" THEN "superseded" ELSE "rejected"
             r == [ledger[c] EXCEPT !.status = s]
             f == [ledger EXCEPT ![c] = r]
  <2>1. ledger' = f
    BY DEF Facts!Reject
  <2>2. ledger \in [Facts!Facts -> Facts!FactRecord]
    BY DEF Facts!TypeOK, Facts!Facts
  <2>3. ledger[c] \in Facts!FactRecord /\ r.status = s /\ s \in {"superseded", "rejected"}
    BY <1>1, FactTypes DEF Facts!FactRecord
  <2>4. f = [i \in Facts!Facts |-> f[i]] /\ \A i \in Facts!Facts : f[i] = IF i = c THEN r ELSE ledger[i]
    BY <2>2, <1>1
  <2>5. FactsStay
    <3> HIDE DEF f
    <3>1. \A i \in Facts!Facts :
            \/ f[i] = ledger[i]
            \/ f[i] = [ledger[i] EXCEPT !.status = s]
      BY <2>4
    <3> HIDE DEF s
    <3> QED
      BY <2>1, <2>3, <2>4, <3>1, FactsRestated
  <2>6. \A i \in 1 .. Len(ledger') : ledger'[i].status = "verified" =>
             i \in Facts!Facts /\ ledger[i].status = "verified"
    <3> HIDE DEF f, r, s
    <3> QED
      BY <2>1, <2>3, <2>4, <2>5 DEF FactsStay, Facts!Facts
  <2> QED
    BY <2>5, <2>6, FactsOneValue DEF FactsStay
<1>2. CASE c \notin Facts!Facts
  <2>1. ledger' = ledger
    BY <1>2 DEF Facts!Reject, Facts!TypeOK, Facts!Facts
  <2> QED
    BY <2>1, FactsAsTheyAre DEF Facts!OneValue, Facts!SameSlot, Facts!Facts
<1> QED
  BY <1>1, <1>2

(* The facts of a task whose page changed are current no more.               *)
LEMMA FactsChanged ==
    ASSUME Facts!TypeOK, Facts!OneValue, NEW S \in SUBSET Facts!Owners, Facts!Changed(S)
    PROVE  /\ FactsStay /\ Facts!OneValue'
           /\ page' \in [Facts!Owners -> Nat]
           /\ \A t \in Facts!Owners \ S : page'[t] = page[t]
           /\ \A i \in Facts!Facts : ledger[i].task \in S => ~Facts!Current(ledger'[i])
<1> DEFINE new == [i \in Facts!Facts |-> IF ledger[i].task \in S /\ Facts!Current(ledger[i])
                                 THEN [ledger[i] EXCEPT !.status = "stale"] ELSE ledger[i]]
<1>1. ledger' = new /\ new = [i \in Facts!Facts |-> new[i]]
  BY DEF Facts!Changed
<1>2. \A i \in Facts!Facts : new[i] = IF ledger[i].task \in S /\ Facts!Current(ledger[i])
                              THEN [ledger[i] EXCEPT !.status = "stale"] ELSE ledger[i]
  OBVIOUS
<1> HIDE DEF new
<1>3. FactsStay
  BY <1>1, <1>2, FactsRestated
<1>4. \A i \in Facts!Facts :
        /\ new[i].status = "verified" => ledger[i].status = "verified"
        /\ ledger[i].task \in S => ~Facts!Current(new[i])
  <2> SUFFICES ASSUME NEW i \in Facts!Facts
               PROVE  /\ new[i].status = "verified" => ledger[i].status = "verified"
                      /\ ledger[i].task \in S => ~Facts!Current(new[i])
    OBVIOUS
  <2>1. ledger[i] \in Facts!FactRecord
    BY FactTypes
  <2> QED
    BY <1>2, <2>1 DEF Facts!FactRecord, Facts!Current
<1>5. Facts!OneValue'
  <2>1. FactsGrow /\ Len(ledger') = Len(ledger)
    BY <1>3 DEF FactsStay
  <2>2. \A i \in 1 .. Len(ledger') : i \in Facts!Facts
    BY <2>1 DEF Facts!Facts
  <2>3. \A i \in Facts!Facts : ledger'[i].status = "verified" => ledger[i].status = "verified"
    BY <1>1, <1>4
  <2> QED
    BY <2>1, <2>2, <2>3, FactsOneValue
<1>6. page' \in [Facts!Owners -> Nat] /\ \A t \in Facts!Owners \ S : page'[t] = page[t]
  BY DEF Facts!Changed, Facts!TypeOK
<1>7. \A i \in Facts!Facts : ledger[i].task \in S => ~Facts!Current(ledger'[i])
  BY <1>1, <1>4
<1> QED
  BY <1>3, <1>5, <1>6, <1>7

(* A new fact at the end.                                                     *)
LEMMA FactsAppended ==
    ASSUME Facts!TypeOK, Facts!OneValue, NEW x \in Facts!FactRecord, x.status = "observed",
           ledger' = Append(ledger, x)
    PROVE  /\ FactsGrow /\ Facts!OneValue' /\ Len(ledger') = Len(ledger) + 1
           /\ ledger'[Len(ledger) + 1] = x
<1>1. /\ ledger \in Seq(Facts!FactRecord) /\ Len(ledger) \in Nat
      /\ ledger' \in Seq(Facts!FactRecord) /\ Len(ledger') = Len(ledger) + 1
      /\ ledger'[Len(ledger) + 1] = x
      /\ \A i \in Facts!Facts : ledger'[i] = ledger[i]
  BY DEF Facts!TypeOK, Facts!Facts
<1>2. FactsGrow
  <2>1. Len(ledger') \in Nat /\ Len(ledger') >= Len(ledger)
    BY <1>1
  <2>2. \A i \in Facts!Facts :
          /\ ledger'[i].task = ledger[i].task /\ ledger'[i].slot = ledger[i].slot
          /\ ledger'[i].from = ledger[i].from /\ ledger'[i].origin = ledger[i].origin
          /\ Facts!Current(ledger'[i]) => Facts!Current(ledger[i])
    <3> SUFFICES ASSUME NEW i \in Facts!Facts, ledger'[i] = ledger[i]
                 PROVE  Facts!Current(ledger'[i]) => Facts!Current(ledger[i])
      BY <1>1
    <3> QED
      BY DEF Facts!Current
  <2> QED
    BY <1>1, <2>1, <2>2 DEF FactsGrow
<1>3. \A i \in 1 .. Len(ledger') : ledger'[i].status = "verified" =>
             i \in Facts!Facts /\ ledger[i].status = "verified"
  BY <1>1 DEF Facts!Facts
<1> QED
  BY <1>1, <1>2, <1>3, FactsOneValue

(* A derived fact names its sources and carries their origins.               *)
LEMMA FactsDerived ==
    ASSUME Facts!TypeOK, Facts!OneValue, NEW t \in Facts!Owners, NEW slot \in Guards \cup {"metric"},
           NEW i \in Facts!Facts, Facts!Derived(t, slot, {i})
    PROVE  /\ FactsGrow /\ Facts!OneValue' /\ Len(ledger') = Len(ledger) + 1 /\ due' \subseteq Nat
           /\ ledger'[Len(ledger) + 1].from = {i} \cup ledger[i].from
           /\ ledger'[Len(ledger) + 1].origin = ledger[i].origin
<1> DEFINE x == [task |-> t, slot |-> slot, status |-> "observed",
                 from |-> {i} \cup ledger[i].from, origin |-> ledger[i].origin]
<1>1. ledger[i] \in Facts!FactRecord /\ i \in Nat /\ Len(ledger) \in Nat
  BY FactTypes
<1>2. x \in Facts!FactRecord /\ x.status = "observed" /\ x.from = {i} \cup ledger[i].from
      /\ x.origin = ledger[i].origin
  BY <1>1 DEF Facts!FactRecord
<1>3. ledger' = Append(ledger, x)
  <2>1. UNION {ledger[j].from : j \in {i}} = ledger[i].from
        /\ UNION {ledger[j].origin : j \in {i}} = ledger[i].origin
    OBVIOUS
  <2> QED
    BY <2>1 DEF Facts!Derived
<1>4. due' \subseteq Nat
  <2>1. due' = due \/ due' = due \cup {Len(ledger) + 1}
    BY DEF Facts!Derived
  <2>2. due \subseteq Nat /\ Len(ledger) + 1 \in Nat
    BY <1>1 DEF Facts!TypeOK
  <2> QED
    BY <2>1, <2>2
<1> HIDE DEF x
<1> QED
  BY <1>2, <1>3, <1>4, FactsAppended

(* An observed fact carries the page it was seen on.                         *)
LEMMA FactsSeen ==
    ASSUME Facts!TypeOK, Facts!OneValue, NEW t \in Tasks, NEW slot \in Guards \cup {"metric"}, Facts!Seen(t, slot)
    PROVE  /\ FactsGrow /\ Facts!OneValue' /\ Len(ledger') = Len(ledger) + 1 /\ due' = due
           /\ ledger'[Len(ledger) + 1].from = {} /\ ledger'[Len(ledger) + 1].task = t
           /\ ledger'[Len(ledger) + 1].origin = {<<t, page[t]>>}
<1> DEFINE x == [task |-> t, slot |-> slot, status |-> "observed",
                 from |-> {}, origin |-> {<<t, page[t]>>}]
<1>1. t \in Facts!Owners /\ page[t] \in Nat
  BY DEF Facts!Owners, Facts!TypeOK
<1>2. x \in Facts!FactRecord /\ x.status = "observed" /\ x.from = {} /\ x.task = t
      /\ x.origin = {<<t, page[t]>>}
  BY <1>1 DEF Facts!FactRecord
<1>3. ledger' = Append(ledger, x) /\ due' = due
  BY DEF Facts!Seen
<1> HIDE DEF x
<1> QED
  BY <1>2, <1>3, FactsAppended

-----------------------------------------------------------------------------
(* What a step does to the facts, whatever else it does                     *)

FactsKnown ==
  /\ ledger \in Seq(Facts!FactRecord) /\ \A i \in Facts!Facts : ledger[i].from \subseteq Facts!Facts
  /\ Facts!SeenOnPages /\ Facts!OneValue

(* The lineage of facts: themselves and what they name.                      *)
LEMMA FactsLineage ==
    /\ \A i, j : j \in Facts!Lineage({i}) <=> j = i \/ j \in ledger[i].from
    /\ \A i, j : j \in Facts!Lineage({i})' <=> j = i \/ j \in ledger'[i].from
  BY DEF Facts!Lineage

(* Where a fact was seen stays known while the ledger only grows.            *)
LEMMA FactsSeenStill ==
    ASSUME Facts!TypeOK, Facts!NamesFacts, Facts!SeenOnPages, FactsGrow,
           \A j \in Facts!Facts : Facts!Current(ledger'[j]) => page'[ledger[j].task] = page[ledger[j].task]
    PROVE  \A i \in Facts!Facts : \A o \in ledger'[i].origin : Facts!SeenBy(i, o)'
<1> SUFFICES ASSUME NEW i \in Facts!Facts, NEW o \in ledger'[i].origin PROVE Facts!SeenBy(i, o)'
  OBVIOUS
<1>1. o \in ledger[i].origin
  BY DEF FactsGrow
<1>2. PICK j \in Facts!Lineage({i}) :
        ledger[j].task = o[1] /\ (Facts!Current(ledger[j]) => page[o[1]] = o[2])
  BY <1>1 DEF Facts!SeenOnPages, Facts!SeenBy
<1>3. j = i \/ j \in ledger[i].from
  BY <1>2, FactsLineage
<1>4. j \in Facts!Facts
  BY <1>3 DEF Facts!NamesFacts
<1>5. j \in Facts!Lineage({i})'
  BY <1>3, FactsLineage DEF FactsGrow
<1>6. ledger'[j].task = o[1] /\ (Facts!Current(ledger'[j]) => page'[o[1]] = o[2])
  BY <1>2, <1>4 DEF FactsGrow
<1> QED
  BY <1>5, <1>6 DEF Facts!SeenBy

(* A step that adds no fact keeps what is known of them.                     *)
LEMMA FactsStayKnown ==
    ASSUME Facts!TypeOK, Facts!NamesFacts, Facts!SeenOnPages, FactsStay, Facts!OneValue',
           \A j \in Facts!Facts : Facts!Current(ledger'[j]) => page'[ledger[j].task] = page[ledger[j].task]
    PROVE  FactsKnown' /\ FactsGrow /\ Facts!Facts' = Facts!Facts
<1>1. Facts!Facts' = Facts!Facts /\ FactsGrow
  BY DEF FactsStay, Facts!Facts
<1>2. \A i \in Facts!Facts : ledger'[i].from \subseteq Facts!Facts'
  BY <1>1 DEF FactsGrow, Facts!NamesFacts
<1>3. Facts!SeenOnPages'
  BY <1>1, FactsSeenStill DEF Facts!SeenOnPages
<1> QED
  BY <1>1, <1>2, <1>3 DEF FactsKnown, FactsGrow

(* A step that adds one fact keeps what is known of them.                    *)
LEMMA FactsGrowKnown ==
    ASSUME Facts!TypeOK, Facts!NamesFacts, Facts!SeenOnPages, FactsGrow, Facts!OneValue', page' = page,
           NEW n, n = Len(ledger) + 1, Len(ledger') = n, ledger'[n].from \subseteq Facts!Facts,
           \A o \in ledger'[n].origin : Facts!SeenBy(n, o)'
    PROVE  FactsKnown' /\ Facts!Facts' = Facts!Facts \cup {n} /\ n \in Nat
<1>1. Facts!Facts' = Facts!Facts \cup {n} /\ n \in Nat
  BY FactTypes DEF Facts!Facts
<1>2. \A i \in Facts!Facts' : ledger'[i].from \subseteq Facts!Facts'
  BY <1>1 DEF FactsGrow, Facts!NamesFacts
<1>3. \A i \in Facts!Facts : \A o \in ledger'[i].origin : Facts!SeenBy(i, o)'
  BY FactsSeenStill
<1>4. Facts!SeenOnPages'
  BY <1>1, <1>3 DEF Facts!SeenOnPages
<1> QED
  BY <1>1, <1>2, <1>4 DEF FactsKnown, FactsGrow

(* The steps of the ledger in which no page changes.                         *)
LEMMA FactsRestate ==
    ASSUME Facts!EvidenceInv, page' = page,
           \/ ledger' = ledger
           \/ ledger' = Facts!Swept
           \/ \E c : Facts!Verifiable(c) /\ Facts!Verify(c)
           \/ \E c : Facts!Reject(c)
    PROVE  FactsKnown' /\ FactsGrow /\ Facts!Facts' = Facts!Facts
<1>1. FactsStay /\ Facts!OneValue'
  <2>1. CASE ledger' = ledger
    BY <2>1, FactsAsTheyAre DEF Facts!EvidenceInv, Facts!OneValue, Facts!SameSlot, Facts!Facts
  <2>2. CASE ledger' = Facts!Swept
    BY <2>2, FactsSwept DEF Facts!EvidenceInv
  <2>3. CASE \E c : Facts!Verifiable(c) /\ Facts!Verify(c)
    BY <2>3, FactsVerified DEF Facts!EvidenceInv
  <2>4. CASE \E c : Facts!Reject(c)
    BY <2>4, FactsRejected DEF Facts!EvidenceInv
  <2> QED
    BY <2>1, <2>2, <2>3, <2>4
<1> QED
  BY <1>1, FactsStayKnown DEF Facts!EvidenceInv

(* A change of pages keeps what is known of the facts.                       *)
LEMMA FactsTurn ==
    ASSUME Facts!EvidenceInv, NEW S \in SUBSET Facts!Owners, Facts!Changed(S)
    PROVE  FactsKnown' /\ FactsGrow /\ Facts!Facts' = Facts!Facts /\ page' \in [Facts!Owners -> Nat]
<1>1. /\ FactsStay /\ Facts!OneValue' /\ page' \in [Facts!Owners -> Nat]
      /\ \A t \in Facts!Owners \ S : page'[t] = page[t]
      /\ \A i \in Facts!Facts : ledger[i].task \in S => ~Facts!Current(ledger'[i])
  BY FactsChanged DEF Facts!EvidenceInv
<1>2. \A j \in Facts!Facts : Facts!Current(ledger'[j]) => page'[ledger[j].task] = page[ledger[j].task]
  BY <1>1, FactTypes DEF Facts!EvidenceInv
<1> QED
  BY <1>1, <1>2, FactsStayKnown DEF Facts!EvidenceInv

(* Deriving a fact keeps what is known of the facts.                         *)
LEMMA FactsDerive ==
    ASSUME Facts!EvidenceInv, page' = page, NEW t \in Facts!Owners, NEW slot \in Guards \cup {"metric"},
           NEW i \in Facts!Facts, Facts!Derived(t, slot, {i})
    PROVE  /\ FactsKnown' /\ FactsGrow /\ due' \subseteq Nat
           /\ Facts!Facts' = Facts!Facts \cup {Len(ledger) + 1} /\ Len(ledger) + 1 \in Nat
<1>0. PICK n : n = Len(ledger) + 1
  OBVIOUS
<1>1. /\ FactsGrow /\ Facts!OneValue' /\ Len(ledger') = n /\ n = Len(ledger) + 1 /\ due' \subseteq Nat
      /\ ledger'[n].from = {i} \cup ledger[i].from
      /\ ledger'[n].origin = ledger[i].origin
  BY <1>0, FactsDerived DEF Facts!EvidenceInv
<1>2. ledger'[n].from \subseteq Facts!Facts
  BY <1>1 DEF Facts!EvidenceInv, Facts!NamesFacts
<1>3. \A o \in ledger'[n].origin : Facts!SeenBy(n, o)'
  <2> SUFFICES ASSUME NEW o \in ledger[i].origin PROVE Facts!SeenBy(n, o)'
    BY <1>1
  <2>1. Facts!SeenBy(i, o)'
    <3>1. \A j \in Facts!Facts : Facts!Current(ledger'[j]) => page'[ledger[j].task] = page[ledger[j].task]
      OBVIOUS
    <3>2. o \in ledger'[i].origin
      BY <1>1 DEF FactsGrow
    <3> QED
      BY <1>1, <3>1, <3>2, FactsSeenStill DEF Facts!EvidenceInv
  <2>2. \A j : j \in Facts!Lineage({i})' => j \in Facts!Lineage({n})'
    <3> SUFFICES ASSUME NEW j, j = i \/ j \in ledger'[i].from
                 PROVE  j \in ledger'[n].from
      BY FactsLineage
    <3> QED
      BY <1>1 DEF FactsGrow
  <2> QED
    BY <2>1, <2>2 DEF Facts!SeenBy
<1> QED
  BY <1>1, <1>2, <1>3, FactsGrowKnown DEF Facts!EvidenceInv

(* Observing a fact keeps what is known of the facts.                        *)
LEMMA FactsSee ==
    ASSUME Facts!EvidenceInv, page' = page, NEW t \in Tasks, NEW slot \in Guards \cup {"metric"},
           Facts!Seen(t, slot)
    PROVE  /\ FactsKnown' /\ FactsGrow /\ due' = due
           /\ Facts!Facts' = Facts!Facts \cup {Len(ledger) + 1} /\ Len(ledger) + 1 \in Nat
<1>0. PICK n : n = Len(ledger) + 1
  OBVIOUS
<1>1. /\ FactsGrow /\ Facts!OneValue' /\ Len(ledger') = n /\ n = Len(ledger) + 1 /\ due' = due
      /\ ledger'[n].from = {} /\ ledger'[n].task = t
      /\ ledger'[n].origin = {<<t, page[t]>>}
  BY <1>0, FactsSeen DEF Facts!EvidenceInv
<1>2. n \in Facts!Lineage({n})'
  BY FactsLineage
<1>3. \A o \in ledger'[n].origin : Facts!SeenBy(n, o)'
  <2> SUFFICES ASSUME NEW o, o = <<t, page[t]>> PROVE Facts!SeenBy(n, o)'
    BY <1>1
  <2>1. o[1] = t /\ o[2] = page[t]
    OBVIOUS
  <2> QED
    BY <1>1, <1>2, <2>1 DEF Facts!SeenBy
<1> QED
  BY <1>1, <1>3, FactsGrowKnown DEF Facts!EvidenceInv

-----------------------------------------------------------------------------
(* The steps of the tasks                                                   *)

EvidenceTypes ==
  /\ due \subseteq Nat /\ page \in [Facts!Owners -> Nat]
  /\ phase \in [Tasks -> {"none", "intake", "investigating", "awaiting_approval", "completed",
                          "blocked", "cancelled"}]
  /\ pc \in [Tasks -> Facts!Steps] /\ stop \subseteq Tasks
  /\ inherit \in [Tasks -> [todo : SUBSET Nat, copy : Nat]]
  /\ tool \in [Tasks -> Facts!ToolCall] /\ created \in [Tasks -> SUBSET Approvals]
  /\ approval \in [Approvals -> [status : Facts!Open \cup {"none", "rejected", "cancelled", "executing",
                                                    "executed", "failed"},
                                task : Facts!Owners, facts : SUBSET Nat]]
  /\ request \in [Approvals -> {"none", "review", "approve", "commit", "act"}]
  /\ acts \in Nat /\ factsChanges \in Nat /\ lapses \in Nat

EvidenceNames ==
  /\ \A t \in Tasks : /\ inherit[t].todo \subseteq Facts!Facts /\ tool[t].ids \subseteq Facts!Facts
                      /\ tool[t].at \in {"derive", "attest"} => tool[t].src \in Facts!Facts
  /\ \A a \in Approvals : approval[a].facts \subseteq Facts!Facts

(* The inductive invariant, part by part, now and next.                      *)
LEMMA EvidenceParts ==
    /\ Facts!EvidenceInv => EvidenceTypes /\ EvidenceNames /\ FactsKnown
    /\ (FactsKnown /\ EvidenceTypes /\ EvidenceNames /\ Facts!OpenKept /\ Facts!CancelledIsOver)' => Facts!EvidenceInv'
<1>1. Facts!TypeOK <=> ledger \in Seq(Facts!FactRecord) /\ EvidenceTypes
  BY DEF Facts!TypeOK, EvidenceTypes
<1>2. Facts!TypeOK' <=> (ledger \in Seq(Facts!FactRecord) /\ EvidenceTypes)'
  BY DEF Facts!TypeOK, EvidenceTypes
<1> QED
  BY <1>1, <1>2 DEF Facts!EvidenceInv, Facts!NamesFacts, EvidenceNames, FactsKnown

(* The next step of runTask is one of its steps, also after a stop.          *)
LEMMA TaskGoes ==
    ASSUME Facts!EvidenceInv, NEW t \in Tasks, NEW to \in Facts!Steps, Facts!Go(t, to)
    PROVE  pc' \in [Tasks -> Facts!Steps] /\ pc'[t] = to /\ \A u \in Tasks : u # t => pc'[u] = pc[u]
  BY DEF Facts!EvidenceInv, Facts!TypeOK, Facts!Go

(* The steps of runTask that change neither the ledger nor an approval.      *)
LEMMA TaskSteps ==
    ASSUME Facts!EvidenceInv, NEW t \in Tasks,
           \/ Facts!StartTask(t) \/ Facts!ModelEnds(t) \/ Facts!Deadline(t) \/ Facts!Finish(t) \/ Facts!Return(t)
           \/ Facts!Cancelled(t) \/ Facts!Block(t) \/ Facts!Stop(t)
    PROVE  Facts!EvidenceInv' /\ FactsGrow
<1>1. UNCHANGED <<ledger, due, page, inherit, tool, created, approval, request, acts, factsChanges, lapses>>
  BY DEF Facts!StartTask, Facts!ModelEnds, Facts!Deadline, Facts!Finish, Facts!Return, Facts!Cancelled, Facts!Block, Facts!Stop
<1>2. FactsKnown' /\ FactsGrow /\ Facts!Facts' = Facts!Facts
  BY <1>1, FactsRestate
<1>3. \/ stop' = stop /\ \E to \in Facts!Steps : Facts!Go(t, to)
      \/ pc' = pc /\ stop' = stop \cup {t}
  BY DEF Facts!StartTask, Facts!ModelEnds, Facts!Deadline, Facts!Finish, Facts!Return, Facts!Cancelled, Facts!Block, Facts!Stop, Facts!GoActive, Facts!Steps
<1>4. /\ pc' \in [Tasks -> Facts!Steps] /\ stop' \subseteq Tasks
      /\ \A u \in Tasks : u # t => pc'[u] = pc[u]
  BY <1>3, TaskGoes DEF Facts!EvidenceInv, Facts!TypeOK
<1>5. \/ phase' = phase
      \/ \E v \in {"intake", "awaiting_approval", "completed", "blocked", "cancelled"} :
           phase' = [phase EXCEPT ![t] = v]
  <2>1. CASE Facts!Finish(t)
    <3>1. phase \in [Tasks -> {"none", "intake", "investigating", "awaiting_approval", "completed",
                               "blocked", "cancelled"}]
      BY DEF Facts!EvidenceInv, Facts!TypeOK
    <3>2. CASE t \in stop
      BY <2>1, <3>1, <3>2 DEF Facts!Finish
    <3>3. CASE t \notin stop
      BY <2>1, <3>3 DEF Facts!Finish
    <3> QED
      BY <3>2, <3>3
  <2> QED
    BY <2>1 DEF Facts!StartTask, Facts!ModelEnds, Facts!Deadline, Facts!Return, Facts!Cancelled, Facts!Block, Facts!Stop
<1>6. /\ phase' \in [Tasks -> {"none", "intake", "investigating", "awaiting_approval", "completed",
                               "blocked", "cancelled"}]
      /\ \A u \in Tasks : u # t => phase'[u] = phase[u]
  BY <1>5 DEF Facts!EvidenceInv, Facts!TypeOK
<1>7. EvidenceTypes' /\ EvidenceNames' /\ Facts!OpenKept'
  BY <1>1, <1>2, <1>4, <1>6, EvidenceParts DEF Facts!EvidenceInv, EvidenceTypes, EvidenceNames, Facts!OpenKept
<1>8. Facts!CancelledIsOver'
  <2> SUFFICES ASSUME NEW u \in Tasks
               PROVE  /\ pc'[u] \notin {"model", "block", "done"} => tool[u] = Facts!Idle
                      /\ phase'[u] = "cancelled" =>
                            pc'[u] = "done" /\ created[u] = {} /\ tool[u] = Facts!Idle
    BY <1>1 DEF Facts!CancelledIsOver, Facts!Idle
  <2>1. /\ pc[u] \notin {"model", "block", "done"} => tool[u] = Facts!Idle
        /\ phase[u] = "cancelled" => pc[u] = "done" /\ created[u] = {} /\ tool[u] = Facts!Idle
    BY DEF Facts!EvidenceInv, Facts!CancelledIsOver
  <2>2. CASE u # t
    BY <2>1, <2>2, <1>4, <1>6
  <2>3. CASE u = t /\ pc' # pc
    <3>1. PICK to \in Facts!Steps : Facts!Go(t, to)
      BY <1>3, <2>3
    <3>2. pc'[t] = to
      BY <3>1, TaskGoes
    <3>3. phase[t] # "cancelled" \/ Facts!Stop(t)
      BY <2>1, <2>3 DEF Facts!StartTask, Facts!ModelEnds, Facts!Deadline, Facts!Finish, Facts!Return, Facts!Cancelled, Facts!Block
    <3>4. phase'[t] = "cancelled" => Facts!Cancelled(t) \/ phase'[t] = phase[t]
      BY <1>1 DEF Facts!EvidenceInv, Facts!TypeOK, Facts!StartTask, Facts!ModelEnds, Facts!Deadline, Facts!Finish, Facts!Return, Facts!Block, Facts!Stop
    <3>5. tool[t] = Facts!Idle \/ to \in {"block", "done"}
      BY <2>1, <2>3, <3>2, <1>4 DEF Facts!StartTask, Facts!ModelEnds, Facts!Deadline, Facts!Finish, Facts!Return, Facts!Cancelled, Facts!Block,
         Facts!Stop, Facts!Go, Facts!EvidenceInv, Facts!TypeOK
    <3>6. Facts!Cancelled(t) => to = "done" /\ created[t] = {} /\ tool[t] = Facts!Idle
      BY <2>1, <2>3, <3>2 DEF Facts!Cancelled, Facts!Go, Facts!EvidenceInv, Facts!TypeOK
    <3>7. ~Facts!Stop(t)
      BY <2>3 DEF Facts!Stop
    <3> QED
      BY <2>3, <3>2, <3>3, <3>4, <3>5, <3>6, <3>7
  <2>4. CASE u = t /\ pc' = pc
    <3>1. Facts!Stop(t) \/ phase' = phase \/ phase'[t] # "cancelled" \/ pc[t] = "done"
      BY <2>4, <1>6 DEF Facts!StartTask, Facts!ModelEnds, Facts!Deadline, Facts!Finish, Facts!Return, Facts!Cancelled, Facts!Block, Facts!Go, Facts!GoActive,
         Facts!EvidenceInv, Facts!TypeOK
    <3> QED
      BY <2>1, <2>4, <3>1 DEF Facts!Stop, Facts!StartTask, Facts!ModelEnds, Facts!Deadline, Facts!Finish, Facts!Return, Facts!Cancelled, Facts!Block, Facts!Go,
         Facts!EvidenceInv, Facts!TypeOK
  <2> QED
    BY <2>2, <2>3, <2>4
<1> QED
  BY <1>2, <1>7, <1>8, EvidenceParts

(* Each task has its own place, and only a task in its tools has a call.      *)
LEMMA TaskKeepsOver ==
    ASSUME Facts!EvidenceInv, NEW t \in Tasks, UNCHANGED <<tool, created>>,
           \A u \in Tasks : u # t => pc'[u] = pc[u] /\ phase'[u] = phase[u],
           pc[t] \in {"inherit", "copy"}, phase'[t] # "cancelled"
    PROVE  Facts!CancelledIsOver'
<1> SUFFICES ASSUME NEW u \in Tasks
             PROVE  /\ pc'[u] \notin {"model", "block", "done"} => tool[u] = Facts!Idle
                    /\ phase'[u] = "cancelled" => pc'[u] = "done" /\ created[u] = {} /\ tool[u] = Facts!Idle
  BY DEF Facts!CancelledIsOver, Facts!Idle
<1> QED
  BY DEF Facts!EvidenceInv, Facts!CancelledIsOver

(* The oldest of the facts to copy exists.                                    *)
LEMMA OldestExists ==
    ASSUME NEW S \in SUBSET Nat, S # {}
    PROVE  Facts!Oldest(S) \in S
<1>1. \E i \in S : \A j \in S : i <= j
  <2>1. PICK i \in S : \A j \in S : <<j, i>> \notin OpToRel(<, Nat)
    BY NatLessThanWellFounded, WFMin
  <2>2. \A j \in S : ~(j < i)
    BY <2>1 DEF OpToRel
  <2> QED
    BY <2>2
<1> QED
  BY <1>1 DEF Facts!Oldest

(* runTask lists the facts that it may use.                                  *)
LEMMA TaskInherits ==
    ASSUME Facts!EvidenceInv, NEW t \in Tasks, Facts!Inherit(t) \/ Facts!Investigate(t)
    PROVE  Facts!EvidenceInv' /\ FactsGrow
<1>1. /\ ledger' = Facts!Swept /\ pc[t] \in {"inherit", "copy"}
      /\ UNCHANGED <<due, page, stop, tool, created, approval, request, acts, factsChanges, lapses>>
  BY DEF Facts!Inherit, Facts!Investigate
<1>2. FactsKnown' /\ FactsGrow /\ Facts!Facts' = Facts!Facts
  BY <1>1, FactsRestate
<1>3. \E to \in Facts!Steps : Facts!Go(t, to)
  BY DEF Facts!Inherit, Facts!Investigate, Facts!GoActive, Facts!Steps
<1>4. pc' \in [Tasks -> Facts!Steps] /\ \A u \in Tasks : u # t => pc'[u] = pc[u]
  BY <1>3, TaskGoes
<1>5. /\ phase' \in [Tasks -> {"none", "intake", "investigating", "awaiting_approval", "completed",
                               "blocked", "cancelled"}]
      /\ \A u \in Tasks : u # t => phase'[u] = phase[u]
      /\ phase'[t] # "cancelled"
  <2>1. phase[t] # "cancelled"
    BY <1>1 DEF Facts!EvidenceInv, Facts!CancelledIsOver
  <2> QED
    BY <2>1 DEF Facts!Inherit, Facts!Investigate, Facts!EvidenceInv, Facts!TypeOK
<1>6. /\ inherit' \in [Tasks -> [todo : SUBSET Nat, copy : Nat]]
      /\ \A u \in Tasks : inherit'[u].todo \subseteq Facts!Facts
  <2>1. /\ inherit \in [Tasks -> [todo : SUBSET Nat, copy : Nat]]
        /\ \A u \in Tasks : inherit[u].todo \subseteq Facts!Facts
    BY DEF Facts!EvidenceInv, Facts!TypeOK, Facts!NamesFacts
  <2>2. CASE Facts!Investigate(t)
    BY <2>1, <2>2 DEF Facts!Investigate
  <2>3. CASE Facts!Inherit(t)
    <3> DEFINE S == {i \in Facts!Facts : Facts!Usable(i)}
               r == [inherit[t] EXCEPT !.todo = S]
    <3>1. inherit' = [inherit EXCEPT ![t] = r]
      BY <2>3 DEF Facts!Inherit
    <3>2. S \subseteq Facts!Facts /\ S \subseteq Nat
      BY FactTypes DEF Facts!EvidenceInv
    <3> HIDE DEF S
    <3>3. r \in [todo : SUBSET Nat, copy : Nat] /\ r.todo = S
      BY <2>1, <3>2
    <3> HIDE DEF r
    <3> QED
      BY <2>1, <3>1, <3>2, <3>3
  <2> QED
    BY <2>2, <2>3
<1>7. EvidenceTypes' /\ EvidenceNames' /\ Facts!OpenKept'
  BY <1>1, <1>2, <1>4, <1>5, <1>6, EvidenceParts
  DEF Facts!EvidenceInv, EvidenceTypes, EvidenceNames, Facts!OpenKept
<1>8. Facts!CancelledIsOver'
  BY <1>1, <1>4, <1>5, TaskKeepsOver
<1> QED
  BY <1>2, <1>7, <1>8, EvidenceParts

(* runTask copies the oldest fact of its list.                               *)
LEMMA TaskCopies ==
    ASSUME Facts!EvidenceInv, NEW t \in Tasks, Facts!Copy(t)
    PROVE  Facts!EvidenceInv' /\ FactsGrow
<1> DEFINE i == Facts!Oldest(inherit[t].todo)
           r == [inherit[t] EXCEPT !.copy = Len(ledger) + 1]
<1>1. /\ pc[t] = "copy" /\ inherit[t].todo # {} /\ Facts!Derived(t, ledger[i].slot, {i})
      /\ inherit' = [inherit EXCEPT ![t] = r]
      /\ UNCHANGED <<page, phase, pc, stop, tool, created, approval, request, acts, factsChanges, lapses>>
  BY DEF Facts!Copy
<1>2. /\ inherit \in [Tasks -> [todo : SUBSET Nat, copy : Nat]]
      /\ \A u \in Tasks : inherit[u].todo \subseteq Facts!Facts
  BY DEF Facts!EvidenceInv, Facts!TypeOK, Facts!NamesFacts
<1>3. i \in Facts!Facts
  BY <1>1, <1>2, OldestExists
<1>4. ledger[i].slot \in Guards \cup {"metric"} /\ t \in Facts!Owners
  BY <1>3, FactTypes DEF Facts!EvidenceInv, Facts!FactRecord, Facts!Owners
<1>5. /\ FactsKnown' /\ FactsGrow /\ due' \subseteq Nat
      /\ Facts!Facts' = Facts!Facts \cup {Len(ledger) + 1} /\ Len(ledger) + 1 \in Nat
  BY <1>1, <1>3, <1>4, FactsDerive
<1>6. r \in [todo : SUBSET Nat, copy : Nat] /\ r.todo = inherit[t].todo
  BY <1>2, <1>5
<1> HIDE DEF i, r
<1>7. /\ inherit' \in [Tasks -> [todo : SUBSET Nat, copy : Nat]]
      /\ \A u \in Tasks : inherit'[u].todo \subseteq Facts!Facts'
  BY <1>1, <1>2, <1>5, <1>6
<1>8. EvidenceTypes' /\ EvidenceNames' /\ Facts!OpenKept'
  BY <1>1, <1>5, <1>7, EvidenceParts DEF Facts!EvidenceInv, EvidenceTypes, EvidenceNames, Facts!OpenKept
<1>9. Facts!CancelledIsOver'
  BY <1>1 DEF Facts!EvidenceInv, Facts!CancelledIsOver, Facts!Idle
<1> QED
  BY <1>5, <1>8, <1>9, EvidenceParts

(* runTask verifies its copy, or is stranded when the copy went stale.       *)
LEMMA TaskVerifies ==
    ASSUME Facts!EvidenceInv, NEW t \in Tasks, Facts!VerifyCopy(t)
    PROVE  Facts!EvidenceInv' /\ FactsGrow
<1> DEFINE c == inherit[t].copy
           rest == inherit[t].todo \ {Facts!Oldest(inherit[t].todo)}
<1>1. /\ pc[t] = "copy"
      /\ UNCHANGED <<due, page, phase, stop, tool, created, approval, request, acts, factsChanges, lapses>>
      /\ \/ /\ Facts!Verifiable(c) /\ Facts!Verify(c) /\ pc' = pc
            /\ inherit' = [inherit EXCEPT ![t] = [todo |-> rest, copy |-> 0]]
         \/ /\ Facts!Go(t, "stranded") /\ ledger' = ledger
            /\ inherit' = [inherit EXCEPT ![t] = [todo |-> {}, copy |-> 0]]
  BY DEF Facts!VerifyCopy
<1>2. FactsKnown' /\ FactsGrow /\ Facts!Facts' = Facts!Facts
  BY <1>1, FactsRestate
<1>3. pc' \in [Tasks -> Facts!Steps] /\ \A u \in Tasks : u # t => pc'[u] = pc[u]
  BY <1>1, TaskGoes DEF Facts!Steps, Facts!EvidenceInv, Facts!TypeOK
<1>4. /\ inherit \in [Tasks -> [todo : SUBSET Nat, copy : Nat]]
      /\ \A u \in Tasks : inherit[u].todo \subseteq Facts!Facts
  BY DEF Facts!EvidenceInv, Facts!TypeOK, Facts!NamesFacts
<1>5. /\ inherit' \in [Tasks -> [todo : SUBSET Nat, copy : Nat]]
      /\ \A u \in Tasks : inherit'[u].todo \subseteq Facts!Facts
  <2>1. rest \subseteq inherit[t].todo
    OBVIOUS
  <2> HIDE DEF rest, c
  <2>2. rest \in SUBSET Nat /\ rest \subseteq Facts!Facts
    BY <2>1, <1>4
  <2>3. PICK q \in SUBSET Nat : q \subseteq Facts!Facts
          /\ inherit' = [inherit EXCEPT ![t] = [todo |-> q, copy |-> 0]]
    BY <1>1, <2>2
  <2>4. [todo |-> q, copy |-> 0] \in [todo : SUBSET Nat, copy : Nat]
    OBVIOUS
  <2> QED
    BY <1>4, <2>3, <2>4
<1>6. EvidenceTypes' /\ EvidenceNames' /\ Facts!OpenKept'
  BY <1>1, <1>2, <1>3, <1>5, EvidenceParts
  DEF Facts!EvidenceInv, EvidenceTypes, EvidenceNames, Facts!OpenKept
<1>7. Facts!CancelledIsOver'
  <2>1. phase[t] # "cancelled"
    BY <1>1 DEF Facts!EvidenceInv, Facts!CancelledIsOver
  <2> QED
    BY <2>1, <1>1, <1>3, TaskKeepsOver
<1> QED
  BY <1>2, <1>6, <1>7, EvidenceParts

(* failTask cancels the approvals of a stopped task, then saves it as        *)
(* cancelled.                                                                *)
LEMMA TaskCancels ==
    ASSUME Facts!EvidenceInv, NEW t \in Tasks, Facts!CancelApproval(t)
    PROVE  Facts!EvidenceInv' /\ FactsGrow
<1>1. PICK a \in created[t] :
        /\ approval' = [approval EXCEPT ![a].status = IF @ \in Facts!Open THEN "cancelled" ELSE @]
        /\ created' = [created EXCEPT ![t] = @ \ {a}]
  BY DEF Facts!CancelApproval
<1>2. /\ pc[t] = "cancel"
      /\ UNCHANGED <<ledger, due, page, phase, pc, inherit, stop, tool, request, acts, factsChanges, lapses>>
  BY DEF Facts!CancelApproval
<1>3. FactsKnown' /\ FactsGrow /\ Facts!Facts' = Facts!Facts
  BY <1>2, FactsRestate
<1> DEFINE S == Facts!Open \cup {"none", "rejected", "cancelled", "executing", "executed", "failed"}
           A == [status : S, task : Facts!Owners, facts : SUBSET Nat]
           r == [approval[a] EXCEPT !.status = IF @ \in Facts!Open THEN "cancelled" ELSE @]
<1>4. created \in [Tasks -> SUBSET Approvals] /\ a \in Approvals /\ approval \in [Approvals -> A]
  BY DEF Facts!EvidenceInv, Facts!TypeOK
<1>5. /\ r \in A /\ r.status \notin Facts!Open /\ r.task = approval[a].task /\ r.facts = approval[a].facts
  BY <1>4 DEF Facts!Open
<1>6. approval' = [approval EXCEPT ![a] = r]
  BY <1>1
<1> HIDE DEF r, A
<1>7. /\ approval' \in [Approvals -> A] /\ approval'[a] = r
      /\ \A x \in Approvals : x # a => approval'[x] = approval[x]
      /\ created' \in [Tasks -> SUBSET Approvals] /\ created'[t] = created[t] \ {a}
      /\ \A u \in Tasks : u # t => created'[u] = created[u]
  BY <1>1, <1>4, <1>5, <1>6
<1>8. EvidenceTypes'
  BY <1>2, <1>7, EvidenceParts DEF EvidenceTypes, A
<1>9. EvidenceNames'
  BY <1>2, <1>3, <1>5, <1>7, EvidenceParts DEF EvidenceNames
<1>10. Facts!OpenKept'
  BY <1>5, <1>7 DEF Facts!EvidenceInv, Facts!OpenKept
<1>11. Facts!CancelledIsOver'
  BY <1>2, <1>7 DEF Facts!EvidenceInv, Facts!CancelledIsOver, Facts!Idle
<1> QED
  BY <1>3, <1>8, <1>9, <1>10, <1>11, EvidenceParts

-----------------------------------------------------------------------------
(* The tools                                                                *)

(* The call of a tool and its facts have their types.                        *)
LEMMA ToolTypes ==
    ASSUME Facts!EvidenceInv, NEW t \in Tasks
    PROVE  /\ tool \in [Tasks -> Facts!ToolCall] /\ tool[t] \in Facts!ToolCall /\ Facts!Idle \in Facts!ToolCall
           /\ tool[t].ids \subseteq Facts!Facts /\ page[t] \in Nat /\ page \in [Facts!Owners -> Nat]
           /\ due \subseteq Nat /\ acts \in Nat /\ Len(ledger) \in Nat /\ Facts!Facts \subseteq Nat
           /\ tool[t].at \in {"derive", "attest"} => tool[t].src \in Facts!Facts
           /\ tool[t].at # "idle" => tool[t] # Facts!Idle
<1>1. /\ tool \in [Tasks -> Facts!ToolCall] /\ page \in [Facts!Owners -> Nat] /\ due \subseteq Nat /\ acts \in Nat
  BY DEF Facts!EvidenceInv, Facts!TypeOK
<1>2. Facts!Idle \in Facts!ToolCall /\ Facts!Idle.at = "idle"
  BY DEF Facts!Idle, Facts!ToolCall
<1>3. Len(ledger) \in Nat /\ Facts!Facts \subseteq Nat
  BY FactTypes DEF Facts!EvidenceInv
<1> QED
  BY <1>1, <1>2, <1>3 DEF Facts!EvidenceInv, Facts!NamesFacts, Facts!Owners

(* What is left to show of a step of a tool.                                 *)
LEMMA ToolStep ==
    ASSUME Facts!EvidenceInv, NEW t \in Tasks, NEW call \in Facts!ToolCall, Facts!Set(t, call),
           tool[t] # Facts!Idle \/ pc[t] = "model",
           call.ids \subseteq Facts!Facts', call.at \in {"derive", "attest"} => call.src \in Facts!Facts',
           FactsKnown', FactsGrow, Facts!Facts \subseteq Facts!Facts',
           due' \subseteq Nat, page' \in [Facts!Owners -> Nat], acts' \in Nat,
           UNCHANGED <<phase, pc, inherit, stop, created, approval, request, factsChanges, lapses>>
    PROVE  Facts!EvidenceInv' /\ FactsGrow
<1>1. /\ tool' \in [Tasks -> Facts!ToolCall] /\ tool'[t] = call
      /\ \A u \in Tasks : u # t => tool'[u] = tool[u]
  BY ToolTypes DEF Facts!Set
<1>2. EvidenceTypes'
  BY <1>1, EvidenceParts DEF EvidenceTypes
<1>3. EvidenceNames'
  BY <1>1, EvidenceParts DEF EvidenceNames
<1>4. Facts!OpenKept'
  BY DEF Facts!EvidenceInv, Facts!OpenKept
<1>5. pc[t] \in {"model", "block", "done"} /\ phase[t] # "cancelled"
  BY DEF Facts!EvidenceInv, Facts!CancelledIsOver
<1>6. Facts!CancelledIsOver'
  BY <1>1, <1>5 DEF Facts!EvidenceInv, Facts!CancelledIsOver, Facts!Idle
<1> QED
  BY <1>2, <1>3, <1>4, <1>6, EvidenceParts

(* A screenshot starts the reading of a table.                               *)
LEMMA ToolCaptures ==
    ASSUME Facts!EvidenceInv, NEW t \in Tasks, Facts!Capture(t)
    PROVE  Facts!EvidenceInv' /\ FactsGrow
<1> DEFINE call == [Facts!Idle EXCEPT !.at = "read", !.shot = page[t]]
<1>1. /\ Facts!Set(t, call) /\ pc[t] = "model"
      /\ UNCHANGED <<ledger, due, page, phase, pc, inherit, stop, created, approval, request, acts,
                     factsChanges, lapses>>
  BY DEF Facts!Capture, Facts!May
<1>2. FactsKnown' /\ FactsGrow /\ Facts!Facts' = Facts!Facts
  BY <1>1, FactsRestate
<1>3. call \in Facts!ToolCall /\ call.at = "read" /\ call.ids = {}
  BY ToolTypes DEF Facts!Idle, Facts!ToolCall
<1> HIDE DEF call
<1> QED
  BY <1>1, <1>2, <1>3, ToolTypes, ToolStep

(* A scroll changes the page.                                                *)
LEMMA ToolScrolls ==
    ASSUME Facts!EvidenceInv, NEW t \in Tasks, Facts!Scroll(t)
    PROVE  Facts!EvidenceInv' /\ FactsGrow
<1> DEFINE call == [tool[t] EXCEPT !.shot = page[t] + 1]
<1>1. /\ Facts!Set(t, call) /\ tool[t].at = "read" /\ Facts!Changed({t}) /\ acts' = acts + 1
      /\ UNCHANGED <<due, phase, pc, inherit, stop, created, approval, request, factsChanges, lapses>>
  BY DEF Facts!Scroll
<1>2. FactsKnown' /\ FactsGrow /\ Facts!Facts' = Facts!Facts /\ page' \in [Facts!Owners -> Nat]
  BY <1>1, FactsTurn DEF Facts!Owners
<1>3. call \in Facts!ToolCall /\ call.at = "read" /\ call.ids = tool[t].ids
  <2>1. PICK n \in Nat : n = page[t] + 1
    BY ToolTypes
  <2>2. call = [tool[t] EXCEPT !.shot = n]
    BY <2>1
  <2> QED
    BY <1>1, <2>2, ToolTypes DEF Facts!ToolCall
<1> HIDE DEF call
<1> QED
  BY <1>1, <1>2, <1>3, ToolTypes, ToolStep

(* Typing changes the page.                                                  *)
LEMMA ToolTypesIn ==
    ASSUME Facts!EvidenceInv, NEW t \in Tasks, Facts!Type(t)
    PROVE  Facts!EvidenceInv' /\ FactsGrow
<1>1. /\ pc[t] = "model" /\ Facts!Changed({t}) /\ acts' = acts + 1
      /\ UNCHANGED <<due, phase, pc, inherit, stop, tool, created, approval, request, factsChanges, lapses>>
  BY DEF Facts!Type, Facts!May
<1>2. FactsKnown' /\ FactsGrow /\ Facts!Facts' = Facts!Facts /\ page' \in [Facts!Owners -> Nat]
  BY <1>1, FactsTurn DEF Facts!Owners
<1>3. Facts!Set(t, tool[t])
  BY <1>1, ToolTypes DEF Facts!Set
<1> QED
  BY <1>1, <1>2, <1>3, ToolTypes, ToolStep

(* The cell is recorded as an observed fact.                                 *)
LEMMA ToolRecords ==
    ASSUME Facts!EvidenceInv, NEW t \in Tasks, Facts!Record(t)
    PROVE  Facts!EvidenceInv' /\ FactsGrow
<1> DEFINE call == [tool[t] EXCEPT !.at = "review", !.src = Len(ledger) + 1]
<1>1. /\ Facts!Set(t, call) /\ tool[t].at = "read" /\ Facts!Seen(t, "metric")
      /\ UNCHANGED <<page, phase, pc, inherit, stop, created, approval, request, acts, factsChanges, lapses>>
  BY DEF Facts!Record
<1>2. /\ FactsKnown' /\ FactsGrow /\ due' = due
      /\ Facts!Facts' = Facts!Facts \cup {Len(ledger) + 1} /\ Len(ledger) + 1 \in Nat
  BY <1>1, FactsSee
<1>3. call \in Facts!ToolCall /\ call.at = "review" /\ call.ids = tool[t].ids
  BY <1>1, <1>2, ToolTypes DEF Facts!ToolCall
<1> HIDE DEF call
<1> QED
  BY <1>1, <1>2, <1>3, ToolTypes, ToolStep

(* The second model verifies or rejects the fact.                            *)
LEMMA ToolReviews ==
    ASSUME Facts!EvidenceInv, NEW t \in Tasks, Facts!Review(t)
    PROVE  Facts!EvidenceInv' /\ FactsGrow
<1>1. /\ Facts!Set(t, Facts!Idle) /\ tool[t].at = "review"
      /\ UNCHANGED <<due, page, phase, pc, inherit, stop, created, approval, request, acts, factsChanges,
                     lapses>>
      /\ \/ Facts!Verifiable(tool[t].src) /\ Facts!Verify(tool[t].src)
         \/ ledger' = ledger
         \/ Facts!Reject(tool[t].src)
  BY DEF Facts!Review
<1>2. FactsKnown' /\ FactsGrow /\ Facts!Facts' = Facts!Facts
  BY <1>1, FactsRestate
<1>3. Facts!Idle.at = "idle" /\ Facts!Idle.ids = {}
  BY DEF Facts!Idle
<1> QED
  BY <1>1, <1>2, <1>3, ToolTypes, ToolStep

(* A guardrail starts from a metric or from facts derived before.            *)
LEMMA ToolPrepares ==
    ASSUME Facts!EvidenceInv, NEW t \in Tasks, Facts!Prepare(t)
    PROVE  Facts!EvidenceInv' /\ FactsGrow
<1>1. /\ pc[t] = "model" /\ ledger' = Facts!Swept
      /\ UNCHANGED <<due, page, phase, pc, inherit, stop, created, approval, request, acts, factsChanges,
                     lapses>>
  BY DEF Facts!Prepare, Facts!May
<1>2. FactsKnown' /\ FactsGrow /\ Facts!Facts' = Facts!Facts
  BY <1>1, FactsRestate
<1>3. \/ \E i \in Facts!Facts : Facts!Set(t, [Facts!Idle EXCEPT !.at = "derive", !.src = i, !.left = Guards])
      \/ \E S \in SUBSET Facts!Facts : Facts!Set(t, [Facts!Idle EXCEPT !.at = "build", !.ids = S])
  BY DEF Facts!Prepare
<1>4. \E call \in Facts!ToolCall :
        /\ Facts!Set(t, call) /\ call.ids \subseteq Facts!Facts
        /\ call.at \in {"derive", "attest"} => call.src \in Facts!Facts
  <2>1. ASSUME NEW i \in Facts!Facts, Facts!Set(t, [Facts!Idle EXCEPT !.at = "derive", !.src = i, !.left = Guards])
        PROVE  \E call \in Facts!ToolCall :
                 /\ Facts!Set(t, call) /\ call.ids \subseteq Facts!Facts
                 /\ call.at \in {"derive", "attest"} => call.src \in Facts!Facts
    <3> DEFINE call == [Facts!Idle EXCEPT !.at = "derive", !.src = i, !.left = Guards]
    <3>1. call \in Facts!ToolCall /\ call.ids = {} /\ call.src = i
      BY <2>1, ToolTypes DEF Facts!Idle, Facts!ToolCall
    <3>2. Facts!Set(t, call)
      BY <2>1
    <3> HIDE DEF call
    <3> QED
      BY <3>1, <3>2
  <2>2. ASSUME NEW S \in SUBSET Facts!Facts, Facts!Set(t, [Facts!Idle EXCEPT !.at = "build", !.ids = S])
        PROVE  \E call \in Facts!ToolCall :
                 /\ Facts!Set(t, call) /\ call.ids \subseteq Facts!Facts
                 /\ call.at \in {"derive", "attest"} => call.src \in Facts!Facts
    <3> DEFINE call == [Facts!Idle EXCEPT !.at = "build", !.ids = S]
    <3>1. call \in Facts!ToolCall /\ call.ids = S /\ call.at = "build"
      BY <2>2, ToolTypes DEF Facts!Idle, Facts!ToolCall
    <3>2. Facts!Set(t, call)
      BY <2>2
    <3> HIDE DEF call
    <3> QED
      BY <3>1, <3>2
  <2> QED
    BY <1>3, <2>1, <2>2
<1> QED
  BY <1>1, <1>2, <1>4, ToolTypes, ToolStep

(* A guardrail fact is derived from the metric.                              *)
LEMMA ToolDerives ==
    ASSUME Facts!EvidenceInv, NEW t \in Tasks, Facts!Derive(t)
    PROVE  Facts!EvidenceInv' /\ FactsGrow
<1> DEFINE g == CHOOSE g \in tool[t].left : TRUE
           call == [tool[t] EXCEPT !.at = "attest", !.left = @ \ {g}, !.ids = @ \cup {Len(ledger) + 1}]
<1>1. /\ Facts!Set(t, call) /\ tool[t].at = "derive" /\ tool[t].left # {}
      /\ Facts!Derived(t, g, {tool[t].src})
      /\ UNCHANGED <<page, phase, pc, inherit, stop, created, approval, request, acts, factsChanges, lapses>>
  BY DEF Facts!Derive
<1>2. tool[t].src \in Facts!Facts /\ g \in Guards \cup {"metric"} /\ t \in Facts!Owners
  BY <1>1, ToolTypes DEF Facts!ToolCall, Facts!Owners
<1>3. /\ FactsKnown' /\ FactsGrow /\ due' \subseteq Nat
      /\ Facts!Facts' = Facts!Facts \cup {Len(ledger) + 1} /\ Len(ledger) + 1 \in Nat
  BY <1>1, <1>2, FactsDerive
<1>4. /\ call \in Facts!ToolCall /\ call.ids = tool[t].ids \cup {Len(ledger) + 1}
      /\ call.src = tool[t].src
  BY <1>1, <1>3, ToolTypes DEF Facts!ToolCall
<1> HIDE DEF call
<1> QED
  BY <1>1, <1>2, <1>3, <1>4, ToolTypes, ToolStep

(* A guardrail fact is verified.                                             *)
LEMMA ToolAttests ==
    ASSUME Facts!EvidenceInv, NEW t \in Tasks, Facts!Attest(t)
    PROVE  Facts!EvidenceInv' /\ FactsGrow
<1> DEFINE i == CHOOSE i \in tool[t].ids : \A j \in tool[t].ids : j <= i
           next == [tool[t] EXCEPT !.at = IF tool[t].left = {} THEN "build" ELSE "derive"]
<1>1. /\ tool[t].at = "attest"
      /\ \/ Facts!Verifiable(i) /\ Facts!Verify(i) /\ Facts!Set(t, next)
         \/ ledger' = ledger /\ Facts!Set(t, Facts!Idle)
      /\ UNCHANGED <<due, page, phase, pc, inherit, stop, created, approval, request, acts, factsChanges,
                     lapses>>
  BY DEF Facts!Attest
<1>2. FactsKnown' /\ FactsGrow /\ Facts!Facts' = Facts!Facts
  <2> HIDE DEF i
  <2> QED
    BY <1>1, FactsRestate
<1>3. /\ next \in Facts!ToolCall /\ next.ids = tool[t].ids /\ next.src = tool[t].src
      /\ Facts!Idle.at = "idle" /\ Facts!Idle.ids = {}
  BY <1>1, ToolTypes DEF Facts!ToolCall, Facts!Idle
<1> HIDE DEF next, i
<1>4. \E x \in Facts!ToolCall :
        /\ Facts!Set(t, x) /\ x.ids \subseteq Facts!Facts
        /\ x.at \in {"derive", "attest"} => x.src \in Facts!Facts
  BY <1>1, <1>3, ToolTypes
<1>5. tool[t] # Facts!Idle
  BY <1>1, <1>3
<1>6. due' \subseteq Nat /\ page' \in [Facts!Owners -> Nat] /\ acts' \in Nat
  BY <1>1, ToolTypes
<1>7. PICK x \in Facts!ToolCall :
             /\ Facts!Set(t, x) /\ x.ids \subseteq Facts!Facts
             /\ x.at \in {"derive", "attest"} => x.src \in Facts!Facts
  BY <1>4
<1> QED
  BY <1>1, <1>2, <1>5, <1>6, <1>7, ToolStep

(* The guardrail is built from facts that its lineage supports.              *)
LEMMA ToolBuilds ==
    ASSUME Facts!EvidenceInv, NEW t \in Tasks, Facts!Build(t)
    PROVE  Facts!EvidenceInv' /\ FactsGrow
<1> DEFINE next == [tool[t] EXCEPT !.at = "create"]
<1>1. /\ tool[t].at = "build" /\ ledger' = Facts!Swept /\ (Facts!Set(t, next) \/ Facts!Set(t, Facts!Idle))
      /\ UNCHANGED <<due, page, phase, pc, inherit, stop, created, approval, request, acts, factsChanges,
                     lapses>>
  BY DEF Facts!Build
<1>2. FactsKnown' /\ FactsGrow /\ Facts!Facts' = Facts!Facts
  BY <1>1, FactsRestate
<1>3. /\ next \in Facts!ToolCall /\ next.ids = tool[t].ids /\ next.at = "create"
      /\ Facts!Idle.at = "idle" /\ Facts!Idle.ids = {}
  BY <1>1, ToolTypes DEF Facts!ToolCall, Facts!Idle
<1> HIDE DEF next
<1>4. \E x \in Facts!ToolCall :
        /\ Facts!Set(t, x) /\ x.ids \subseteq Facts!Facts
        /\ x.at \in {"derive", "attest"} => x.src \in Facts!Facts
  BY <1>1, <1>3, ToolTypes
<1>5. tool[t] # Facts!Idle
  BY <1>1, <1>3
<1>6. due' \subseteq Nat /\ page' \in [Facts!Owners -> Nat] /\ acts' \in Nat
  BY <1>1, ToolTypes
<1>7. PICK x \in Facts!ToolCall :
             /\ Facts!Set(t, x) /\ x.ids \subseteq Facts!Facts
             /\ x.at \in {"derive", "attest"} => x.src \in Facts!Facts
  BY <1>4
<1> QED
  BY <1>1, <1>2, <1>5, <1>6, <1>7, ToolStep

(* An approval is created, and its task lists it, also after a stop.         *)
LEMMA ToolCreates ==
    ASSUME Facts!EvidenceInv, NEW t \in Tasks, Facts!Create(t)
    PROVE  Facts!EvidenceInv' /\ FactsGrow
<1> DEFINE r == [status |-> "pending_risk_review", task |-> t, facts |-> tool[t].ids]
<1>1. PICK a \in Approvals : approval' = [approval EXCEPT ![a] = r] /\ Facts!Kept(t, a)
  BY DEF Facts!Create
<1>2. /\ tool[t].at = "create" /\ Facts!Set(t, Facts!Idle)
      /\ UNCHANGED <<ledger, due, page, phase, pc, inherit, stop, request, acts, factsChanges, lapses>>
  BY DEF Facts!Create
<1>3. FactsKnown' /\ FactsGrow /\ Facts!Facts' = Facts!Facts
  BY <1>2, FactsRestate
<1> DEFINE S == Facts!Open \cup {"none", "rejected", "cancelled", "executing", "executed", "failed"}
           A == [status : S, task : Facts!Owners, facts : SUBSET Nat]
<1>4. created \in [Tasks -> SUBSET Approvals] /\ approval \in [Approvals -> A]
  BY DEF Facts!EvidenceInv, Facts!TypeOK
<1>5. /\ r \in A /\ r.task = t /\ r.facts \subseteq Facts!Facts
  BY ToolTypes DEF Facts!Open, Facts!Owners, Facts!ToolCall
<1>6. created' = [created EXCEPT ![t] = @ \cup {a}]
  BY <1>1 DEF Facts!Kept
<1> HIDE DEF r, A
<1>7. /\ approval' \in [Approvals -> A] /\ approval'[a] = r
      /\ \A x \in Approvals : x # a => approval'[x] = approval[x]
      /\ created' \in [Tasks -> SUBSET Approvals] /\ created'[t] = created[t] \cup {a}
      /\ \A u \in Tasks : u # t => created'[u] = created[u]
  BY <1>1, <1>4, <1>5, <1>6
<1>8. /\ tool' \in [Tasks -> Facts!ToolCall] /\ tool'[t] = Facts!Idle
      /\ \A u \in Tasks : u # t => tool'[u] = tool[u]
  BY <1>2, ToolTypes DEF Facts!Set
<1>9. EvidenceTypes'
  BY <1>2, <1>7, <1>8, EvidenceParts DEF EvidenceTypes, A
<1>10. EvidenceNames'
  <2>1. Facts!Idle.at = "idle" /\ Facts!Idle.ids = {}
    BY DEF Facts!Idle
  <2> QED
    BY <2>1, <1>2, <1>3, <1>5, <1>7, <1>8, EvidenceParts DEF EvidenceNames
<1>11. Facts!OpenKept'
  BY <1>5, <1>7 DEF Facts!EvidenceInv, Facts!OpenKept
<1>12. tool[t] # Facts!Idle
  BY <1>2, ToolTypes
<1>13. Facts!CancelledIsOver'
  BY <1>2, <1>7, <1>8, <1>12 DEF Facts!EvidenceInv, Facts!CancelledIsOver, Facts!Idle
<1> QED
  BY <1>3, <1>9, <1>10, <1>11, <1>13, EvidenceParts

-----------------------------------------------------------------------------
(* The routes of an approval, and the world                                 *)

(* What is left to show of a step of an approval.                             *)
LEMMA ApprovalStep ==
    ASSUME Facts!EvidenceInv, NEW a \in Approvals,
           NEW s \in Facts!Open \cup {"none", "rejected", "cancelled", "executing", "executed", "failed"},
           approval' = [approval EXCEPT ![a].status = s], s \in Facts!Open => approval[a].status \in Facts!Open,
           request' \in [Approvals -> {"none", "review", "approve", "commit", "act"}],
           FactsKnown', FactsGrow, Facts!Facts' = Facts!Facts, page' \in [Facts!Owners -> Nat],
           UNCHANGED <<due, phase, pc, inherit, stop, tool, created, acts, factsChanges, lapses>>
    PROVE  Facts!EvidenceInv' /\ FactsGrow
<1> DEFINE S == Facts!Open \cup {"none", "rejected", "cancelled", "executing", "executed", "failed"}
           A == [status : S, task : Facts!Owners, facts : SUBSET Nat]
           r == [approval[a] EXCEPT !.status = s]
<1>1. approval \in [Approvals -> A]
  BY DEF Facts!EvidenceInv, Facts!TypeOK
<1>2. r \in A /\ r.status = s /\ r.task = approval[a].task /\ r.facts = approval[a].facts
  BY <1>1
<1>3. approval' = [approval EXCEPT ![a] = r]
  OBVIOUS
<1> HIDE DEF r, A
<1>4. /\ approval' \in [Approvals -> A] /\ approval'[a] = r
      /\ \A x \in Approvals : x # a => approval'[x] = approval[x]
  BY <1>1, <1>2, <1>3
<1>5. EvidenceTypes'
  BY <1>4, EvidenceParts DEF EvidenceTypes, A
<1>6. EvidenceNames'
  BY <1>2, <1>4, EvidenceParts DEF EvidenceNames
<1>7. Facts!OpenKept'
  BY <1>2, <1>4 DEF Facts!EvidenceInv, Facts!OpenKept
<1>8. Facts!CancelledIsOver'
  BY DEF Facts!EvidenceInv, Facts!CancelledIsOver, Facts!Idle
<1> QED
  BY <1>5, <1>6, <1>7, <1>8, EvidenceParts

(* An approval and its request have their types.                             *)
LEMMA ApprovalTypes ==
    ASSUME Facts!EvidenceInv, NEW a \in Approvals
    PROVE  /\ request \in [Approvals -> {"none", "review", "approve", "commit", "act"}]
           /\ approval[a].status \in Facts!Open \cup {"none", "rejected", "cancelled", "executing",
                                               "executed", "failed"}
           /\ approval[a].task \in Facts!Owners /\ page \in [Facts!Owners -> Nat]
           /\ approval = [approval EXCEPT ![a].status = approval[a].status]
<1> DEFINE S == Facts!Open \cup {"none", "rejected", "cancelled", "executing", "executed", "failed"}
           A == [status : S, task : Facts!Owners, facts : SUBSET Nat]
<1>1. approval \in [Approvals -> A] /\ page \in [Facts!Owners -> Nat]
      /\ request \in [Approvals -> {"none", "review", "approve", "commit", "act"}]
  BY DEF Facts!EvidenceInv, Facts!TypeOK
<1>2. approval[a] \in A /\ [approval[a] EXCEPT !.status = approval[a].status] = approval[a]
  BY <1>1
<1> QED
  BY <1>1, <1>2

(* validateApprovalGuardrail lets a request on, or cancels the approval.     *)
LEMMA ApprovalValidates ==
    ASSUME Facts!EvidenceInv, NEW a \in Approvals, Facts!Validate(a)
    PROVE  Facts!EvidenceInv' /\ FactsGrow
<1>1. /\ ledger' = Facts!Swept /\ approval[a].status \in Facts!Open
      /\ UNCHANGED <<due, page, phase, pc, inherit, stop, tool, created, acts, factsChanges, lapses>>
      /\ \/ approval' = approval /\ request' = [request EXCEPT ![a] = Facts!For(approval[a].status)]
         \/ approval' = [approval EXCEPT ![a].status = "cancelled"] /\ request' = request
  BY DEF Facts!Validate
<1>2. FactsKnown' /\ FactsGrow /\ Facts!Facts' = Facts!Facts
  BY <1>1, FactsRestate
<1>3. Facts!For(approval[a].status) \in {"review", "approve", "commit"}
  BY <1>1 DEF Facts!For, Facts!Open
<1>4. request' \in [Approvals -> {"none", "review", "approve", "commit", "act"}]
  BY <1>1, <1>3, ApprovalTypes
<1>5. PICK s \in Facts!Open \cup {"none", "rejected", "cancelled", "executing", "executed", "failed"} :
        approval' = [approval EXCEPT ![a].status = s]
  BY <1>1, ApprovalTypes
<1> QED
  BY <1>1, <1>2, <1>4, <1>5, ApprovalTypes, ApprovalStep

(* A request moves its approval when it finds the status it expects.         *)
LEMMA ApprovalMovesFrom ==
    ASSUME Facts!EvidenceInv, NEW a \in Approvals, NEW kind, NEW from \in Facts!Open,
           NEW to \in {"pending_user", "rejected", "approved", "executing"},
           Facts!Moves(a, kind, from, to)
    PROVE  Facts!EvidenceInv' /\ FactsGrow
<1>2. /\ UNCHANGED <<ledger, due, page, phase, pc, inherit, stop, tool, created, acts, factsChanges, lapses>>
      /\ approval' = [approval EXCEPT ![a].status = IF @ = from THEN to ELSE @]
      /\ request' \in [Approvals -> {"none", "review", "approve", "commit", "act"}]
  BY ApprovalTypes DEF Facts!Moves
<1>3. FactsKnown' /\ FactsGrow /\ Facts!Facts' = Facts!Facts
  BY <1>2, FactsRestate
<1>4. PICK s : s = IF approval[a].status = from THEN to ELSE approval[a].status
  OBVIOUS
<1>5. /\ approval' = [approval EXCEPT ![a].status = s]
      /\ s \in Facts!Open \cup {"none", "rejected", "cancelled", "executing", "executed", "failed"}
      /\ s \in Facts!Open => approval[a].status \in Facts!Open
  BY <1>2, <1>4, ApprovalTypes DEF Facts!Open
<1> QED
  BY <1>2, <1>3, <1>5, ApprovalTypes, ApprovalStep

(* The risk review, the decision of the user and the claim of an execution.  *)
LEMMA ApprovalMoves ==
    ASSUME Facts!EvidenceInv, NEW a \in Approvals, Facts!RiskReview(a) \/ Facts!Approve(a) \/ Facts!Consume(a)
    PROVE  Facts!EvidenceInv' /\ FactsGrow
<1>1. "pending_risk_review" \in Facts!Open /\ "pending_user" \in Facts!Open /\ "approved" \in Facts!Open
  BY DEF Facts!Open
<1>2. CASE Facts!Moves(a, "review", "pending_risk_review", "pending_user")
  BY <1>1, <1>2, ApprovalMovesFrom
<1>3. CASE Facts!Moves(a, "review", "pending_risk_review", "rejected")
  BY <1>1, <1>3, ApprovalMovesFrom
<1>4. CASE Facts!Moves(a, "approve", "pending_user", "approved")
  BY <1>1, <1>4, ApprovalMovesFrom
<1>5. CASE Facts!Moves(a, "commit", "approved", "executing")
  BY <1>1, <1>5, ApprovalMovesFrom
<1> QED
  BY <1>2, <1>3, <1>4, <1>5 DEF Facts!RiskReview, Facts!Approve, Facts!Consume

(* The approved action changes the page, or is blocked before it.            *)
LEMMA ApprovalActs ==
    ASSUME Facts!EvidenceInv, NEW a \in Approvals, Facts!Act(a)
    PROVE  Facts!EvidenceInv' /\ FactsGrow
<1>1. PICK done \in BOOLEAN :
        /\ approval' = [approval EXCEPT ![a].status = IF done THEN "executed" ELSE "failed"]
        /\ IF done THEN Facts!Changed({approval[a].task}) ELSE UNCHANGED <<page, ledger>>
  BY DEF Facts!Act
<1>2. /\ request' = [request EXCEPT ![a] = "none"]
      /\ UNCHANGED <<due, phase, pc, inherit, stop, tool, created, acts, factsChanges, lapses>>
  BY DEF Facts!Act
<1>3. FactsKnown' /\ FactsGrow /\ Facts!Facts' = Facts!Facts /\ page' \in [Facts!Owners -> Nat]
  <2>1. CASE done
    BY <1>1, <2>1, FactsTurn, ApprovalTypes
  <2>2. CASE ~done
    BY <1>1, <2>2, FactsRestate, ApprovalTypes
  <2> QED
    BY <2>1, <2>2
<1>4. request' \in [Approvals -> {"none", "review", "approve", "commit", "act"}]
  BY <1>2, ApprovalTypes
<1>5. PICK s \in {"executed", "failed"} : approval' = [approval EXCEPT ![a].status = s]
  BY <1>1
<1>6. s \notin Facts!Open
  BY <1>5 DEF Facts!Open
<1> QED
  BY <1>2, <1>3, <1>4, <1>5, <1>6, ApprovalStep

(* The managed browser changes, or the time of an observation runs out.      *)
LEMMA EvidenceWorld ==
    ASSUME Facts!EvidenceInv, Facts!BrowserChanges \/ Facts!Lapse \/ UNCHANGED Facts!vars
    PROVE  Facts!EvidenceInv' /\ FactsGrow
<1>1. UNCHANGED <<phase, pc, inherit, stop, tool, created, approval, request, acts>>
  BY DEF Facts!BrowserChanges, Facts!Lapse, Facts!vars
<1>2. /\ FactsKnown' /\ FactsGrow /\ Facts!Facts' = Facts!Facts /\ page' \in [Facts!Owners -> Nat]
      /\ due' \subseteq Nat /\ factsChanges' \in Nat /\ lapses' \in Nat
  <2>1. /\ page \in [Facts!Owners -> Nat] /\ due \subseteq Nat /\ factsChanges \in Nat /\ lapses \in Nat
        /\ Facts!Facts \subseteq Nat
    BY FactTypes DEF Facts!EvidenceInv, Facts!TypeOK
  <2>2. CASE Facts!BrowserChanges
    BY <2>1, <2>2, FactsTurn DEF Facts!BrowserChanges
  <2>3. CASE Facts!Lapse
    <3>1. PICK i \in Facts!Facts : due' = due \cup {j \in Facts!Facts : i \in Facts!Lineage({j})}
      BY <2>3 DEF Facts!Lapse
    <3>2. due' \subseteq Nat
      BY <2>1, <3>1
    <3>3. ledger' = ledger /\ page' = page /\ factsChanges' = factsChanges /\ lapses' = lapses + 1
      BY <2>3 DEF Facts!Lapse
    <3>4. factsChanges' \in Nat /\ lapses' \in Nat /\ page' \in [Facts!Owners -> Nat]
      BY <2>1, <3>3
    <3> QED
      BY <1>1, <3>2, <3>3, <3>4, FactsRestate
  <2>4. CASE UNCHANGED Facts!vars
    BY <2>1, <2>4, FactsRestate DEF Facts!vars
  <2> QED
    BY <2>2, <2>3, <2>4
<1>3. EvidenceTypes' /\ EvidenceNames' /\ Facts!OpenKept' /\ Facts!CancelledIsOver'
  BY <1>1, <1>2, EvidenceParts
  DEF Facts!EvidenceInv, EvidenceTypes, EvidenceNames, Facts!OpenKept, Facts!CancelledIsOver, Facts!Idle
<1> QED
  BY <1>2, <1>3, EvidenceParts

(* Each step keeps the inductive invariant and brings no fact back.          *)
LEMMA EvidenceStep ==
    ASSUME Facts!EvidenceInv, [Facts!Next]_(Facts!vars)
    PROVE  Facts!EvidenceInv' /\ FactsGrow
  BY TaskSteps, TaskInherits, TaskCopies, TaskVerifies, TaskCancels, ToolCaptures, ToolScrolls,
     ToolRecords, ToolReviews, ToolTypesIn, ToolPrepares, ToolDerives, ToolAttests, ToolBuilds,
     ToolCreates, ApprovalValidates, ApprovalMoves, ApprovalActs, EvidenceWorld DEF Facts!Next

(* Shared facts: every state satisfies the inductive invariant, for any tasks, *)
(* approvals, predicates and number of changes of the pages.                  *)
THEOREM EvidenceInvariant == Facts!Spec => []Facts!EvidenceInv
<1>1. Facts!Init => Facts!EvidenceInv
  <2> SUFFICES ASSUME Facts!Init PROVE Facts!EvidenceInv
    OBVIOUS
  <2> DEFINE x == [task |-> Past, slot |-> "metric", status |-> "verified", from |-> {},
                   origin |-> {<<Past, 0>>}]
  <2>1. x \in Facts!FactRecord /\ x.from = {} /\ x.task = Past /\ x.origin = {<<Past, 0>>}
    BY DEF Facts!FactRecord, Facts!Owners
  <2>2. ledger = <<x>>
    BY DEF Facts!Init
  <2> HIDE DEF x
  <2>3. /\ ledger \in Seq(Facts!FactRecord) /\ Len(ledger) = 1 /\ ledger[1] = x
    BY <2>1, <2>2
  <2>4. Facts!Facts = {1}
    BY <2>3 DEF Facts!Facts
  <2>5. Facts!Idle \in Facts!ToolCall /\ Facts!Idle.ids = {} /\ Facts!Idle.at = "idle"
    BY DEF Facts!Idle, Facts!ToolCall
  <2>6. /\ Facts!Absent.facts = {} /\ Facts!Absent.status = "none"
        /\ Facts!Absent \in [status : Facts!Open \cup {"none", "rejected", "cancelled", "executing", "executed",
                                           "failed"}, task : Facts!Owners, facts : SUBSET Nat]
    BY DEF Facts!Absent, Facts!Owners
  <2>7. [todo |-> {}, copy |-> 0] \in [todo : SUBSET Nat, copy : Nat]
    OBVIOUS
  <2>8. Facts!TypeOK
    BY <2>3, <2>5, <2>6, <2>7 DEF Facts!Init, Facts!TypeOK, Facts!Steps
  <2>9. Facts!NamesFacts
    <3>1. \A i \in Facts!Facts : ledger[i].from \subseteq Facts!Facts
      BY <2>1, <2>3, <2>4
    <3>2. \A t \in Tasks : inherit[t].todo = {} /\ tool[t] = Facts!Idle
      BY DEF Facts!Init
    <3>3. \A a \in Approvals : approval[a] = Facts!Absent
      BY DEF Facts!Init
    <3> QED
      BY <2>5, <2>6, <3>1, <3>2, <3>3 DEF Facts!NamesFacts
  <2>10. Facts!SeenOnPages
    <3> SUFFICES ASSUME NEW o, o = <<Past, 0>> PROVE Facts!SeenBy(1, o)
      BY <2>1, <2>3, <2>4 DEF Facts!SeenOnPages
    <3>1. o[1] = Past /\ o[2] = 0 /\ page[Past] = 0
      BY DEF Facts!Init, Facts!Owners
    <3> QED
      BY <2>1, <2>3, <3>1, FactsLineage DEF Facts!SeenBy
  <2>11. Facts!OpenKept /\ Facts!CancelledIsOver /\ Facts!OneValue
    BY <2>4, <2>6 DEF Facts!Init, Facts!OpenKept, Facts!CancelledIsOver, Facts!OneValue, Facts!Open
  <2> QED
    BY <2>8, <2>9, <2>10, <2>11 DEF Facts!EvidenceInv
<1>2. Facts!EvidenceInv /\ [Facts!Next]_(Facts!vars) => Facts!EvidenceInv'
  BY EvidenceStep
<1> QED
  BY <1>1, <1>2, PTL DEF Facts!Spec

(* A request goes further only with facts whose lineage is verified.          *)
LEMMA EvidenceForwards ==
    ASSUME Facts!EvidenceInv, Facts!Next
    PROVE  Facts!ForwardOnLiveEvidence
<1> SUFFICES ASSUME NEW a \in Approvals, request[a] = "none", request'[a] # "none",
                    NEW i \in approval[a].facts, NEW o \in ledger[i].origin
             PROVE  page[o[1]] = o[2]
  BY DEF Facts!ForwardOnLiveEvidence
<1>1. request \in [Approvals -> {"none", "review", "approve", "commit", "act"}]
  BY ApprovalTypes
<1>2. \E b \in Approvals : Facts!Validate(b) \/ Facts!RiskReview(b) \/ Facts!Approve(b) \/ Facts!Consume(b) \/ Facts!Act(b)
  BY DEF Facts!Next, Facts!StartTask, Facts!Inherit, Facts!Copy, Facts!VerifyCopy, Facts!Investigate, Facts!ModelEnds, Facts!Deadline, Facts!Finish, Facts!Return,
     Facts!CancelApproval, Facts!Cancelled, Facts!Block, Facts!Stop, Facts!Capture, Facts!Scroll, Facts!Record, Facts!Review, Facts!Type, Facts!Prepare, Facts!Derive,
     Facts!Attest, Facts!Build, Facts!Create, Facts!BrowserChanges, Facts!Lapse
<1>3. Facts!Validate(a)
  BY <1>1, <1>2 DEF Facts!Validate, Facts!RiskReview, Facts!Approve, Facts!Consume, Facts!Act, Facts!Moves
<1>4. Facts!Supported(approval[a].facts)
  BY <1>3 DEF Facts!Validate
<1>5. i \in Facts!Facts
  BY DEF Facts!EvidenceInv, Facts!NamesFacts
<1>6. PICK j \in Facts!Lineage({i}) :
        ledger[j].task = o[1] /\ (Facts!Current(ledger[j]) => page[o[1]] = o[2])
  BY <1>5 DEF Facts!EvidenceInv, Facts!SeenOnPages, Facts!SeenBy
<1>7. j \in Facts!Lineage(approval[a].facts)
  BY <1>6 DEF Facts!Lineage
<1>8. Facts!Current(ledger[j])
  BY <1>4, <1>7 DEF Facts!Supported, Facts!Usable, Facts!Current
<1> QED
  BY <1>6, <1>8

(* Facts are not brought back, one answer is verified at a time, a cancelled  *)
(* task leaves no approval open, and a request goes further only on evidence  *)
(* whose pages have not changed.                                              *)
THEOREM EvidenceIsHeld == Facts!Spec => Facts!EvidenceHolds
<1>1. Facts!EvidenceInv /\ Facts!EvidenceInv' /\ [Facts!Next]_(Facts!vars) =>
        [(Facts!OneValue /\ Facts!NoneLeftOpen)' /\ Facts!TerminalStays /\ Facts!ForwardOnLiveEvidence]_(Facts!vars)
  <2> SUFFICES ASSUME Facts!EvidenceInv, Facts!EvidenceInv', Facts!Next
               PROVE  (Facts!OneValue /\ Facts!NoneLeftOpen)' /\ Facts!TerminalStays /\ Facts!ForwardOnLiveEvidence
    OBVIOUS
  <2>1. Facts!OneValue' /\ Facts!NoneLeftOpen'
    BY DEF Facts!EvidenceInv, Facts!NoneLeftOpen, Facts!OpenKept, Facts!CancelledIsOver
  <2>2. Facts!TerminalStays
    BY EvidenceStep DEF Facts!TerminalStays, FactsGrow
  <2>3. Facts!ForwardOnLiveEvidence
    BY EvidenceForwards
  <2> QED
    BY <2>1, <2>2, <2>3
<1> QED
  BY <1>1, EvidenceInvariant, PTL DEF Facts!Spec, Facts!EvidenceHolds

(***************************************************************************)
(* The reading of a table.                                                 *)
(***************************************************************************)

(* The steps that neither merge a row nor touch a fact keep what was read.   *)
LEMMA ReaderCalm ==
    ASSUME Table!ReaderInv, UNCHANGED <<cell, answers, fact, matched>>, at' # "ended" \/ blocker' # "none"
    PROVE  Table!TableHolds'
  BY DEF Table!ReaderInv, Table!TableHolds, Table!VerifiedIsAgreed, Table!DoneIsWhole

(* The steps that go from page to page, or end, keep what was read.          *)
LEMMA ReaderPages ==
    ASSUME Table!ReaderInv,
           Table!Request \/ Table!PageFails \/ Table!PageLoads \/ Table!HeaderFails \/ Table!PageReady \/ Table!RowFails \/ Table!NextPage
    PROVE  Table!ReaderInv'
<1>1. Table!TypeOK /\ Table!ReadSoFar /\ UNCHANGED <<cell, answers, fact, matched, review, tableChanges>>
  BY DEF Table!ReaderInv, Table!Request, Table!PageFails, Table!PageLoads, Table!HeaderFails, Table!PageReady, Table!RowFails, Table!NextPage
<1>2. Table!TypeOK'
  <2>1. CASE Table!PageReady
    <3>1. PICK S \in SUBSET (IF wanted = {} THEN Table!Rows ELSE wanted) :
            \E v \in [S -> Values], c \in [S -> BOOLEAN] :
               tableShown' = {[row |-> r, value |-> v[r], sure |-> c[r]] : r \in S}
      BY <2>1 DEF Table!PageReady
    <3>2. PICK v \in [S -> Values], c \in [S -> BOOLEAN] :
               tableShown' = {[row |-> r, value |-> v[r], sure |-> c[r]] : r \in S}
      BY <3>1
    <3>3. S \subseteq Table!Rows
      BY <1>1 DEF Table!TypeOK
    <3>4. tableShown' \subseteq [row : Table!Rows, value : Values, sure : BOOLEAN]
      BY <3>2, <3>3
    <3> QED
      BY <2>1, <1>1, <3>4 DEF Table!PageReady, Table!TypeOK
  <2>2. CASE Table!Request \/ Table!PageFails \/ Table!PageLoads \/ Table!HeaderFails
    BY <2>2, <1>1 DEF Table!Request, Table!PageFails, Table!PageLoads, Table!HeaderFails, Table!Blocked, Table!TypeOK
  <2>3. CASE Table!RowFails \/ Table!NextPage
    BY <2>3, <1>1 DEF Table!RowFails, Table!NextPage, Table!Blocked, Table!TypeOK
  <2> QED
    BY <2>1, <2>2, <2>3
<1>3. /\ at \in {"request", "page", "rows"} /\ at' # "ended" /\ at' # "review"
      /\ at' = "record" => blocker' # "none"
      /\ at' = "check" => ~more'
  BY DEF Table!Request, Table!PageFails, Table!PageLoads, Table!HeaderFails, Table!PageReady, Table!RowFails, Table!NextPage, Table!Blocked
<1>4. Table!Agreed /\ \A r \in Data : fact[r] = "none"
  BY <1>1, <1>3 DEF Table!ReadSoFar
<1>5. Table!Agreed'
  BY <1>1, <1>4 DEF Table!Agreed
<1>6. Table!ReadSoFar'
  BY <1>1, <1>3, <1>4, <1>5 DEF Table!ReadSoFar
<1>7. Table!TableHolds'
  BY <1>1, <1>3, ReaderCalm
<1> QED
  BY <1>2, <1>6, <1>7 DEF Table!ReaderInv

(* Reading a page merges its rows into what was read of them.                *)
LEMMA ReaderMerges ==
    ASSUME Table!ReaderInv, Table!MergeRow
    PROVE  Table!ReaderInv'
<1>1. Table!TypeOK /\ Table!ReadSoFar /\ at = "rows" /\ UNCHANGED <<fact, matched, review, tableChanges>>
  BY DEF Table!ReaderInv, Table!MergeRow
<1>2. Table!Agreed /\ \A r \in Data : fact[r] = "none"
  BY <1>1 DEF Table!ReadSoFar
<1>3. PICK x \in tableShown :
        /\ answers' = [answers EXCEPT ![x.row] = @ \cup {x.value}]
        /\ LET new == [value |-> x.value, sure |-> x.sure]
               old == cell[x.row]
           IN IF Table!Conflicting(old, new)
              THEN Table!Blocked("CONFLICTING_OVERLAP_VALUE") /\ tableShown' = {} /\ UNCHANGED cell
              ELSE /\ cell' = [cell EXCEPT ![x.row] = IF old = Table!None \/ (new.sure /\ ~old.sure)
                                                        THEN new ELSE old]
                   /\ tableShown' = tableShown \ {x} /\ UNCHANGED <<at, blocker>>
  BY DEF Table!MergeRow
<1> DEFINE new == [value |-> x.value, sure |-> x.sure]
           old == cell[x.row]
<1>4. x.row \in Table!Rows /\ x.value \in Values /\ x.value # 0 /\ x.sure \in BOOLEAN
  BY <1>1, MessagesAssumption DEF Table!TypeOK, Table!ReaderAssumption
<1>5. /\ new \in [value : Values \cup {0}, sure : BOOLEAN] /\ new # Table!None /\ new.value = x.value
      /\ old \in [value : Values \cup {0}, sure : BOOLEAN]
  BY <1>1, <1>4 DEF Table!None, Table!TypeOK
<1>6. /\ answers' \in [Table!Rows -> SUBSET Values]
      /\ answers'[x.row] = answers[x.row] \cup {x.value}
      /\ \A r \in Table!Rows : r # x.row => answers'[r] = answers[r]
  BY <1>1, <1>3, <1>4 DEF Table!TypeOK
<1>7. CASE Table!Conflicting(old, new)
  <2>1. at' = "record" /\ blocker' # "none" /\ tableShown' = {} /\ cell' = cell
    BY <1>3, <1>7 DEF Table!Blocked
  <2>2. Table!TypeOK'
    BY <2>1, <1>1, <1>6 DEF Table!TypeOK, Table!MergeRow
  <2>3. Table!ReadSoFar' /\ Table!TableHolds'
    BY <2>1, <1>1, <1>2 DEF Table!ReadSoFar, Table!TableHolds, Table!VerifiedIsAgreed, Table!DoneIsWhole
  <2> QED
    BY <2>2, <2>3 DEF Table!ReaderInv
<1>8. CASE ~Table!Conflicting(old, new)
  <2> DEFINE kept == IF old = Table!None \/ (new.sure /\ ~old.sure) THEN new ELSE old
  <2>1. cell' = [cell EXCEPT ![x.row] = kept] /\ tableShown' = tableShown \ {x} /\ at' = at
        /\ UNCHANGED <<at, blocker>>
    BY <1>3, <1>8
  <2>2. kept \in [value : Values \cup {0}, sure : BOOLEAN] /\ kept # Table!None /\ kept.value = x.value
    BY <1>5, <1>8, Zenon DEF Table!Conflicting
  <2> HIDE DEF kept
  <2>3. /\ cell' \in [Table!Rows -> [value : Values \cup {0}, sure : BOOLEAN]]
        /\ cell'[x.row] = kept /\ \A r \in Table!Rows : r # x.row => cell'[r] = cell[r]
    BY <2>1, <2>2, <1>1, <1>4 DEF Table!TypeOK
  <2>4. answers[x.row] \cup {x.value} = {x.value}
    <3>1. CASE old = Table!None
      BY <3>1, <1>2, <1>4 DEF Table!Agreed
    <3>2. CASE old # Table!None
      BY <3>2, <1>2, <1>4, <1>5, <1>8 DEF Table!Agreed, Table!Conflicting
    <3> QED
      BY <3>1, <3>2
  <2>5. Table!Agreed'
    <3> SUFFICES ASSUME NEW r \in Table!Rows
                 PROVE  answers'[r] = IF cell'[r] = Table!None THEN {} ELSE {cell'[r].value}
      BY DEF Table!Agreed, Table!None
    <3>1. CASE r = x.row
      BY <3>1, <2>2, <2>3, <2>4, <1>6
    <3>2. CASE r # x.row
      BY <3>2, <2>3, <1>2, <1>6 DEF Table!Agreed
    <3> QED
      BY <3>1, <3>2
  <2>6. Table!TypeOK'
    BY <2>1, <2>3, <1>1, <1>6 DEF Table!TypeOK, Table!MergeRow
  <2>7. Table!ReadSoFar' /\ Table!TableHolds'
    BY <2>1, <2>5, <1>1, <1>2 DEF Table!ReadSoFar, Table!TableHolds, Table!VerifiedIsAgreed, Table!DoneIsWhole
  <2> QED
    BY <2>6, <2>7 DEF Table!ReaderInv
<1> QED
  BY <1>7, <1>8

(* What the checks found does not depend on the facts.                       *)
LEMMA ReaderChecked ==
    ASSUME Table!Checked, UNCHANGED <<cell, answers, wanted, more>>
    PROVE  Table!Checked'
  BY DEF Table!Checked, Table!Agreed, Table!Unsure, Table!Missing, Table!TotalsAgree, Table!Sum, Table!Read, Table!None

(* The totals, the rows that may be missing, and the record of the cell.     *)
LEMMA ReaderChecks ==
    ASSUME Table!ReaderInv, Table!Check \/ Table!Record \/ Table!AskReview
    PROVE  Table!ReaderInv'
<1>1. /\ Table!TypeOK /\ Table!ReadSoFar /\ Table!TableHolds
      /\ UNCHANGED <<cell, answers, wanted, more, tableShown, pageNo, tries, tableChanges>>
  BY DEF Table!ReaderInv, Table!Check, Table!Record, Table!AskReview
<1>2. Table!Read' = Table!Read
  BY <1>1 DEF Table!Read, Table!None
<1>3. CASE Table!Check
  <2>1. Table!Agreed /\ ~more /\ at' = "record" /\ UNCHANGED <<fact, matched, review>>
        /\ \A r \in Data : fact[r] = "none"
    BY <1>1, <1>3 DEF Table!Check, Table!ReadSoFar
  <2>2. blocker' = "none" => ~Table!Unsure /\ ~Table!Missing /\ Table!TotalsAgree
    BY <1>3 DEF Table!Check
  <2>3. blocker' = "none" => Table!Checked'
    BY <2>1, <2>2, <1>1, ReaderChecked DEF Table!Checked
  <2>4. Table!TypeOK' /\ Table!ReadSoFar'
    BY <2>1, <2>3, <1>1 DEF Table!TypeOK, Table!ReadSoFar
  <2> QED
    BY <2>1, <2>4, ReaderCalm, <1>1 DEF Table!ReaderInv
<1>4. CASE Table!Record
  <2>1. PICK r \in Table!Unrecorded : fact' = [fact EXCEPT ![r] = "observed"]
    BY <1>4 DEF Table!Record
  <2>2. r \in Data /\ at = "record" /\ UNCHANGED <<at, blocker, matched, review>>
    BY <1>4 DEF Table!Unrecorded, Table!Record
  <2>3. /\ fact' \in [Data -> {"none", "observed", "verified", "rejected", "stale"}]
        /\ \A x \in Data : fact'[x] \in {"none", "observed", "stale"}
    BY <2>1, <2>2, <1>1 DEF Table!TypeOK, Table!ReadSoFar
  <2>4. blocker' = "none" => Table!Checked'
    BY <2>2, <1>1, ReaderChecked DEF Table!ReadSoFar
  <2>5. Table!TypeOK' /\ Table!ReadSoFar'
    BY <2>2, <2>3, <2>4, <1>1 DEF Table!TypeOK, Table!ReadSoFar
  <2>6. Table!TableHolds'
    BY <2>2, <2>3 DEF Table!TableHolds, Table!VerifiedIsAgreed, Table!DoneIsWhole
  <2> QED
    BY <2>5, <2>6 DEF Table!ReaderInv
<1>5. CASE Table!AskReview
  <2>1. /\ at = "record" /\ Table!Unrecorded = {} /\ UNCHANGED fact
        /\ \A r \in Data : fact[r] \in {"none", "observed", "stale"}
        /\ \A r \in Table!Read \cap Data : fact[r] \in {"observed", "stale"}
    BY <1>1, <1>5 DEF Table!AskReview, Table!ReadSoFar, Table!Unrecorded
  <2>2. Table!VerifiedIsAgreed'
    BY <2>1 DEF Table!VerifiedIsAgreed
  <2>3. CASE at' = "review"
    <3>1. blocker = "none" /\ review' = Table!Read /\ matched' \subseteq Table!Read
      BY <1>5, <2>3 DEF Table!AskReview, Table!Reviewed
    <3>2. Table!Checked'
      BY <3>1, <2>1, <1>1, ReaderChecked DEF Table!ReadSoFar
    <3>3. Table!Read \subseteq Table!Rows
      BY DEF Table!Read
    <3>4. Table!TypeOK'
      BY <3>1, <3>3, <2>1, <2>3, <1>1 DEF Table!TypeOK
    <3>5. Table!ReadSoFar'
      BY <3>1, <3>2, <2>1, <2>3, <1>1, <1>2 DEF Table!ReadSoFar
    <3> QED
      BY <2>2, <2>3, <3>4, <3>5 DEF Table!ReaderInv, Table!TableHolds, Table!DoneIsWhole
  <2>4. CASE at' # "review"
    <3>1. at' = "ended" /\ UNCHANGED <<matched, review>>
      BY <1>5, <2>4 DEF Table!AskReview
    <3>2. blocker' # "none"
      <4>1. CASE Table!Reviewed
        BY <4>1, <1>5, <2>4 DEF Table!AskReview
      <4>2. CASE ~Table!Reviewed
        <5>1. blocker = "none" => Table!Read # {}
          BY <1>1, <2>1 DEF Table!ReadSoFar, Table!Checked, Table!Missing
        <5> QED
          BY <5>1, <4>2, <1>5 DEF Table!AskReview, Table!Reviewed
      <4> QED
        BY <4>1, <4>2
    <3>3. Table!TypeOK' /\ Table!ReadSoFar'
      BY <3>1, <2>1, <1>1 DEF Table!TypeOK, Table!ReadSoFar
    <3> QED
      BY <2>2, <3>1, <3>2, <3>3 DEF Table!ReaderInv, Table!TableHolds, Table!DoneIsWhole
  <2> QED
    BY <2>3, <2>4
<1> QED
  BY <1>3, <1>4, <1>5

(* The second model agrees with the cell, or blocks it.                      *)
LEMMA ReaderReviews ==
    ASSUME Table!ReaderInv, Table!ReviewCell \/ Table!Answer
    PROVE  Table!ReaderInv'
<1>1. /\ Table!TypeOK /\ Table!ReadSoFar /\ Table!TableHolds /\ at = "review" /\ Table!Checked /\ review \subseteq Table!Read
      /\ UNCHANGED <<cell, answers, wanted, more, tableShown, pageNo, tries, tableChanges, matched>>
  BY DEF Table!ReaderInv, Table!ReviewCell, Table!Answer, Table!ReadSoFar
<1>2. Table!Read' = Table!Read /\ Table!Checked'
  BY <1>1, ReaderChecked DEF Table!Read, Table!None
<1>3. CASE Table!ReviewCell
  <2>1. PICK r \in review :
          /\ review' = review \ {r}
          /\ IF r \notin Data THEN UNCHANGED <<at, fact>>
             ELSE IF r \notin matched THEN fact' = [fact EXCEPT ![r] = "rejected"] /\ UNCHANGED at
             ELSE IF fact[r] = "observed" THEN fact' = [fact EXCEPT ![r] = "verified"] /\ UNCHANGED at
             ELSE at' = "thrown" /\ UNCHANGED fact
    BY <1>3 DEF Table!ReviewCell
  <2>2. /\ fact' \in [Data -> {"none", "observed", "verified", "rejected", "stale"}]
        /\ \A x \in Data : x # r => fact'[x] = fact[x]
        /\ r \in Data \cap matched => fact[r] \in {"observed", "stale"}
        /\ r \in Data \cap matched =>
              \/ fact[r] = "observed" /\ fact'[r] = "verified"
              \/ at' = "thrown" /\ fact' = fact
        /\ r \in Data \ matched => fact'[r] = "rejected"
    BY <2>1, <1>1 DEF Table!TypeOK, Table!ReadSoFar
  <2>3. at' \in {"review", "thrown"}
    BY <2>1, <1>1
  <2>4. Table!TypeOK'
    BY <2>1, <2>2, <2>3, <1>1 DEF Table!TypeOK
  <2>5. Table!ReadSoFar'
    <3>1. \A x \in Data \cap Table!Read : x \in review' => fact'[x] \in {"observed", "stale"}
      BY <2>1, <2>2, <1>1 DEF Table!ReadSoFar
    <3>2. at' = "review" =>
            \A x \in Data \cap Table!Read : x \in matched \ review' => fact'[x] \in {"verified", "stale"}
      BY <2>1, <2>2, <1>1 DEF Table!ReadSoFar
    <3> QED
      BY <3>1, <3>2, <2>1, <2>3, <1>1, <1>2 DEF Table!ReadSoFar
  <2>6. Table!VerifiedIsAgreed'
    <3> SUFFICES ASSUME NEW x \in Data, fact'[x] = "verified"
                 PROVE  answers[x] = {cell[x].value} /\ cell[x].sure /\ x \in matched
      BY <1>1 DEF Table!VerifiedIsAgreed
    <3>1. CASE fact[x] = "verified"
      BY <3>1, <1>1 DEF Table!TableHolds, Table!VerifiedIsAgreed
    <3>2. CASE fact[x] # "verified"
      <4>1. x = r /\ x \in matched
        BY <3>2, <2>1, <2>2, <1>1 DEF Table!TypeOK
      <4>2. x \in Table!Read
        BY <4>1, <1>1
      <4> QED
        BY <4>1, <4>2, <1>1 DEF Table!Checked, Table!Agreed, Table!Unsure, Table!Read
    <3> QED
      BY <3>1, <3>2
  <2> QED
    BY <2>3, <2>4, <2>5, <2>6 DEF Table!ReaderInv, Table!TableHolds, Table!DoneIsWhole
<1>4. CASE Table!Answer
  <2>1. /\ review = {} /\ at' = "ended" /\ UNCHANGED <<fact, review>>
        /\ blocker' = "none" => Table!Read \subseteq matched
    BY <1>4 DEF Table!Answer, Table!Unconfirmed
  <2>2. Table!TypeOK' /\ Table!ReadSoFar'
    BY <2>1, <1>1 DEF Table!TypeOK, Table!ReadSoFar
  <2>3. Table!VerifiedIsAgreed'
    BY <2>1, <1>1 DEF Table!TableHolds, Table!VerifiedIsAgreed
  <2>4. \A r \in Table!Read \cap Data : r \in matched => fact[r] \in {"verified", "stale"}
    BY <2>1, <1>1 DEF Table!ReadSoFar
  <2>5. Table!TotalsAgree /\ Table!Sum(Table!Read \cap Data)' = Table!Sum(Table!Read \cap Data)
    BY <1>1, <1>2 DEF Table!Checked, Table!Sum
  <2>6. Table!DoneIsWhole'
    BY <2>1, <2>4, <2>5, <1>1, <1>2 DEF Table!DoneIsWhole, Table!Checked, Table!Missing, Table!TotalsAgree
  <2> QED
    BY <2>2, <2>3, <2>6 DEF Table!ReaderInv, Table!TableHolds
<1> QED
  BY <1>3, <1>4

(* A change of the page moves nothing that was read.                         *)
LEMMA ReaderDisturbed ==
    ASSUME Table!ReaderInv, Table!PageChanges
    PROVE  Table!ReaderInv'
<1>1. /\ Table!TypeOK /\ Table!ReadSoFar /\ Table!TableHolds /\ tableChanges' = tableChanges + 1
      /\ UNCHANGED <<at, wanted, pageNo, tries, tableShown, more, cell, blocker, review, matched, answers>>
      /\ \E r \in Data : fact[r] \in {"observed", "verified"}
      /\ fact' = [r \in Data |-> IF fact[r] \in {"observed", "verified"} THEN "stale" ELSE fact[r]]
  BY DEF Table!ReaderInv, Table!PageChanges
<1>2. /\ fact' \in [Data -> {"none", "observed", "verified", "rejected", "stale"}]
      /\ \A r \in Data : /\ fact'[r] = fact[r] \/ fact'[r] = "stale"
                         /\ fact[r] = "none" => fact'[r] = "none"
  BY <1>1 DEF Table!TypeOK
<1>3. Table!Read' = Table!Read /\ (Table!Checked => Table!Checked') /\ (Table!Agreed => Table!Agreed')
  BY <1>1, ReaderChecked DEF Table!Read, Table!None, Table!Agreed
<1>4. Table!TypeOK' /\ Table!ReadSoFar'
  BY <1>1, <1>2, <1>3 DEF Table!TypeOK, Table!ReadSoFar
<1>5. Table!VerifiedIsAgreed'
  BY <1>1, <1>2 DEF Table!TableHolds, Table!VerifiedIsAgreed
<1>6. Table!Sum(Table!Read \cap Data)' = Table!Sum(Table!Read \cap Data)
  BY <1>1, <1>3 DEF Table!Sum
<1>7. Table!DoneIsWhole'
  BY <1>1, <1>2, <1>3, <1>6 DEF Table!TableHolds, Table!DoneIsWhole
<1> QED
  BY <1>4, <1>5, <1>7 DEF Table!ReaderInv, Table!TableHolds

(* The reading of a table: every state satisfies the inductive invariant, for *)
(* any rows, values, pages and answers of the two models.                    *)
THEOREM ReaderInvariant == Table!Spec => []Table!ReaderInv
<1>1. Table!Init => Table!ReaderInv
  <2> SUFFICES ASSUME Table!Init PROVE Table!ReaderInv
    OBVIOUS
  <2>1. Table!None \in [value : Values \cup {0}, sure : BOOLEAN]
    BY DEF Table!None
  <2>2. Table!TypeOK
    BY <2>1 DEF Table!Init, Table!TypeOK
  <2>3. Table!ReadSoFar
    BY DEF Table!Init, Table!ReadSoFar, Table!Agreed
  <2>4. Table!TableHolds
    BY DEF Table!Init, Table!TableHolds, Table!VerifiedIsAgreed, Table!DoneIsWhole
  <2> QED
    BY <2>2, <2>3, <2>4 DEF Table!ReaderInv
<1>2. Table!ReaderInv /\ UNCHANGED Table!vars => Table!ReaderInv'
  <2> SUFFICES ASSUME Table!ReaderInv, UNCHANGED Table!vars PROVE Table!ReaderInv'
    OBVIOUS
  <2>1. UNCHANGED <<at, wanted, pageNo, tries, tableShown, more, cell, blocker, fact, review, matched, answers, tableChanges>>
    BY DEF Table!vars
  <2>2. /\ Table!Read' = Table!Read /\ Table!Sum(Table!Read \cap Data)' = Table!Sum(Table!Read \cap Data)
        /\ (Table!Checked => Table!Checked') /\ (Table!Agreed => Table!Agreed')
    BY <2>1, ReaderChecked DEF Table!Read, Table!None, Table!Agreed, Table!Sum
  <2> QED
    BY <2>1, <2>2 DEF Table!ReaderInv, Table!TypeOK, Table!ReadSoFar, Table!TableHolds, Table!VerifiedIsAgreed, Table!DoneIsWhole
<1>3. Table!ReaderInv /\ [Table!Next]_(Table!vars) => Table!ReaderInv'
  BY <1>2, ReaderPages, ReaderMerges, ReaderChecks, ReaderReviews, ReaderDisturbed DEF Table!Next
<1> QED
  BY <1>1, <1>3, PTL DEF Table!Spec

(***************************************************************************)
(* The window.                                                             *)
(***************************************************************************)

(* What its constants have to be, as the run assumes it.                    *)
LEMMA ScreenAssumption == Window!DesktopAssumption
  BY MessagesAssumption


(* The server forgets no session and no message.                            *)
StoreGrows == \A s \in Sessions : store[s].as # "none" => store'[s].as # "none"
WrittenGrows == \A x \in Window!Scopes : written'[x] >= written[x]

(* A ticket after a newer one of the scope.                                 *)
Aged(t, scope) == [t EXCEPT !.newest = @ /\ t.scope # scope]

(* The invariant without the types of what the start and new workspaces need. *)
ScreenCore ==
  Window!TypeOK /\ Window!SessionsExist /\ Window!BeforeFirst /\ Window!AnswersFit /\ Window!TicketsAgree /\ Window!RunAgrees /\ Window!ShownBelongs

(* What it says of the requests, apart from how new they are.        *)
LoadsHold ==
  /\ \A t \in loads : Window!Known(t.list)
  /\ selected.client = Nobody => \A t \in loads : t.scope.client = Nobody
  /\ Window!TicketsAgree

(* What it says of the changes under way.                                   *)
AsksHold ==
  /\ \A a \in asks : /\ Window!Known(a.known) /\ (a.kind # "plan" => a.of \in Sessions)
                     /\ a.kind # "plan" /\ (a.ok \/ a.as.as # "none") => Window!Exists(a.of)
  /\ \A a \in asks : /\ a.owner.client # Nobody /\ (a.kind = "plan" => a.answered)
                     /\ a.kind = "create" => ClientOf[a.of] = a.owner.client
  /\ \A a \in asks : a.kind = "first" =>
       /\ run.at = "creating" /\ a.owner = run.launch
       /\ ClientOf[a.of] = run.launch.client /\ Window!ScopeOf(a.of) # run.launch
  /\ \A a, b \in asks : a.kind = "first" /\ b.kind = "first" => a = b

(* And of the screen, the events and the run.                               *)
ViewHolds ==
  /\ selected.conv \in Sessions => Window!Exists(selected.conv)
  /\ Window!Known(sidebar)
  /\ \A i \in DOMAIN windowQueue : windowQueue[i].as.as # "none" => Window!Exists(windowQueue[i].of)
  /\ selected.client = Nobody =>
       /\ asks = {} /\ posts = {} /\ windowQueue = <<>> /\ ~timer /\ source = Nobody /\ windowShown.at = 0
  /\ windowShown.at <= written[selected]
  /\ posts = IF run.at = "sent" THEN {run.target} ELSE {}
  /\ run.at = "sent" => run.target.client = run.launch.client
  /\ run.at # "idle" => run.launch.client # Nobody
  /\ Window!ShownBelongs

(* The newest answer of the selected scope.                                 *)
NewestFits ==
  \A t \in loads : t.newest /\ t.answered /\ t.scope = selected /\ windowShown.from # Nobody
                  => t.at >= windowShown.at

(* The invariant is these parts.                                            *)
LEMMA ScreenParts ==
  ScreenCore <=> Window!TypeOK /\ LoadsHold /\ AsksHold /\ ViewHolds /\ NewestFits
  BY DEF ScreenCore, LoadsHold, AsksHold, ViewHolds, NewestFits, Window!SessionsExist, Window!BeforeFirst,
         Window!AnswersFit, Window!TicketsAgree, Window!RunAgrees

(* The same after a step.                                                   *)
LEMMA ScreenPartsNext ==
  ScreenCore' <=> Window!TypeOK' /\ LoadsHold' /\ AsksHold' /\ ViewHolds' /\ NewestFits'
  BY ScreenParts, PTL

(* Scopes of sessions and of workspaces.                                    *)
LEMMA ScreenScopes ==
  /\ Nobody \notin Clients /\ Nobody \notin Sessions /\ Window!Primary \notin Sessions
  /\ \A some \in SUBSET Clients : First[some] \in Clients
  /\ ClientOf \in [Sessions -> Clients]
  /\ \A s \in Sessions :
       /\ Window!ScopeOf(s) \in Window!Scopes /\ Window!ScopeOf(s).client \in Clients /\ Window!ScopeOf(s).conv = s
       /\ Window!ScopeOf(s).client = ClientOf[s]
  /\ \A c \in Clients \cup {Nobody} :
       Window!Home(c) \in Window!Scopes /\ Window!Home(c).client = c /\ Window!Home(c).conv = Window!Primary
  /\ \A x \in Window!Scopes : /\ x.client \in Clients \cup {Nobody} /\ x.conv \in Sessions \cup {Window!Primary}
                              /\ x = [client |-> x.client, conv |-> x.conv]
  BY ScreenAssumption DEF Window!DesktopAssumption, Window!Scopes, Window!ScopeOf, Window!Home, Window!Primary

(* A list of no sessions knows none.                                        *)
LEMMA ScreenLists ==
  /\ Window!NoSessions \in Window!SessionList /\ Window!Missing \in Window!Stamp /\ Window!Missing.as = "none" /\ Window!Missing.rev = 0
  /\ Window!Known(Window!NoSessions)
  BY DEF Window!NoSessions, Window!SessionList, Window!Missing, Window!Stamp, Window!Known

(* A new ticket, and one that is not the newest any more.                   *)
LEMMA ScreenTicket ==
  ASSUME NEW scope \in Window!Scopes, NEW mine \in BOOLEAN
  PROVE  /\ Window!Ticket(scope, mine) \in Window!TicketRecord
         /\ Window!Ticket(scope, mine).scope = scope /\ Window!Ticket(scope, mine).mine = mine
         /\ Window!Ticket(scope, mine).answered = FALSE /\ Window!Ticket(scope, mine).client = scope.client
         /\ Window!Ticket(scope, mine).list = Window!NoSessions
  BY ScreenScopes, ScreenLists DEF Window!Ticket, Window!TicketRecord

(* A ticket after a newer one keeps all but being the newest.               *)
LEMMA ScreenAged ==
  ASSUME NEW t \in Window!TicketRecord, NEW scope
  PROVE  /\ Aged(t, scope) \in Window!TicketRecord
         /\ Aged(t, scope).scope = t.scope /\ Aged(t, scope).mine = t.mine
         /\ Aged(t, scope).answered = t.answered /\ Aged(t, scope).client = t.client
         /\ Aged(t, scope).at = t.at /\ Aged(t, scope).list = t.list
         /\ Aged(t, scope).newest <=> t.newest /\ t.scope # scope
  BY DEF Aged, Window!TicketRecord

(* The requests after one begins: the new one, and the others aged.         *)
LEMMA ScreenBegins ==
  ASSUME NEW scope \in Window!Scopes, NEW mine \in BOOLEAN, NEW others, others \subseteq Window!TicketRecord,
         Window!Begin(scope, mine, others)
  PROVE  /\ loads' \subseteq Window!TicketRecord
         /\ \A t \in loads' : t = Window!Ticket(scope, mine) \/ \E u \in others : t = Aged(u, scope)
<1>1. \A t \in loads' : t = Window!Ticket(scope, mine) \/ \E u \in others : t = Aged(u, scope)
  BY DEF Window!Begin, Aged
<1>2. ASSUME NEW t \in loads' PROVE t \in Window!TicketRecord
  <2>1. CASE t = Window!Ticket(scope, mine)
    BY <2>1, ScreenTicket
  <2>2. CASE \E u \in others : t = Aged(u, scope)
    BY <2>2, ScreenAged
  <2> QED
    BY <1>1, <2>1, <2>2
<1> QED
  BY <1>1, <1>2

(* Known before is known after.                                             *)
LEMMA ScreenKnown ==
  ASSUME StoreGrows, NEW list, \A s \in Sessions : list[s].as # "none" => Window!Exists(s)
  PROVE  \A s \in Sessions : list[s].as # "none" => store'[s].as # "none"
  BY DEF StoreGrows, Window!Exists

(* Some of the requests stay.                                               *)
LEMMA ScreenLoadsStay ==
  ASSUME ScreenCore, Window!TypeOK', loads' \subseteq loads, StoreGrows, WrittenGrows,
         \A t \in loads' : t.mine => run'.at = "loading",
         selected'.client = Nobody => \A t \in loads' : t.scope.client = Nobody
  PROVE  LoadsHold'
<1> USE ScreenParts
<1>1. LoadsHold /\ Window!TypeOK
  OBVIOUS
<1>2. ASSUME NEW t \in loads' PROVE \A s \in Sessions : t.list[s].as # "none" => store'[s].as # "none"
  BY <1>1, ScreenKnown DEF LoadsHold, Window!Known
<1>4. ASSUME NEW t \in loads', t.answered
      PROVE  t.at <= written'[[client |-> t.client, conv |-> t.scope.conv]]
  <2>1. t \in Window!TicketRecord /\ t.at <= written[[client |-> t.client, conv |-> t.scope.conv]]
    BY <1>1, <1>4 DEF LoadsHold, Window!TicketsAgree, Window!TypeOK
  <2> DEFINE x == [client |-> t.client, conv |-> t.scope.conv]
  <2>2. x \in Window!Scopes /\ t.at \in Nat
    BY <2>1 DEF Window!TicketRecord, Window!Scopes
  <2>3. written[x] \in Nat
    BY <2>2, <1>1 DEF Window!TypeOK
  <2>4. written'[x] >= written[x] /\ written'[x] \in Nat
    BY <2>2, <2>3, <1>1 DEF WrittenGrows, Window!TypeOK
  <2> QED
    BY <2>1, <2>2, <2>3, <2>4
<1> QED
  BY <1>1, <1>2, <1>4 DEF LoadsHold, Window!TicketsAgree, Window!Known, Window!Exists

(* A request begins, beside some of the others.                             *)
LEMMA ScreenLoadsBegin ==
  ASSUME ScreenCore, Window!TypeOK', StoreGrows, WrittenGrows,
         NEW scope \in Window!Scopes, NEW mine \in BOOLEAN,
         NEW others, others \subseteq loads, Window!Begin(scope, mine, others),
         selected'.client = Nobody => /\ scope.client = Nobody
                                      /\ \A u \in others : u.scope.client = Nobody,
         \A u \in others : u.mine => run'.at = "loading" /\ ~mine,
         mine => run'.at = "loading"
  PROVE  /\ LoadsHold'
         /\ \A t \in loads' : t.newest /\ t.answered =>
              \E u \in loads : /\ u.newest /\ u.answered /\ u.scope = t.scope /\ u.at = t.at
                              /\ u.scope # scope
<1>1. LoadsHold /\ Window!TypeOK /\ loads \subseteq Window!TicketRecord /\ others \subseteq Window!TicketRecord
  BY ScreenParts DEF Window!TypeOK
<1>2. \A t \in loads' : t = Window!Ticket(scope, mine) \/ \E u \in others : t = Aged(u, scope)
  BY <1>1, ScreenBegins
<1>3. /\ Window!Ticket(scope, mine).scope = scope /\ Window!Ticket(scope, mine).mine = mine
      /\ Window!Ticket(scope, mine).answered = FALSE /\ Window!Ticket(scope, mine).client = scope.client
      /\ Window!Ticket(scope, mine).list = Window!NoSessions
  BY ScreenTicket
<1> DEFINE new == Window!Ticket(scope, mine)
<1> HIDE DEF new
<1>4. \A s \in Sessions : new.list[s].as = "none"
  BY <1>3 DEF new, Window!NoSessions, Window!Missing
<1>5. new.scope = scope /\ new.mine = mine /\ new.answered = FALSE /\ new.client = scope.client
  BY <1>3 DEF new
<1>6. \A t \in loads' : t = new \/ \E u \in others : t = Aged(u, scope)
  BY <1>2 DEF new
<1>7. \A u \in others : /\ Aged(u, scope).scope = u.scope /\ Aged(u, scope).mine = u.mine
                        /\ Aged(u, scope).answered = u.answered /\ Aged(u, scope).client = u.client
                        /\ Aged(u, scope).at = u.at /\ Aged(u, scope).list = u.list
                        /\ Aged(u, scope).newest <=> u.newest /\ u.scope # scope
  BY <1>1, ScreenAged
<1>8. ASSUME NEW t \in loads' PROVE \A s \in Sessions : t.list[s].as # "none" => store'[s].as # "none"
  <2>1. CASE t = new
    BY <2>1, <1>4
  <2>2. ASSUME NEW u \in others, t = Aged(u, scope)
        PROVE  \A s \in Sessions : t.list[s].as # "none" => store'[s].as # "none"
    <3>1. t.list = u.list /\ \A s \in Sessions : u.list[s].as # "none" => Window!Exists(s)
      BY <1>1, <1>7, <2>2 DEF LoadsHold, Window!Known
    <3> QED
      BY <3>1 DEF StoreGrows, Window!Exists
  <2> QED
    BY <1>6, <2>1, <2>2
<1>9. ASSUME NEW t \in loads', selected'.client = Nobody PROVE t.scope.client = Nobody
  BY <1>5, <1>6, <1>7, <1>9
<1>10. ASSUME NEW t \in loads'
       PROVE  /\ t.scope.client # Nobody => t.client = t.scope.client
              /\ t.answered => t.client # Nobody /\ t.at <= written'[[client |-> t.client, conv |-> t.scope.conv]]
              /\ t.mine => run'.at = "loading"
  <2>1. CASE t = new
    BY <2>1, <1>5
  <2>2. ASSUME NEW u \in others, t = Aged(u, scope)
        PROVE  /\ t.scope.client # Nobody => t.client = t.scope.client
               /\ t.answered => t.client # Nobody /\ t.at <= written'[[client |-> t.client, conv |-> t.scope.conv]]
               /\ t.mine => run'.at = "loading"
    <3>1. /\ t.scope = u.scope /\ t.mine = u.mine /\ t.answered = u.answered
          /\ t.client = u.client /\ t.at = u.at
      BY <1>7, <2>2
    <3>2. /\ u.scope.client # Nobody => u.client = u.scope.client
          /\ u.answered => u.client # Nobody /\ u.at <= written[[client |-> u.client, conv |-> u.scope.conv]]
      BY <1>1, <2>2 DEF LoadsHold, Window!TicketsAgree
    <3> DEFINE x == [client |-> u.client, conv |-> u.scope.conv]
    <3>3. x \in Window!Scopes /\ u.at \in Nat
      BY <1>1, <2>2 DEF Window!TicketRecord, Window!Scopes
    <3>4. written[x] \in Nat /\ written'[x] >= written[x] /\ written'[x] \in Nat
      BY <1>1, <3>3 DEF WrittenGrows, Window!TypeOK
    <3>5. u.answered => u.at <= written'[x]
      <4> HIDE DEF x
      <4>1. u.answered => u.at <= written[x]
        BY <3>2 DEF x
      <4> QED
        BY <4>1, <3>3, <3>4
    <3> QED
      BY <3>1, <3>2, <3>5
  <2> QED
    BY <1>6, <2>1, <2>2
<1>11. ASSUME NEW t \in loads', t.newest, t.answered
       PROVE  \E u \in loads : /\ u.newest /\ u.answered /\ u.scope = t.scope /\ u.at = t.at
                               /\ u.scope # scope
  <2>1. PICK u \in others : t = Aged(u, scope)
    BY <1>5, <1>6, <1>11
  <2> QED
    BY <1>7, <1>11, <2>1
<1>12. ASSUME NEW t \in loads', NEW v \in loads',
              (t.newest /\ v.newest /\ t.scope = v.scope) \/ (t.mine /\ v.mine)
       PROVE  t = v
  <2>1. CASE t = new /\ v = new
    BY <2>1
  <2>2. ASSUME NEW u \in others, t = Aged(u, scope), v = new PROVE FALSE
    BY <1>5, <1>7, <1>12, <2>2
  <2>3. ASSUME NEW u \in others, v = Aged(u, scope), t = new PROVE FALSE
    BY <1>5, <1>7, <1>12, <2>3
  <2>4. ASSUME NEW u \in others, NEW w \in others, t = Aged(u, scope), v = Aged(w, scope) PROVE t = v
    <3>1. (u.newest /\ w.newest /\ u.scope = w.scope) \/ (u.mine /\ w.mine)
      BY <1>7, <1>12, <2>4
    <3>2. u = w
      BY <1>1, <3>1 DEF LoadsHold, Window!TicketsAgree
    <3> QED
      BY <2>4, <3>2
  <2> QED
    BY <1>6, <2>1, <2>2, <2>3, <2>4
<1> QED
  BY <1>8, <1>9, <1>10, <1>11, <1>12 DEF LoadsHold, Window!TicketsAgree, Window!Known, Window!Exists

(* Some of the changes under way stay, and one may be new.                  *)
LEMMA ScreenAsks ==
  ASSUME ScreenCore, StoreGrows, NEW r, asks' \subseteq asks \cup {r},
         r \in asks' => /\ \A s \in Sessions : r.known[s].as # "none" => store'[s].as # "none"
                        /\ r.kind # "plan" => r.of \in Sessions
                        /\ r.kind # "plan" /\ (r.ok \/ r.as.as # "none") => store'[r.of].as # "none"
                        /\ r.owner.client # Nobody /\ (r.kind = "plan" => r.answered)
                        /\ r.kind = "create" => ClientOf[r.of] = r.owner.client,
         \A a \in asks' : a.kind = "first" =>
           /\ run'.at = "creating" /\ a.owner = run'.launch
           /\ ClientOf[a.of] = run'.launch.client /\ Window!ScopeOf(a.of) # run'.launch,
         \A a, b \in asks' : a.kind = "first" /\ b.kind = "first" => a = b
  PROVE  AsksHold'
<1>1. AsksHold
  BY ScreenParts
<1>2. ASSUME NEW a \in asks', a # r
      PROVE  /\ \A s \in Sessions : a.known[s].as # "none" => store'[s].as # "none"
             /\ a.kind # "plan" => a.of \in Sessions
             /\ a.kind # "plan" /\ (a.ok \/ a.as.as # "none") => store'[a.of].as # "none"
             /\ a.owner.client # Nobody /\ (a.kind = "plan" => a.answered)
             /\ a.kind = "create" => ClientOf[a.of] = a.owner.client
  <2>1. a \in asks
    BY <1>2
  <2>2. /\ Window!Known(a.known) /\ (a.kind # "plan" => a.of \in Sessions)
        /\ a.kind # "plan" /\ (a.ok \/ a.as.as # "none") => Window!Exists(a.of)
        /\ a.owner.client # Nobody /\ (a.kind = "plan" => a.answered)
        /\ a.kind = "create" => ClientOf[a.of] = a.owner.client
    BY <1>1, <2>1 DEF AsksHold
  <2> QED
    BY <2>2 DEF Window!Known, Window!Exists, StoreGrows
<1>3. ASSUME NEW a \in asks'
      PROVE  /\ \A s \in Sessions : a.known[s].as # "none" => store'[s].as # "none"
             /\ a.kind # "plan" => a.of \in Sessions
             /\ a.kind # "plan" /\ (a.ok \/ a.as.as # "none") => store'[a.of].as # "none"
             /\ a.owner.client # Nobody /\ (a.kind = "plan" => a.answered)
             /\ a.kind = "create" => ClientOf[a.of] = a.owner.client
  BY <1>2
<1> QED
  BY <1>3 DEF AsksHold, Window!Known, Window!Exists

(* Those that stay, when the run still waits for its session.               *)
LEMMA ScreenAsksStay ==
  ASSUME ScreenCore, StoreGrows, asks' \subseteq asks,
         \A a \in asks' : a.kind = "first" => run'.at = "creating" /\ run'.launch = run.launch
  PROVE  AsksHold'
<1>1. AsksHold
  BY ScreenParts
<1>2. ASSUME NEW a \in asks'
      PROVE  /\ \A s \in Sessions : a.known[s].as # "none" => store'[s].as # "none"
             /\ a.kind # "plan" => a.of \in Sessions
             /\ a.kind # "plan" /\ (a.ok \/ a.as.as # "none") => store'[a.of].as # "none"
             /\ a.owner.client # Nobody /\ (a.kind = "plan" => a.answered)
             /\ a.kind = "create" => ClientOf[a.of] = a.owner.client
  <2>1. /\ Window!Known(a.known) /\ (a.kind # "plan" => a.of \in Sessions)
        /\ a.kind # "plan" /\ (a.ok \/ a.as.as # "none") => Window!Exists(a.of)
        /\ a.owner.client # Nobody /\ (a.kind = "plan" => a.answered)
        /\ a.kind = "create" => ClientOf[a.of] = a.owner.client
    BY <1>1 DEF AsksHold
  <2> QED
    BY <2>1 DEF Window!Known, Window!Exists, StoreGrows
<1> QED
  BY <1>1, <1>2 DEF AsksHold, Window!Known, Window!Exists

(* An event joins those that wait.                                          *)
LEMMA ScreenPublishes ==
  ASSUME ScreenCore, StoreGrows, NEW c \in Clients, NEW e \in Window!EventRecord, Window!Publish(c, e),
         e.as.as # "none" => store'[e.of].as # "none"
  PROVE  /\ windowQueue' \in Seq(Window!EventRecord)
         /\ \A i \in DOMAIN windowQueue' : windowQueue'[i].as.as # "none" => store'[windowQueue'[i].of].as # "none"
         /\ source = Nobody => windowQueue' = windowQueue
<1>1. /\ windowQueue \in Seq(Window!EventRecord)
      /\ \A i \in DOMAIN windowQueue : windowQueue[i].as.as # "none" => Window!Exists(windowQueue[i].of)
  BY ScreenParts DEF ViewHolds, Window!TypeOK
<1>2. \A i \in DOMAIN windowQueue : windowQueue[i].of \in Sessions
  <2>1. \A i \in DOMAIN windowQueue : windowQueue[i] \in Window!EventRecord
    BY <1>1
  <2> QED
    BY <2>1 DEF Window!EventRecord
<1>3. CASE windowQueue' = windowQueue
  BY <1>1, <1>2, <1>3 DEF StoreGrows, Window!Exists
<1>4. CASE source = c /\ windowQueue' = Append(windowQueue, e)
  BY <1>1, <1>2, <1>4, ScreenScopes DEF StoreGrows, Window!Exists
<1> QED
  BY <1>3, <1>4 DEF Window!Publish

(* The events that wait when the server gets on.                            *)
LEMMA ScreenQueueStays ==
  ASSUME ScreenCore, StoreGrows, windowQueue' = windowQueue
  PROVE  \A i \in DOMAIN windowQueue' : windowQueue'[i].as.as # "none" => store'[windowQueue'[i].of].as # "none"
<1>1. /\ windowQueue \in Seq(Window!EventRecord)
      /\ \A i \in DOMAIN windowQueue : windowQueue[i].as.as # "none" => Window!Exists(windowQueue[i].of)
  BY ScreenParts DEF ViewHolds, Window!TypeOK
<1>2. \A i \in DOMAIN windowQueue : windowQueue[i].of \in Sessions
  <2>1. \A i \in DOMAIN windowQueue : windowQueue[i] \in Window!EventRecord
    BY <1>1
  <2> QED
    BY <2>1 DEF Window!EventRecord
<1> QED
  BY <1>1, <1>2 DEF StoreGrows, Window!Exists

(* The answer to a state request.                                           *)
LEMMA ScreenAnswersLoad ==
  ASSUME ScreenCore, NEW t \in loads, Window!AnswerLoad(t)
  PROVE  ScreenCore'
<1>1. Window!TypeOK /\ LoadsHold /\ AsksHold /\ ViewHolds /\ NewestFits
  BY ScreenParts
<1> DEFINE c == IF t.scope.client = Nobody THEN First[Window!Workspaces] ELSE t.scope.client
           list == [s \in Sessions |-> IF s \in Window!Listed(store, c) THEN store[s] ELSE Window!Missing]
           x == [client |-> c, conv |-> t.scope.conv]
           u == [t EXCEPT !.answered = TRUE, !.client = c, !.list = list, !.at = written[x]]
<1>2. loads' = (loads \ {t}) \cup {u} /\ UNCHANGED <<selected, windowSession, bootstrapped, loading, asks,
        windowShown, plan, sidebar, source, windowQueue, timer, run, posts, store, written, clicks>>
  BY DEF Window!AnswerLoad
<1>3. t \in Window!TicketRecord
  BY <1>1 DEF Window!TypeOK
<1>4. c \in Clients /\ c # Nobody /\ x \in Window!Scopes
  <2>1. Window!Workspaces \in SUBSET Clients
    BY DEF Window!Workspaces
  <2> QED
    BY <1>3, <2>1, ScreenScopes DEF Window!TicketRecord, Window!Scopes
<1>5. list \in Window!SessionList /\ \A s \in Sessions : list[s].as # "none" => store[s].as # "none"
  BY <1>1, ScreenLists DEF Window!TypeOK, Window!SessionList
<1>6. written[x] \in Nat
  BY <1>1, <1>4 DEF Window!TypeOK
<1>7. /\ u \in Window!TicketRecord /\ u.scope = t.scope /\ u.newest = t.newest /\ u.mine = t.mine
      /\ u.answered = TRUE /\ u.client = c /\ u.list = list /\ u.at = written[x]
  <2> HIDE DEF list, c, x
  <2> QED
    BY <1>3, <1>4, <1>5, <1>6 DEF Window!TicketRecord
<1>8. t.scope.client # Nobody => c = t.scope.client /\ x = t.scope
  BY <1>3, ScreenScopes DEF Window!TicketRecord
<1> HIDE DEF list, c, x, u
<1>9. Window!TypeOK'
  BY <1>1, <1>2, <1>7 DEF Window!TypeOK
<1>10. LoadsHold'
  <2>1. \A v \in loads' : (v \in loads /\ v # t) \/ v = u
    BY <1>2
  <2>2. \A v \in loads' : \A s \in Sessions : v.list[s].as # "none" => store'[s].as # "none"
    BY <1>1, <1>2, <1>5, <1>7, <2>1 DEF LoadsHold, Window!Known, Window!Exists
  <2>3. selected'.client = Nobody => \A v \in loads' : v.scope.client = Nobody
    BY <1>1, <1>2, <1>7, <2>1 DEF LoadsHold
  <2>4. \A v \in loads' :
          /\ v.scope.client # Nobody => v.client = v.scope.client
          /\ v.answered => /\ v.client # Nobody
                           /\ v.at <= written'[[client |-> v.client, conv |-> v.scope.conv]]
          /\ v.mine => run'.at = "loading"
    <3>1. u.at <= written'[[client |-> u.client, conv |-> u.scope.conv]]
      BY <1>2, <1>6, <1>7 DEF x
    <3> QED
      BY <1>1, <1>2, <1>4, <1>7, <1>8, <2>1, <3>1 DEF LoadsHold, Window!TicketsAgree
  <2>5. \A v, w \in loads' : (v.newest /\ w.newest /\ v.scope = w.scope) \/ (v.mine /\ w.mine) => v = w
    BY <1>1, <1>7, <2>1 DEF LoadsHold, Window!TicketsAgree
  <2> QED
    BY <2>2, <2>3, <2>4, <2>5 DEF LoadsHold, Window!TicketsAgree, Window!Known, Window!Exists
<1>11. AsksHold' /\ ViewHolds'
  BY <1>1, <1>2 DEF AsksHold, ViewHolds, Window!Known, Window!Exists, Window!ShownBelongs
<1>12. NewestFits'
  <2>1. ASSUME u.scope = selected PROVE u.at >= windowShown.at
    <3>1. CASE selected.client = Nobody
      BY <1>1, <1>6, <1>7, <3>1 DEF ViewHolds
    <3>2. CASE selected.client # Nobody
      BY <1>1, <1>6, <1>7, <1>8, <2>1, <3>2 DEF ViewHolds, Window!TypeOK
    <3> QED
      BY <3>1, <3>2
  <2> QED
    BY <1>1, <1>2, <1>7, <2>1 DEF NewestFits
<1> QED
  BY <1>9, <1>10, <1>11, <1>12, ScreenPartsNext

(* What the server has is there still if it is left alone.                  *)
LEMMA ScreenServerStays ==
  ASSUME ScreenCore
  PROVE  /\ store' = store => StoreGrows
         /\ written' = written => WrittenGrows
  BY ScreenParts DEF StoreGrows, WrittenGrows, Window!TypeOK

(* The requests when neither they nor the server move.                      *)
LEMMA ScreenLoadsRest ==
  ASSUME ScreenCore, Window!TypeOK', UNCHANGED <<loads, selected, loading, run>>, StoreGrows, WrittenGrows
  PROVE  LoadsHold'
  BY ScreenLoadsStay, ScreenParts DEF LoadsHold, Window!TicketsAgree

(* The changes under way when neither they nor the run move.                *)
LEMMA ScreenAsksRest ==
  ASSUME ScreenCore, UNCHANGED <<asks, run>>, StoreGrows
  PROVE  AsksHold'
  BY ScreenAsksStay, ScreenParts DEF AsksHold

(* Someone else's message.                                                  *)
LEMMA ScreenWrite ==
  ASSUME ScreenCore, NEW s \in Sessions, Window!Write(s)
  PROVE  ScreenCore'
<1> DEFINE e == [type |-> "conversation", of |-> s, as |-> Window!Missing]
<1>1. Window!TypeOK /\ ViewHolds /\ NewestFits
  BY ScreenParts
<1>2. e \in Window!EventRecord /\ e.as.as = "none" /\ ClientOf[s] \in Clients /\ Window!ScopeOf(s) \in Window!Scopes
  BY ScreenScopes, ScreenLists DEF Window!EventRecord
<1>3. /\ Window!Publish(ClientOf[s], e) /\ written' = [written EXCEPT ![Window!ScopeOf(s)] = @ + 1]
      /\ UNCHANGED <<selected, windowSession, bootstrapped, loading, loads, asks, windowShown, plan,
                     sidebar, source, timer, run, posts, store, clicks>>
  BY DEF Window!Write
<1> HIDE DEF e
<1>4. WrittenGrows /\ written' \in [Window!Scopes -> Nat]
  BY <1>1, <1>2, <1>3 DEF WrittenGrows, Window!TypeOK
<1>5. StoreGrows
  BY <1>3, ScreenServerStays
<1>6. /\ windowQueue' \in Seq(Window!EventRecord)
      /\ \A i \in DOMAIN windowQueue' : windowQueue'[i].as.as # "none" => store'[windowQueue'[i].of].as # "none"
      /\ source = Nobody => windowQueue' = windowQueue
  BY <1>2, <1>3, <1>5, ScreenPublishes
<1>7. Window!TypeOK'
  BY <1>1, <1>3, <1>4, <1>6 DEF Window!TypeOK
<1>8. LoadsHold' /\ AsksHold'
  BY <1>3, <1>4, <1>5, <1>7, ScreenLoadsRest, ScreenAsksRest
<1>9. windowShown'.at <= written'[selected']
  <2>1. selected \in Window!Scopes /\ windowShown.at \in Nat /\ written[selected] \in Nat /\ written'[selected] \in Nat
    BY <1>1, <1>4 DEF Window!TypeOK
  <2> QED
    BY <1>1, <1>3, <1>4, <2>1 DEF ViewHolds, WrittenGrows
<1>10. ViewHolds'
  BY <1>1, <1>3, <1>6, <1>9 DEF ViewHolds, Window!Known, Window!Exists, Window!ShownBelongs
<1>11. NewestFits'
  BY <1>1, <1>3 DEF NewestFits
<1> QED
  BY <1>7, <1>8, <1>10, <1>11, ScreenPartsNext

(* Steps that touch neither requests, changes under way, the run nor the server. *)
LEMMA ScreenRest ==
  ASSUME ScreenCore, Window!TypeOK', ViewHolds',
         UNCHANGED <<selected, loading, loads, asks, windowShown, run, store, written>>
  PROVE  ScreenCore'
<1>1. NewestFits'
  BY ScreenParts DEF NewestFits
<1>2. StoreGrows /\ WrittenGrows
  BY ScreenServerStays
<1> QED
  BY <1>1, <1>2, ScreenLoadsRest, ScreenAsksRest, ScreenPartsNext

(* The events of another workspace, and the next event.                     *)
LEMMA ScreenConnects ==
  ASSUME ScreenCore, Window!Connect
  PROVE  ScreenCore'
<1>1. Window!TypeOK /\ ViewHolds
  BY ScreenParts
<1>2. Window!TypeOK'
  <2>1. selected.client \in Clients \cup {Nobody} /\ <<>> \in Seq(Window!EventRecord)
    BY <1>1, ScreenScopes DEF Window!TypeOK
  <2> QED
    BY <1>1, <2>1 DEF Window!Connect, Window!TypeOK
<1>3. ViewHolds'
  BY <1>1 DEF Window!Connect, ViewHolds, Window!Known, Window!Exists, Window!ShownBelongs
<1> QED
  BY <1>2, <1>3, ScreenRest DEF Window!Connect

(* The window takes in the next event.                                      *)
LEMMA ScreenReceives ==
  ASSUME ScreenCore, Window!Receive
  PROVE  ScreenCore'
<1> DEFINE e == Head(windowQueue)
<1>1. Window!TypeOK /\ ViewHolds
  BY ScreenParts
<1>2. windowQueue \in Seq(Window!EventRecord) /\ windowQueue # <<>> /\ windowQueue' = Tail(windowQueue)
  BY <1>1 DEF Window!TypeOK, Window!Receive
<1>3. e \in Window!EventRecord /\ e = windowQueue[1] /\ 1 \in DOMAIN windowQueue /\ windowQueue' \in Seq(Window!EventRecord)
  BY <1>2
<1>4. e.of \in Sessions /\ e.as \in Window!Stamp /\ (e.as.as # "none" => Window!Exists(e.of))
  BY <1>1, <1>3 DEF Window!EventRecord, ViewHolds
<1>5. \A i \in DOMAIN windowQueue' : i + 1 \in DOMAIN windowQueue /\ windowQueue'[i] = windowQueue[i + 1]
  BY <1>2
<1>6. \A i \in DOMAIN windowQueue' : windowQueue'[i].as.as # "none" => Window!Exists(windowQueue'[i].of)
  BY <1>1, <1>5 DEF ViewHolds
<1>7. sidebar' \in {sidebar, [sidebar EXCEPT ![e.of] = e.as]}
  BY DEF Window!Receive, Window!Upsert
<1>8. UNCHANGED <<selected, windowSession, bootstrapped, loading, loads, asks, windowShown, plan,
                  source, run, posts, store, written, clicks>> /\ timer' \in BOOLEAN
  BY <1>1 DEF Window!Receive, Window!OwnsScreen, Window!TypeOK
<1> HIDE DEF e
<1>9. sidebar' \in Window!SessionList /\ \A s \in Sessions : sidebar'[s].as # "none" => Window!Exists(s)
  BY <1>1, <1>4, <1>7 DEF Window!TypeOK, Window!SessionList, ViewHolds, Window!Known
<1>10. Window!TypeOK'
  BY <1>1, <1>3, <1>8, <1>9 DEF Window!TypeOK
<1>11. selected.client # Nobody
  BY <1>1, <1>2 DEF ViewHolds
<1>12. ViewHolds'
  BY <1>1, <1>6, <1>8, <1>9, <1>11 DEF ViewHolds, Window!Known, Window!Exists, Window!ShownBelongs
<1> QED
  BY <1>8, <1>10, <1>12, ScreenRest

(* A request of the window itself begins.                                   *)
LEMMA ScreenAsksAgain ==
  ASSUME ScreenCore, Window!TypeOK', StoreGrows, WrittenGrows,
         NEW scope \in Window!Scopes, Window!Begin(scope, FALSE, loads), run' = run,
         selected'.client = Nobody => selected.client = Nobody /\ scope.client = Nobody
  PROVE  LoadsHold' /\ \A t \in loads' : t.newest /\ t.answered => t.scope # scope
<1>1. selected.client = Nobody => \A u \in loads : u.scope.client = Nobody
  BY ScreenParts DEF LoadsHold
<1>2. \A u \in loads : u.mine => run'.at = "loading" /\ ~FALSE
  BY ScreenParts DEF LoadsHold, Window!TicketsAgree
<1>3. FALSE \in BOOLEAN /\ loads \subseteq loads /\ (FALSE => run'.at = "loading")
  OBVIOUS
<1>4. /\ LoadsHold'
      /\ \A t \in loads' : t.newest /\ t.answered =>
           \E u \in loads : /\ u.newest /\ u.answered /\ u.scope = t.scope /\ u.at = t.at
                           /\ u.scope # scope
  BY <1>1, <1>2, <1>3, ScreenLoadsBegin
<1> QED
  BY <1>4

(* The selected scope is read again: after the debounce, for settings that  *)
(* are applied, or when the person asks for it.                             *)
LEMMA ScreenReads ==
  ASSUME ScreenCore, Window!Begin(selected, FALSE, loads), timer' \in BOOLEAN, timer' => timer, clicks' \in Nat,
         UNCHANGED <<selected, windowSession, bootstrapped, loading, asks, windowShown, plan, sidebar, source,
                     windowQueue, run, posts, store, written>>
  PROVE  ScreenCore'
<1>1. Window!TypeOK /\ LoadsHold /\ ViewHolds /\ NewestFits
  BY ScreenParts
<1>3. selected \in Window!Scopes /\ loads \subseteq Window!TicketRecord
  BY <1>1 DEF Window!TypeOK
<1>4. Window!TypeOK'
  BY <1>1, <1>3, ScreenBegins DEF Window!TypeOK
<1>5. StoreGrows /\ WrittenGrows
  BY ScreenServerStays
<1>7. LoadsHold' /\ \A t \in loads' : t.newest /\ t.answered => t.scope # selected
  BY <1>3, <1>4, <1>5, ScreenAsksAgain
<1>8. NewestFits'
  BY <1>7 DEF NewestFits
<1>9. AsksHold'
  BY <1>5, ScreenAsksRest
<1>10. ViewHolds'
  BY <1>1, <1>3 DEF ViewHolds, Window!Known, Window!Exists, Window!ShownBelongs
<1> QED
  BY <1>4, <1>7, <1>8, <1>9, <1>10, ScreenPartsNext

(* The debounced refresh.                                                   *)
LEMMA ScreenRefreshes ==
  ASSUME ScreenCore, Window!Refresh
  PROVE  ScreenCore'
<1>1. clicks' \in Nat /\ timer' \in BOOLEAN
  BY ScreenParts DEF Window!Refresh, Window!TypeOK
<1> QED
  BY <1>1, ScreenReads DEF Window!Refresh

(* The person has the scope read again.                                     *)
LEMMA ScreenReloads ==
  ASSUME ScreenCore, Window!Reload
  PROVE  ScreenCore'
<1>1. clicks' \in Nat /\ timer' \in BOOLEAN
  BY ScreenParts DEF Window!Reload, Window!Click, Window!TypeOK
<1> QED
  BY <1>1, ScreenReads DEF Window!Reload

(* The settings that were read are applied.                                 *)
LEMMA ScreenApplies ==
  ASSUME ScreenCore, Window!ApplySettings
  PROVE  ScreenCore'
<1>1. clicks' \in Nat /\ timer' \in BOOLEAN
  BY ScreenParts DEF Window!ApplySettings, Window!TypeOK
<1> QED
  BY <1>1, ScreenReads DEF Window!ApplySettings

(* The person selects a session, or a workspace.                            *)
LEMMA ScreenSelects ==
  ASSUME ScreenCore, Window!TypeOK, NEW scope \in Window!Scopes, scope.client # Nobody,
         scope.conv \in Sessions => Window!Exists(scope.conv),
         Window!Select(scope), Window!Begin(scope, FALSE, loads),
         windowSession' \in Sessions \cup {Nobody}, bootstrapped' \in BOOLEAN, clicks' \in Nat,
         sidebar' \in {sidebar, Window!NoSessions},
         UNCHANGED <<loading, asks, source, windowQueue, timer, run, posts, store, written>>
  PROVE  ScreenCore'
<1>1. Window!TypeOK /\ LoadsHold /\ ViewHolds /\ AsksHold
  BY ScreenParts
<1>2. loads' \subseteq Window!TicketRecord
  BY <1>1, ScreenBegins DEF Window!TypeOK
<1>3. selected' = scope /\ windowShown' = [of |-> {}, at |-> 0, from |-> Nobody] /\ plan' = {}
  BY DEF Window!Select, Window!Blank
<1>4. Window!TypeOK'
  BY <1>1, <1>2, <1>3, ScreenLists DEF Window!TypeOK
<1>5. StoreGrows /\ WrittenGrows
  BY ScreenServerStays
<1>7. LoadsHold' /\ \A t \in loads' : t.newest /\ t.answered => t.scope # scope
  BY <1>3, <1>4, <1>5, ScreenAsksAgain
<1>8. NewestFits'
  BY <1>3, <1>7 DEF NewestFits
<1>9. AsksHold'
  BY <1>5, ScreenAsksRest
<1>10. sidebar' \in {sidebar, Window!NoSessions} => \A s \in Sessions : sidebar'[s].as # "none" => Window!Exists(s)
  BY <1>1 DEF ViewHolds, Window!Known, Window!NoSessions, Window!Missing
<1>11. windowShown'.at <= written'[selected'] /\ windowShown'.of \subseteq {selected'}
  BY <1>3, <1>4 DEF Window!TypeOK
<1>12. ViewHolds'
  BY <1>1, <1>3, <1>10, <1>11 DEF ViewHolds, Window!Known, Window!Exists, Window!ShownBelongs
<1> QED
  BY <1>4, <1>7, <1>8, <1>9, <1>12, ScreenPartsNext

(* The person selects a session.                                            *)
LEMMA ScreenSelectsSession ==
  ASSUME ScreenCore, NEW s \in Sessions, Window!SelectSession(s)
  PROVE  ScreenCore'
<1>1. Window!TypeOK /\ ViewHolds
  BY ScreenParts
<1>2. sidebar[s].as # "none"
  BY DEF Window!SelectSession, Window!Listed
<1>3. Window!Exists(s)
  BY <1>1, <1>2 DEF ViewHolds, Window!Known
<1>4. clicks' \in Nat
  BY <1>1 DEF Window!SelectSession, Window!Click, Window!TypeOK
<1> QED
  BY <1>1, <1>3, <1>4, ScreenScopes, ScreenSelects DEF Window!SelectSession, Window!TypeOK

(* A workspace opens: the person selects it, or it was made.                *)
LEMMA ScreenOpensWorkspace ==
  ASSUME ScreenCore, NEW c \in Clients, Window!OpenWorkspace(c), clicks' \in Nat,
         UNCHANGED <<loading, asks, source, windowQueue, timer, run, posts, store, written>>
  PROVE  ScreenCore'
<1>1. Window!TypeOK
  BY ScreenParts
<1> QED
  BY <1>1, ScreenScopes, ScreenSelects DEF Window!OpenWorkspace

(* The person selects a workspace.                                          *)
LEMMA ScreenSelectsClient ==
  ASSUME ScreenCore, NEW c \in Clients, Window!SelectClient(c)
  PROVE  ScreenCore'
<1>1. clicks' \in Nat
  BY ScreenParts DEF Window!SelectClient, Window!Click, Window!TypeOK
<1> QED
  BY <1>1, ScreenOpensWorkspace DEF Window!SelectClient

(* The workspace that was made opens.                                       *)
LEMMA ScreenMadeOpens ==
  ASSUME ScreenCore, Window!WorkspaceMade
  PROVE  ScreenCore'
<1>1. clicks' \in Nat
  BY ScreenParts DEF Window!WorkspaceMade, Window!TypeOK
<1>2. opening \in Clients
  BY DEF Window!WorkspaceMade, Window!Workspaces
<1> QED
  BY <1>1, <1>2, ScreenOpensWorkspace DEF Window!WorkspaceMade

(* A workspace is asked for, and made, or not.                              *)
LEMMA ScreenWorkspaces ==
  ASSUME ScreenCore,
         (\E c \in Clients : Window!CreateWorkspace(c)) \/ Window!MakeWorkspace \/ Window!WorkspaceFailed
  PROVE  ScreenCore'
<1>1. /\ clicks' \in Nat
      /\ UNCHANGED <<selected, windowSession, bootstrapped, loading, loads, asks, windowShown, plan,
                     sidebar, source, windowQueue, timer, run, posts, store, written>>
  BY ScreenParts DEF Window!CreateWorkspace, Window!MakeWorkspace, Window!WorkspaceFailed, Window!Click, Window!TypeOK
<1>2. Window!TypeOK' /\ ViewHolds'
  BY <1>1, ScreenParts DEF Window!TypeOK, ViewHolds, Window!Known, Window!Exists, Window!ShownBelongs
<1> QED
  BY <1>1, <1>2, ScreenRest

(* What the person asks to change, or to know.                              *)
LEMMA ScreenAdds ==
  ASSUME ScreenCore, selected.client # Nobody, NEW r \in Window!AskRecord, asks' = asks \cup {r},
         r.kind # "first", Window!Known(r.known), r.kind # "plan" => r.of \in Sessions,
         r.kind # "plan" => r.ok = FALSE /\ r.as.as = "none", r.owner = selected,
         r.kind = "create" => ClientOf[r.of] = r.owner.client,
         r.kind = "plan" => r.answered, clicks' \in Nat,
         UNCHANGED <<selected, windowSession, bootstrapped, loading, loads, windowShown, plan,
                     sidebar, source, windowQueue, timer, run, posts, store, written>>
  PROVE  ScreenCore'
<1>1. Window!TypeOK /\ ViewHolds /\ NewestFits /\ AsksHold
  BY ScreenParts
<1>2. Window!TypeOK'
  BY <1>1 DEF Window!TypeOK
<1>3. StoreGrows /\ WrittenGrows
  BY ScreenServerStays
<1>4. LoadsHold'
  BY <1>2, <1>3, ScreenLoadsRest
<1>5. AsksHold'
  <2>1. /\ \A s \in Sessions : r.known[s].as # "none" => store'[s].as # "none"
        /\ r.owner.client # Nobody
    BY DEF Window!Known, Window!Exists
  <2>2. \A a \in asks' : a.kind = "first" => a \in asks
    OBVIOUS
  <2>3. \A a \in asks' : a.kind = "first" =>
          /\ run'.at = "creating" /\ a.owner = run'.launch
          /\ ClientOf[a.of] = run'.launch.client /\ Window!ScopeOf(a.of) # run'.launch
    BY <1>1, <2>2 DEF AsksHold
  <2>4. \A a, b \in asks' : a.kind = "first" /\ b.kind = "first" => a = b
    BY <1>1, <2>2 DEF AsksHold
  <2> QED
    BY <1>3, <2>1, <2>3, <2>4, ScreenAsks
<1>6. ViewHolds'
  BY <1>1 DEF ViewHolds, Window!Known, Window!Exists, Window!ShownBelongs
<1>7. NewestFits'
  BY <1>1 DEF NewestFits
<1> QED
  BY <1>2, <1>4, <1>5, <1>6, <1>7, ScreenPartsNext

(* The request of a change carries the scope, the lists and no answer.      *)
LEMMA ScreenRequest ==
  ASSUME Window!TypeOK, NEW s \in Sessions, NEW k \in {"create", "first", "rename", "archive", "delete"}
  PROVE  /\ Window!Request(k, s) \in Window!AskRecord /\ Window!Request(k, s).kind = k /\ Window!Request(k, s).of = s
         /\ Window!Request(k, s).known = sidebar /\ Window!Request(k, s).owner = selected
         /\ Window!Request(k, s).ok = FALSE /\ Window!Request(k, s).as = Window!Missing
<1>1. sidebar \in Window!SessionList /\ sidebar[s] \in Window!Stamp
  BY DEF Window!TypeOK, Window!SessionList
<1>2. sidebar[s].rev \in Nat
  BY <1>1 DEF Window!Stamp
<1> QED
  BY <1>1, <1>2, ScreenLists DEF Window!Request, Window!AskRecord, Window!TypeOK

(* The person asks for a change to a session.                               *)
LEMMA ScreenMutates ==
  ASSUME ScreenCore, NEW s \in Sessions, NEW k \in {"create", "rename", "archive", "delete"},
         Window!Mutate(k, s)
  PROVE  ScreenCore'
<1>1. Window!TypeOK /\ Window!Known(sidebar)
  BY ScreenParts DEF ViewHolds
<1>2. clicks' \in Nat
  BY <1>1 DEF Window!Mutate, Window!Click, Window!TypeOK
<1> DEFINE r == Window!Request(k, s)
<1>3. /\ r \in Window!AskRecord /\ r.kind = k /\ r.of = s /\ r.known = sidebar /\ r.owner = selected
      /\ r.ok = FALSE /\ r.as = Window!Missing
  <2>1. k \in {"create", "first", "rename", "archive", "delete"}
    OBVIOUS
  <2> QED
    BY <1>1, <2>1, ScreenRequest
<1>4. asks' = asks \cup {r} /\ selected.client # Nobody
      /\ UNCHANGED <<selected, windowSession, bootstrapped, loading, loads, windowShown, plan,
                     sidebar, source, windowQueue, timer, run, posts, store, written>>
  BY DEF Window!Mutate
<1> HIDE DEF r
<1>5. r.kind # "first" /\ r.kind # "plan" /\ Window!Known(r.known) /\ r.as.as = "none"
  BY <1>1, <1>3, ScreenLists
<1>6. r.kind = "create" => ClientOf[r.of] = r.owner.client
  BY <1>3 DEF Window!Mutate, Window!Free
<1> QED
  BY <1>2, <1>3, <1>4, <1>5, <1>6, ScreenAdds

(* The person asks for the other plan mode.                                 *)
LEMMA ScreenToggles ==
  ASSUME ScreenCore, Window!TogglePlan
  PROVE  ScreenCore'
<1>1. Window!TypeOK
  BY ScreenParts
<1>2. clicks' \in Nat
  BY <1>1 DEF Window!TogglePlan, Window!Click, Window!TypeOK
<1> DEFINE r == Window!PlanRequest
<1>3. r \in Window!AskRecord /\ r.kind = "plan" /\ r.known = Window!NoSessions /\ r.owner = selected /\ r.answered
  BY <1>1, ScreenLists DEF Window!PlanRequest, Window!AskRecord, Window!TypeOK
<1>4. asks' = asks \cup {r} /\ selected.client # Nobody
      /\ UNCHANGED <<selected, windowSession, bootstrapped, loading, loads, windowShown, plan,
                     sidebar, source, windowQueue, timer, run, posts, store, written>>
  BY DEF Window!TogglePlan
<1> HIDE DEF r
<1>5. Window!Known(r.known)
  BY <1>3, ScreenLists
<1> QED
  BY <1>2, <1>3, <1>4, <1>5, ScreenAdds

(* The answer of the plan mode.                                             *)
LEMMA ScreenPlans ==
  ASSUME ScreenCore, NEW a \in asks, Window!PlanMode(a)
  PROVE  ScreenCore'
<1>1. Window!TypeOK /\ ViewHolds /\ NewestFits /\ AsksHold
  BY ScreenParts
<1>2. a.owner \in Window!Scopes
  BY <1>1 DEF Window!TypeOK, Window!AskRecord
<1>3. Window!TypeOK'
  BY <1>1, <1>2 DEF Window!PlanMode, Window!TypeOK
<1>4. StoreGrows /\ WrittenGrows
  BY ScreenServerStays DEF Window!PlanMode
<1>5. LoadsHold'
  BY <1>3, <1>4, ScreenLoadsRest DEF Window!PlanMode
<1>6. AsksHold'
  BY <1>1, <1>4, ScreenAsksStay DEF Window!PlanMode, AsksHold
<1>7. ViewHolds'
  BY <1>1 DEF Window!PlanMode, ViewHolds, Window!Known, Window!Exists, Window!ShownBelongs
<1>8. NewestFits'
  BY <1>1 DEF Window!PlanMode, NewestFits
<1> QED
  BY <1>3, <1>5, <1>6, <1>7, <1>8, ScreenPartsNext

(* A message goes out, or asks for its session first.                       *)
LEMMA ScreenSubmits ==
  ASSUME ScreenCore, Window!Submit
  PROVE  ScreenCore'
<1>1. Window!TypeOK /\ ViewHolds /\ NewestFits /\ AsksHold /\ LoadsHold
  BY ScreenParts
<1>2. clicks' \in Nat /\ run.at = "idle" /\ selected.client # Nobody
      /\ UNCHANGED <<selected, windowSession, bootstrapped, loading, loads, plan, sidebar,
                     source, windowQueue, timer, store, written>>
  BY <1>1 DEF Window!Submit, Window!Click, Window!MaySubmit, Window!TypeOK
<1>3. StoreGrows /\ WrittenGrows
  BY <1>2, ScreenServerStays
<1>4. posts = {} /\ (\A a \in asks : a.kind # "first") /\ \A t \in loads : ~t.mine
  BY <1>1, <1>2 DEF ViewHolds, AsksHold, LoadsHold, Window!TicketsAgree
<1>5. selected \in Window!Scopes /\ windowShown \in [of : SUBSET Window!Scopes, at : Nat, from : Clients \cup {Nobody}]
  BY <1>1 DEF Window!TypeOK
<1>6. CASE windowSession \in Window!Listed(sidebar, selected.client)
  <2> DEFINE target == Window!ScopeOf(windowSession)
  <2>1. windowSession \in Sessions /\ ClientOf[windowSession] = selected.client
    BY <1>6 DEF Window!Listed
  <2>2. target \in Window!Scopes /\ target.client = selected.client
    BY <2>1, ScreenScopes
  <2>3. /\ posts' = {target} /\ run' = [at |-> "sent", launch |-> selected, target |-> target]
        /\ windowShown' \in {windowShown, [windowShown EXCEPT !.of = @ \cup {target}]} /\ asks' = asks
        /\ windowShown' = windowShown \/ (selected.client = target.client /\ selected.conv = target.conv)
    <3>1. posts' = posts \cup {target} /\ asks' = asks
          /\ run' = [at |-> "sent", launch |-> selected, target |-> target]
      BY <1>6 DEF Window!Submit, Window!Post
    <3>2. windowShown' = IF selected.client = target.client /\ selected.conv = target.conv
                   THEN [windowShown EXCEPT !.of = @ \cup {target}] ELSE windowShown
      BY <1>6 DEF Window!Submit, Window!SameScope
    <3> HIDE DEF target
    <3>3. /\ windowShown' \in {windowShown, [windowShown EXCEPT !.of = @ \cup {target}]}
          /\ windowShown' = windowShown \/ (selected.client = target.client /\ selected.conv = target.conv)
      BY <3>2
    <3> QED
      BY <1>4, <3>1, <3>3
  <2> HIDE DEF target
  <2>4. /\ run'.at = "sent" /\ run'.launch = selected /\ run'.target = target
        /\ run' \in [at : {"idle", "creating", "sent", "loading"}, launch : Window!Scopes, target : Window!Scopes]
    BY <1>5, <2>2, <2>3
  <2>5. /\ windowShown' \in [of : SUBSET Window!Scopes, at : Nat, from : Clients \cup {Nobody}]
        /\ windowShown'.at = windowShown.at /\ windowShown'.from = windowShown.from
    BY <1>5, <2>2, <2>3
  <2>6. windowShown'.of \subseteq {selected}
    <3>1. CASE windowShown' = windowShown
      BY <1>1, <3>1 DEF ViewHolds, Window!ShownBelongs
    <3>2. CASE windowShown' = [windowShown EXCEPT !.of = @ \cup {target}]
               /\ selected.client = target.client /\ selected.conv = target.conv
      <4>1. target = selected
        BY <1>5, <2>2, <3>2, ScreenScopes
      <4>2. windowShown'.of = windowShown.of \cup {target}
        BY <1>5, <3>2
      <4> QED
        BY <1>1, <4>1, <4>2 DEF ViewHolds, Window!ShownBelongs
    <3> QED
      BY <2>3, <3>1, <3>2
  <2>7. Window!TypeOK'
    BY <1>1, <1>2, <2>2, <2>3, <2>4, <2>5 DEF Window!TypeOK
  <2>8. LoadsHold'
    BY <1>2, <1>3, <1>4, <2>7, ScreenLoadsStay
  <2>9. AsksHold'
    BY <1>3, <1>4, <2>3, ScreenAsksStay
  <2>10. ViewHolds'
    BY <1>1, <1>2, <2>2, <2>3, <2>4, <2>5, <2>6 DEF ViewHolds, Window!Known, Window!Exists, Window!ShownBelongs
  <2>11. NewestFits'
    BY <1>1, <1>2, <2>5 DEF NewestFits
  <2> QED
    BY <2>7, <2>8, <2>9, <2>10, <2>11, ScreenPartsNext
<1>7. CASE windowSession \notin Window!Listed(sidebar, selected.client)
  <2>1. PICK s \in Sessions : Window!Free(s) /\ asks' = asks \cup {Window!Request("first", s)}
    BY <1>7 DEF Window!Submit
  <2> DEFINE r == Window!Request("first", s)
  <2>2. /\ r \in Window!AskRecord /\ r.kind = "first" /\ r.of = s /\ r.known = sidebar
        /\ r.owner = selected /\ r.ok = FALSE /\ r.as = Window!Missing
    BY <1>1, ScreenRequest
  <2>3. run' = [Window!Unlaunched EXCEPT !.at = "creating", !.launch = selected]
        /\ UNCHANGED <<posts, windowShown>>
    BY <1>7 DEF Window!Submit
  <2>4. run'.at = "creating" /\ run'.launch = selected
        /\ run' \in [at : {"idle", "creating", "sent", "loading"}, launch : Window!Scopes, target : Window!Scopes]
    BY <1>5, <2>3, ScreenScopes DEF Window!Unlaunched
  <2>5. ClientOf[s] = selected.client /\ Window!ScopeOf(s) # selected
    BY <1>1, <2>1, ScreenScopes DEF Window!Free, ViewHolds, Window!Exists
  <2>6. asks' = asks \cup {r}
    BY <2>1
  <2> HIDE DEF r
  <2>7. Window!TypeOK'
    BY <1>1, <1>2, <2>2, <2>3, <2>4, <2>6 DEF Window!TypeOK
  <2>8. LoadsHold'
    BY <1>2, <1>3, <1>4, <2>7, ScreenLoadsStay
  <2>9. AsksHold'
    <3>1. /\ \A x \in Sessions : r.known[x].as # "none" => store'[x].as # "none"
          /\ r.owner.client # Nobody /\ r.as.as = "none" /\ r.kind # "plan"
      BY <1>1, <1>2, <2>2, ScreenLists DEF ViewHolds, Window!Known, Window!Exists
    <3>2. \A a \in asks' : a.kind = "first" => a = r
      BY <1>4, <2>6
    <3>3. \A a \in asks' : a.kind = "first" =>
            /\ run'.at = "creating" /\ a.owner = run'.launch
            /\ ClientOf[a.of] = run'.launch.client /\ Window!ScopeOf(a.of) # run'.launch
      BY <2>2, <2>4, <2>5, <3>2
    <3>4. \A a, b \in asks' : a.kind = "first" /\ b.kind = "first" => a = b
      BY <3>2
    <3> QED
      BY <1>3, <2>2, <2>6, <3>1, <3>3, <3>4, ScreenAsks
  <2>10. ViewHolds'
    BY <1>1, <1>2, <1>4, <2>3, <2>4 DEF ViewHolds, Window!Known, Window!Exists, Window!ShownBelongs
  <2>11. NewestFits'
    BY <1>1, <1>2, <2>3 DEF NewestFits
  <2> QED
    BY <2>7, <2>8, <2>9, <2>10, <2>11, ScreenPartsNext
<1> QED
  BY <1>6, <1>7

(* The message is answered, or its request failed.                          *)
LEMMA ScreenPosts ==
  ASSUME ScreenCore, NEW scope \in posts, Window!AnswerPost(scope)
  PROVE  ScreenCore'
<1>1. Window!TypeOK /\ ViewHolds /\ NewestFits /\ AsksHold /\ LoadsHold
  BY ScreenParts
<1>2. /\ posts' = posts \ {scope} /\ run' = [run EXCEPT !.at = "loading"]
      /\ Window!Begin(scope, TRUE, loads)
      /\ UNCHANGED <<selected, windowSession, bootstrapped, loading, asks, windowShown, plan, sidebar, source,
                     windowQueue, timer, store, clicks>>
  BY DEF Window!AnswerPost
<1>3. run.at = "sent" /\ posts = {run.target} /\ scope = run.target
  <2>1. posts # {}
    OBVIOUS
  <2> QED
    BY <1>1, <2>1 DEF ViewHolds
<1>4. scope \in Window!Scopes /\ scope.client # Nobody /\ selected.client # Nobody
  BY <1>1, <1>3 DEF ViewHolds, Window!TypeOK
<1>5. written' = written \/ written' = [written EXCEPT ![scope] = @ + 1]
  BY DEF Window!AnswerPost
<1>6. WrittenGrows /\ written' \in [Window!Scopes -> Nat]
  <2>1. written \in [Window!Scopes -> Nat]
    BY <1>1 DEF Window!TypeOK
  <2>2. CASE written' = written
    BY <2>1, <2>2 DEF WrittenGrows
  <2>3. CASE written' = [written EXCEPT ![scope] = @ + 1]
    BY <1>4, <2>1, <2>3 DEF WrittenGrows
  <2> QED
    BY <1>5, <2>2, <2>3
<1>7. StoreGrows
  BY <1>2, ScreenServerStays
<1>8. /\ run'.at = "loading" /\ run'.launch = run.launch
      /\ run' \in [at : {"idle", "creating", "sent", "loading"}, launch : Window!Scopes, target : Window!Scopes]
  BY <1>1, <1>2 DEF Window!TypeOK
<1>9. Window!TypeOK'
  BY <1>1, <1>2, <1>4, <1>6, <1>8, ScreenBegins DEF Window!TypeOK
<1>10. /\ LoadsHold'
       /\ \A t \in loads' : t.newest /\ t.answered =>
            \E u \in loads : /\ u.newest /\ u.answered /\ u.scope = t.scope /\ u.at = t.at
                            /\ u.scope # scope
  <2>1. selected'.client # Nobody
    BY <1>2, <1>4
  <2>2. \A u \in loads : u.mine => run'.at = "loading" /\ ~TRUE
    BY <1>1, <1>3 DEF LoadsHold, Window!TicketsAgree
  <2>3. TRUE \in BOOLEAN /\ loads \subseteq loads /\ (TRUE => run'.at = "loading")
    BY <1>8
  <2> QED
    BY <1>2, <1>4, <1>6, <1>7, <1>9, <2>1, <2>2, <2>3, ScreenLoadsBegin
<1>11. AsksHold'
  BY <1>1, <1>2, <1>3, <1>7, ScreenAsksStay DEF AsksHold
<1>12. NewestFits'
  BY <1>1, <1>2, <1>10 DEF NewestFits
<1>13. windowShown'.at <= written'[selected']
  <2>1. selected \in Window!Scopes /\ windowShown.at \in Nat /\ written[selected] \in Nat /\ written'[selected] \in Nat
    BY <1>1, <1>6 DEF Window!TypeOK
  <2> QED
    BY <1>1, <1>2, <1>6, <2>1 DEF ViewHolds, WrittenGrows
<1>14. posts' = {}
  BY <1>2, <1>3
<1>15. ViewHolds'
  BY <1>1, <1>2, <1>3, <1>4, <1>8, <1>13, <1>14 DEF ViewHolds, Window!Known, Window!Exists, Window!ShownBelongs
<1> QED
  BY <1>9, <1>10, <1>11, <1>12, <1>15, ScreenPartsNext

(* A change is made, or refused, or its answer lost.                        *)
Answered(a, ok, next) == [a EXCEPT !.answered = TRUE, !.ok = ok, !.as = IF ok THEN next ELSE Window!Missing]

(* A request with its answer is the same request otherwise.                 *)
LEMMA ScreenAnswered ==
  ASSUME NEW a \in Window!AskRecord, NEW ok \in BOOLEAN, NEW next \in Window!Stamp
  PROVE  /\ Answered(a, ok, next) \in Window!AskRecord
         /\ Answered(a, ok, next).kind = a.kind /\ Answered(a, ok, next).of = a.of
         /\ Answered(a, ok, next).owner = a.owner /\ Answered(a, ok, next).known = a.known
         /\ Answered(a, ok, next).ok = ok
         /\ Answered(a, ok, next).as = IF ok THEN next ELSE Window!Missing
<1> DEFINE new == IF ok THEN next ELSE Window!Missing
<1>1. new \in Window!Stamp
  BY ScreenLists
<1> HIDE DEF new
<1>2. Answered(a, ok, next) = [a EXCEPT !.answered = TRUE, !.ok = ok, !.as = new]
  BY DEF Answered, new
<1>3. /\ [a EXCEPT !.answered = TRUE, !.ok = ok, !.as = new] \in Window!AskRecord
      /\ [a EXCEPT !.answered = TRUE, !.ok = ok, !.as = new].kind = a.kind
      /\ [a EXCEPT !.answered = TRUE, !.ok = ok, !.as = new].of = a.of
      /\ [a EXCEPT !.answered = TRUE, !.ok = ok, !.as = new].owner = a.owner
      /\ [a EXCEPT !.answered = TRUE, !.ok = ok, !.as = new].known = a.known
      /\ [a EXCEPT !.answered = TRUE, !.ok = ok, !.as = new].ok = ok
      /\ [a EXCEPT !.answered = TRUE, !.ok = ok, !.as = new].as = new
  BY <1>1 DEF Window!AskRecord
<1> QED
  BY <1>2, <1>3 DEF new

(* The server makes the change or not, and announces what it made.          *)
LEMMA ScreenSettles ==
  ASSUME ScreenCore, NEW a \in asks, ~a.answered, a.of \in Sessions,
         NEW ok \in BOOLEAN, NEW made \in BOOLEAN, ok => made,
         NEW next \in Window!Stamp, next.as # "none",
         asks' = (asks \ {a}) \cup {Answered(a, ok, next)},
         made => /\ store' = [store EXCEPT ![a.of] = next]
                 /\ Window!Publish(ClientOf[a.of], [type |-> "session", of |-> a.of, as |-> next]),
         ~made => UNCHANGED <<store, windowQueue>>,
         UNCHANGED <<selected, windowSession, bootstrapped, loading, loads, windowShown, plan,
                     sidebar, source, timer, run, posts, written, clicks>>
  PROVE  ScreenCore'
<1> DEFINE r == Answered(a, ok, next)
<1>1. Window!TypeOK /\ ViewHolds /\ NewestFits /\ AsksHold /\ LoadsHold
  BY ScreenParts
<1>2. a \in Window!AskRecord /\ a.owner.client # Nobody /\ (a.kind = "plan" => a.answered) /\ Window!Known(a.known)
      /\ (a.kind = "create" => ClientOf[a.of] = a.owner.client)
  BY <1>1 DEF Window!TypeOK, AsksHold
<1>3. /\ r \in Window!AskRecord /\ r.kind = a.kind /\ r.of = a.of /\ r.owner = a.owner
      /\ r.known = a.known /\ r.ok = ok /\ r.as = IF ok THEN next ELSE Window!Missing
  BY <1>2, ScreenAnswered
<1>4. asks' = (asks \ {a}) \cup {r}
  OBVIOUS
<1> HIDE DEF r
<1>5. StoreGrows /\ store' \in Window!SessionList
  BY <1>1 DEF StoreGrows, Window!TypeOK, Window!SessionList
<1>6. WrittenGrows
  BY ScreenServerStays
<1>7. made => store'[a.of].as # "none"
  BY <1>1 DEF Window!TypeOK, Window!SessionList
<1>8. /\ windowQueue' \in Seq(Window!EventRecord)
      /\ \A i \in DOMAIN windowQueue' : windowQueue'[i].as.as # "none" => store'[windowQueue'[i].of].as # "none"
      /\ source = Nobody => windowQueue' = windowQueue
  <2>1. CASE made
    <3> DEFINE e == [type |-> "session", of |-> a.of, as |-> next]
    <3>1. e \in Window!EventRecord /\ e.as = next /\ e.of = a.of
      BY DEF Window!EventRecord
    <3>2. ClientOf[a.of] \in Clients
      BY ScreenScopes
    <3>3. Window!Publish(ClientOf[a.of], e)
      BY <2>1
    <3> HIDE DEF e
    <3> QED
      BY <1>5, <1>7, <2>1, <3>1, <3>2, <3>3, ScreenPublishes
  <2>2. CASE ~made
    BY <1>1, <1>5, <2>2, ScreenQueueStays DEF Window!TypeOK
  <2> QED
    BY <2>1, <2>2
<1>9. Window!TypeOK'
  BY <1>1, <1>3, <1>4, <1>5, <1>8 DEF Window!TypeOK
<1>10. LoadsHold'
  BY <1>5, <1>6, <1>9, ScreenLoadsRest
<1>11. AsksHold'
  <2>1. \A s \in Sessions : r.known[s].as # "none" => store'[s].as # "none"
    BY <1>2, <1>3, <1>5 DEF Window!Known, Window!Exists, StoreGrows
  <2>2. /\ r.kind # "plan" /\ r.owner.client # Nobody /\ r.of \in Sessions
        /\ r.kind = "create" => ClientOf[r.of] = r.owner.client
    BY <1>2, <1>3
  <2>3. r.ok \/ r.as.as # "none" => store'[r.of].as # "none"
    BY <1>3, <1>7, ScreenLists
  <2>4. \A b \in asks' : b.kind = "first" =>
          /\ run'.at = "creating" /\ b.owner = run'.launch
          /\ ClientOf[b.of] = run'.launch.client /\ Window!ScopeOf(b.of) # run'.launch
    BY <1>1, <1>3, <1>4 DEF AsksHold
  <2>5. \A b, d \in asks' : b.kind = "first" /\ d.kind = "first" => b = d
    BY <1>1, <1>3, <1>4 DEF AsksHold
  <2> QED
    BY <1>4, <1>5, <2>1, <2>2, <2>3, <2>4, <2>5, ScreenAsks
<1>12. selected.client # Nobody
  BY <1>1 DEF ViewHolds
<1>13. /\ selected.conv \in Sessions => store'[selected.conv].as # "none"
       /\ \A s \in Sessions : sidebar[s].as # "none" => store'[s].as # "none"
  BY <1>1, <1>5 DEF ViewHolds, Window!Known, Window!Exists, StoreGrows
<1>14. ViewHolds'
  BY <1>1, <1>8, <1>12, <1>13 DEF ViewHolds, Window!Known, Window!Exists, Window!ShownBelongs
<1>15. NewestFits'
  BY <1>1 DEF NewestFits
<1> QED
  BY <1>9, <1>10, <1>11, <1>14, <1>15, ScreenPartsNext

(* The server answers a change.                                             *)
LEMMA ScreenAnswersAsk ==
  ASSUME ScreenCore, NEW a \in asks, Window!AnswerAsk(a)
  PROVE  ScreenCore'
<1> DEFINE s == a.of
           fits == store[s].as = Window!From[a.kind] /\ store[s].rev = a.rev /\ a.rev < MaxRev
           next == [rev |-> store[s].rev + 1, as |-> Window!Become[a.kind]]
<1>1. Window!TypeOK /\ AsksHold
  BY ScreenParts
<1>2. ~a.answered /\ a \in Window!AskRecord
  BY <1>1 DEF Window!AnswerAsk, Window!TypeOK
<1>3. a.kind # "plan" /\ a.of \in Sessions
  BY <1>1, <1>2 DEF AsksHold
<1>4. a.kind \in {"create", "first", "rename", "archive", "delete"}
  BY <1>2, <1>3 DEF Window!AskRecord
<1>5. Window!Become[a.kind] \in {"active", "archived", "deleted"}
  BY <1>4 DEF Window!Become
<1>6. store[s] \in Window!Stamp
  BY <1>1, <1>3 DEF Window!TypeOK, Window!SessionList
<1>7. store[s].rev \in Nat
  BY <1>6 DEF Window!Stamp
<1>8. next \in Window!Stamp /\ next.as # "none"
  BY <1>5, <1>7 DEF Window!Stamp
<1> DEFINE Settle(made, ok) ==
      /\ asks' = (asks \ {a}) \cup {Answered(a, ok, next)}
      /\ IF made
         THEN /\ store' = [store EXCEPT ![s] = next]
              /\ Window!Publish(ClientOf[s], [type |-> "session", of |-> s, as |-> next])
         ELSE UNCHANGED <<store, windowQueue>>
<1>9. /\ \E made \in {FALSE, fits} : \E ok \in {FALSE, made} : Settle(made, ok)
      /\ UNCHANGED <<selected, windowSession, bootstrapped, loading, loads, windowShown, plan,
                     sidebar, source, timer, run, posts, written, clicks>>
  BY DEF Window!AnswerAsk, Answered
<1>10. Settle(FALSE, FALSE) \/ Settle(TRUE, FALSE) \/ Settle(TRUE, TRUE)
  <2> HIDE DEF Settle
  <2>1. PICK made \in {FALSE, fits} : \E ok \in {FALSE, made} : Settle(made, ok)
    BY <1>9
  <2>2. made \in BOOLEAN
    BY <2>1
  <2>3. CASE made = TRUE
    BY <2>1, <2>3
  <2>4. CASE made = FALSE
    BY <2>1, <2>4
  <2> QED
    BY <2>2, <2>3, <2>4
<1>11. CASE Settle(FALSE, FALSE)
  <2>1. asks' = (asks \ {a}) \cup {Answered(a, FALSE, next)} /\ UNCHANGED <<store, windowQueue>>
    BY <1>11
  <2> HIDE DEF Settle, next, fits
  <2> QED
    BY <1>2, <1>3, <1>8, <1>9, <2>1, ScreenSettles
<1>12. ASSUME NEW ok \in BOOLEAN, Settle(TRUE, ok) PROVE ScreenCore'
  <2>1. /\ asks' = (asks \ {a}) \cup {Answered(a, ok, next)}
        /\ store' = [store EXCEPT ![a.of] = next]
        /\ Window!Publish(ClientOf[a.of], [type |-> "session", of |-> a.of, as |-> next])
    BY <1>12
  <2> HIDE DEF Settle, next, fits
  <2> QED
    BY <1>2, <1>3, <1>8, <1>9, <2>1, ScreenSettles
<1> QED
  <2> HIDE DEF Settle
  <2> QED
    BY <1>10, <1>11, <1>12

(* The run when a request ends: its own conversation was read again, or it goes on. *)
LEMMA ScreenSettledRun ==
  ASSUME ScreenCore, NEW t \in loads, run' = Window!Settled(t), posts' = posts
  PROVE  /\ run' \in [at : {"idle", "creating", "sent", "loading"}, launch : Window!Scopes, target : Window!Scopes]
         /\ posts' = IF run'.at = "sent" THEN {run'.target} ELSE {}
         /\ run'.at = "sent" => run'.target.client = run'.launch.client
         /\ run'.at # "idle" => run'.launch.client # Nobody
         /\ \A u \in loads : u # t /\ u.mine => run'.at = "loading"
         /\ \A a \in asks : a.kind = "first" => run'.at = "creating" /\ run'.launch = run.launch
<1>1. Window!TypeOK /\ ViewHolds /\ AsksHold /\ LoadsHold
  BY ScreenParts
<1>2. CASE t.mine
  <2>1. run.at = "loading" /\ \A u \in loads : u # t => ~u.mine
    BY <1>1, <1>2 DEF LoadsHold, Window!TicketsAgree
  <2>2. run'.at = "idle" /\ run' \in [at : {"idle", "creating", "sent", "loading"}, launch : Window!Scopes, target : Window!Scopes]
    BY <1>2, ScreenScopes DEF Window!Settled, Window!Unlaunched
  <2> QED
    BY <1>1, <2>1, <2>2 DEF ViewHolds, AsksHold
<1>3. CASE ~t.mine
  <2>1. run' = run
    BY <1>3 DEF Window!Settled
  <2> QED
    BY <1>1, <2>1 DEF ViewHolds, AsksHold, LoadsHold, Window!TicketsAgree, Window!TypeOK
<1> QED
  BY <1>2, <1>3

(* What an answered request was asked for, where it may be shown.           *)
LEMMA ScreenAnswer ==
  ASSUME ScreenCore, NEW t \in loads, t.answered, Window!CanCommit(t)
  PROVE  /\ t.client \in Clients /\ t.list \in Window!SessionList /\ t.at \in Nat /\ t.newest
         /\ [client |-> t.client, conv |-> t.scope.conv] \in Window!Scopes
         /\ \A s \in Sessions : t.list[s].as # "none" => Window!Exists(s)
         /\ t.at <= written[[client |-> t.client, conv |-> t.scope.conv]]
         /\ selected.conv = t.scope.conv
         /\ Window!Asked(t) \in Clients \cup {Nobody}
         /\ Window!Asked(t) # Nobody =>
              \A u \in loads : u # t /\ u.newest /\ u.answered =>
                u.scope # [client |-> t.client, conv |-> t.scope.conv]
<1>1. Window!TypeOK /\ LoadsHold
  BY ScreenParts
<1>2. t \in Window!TicketRecord /\ t.client # Nobody
  BY <1>1 DEF Window!TypeOK, LoadsHold, Window!TicketsAgree
<1>3. /\ t.client \in Clients /\ t.list \in Window!SessionList /\ t.at \in Nat /\ t.scope \in Window!Scopes
      /\ t.scope.conv \in Sessions \cup {Window!Primary}
  BY <1>2, ScreenScopes DEF Window!TicketRecord
<1>4. [client |-> t.client, conv |-> t.scope.conv] \in Window!Scopes
  BY <1>3 DEF Window!Scopes
<1>5. t.newest /\ selected.conv = t.scope.conv
  BY DEF Window!CanCommit
<1>6. Window!Asked(t) \in Clients \cup {Nobody}
  BY <1>3, ScreenScopes DEF Window!Asked
<1>7. ASSUME Window!Asked(t) # Nobody,
             NEW u \in loads, u # t, u.newest, u.scope = [client |-> t.client, conv |-> t.scope.conv]
      PROVE  FALSE
  <2>0. u.scope.client = t.client /\ u.scope.client # Nobody
    BY <1>2, <1>7
  <2>1. selected.client # Nobody
    BY <1>1, <2>0 DEF LoadsHold
  <2>2. t.scope.client # Nobody
    BY <1>7, <2>1 DEF Window!Asked
  <2>3. t.scope = u.scope
    BY <1>1, <1>3, <1>7, <2>2, ScreenScopes DEF LoadsHold, Window!TicketsAgree
  <2> QED
    BY <1>1, <1>5, <1>7, <2>3 DEF LoadsHold, Window!TicketsAgree
<1> QED
  BY <1>1, <1>3, <1>4, <1>5, <1>6, <1>7 DEF LoadsHold, Window!TicketsAgree, Window!Known

(* A request fails, or its answer comes too late.                           *)
LEMMA ScreenIgnores ==
  ASSUME ScreenCore, NEW t \in loads, t.answered, run' = Window!Settled(t), loads' = loads \ {t},
         loading' = (loading /\ ~Window!CanCommit(t)),
         UNCHANGED <<selected, windowSession, bootstrapped, asks, windowShown, plan, sidebar, source, windowQueue,
                     timer, posts, store, written, clicks>>
  PROVE  ScreenCore'
<1>1. Window!TypeOK /\ ViewHolds /\ AsksHold /\ LoadsHold /\ NewestFits
  BY ScreenParts
<1>2. /\ run' \in [at : {"idle", "creating", "sent", "loading"}, launch : Window!Scopes, target : Window!Scopes]
      /\ posts' = IF run'.at = "sent" THEN {run'.target} ELSE {}
      /\ run'.at = "sent" => run'.target.client = run'.launch.client
      /\ run'.at # "idle" => run'.launch.client # Nobody
      /\ \A u \in loads : u # t /\ u.mine => run'.at = "loading"
      /\ \A a \in asks : a.kind = "first" => run'.at = "creating" /\ run'.launch = run.launch
  BY ScreenSettledRun
<1>3. StoreGrows /\ WrittenGrows
  BY ScreenServerStays
<1>4. Window!TypeOK'
  BY <1>1, <1>2 DEF Window!TypeOK
<1>5. LoadsHold'
  <2>1. selected'.client = Nobody => \A u \in loads' : u.scope.client = Nobody
    BY <1>1 DEF LoadsHold
  <2>2. \A u \in loads' : u.mine => run'.at = "loading"
    BY <1>2
  <2>3. loads' \subseteq loads
    OBVIOUS
  <2> QED
    BY <1>3, <1>4, <2>1, <2>2, <2>3, ScreenLoadsStay
<1>6. AsksHold'
  BY <1>2, <1>3, ScreenAsksStay
<1>7. ViewHolds'
  BY <1>1, <1>2 DEF ViewHolds, Window!Known, Window!Exists, Window!ShownBelongs
<1>8. NewestFits'
  BY <1>1 DEF NewestFits
<1> QED
  BY <1>4, <1>5, <1>6, <1>7, <1>8, ScreenPartsNext

(* The answer is shown.                                                     *)
LEMMA ScreenShows ==
  ASSUME ScreenCore, NEW t \in loads, t.answered, Window!CanCommit(t), run' = Window!Settled(t),
         selected' = [client |-> t.client, conv |-> t.scope.conv],
         windowShown' = [of |-> {[client |-> t.client, conv |-> t.scope.conv]}, at |-> t.at,
                   from |-> Window!Asked(t)],
         plan' = {[client |-> t.client, conv |-> t.scope.conv]},
         loading' = FALSE, loads' = loads \ {t}, sidebar' = t.list, bootstrapped' = TRUE,
         windowSession' \in Sessions \cup {Nobody},
         UNCHANGED <<asks, source, windowQueue, timer, posts, store, written, clicks>>
  PROVE  ScreenCore'
<1> DEFINE here == [client |-> t.client, conv |-> t.scope.conv]
<1>1. Window!TypeOK /\ ViewHolds /\ AsksHold /\ LoadsHold /\ NewestFits
  BY ScreenParts
<1>2. /\ run' \in [at : {"idle", "creating", "sent", "loading"}, launch : Window!Scopes, target : Window!Scopes]
      /\ posts' = IF run'.at = "sent" THEN {run'.target} ELSE {}
      /\ run'.at = "sent" => run'.target.client = run'.launch.client
      /\ run'.at # "idle" => run'.launch.client # Nobody
      /\ \A u \in loads : u # t /\ u.mine => run'.at = "loading"
      /\ \A a \in asks : a.kind = "first" => run'.at = "creating" /\ run'.launch = run.launch
  BY ScreenSettledRun
<1>3. StoreGrows /\ WrittenGrows
  BY ScreenServerStays
<1>4. /\ t.client \in Clients /\ t.list \in Window!SessionList /\ t.at \in Nat
      /\ here \in Window!Scopes /\ here.client = t.client /\ here.conv = t.scope.conv
      /\ \A s \in Sessions : t.list[s].as # "none" => Window!Exists(s)
      /\ t.at <= written[here] /\ selected.conv = here.conv
      /\ Window!Asked(t) \in Clients \cup {Nobody}
      /\ Window!Asked(t) # Nobody =>
           \A u \in loads : u # t /\ u.newest /\ u.answered => u.scope # here
  BY ScreenAnswer
<1>5. selected' = here /\ windowShown' = [of |-> {here}, at |-> t.at, from |-> Window!Asked(t)] /\ plan' = {here}
  OBVIOUS
<1> HIDE DEF here
<1>6. /\ windowShown' \in [of : SUBSET Window!Scopes, at : Nat, from : Clients \cup {Nobody}]
      /\ windowShown'.of = {here} /\ windowShown'.at = t.at /\ windowShown'.from = Window!Asked(t)
  BY <1>4, <1>5
<1>7. Window!TypeOK'
  BY <1>1, <1>2, <1>4, <1>5, <1>6 DEF Window!TypeOK
<1>8. LoadsHold'
  <2>1. selected'.client # Nobody
    BY <1>4, <1>5, ScreenScopes
  <2>2. \A u \in loads' : u.mine => run'.at = "loading"
    BY <1>2
  <2>3. loads' \subseteq loads
    OBVIOUS
  <2> QED
    BY <1>3, <1>7, <2>1, <2>2, <2>3, ScreenLoadsStay
<1>9. AsksHold'
  BY <1>2, <1>3, ScreenAsksStay
<1>10. ViewHolds'
  <2>1. selected'.client # Nobody
    BY <1>4, <1>5, ScreenScopes
  <2>2. selected'.conv \in Sessions => Window!Exists(selected'.conv)
    BY <1>1, <1>4, <1>5 DEF ViewHolds
  <2>3. windowShown'.at <= written'[selected'] /\ windowShown'.of \subseteq {selected'}
    BY <1>4, <1>5, <1>6
  <2>4. \A s \in Sessions : sidebar'[s].as # "none" => Window!Exists(s)
    BY <1>4
  <2> QED
    BY <1>1, <1>2, <2>1, <2>2, <2>3, <2>4 DEF ViewHolds, Window!Known, Window!Exists, Window!ShownBelongs
<1>11. NewestFits'
  BY <1>4, <1>5, <1>6 DEF NewestFits
<1> QED
  BY <1>7, <1>8, <1>9, <1>10, <1>11, ScreenPartsNext

(* The answer opens another session.                                        *)
LEMMA ScreenOpens ==
  ASSUME ScreenCore, NEW t \in loads, t.answered, Window!CanCommit(t), run' = Window!Settled(t),
         NEW s \in Sessions, t.list[s].as # "none",
         Window!Select(Window!ScopeOf(s)), Window!Begin(Window!ScopeOf(s), FALSE, loads \ {t}),
         sidebar' = t.list, bootstrapped' = TRUE, windowSession' \in Sessions \cup {Nobody},
         UNCHANGED <<loading, asks, source, windowQueue, timer, posts, store, written, clicks>>
  PROVE  ScreenCore'
<1> DEFINE scope == Window!ScopeOf(s)
<1>1. Window!TypeOK /\ ViewHolds /\ AsksHold /\ LoadsHold /\ NewestFits
  BY ScreenParts
<1>2. /\ run' \in [at : {"idle", "creating", "sent", "loading"}, launch : Window!Scopes, target : Window!Scopes]
      /\ posts' = IF run'.at = "sent" THEN {run'.target} ELSE {}
      /\ run'.at = "sent" => run'.target.client = run'.launch.client
      /\ run'.at # "idle" => run'.launch.client # Nobody
      /\ \A u \in loads : u # t /\ u.mine => run'.at = "loading"
      /\ \A a \in asks : a.kind = "first" => run'.at = "creating" /\ run'.launch = run.launch
  BY ScreenSettledRun
<1>3. StoreGrows /\ WrittenGrows
  BY ScreenServerStays
<1>4. /\ t.list \in Window!SessionList
      /\ \A x \in Sessions : t.list[x].as # "none" => Window!Exists(x)
  BY ScreenAnswer
<1>5. scope \in Window!Scopes /\ scope.client # Nobody /\ scope.conv = s
  BY ScreenScopes
<1>6. selected' = scope /\ windowShown' = [of |-> {}, at |-> 0, from |-> Nobody] /\ plan' = {}
  BY DEF Window!Select, Window!Blank
<1>7. loads' \subseteq Window!TicketRecord
  <2>1. FALSE \in BOOLEAN /\ loads \ {t} \subseteq Window!TicketRecord /\ Window!Begin(scope, FALSE, loads \ {t})
    BY <1>1 DEF Window!TypeOK
  <2> HIDE DEF scope
  <2> QED
    BY <1>5, <2>1, ScreenBegins
<1>8. Window!TypeOK'
  BY <1>1, <1>2, <1>4, <1>5, <1>6, <1>7 DEF Window!TypeOK
<1>9. LoadsHold' /\ \A u \in loads' : u.newest /\ u.answered => u.scope # scope
  <2> DEFINE others == loads \ {t}
  <2>1. /\ others \subseteq loads /\ Window!Begin(scope, FALSE, others)
        /\ selected'.client # Nobody
        /\ \A u \in others : u.mine => run'.at = "loading" /\ ~FALSE
        /\ FALSE \in BOOLEAN /\ (FALSE => run'.at = "loading")
    BY <1>2, <1>5, <1>6
  <2> HIDE DEF others, scope
  <2>2. /\ LoadsHold'
        /\ \A u \in loads' : u.newest /\ u.answered =>
             \E v \in loads : /\ v.newest /\ v.answered /\ v.scope = u.scope /\ v.at = u.at
                             /\ v.scope # scope
    BY <1>3, <1>5, <1>8, <2>1, ScreenLoadsBegin
  <2> QED
    BY <2>2
<1>10. AsksHold'
  BY <1>2, <1>3, ScreenAsksStay
<1>11. windowShown'.at <= written'[selected'] /\ windowShown'.of \subseteq {selected'}
  BY <1>5, <1>6, <1>8 DEF Window!TypeOK
<1>12. ViewHolds'
  BY <1>1, <1>2, <1>4, <1>5, <1>6, <1>11 DEF ViewHolds, Window!Known, Window!Exists, Window!ShownBelongs
<1>13. NewestFits'
  BY <1>6, <1>9 DEF NewestFits
<1> QED
  BY <1>8, <1>9, <1>10, <1>12, <1>13, ScreenPartsNext

(* The answer of a state request is read.                                   *)
LEMMA ScreenLoads ==
  ASSUME ScreenCore, NEW t \in loads, Window!Load(t)
  PROVE  ScreenCore'
<1> DEFINE here == [client |-> t.client, conv |-> t.scope.conv]
<1>1. /\ t.answered /\ run' = Window!Settled(t)
      /\ UNCHANGED <<asks, source, windowQueue, timer, posts, store, written, clicks>>
  BY DEF Window!Load
<1>2. CASE /\ loads' = loads \ {t} /\ Window!Stay /\ loading' = (loading /\ ~Window!CanCommit(t))
           /\ UNCHANGED <<windowSession, sidebar, bootstrapped>>
  BY <1>1, <1>2, ScreenIgnores DEF Window!Stay
<1>3. ASSUME Window!CanCommit(t), sidebar' = t.list, bootstrapped' = TRUE,
             NEW s \in IF bootstrapped THEN {Nobody} ELSE Window!Targets(t),
             windowSession' = IF s = Nobody THEN windowSession ELSE s,
             IF s \notin {Nobody, t.scope.conv}
             THEN /\ Window!Select(Window!ScopeOf(s)) /\ Window!Begin(Window!ScopeOf(s), FALSE, loads \ {t})
                  /\ UNCHANGED loading
             ELSE /\ selected' = here /\ windowShown' = [of |-> {here}, at |-> t.at, from |-> Window!Asked(t)]
                  /\ loading' = FALSE
                  /\ plan' = {here} /\ loads' = loads \ {t}
      PROVE  ScreenCore'
  <2>1. s = Nobody \/ s \in Window!Listed(t.list, t.client)
    BY <1>3 DEF Window!Targets
  <2>2. s = Nobody \/ (s \in Sessions /\ t.list[s].as # "none")
    BY <2>1 DEF Window!Listed
  <2>3. windowSession' \in Sessions \cup {Nobody}
    BY <1>3, <2>2, ScreenParts DEF Window!TypeOK
  <2>4. CASE s \notin {Nobody, t.scope.conv}
    BY <1>1, <1>3, <2>2, <2>3, <2>4, ScreenOpens
  <2>5. CASE s \in {Nobody, t.scope.conv}
    BY <1>1, <1>3, <2>3, <2>5, ScreenShows
  <2> QED
    BY <2>4, <2>5
<1> QED
  BY <1>2, <1>3 DEF Window!Load

(* A list read again knows what the server knows.                           *)
LEMMA ScreenRelists ==
  ASSUME ScreenCore, NEW c
  PROVE  Window!Relisted(c) \in Window!SessionList /\ \A s \in Sessions : Window!Relisted(c)[s].as # "none" => Window!Exists(s)
<1>1. store \in Window!SessionList
  BY ScreenParts DEF Window!TypeOK
<1>2. \A s \in Sessions : Window!Relisted(c)[s] \in {store[s], Window!Missing}
  BY DEF Window!Relisted
<1>3. Window!Relisted(c) \in Window!SessionList
  BY <1>1, ScreenLists DEF Window!Relisted, Window!SessionList
<1> QED
  BY <1>2, <1>3, ScreenLists DEF Window!Exists

(* An entry that the server has joins a list it knows.                      *)
LEMMA ScreenListGrows ==
  ASSUME NEW list \in Window!SessionList, \A s \in Sessions : list[s].as # "none" => Window!Exists(s),
         NEW x \in Sessions, NEW as \in Window!Stamp, as.as # "none" => Window!Exists(x)
  PROVE  /\ [list EXCEPT ![x] = as] \in Window!SessionList
         /\ \A s \in Sessions : [list EXCEPT ![x] = as][s].as # "none" => Window!Exists(s)
  BY DEF Window!SessionList

(* What is known of a change that is answered.                              *)
LEMMA ScreenChange ==
  ASSUME ScreenCore, NEW a \in asks
  PROVE  /\ selected.client # Nobody /\ a.owner \in Window!Scopes /\ a.owner.client # Nobody
         /\ a.as \in Window!Stamp /\ a.known \in Window!SessionList
         /\ \A s \in Sessions : a.known[s].as # "none" => Window!Exists(s)
         /\ a.kind # "plan" => a.of \in Sessions /\ (a.ok \/ a.as.as # "none" => Window!Exists(a.of))
  BY ScreenParts DEF AsksHold, ViewHolds, Window!TypeOK, Window!AskRecord, Window!Known

(* A change is answered, and the window stays where it is.                  *)
LEMMA ScreenAskStays ==
  ASSUME ScreenCore, NEW a \in asks, asks' = asks \ {a}, sidebar' \in Window!SessionList,
         \A s \in Sessions : sidebar'[s].as # "none" => Window!Exists(s),
         UNCHANGED <<selected, windowSession, windowShown, plan, loads, bootstrapped, loading, source, windowQueue,
                     timer, run, posts, store, written, clicks>>
  PROVE  ScreenCore'
<1>1. Window!TypeOK /\ ViewHolds /\ NewestFits /\ AsksHold
  BY ScreenParts
<1>2. Window!TypeOK'
  BY <1>1 DEF Window!TypeOK
<1>3. StoreGrows /\ WrittenGrows
  BY ScreenServerStays
<1>4. LoadsHold'
  BY <1>2, <1>3, ScreenLoadsRest
<1>5. AsksHold'
  BY <1>1, <1>3, ScreenAsksStay DEF AsksHold
<1>6. ViewHolds'
  BY <1>1, ScreenChange DEF ViewHolds, Window!Known, Window!Exists, Window!ShownBelongs
<1>7. NewestFits'
  BY <1>1 DEF NewestFits
<1> QED
  BY <1>2, <1>4, <1>5, <1>6, <1>7, ScreenPartsNext

(* A change is answered, and the window goes elsewhere.                     *)
LEMMA ScreenAskMoves ==
  ASSUME ScreenCore, NEW a \in asks, asks' = asks \ {a}, sidebar' \in Window!SessionList,
         \A s \in Sessions : sidebar'[s].as # "none" => Window!Exists(s),
         windowSession' \in Sessions \cup {Nobody}, NEW scope \in Window!Scopes, scope.client # Nobody,
         scope.conv \in Sessions => Window!Exists(scope.conv),
         Window!Select(scope), Window!Begin(scope, FALSE, loads),
         UNCHANGED <<bootstrapped, loading, source, windowQueue, timer, run, posts, store, written, clicks>>
  PROVE  ScreenCore'
<1>1. Window!TypeOK /\ LoadsHold /\ ViewHolds /\ AsksHold
  BY ScreenParts
<1>2. loads' \subseteq Window!TicketRecord
  BY <1>1, ScreenBegins DEF Window!TypeOK
<1>3. selected' = scope /\ windowShown' = [of |-> {}, at |-> 0, from |-> Nobody] /\ plan' = {}
  BY DEF Window!Select, Window!Blank
<1>4. Window!TypeOK'
  BY <1>1, <1>2, <1>3 DEF Window!TypeOK
<1>5. StoreGrows /\ WrittenGrows
  BY ScreenServerStays
<1>6. LoadsHold' /\ \A t \in loads' : t.newest /\ t.answered => t.scope # scope
  BY <1>3, <1>4, <1>5, ScreenAsksAgain
<1>7. NewestFits'
  BY <1>3, <1>6 DEF NewestFits
<1>8. AsksHold'
  BY <1>1, <1>5, ScreenAsksStay DEF AsksHold
<1>9. windowShown'.at <= written'[selected'] /\ windowShown'.of \subseteq {selected'}
  BY <1>3, <1>4 DEF Window!TypeOK
<1>10. ViewHolds'
  BY <1>1, <1>3, <1>9 DEF ViewHolds, Window!Known, Window!Exists, Window!ShownBelongs
<1> QED
  BY <1>4, <1>6, <1>7, <1>8, <1>10, ScreenPartsNext

(* A change to a session is answered.                                       *)
LEMMA ScreenAsk ==
  ASSUME ScreenCore, NEW a \in asks, Window!Ask(a)
  PROVE  ScreenCore'
<1> DEFINE known == [a.known EXCEPT ![a.of] = a.as]
           Target(s) == IF s = Nobody THEN Window!Home(a.owner.client) ELSE Window!ScopeOf(s)
<1>1. Window!TypeOK /\ ViewHolds
  BY ScreenParts
<1>2. /\ a.answered /\ a.kind \notin {"plan", "first"} /\ asks' = asks \ {a}
      /\ UNCHANGED <<bootstrapped, loading, source, windowQueue, timer, run, posts, store, written, clicks>>
  BY DEF Window!Ask
<1>3. /\ selected.client # Nobody /\ a.owner \in Window!Scopes /\ a.owner.client # Nobody
      /\ a.as \in Window!Stamp /\ a.known \in Window!SessionList
      /\ \A s \in Sessions : a.known[s].as # "none" => Window!Exists(s)
      /\ a.of \in Sessions /\ (a.ok \/ a.as.as # "none" => Window!Exists(a.of))
  BY <1>2, ScreenChange
<1>4. sidebar \in Window!SessionList /\ \A s \in Sessions : sidebar[s].as # "none" => Window!Exists(s)
  BY <1>1 DEF Window!TypeOK, ViewHolds, Window!Known
<1>5. known \in Window!SessionList /\ \A s \in Sessions : known[s].as # "none" => Window!Exists(s)
  BY <1>3, ScreenListGrows
<1>6. /\ Window!Upsert(a.of, a.as) \in Window!SessionList
      /\ \A s \in Sessions : Window!Upsert(a.of, a.as)[s].as # "none" => Window!Exists(s)
  BY <1>3, <1>4, ScreenListGrows DEF Window!Upsert
<1>7. CASE ~a.ok
  <2>1. Window!Refused(a)
    BY <1>7 DEF Window!Ask
  <2>2. sidebar' \in {sidebar, Window!Relisted(a.owner.client)}
        /\ UNCHANGED <<selected, windowSession, windowShown, plan, loads>>
    BY <2>1 DEF Window!Refused
  <2>3. sidebar' \in Window!SessionList /\ \A s \in Sessions : sidebar'[s].as # "none" => Window!Exists(s)
    BY <1>4, <2>2, ScreenRelists
  <2> QED
    BY <1>2, <2>2, <2>3, ScreenAskStays
<1>8. CASE a.ok /\ ~Window!StillSelected(a.owner)
  <2>1. Window!Stay /\ UNCHANGED <<windowSession, sidebar, loads>>
    BY <1>8 DEF Window!Ask
  <2> QED
    BY <1>2, <1>4, <2>1, ScreenAskStays DEF Window!Stay
<1>9. CASE a.ok /\ Window!StillSelected(a.owner) /\ a.kind = "create"
  <2>1. Window!Opened(a)
    BY <1>9 DEF Window!Ask
  <2>2. Window!ScopeOf(a.of) \in Window!Scopes /\ Window!ScopeOf(a.of).client # Nobody /\ Window!ScopeOf(a.of).conv = a.of
    BY <1>3, ScreenScopes
  <2> QED
    BY <1>2, <1>3, <1>6, <1>9, <2>1, <2>2, ScreenAskMoves DEF Window!Opened
<1>10. CASE a.ok /\ Window!StillSelected(a.owner) /\ a.kind = "rename"
  <2>1. sidebar' = Window!Upsert(a.of, a.as) /\ Window!Stay /\ UNCHANGED <<windowSession, loads>>
    BY <1>10 DEF Window!Ask
  <2> QED
    BY <1>2, <1>6, <2>1, ScreenAskStays DEF Window!Stay
<1>11. CASE a.ok /\ Window!StillSelected(a.owner) /\ a.kind \in {"archive", "delete"}
  <2>1. Window!Removed(a)
    BY <1>11 DEF Window!Ask
  <2>2. sidebar' \in {[sidebar EXCEPT ![a.of] = Window!Missing], known}
    BY <2>1 DEF Window!Removed
  <2>3. sidebar' \in Window!SessionList /\ \A s \in Sessions : sidebar'[s].as # "none" => Window!Exists(s)
    <3>1. /\ [sidebar EXCEPT ![a.of] = Window!Missing] \in Window!SessionList
          /\ \A s \in Sessions : [sidebar EXCEPT ![a.of] = Window!Missing][s].as # "none" => Window!Exists(s)
      BY <1>3, <1>4, ScreenLists, ScreenListGrows
    <3> HIDE DEF known
    <3> QED
      BY <1>5, <2>2, <3>1
  <2>4. CASE a.chosen # a.of
    <3>1. Window!Stay /\ UNCHANGED <<windowSession, loads>>
      BY <2>1, <2>4 DEF Window!Removed
    <3> QED
      BY <1>2, <2>3, <3>1, ScreenAskStays DEF Window!Stay
  <2>5. CASE a.chosen = a.of
    <3>1. Window!Replaced(a, known)
      BY <2>1, <2>5 DEF Window!Removed
    <3>2. PICK s \in {Nobody} \cup {x \in Window!Listed(known, a.owner.client) : known[x].as = "active"} :
            windowSession' = s /\ Window!Select(Target(s)) /\ Window!Begin(Target(s), FALSE, loads)
      BY <3>1 DEF Window!Replaced
    <3> HIDE DEF known
    <3>3. s = Nobody \/ (s \in Sessions /\ known[s].as # "none")
      BY <3>2 DEF Window!Listed
    <3>4. /\ Target(s) \in Window!Scopes /\ Target(s).client # Nobody
          /\ Target(s).conv \in Sessions => Window!Exists(Target(s).conv)
      <4>1. a.owner.client \in Clients \cup {Nobody}
        BY <1>3, ScreenScopes
      <4> QED
        BY <1>3, <1>5, <3>3, <4>1, ScreenScopes
    <3>5. windowSession' \in Sessions \cup {Nobody}
      BY <3>2, <3>3
    <3> HIDE DEF Target
    <3> QED
      BY <1>2, <2>3, <3>2, <3>4, <3>5, ScreenAskMoves
  <2> QED
    BY <2>4, <2>5
<1>12. a.kind \in {"create", "rename", "archive", "delete"}
  BY <1>1, <1>2 DEF Window!TypeOK, Window!AskRecord
<1> QED
  BY <1>7, <1>8, <1>9, <1>10, <1>11, <1>12

(* What is known when the session for the first message is answered.        *)
LEMMA ScreenFirst ==
  ASSUME ScreenCore, NEW a \in asks, a.kind = "first"
  PROVE  /\ run.at = "creating" /\ a.owner = run.launch /\ posts = {} /\ a.of \in Sessions
         /\ Window!ScopeOf(a.of) \in Window!Scopes /\ Window!ScopeOf(a.of).client = run.launch.client
         /\ Window!ScopeOf(a.of).conv = a.of /\ Window!ScopeOf(a.of) # run.launch
         /\ run.launch \in Window!Scopes /\ run.launch.client # Nobody
         /\ selected.client # Nobody /\ selected \in Window!Scopes
         /\ (a.ok \/ a.as.as # "none" => Window!Exists(a.of)) /\ a.as \in Window!Stamp
         /\ \A b \in asks : b.kind = "first" => b = a
         /\ \A t \in loads : ~t.mine
         /\ Window!SameScope(selected, run.launch) <=> selected = run.launch
<1>1. Window!TypeOK /\ LoadsHold /\ AsksHold /\ ViewHolds
  BY ScreenParts
<1>2. /\ selected.client # Nobody /\ a.of \in Sessions /\ (a.ok \/ a.as.as # "none" => Window!Exists(a.of))
      /\ a.as \in Window!Stamp
  BY ScreenChange
<1>3. /\ run.at = "creating" /\ a.owner = run.launch /\ ClientOf[a.of] = run.launch.client
      /\ Window!ScopeOf(a.of) # run.launch /\ \A b \in asks : b.kind = "first" => b = a
  BY <1>1 DEF AsksHold
<1>4. selected \in Window!Scopes /\ run.launch \in Window!Scopes
  BY <1>1 DEF Window!TypeOK
<1>5. posts = {} /\ run.launch.client # Nobody
  BY <1>1, <1>3 DEF ViewHolds
<1>6. \A t \in loads : ~t.mine
  BY <1>1, <1>2, <1>3 DEF LoadsHold, Window!TicketsAgree
<1>7. Window!SameScope(selected, run.launch) <=> selected = run.launch
  BY <1>4, ScreenScopes DEF Window!SameScope
<1> QED
  BY <1>2, <1>3, <1>4, <1>5, <1>6, <1>7, ScreenScopes

(* What is shown once the first message went out.                           *)
LEMMA ScreenFirstShown ==
  ASSUME ScreenCore, NEW moves \in BOOLEAN, NEW target \in Window!Scopes, NEW now \in Window!Scopes,
         now = IF moves THEN target ELSE selected,
         windowShown' = [of |-> (IF moves THEN {} ELSE windowShown.of)
                            \cup (IF Window!SameScope(now, target) THEN {target} ELSE {}),
                   at |-> IF moves THEN 0 ELSE windowShown.at,
                   from |-> IF moves THEN Nobody ELSE windowShown.from]
  PROVE  /\ windowShown' \in [of : SUBSET Window!Scopes, at : Nat, from : Clients \cup {Nobody}]
         /\ windowShown'.of \subseteq {now} /\ windowShown'.at = IF moves THEN 0 ELSE windowShown.at
         /\ ~moves => windowShown'.from = windowShown.from
<1> DEFINE old == IF moves THEN {} ELSE windowShown.of
           new == IF Window!SameScope(now, target) THEN {target} ELSE {}
           age == IF moves THEN 0 ELSE windowShown.at
           whose == IF moves THEN Nobody ELSE windowShown.from
<1>1. windowShown \in [of : SUBSET Window!Scopes, at : Nat, from : Clients \cup {Nobody}] /\ windowShown.of \subseteq {selected}
  BY ScreenParts DEF Window!TypeOK, ViewHolds, Window!ShownBelongs
<1>2. old \subseteq {now}
  BY <1>1
<1>3. new \subseteq {now}
  BY ScreenScopes DEF Window!SameScope
<1>4. age \in Nat /\ whose \in Clients \cup {Nobody}
  BY <1>1
<1>5. windowShown' = [of |-> old \cup new, at |-> age, from |-> whose]
  OBVIOUS
<1> HIDE DEF old, new, age, whose
<1>6. /\ windowShown'.of = old \cup new /\ windowShown'.at = age /\ windowShown'.from = whose
      /\ windowShown' \in [of : SUBSET Window!Scopes, at : Nat, from : Clients \cup {Nobody}]
  BY <1>2, <1>3, <1>4, <1>5
<1> QED
  BY <1>2, <1>3, <1>6 DEF age, whose

(* The session for the first message is there, or is not.                   *)
LEMMA ScreenFirstSession ==
  ASSUME ScreenCore, NEW a \in asks, Window!FirstSession(a)
  PROVE  ScreenCore'
<1> DEFINE moves == a.ok /\ Window!SameScope(selected, run.launch)
           target == IF a.ok THEN Window!ScopeOf(a.of) ELSE run.launch
           now == IF moves THEN target ELSE selected
<1>1. Window!TypeOK /\ LoadsHold /\ AsksHold /\ ViewHolds /\ NewestFits
  BY ScreenParts
<1>2. a.kind = "first" /\ asks' = asks \ {a} /\ Window!Post(target, run.launch) /\ selected' = now
      /\ UNCHANGED <<bootstrapped, loading, loads, source, windowQueue, timer, store, written, clicks>>
  BY DEF Window!FirstSession
<1>3. windowShown' = [of |-> (IF moves THEN {} ELSE windowShown.of)
                         \cup (IF Window!SameScope(now, target) THEN {target} ELSE {}),
                at |-> IF moves THEN 0 ELSE windowShown.at,
                from |-> IF moves THEN Nobody ELSE windowShown.from]
  BY DEF Window!FirstSession
<1>4. plan' = IF moves THEN {} ELSE plan
  BY DEF Window!FirstSession
<1>5. windowSession' = IF moves THEN a.of ELSE windowSession
  BY DEF Window!FirstSession
<1>6. sidebar' \in {sidebar, Window!Upsert(a.of, a.as), Window!Relisted(run.launch.client)}
  BY DEF Window!FirstSession
<1>7. /\ run.at = "creating" /\ posts = {} /\ a.of \in Sessions
      /\ Window!ScopeOf(a.of) \in Window!Scopes /\ Window!ScopeOf(a.of).client = run.launch.client
      /\ Window!ScopeOf(a.of).conv = a.of
      /\ run.launch \in Window!Scopes /\ run.launch.client # Nobody
      /\ selected.client # Nobody /\ selected \in Window!Scopes
      /\ (a.ok \/ a.as.as # "none" => Window!Exists(a.of)) /\ a.as \in Window!Stamp
      /\ \A b \in asks : b.kind = "first" => b = a
      /\ \A t \in loads : ~t.mine
  BY <1>2, ScreenFirst
<1>8. moves \in BOOLEAN /\ (moves => a.ok) /\ now = IF moves THEN target ELSE selected
  BY <1>1 DEF Window!TypeOK, Window!AskRecord, Window!SameScope
<1>9. /\ target \in Window!Scopes /\ target.client = run.launch.client
      /\ moves /\ target.conv \in Sessions => Window!Exists(target.conv)
  BY <1>7
<1>10. /\ now \in Window!Scopes /\ now.client # Nobody
       /\ now.conv \in Sessions => Window!Exists(now.conv)
  BY <1>1, <1>7, <1>8, <1>9 DEF ViewHolds
<1> HIDE DEF moves, target, now
<1>11. /\ windowShown' \in [of : SUBSET Window!Scopes, at : Nat, from : Clients \cup {Nobody}]
       /\ windowShown'.of \subseteq {now} /\ windowShown'.at = IF moves THEN 0 ELSE windowShown.at
       /\ ~moves => windowShown'.from = windowShown.from
  BY <1>3, <1>8, <1>9, <1>10, ScreenFirstShown
<1>12. /\ posts' = {target} /\ run' = [at |-> "sent", launch |-> run.launch, target |-> target]
  BY <1>2, <1>7 DEF Window!Post
<1>13. /\ run'.at = "sent" /\ run'.launch = run.launch /\ run'.target = target
       /\ run' \in [at : {"idle", "creating", "sent", "loading"}, launch : Window!Scopes, target : Window!Scopes]
  BY <1>7, <1>9, <1>12
<1>14. sidebar' \in Window!SessionList /\ \A s \in Sessions : sidebar'[s].as # "none" => Window!Exists(s)
  <2>1. sidebar \in Window!SessionList /\ \A s \in Sessions : sidebar[s].as # "none" => Window!Exists(s)
    BY <1>1 DEF Window!TypeOK, ViewHolds, Window!Known
  <2>2. /\ Window!Upsert(a.of, a.as) \in Window!SessionList
        /\ \A s \in Sessions : Window!Upsert(a.of, a.as)[s].as # "none" => Window!Exists(s)
    BY <1>7, <2>1, ScreenListGrows DEF Window!Upsert
  <2>3. /\ Window!Relisted(run.launch.client) \in Window!SessionList
        /\ \A s \in Sessions : Window!Relisted(run.launch.client)[s].as # "none" => Window!Exists(s)
    BY ScreenRelists
  <2> QED
    BY <1>6, <2>1, <2>2, <2>3
<1>15. windowSession' \in Sessions \cup {Nobody} /\ plan' \subseteq Window!Scopes
  BY <1>1, <1>4, <1>5, <1>7, <1>8 DEF Window!TypeOK
<1>16. Window!TypeOK'
  BY <1>1, <1>2, <1>9, <1>10, <1>11, <1>12, <1>13, <1>14, <1>15 DEF Window!TypeOK
<1>17. StoreGrows /\ WrittenGrows
  BY <1>2, ScreenServerStays
<1>18. LoadsHold'
  BY <1>2, <1>7, <1>10, <1>16, <1>17, ScreenLoadsStay
<1>19. AsksHold'
  BY <1>2, <1>7, <1>17, ScreenAsksStay
<1>20. windowShown'.at <= written'[selected']
  <2>1. CASE moves
    BY <1>2, <1>10, <1>11, <1>16, <2>1 DEF Window!TypeOK
  <2>2. CASE ~moves
    BY <1>1, <1>2, <1>8, <1>11, <2>2 DEF ViewHolds
  <2> QED
    BY <2>1, <2>2
<1>21. ViewHolds'
  BY <1>1, <1>2, <1>7, <1>9, <1>10, <1>11, <1>12, <1>13, <1>14, <1>20
     DEF ViewHolds, Window!Known, Window!Exists, Window!ShownBelongs
<1>22. NewestFits'
  <2>1. CASE moves
    <3>1. windowShown'.at = 0 /\ \A t \in loads : t.at \in Nat
      BY <1>1, <1>11, <2>1 DEF Window!TypeOK, Window!TicketRecord
    <3> QED
      BY <1>2, <3>1 DEF NewestFits
  <2>2. CASE ~moves
    BY <1>1, <1>2, <1>8, <1>11, <2>2 DEF NewestFits
  <2> QED
    BY <2>1, <2>2
<1> QED
  BY <1>16, <1>18, <1>19, <1>21, <1>22, ScreenPartsNext

(* Nothing happens.                                                         *)
LEMMA ScreenStays ==
  ASSUME ScreenCore, UNCHANGED Window!vars
  PROVE  ScreenCore'
<1>1. Window!TypeOK' /\ ViewHolds'
  BY ScreenParts DEF Window!vars, Window!TypeOK, ViewHolds, Window!Known, Window!Exists, Window!ShownBelongs
<1> QED
  BY <1>1, ScreenRest DEF Window!vars

(* Every step keeps the invariant.                                          *)
LEMMA ScreenStep ==
  ASSUME ScreenCore, [Window!Next]_(Window!vars)
  PROVE  ScreenCore'
<1>1. CASE \E t \in loads : Window!AnswerLoad(t) \/ Window!Load(t)
  BY <1>1, ScreenAnswersLoad, ScreenLoads
<1>2. CASE \E a \in asks : Window!AnswerAsk(a) \/ Window!Ask(a) \/ Window!PlanMode(a) \/ Window!FirstSession(a)
  BY <1>2, ScreenAnswersAsk, ScreenAsk, ScreenPlans, ScreenFirstSession
<1>3. CASE \E s \in Sessions : Window!Write(s) \/ Window!SelectSession(s)
  BY <1>3, ScreenWrite, ScreenSelectsSession
<1>4. CASE \E s \in Sessions, k \in {"create", "rename", "archive", "delete"} : Window!Mutate(k, s)
  BY <1>4, ScreenMutates
<1>5. CASE \E scope \in posts : Window!AnswerPost(scope)
  BY <1>5, ScreenPosts
<1>6. CASE \E c \in Clients : Window!SelectClient(c)
  BY <1>6, ScreenSelectsClient
<1>7. CASE Window!TogglePlan \/ Window!Submit \/ Window!Reload \/ Window!Connect \/ Window!Receive \/ Window!Refresh
  BY <1>7, ScreenToggles, ScreenSubmits, ScreenReloads, ScreenConnects, ScreenReceives,
     ScreenRefreshes
<1>9. CASE Window!ApplySettings \/ Window!WorkspaceMade
  BY <1>9, ScreenApplies, ScreenMadeOpens
<1>10. CASE (\E c \in Clients : Window!CreateWorkspace(c)) \/ Window!MakeWorkspace \/ Window!WorkspaceFailed
  BY <1>10, ScreenWorkspaces
<1>8. CASE UNCHANGED Window!vars
  BY <1>8, ScreenStays
<1> QED
  BY <1>1, <1>2, <1>3, <1>4, <1>5, <1>6, <1>7, <1>8, <1>9, <1>10 DEF Window!Next

(* The window opens with one request and nothing on the screen.             *)
LEMMA ScreenInit ==
  ASSUME Window!Init
  PROVE  ScreenCore
<1> DEFINE first == Window!Ticket(Window!Home(Nobody), FALSE)
<1>1. Window!Home(Nobody) \in Window!Scopes /\ Window!Home(Nobody).client = Nobody /\ Window!Home(Nobody).conv = Window!Primary
  BY ScreenScopes
<1>2. /\ first \in Window!TicketRecord /\ first.scope = Window!Home(Nobody) /\ first.mine = FALSE
      /\ first.answered = FALSE /\ first.client = Nobody /\ first.list = Window!NoSessions
  <2>1. FALSE \in BOOLEAN
    OBVIOUS
  <2> QED
    BY <1>1, <2>1, ScreenTicket
<1>3. /\ loads = {first} /\ selected = Window!Home(Nobody) /\ windowSession = Nobody /\ bootstrapped = FALSE
      /\ loading = TRUE /\ asks = {} /\ windowShown = [of |-> {}, at |-> 0, from |-> Nobody] /\ plan = {}
      /\ sidebar = Window!NoSessions /\ source = Nobody /\ windowQueue = <<>> /\ timer = FALSE
      /\ run = Window!Unlaunched /\ posts = {} /\ written = [s \in Window!Scopes |-> 0] /\ clicks = 0
  BY DEF Window!Init, Window!Blank
<1> HIDE DEF first
<1>4. /\ Window!Unlaunched.at = "idle"
      /\ Window!Unlaunched \in [at : {"idle", "creating", "sent", "loading"}, launch : Window!Scopes, target : Window!Scopes]
  BY <1>1 DEF Window!Unlaunched
<1>5. store \in Window!SessionList
  BY ScreenLists DEF Window!Init, Window!SessionList, Window!Stamp
<1>6. windowShown \in [of : SUBSET Window!Scopes, at : Nat, from : Clients \cup {Nobody}] /\ windowShown.of = {} /\ windowShown.at = 0
  BY <1>3
<1>7. windowQueue \in Seq(Window!EventRecord) /\ DOMAIN windowQueue = {}
  BY <1>3
<1>8. Window!TypeOK
  BY <1>1, <1>2, <1>3, <1>4, <1>5, <1>6, <1>7, ScreenLists DEF Window!TypeOK
<1>9. LoadsHold
  BY <1>1, <1>2, <1>3, ScreenLists DEF LoadsHold, Window!TicketsAgree
<1>10. AsksHold
  BY <1>3 DEF AsksHold
<1>11. ViewHolds
  BY <1>1, <1>3, <1>4, <1>6, <1>7, ScreenScopes, ScreenLists DEF ViewHolds, Window!ShownBelongs
<1>12. NewestFits
  BY <1>2, <1>3 DEF NewestFits
<1> QED
  BY <1>8, <1>9, <1>10, <1>11, <1>12, ScreenParts

(* What every step keeps to.                                                *)
StepKept == Window!MovedByItsOwner /\ Window!NeverLeavesWorkspace /\ Window!NeverOlder

(* A step that leaves the window where it is, and its messages as old.      *)
LEMMA ScreenKeptStaying ==
  ASSUME ScreenCore, selected' = selected, windowShown'.at = windowShown.at
  PROVE  StepKept
<1>1. windowShown.at \in Nat
  BY ScreenParts DEF Window!TypeOK
<1> QED
  BY <1>1 DEF StepKept, Window!MovedByItsOwner, Window!NeverLeavesWorkspace, Window!NeverOlder

(* A step that selects a scope shows nothing of it yet.                     *)
LEMMA ScreenKeptSelecting ==
  ASSUME Window!MovedByItsOwner, Window!NeverLeavesWorkspace, NEW scope, Window!Select(scope)
  PROVE  StepKept
  BY DEF StepKept, Window!NeverOlder, Window!Select, Window!Blank

(* An answered request is not among the requests once a newer one begins.   *)
LEMMA ScreenConsumed ==
  ASSUME ScreenCore, NEW t \in loads, t.answered, t.newest, NEW scope \in Window!Scopes,
         Window!Begin(scope, FALSE, loads \ {t})
  PROVE  t \notin loads'
<1>1. LoadsHold /\ loads \subseteq Window!TicketRecord
  BY ScreenParts DEF Window!TypeOK
<1>2. FALSE \in BOOLEAN /\ loads \ {t} \subseteq Window!TicketRecord
  BY <1>1
<1>3. \A u \in loads' : u = Window!Ticket(scope, FALSE) \/ \E v \in loads \ {t} : u = Aged(v, scope)
  BY <1>2, ScreenBegins
<1>4. Window!Ticket(scope, FALSE).answered = FALSE
  BY <1>2, ScreenTicket
<1>5. ASSUME NEW v \in loads \ {t}, t = Aged(v, scope) PROVE FALSE
  <2>1. t.scope = v.scope /\ v.newest
    BY <1>1, <1>5, ScreenAged
  <2> QED
    BY <1>1, <2>1 DEF LoadsHold, Window!TicketsAgree
<1> QED
  BY <1>3, <1>4, <1>5

(* An answer moves the window only when it was asked for where the window is,
   and shows nothing older than what is there.                              *)
LEMMA ScreenKeptLoading ==
  ASSUME ScreenCore, NEW t \in loads, Window!Load(t)
  PROVE  StepKept
<1> DEFINE here == [client |-> t.client, conv |-> t.scope.conv]
<1>1. Window!TypeOK /\ LoadsHold /\ ViewHolds /\ NewestFits
  BY ScreenParts
<1>2. t.answered /\ t \in Window!TicketRecord /\ t.scope \in Window!Scopes
  BY <1>1 DEF Window!Load, Window!TypeOK, Window!TicketRecord
<1>3. ASSUME Window!CanCommit(t)
      PROVE  /\ t.newest /\ t.scope.conv = selected.conv
             /\ t.scope.client \in {selected.client, Nobody}
             /\ selected.client # Nobody => t.client = selected.client
  BY <1>1, <1>3 DEF Window!CanCommit, LoadsHold, Window!TicketsAgree
<1>4. CASE loads' = loads \ {t} /\ Window!Stay
  BY <1>4, ScreenKeptStaying DEF Window!Stay
<1>5. ASSUME Window!CanCommit(t), NEW s \in IF bootstrapped THEN {Nobody} ELSE Window!Targets(t),
             s \notin {Nobody, t.scope.conv},
             Window!Select(Window!ScopeOf(s)), Window!Begin(Window!ScopeOf(s), FALSE, loads \ {t})
      PROVE  StepKept
  <2>1. s \in Sessions /\ ClientOf[s] = t.client
    BY <1>5 DEF Window!Targets, Window!Listed
  <2>2. t \notin loads'
    BY <1>2, <1>3, <1>5, <2>1, ScreenScopes, ScreenConsumed
  <2>3. Window!MovedByItsOwner
    BY <1>3, <1>5, <2>2 DEF Window!MovedByItsOwner, Window!OwnerMoves
  <2>4. Window!NeverLeavesWorkspace
    BY <1>3, <1>5, <2>1, ScreenScopes DEF Window!NeverLeavesWorkspace, Window!Select
  <2> QED
    BY <1>5, <2>3, <2>4, ScreenKeptSelecting
<1>6. ASSUME Window!CanCommit(t), selected' = here, 
             windowShown' = [of |-> {here}, at |-> t.at, from |-> Window!Asked(t)], loads' = loads \ {t}
      PROVE  StepKept
  <2>1. Window!MovedByItsOwner
    BY <1>3, <1>6 DEF Window!MovedByItsOwner, Window!OwnerMoves
  <2>0. Window!NeverLeavesWorkspace
    BY <1>3, <1>6 DEF Window!NeverLeavesWorkspace
  <2>2. ASSUME selected' = selected, windowShown.from # Nobody, Window!Asked(t) # Nobody PROVE t.at >= windowShown.at
    <3>1. selected = here /\ t.client # Nobody
      BY <1>1, <1>2, <1>6, <2>2 DEF LoadsHold, Window!TicketsAgree
    <3>2. selected.client # Nobody
      BY <3>1
    <3>3. t.scope = selected
      BY <1>1, <1>2, <1>3, <1>6, <2>2, <3>1, <3>2, ScreenScopes DEF LoadsHold, Window!TicketsAgree, Window!Asked
    <3> QED
      BY <1>1, <1>2, <1>3, <1>6, <2>2, <3>3 DEF NewestFits
  <2> QED
    BY <1>6, <2>0, <2>1, <2>2 DEF StepKept, Window!NeverOlder
<1>7. \/ loads' = loads \ {t} /\ Window!Stay
      \/ /\ Window!CanCommit(t)
         /\ \E s \in IF bootstrapped THEN {Nobody} ELSE Window!Targets(t) :
              IF s \notin {Nobody, t.scope.conv}
              THEN Window!Select(Window!ScopeOf(s)) /\ Window!Begin(Window!ScopeOf(s), FALSE, loads \ {t})
              ELSE /\ selected' = here /\ windowShown' = [of |-> {here}, at |-> t.at, from |-> Window!Asked(t)]
                   /\ loads' = loads \ {t}
  BY DEF Window!Load
<1> HIDE DEF here
<1> QED
  BY <1>4, <1>5, <1>6, <1>7

(* The answer to a change moves the window only where the change was asked for. *)
LEMMA ScreenKeptAsking ==
  ASSUME ScreenCore, NEW a \in asks, Window!Ask(a)
  PROVE  StepKept
<1>1. asks' = asks \ {a}
  BY DEF Window!Ask
<1>2. CASE UNCHANGED <<selected, windowShown>>
  BY <1>2, ScreenKeptStaying
<1>3. ASSUME Window!StillSelected(a.owner), NEW scope, Window!Select(scope), scope.client = a.owner.client
      PROVE  StepKept
  <2>1. Window!SameScope(a.owner, selected) /\ selected' = scope /\ scope.client = selected.client
    BY <1>3 DEF Window!StillSelected, Window!SameScope, Window!Select
  <2>2. Window!MovedByItsOwner
    BY <1>1, <2>1 DEF Window!MovedByItsOwner, Window!OwnerMoves
  <2>3. Window!NeverLeavesWorkspace
    BY <2>1 DEF Window!NeverLeavesWorkspace
  <2> QED
    BY <1>3, <2>2, <2>3, ScreenKeptSelecting
<1>4. \/ UNCHANGED <<selected, windowShown>>
      \/ Window!StillSelected(a.owner) /\ \E scope : Window!Select(scope) /\ scope.client = a.owner.client
  <2>1. CASE ~a.ok
    BY <2>1 DEF Window!Ask, Window!Refused
  <2>2. CASE a.ok /\ ~Window!StillSelected(a.owner)
    BY <2>2 DEF Window!Ask, Window!Stay
  <2>3. CASE a.ok /\ Window!StillSelected(a.owner) /\ a.kind = "create"
    <3>1. Window!Select(Window!ScopeOf(a.of))
      BY <2>3 DEF Window!Ask, Window!Opened
    <3>2. a.of \in Sessions /\ ClientOf[a.of] = a.owner.client
      BY <2>3, ScreenParts DEF AsksHold
    <3>3. Window!ScopeOf(a.of).client = a.owner.client
      BY <3>2, ScreenScopes
    <3> QED
      BY <2>3, <3>1, <3>3
  <2>4. CASE a.ok /\ Window!StillSelected(a.owner) /\ a.kind \in {"archive", "delete"}
    <3>1. Window!Removed(a)
      BY <2>4 DEF Window!Ask
    <3>2. CASE a.chosen = a.of
      <4> DEFINE known == [a.known EXCEPT ![a.of] = a.as]
                 Target(s) == IF s = Nobody THEN Window!Home(a.owner.client) ELSE Window!ScopeOf(s)
      <4>1. Window!Replaced(a, known)
        BY <3>1, <3>2 DEF Window!Removed
      <4>2. PICK s \in {Nobody} \cup {x \in Window!Listed(known, a.owner.client) : known[x].as = "active"} :
              Window!Select(Target(s))
        BY <4>1 DEF Window!Replaced
      <4> HIDE DEF known
      <4>3. s = Nobody \/ (s \in Sessions /\ ClientOf[s] = a.owner.client)
        BY <4>2 DEF Window!Listed
      <4>4. a.owner.client \in Clients \cup {Nobody}
        BY ScreenChange, ScreenScopes
      <4>5. Target(s).client = a.owner.client
        BY <4>3, <4>4, ScreenScopes
      <4> HIDE DEF Target
      <4> QED
        BY <2>4, <4>2, <4>5
    <3>3. CASE a.chosen # a.of
      BY <3>1, <3>3 DEF Window!Removed, Window!Stay
    <3> QED
      BY <3>2, <3>3
  <2>5. CASE a.ok /\ Window!StillSelected(a.owner) /\ a.kind = "rename"
    BY <2>5 DEF Window!Ask, Window!Stay
  <2>6. a.kind \in {"create", "rename", "archive", "delete"}
    BY ScreenParts DEF Window!Ask, Window!TypeOK, Window!AskRecord
  <2> QED
    BY <2>1, <2>2, <2>3, <2>4, <2>5, <2>6
<1> QED
  BY <1>2, <1>3, <1>4

(* The session for the first message opens only where the message was written. *)
LEMMA ScreenKeptFirst ==
  ASSUME ScreenCore, NEW a \in asks, Window!FirstSession(a)
  PROVE  StepKept
<1> DEFINE moves == a.ok /\ Window!SameScope(selected, run.launch)
           target == IF a.ok THEN Window!ScopeOf(a.of) ELSE run.launch
<1>1. /\ a.kind = "first" /\ asks' = asks \ {a}
      /\ selected' = IF moves THEN target ELSE selected
      /\ windowShown'.at = IF moves THEN 0 ELSE windowShown.at
  BY DEF Window!FirstSession
<1>2. /\ a.owner = run.launch /\ Window!ScopeOf(a.of) # run.launch
      /\ Window!ScopeOf(a.of).client = run.launch.client
      /\ Window!SameScope(selected, run.launch) <=> selected = run.launch
  BY <1>1, ScreenFirst
<1>3. CASE ~moves
  <2> HIDE DEF moves, target
  <2> QED
    BY <1>1, <1>3, ScreenKeptStaying
<1>4. CASE moves
  <2>1. selected = run.launch /\ selected' = Window!ScopeOf(a.of) /\ Window!SameScope(a.owner, selected)
    BY <1>1, <1>2, <1>4 DEF Window!SameScope
  <2> QED
    BY <1>1, <1>2, <2>1 DEF StepKept, Window!MovedByItsOwner, Window!OwnerMoves, Window!NeverLeavesWorkspace, Window!NeverOlder
<1> QED
  BY <1>3, <1>4

(* The person's own steps.                                                  *)
LEMMA ScreenKeptClicking ==
  ASSUME ScreenCore, NEW scope, Window!Click, Window!Select(scope)
  PROVE  StepKept
<1>1. clicks' # clicks
  BY ScreenParts DEF Window!Click, Window!TypeOK
<1>2. Window!MovedByItsOwner /\ Window!NeverLeavesWorkspace
  BY <1>1 DEF Window!MovedByItsOwner, Window!OwnerMoves, Window!NeverLeavesWorkspace
<1> QED
  BY <1>2, ScreenKeptSelecting

(* A workspace that was asked for opens.                                    *)
LEMMA ScreenKeptMaking ==
  ASSUME Window!WorkspaceMade
  PROVE  StepKept
<1>1. Window!MadeOpens /\ Window!Select(Window!Home(opening))
  BY ScreenScopes DEF Window!WorkspaceMade, Window!OpenWorkspace, Window!MadeOpens, Window!Workspaces, Window!Select
<1> QED
  BY <1>1, ScreenKeptSelecting DEF Window!MovedByItsOwner, Window!NeverLeavesWorkspace

(* Every step keeps to it.                                                  *)
LEMMA ScreenKept ==
  ASSUME ScreenCore, [Window!Next]_(Window!vars)
  PROVE  StepKept
<1>1. ASSUME NEW t \in loads, Window!AnswerLoad(t) PROVE StepKept
  BY <1>1, ScreenKeptStaying DEF Window!AnswerLoad
<1>2. ASSUME NEW a \in asks, Window!AnswerAsk(a) \/ Window!PlanMode(a) PROVE StepKept
  BY <1>2, ScreenKeptStaying DEF Window!AnswerAsk, Window!PlanMode
<1>3. ASSUME NEW s \in Sessions, Window!Write(s) PROVE StepKept
  BY <1>3, ScreenKeptStaying DEF Window!Write
<1>4. ASSUME NEW s \in Sessions, Window!SelectSession(s) PROVE StepKept
  BY <1>4, ScreenKeptClicking DEF Window!SelectSession
<1>5. ASSUME NEW s \in Sessions, NEW k \in {"create", "rename", "archive", "delete"}, Window!Mutate(k, s)
      PROVE  StepKept
  BY <1>5, ScreenKeptStaying DEF Window!Mutate
<1>6. ASSUME NEW scope \in posts, Window!AnswerPost(scope) PROVE StepKept
  BY <1>6, ScreenKeptStaying DEF Window!AnswerPost
<1>7. ASSUME NEW c \in Clients, Window!SelectClient(c) PROVE StepKept
  BY <1>7, ScreenKeptClicking DEF Window!SelectClient, Window!OpenWorkspace
<1>8. CASE Window!Submit
  <2>1. windowShown \in [of : SUBSET Window!Scopes, at : Nat, from : Clients \cup {Nobody}]
    BY ScreenParts DEF Window!TypeOK
  <2> DEFINE target == Window!ScopeOf(windowSession)
  <2>2. selected' = selected /\ (windowShown' = windowShown \/ windowShown' = [windowShown EXCEPT !.of = @ \cup {target}])
    BY <1>8 DEF Window!Submit
  <2> HIDE DEF target
  <2> QED
    BY <2>1, <2>2, ScreenKeptStaying
<1>9. CASE Window!TogglePlan \/ Window!Reload \/ Window!Connect \/ Window!Receive \/ Window!Refresh \/ Window!ApplySettings
  BY <1>9, ScreenKeptStaying DEF Window!TogglePlan, Window!Reload, Window!Connect, Window!Receive, Window!Refresh, Window!ApplySettings
<1>11. CASE (\E c \in Clients : Window!CreateWorkspace(c)) \/ Window!MakeWorkspace \/ Window!WorkspaceFailed
  BY <1>11, ScreenKeptStaying DEF Window!CreateWorkspace, Window!MakeWorkspace, Window!WorkspaceFailed
<1>10. CASE UNCHANGED Window!vars
  BY <1>10, ScreenKeptStaying DEF Window!vars
<1> QED
  BY <1>1, <1>2, <1>3, <1>4, <1>5, <1>6, <1>7, <1>8, <1>9, <1>10,
     <1>11, ScreenKeptLoading, ScreenKeptAsking, ScreenKeptFirst, ScreenKeptMaking DEF Window!Next

(* What the invariant says of the screen and of the message being sent.     *)
LEMMA ScreenSays ==
  ScreenCore => Window!ShownBelongs /\ Window!OneMessage /\ Window!SentWhereWritten
  BY ScreenParts DEF ViewHolds, Window!OneMessage, Window!SentWhereWritten

(* What the start and new workspaces need.                                  *)
LEMMA ScreenBoots ==
  ASSUME Window!BootOK, [Window!Next]_(Window!vars)
  PROVE  Window!BootOK'
<1> USE DEF Window!BootOK
<1>1. ASSUME NEW t \in loads, Window!AnswerLoad(t) \/ Window!Load(t) PROVE Window!BootOK'
  BY <1>1 DEF Window!AnswerLoad, Window!Load
<1>2. ASSUME NEW a \in asks, Window!AnswerAsk(a) \/ Window!Ask(a) \/ Window!PlanMode(a) \/ Window!FirstSession(a) PROVE Window!BootOK'
  BY <1>2 DEF Window!AnswerAsk, Window!Ask, Window!PlanMode, Window!FirstSession
<1>3. ASSUME NEW s \in Sessions, Window!Write(s) \/ Window!SelectSession(s) PROVE Window!BootOK'
  BY <1>3 DEF Window!Write, Window!SelectSession
<1>4. ASSUME NEW s \in Sessions, NEW k \in {"create", "rename", "archive", "delete"}, Window!Mutate(k, s)
      PROVE  Window!BootOK'
  BY <1>4 DEF Window!Mutate
<1>5. ASSUME NEW scope \in posts, Window!AnswerPost(scope) PROVE Window!BootOK'
  BY <1>5 DEF Window!AnswerPost
<1>6. ASSUME NEW c \in Clients, Window!SelectClient(c) \/ Window!CreateWorkspace(c) PROVE Window!BootOK'
  BY <1>6 DEF Window!SelectClient, Window!CreateWorkspace
<1>7. CASE Window!TogglePlan \/ Window!Submit \/ Window!Reload \/ Window!Connect \/ Window!Receive \/ Window!Refresh
  BY <1>7 DEF Window!TogglePlan, Window!Submit, Window!Reload, Window!Connect, Window!Receive, Window!Refresh
<1>8. CASE Window!ApplySettings \/ Window!MakeWorkspace \/ Window!WorkspaceMade \/ Window!WorkspaceFailed
  BY <1>8 DEF Window!ApplySettings, Window!MakeWorkspace, Window!WorkspaceMade, Window!WorkspaceFailed
<1>9. CASE UNCHANGED Window!vars
  BY <1>9 DEF Window!vars
<1> QED
  BY <1>1, <1>2, <1>3, <1>4, <1>5, <1>6, <1>7, <1>8, <1>9 DEF Window!Next

(* The window, whatever the answers and the person do: before the first
   answer there are only requests for a workspace; the newest request of a
   conversation is one alone, and its answer at least as new as the screen;
   the run waits for one thing; what the window knows of a session the server
   has.                                                                     *)
THEOREM ScreenInvariant ==
  Window!Spec => []Window!ScreenInv
<1>1. Window!Init => ScreenCore /\ Window!BootOK
  BY ScreenInit DEF Window!Init, Window!BootOK
<1>2. ScreenCore /\ [Window!Next]_(Window!vars) => ScreenCore'
  BY ScreenStep
<1>3. Window!BootOK /\ [Window!Next]_(Window!vars) => Window!BootOK'
  BY ScreenBoots
<1>4. Window!ScreenInv <=> ScreenCore /\ Window!BootOK
  BY DEF Window!ScreenInv, ScreenCore
<1> QED
  BY <1>1, <1>2, <1>3, <1>4, PTL DEF Window!Spec

(* No late answer moves the window or mixes the messages of two
   conversations, and one message is sent at a time, where it was written
   (App.tsx, loadState, scopeStillSelected and submitLock).                 *)
LEMMA ScreenIsHeld ==
  Window!Spec => Window!ScreenHolds
<1>0. Window!ScreenInv => ScreenCore
  BY DEF Window!ScreenInv, ScreenCore
<1>1. ScreenCore /\ [Window!Next]_(Window!vars) => StepKept
  BY ScreenKept
<1>2. ScreenCore => Window!ShownBelongs /\ Window!OneMessage /\ Window!SentWhereWritten
  BY ScreenSays
<1>3. StepKept => Window!MovedByItsOwner /\ Window!NeverLeavesWorkspace /\ Window!NeverOlder
  BY DEF StepKept
<1> QED
  BY <1>0, <1>1, <1>2, <1>3, ScreenInvariant, PTL DEF Window!Spec, Window!ScreenHolds

(***************************************************************************)
(* The checkpoints of the repository.                                      *)
(***************************************************************************)

(* A patch, and what its application leaves.                                *)
LEMMA GitPatch ==
  ASSUME NEW P \in SUBSET Paths, NEW from \in [Paths -> Repo!Files], NEW to \in [Paths -> Repo!Files]
  PROVE /\ Repo!Patch(P, from, to) \in Repo!Patches
        /\ DOMAIN Repo!Patch(P, from, to) = {p \in P : from[p] # to[p]}
        /\ \A p \in DOMAIN Repo!Patch(P, from, to) :
             Repo!Patch(P, from, to)[p].pre = from[p] /\ Repo!Patch(P, from, to)[p].post = to[p]
<1> DEFINE changed == {p \in P : from[p] # to[p]}
           Q == [p \in changed |-> [pre |-> from[p], post |-> to[p]]]
<1>1. Repo!Patch(P, from, to) = Q
  BY DEF Repo!Patch
<1>2. Q \in [changed -> [pre : Repo!Files, post : Repo!Files]] /\ changed \in SUBSET Paths
  OBVIOUS
<1>3. Q \in Repo!Patches
  BY <1>2 DEF Repo!Patches, Repo!Partial
<1> QED
  BY <1>1, <1>3

(* Applied to a tree, it makes a tree.                                       *)
LEMMA GitPatched ==
  ASSUME NEW patch \in Repo!Patches, NEW tree \in [Paths -> Repo!Files]
  PROVE Repo!Patched(patch, tree) \in [Paths -> Repo!Files]
<1>1. PICK P \in SUBSET Paths : patch \in [P -> [pre : Repo!Files, post : Repo!Files]]
  BY DEF Repo!Patches, Repo!Partial
<1> QED
  BY <1>1 DEF Repo!Patched

(* A partial tree has contents on some paths.                                *)
LEMMA GitPartial ==
  /\ \A f \in Repo!Partial(Repo!Files) : DOMAIN f \subseteq Paths /\ \A p \in DOMAIN f : f[p] \in Repo!Files
  /\ \A f \in [Paths -> Repo!Files] : f \in Repo!Partial(Repo!Files)
  /\ Repo!None \in Repo!Partial(Repo!Files) /\ Repo!None \in Repo!Patches
<1>1. \A f \in Repo!Partial(Repo!Files) : DOMAIN f \subseteq Paths /\ \A p \in DOMAIN f : f[p] \in Repo!Files
  BY DEF Repo!Partial
<1>2. \A f \in [Paths -> Repo!Files] : f \in Repo!Partial(Repo!Files)
  BY DEF Repo!Partial
<1>3. Repo!None \in [{} -> Repo!Files] /\ Repo!None \in [{} -> [pre : Repo!Files, post : Repo!Files]] /\ {} \in SUBSET Paths
  BY DEF Repo!None
<1> QED
  BY <1>1, <1>2, <1>3 DEF Repo!Partial, Repo!Patches

(* Nothing has been captured or restored at first.                          *)
LEMMA GitStart == Repo!Init => Repo!GitInv
<1> SUFFICES ASSUME Repo!Init PROVE Repo!GitInv
  OBVIOUS
<1>1. Repo!NoCapture \in Repo!CaptureType
  BY GitPartial DEF Repo!NoCapture, Repo!CaptureType
<1>2. Repo!NoRestore \in Repo!RestoreType
  BY DEF Repo!NoRestore, Repo!RestoreType
<1>3. Repo!TypeOK
  BY <1>1, <1>2, MessagesAssumption DEF Repo!TypeOK, Repo!Init, Repo!GitAssumption
<1>4. Repo!OneCapture /\ Repo!CaptureExact /\ Repo!TodoKept /\ Repo!RestoreExact /\ Repo!RestoreSucceeds
  BY DEF Repo!Init, Repo!NoCapture, Repo!NoRestore, Repo!OneCapture, Repo!CaptureExact, Repo!TodoKept, Repo!RestoreExact, Repo!Replaying,
    Repo!RestoreSucceeds
<1> QED
  BY <1>3, <1>4 DEF Repo!GitInv

-----------------------------------------------------------------------------
(* Types.                                                                    *)

(* The four reads of a checkpoint keep the types.                            *)
LEMMA GitCreateTypes ==
  ASSUME Repo!TypeOK, Repo!CreateStatus \/ Repo!CreateFiles \/ Repo!CreateStaged \/ Repo!CreateUnstaged
  PROVE Repo!TypeOK'
<1> USE DEF Repo!Calm
<1>0. Repo!Tracked \in SUBSET Paths /\ Paths \in SUBSET Paths /\ Repo!Untracked \in SUBSET Paths
  BY DEF Repo!Tracked, Repo!Untracked
<1>1. CASE Repo!CreateStatus
  <2>1. [head |-> head, index |-> index, work |-> work]
          \in [head : Repo!Partial(Repo!Files), index : Repo!Partial(Repo!Files), work : Repo!Partial(Repo!Files)]
    BY GitPartial DEF Repo!TypeOK
  <2>2. (restoring.at = "idle") \in BOOLEAN
    OBVIOUS
  <2>3. making' \in Repo!CaptureType
    BY <1>0, <1>1, <2>1, <2>2, GitPartial DEF Repo!CreateStatus, Repo!NoCapture, Repo!CaptureType
  <2> QED
    BY <1>1, <2>3 DEF Repo!CreateStatus, Repo!TypeOK
<1>2. CASE Repo!CreateFiles
  <2> DEFINE found == {p \in making.untracked \ NewDirs : work[p] # NoFile}
             read == [p \in found |-> work[p]]
  <2>1. found \in SUBSET Paths /\ read \in [found -> Repo!Files]
    BY DEF Repo!TypeOK, Repo!CaptureType
  <2>2. read \in Repo!Partial(Repo!Files)
    BY <2>1 DEF Repo!Partial
  <2>3. making' = [making EXCEPT !.at = "staged", !.files = read, !.base = base]
    BY <1>2 DEF Repo!CreateFiles
  <2> HIDE DEF found, read
  <2>4. making' \in Repo!CaptureType
    BY <2>2, <2>3 DEF Repo!TypeOK, Repo!CaptureType
  <2> QED
    BY <1>2, <2>4 DEF Repo!CreateFiles, Repo!TypeOK
<1>3. CASE Repo!CreateStaged
  <2>1. Repo!DiffStaged \in Repo!Patches
    BY <1>0, GitPatch DEF Repo!DiffStaged, Repo!TypeOK
  <2>2. making' \in Repo!CaptureType
    BY <1>3, <2>1 DEF Repo!CreateStaged, Repo!TypeOK, Repo!CaptureType
  <2> QED
    BY <1>3, <2>2 DEF Repo!CreateStaged, Repo!TypeOK
<1>4. CASE Repo!CreateUnstaged
  <2>1. Repo!DiffUnstaged \in Repo!Patches
    BY <1>0, GitPatch DEF Repo!DiffUnstaged, Repo!TypeOK
  <2>2. checkpoint' \in Repo!CaptureType
    BY <1>4, <2>1 DEF Repo!CreateUnstaged, Repo!TypeOK, Repo!CaptureType
  <2>3. making' \in Repo!CaptureType
    BY <1>4, GitPartial DEF Repo!CreateUnstaged, Repo!NoCapture, Repo!CaptureType
  <2> QED
    BY <1>4, <2>2, <2>3 DEF Repo!CreateUnstaged, Repo!TypeOK
<1> QED
  BY <1>1, <1>2, <1>3, <1>4

(* The steps of a restore keep the types.                                    *)
LEMMA GitRestoreTypes ==
  ASSUME Repo!TypeOK, Repo!TodoKept, (\E force \in BOOLEAN : Repo!RestoreBegin(force)) \/ Repo!RestoreStep
  PROVE Repo!TypeOK'
<1> USE DEF Repo!Keep, Repo!Go
<1>0. ASSUME NEW s \in {"clear", "staged", "unstaged", "write", "done", "failed"},
             restoring' = [restoring EXCEPT !.at = s]
      PROVE restoring' \in Repo!RestoreType
  BY <1>0 DEF Repo!TypeOK, Repo!RestoreType
<1>1. ASSUME NEW force \in BOOLEAN, Repo!RestoreBegin(force)
      PROVE Repo!TypeOK'
  <2>1. DOMAIN checkpoint.files \in SUBSET Paths
    BY GitPartial DEF Repo!TypeOK, Repo!CaptureType
  <2>2. (base = checkpoint.base) \in BOOLEAN /\ (making.at = "idle") \in BOOLEAN
    OBVIOUS
  <2>3. restoring' \in Repo!RestoreType
    BY <1>1, <2>1, <2>2 DEF Repo!RestoreBegin, Repo!RestoreType
  <2> QED
    BY <1>1, <2>3 DEF Repo!RestoreBegin, Repo!TypeOK
<1>2. CASE Repo!Reset
  <2>1. restoring' \in Repo!RestoreType
    BY <1>0, <1>2 DEF Repo!Reset
  <2> QED
    BY <1>2, <2>1 DEF Repo!Reset, Repo!TypeOK
<1>3. CASE Repo!ClearRecreated
  <2>1. restoring' \in Repo!RestoreType
    BY <1>0, <1>3 DEF Repo!ClearRecreated
  <2>2. index' \in [Paths -> Repo!Files] /\ work' \in [Paths -> Repo!Files]
    BY <1>3 DEF Repo!ClearRecreated, Repo!TypeOK, Repo!Files
  <2> QED
    BY <1>3, <2>1, <2>2 DEF Repo!ClearRecreated, Repo!TypeOK
<1>4. CASE Repo!ReplayStaged
  <2>1. restoring' \in Repo!RestoreType
    BY <1>0, <1>4 DEF Repo!ReplayStaged
  <2>2. index' \in [Paths -> Repo!Files] /\ work' \in [Paths -> Repo!Files]
    BY <1>4, GitPatched DEF Repo!ReplayStaged, Repo!TypeOK, Repo!CaptureType
  <2> QED
    BY <1>4, <2>1, <2>2 DEF Repo!ReplayStaged, Repo!TypeOK
<1>5. CASE Repo!ReplayUnstaged
  <2>1. restoring' \in Repo!RestoreType
    BY <1>0, <1>5 DEF Repo!ReplayUnstaged
  <2>2. work' \in [Paths -> Repo!Files]
    BY <1>5, GitPatched DEF Repo!ReplayUnstaged, Repo!TypeOK, Repo!CaptureType
  <2> QED
    BY <1>5, <2>1, <2>2 DEF Repo!ReplayUnstaged, Repo!TypeOK
<1>6. ASSUME NEW p \in Paths, Repo!WriteBack(p)
      PROVE Repo!TypeOK'
  <2>1. checkpoint.files[p] \in Repo!Files
    BY <1>6, GitPartial DEF Repo!WriteBack, Repo!TodoKept, Repo!TypeOK, Repo!CaptureType
  <2>2. work' \in [Paths -> Repo!Files]
    BY <1>6, <2>1 DEF Repo!WriteBack, Repo!TypeOK
  <2>3. PICK s \in {"write", "done"} :
          restoring' = [restoring EXCEPT !.todo = restoring.todo \ {p}, !.at = s]
    BY <1>6 DEF Repo!WriteBack
  <2>4. restoring' \in Repo!RestoreType
    BY <2>3 DEF Repo!TypeOK, Repo!RestoreType
  <2> QED
    BY <1>6, <2>2, <2>4 DEF Repo!WriteBack, Repo!TypeOK
<1> QED
  BY <1>1, <1>2, <1>3, <1>4, <1>5, <1>6 DEF Repo!RestoreStep

(* An edit of any kind: what it does to the trees, and to what is under way.  *)
Edited ==
  /\ Repo!Edit
  /\ head' \in [Paths -> Repo!Files] /\ index' \in [Paths -> Repo!Files] /\ work' \in [Paths -> Repo!Files]
  /\ (base' = base /\ head' = head) \/ base' = base + 1

EditNext == (\E p \in Paths : (\E c \in Repo!Files : Repo!Write(p, c)) \/ Repo!Stage(p) \/ Repo!Unstage(p) \/ Repo!Discard(p))
            \/ Repo!Commit

(* Every way to edit is one.                                                *)
LEMMA GitEdited == ASSUME Repo!TypeOK, EditNext PROVE Edited
<1> USE DEF Repo!TypeOK, Edited
<1>1. ASSUME NEW p \in Paths, NEW c \in Repo!Files, Repo!Write(p, c)
      PROVE Edited
  BY <1>1 DEF Repo!Write
<1>2. ASSUME NEW p \in Paths, Repo!Stage(p)
      PROVE Edited
  BY <1>2 DEF Repo!Stage
<1>3. ASSUME NEW p \in Paths, Repo!Unstage(p)
      PROVE Edited
  BY <1>3 DEF Repo!Unstage
<1>4. ASSUME NEW p \in Paths, Repo!Discard(p)
      PROVE Edited
  BY <1>4 DEF Repo!Discard
<1>5. CASE Repo!Commit
  BY <1>5 DEF Repo!Commit
<1> QED
  BY <1>1, <1>2, <1>3, <1>4, <1>5 DEF EditNext

(* What an edit makes of a capture and of a restore.                         *)
LEMMA GitDisturbed ==
  ASSUME Repo!TypeOK, Repo!Edit
  PROVE /\ making' \in Repo!CaptureType /\ making'.at = making.at /\ making'.base = making.base
        /\ making.at # "idle" => making'.undisturbed = FALSE
        /\ restoring' \in Repo!RestoreType /\ restoring'.todo = restoring.todo
        /\ restoring'.at \in {restoring.at, "idle"} /\ restoring'.at \notin {"done", "failed"}
        /\ restoring'.at # "idle" => restoring'.undisturbed = FALSE
<1>1. making' \in Repo!CaptureType /\ making'.at = making.at /\ making'.base = making.base
      /\ (making.at # "idle" => making'.undisturbed = FALSE)
  BY DEF Repo!TypeOK, Repo!Edit, Repo!CaptureType
<1>2. CASE restoring.at \in {"idle", "done", "failed"}
  BY <1>1, <1>2 DEF Repo!TypeOK, Repo!Edit, Repo!RestoreType
<1>3. CASE restoring.at \notin {"idle", "done", "failed"}
  BY <1>1, <1>3 DEF Repo!TypeOK, Repo!Edit, Repo!RestoreType
<1> QED
  BY <1>2, <1>3

(* An edit of the checkout keeps the invariant: what a checkpoint recorded is*)
(* its own.                                                                  *)
LEMMA GitEditKeeps == ASSUME Repo!GitInv, Edited PROVE Repo!GitInv'
<1> USE DEF Repo!GitInv
<1> USE GitDisturbed
<1>0. Repo!TypeOK /\ Repo!Edit /\ checkpoint' = checkpoint
  BY DEF Edited, Repo!Edit
<1>1. Repo!TypeOK'
  <2>1. base' \in Nat /\ edits' \in Nat /\ restores' \in Nat
    BY <1>0 DEF Edited, Repo!Edit, Repo!TypeOK
  <2> QED
    BY <1>0, <2>1 DEF Edited, Repo!TypeOK
<1>2. Repo!OneCapture'
  BY <1>0 DEF Repo!OneCapture
<1>3. Repo!CaptureExact'
  <2>1. base <= base' /\ (checkpoint.base <= base => checkpoint.base <= base')
    BY <1>0 DEF Edited, Repo!TypeOK, Repo!CaptureType
  <2>2. making'.at # "idle" => making'.undisturbed = FALSE
    BY <1>0
  <2>3. making'.at \in {"staged", "unstaged"} => making'.base <= base'
    <3>1. making'.at = making.at /\ making'.base = making.base
      BY <1>0
    <3>2. base \in Nat /\ base' \in Nat /\ making.base \in Nat
      BY <1>0, <1>1 DEF Repo!TypeOK, Repo!CaptureType
    <3>3. making.at \in {"staged", "unstaged"} => making.base <= base
      BY DEF Repo!CaptureExact
    <3> QED
      BY <2>1, <3>1, <3>2, <3>3
  <2>4. checkpoint'.at = "saved" =>
       /\ checkpoint'.base <= base'
       /\ checkpoint'.undisturbed =>
            /\ checkpoint'.was \in [head : [Paths -> Repo!Files], index : [Paths -> Repo!Files],
                                   work : [Paths -> Repo!Files]]
            /\ checkpoint'.files = Repo!FilesOf(checkpoint')
            /\ checkpoint'.staged = Repo!StagedOf(checkpoint')
            /\ checkpoint'.unstaged = Repo!UnstagedOf(checkpoint')
            /\ checkpoint'.base = base' => head' = checkpoint'.was.head
    <3>1. checkpoint.at = "saved" /\ checkpoint.base = base' => base' = base /\ head' = head
      BY <1>0 DEF Edited, Repo!CaptureExact, Repo!TypeOK, Repo!CaptureType
    <3> QED
      BY <1>0, <2>1, <3>1 DEF Repo!CaptureExact
  <2> QED
    BY <2>2, <2>3, <2>4 DEF Repo!CaptureExact
<1>4. Repo!TodoKept'
  BY <1>0 DEF Repo!TodoKept, Repo!OneCapture
<1>5. Repo!RestoreExact' /\ Repo!RestoreSucceeds'
  BY <1>0 DEF Repo!RestoreExact, Repo!RestoreSucceeds, Repo!Replaying, Repo!Undisturbed
<1> QED
  BY <1>1, <1>2, <1>3, <1>4, <1>5

-----------------------------------------------------------------------------
(* The capture.                                                              *)

(* Each read of a checkpoint records what the checkout then holds.           *)
LEMMA GitCreateKeeps ==
  ASSUME Repo!GitInv, Repo!CreateStatus \/ Repo!CreateFiles \/ Repo!CreateStaged \/ Repo!CreateUnstaged
  PROVE Repo!GitInv'
<1> USE DEF Repo!GitInv
<1>1. Repo!TypeOK'
  BY GitCreateTypes
<1>2. /\ UNCHANGED <<head, base, index, work, restoring>> /\ checkpoint.at = "idle"
      /\ restoring.at = "idle"
  BY DEF Repo!CreateStatus, Repo!CreateFiles, Repo!CreateStaged, Repo!CreateUnstaged, Repo!Calm, Repo!OneCapture
<1>3. Repo!OneCapture' /\ Repo!TodoKept' /\ Repo!RestoreExact' /\ Repo!RestoreSucceeds'
  <2>1. Repo!OneCapture'
    <3>1. CASE Repo!CreateStatus
      BY <1>2, <3>1 DEF Repo!CreateStatus, Repo!OneCapture, Repo!NoCapture
    <3>2. CASE Repo!CreateFiles
      BY <1>2, <3>2 DEF Repo!CreateFiles, Repo!OneCapture, Repo!TypeOK, Repo!CaptureType
    <3>3. CASE Repo!CreateStaged
      BY <1>2, <3>3 DEF Repo!CreateStaged, Repo!OneCapture, Repo!TypeOK, Repo!CaptureType
    <3>4. CASE Repo!CreateUnstaged
      BY <1>2, <3>4 DEF Repo!CreateUnstaged, Repo!OneCapture, Repo!NoCapture, Repo!TypeOK, Repo!CaptureType
    <3> QED
      BY <3>1, <3>2, <3>3, <3>4
  <2> QED
    BY <1>2, <2>1 DEF Repo!TodoKept, Repo!RestoreExact, Repo!RestoreSucceeds, Repo!Replaying
<1>4. Repo!CaptureExact'
  <2>1. CASE Repo!CreateStatus
    <3>1. /\ making'.at = "files" /\ making'.untracked = Repo!Untracked
          /\ making'.was = [head |-> head, index |-> index, work |-> work] /\ checkpoint' = checkpoint
      BY <2>1 DEF Repo!CreateStatus, Repo!NoCapture
    <3> QED
      BY <1>2, <3>1 DEF Repo!CaptureExact, Repo!Untracked
  <2>2. CASE Repo!CreateFiles
    <3> DEFINE found == {p \in making.untracked \ NewDirs : work[p] # NoFile}
               read == [p \in found |-> work[p]]
    <3>1. making' = [making EXCEPT !.at = "staged", !.files = read, !.base = base]
          /\ checkpoint' = checkpoint /\ making.at = "files"
      BY <2>2 DEF Repo!CreateFiles
    <3>2. /\ making'.at = "staged" /\ making'.files = read /\ making'.base = base
          /\ making'.was = making.was /\ making'.untracked = making.untracked
          /\ (making'.undisturbed <=> making.undisturbed)
      BY <3>1 DEF Repo!TypeOK, Repo!CaptureType
    <3>3. making.undisturbed => read = Repo!FilesOf(making)
      <4> SUFFICES ASSUME making.undisturbed PROVE read = Repo!FilesOf(making)
        OBVIOUS
      <4>1. making.untracked = Repo!Untracked /\ making.was.index = index /\ making.was.work = work
        BY <3>1 DEF Repo!CaptureExact
      <4>2. found = {q \in Paths \ NewDirs : making.was.index[q] = NoFile /\ making.was.work[q] # NoFile}
        BY <4>1 DEF Repo!Untracked
      <4> QED
        BY <4>1, <4>2 DEF Repo!FilesOf
    <3>4. Repo!FilesOf(making') = Repo!FilesOf(making)
      BY <3>2 DEF Repo!FilesOf
    <3>5. base <= base
      BY DEF Repo!TypeOK
    <3> HIDE DEF found, read
    <3> QED
      BY <1>2, <3>1, <3>2, <3>3, <3>4, <3>5 DEF Repo!CaptureExact, Repo!Untracked
  <2>3. CASE Repo!CreateStaged
    <3>1. /\ making'.at = "unstaged" /\ making'.files = making.files /\ making'.base = making.base
          /\ making'.was = making.was /\ making'.untracked = making.untracked
          /\ (making'.undisturbed <=> making.undisturbed) /\ making'.staged = Repo!DiffStaged
          /\ checkpoint' = checkpoint /\ making.at = "staged"
      BY <2>3 DEF Repo!CreateStaged, Repo!TypeOK, Repo!CaptureType
    <3>2. Repo!FilesOf(making') = Repo!FilesOf(making) /\ Repo!StagedOf(making') = Repo!StagedOf(making)
      BY <3>1 DEF Repo!FilesOf, Repo!StagedOf
    <3>3. making.undisturbed => Repo!DiffStaged = Repo!StagedOf(making)
      BY <3>1 DEF Repo!CaptureExact, Repo!DiffStaged, Repo!StagedOf
    <3> QED
      BY <1>2, <3>1, <3>2, <3>3 DEF Repo!CaptureExact, Repo!Untracked
  <2>4. CASE Repo!CreateUnstaged
    <3>1. /\ checkpoint'.at = "saved" /\ checkpoint'.files = making.files
          /\ checkpoint'.base = making.base /\ checkpoint'.was = making.was
          /\ (checkpoint'.undisturbed <=> making.undisturbed)
          /\ checkpoint'.staged = making.staged /\ checkpoint'.unstaged = Repo!DiffUnstaged
          /\ making.at = "unstaged"
      BY <2>4 DEF Repo!CreateUnstaged, Repo!TypeOK, Repo!CaptureType
    <3>2. making'.at = "idle"
      BY <2>4 DEF Repo!CreateUnstaged, Repo!NoCapture
    <3>3. /\ Repo!FilesOf(checkpoint') = Repo!FilesOf(making) /\ Repo!StagedOf(checkpoint') = Repo!StagedOf(making)
          /\ Repo!UnstagedOf(checkpoint') = Repo!UnstagedOf(making)
      BY <3>1 DEF Repo!FilesOf, Repo!StagedOf, Repo!UnstagedOf
    <3>4. making.undisturbed => Repo!DiffUnstaged = Repo!UnstagedOf(making)
      BY <3>1 DEF Repo!CaptureExact, Repo!DiffUnstaged, Repo!UnstagedOf, Repo!Tracked
    <3>5. making.undisturbed =>
            /\ making.was = [head |-> head, index |-> index, work |-> work]
            /\ making.was \in [head : [Paths -> Repo!Files], index : [Paths -> Repo!Files], work : [Paths -> Repo!Files]]
      BY <3>1 DEF Repo!CaptureExact, Repo!TypeOK
    <3>6. /\ making.base <= base
          /\ making.undisturbed => making.files = Repo!FilesOf(making) /\ making.staged = Repo!StagedOf(making)
      BY <3>1 DEF Repo!CaptureExact
    <3> QED
      BY <1>2, <3>1, <3>2, <3>3, <3>4, <3>5, <3>6 DEF Repo!CaptureExact
  <2> QED
    BY <2>1, <2>2, <2>3, <2>4
<1> QED
  BY <1>1, <1>3, <1>4

-----------------------------------------------------------------------------
(* The restore.                                                              *)

(* No step of a restore touches what was captured.                           *)
LEMMA GitRestoreCaptures ==
  ASSUME Repo!GitInv, (\E force \in BOOLEAN : Repo!RestoreBegin(force)) \/ Repo!RestoreStep
  PROVE /\ UNCHANGED <<head, base, making, checkpoint>> /\ checkpoint.at = "saved"
        /\ making.at = "idle" /\ Repo!TypeOK' /\ Repo!OneCapture' /\ Repo!CaptureExact'
<1> USE DEF Repo!GitInv
<1>1. Repo!TypeOK'
  BY GitRestoreTypes
<1>2. UNCHANGED <<head, base, making, checkpoint>> /\ (restoring.at # "idle" \/ checkpoint.at = "saved")
  BY DEF Repo!RestoreBegin, Repo!RestoreStep, Repo!Reset, Repo!ClearRecreated, Repo!ReplayStaged, Repo!ReplayUnstaged, Repo!WriteBack, Repo!Keep
<1>3. checkpoint.at = "saved" /\ making.at = "idle"
  BY <1>2 DEF Repo!OneCapture
<1> QED
  BY <1>1, <1>2, <1>3 DEF Repo!OneCapture, Repo!CaptureExact

(* What a restore still has to apply is what its checkpoint recorded and it  *)
(* did not.                                                                  *)
LEMMA GitTodo ==
  ASSUME Repo!GitInv, (\E force \in BOOLEAN : Repo!RestoreBegin(force)) \/ Repo!RestoreStep
  PROVE Repo!TodoKept'
<1> USE DEF Repo!GitInv
<1>0. checkpoint' = checkpoint /\ restoring \in Repo!RestoreType
  BY GitRestoreCaptures DEF Repo!TypeOK
<1>1. ASSUME NEW force \in BOOLEAN, Repo!RestoreBegin(force)
      PROVE Repo!TodoKept'
  BY <1>0, <1>1 DEF Repo!RestoreBegin, Repo!TodoKept
<1>2. ASSUME Repo!Reset \/ Repo!ClearRecreated
      PROVE Repo!TodoKept'
  BY <1>0, <1>2 DEF Repo!Reset, Repo!ClearRecreated, Repo!Go, Repo!TodoKept, Repo!RestoreType
<1>3. CASE Repo!ReplayStaged
  BY <1>0, <1>3 DEF Repo!ReplayStaged, Repo!Go, Repo!TodoKept, Repo!RestoreType
<1>4. CASE Repo!ReplayUnstaged
  BY <1>0, <1>4 DEF Repo!ReplayUnstaged, Repo!Go, Repo!TodoKept, Repo!RestoreType
<1>5. ASSUME NEW p \in Paths, Repo!WriteBack(p)
      PROVE Repo!TodoKept'
  BY <1>0, <1>5 DEF Repo!WriteBack, Repo!TodoKept, Repo!RestoreType
<1> QED
  BY <1>1, <1>2, <1>3, <1>4, <1>5 DEF Repo!RestoreStep

(* What an exact restore knows of the checkpoint.                            *)
LEMMA GitReplay ==
  ASSUME Repo!GitInv, checkpoint.at = "saved", checkpoint.undisturbed
  PROVE LET was == checkpoint.was
        IN
        /\ was.head \in [Paths -> Repo!Files] /\ was.index \in [Paths -> Repo!Files]
        /\ was.work \in [Paths -> Repo!Files]
        /\ DOMAIN checkpoint.staged = {p \in Paths : was.head[p] # was.index[p]}
        /\ \A p \in DOMAIN checkpoint.staged :
             checkpoint.staged[p].pre = was.head[p] /\ checkpoint.staged[p].post = was.index[p]
        /\ DOMAIN checkpoint.unstaged =
             {p \in Paths : was.index[p] # NoFile /\ was.index[p] # was.work[p]}
        /\ \A p \in DOMAIN checkpoint.unstaged :
             checkpoint.unstaged[p].pre = was.index[p] /\ checkpoint.unstaged[p].post = was.work[p]
        /\ \A p \in DOMAIN checkpoint.files :
             /\ p \in Paths /\ was.index[p] = NoFile /\ was.work[p] # NoFile
             /\ checkpoint.files[p] = was.work[p]
<1> USE DEF Repo!GitInv
<1> DEFINE was == checkpoint.was
           known == {p \in Paths : was.index[p] # NoFile}
<1>1. /\ was \in [head : [Paths -> Repo!Files], index : [Paths -> Repo!Files], work : [Paths -> Repo!Files]]
      /\ checkpoint.files = Repo!FilesOf(checkpoint) /\ checkpoint.staged = Repo!StagedOf(checkpoint)
      /\ checkpoint.unstaged = Repo!UnstagedOf(checkpoint)
  BY DEF Repo!CaptureExact
<1>2. /\ was.head \in [Paths -> Repo!Files] /\ was.index \in [Paths -> Repo!Files]
      /\ was.work \in [Paths -> Repo!Files]
  BY <1>1
<1>3. checkpoint.staged = Repo!Patch(Paths, was.head, was.index)
      /\ checkpoint.unstaged = Repo!Patch(known, was.index, was.work)
  BY <1>1 DEF Repo!StagedOf, Repo!UnstagedOf
<1>4. Paths \in SUBSET Paths /\ known \in SUBSET Paths
  OBVIOUS
<1>5. \A p \in DOMAIN checkpoint.files :
         /\ p \in Paths /\ was.index[p] = NoFile /\ was.work[p] # NoFile
         /\ checkpoint.files[p] = was.work[p]
  BY <1>1 DEF Repo!FilesOf
<1>6. known = {p \in Paths : was.index[p] # NoFile}
  OBVIOUS
<1> HIDE DEF was, known
<1>7. /\ DOMAIN Repo!Patch(Paths, was.head, was.index) = {p \in Paths : was.head[p] # was.index[p]}
      /\ \A p \in DOMAIN Repo!Patch(Paths, was.head, was.index) :
           /\ Repo!Patch(Paths, was.head, was.index)[p].pre = was.head[p]
           /\ Repo!Patch(Paths, was.head, was.index)[p].post = was.index[p]
  <2>1. \A P \in SUBSET Paths :
          /\ DOMAIN Repo!Patch(P, was.head, was.index) = {p \in P : was.head[p] # was.index[p]}
          /\ \A p \in DOMAIN Repo!Patch(P, was.head, was.index) :
               /\ Repo!Patch(P, was.head, was.index)[p].pre = was.head[p]
               /\ Repo!Patch(P, was.head, was.index)[p].post = was.index[p]
    BY <1>2, GitPatch
  <2> QED
    BY <1>4, <2>1
<1>8. /\ DOMAIN Repo!Patch(known, was.index, was.work) = {p \in known : was.index[p] # was.work[p]}
      /\ \A p \in DOMAIN Repo!Patch(known, was.index, was.work) :
           /\ Repo!Patch(known, was.index, was.work)[p].pre = was.index[p]
           /\ Repo!Patch(known, was.index, was.work)[p].post = was.work[p]
  BY <1>2, <1>4, GitPatch
<1>9. DOMAIN checkpoint.unstaged =
        {p \in Paths : was.index[p] # NoFile /\ was.index[p] # was.work[p]}
  BY <1>3, <1>6, <1>8
<1> QED
  BY <1>2, <1>3, <1>5, <1>7, <1>8, <1>9 DEF was

(* The stage an exact restore has reached is one of an exact restore.        *)
LEMMA GitRestoreBegins ==
  ASSUME Repo!GitInv, NEW force \in BOOLEAN, Repo!RestoreBegin(force)
  PROVE Repo!RestoreExact' /\ Repo!RestoreSucceeds'
<1>1. restoring'.at = "reset" /\ base' = base /\ checkpoint' = checkpoint
      /\ (restoring'.sameHead => base = checkpoint.base)
  BY DEF Repo!RestoreBegin
<1> QED
  BY <1>1 DEF Repo!RestoreExact, Repo!RestoreSucceeds, Repo!Undisturbed

(* Each step of a restore brings back one more part of the checkpoint.       *)
LEMMA GitRestoreKeeps ==
  ASSUME Repo!GitInv, Repo!RestoreStep
  PROVE Repo!RestoreExact' /\ Repo!RestoreSucceeds'
<1> USE DEF Repo!GitInv
<1> DEFINE exact == checkpoint.undisturbed /\ restoring.undisturbed /\ restoring.sameHead
           was == checkpoint.was
<1>0. UNCHANGED <<head, base, checkpoint>> /\ checkpoint.at = "saved" /\ restoring.at \in Repo!Replaying
  BY GitRestoreCaptures DEF Repo!RestoreStep, Repo!Reset, Repo!ClearRecreated, Repo!ReplayStaged, Repo!ReplayUnstaged, Repo!WriteBack,
    Repo!Replaying
<1>1. (restoring'.undisturbed <=> restoring.undisturbed) /\ (restoring'.sameHead <=> restoring.sameHead)
  BY DEF Repo!RestoreStep, Repo!Reset, Repo!ClearRecreated, Repo!ReplayStaged, Repo!ReplayUnstaged, Repo!WriteBack, Repo!Go, Repo!TypeOK,
    Repo!RestoreType
<1>2. CASE ~exact
  BY <1>0, <1>1, <1>2 DEF Repo!RestoreExact, Repo!RestoreSucceeds, Repo!Undisturbed
<1>3. CASE exact
  <2> DEFINE staged == checkpoint.staged
             unstaged == checkpoint.unstaged
  <2>1. base = checkpoint.base /\ head = was.head
    BY <1>0, <1>3 DEF Repo!RestoreExact, Repo!CaptureExact
  <2>2. /\ was.head \in [Paths -> Repo!Files] /\ was.index \in [Paths -> Repo!Files]
        /\ was.work \in [Paths -> Repo!Files]
        /\ DOMAIN staged = {p \in Paths : was.head[p] # was.index[p]}
        /\ \A p \in DOMAIN staged : staged[p].pre = was.head[p] /\ staged[p].post = was.index[p]
        /\ DOMAIN unstaged = {p \in Paths : was.index[p] # NoFile /\ was.index[p] # was.work[p]}
        /\ \A p \in DOMAIN unstaged : unstaged[p].pre = was.index[p] /\ unstaged[p].post = was.work[p]
        /\ \A p \in DOMAIN checkpoint.files :
             /\ p \in Paths /\ was.index[p] = NoFile /\ was.work[p] # NoFile
             /\ checkpoint.files[p] = was.work[p]
    BY <1>0, <1>3, GitReplay
  <2>3. index \in [Paths -> Repo!Files] /\ work \in [Paths -> Repo!Files] /\ restoring \in Repo!RestoreType
    BY DEF Repo!TypeOK
  <2>4. CASE Repo!Reset
    <3>1. restoring'.at = "clear"
      BY <2>3, <2>4 DEF Repo!Reset, Repo!Go, Repo!RestoreType
    <3>2. index' = head /\ \A p \in Paths : head[p] # NoFile => work'[p] = head[p]
      BY <2>4 DEF Repo!Reset
    <3> QED
      BY <1>0, <2>1, <3>1, <3>2 DEF Repo!RestoreExact, Repo!RestoreSucceeds
  <2>5. CASE Repo!ClearRecreated
    <3> DEFINE gone == Repo!NewFiles(staged)
    <3>1. restoring'.at = "staged" /\ restoring.at = "clear"
      BY <2>3, <2>5 DEF Repo!ClearRecreated, Repo!Go, Repo!RestoreType
    <3>2. index = head /\ \A p \in Paths : head[p] # NoFile => work[p] = head[p]
      BY <1>0, <1>3, <3>1 DEF Repo!RestoreExact
    <3>3. \A p \in gone : p \in Paths /\ head[p] = NoFile
      BY <2>1, <2>2 DEF Repo!NewFiles
    <3>4. \A p \in Paths : index'[p] = IF p \in gone THEN NoFile ELSE index[p]
      BY <2>5 DEF Repo!ClearRecreated
    <3>5. \A p \in Paths : work'[p] = IF p \in gone THEN NoFile ELSE work[p]
      BY <2>5 DEF Repo!ClearRecreated
    <3>6. index' \in [Paths -> Repo!Files] /\ head \in [Paths -> Repo!Files]
      BY GitRestoreCaptures DEF Repo!TypeOK
    <3>7. index' = head
      BY <3>2, <3>3, <3>4, <3>6
    <3>8. \A p \in Paths : head[p] # NoFile => work'[p] = head[p]
      BY <3>2, <3>3, <3>5
    <3>9. \A p \in Repo!NewFiles(checkpoint'.staged) : work'[p] = NoFile
      BY <1>0, <3>3, <3>5
    <3> QED
      BY <1>0, <2>1, <3>1, <3>7, <3>8, <3>9 DEF Repo!RestoreExact, Repo!RestoreSucceeds
  <2>6. CASE Repo!ReplayStaged
    <3>1. /\ restoring.at = "staged" /\ index = head
          /\ \A p \in Paths : head[p] # NoFile => work[p] = head[p]
          /\ \A p \in Repo!NewFiles(staged) : work[p] = NoFile
      BY <1>0, <1>3, <2>6 DEF Repo!ReplayStaged, Repo!RestoreExact
    <3>2. CASE Repo!Fits(staged, index) /\ Repo!Fits(staged, work)
      <4>1. restoring'.at = "unstaged" /\ index' = Repo!Patched(staged, index) /\ work' = Repo!Patched(staged, work)
        BY <2>3, <2>6, <3>2 DEF Repo!ReplayStaged, Repo!Go, Repo!RestoreType
      <4>2. index' = was.index
        BY <2>1, <2>2, <3>1, <4>1 DEF Repo!Patched
      <4>3. \A p \in Paths : was.head[p] # NoFile \/ was.index[p] # NoFile => work'[p] = index'[p]
        BY <2>1, <2>2, <3>1, <4>1 DEF Repo!Patched
      <4> QED
        BY <1>0, <2>1, <4>1, <4>2, <4>3 DEF Repo!RestoreExact, Repo!RestoreSucceeds
    <3>3. CASE ~(Repo!Fits(staged, index) /\ Repo!Fits(staged, work))
      <4>1. restoring'.at = "failed"
        BY <2>3, <2>6, <3>3 DEF Repo!ReplayStaged, Repo!Go, Repo!RestoreType
      <4>2. PICK p \in DOMAIN staged : index[p] # staged[p].pre \/ work[p] # staged[p].pre
        BY <3>3 DEF Repo!Fits
      <4>3. head[p] = NoFile /\ work[p] # NoFile /\ staged[p].pre = NoFile
        BY <2>1, <2>2, <3>1, <4>2
      <4>4. staged[p].post \in Unmarked
        BY <3>1, <4>3 DEF Repo!NewFiles
      <4> QED
        BY <1>0, <4>1, <4>3, <4>4 DEF Repo!RestoreExact, Repo!RestoreSucceeds, Repo!Replaying
    <3> QED
      BY <3>2, <3>3
  <2>7. CASE Repo!ReplayUnstaged
    <3>1. /\ restoring.at = "unstaged" /\ index = was.index
          /\ \A p \in Paths : was.head[p] # NoFile \/ was.index[p] # NoFile => work[p] = index[p]
          /\ restoring.todo = DOMAIN checkpoint.files
      BY <1>0, <1>3, <2>7 DEF Repo!ReplayUnstaged, Repo!RestoreExact, Repo!TodoKept
    <3>2. Repo!Fits(unstaged, work)
      BY <2>2, <3>1 DEF Repo!Fits
    <3>3. /\ restoring'.at \in {"write", "done"} /\ restoring'.todo = restoring.todo
          /\ index' = index /\ work' = Repo!Patched(unstaged, work)
      BY <2>3, <2>7, <3>2 DEF Repo!ReplayUnstaged, Repo!Go, Repo!RestoreType
    <3>4. \A p \in Paths : was.index[p] # NoFile => work'[p] = was.work[p]
      BY <2>2, <3>1, <3>3 DEF Repo!Patched
    <3>5. \A p \in Paths :
            was.head[p] # NoFile /\ was.index[p] = NoFile /\ was.work[p] = NoFile => work'[p] = NoFile
      BY <2>2, <3>1, <3>3 DEF Repo!Patched
    <3> QED
      BY <1>0, <2>1, <3>1, <3>3, <3>4, <3>5 DEF Repo!RestoreExact, Repo!RestoreSucceeds
  <2>8. ASSUME NEW p \in Paths, Repo!WriteBack(p)
        PROVE Repo!RestoreExact' /\ Repo!RestoreSucceeds'
    <3>1. /\ restoring.at = "write" /\ index = was.index /\ p \in restoring.todo
          /\ \A q \in Paths :
               /\ was.index[q] # NoFile \/ q \in DOMAIN checkpoint.files \ restoring.todo
                    => work[q] = was.work[q]
               /\ was.head[q] # NoFile /\ was.index[q] = NoFile /\ was.work[q] = NoFile
                    => work[q] = NoFile
      BY <1>0, <1>3, <2>8 DEF Repo!WriteBack, Repo!RestoreExact
    <3>2. p \in DOMAIN checkpoint.files
      BY <3>1 DEF Repo!TodoKept
    <3>3. /\ restoring'.at \in {"write", "done"} /\ restoring'.todo = restoring.todo \ {p}
          /\ index' = index /\ work' = [work EXCEPT ![p] = checkpoint.files[p]]
      BY <2>3, <2>8 DEF Repo!WriteBack, Repo!RestoreType
    <3>4. \A q \in Paths : work'[q] = IF q = p THEN was.work[p] ELSE work[q]
      BY <2>2, <2>3, <3>2, <3>3
    <3>5. \A q \in Paths :
               /\ was.index[q] # NoFile \/ q \in DOMAIN checkpoint.files \ restoring'.todo
                    => work'[q] = was.work[q]
               /\ was.head[q] # NoFile /\ was.index[q] = NoFile /\ was.work[q] = NoFile
                    => work'[q] = NoFile
      BY <2>2, <3>1, <3>2, <3>3, <3>4
    <3> QED
      BY <1>0, <2>1, <3>1, <3>3, <3>5 DEF Repo!RestoreExact, Repo!RestoreSucceeds
  <2> QED
    BY <2>4, <2>5, <2>6, <2>7, <2>8 DEF Repo!RestoreStep
<1> QED
  BY <1>2, <1>3

(* No restore touches what neither git nor the checkpoint knows.             *)
LEMMA GitLeavesOthers == ASSUME Repo!GitInv PROVE Repo!LeavesOthersAlone
<1> USE DEF Repo!GitInv
<1> SUFFICES ASSUME Repo!RestoreStep, NEW q \in Paths, head[q] = NoFile, index[q] = NoFile,
                    q \notin DOMAIN checkpoint.files, q \notin DOMAIN checkpoint.staged,
                    q \notin DOMAIN checkpoint.unstaged
             PROVE work'[q] = work[q]
  BY DEF Repo!LeavesOthersAlone
<1>0. work \in [Paths -> Repo!Files]
  BY DEF Repo!TypeOK
<1>1. CASE Repo!Reset
  BY <1>1 DEF Repo!Reset
<1>2. CASE Repo!ClearRecreated
  BY <1>2 DEF Repo!ClearRecreated, Repo!NewFiles
<1>3. CASE Repo!ReplayStaged
  BY <1>0, <1>3 DEF Repo!ReplayStaged, Repo!Patched
<1>4. CASE Repo!ReplayUnstaged
  BY <1>0, <1>4 DEF Repo!ReplayUnstaged, Repo!Patched
<1>5. ASSUME NEW p \in Paths, Repo!WriteBack(p)
      PROVE work'[q] = work[q]
  BY <1>0, <1>5 DEF Repo!WriteBack, Repo!TodoKept
<1> QED
  BY <1>1, <1>2, <1>3, <1>4, <1>5 DEF Repo!RestoreStep

(* Every step keeps the invariant.                                           *)
LEMMA GitKeeps == ASSUME Repo!GitInv, [Repo!Next]_(Repo!vars) PROVE Repo!GitInv'
<1>1. CASE Repo!CreateStatus \/ Repo!CreateFiles \/ Repo!CreateStaged \/ Repo!CreateUnstaged
  BY <1>1, GitCreateKeeps
<1>2. ASSUME NEW force \in BOOLEAN, Repo!RestoreBegin(force)
      PROVE Repo!GitInv'
  BY <1>2, GitRestoreCaptures, GitTodo, GitRestoreBegins DEF Repo!GitInv
<1>3. CASE Repo!RestoreStep
  BY <1>3, GitRestoreCaptures, GitTodo, GitRestoreKeeps DEF Repo!GitInv
<1>4. CASE EditNext
  BY <1>4, GitEdited, GitEditKeeps DEF Repo!GitInv
<1>5. CASE UNCHANGED Repo!vars
  BY <1>5 DEF Repo!vars, Repo!GitInv, Repo!TypeOK, Repo!OneCapture, Repo!CaptureExact, Repo!Untracked, Repo!TodoKept, Repo!RestoreExact,
    Repo!RestoreSucceeds, Repo!Undisturbed
<1> QED
  BY <1>1, <1>2, <1>3, <1>4, <1>5 DEF Repo!Next, EditNext

(* The invariant says that a finished restore was exact.                     *)
LEMMA GitExact == ASSUME Repo!GitInv PROVE Repo!RestoreIsExact
<1> USE DEF Repo!GitInv
<1> SUFFICES ASSUME restoring.at = "done", checkpoint.undisturbed, restoring.undisturbed,
                    restoring.sameHead
             PROVE /\ index = checkpoint.was.index
                   /\ \A p \in Paths :
                        (checkpoint.was.index[p] # NoFile \/ p \in DOMAIN checkpoint.files
                           \/ (checkpoint.was.head[p] # NoFile /\ checkpoint.was.work[p] = NoFile))
                          => work[p] = checkpoint.was.work[p]
  BY DEF Repo!RestoreIsExact, Repo!Undisturbed
<1>1. restoring.todo = {}
  BY DEF Repo!TodoKept
<1> QED
  BY <1>1 DEF Repo!RestoreExact, Repo!Replaying

(* The inductive invariant of the checkpoints: each read of one agrees with  *)
(* the checkout while nobody edits it, and a restore has applied exactly the *)
(* steps behind it.                                                          *)
THEOREM GitInvariant == Repo!Spec => []Repo!GitInv
<1>1. Repo!Init => Repo!GitInv
  BY GitStart
<1>2. Repo!GitInv /\ [Repo!Next]_(Repo!vars) => Repo!GitInv'
  BY GitKeeps
<1> QED
  BY <1>1, <1>2, PTL DEF Repo!Spec

(* A restore that nobody disturbs brings back the tree of the checkpoint and *)
(* succeeds, and no restore touches a file its checkpoint did not name (git- *)
(* checkpoint.ts).                                                           *)
THEOREM GitExactness == Repo!Spec => Repo!CheckpointsHold
<1>1. Repo!GitInv /\ Repo!GitInv' /\ [Repo!Next]_(Repo!vars) =>
        [(Repo!RestoreIsExact /\ Repo!RestoreSucceeds)' /\ Repo!LeavesOthersAlone]_(Repo!vars)
  <2>1. Repo!GitInv' => Repo!RestoreIsExact' /\ Repo!RestoreSucceeds'
    <3>1. Repo!GitInv => Repo!RestoreIsExact /\ Repo!RestoreSucceeds
      BY GitExact DEF Repo!GitInv
    <3> QED
      BY <3>1, PTL
  <2> QED
    BY <2>1, GitLeavesOthers
<1> QED
  BY <1>1, GitInvariant, PTL DEF Repo!CheckpointsHold, Repo!Spec

(***************************************************************************)
(* The properties of Messages.                                             *)
(***************************************************************************)

(* Each part runs its own specification in the composition: when another part *)
(* is the one that moves, its own variables stay.                             *)
THEOREM MessagesRunTheirParts ==
    MessagesSpec =>
      Init /\ [][Next]_vars /\ Facts!Spec /\ Table!Spec /\ Window!Spec /\ Repo!Spec
<1>1. MessagesSpec => Init /\ [][Next]_vars
  <2>1. MessagesInit => Init
    BY DEF MessagesInit
  <2>2. [MessagesNext]_MessagesVars => [Next]_vars
    BY DEF MessagesNext, MessagesVars
  <2> QED
    BY <2>1, <2>2, PTL DEF MessagesSpec
<1>2. MessagesSpec => Facts!Spec
  <2>1. MessagesInit => Facts!Init
    BY DEF MessagesInit
  <2>2. [MessagesNext]_MessagesVars => [Facts!Next]_(Facts!vars)
    BY DEF MessagesNext, MessagesVars, FactsVars, Facts!vars
  <2> QED
    BY <2>1, <2>2, PTL DEF MessagesSpec, Facts!Spec
<1>3. MessagesSpec => Table!Spec
  <2>1. MessagesInit => Table!Init
    BY DEF MessagesInit
  <2>2. [MessagesNext]_MessagesVars => [Table!Next]_(Table!vars)
    BY DEF MessagesNext, MessagesVars, TableVars, Table!vars
  <2> QED
    BY <2>1, <2>2, PTL DEF MessagesSpec, Table!Spec
<1>4. MessagesSpec => Window!Spec
  <2>1. MessagesInit => Window!Init
    BY DEF MessagesInit
  <2>2. [MessagesNext]_MessagesVars => [Window!Next]_(Window!vars)
    BY DEF MessagesNext, MessagesVars, WindowVars, Window!vars
  <2> QED
    BY <2>1, <2>2, PTL DEF MessagesSpec, Window!Spec
<1>5. MessagesSpec => Repo!Spec
  <2>1. MessagesInit => Repo!Init
    BY DEF MessagesInit
  <2>2. [MessagesNext]_MessagesVars => [Repo!Next]_(Repo!vars)
    BY DEF MessagesNext, MessagesVars, RepoVars, Repo!vars
  <2> QED
    BY <2>1, <2>2, PTL DEF MessagesSpec, Repo!Spec
<1> QED
  BY <1>1, <1>2, <1>3, <1>4, <1>5

(* A restore that nobody disturbs brings back what its checkpoint found.      *)
THEOREM MessagesCheckpointsHold == MessagesSpec => CheckpointsHold
<1>1. Repo!CheckpointsHold => CheckpointsHold
  BY DEF CheckpointsHold
<1> QED
  BY <1>1, GitExactness, MessagesRunTheirParts


(* What an investigation rests on: facts that are not brought back, approvals  *)
(* whose pages have not changed since, and tables answered whole or not at all. *)
THEOREM MessagesEvidenceHolds == MessagesSpec => EvidenceHolds
<1>1. Table!Spec => []Table!TableHolds
  <2>1. Table!ReaderInv => Table!TableHolds
    BY DEF Table!ReaderInv
  <2> QED
    BY <2>1, ReaderInvariant, PTL
<1>2. []Table!TableHolds => [][Table!TableHolds']_MessagesVars
  BY PTL
<1>3. Facts!EvidenceHolds /\ [][Table!TableHolds']_MessagesVars => EvidenceHolds
  BY DEF EvidenceHolds
<1> QED
  BY <1>1, <1>2, <1>3, EvidenceIsHeld, MessagesRunTheirParts, PTL

(* No late answer moves the window or mixes the messages of two conversations, and *)
(* one message is sent at a time, in the workspace it was written in.         *)
THEOREM MessagesScreenHolds == MessagesSpec => ScreenHolds
<1>1. Window!ScreenHolds => ScreenHolds
  BY DEF ScreenHolds
<1> QED
  BY <1>1, ScreenIsHeld, MessagesRunTheirParts

=============================================================================
