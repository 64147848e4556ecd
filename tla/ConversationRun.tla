--------------------------- MODULE ConversationRun ---------------------------
(***************************************************************************)
(* Messages posted to one conversation: the handler of POST /api/messages, *)
(* the reservation that Stop and a closed socket act on, the agent runtime *)
(* with its session lock and its budget, and the status of the product     *)
(* session. The model's replies and the tools it calls are left out; a     *)
(* turn stands for both.                                                   *)
(***************************************************************************)
EXTENDS Naturals, Sequences

CONSTANTS
  Requests,   \* POST calls, each with a runId of its own
  NoRun,      \* the absence of one
  MaxTurns,   \* maxTurns of the budget
  MaxDeletes, \* soft deletions of the session
  MaxCrashes  \* restarts of the daemon

\* A runId is an id; the absence of one is none.
ASSUME RunIdAssumption == NoRun \notin Requests

VARIABLES
  step,     \* where the handler of each request is
  socket,   \* its connection: "open", "closed", or "finished" once answered
  registry, \* activeResponses: the reservation of the conversation
  aborted,  \* signals that were aborted, by run and by who reserved
  signal,   \* whose reservation the agent of a request listens to
  budget,   \* "open", or latched: "stopped", "exceeded"
  queue,    \* the session lock: the operation that has it, then those waiting
  running,  \* operations past the lock that have not returned
  turns,    \* turns each operation claimed
  told,     \* what the last Stop that found the run answered
  session,  \* status and statusBeforeDelete of the product session
  deletes, crashes

handler == <<step, socket>>
runtime == <<budget, queue, running, turns>>
vars == <<step, socket, registry, aborted, signal, budget, queue, running, turns, told,
          session, deletes, crashes>>

NoReservation == [run |-> NoRun, by |-> "route", committed |-> FALSE]
Reservation(r, by) == [run |-> r, by |-> by, committed |-> FALSE]

Init ==
  /\ step = [r \in Requests |-> "new"]
  /\ socket = [r \in Requests |-> "open"]
  /\ registry = NoReservation
  /\ aborted = {}
  /\ signal = [r \in Requests |-> "route"]
  /\ budget = [r \in Requests |-> "none"]
  /\ queue = <<>> /\ running = {}
  /\ turns = [r \in Requests |-> 0]
  /\ told = [r \in Requests |-> "nothing"]
  /\ session = [status |-> "idle", before |-> "none"]
  /\ deletes = 0 /\ crashes = 0

Go(r, from, to) == step[r] = from /\ step' = [step EXCEPT ![r] = to]
Deleted == session.status = "deleted"

(***************************************************************************)
(* The handler, up to the agent.                                           *)
(***************************************************************************)

\* 409 CONVERSATION_BUSY while another run is reserved.
Reserve(r) ==
  /\ Go(r, "new", IF registry = NoReservation THEN "reserved" ELSE "answered")
  /\ registry' = IF registry = NoReservation THEN Reservation(r, "route") ELSE registry
  /\ UNCHANGED <<socket, aborted, signal, runtime, told, session, deletes, crashes>>

\* The user's message is stored; between any two stages an abort answers.
Prepare(r) ==
  /\ Go(r, "reserved", IF <<r, "route">> \in aborted THEN "answered" ELSE "starting")
  /\ UNCHANGED <<socket, registry, aborted, signal, runtime, told, session, deletes, crashes>>

\* setSessionStatus("running"), outside the try: a deleted session answers 500.
StatusRunning(r) ==
  /\ Go(r, "starting", IF Deleted THEN "answered" ELSE "entering")
  /\ session' = IF Deleted THEN session ELSE [session EXCEPT !.status = "running"]
  /\ UNCHANGED <<socket, registry, aborted, signal, runtime, told, deletes, crashes>>

\* respond() joins the reservation of its run, makes one where there is none,
\* and throws at that of another run.
EnterRespond(r) ==
  /\ IF registry.run \notin {NoRun, r}
     THEN Go(r, "entering", "failing") /\ UNCHANGED <<registry, signal>>
     ELSE /\ Go(r, "entering", "thinking")
          /\ registry' = IF registry.run = r THEN registry ELSE Reservation(r, "respond")
          /\ signal' = [signal EXCEPT ![r] = IF registry.run = r THEN "route" ELSE "respond"]
  /\ UNCHANGED <<socket, aborted, runtime, told, session, deletes, crashes>>

Stopped(r) == <<r, signal[r]>> \in aborted

\* Reads of facts and knowledge, each followed by a look at the signal; then the
\* runtime's budget, which listens to it too, and the queue of the session lock.
StartRuntime(r) ==
  /\ IF Stopped(r)
     THEN Go(r, "thinking", "stopped") /\ UNCHANGED <<budget, queue>>
     ELSE /\ Go(r, "thinking", "waiting")
          /\ budget' = [budget EXCEPT ![r] = "open"]
          /\ queue' = Append(queue, r)
  /\ UNCHANGED <<socket, registry, aborted, signal, running, turns, told, session,
                 deletes, crashes>>

(***************************************************************************)
(* The runtime. An operation outlives its caller after the deadline: it    *)
(* keeps the lock until whatever it awaits returns.                        *)
(***************************************************************************)

Acquire(r) ==
  /\ queue # <<>> /\ Head(queue) = r /\ r \notin running
  /\ running' = running \cup {r}
  /\ UNCHANGED <<handler, registry, aborted, signal, budget, queue, turns, told, session,
                 deletes, crashes>>

\* claimTurn: the model is called, and the tools it asks for.
Turn(r) ==
  /\ r \in running /\ budget[r] = "open" /\ turns[r] < MaxTurns
  /\ turns' = [turns EXCEPT ![r] = @ + 1]
  /\ UNCHANGED <<handler, registry, aborted, signal, budget, queue, running, told, session,
                 deletes, crashes>>

\* The lock passes to the operation that waits behind.
Passed(q, r) == IF q # <<>> /\ Head(q) = r THEN Tail(q) ELSE q

Unlock(r) ==
  /\ r \in running
  /\ running' = running \ {r}
  /\ queue' = Passed(queue, r)
  /\ UNCHANGED <<socket, registry, aborted, signal, budget, turns, told, session,
                 deletes, crashes>>

\* The operation returns or throws in time, or notices that it was stopped.
Return(r) ==
  /\ Unlock(r)
  /\ \/ budget[r] = "open" /\ turns[r] > 0 /\ Go(r, "waiting", "replied")
     \/ budget[r] = "open" /\ Go(r, "waiting", "failing")
     \/ budget[r] = "stopped" /\ Go(r, "waiting", "stopped")

\* It returns to nobody.
ReturnLate(r) == Unlock(r) /\ budget[r] = "exceeded" /\ UNCHANGED step

\* Mutant: the operation gives up its place in the queue with its caller.
MutAfterDeadline(q, r) == Passed(q, r)

\* What the lock keeps when the deadline answers the caller.
AfterDeadline(q, r) == q

\* Mutant: the clock starts with the lock.
MutClockRuns(r) == budget[r] = "open" /\ r \in running

ClockRuns(r) == budget[r] = "open"

\* The wall clock runs while the operation waits for the lock and while it hangs.
Deadline(r) ==
  /\ ClockRuns(r)
  /\ Go(r, "waiting", "failing")
  /\ budget' = [budget EXCEPT ![r] = "exceeded"]
  /\ queue' = AfterDeadline(queue, r)
  /\ UNCHANGED <<socket, registry, aborted, signal, running, turns, told, session,
                 deletes, crashes>>

(***************************************************************************)
(* The handler, after the agent.                                           *)
(***************************************************************************)

Release(reg, r) == IF reg.run = r THEN NoReservation ELSE reg

\* A reservation that respond() made is given up when it returns.
Left(r) == IF signal[r] = "respond" THEN Release(registry, r) ELSE registry

MayCommit(r) == Left(r).run = r /\ <<r, Left(r).by>> \notin aborted
\* Mutant: the reservation does not remember that its run was committed.
MutCommitted(reg) == reg

Committed(reg) == [reg EXCEPT !.committed = TRUE]

\* commitConversationRun is where a later Stop comes too late.
Commit(r) ==
  /\ ~(<<r, "route">> \in aborted) /\ MayCommit(r)
  /\ Go(r, "replied", "committed")
  /\ registry' = Committed(Left(r))
  /\ UNCHANGED <<socket, aborted, signal, runtime, told, session, deletes, crashes>>

\* Stopped before it was committed: no answer is stored.
Withdraw(r) ==
  /\ \/ Go(r, "stopped", "closing")
     \/ Go(r, "replied", "closing") /\ ~(<<r, "route">> \notin aborted /\ MayCommit(r))
  /\ registry' = Left(r)
  /\ UNCHANGED <<socket, aborted, signal, runtime, told, session, deletes, crashes>>

\* The assistant message is appended, or the disk refuses.
Store(r) ==
  /\ Go(r, "committed", "stored") \/ Go(r, "committed", "failing")
  /\ UNCHANGED <<socket, registry, aborted, signal, runtime, told, session, deletes, crashes>>

SetStatus(s) == session' = [session EXCEPT !.status = s]

\* setSessionStatus("completed"); its failure is caught like one of the agent.
StatusCompleted(r) ==
  /\ \E from \in {"stored", "closing"} : Go(r, from, IF Deleted THEN "failing" ELSE "answered")
  /\ IF Deleted THEN UNCHANGED session ELSE SetStatus("completed")
  /\ UNCHANGED <<socket, registry, aborted, signal, runtime, told, deletes, crashes>>

\* The catch block: the status fails silently, 502 is answered.
StatusFailed(r) ==
  /\ Go(r, "failing", "answered")
  /\ IF Deleted THEN UNCHANGED session ELSE SetStatus("failed")
  /\ registry' = Left(r)
  /\ UNCHANGED <<socket, aborted, signal, runtime, told, deletes, crashes>>

\* The reply is flushed: "finish" releases the reservation.
Finish(r) ==
  /\ step[r] = "answered" /\ socket[r] = "open"
  /\ socket' = [socket EXCEPT ![r] = "finished"]
  /\ registry' = Release(registry, r)
  /\ UNCHANGED <<step, aborted, signal, runtime, told, session, deletes, crashes>>

(***************************************************************************)
(* Stop, a closed socket, deletion and restart.                            *)
(***************************************************************************)

\* The signal of the reservation reaches the budget that listens to it, and the
\* operation that is active is stopped directly.
Abort(r) ==
  /\ aborted' = aborted \cup {<<r, registry.by>>}
  /\ budget' = [x \in Requests |-> IF /\ budget[x] = "open"
                                      /\ x \in running \/ (x = r /\ signal[r] = registry.by)
                                   THEN "stopped" ELSE budget[x]]

StopAnswer(r) == IF registry.run # r THEN "not_found_or_run_mismatch"
                 ELSE IF registry.committed THEN "already_completed" ELSE "stopped"

\* The stop route; a run that is not reserved is answered and left alone.
Stop(r) ==
  /\ registry.run = r
  /\ told' = [told EXCEPT ![r] = StopAnswer(r)]
  /\ IF StopAnswer(r) = "stopped" THEN Abort(r) ELSE UNCHANGED <<aborted, budget>>
  /\ UNCHANGED <<handler, registry, signal, queue, running, turns, session, deletes, crashes>>

\* The client is gone: stopDisconnectedRun, then the reservation is released.
Close(r) ==
  /\ step[r] # "new" /\ socket[r] = "open"
  /\ socket' = [socket EXCEPT ![r] = "closed"]
  /\ IF StopAnswer(r) = "stopped" THEN Abort(r) ELSE UNCHANGED <<aborted, budget>>
  /\ registry' = Release(registry, r)
  /\ UNCHANGED <<step, signal, queue, running, turns, told, session, deletes, crashes>>

Delete ==
  /\ ~Deleted /\ deletes < MaxDeletes /\ deletes' = deletes + 1
  /\ session' = [status |-> "deleted", before |-> session.status]
  /\ UNCHANGED <<handler, registry, aborted, signal, runtime, told, crashes>>

Restore ==
  /\ Deleted
  /\ session' = [status |-> session.before, before |-> "none"]
  /\ UNCHANGED <<handler, registry, aborted, signal, runtime, told, deletes, crashes>>

\* Mutant: sessions are left as the last daemon wrote them.
MutAtBoot(s) == s

\* What createSessionAuthority makes of a status at boot.
AtBoot(s) == IF s.status = "running" THEN [s EXCEPT !.status = "failed"] ELSE s

Restart ==
  /\ crashes < MaxCrashes /\ crashes' = crashes + 1
  /\ step' = [r \in Requests |-> IF step[r] = "new" THEN "new" ELSE "answered"]
  /\ socket' = [r \in Requests |-> IF step[r] = "new" THEN "open" ELSE "closed"]
  /\ registry' = NoReservation
  /\ queue' = <<>> /\ running' = {} /\ aborted' = {}
  /\ signal' = [r \in Requests |-> "route"]
  /\ budget' = [r \in Requests |-> "none"]
  /\ turns' = [r \in Requests |-> 0]
  /\ told' = [r \in Requests |-> "nothing"]
  /\ session' = AtBoot(session)
  /\ UNCHANGED deletes

Handler(r) ==
  \/ Reserve(r) \/ Prepare(r) \/ StatusRunning(r) \/ EnterRespond(r) \/ StartRuntime(r)
  \/ Commit(r) \/ Withdraw(r) \/ Store(r) \/ StatusCompleted(r) \/ StatusFailed(r)

Next ==
  \/ \E r \in Requests : \/ Handler(r) \/ Finish(r)
                         \/ Acquire(r) \/ Turn(r) \/ Return(r) \/ ReturnLate(r) \/ Deadline(r)
                         \/ Stop(r) \/ Close(r)
  \/ Delete \/ Restore \/ Restart

\* The event loop runs every handler on, replies are flushed or their sockets
\* close, and the timer of the budget fires. What the operation itself awaits, a
\* provider or a tool, need not return.
Fairness ==
  \A r \in Requests : WF_vars(Handler(r)) /\ WF_vars(Deadline(r)) /\ WF_vars(Finish(r))

Spec == Init /\ [][Next]_vars /\ Fairness

-----------------------------------------------------------------------------
(***************************************************************************)
(* Properties.                                                             *)
(***************************************************************************)

\* The session file has one writer: an operation whose caller was already
\* answered is never joined by that of the next message.
OneOperation == \A r, x \in running : r = x

\* A session that shows a run has one, also after restarts, as long as nobody
\* deletes it in the middle of a run.
InRun(r) == step[r] \in {"entering", "thinking", "waiting", "replied", "stopped", "committed",
                         "stored", "closing", "failing"}
RunningHasRun == session.status = "running" /\ deletes = 0 => \E r \in Requests : InRun(r)

\* The file and the status of a session both belong to the one run it has.
RunAccountedFor == OneOperation /\ RunningHasRun

\* Once Stop said "stopped" the run takes no turn and stores no answer, and once
\* it said "already_completed" the answer is on its way; while the client stays.
StopHolds ==
  [][\A r \in Requests :
       /\ told[r] = "stopped" /\ socket[r] = "open" =>
            turns'[r] <= turns[r] /\ ~(step[r] = "committed" /\ step'[r] = "stored")
       /\ told'[r] = "already_completed" /\ told[r] # told'[r] =>
            step[r] \in {"committed", "stored", "failing", "answered"}]_vars

\* Every message is answered although the provider never returns, unless its run
\* is stopped: Stop clears the deadline.
EveryMessageAnswered ==
  \A r \in Requests : step[r] # "new" ~> step[r] = "answered" \/ budget[r] = "stopped"

\* "A renderer crash/navigation must not orphan a model/tool loop": no turn
\* starts once the socket closed.
DisconnectOwnsCancellation ==
  [][\A r \in Requests : socket[r] = "closed" => turns'[r] <= turns[r]]_vars

-----------------------------------------------------------------------------
(***************************************************************************)
(* The inductive invariants behind RunAccountedFor and StopHolds.          *)
(***************************************************************************)
Steps == {"new", "reserved", "starting", "entering", "thinking", "waiting", "replied",
          "stopped", "committed", "stored", "closing", "failing", "answered"}

Statuses == {"idle", "running", "completed", "failed", "deleted", "none"}

TypeOK ==
  /\ step \in [Requests -> Steps]
  /\ socket \in [Requests -> {"open", "closed", "finished"}]
  /\ registry \in [run : Requests \cup {NoRun}, by : {"route", "respond"}, committed : BOOLEAN]
  /\ aborted \subseteq Requests \X {"route", "respond"}
  /\ signal \in [Requests -> {"route", "respond"}]
  /\ budget \in [Requests -> {"none", "open", "stopped", "exceeded"}]
  /\ queue \in Seq(Requests) /\ running \subseteq Requests
  /\ turns \in [Requests -> Nat]
  /\ told \in [Requests -> {"nothing", "stopped", "already_completed"}]
  /\ session \in [status : Statuses, before : Statuses]
  /\ deletes \in Nat /\ crashes \in Nat

\* Whoever is past the lock stands at its head, answered or not.
HeadRuns == \A r \in running : queue # <<>> /\ Head(queue) = r

\* The reservation of a connected client is its own and the route's, from the
\* message to the reply; only a closed socket leaves room for that of respond().
ReservationHeld(r) ==
  /\ step[r] = "new" => socket[r] = "open" /\ registry.run # r /\ told[r] = "nothing"
  /\ socket[r] = "open" =>
       /\ signal[r] = "route"
       /\ step[r] \notin {"new", "answered"} => registry.run = r
       /\ registry.run = r => registry.by = "route"
       /\ step[r] = "committed" => registry.committed

\* A committed run has its answer; one that Stop ended has none, and its signal
\* and its budget will not let it go on.
StopDecided(r) ==
  /\ registry.run = r /\ registry.committed =>
       step[r] \in {"committed", "stored", "failing", "answered"}
  /\ told[r] = "stopped" /\ socket[r] = "open" =>
       <<r, "route">> \in aborted /\ budget[r] # "open" /\ step[r] # "committed"

RunInv ==
  /\ TypeOK /\ HeadRuns /\ RunningHasRun
  /\ Deleted => deletes > 0
  /\ \A r \in Requests : ReservationHeld(r) /\ StopDecided(r)
=============================================================================
