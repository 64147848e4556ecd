--------------------------- MODULE PluginMutations ---------------------------
(***************************************************************************)
(* Mutable tool calls of one plug-in: the supervisor that runs the host    *)
(* process of an invocation, the capability broker it calls, and the       *)
(* durable ledger (a gate file and one record per idempotency key) that    *)
(* must remember every mutation across time-outs, crashes and retries.     *)
(* The ledger's operations run one at a time per plug-in (runExclusive),   *)
(* so each is one action; a crash may tear one after any of its writes.    *)
(***************************************************************************)
EXTENDS Naturals, FiniteSets

CONSTANTS
  Invocations,  \* executeTool calls
  NoInv,        \* the absence of one
  BaseKeys,     \* idempotency keys a caller may give
  KeyOf,        \* the key of each invocation; a retry repeats it
  MaxCalls,     \* capability calls of one invocation
  MaxCrashes    \* crashes of the daemon

MutationAssumption ==
  /\ KeyOf \in [Invocations -> BaseKeys]
  /\ NoInv \notin Invocations
  /\ MaxCalls \in Nat /\ MaxCrashes \in Nat

VARIABLES
  gate,       \* active.json: the invocation that blocks the plug-in, and its state
  record,     \* records/*.json by idempotency key
  decision,   \* decisions/*.json: what an operator decided for an invocation
  call,       \* progress of each invocation
  cap,        \* its capability calls, by ordinal
  dispatched, \* mutationDispatched of the invocation
  outcome,    \* the state finish() chose
  effects,    \* handler runs per idempotency key (history)
  crashes

ledger == <<gate, record, decision>>
vars == <<gate, record, decision, call, cap, dispatched, outcome, effects, crashes>>

Ordinals == 1..MaxCalls
Key(i, n) == <<KeyOf[i], n>>
IdempotencyKeys == BaseKeys \X Ordinals

NoGate == [inv |-> NoInv, state |-> "none"]
NoRecord == [inv |-> NoInv, state |-> "none"]
Unresolved == {"dispatched", "outcome_unknown"}

Init ==
  /\ gate = NoGate
  /\ record = [k \in IdempotencyKeys |-> NoRecord]
  /\ decision = [i \in Invocations |-> "none"]
  /\ call = [i \in Invocations |-> "idle"]
  /\ cap = [i \in Invocations |-> [n \in Ordinals |-> "unused"]]
  /\ dispatched = [i \in Invocations |-> FALSE]
  /\ outcome = [i \in Invocations |-> "none"]
  /\ effects = [k \in IdempotencyKeys |-> 0]
  /\ crashes = 0

Busy(i) == \E n \in Ordinals : cap[i][n] \in {"queued", "handler"}
Calls(i) == Cardinality({n \in Ordinals : cap[i][n] # "unused"})
SetCap(i, n, s) == cap' = [cap EXCEPT ![i][n] = s]

\* The records of invocation i, all moved to state s.
Settled(i, s) ==
  [k \in IdempotencyKeys |-> IF record[k].inv = i THEN [record[k] EXCEPT !.state = s]
                                                  ELSE record[k]]

(***************************************************************************)
(* The invocation.                                                         *)
(***************************************************************************)

\* executeTool: an unresolved mutation refuses a mutable tool at once.
CheckGate(i) ==
  /\ call[i] = "idle"
  /\ call' = [call EXCEPT ![i] = IF gate = NoGate THEN "checked" ELSE "refused"]
  /\ UNCHANGED <<ledger, cap, dispatched, outcome, effects, crashes>>

\* The approval gate accepted the call; the host process starts.
Start(i) ==
  /\ call[i] = "checked"
  /\ call' = [call EXCEPT ![i] = "running"]
  /\ UNCHANGED <<ledger, cap, dispatched, outcome, effects, crashes>>

\* The host asks for a mutation. Its abort signal is looked at here, before
\* onDispatch waits for the ledger, and not again.
Request(i) ==
  /\ call[i] = "running"
  /\ Calls(i) < MaxCalls
  /\ SetCap(i, Calls(i) + 1, "queued")
  /\ UNCHANGED <<ledger, call, dispatched, outcome, effects, crashes>>

\* beginMutation refuses the key of an earlier dispatch and the gate of
\* another invocation; the capability call fails.
Refuses(i, n) == record[Key(i, n)] # NoRecord \/ gate.inv \notin {NoInv, i}

OpenGate(i) == IF gate = NoGate THEN [inv |-> i, state |-> "dispatched"] ELSE gate

Begin(i, n) ==
  /\ cap[i][n] = "queued"
  /\ IF Refuses(i, n)
     THEN /\ SetCap(i, n, "failed")
          /\ UNCHANGED <<gate, record, dispatched, effects>>
     ELSE /\ gate' = OpenGate(i)
          /\ record' = [record EXCEPT ![Key(i, n)] = [inv |-> i, state |-> "dispatched"]]
          /\ dispatched' = [dispatched EXCEPT ![i] = TRUE]
          /\ effects' = [effects EXCEPT ![Key(i, n)] = @ + 1]
          /\ SetCap(i, n, "handler")
  /\ UNCHANGED <<decision, call, outcome, crashes>>

HandlerReturns(i, n) ==
  /\ cap[i][n] = "handler"
  /\ \E s \in {"succeeded", "failed"} : SetCap(i, n, s)
  /\ UNCHANGED <<ledger, call, dispatched, outcome, effects, crashes>>

(***************************************************************************)
(* finish(): the outcome is chosen once, then the ledger is told.          *)
(***************************************************************************)

Finish(i, o) ==
  /\ call[i] = "running"
  /\ call' = [call EXCEPT ![i] = "finishing"]
  /\ outcome' = [outcome EXCEPT ![i] = o]
  /\ UNCHANGED <<ledger, cap, dispatched, effects, crashes>>

Fail(i, fallback) == Finish(i, IF dispatched[i] THEN "outcome_unknown" ELSE fallback)

\* The host drained its capability calls and sent its result.
HostResult(i) ==
  /\ ~Busy(i)
  /\ IF \E n \in Ordinals : cap[i][n] = "failed"
     THEN Fail(i, "crashed")
     ELSE Finish(i, "completed")

\* The tool threw, or the host process exited without an answer.
HostError(i) == Fail(i, "crashed")

\* The timer, whatever the handlers do; its error is marked retryable.
Timeout(i) == Fail(i, "timed_out")

\* Mutant: the gate is renamed away whoever holds it.
MutTellLedgerAnyGate(i) ==
  IF outcome[i] = "completed"
  THEN gate' = NoGate /\ record' = Settled(i, "completed")
  ELSE IF gate.inv # i THEN UNCHANGED <<gate, record>>
       ELSE gate' = [inv |-> i, state |-> "outcome_unknown"]
            /\ record' = Settled(i, "outcome_unknown")

\* The ledger step of finish(). It queues behind the dispatches of its own
\* invocation; without a dispatched mutation there is none.
TellLedger(i) ==
  IF outcome[i] = "completed"
  THEN IF gate.inv # i THEN UNCHANGED <<gate, record>>
       ELSE gate' = NoGate /\ record' = Settled(i, "completed")
  ELSE IF gate.inv # i THEN UNCHANGED <<gate, record>>  \* RECONCILIATION_LEDGER_MISSING
       ELSE gate' = [inv |-> i, state |-> "outcome_unknown"]
            /\ record' = Settled(i, "outcome_unknown")

TellsLedger(i) == outcome[i] \in {"completed", "outcome_unknown"} /\ dispatched[i]

Conclude(i) ==
  /\ call[i] = "finishing"
  /\ IF TellsLedger(i)
     THEN /\ \A n \in Ordinals : cap[i][n] # "queued"
          /\ TellLedger(i)
     ELSE UNCHANGED <<gate, record>>
  /\ call' = [call EXCEPT ![i] = "answered"]
  /\ UNCHANGED <<decision, cap, dispatched, outcome, effects, crashes>>

(***************************************************************************)
(* The operator, and the crash of the daemon.                              *)
(***************************************************************************)

\* A recorded decision stands: a later one must repeat it.
MayDecide(i, d) == gate.inv = i /\ decision[i] \in {"none", d}

Reconcile(i, d) ==
  /\ MayDecide(i, d)
  /\ decision' = [decision EXCEPT ![i] = d]
  /\ record' = Settled(i, "reconciled")
  /\ gate' = NoGate
  /\ UNCHANGED <<call, cap, dispatched, outcome, effects, crashes>>

\* What a crash leaves on disk in the middle of a ledger operation: the writes
\* up to some point, records being rewritten one file at a time.
SomeSettled(i, s) ==
  \E done \in SUBSET {k \in IdempotencyKeys : record[k].inv = i} :
    record' = [k \in IdempotencyKeys |-> IF k \in done THEN [record[k] EXCEPT !.state = s]
                                                       ELSE record[k]]

TornBegin(i, n) ==
  /\ cap[i][n] = "queued" /\ ~Refuses(i, n)
  /\ gate' = OpenGate(i) /\ UNCHANGED <<record, decision>>

TornConclude(i) ==
  /\ call[i] = "finishing" /\ TellsLedger(i) /\ gate.inv = i
  /\ gate' = IF outcome[i] = "completed" THEN gate
                                         ELSE [inv |-> i, state |-> "outcome_unknown"]
  /\ SomeSettled(i, outcome[i])
  /\ UNCHANGED decision

TornReconcile(i, d) ==
  /\ MayDecide(i, d)
  /\ decision' = [decision EXCEPT ![i] = d]
  /\ SomeSettled(i, "reconciled")
  /\ UNCHANGED gate

\* Every invocation of the process is lost; the ledger is what is left.
Crash ==
  /\ crashes < MaxCrashes
  /\ crashes' = crashes + 1
  /\ call' = [i \in Invocations |-> IF call[i] \in {"idle", "refused", "answered"}
                                    THEN call[i] ELSE "lost"]
  /\ cap' = [i \in Invocations |-> [n \in Ordinals |->
               IF cap[i][n] \in {"queued", "handler"} THEN "failed" ELSE cap[i][n]]]
  /\ \/ UNCHANGED ledger
     \/ \E i \in Invocations : \/ \E n \in Ordinals : TornBegin(i, n)
                               \/ TornConclude(i)
                               \/ \E d \in {"applied", "not_applied"} : TornReconcile(i, d)
  /\ UNCHANGED <<dispatched, outcome, effects>>

Next ==
  \/ \E i \in Invocations :
       \/ CheckGate(i) \/ Start(i) \/ Request(i)
       \/ HostResult(i) \/ HostError(i) \/ Timeout(i) \/ Conclude(i)
       \/ \E n \in Ordinals : Begin(i, n) \/ HandlerReturns(i, n)
       \/ \E d \in {"applied", "not_applied"} : Reconcile(i, d)
  \/ Crash

\* The timer fires, the ledger's queue moves and finish() runs to its end;
\* neither a handler nor the host process has to answer.
Fairness ==
  \A i \in Invocations :
    WF_vars(Timeout(i)) /\ WF_vars(Conclude(i)) /\ \A n \in Ordinals : WF_vars(Begin(i, n))

Spec == Init /\ [][Next]_vars /\ Fairness

-----------------------------------------------------------------------------
(***************************************************************************)
(* Properties.                                                             *)
(***************************************************************************)

\* However often a caller retries with the same key, and whatever crashed in
\* between, the handler of one capability call runs at most once.
DispatchedOnce == \A k \in IdempotencyKeys : effects[k] <= 1

\* A mutation whose handler was called is never forgotten: its record is
\* settled as completed or reconciled, or its own invocation holds the gate that
\* refuses every other mutation of the plug-in.
NothingForgotten ==
  \A k \in IdempotencyKeys :
    effects[k] > 0 => \/ record[k].state \in {"completed", "reconciled"}
                      \/ record[k].state \in Unresolved /\ gate.inv = record[k].inv

\* Both: a mutation is made once at most, and the ledger knows of it.
LedgerKeepsMutations == DispatchedOnce /\ NothingForgotten

\* The caller of a tool is answered although the handler hangs, the host dies
\* or the ledger refuses, unless the daemon itself crashes.
EveryToolAnswered ==
  \A i \in Invocations : call[i] = "running" ~> call[i] \in {"answered", "lost"}

\* What the retryable flag of a time-out says: nothing of the call took effect.
RetryableMeansNoEffect ==
  \A i \in Invocations :
    call[i] = "answered" /\ outcome[i] = "timed_out" =>
      \A k \in IdempotencyKeys : record[k].inv # i

\* The inductive invariant: what has no record had no effect, and a record that no
\* ledger step settled belongs to the invocation at the gate.
MutationsInv ==
  /\ gate \in [inv : Invocations \cup {NoInv}, state : {"none", "dispatched", "outcome_unknown"}]
  /\ gate.inv = NoInv <=> gate = NoGate
  /\ record \in [IdempotencyKeys ->
       [inv : Invocations \cup {NoInv},
        state : {"none", "dispatched", "outcome_unknown", "completed", "reconciled"}]]
  /\ effects \in [IdempotencyKeys -> 0..1]
  /\ \A k \in IdempotencyKeys : effects[k] = 1 => record[k].inv # NoInv
  /\ LedgerKeepsMutations
=============================================================================
