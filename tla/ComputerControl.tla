--------------------------- MODULE ComputerControl ---------------------------
(***************************************************************************)
(* One Computer Session of packages/computer-use: the control authority of *)
(* control-state.ts and the operations of ControlledComputerRuntime in     *)
(* runtime.ts.                                                             *)
(*                                                                         *)
(* The agent runs one operation at a time (busySessions): observe,         *)
(* propose, execute or verify.  Each is cut at its awaits.  The user's     *)
(* pause, takeover, resume, return and stop change everything in the turn  *)
(* they arrive in, between any two of those cuts.                          *)
(*                                                                         *)
(* control is the state machine, session the copy that getSession and      *)
(* onSessionChanged show and that most guards of the runtime read.         *)
(* Observations are numbered in the order the backend captures them.       *)
(* machine.fail() is never called by the runtime and is left out.          *)
(***************************************************************************)
EXTENDS Integers

CONSTANTS
    MaxObservations,   \* bound: captures
    MaxFaults          \* bound: failing saves, claims and change callbacks

ASSUME ControlAssumption == MaxObservations \in Nat /\ MaxFaults \in Nat

VARIABLES
    control,      \* ComputerControlStateMachine: state, freshObservationRequired
    session,      \* entry.session: the copy of both
    leased,       \* is the running operation's lease still current?
    current,      \* entry.currentObservationId; 0 when undefined
    proposal,     \* the proposal in entry.proposals
    op,           \* the await the running operation stands at
    acting,       \* the proposal that execute works on
    shot,         \* the observation that the operation holds
    caught,       \* the state that execute's catch block read
    record,       \* the stored action record of the latest proposal
    claimed,      \* is its mutation key in the replay store?
    posted,       \* native inputs posted for it
    observed,     \* captures so far
    interrupted,  \* captures when the user last took or moved control
    mishap,       \* since the last good capture or proposal: a failure or an expiry?
    faults        \* failures so far

machine == <<control, session, leased>>
grounds == <<current, proposal>>
locals == <<acting, shot, caught>>
ledger == <<record, claimed, posted>>
world == <<observed, interrupted, mishap, faults>>
vars == <<machine, grounds, op, locals, ledger, world>>

Handed == {"paused", "user_control", "recovering"}
State == {"agent_observing", "agent_proposing", "awaiting_approval",
          "agent_executing", "verifying", "stopped"} \cup Handed
Control == [state : State, fresh : BOOLEAN]
Proposal == [at : Nat, mutation : BOOLEAN]
NoProposal == [at |-> 0, mutation |-> FALSE]
Op == {"idle", "observing", "announcing", "grounding", "blocking", "preflight",
       "claiming", "starting", "saving", "posting", "checking", "filing",
       "closing", "fetching", "verifying", "concluding"}
Outcome == {"none", "started", "executed", "unknown", "blocked", "verified"}

TypeOK ==
    /\ control \in Control /\ session \in Control
    /\ leased \in BOOLEAN
    /\ current \in Nat /\ proposal \in Proposal
    /\ op \in Op
    /\ acting \in Proposal /\ shot \in Nat /\ caught \in State
    /\ record \in Outcome /\ claimed \in BOOLEAN /\ posted \in Nat
    /\ observed \in Nat /\ interrupted \in Nat
    /\ mishap \in BOOLEAN /\ faults \in Nat

-----------------------------------------------------------------------------
(* The control machine                                                     *)

(* ALLOWED_TRANSITIONS.                                                     *)
Allowed ==
    LET away == {"paused", "user_control", "stopped"}
    IN  ({"agent_observing"} \X ({"agent_proposing", "agent_executing"} \cup away))
        \cup ({"agent_proposing"} \X
                ({"agent_observing", "awaiting_approval", "agent_executing"} \cup away))
        \cup ({"awaiting_approval"} \X ({"agent_observing", "agent_executing"} \cup away))
        \cup ({"agent_executing"} \X ({"verifying", "agent_observing"} \cup away))
        \cup ({"verifying"} \X ({"agent_observing"} \cup away))
        \cup ({"paused"} \X {"recovering", "user_control", "stopped"})
        \cup ({"user_control"} \X {"recovering", "paused", "stopped"})
        \cup ({"recovering"} \X ({"agent_observing"} \cup away))

CanMove(next) == next = control.state \/ <<control.state, next>> \in Allowed

(* A real transition aborts every lease; a transition to itself does not.   *)
Moved(next) ==
    [state |-> next,
     fresh |-> control.fresh \/ (next # control.state /\ next \in Handed)]

Transition(next) ==
    /\ CanMove(next)
    /\ control' = Moved(next)
    /\ leased' = (leased /\ next = control.state)

(* consumeFreshObservation() and the transition that follows it.            *)
Accept(next) ==
    /\ control' = [state |-> next, fresh |-> FALSE]
    /\ leased' = (leased /\ next = control.state)

Sync == session' = control'

(* Move and show it, or throw because the move is not allowed any more.     *)
MoveIfAllowed(next) ==
    IF CanMove(next) THEN Transition(next) /\ Sync ELSE UNCHANGED machine

Init ==
    /\ control = [state |-> "agent_observing", fresh |-> TRUE]
    /\ session = control
    /\ leased = FALSE
    /\ current = 0
    /\ proposal = NoProposal
    /\ op = "idle"
    /\ acting = NoProposal /\ shot = 0 /\ caught = "stopped"
    /\ record = "none" /\ claimed = FALSE /\ posted = 0
    /\ observed = 0 /\ interrupted = 0
    /\ mishap = FALSE /\ faults = 0

(* The operation ends and releases its lease.                               *)
Ends == op' = "idle"

(* A save, a claim or the change callback throws.                           *)
Fails ==
    /\ faults < MaxFaults
    /\ faults' = faults + 1
    /\ mishap' = TRUE
    /\ UNCHANGED <<observed, interrupted>>

(* The backend captures the screen for the operation that asks.             *)
Capture(label) ==
    /\ observed < MaxObservations
    /\ observed' = observed + 1
    /\ shot' = observed + 1
    /\ op' = label
    /\ UNCHANGED <<interrupted, mishap, faults>>

-----------------------------------------------------------------------------
(* observe()                                                               *)

Observable ==
    IF session.state \in Handed THEN session.state ELSE "agent_observing"

Observe ==
    /\ op = "idle"
    /\ control.state = Observable
    /\ leased' = TRUE
    /\ Capture("observing")
    /\ UNCHANGED <<control, session, grounds, acting, caught, ledger>>

(* Mutant: the lease is not asserted once the backend has answered. *)
ObservedLate ==
    /\ op = "observing"
    /\ Ends
    /\ \/ /\ session.state \in {"recovering", "agent_observing"}
          /\ Accept("agent_observing")
          /\ Sync
          /\ current' = shot
          /\ mishap' = FALSE
       \/ leased' = FALSE /\ UNCHANGED <<control, session, current, mishap>>
    /\ UNCHANGED <<proposal, locals, ledger, observed, interrupted, faults>>

(* A capture under pause or user control is for monitoring only.            *)
Observed ==
    /\ op = "observing"
    /\ Ends
    /\ \/ /\ leased /\ session.state \in {"recovering", "agent_observing"}
          /\ Accept("agent_observing")
          /\ Sync
          /\ current' = shot
          /\ mishap' = FALSE
       \/ /\ leased /\ session.state \in {"paused", "user_control"}
          /\ leased' = FALSE
          /\ session' = control
          /\ UNCHANGED <<control, current, mishap>>
       \/ leased' = FALSE /\ UNCHANGED <<control, session, current, mishap>>
    /\ UNCHANGED <<proposal, locals, ledger, observed, interrupted, faults>>

-----------------------------------------------------------------------------
(* propose()                                                               *)

Propose ==
    /\ op = "idle"
    /\ ~session.fresh /\ current # 0
    /\ Transition("agent_proposing")
    /\ Sync
    /\ op' = "announcing"
    /\ shot' = current
    /\ UNCHANGED <<grounds, acting, caught, ledger, world>>

Announced ==
    /\ op = "announcing"
    /\ \/ Fails /\ Ends /\ UNCHANGED leased
       \/ /\ control.state = "agent_proposing"
          /\ op' = "grounding"
          /\ leased' = TRUE
          /\ UNCHANGED world
       \/ /\ control.state # "agent_proposing"
          /\ Ends
          /\ UNCHANGED <<leased, world>>
    /\ UNCHANGED <<control, session, grounds, locals, ledger>>

Grounded ==
    /\ op = "grounding"
    /\ Ends
    /\ \/ /\ leased
          /\ \E mutation \in BOOLEAN :
                /\ proposal' = [at |-> shot, mutation |-> mutation]
                /\ Transition(IF mutation THEN "awaiting_approval" ELSE "agent_observing")
          /\ Sync
          /\ record' = "none" /\ claimed' = FALSE /\ posted' = 0
          /\ mishap' = FALSE
       \/ /\ control.state = "agent_proposing"
          /\ Transition("agent_observing") /\ Sync
          /\ UNCHANGED <<proposal, ledger, mishap>>
       \/ /\ control.state # "agent_proposing" /\ ~leased
          /\ UNCHANGED <<machine, proposal, ledger, mishap>>
    /\ UNCHANGED <<current, locals, observed, interrupted, faults>>

-----------------------------------------------------------------------------
(* execute()                                                               *)

(* The proposal is dropped; the state is left as it is.                     *)
Expire ==
    /\ op = "idle" /\ proposal.at # 0
    /\ proposal' = NoProposal
    /\ mishap' = TRUE
    /\ UNCHANGED <<machine, current, op, locals, ledger, observed, interrupted, faults>>

Deny ==
    /\ op = "idle" /\ proposal.at # 0
    /\ op' = "blocking"
    /\ UNCHANGED <<machine, grounds, locals, ledger, world>>

(* Mutant: a blocked mutation stays awaiting approval. *)
BlockedAwaiting ==
    /\ op = "blocking"
    /\ Ends
    /\ record' = "blocked"
    /\ proposal' = NoProposal
    /\ UNCHANGED <<machine, current, locals, claimed, posted, world>>

(* blockedExecution() *)
Blocked ==
    /\ op = "blocking"
    /\ Ends
    /\ \/ Fails /\ record' \in {record, "blocked"} /\ UNCHANGED <<machine, proposal>>
       \/ /\ record' = "blocked"
          /\ proposal' = NoProposal
          /\ IF control.state = "awaiting_approval"
               THEN Transition("agent_observing") /\ Sync
               ELSE UNCHANGED machine
          /\ UNCHANGED world
    /\ UNCHANGED <<current, locals, claimed, posted>>

Execute ==
    LET expected == IF proposal.mutation THEN "awaiting_approval" ELSE "agent_observing"
    IN  /\ op = "idle" /\ proposal.at # 0
        /\ session.state = expected /\ control.state = expected
        /\ current = proposal.at
        /\ acting' = proposal
        /\ leased' = TRUE
        /\ Capture("preflight")
        /\ UNCHANGED <<control, session, grounds, caught, ledger>>

BeginAction ==
    /\ Transition("agent_executing")
    /\ Sync
    /\ op' = "starting"

(* The screen just before the input: any change invalidates the proposal.   *)
Preflighted ==
    /\ op = "preflight"
    /\ \/ /\ leased /\ acting.mutation
          /\ op' = "claiming"
          /\ leased' = FALSE
          /\ UNCHANGED <<control, session, grounds>>
       \/ leased /\ ~acting.mutation /\ BeginAction /\ UNCHANGED grounds
       \/ /\ leased
          /\ proposal' = NoProposal
          /\ current' = shot
          /\ Accept(IF session.state = "awaiting_approval" THEN "agent_observing"
                    ELSE control.state)
          /\ Sync
          /\ Ends
       \/ Ends /\ leased' = FALSE /\ UNCHANGED <<control, session, grounds>>
    /\ UNCHANGED <<locals, ledger, world>>

(* mutationReplay.claim(); a claim that throws may have been written.       *)
Claimed ==
    /\ op = "claiming"
    /\ \/ /\ ~claimed /\ claimed' = TRUE
          /\ CanMove("agent_executing") /\ BeginAction
          /\ UNCHANGED world
       \/ /\ ~claimed /\ claimed' = TRUE
          /\ ~CanMove("agent_executing") /\ Ends
          /\ UNCHANGED <<machine, world>>
       \/ claimed /\ op' = "blocking" /\ UNCHANGED <<machine, claimed, world>>
       \/ Fails /\ Ends /\ claimed' \in {claimed, TRUE} /\ UNCHANGED machine
    /\ UNCHANGED <<grounds, locals, record, posted>>

Started ==
    /\ op = "starting"
    /\ \/ Fails /\ Ends /\ UNCHANGED leased
       \/ /\ control.state = "agent_executing"
          /\ op' = "saving"
          /\ leased' = TRUE
          /\ UNCHANGED world
       \/ /\ control.state # "agent_executing"
          /\ Ends
          /\ UNCHANGED <<leased, world>>
    /\ UNCHANGED <<control, session, grounds, locals, ledger>>

(* The catch block reads the state, then awaits the save.                   *)
Catch == op' = "closing" /\ caught' = control.state /\ UNCHANGED <<acting, shot>>

(* Mutant: the lease is not asserted before the input is posted. *)
SavedUnchecked ==
    /\ op = "saving"
    /\ record' = "started"
    /\ posted' = posted + 1
    /\ op' = "posting"
    /\ UNCHANGED <<machine, grounds, locals, claimed, world>>

(* The record is stored, then the input is posted in the same turn.         *)
Saved ==
    /\ op = "saving"
    /\ \/ /\ Fails /\ Ends
          /\ record' \in {record, "started"}
          /\ leased' = FALSE
          /\ UNCHANGED <<locals, posted>>
       \/ /\ leased
          /\ record' = "started"
          /\ posted' = posted + 1
          /\ op' = "posting"
          /\ UNCHANGED <<leased, locals, world>>
       \/ /\ ~leased
          /\ record' = "started"
          /\ Catch
          /\ UNCHANGED <<leased, posted, world>>
    /\ UNCHANGED <<control, session, grounds, claimed>>

Posted ==
    /\ op = "posting"
    /\ \/ leased /\ Capture("checking") /\ UNCHANGED <<acting, caught>>
       \/ Catch /\ UNCHANGED world
    /\ UNCHANGED <<machine, grounds, ledger>>

Checked ==
    /\ op = "checking"
    /\ \/ /\ leased
          /\ Accept("verifying")
          /\ current' = shot
          /\ op' = "filing"
          /\ UNCHANGED locals
       \/ Catch /\ UNCHANGED <<control, leased, current>>
    /\ UNCHANGED <<session, proposal, ledger, world>>

Filed ==
    /\ op = "filing"
    /\ \/ /\ Fails /\ Catch
          /\ record' \in {record, "executed"}
          /\ UNCHANGED <<session, proposal>>
       \/ /\ record' = "executed"
          /\ proposal' = NoProposal
          /\ session' = control
          /\ Ends
          /\ UNCHANGED <<locals, world>>
    /\ UNCHANGED <<control, leased, current, claimed, posted>>

(* Mutant: an interrupted mutation is reported as blocked. *)
StatusOptimistic ==
    IF acting.mutation /\ caught = "agent_executing" THEN "unknown" ELSE "blocked"

Status == IF acting.mutation THEN "unknown" ELSE "blocked"

(* Mutant: a failed action keeps its proposal. *)
ClosedForRetry ==
    /\ op = "closing"
    /\ Ends
    /\ record' = Status
    /\ IF caught = "agent_executing" THEN MoveIfAllowed("agent_observing")
       ELSE UNCHANGED machine
    /\ UNCHANGED <<grounds, locals, claimed, posted, world>>

(* The catch block acts on the state it read before the save.               *)
Closed ==
    /\ op = "closing"
    /\ Ends
    /\ \/ Fails /\ record' \in {record, Status} /\ UNCHANGED <<machine, proposal>>
       \/ /\ record' = Status
          /\ proposal' = NoProposal
          /\ IF caught = "agent_executing" THEN MoveIfAllowed("agent_observing")
             ELSE UNCHANGED machine
          /\ UNCHANGED world
    /\ UNCHANGED <<current, locals, claimed, posted>>

-----------------------------------------------------------------------------
(* verify(), asked about the action just executed                          *)

Verify ==
    /\ op = "idle" /\ session.state = "verifying"
    /\ op' = "fetching"
    /\ UNCHANGED <<machine, grounds, locals, ledger, world>>

Fetched ==
    /\ op = "fetching"
    /\ \/ /\ record = "executed" /\ control.state = "verifying"
          /\ leased' = TRUE
          /\ op' = "verifying"
       \/ Ends /\ UNCHANGED leased
    /\ UNCHANGED <<control, session, grounds, locals, ledger, world>>

(* A verifier that fails under a current lease counts as an unknown result. *)
Verified ==
    /\ op = "verifying"
    /\ IF leased THEN op' = "concluding" ELSE Ends
    /\ UNCHANGED <<machine, grounds, locals, ledger, world>>

Concluded ==
    /\ op = "concluding"
    /\ Ends
    /\ \/ Fails /\ record' \in {record, "verified"} /\ UNCHANGED machine
       \/ record' = "verified" /\ MoveIfAllowed("agent_observing") /\ UNCHANGED world
    /\ UNCHANGED <<grounds, locals, claimed, posted>>

-----------------------------------------------------------------------------
(* The user's operations                                                   *)

UserMove(next) ==
    /\ Transition(next)
    /\ Sync
    /\ current' = 0
    /\ proposal' = NoProposal
    /\ interrupted' = observed
    /\ UNCHANGED <<op, locals, ledger, observed, mishap, faults>>

Pause == UserMove(IF control.state = "stopped" THEN "stopped" ELSE "paused")
Takeover == UserMove(IF control.state = "stopped" THEN "stopped" ELSE "user_control")
Resume == control.state = "paused" /\ UserMove("recovering")
ReturnControl == control.state = "user_control" /\ UserMove("recovering")
Stop == UserMove("stopped")

-----------------------------------------------------------------------------
Agent ==
    \/ Observe \/ Observed
    \/ Propose \/ Announced \/ Grounded
    \/ Expire \/ Deny \/ Blocked \/ Execute \/ Preflighted \/ Claimed
    \/ Started \/ Saved \/ Posted \/ Checked \/ Filed \/ Closed
    \/ Verify \/ Fetched \/ Verified \/ Concluded

User == Pause \/ Takeover \/ Resume \/ ReturnControl \/ Stop

Next == Agent \/ User

Spec == Init /\ [][Next]_vars

-----------------------------------------------------------------------------
(* Properties                                                              *)

(* Native input is posted only while the agent holds control, for a         *)
(* proposal grounded in a capture made after the user last took, moved or   *)
(* returned control ("Pre-takeover coordinates cannot execute").           *)
InputUnderControl ==
    [][posted' > posted =>
          control.state = "agent_executing" /\ acting.at > interrupted]_vars

(* What the agent may ground or execute on was captured after the user's    *)
(* last word, even when that word fell between a capture and its answer.    *)
FreshGrounding ==
    /\ current # 0 => current > interrupted
    /\ proposal.at # 0 => proposal.at > interrupted

(* The copy the guards read and the user is shown never gives the agent a   *)
(* control it does not have; it only lags while an execution is filed.      *)
CopyAgrees ==
    session.state # control.state =>
        session.state = "agent_executing" /\ control.state = "verifying"

(* A proposal is posted at most once, and a mutation only after its key was *)
(* reserved, whatever fails and is asked for again.                        *)
InputOnce ==
    /\ posted <= 1
    /\ posted = 1 /\ acting.mutation => claimed

(* A mutation whose input was posted is not recorded as blocked as long as  *)
(* every save of its record worked: the record says started, executed,      *)
(* verified or unknown.                                                    *)
HonestRecord ==
    [][record' = "blocked" /\ record # "blocked" /\ ~mishap /\ acting.mutation =>
          posted = 0]_vars

(* An agent that is left in control between two operations has one that the *)
(* runtime accepts, unless a save failed or the proposal expired.          *)
AgentCanMove ==
    op = "idle" /\ ~mishap /\ control.state \notin {"stopped", "paused", "user_control"} =>
        \/ control.state = Observable
        \/ /\ control.state = "awaiting_approval" /\ session = control
           /\ proposal.mutation /\ proposal.at = current /\ current # 0
        \/ control.state = "verifying" /\ session = control /\ record = "executed"

-----------------------------------------------------------------------------
(* The inductive invariant behind InputUnderControl, FreshGrounding and      *)
(* CopyAgrees                                                              *)

(* What a current lease, or an unmoved state, tells an operation that       *)
(* resumes after an await: nobody spoke since it looked.                    *)
Grounding(at) == at > interrupted

LeaseMeans ==
    /\ leased /\ op = "observing" =>
         /\ control.state = session.state
         /\ session.state \in {"recovering", "agent_observing"} => Grounding(shot)
    /\ op = "announcing" /\ control.state = "agent_proposing" => Grounding(shot)
    /\ leased /\ op = "grounding" =>
         control.state = "agent_proposing" /\ Grounding(shot)
    /\ leased /\ op = "preflight" =>
         /\ control.state \in {"awaiting_approval", "agent_observing"}
         /\ Grounding(shot) /\ Grounding(acting.at)
    /\ op = "claiming" /\ CanMove("agent_executing") => Grounding(acting.at)
    /\ op = "starting" /\ control.state = "agent_executing" =>
         session = control /\ Grounding(acting.at)
    /\ leased /\ op \in {"saving", "posting", "checking"} =>
         /\ control.state = "agent_executing" /\ session = control
         /\ Grounding(acting.at)
         /\ op = "checking" => Grounding(shot)

ControlInv ==
    /\ TypeOK
    /\ interrupted <= observed
    /\ FreshGrounding
    /\ CopyAgrees
    /\ LeaseMeans

-----------------------------------------------------------------------------
(* The inductive invariants behind InputOnce, HonestRecord and AgentCanMove  *)

(* The operations in which an input of the proposal may be out.              *)
Acting == {"posting", "checking", "filing", "closing"}

(* A proposal whose input was posted cannot be executed again: it is gone,   *)
(* or an operation holds it, or a failed save left the control where no      *)
(* operation starts.                                                         *)
PostingMeans ==
    /\ posted # 0 /\ proposal.at # 0 =>
         /\ control.state \in {"agent_executing", "verifying"}
         /\ op \in Acting \/ mishap
    /\ op \in {"preflight", "claiming", "starting", "saving"} => posted = 0
    /\ op \in {"starting", "saving"} /\ acting.mutation => claimed
    /\ op = "blocking" /\ posted # 0 => mishap
    /\ op \in {"fetching", "verifying", "concluding"} => proposal.at = 0
    /\ session.state = "verifying" => proposal.at = 0

InputInv == ControlInv /\ InputOnce /\ PostingMeans

(* Where the agent may stand between two of its operations, and the          *)
(* operations that may hold the control elsewhere.                           *)
ControlSettles ==
    /\ session # control =>
         session.state = "agent_executing" /\ control.state = "verifying"
    /\ op = "announcing" /\ control.state = "agent_proposing" =>
         shot = current /\ current # 0
    /\ leased /\ op = "grounding" => shot = current /\ current # 0
    /\ op \in {"starting", "saving"} \cup Acting => control.state # "awaiting_approval"
    /\ op = "closing" /\ control.state = "agent_executing" => caught = "agent_executing"
    /\ ~mishap =>
         /\ control.state = "agent_proposing" => op \in {"announcing", "grounding"}
         /\ control.state = "agent_executing" =>
              op \in {"starting", "saving", "posting", "checking", "closing"}
         /\ control.state = "awaiting_approval" =>
              proposal.mutation /\ proposal.at = current /\ current # 0
         /\ control.state = "verifying" =>
              \/ op = "filing"
              \/ /\ op \in {"idle", "fetching", "verifying", "concluding"}
                 /\ session = control /\ record = "executed" /\ proposal.at = 0

AgentInv == InputInv /\ ControlSettles
=============================================================================
