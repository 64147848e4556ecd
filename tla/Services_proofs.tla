--------------------------- MODULE Services_proofs ---------------------------
(***************************************************************************)
(* The invariants of the services around the conversation hold in every    *)
(* reachable state of each: computer control first, then the parts that    *)
(* Services instantiates, and at the end the properties it names.          *)
(***************************************************************************)
EXTENDS Services, Sequences, FiniteSetTheorems, TLAPS


(* The runtime enters agent_executing only from a state of the agent.         *)
LEMMA ExecutingFrom ==
    ASSUME CanMove("agent_executing")
    PROVE  control.state \in {"agent_observing", "agent_proposing", "awaiting_approval",
                              "agent_executing"}
  BY DEF CanMove, Allowed

LEMMA ExecutingFromNext ==
    ASSUME CanMove("agent_executing")'
    PROVE  control'.state \in {"agent_observing", "agent_proposing", "awaiting_approval",
                               "agent_executing"}
  BY DEF CanMove, Allowed

(* What a transition leaves behind.                                           *)
LEMMA Moving ==
    ASSUME TypeOK, NEW next \in State, Transition(next)
    PROVE  /\ control' \in Control /\ control'.state = next
           /\ leased' = (leased /\ next = control.state) /\ leased' \in BOOLEAN
<1>1. Moved(next) \in Control /\ Moved(next).state = next
  BY DEF TypeOK, Moved, Control
<1> QED
  BY <1>1 DEF Transition, TypeOK

LEMMA Accepting ==
    ASSUME TypeOK, NEW next \in State, Accept(next)
    PROVE  /\ control' \in Control /\ control'.state = next
           /\ leased' = (leased /\ next = control.state) /\ leased' \in BOOLEAN
  BY DEF Accept, TypeOK, Control

LEMMA States ==
    /\ Handed \subseteq State
    /\ {"agent_observing", "agent_proposing", "awaiting_approval", "agent_executing",
        "verifying", "stopped"} \subseteq State
  BY DEF State, Handed

LEMMA NoProposalType == NoProposal \in Proposal /\ NoProposal.at = 0
  BY DEF NoProposal, Proposal

LEMMA InitControl == Init => ControlInv
<1> SUFFICES ASSUME Init PROVE ControlInv
  OBVIOUS
<1>1. control \in Control /\ control.state = "agent_observing"
  BY DEF Init, Control, State
<1>2. TypeOK
  BY <1>1, NoProposalType, States DEF Init, TypeOK, Op, Outcome
<1>3. FreshGrounding /\ CopyAgrees /\ LeaseMeans /\ interrupted <= observed
  BY <1>1, NoProposalType DEF Init, FreshGrounding, CopyAgrees, LeaseMeans
<1> QED
  BY <1>2, <1>3 DEF ControlInv

LEMMA ObserveKeeps == ControlInv /\ Observe => ControlInv'
  BY DEF Observe, Capture, Observable, ControlInv, TypeOK, FreshGrounding, CopyAgrees, LeaseMeans, Grounding, CanMove, Control, Proposal, State, Handed, Op, Outcome, Allowed, machine, grounds, locals, ledger, world

LEMMA ExpireKeeps == ControlInv /\ Expire => ControlInv'
  BY DEF Expire, NoProposal, ControlInv, TypeOK, FreshGrounding, CopyAgrees, LeaseMeans, Grounding, CanMove, Control, Proposal, State, Handed, Op, Outcome, Allowed, machine, grounds, locals, ledger, world

LEMMA DenyKeeps == ControlInv /\ Deny => ControlInv'
  BY DEF Deny, ControlInv, TypeOK, FreshGrounding, CopyAgrees, LeaseMeans, Grounding, CanMove, Control, Proposal, State, Handed, Op, Outcome, Allowed, machine, grounds, locals, ledger, world

LEMMA ExecuteKeeps == ControlInv /\ Execute => ControlInv'
  BY DEF Execute, Capture, ControlInv, TypeOK, FreshGrounding, CopyAgrees, LeaseMeans, Grounding, CanMove, Control, Proposal, State, Handed, Op, Outcome, Allowed, machine, grounds, locals, ledger, world

LEMMA PostedKeeps == ControlInv /\ Posted => ControlInv'
  BY DEF Posted, Capture, Catch, ControlInv, TypeOK, FreshGrounding, CopyAgrees, LeaseMeans, Grounding, CanMove, Control, Proposal, State, Handed, Op, Outcome, Allowed, machine, grounds, locals, ledger, world

LEMMA VerifyKeeps == ControlInv /\ Verify => ControlInv'
  BY DEF Verify, ControlInv, TypeOK, FreshGrounding, CopyAgrees, LeaseMeans, Grounding, CanMove, Control, Proposal, State, Handed, Op, Outcome, Allowed, machine, grounds, locals, ledger, world

LEMMA VerifiedKeeps == ControlInv /\ Verified => ControlInv'
  BY DEF Verified, Ends, ControlInv, TypeOK, FreshGrounding, CopyAgrees, LeaseMeans, Grounding, CanMove, Control, Proposal, State, Handed, Op, Outcome, Allowed, machine, grounds, locals, ledger, world

LEMMA ProposeKeeps == ControlInv /\ Propose => ControlInv'
  BY DEF Propose, Transition, Moved, Sync, ControlInv, TypeOK, FreshGrounding, CopyAgrees, LeaseMeans, Grounding, CanMove, Control, Proposal, State, Handed, Op, Outcome, Allowed, machine, grounds, locals, ledger, world

LEMMA ObservedKeeps == ControlInv /\ Observed => ControlInv'
<1> SUFFICES ASSUME ControlInv, Observed PROVE ControlInv'
  OBVIOUS
<1> USE DEF ControlInv, Grounding, machine, grounds, locals, ledger, world
<1>1. CASE leased /\ session.state \in {"recovering", "agent_observing"} /\ Accept("agent_observing") /\ Sync /\ current' = shot /\ mishap' = FALSE
  <2>1. TypeOK'
    BY <1>1, States, Accepting DEF Observed, Ends, Sync, TypeOK, Op, Outcome
  <2>2. interrupted' <= observed' /\ FreshGrounding' /\ CopyAgrees'
    BY <1>1, States, Accepting DEF Observed, Ends, Sync, TypeOK, FreshGrounding, CopyAgrees, LeaseMeans
  <2>3. LeaseMeans'
    BY <1>1, States, Accepting DEF Observed, Ends, Sync, TypeOK, LeaseMeans, FreshGrounding
  <2> QED
    BY <2>1, <2>2, <2>3
<1>2. CASE leased /\ leased' = FALSE /\ session' = control /\ UNCHANGED <<control, current, mishap>>
  <2>1. TypeOK'
    BY <1>2 DEF Observed, Ends, TypeOK, Op, Outcome
  <2>2. interrupted' <= observed' /\ FreshGrounding' /\ CopyAgrees'
    BY <1>2 DEF Observed, Ends, TypeOK, FreshGrounding, CopyAgrees, LeaseMeans
  <2>3. LeaseMeans'
    BY <1>2 DEF Observed, Ends, TypeOK, LeaseMeans, FreshGrounding
  <2> QED
    BY <2>1, <2>2, <2>3
<1>3. CASE leased' = FALSE /\ UNCHANGED <<control, session, current, mishap>>
  <2>1. TypeOK'
    BY <1>3 DEF Observed, Ends, TypeOK, Op, Outcome
  <2>2. interrupted' <= observed' /\ FreshGrounding' /\ CopyAgrees'
    BY <1>3 DEF Observed, Ends, TypeOK, FreshGrounding, CopyAgrees, LeaseMeans
  <2>3. LeaseMeans'
    BY <1>3 DEF Observed, Ends, TypeOK, LeaseMeans, FreshGrounding
  <2> QED
    BY <2>1, <2>2, <2>3
<1> QED
  BY <1>1, <1>2, <1>3 DEF Observed

LEMMA AnnouncedKeeps == ControlInv /\ Announced => ControlInv'
<1> SUFFICES ASSUME ControlInv, Announced PROVE ControlInv'
  OBVIOUS
<1> USE DEF ControlInv, Grounding, machine, grounds, locals, ledger, world
<1>1. CASE Fails /\ Ends /\ UNCHANGED leased
  <2>1. TypeOK'
    BY <1>1 DEF Announced, Fails, Ends, TypeOK, Op, Outcome
  <2>2. interrupted' <= observed' /\ FreshGrounding' /\ CopyAgrees'
    BY <1>1 DEF Announced, Fails, Ends, TypeOK, FreshGrounding, CopyAgrees, LeaseMeans
  <2>3. LeaseMeans'
    BY <1>1 DEF Announced, Fails, Ends, TypeOK, LeaseMeans, FreshGrounding
  <2> QED
    BY <2>1, <2>2, <2>3
<1>2. CASE control.state = "agent_proposing" /\ op' = "grounding" /\ leased' = TRUE /\ UNCHANGED world
  <2>1. TypeOK'
    BY <1>2 DEF Announced, TypeOK, Op, Outcome
  <2>2. interrupted' <= observed' /\ FreshGrounding' /\ CopyAgrees'
    BY <1>2 DEF Announced, TypeOK, FreshGrounding, CopyAgrees, LeaseMeans
  <2>3. LeaseMeans'
    BY <1>2 DEF Announced, TypeOK, LeaseMeans, FreshGrounding
  <2> QED
    BY <2>1, <2>2, <2>3
<1>3. CASE Ends /\ UNCHANGED <<leased, world>>
  <2>1. TypeOK'
    BY <1>3 DEF Announced, Ends, TypeOK, Op, Outcome
  <2>2. interrupted' <= observed' /\ FreshGrounding' /\ CopyAgrees'
    BY <1>3 DEF Announced, Ends, TypeOK, FreshGrounding, CopyAgrees, LeaseMeans
  <2>3. LeaseMeans'
    BY <1>3 DEF Announced, Ends, TypeOK, LeaseMeans, FreshGrounding
  <2> QED
    BY <2>1, <2>2, <2>3
<1> QED
  BY <1>1, <1>2, <1>3 DEF Announced

LEMMA GroundedKeeps == ControlInv /\ Grounded => ControlInv'
<1> SUFFICES ASSUME ControlInv, Grounded PROVE ControlInv'
  OBVIOUS
<1> USE DEF ControlInv, Grounding, machine, grounds, locals, ledger, world
<1>1. CASE UNCHANGED machine /\ UNCHANGED proposal /\ UNCHANGED ledger
  BY <1>1 DEF Grounded, Ends, TypeOK, FreshGrounding, CopyAgrees, LeaseMeans, Op
<1>2. CASE /\ control.state = "agent_proposing"
           /\ Transition("agent_observing") /\ Sync
           /\ UNCHANGED <<proposal, ledger, mishap>>
  BY <1>2, States, Moving DEF Grounded, Ends, Sync, TypeOK, FreshGrounding, CopyAgrees, LeaseMeans, Op
<1>3. ASSUME leased, NEW mutation \in BOOLEAN, Sync,
             proposal' = [at |-> shot, mutation |-> mutation],
             Transition(IF mutation THEN "awaiting_approval" ELSE "agent_observing"),
             record' = "none" /\ claimed' = FALSE /\ posted' = 0 /\ mishap' = FALSE
      PROVE  ControlInv'
  <2> DEFINE next == IF mutation THEN "awaiting_approval" ELSE "agent_observing"
  <2>1. next \in State
    BY States
  <2> HIDE DEF next
  <2>2. control' \in Control /\ session' = control' /\ leased' \in BOOLEAN
    BY <1>3, <2>1, Moving DEF Sync, next
  <2>3. proposal' \in Proposal /\ proposal'.at = shot
    BY <1>3 DEF Proposal, TypeOK
  <2> QED
    BY <1>3, <2>2, <2>3 DEF Grounded, Ends, TypeOK, FreshGrounding, CopyAgrees, LeaseMeans, Op, Outcome
<1> QED
  BY <1>1, <1>2, <1>3 DEF Grounded

LEMMA BlockedKeeps == ControlInv /\ Blocked => ControlInv'
<1> SUFFICES ASSUME ControlInv, Blocked PROVE ControlInv'
  OBVIOUS
<1> USE DEF ControlInv, Grounding, machine, grounds, locals, ledger, world
<1>1. CASE Fails /\ record' \in {record, "blocked"} /\ UNCHANGED <<machine, proposal>>
  <2>1. TypeOK'
    BY <1>1 DEF Blocked, Fails, Ends, TypeOK, Op, Outcome
  <2>2. interrupted' <= observed' /\ FreshGrounding' /\ CopyAgrees'
    BY <1>1 DEF Blocked, Fails, Ends, TypeOK, FreshGrounding, CopyAgrees, LeaseMeans
  <2>3. LeaseMeans'
    BY <1>1 DEF Blocked, Fails, Ends, TypeOK, LeaseMeans, FreshGrounding
  <2> QED
    BY <2>1, <2>2, <2>3
<1>2. CASE record' = "blocked" /\ proposal' = NoProposal /\ Transition("agent_observing") /\ Sync /\ UNCHANGED world
  <2>1. TypeOK'
    BY <1>2, States, Moving, NoProposalType DEF Blocked, Ends, Sync, TypeOK, Op, Outcome
  <2>2. interrupted' <= observed' /\ FreshGrounding' /\ CopyAgrees'
    BY <1>2, States, Moving, NoProposalType DEF Blocked, Ends, Sync, TypeOK, FreshGrounding, CopyAgrees, LeaseMeans
  <2>3. LeaseMeans'
    BY <1>2, States, Moving, NoProposalType DEF Blocked, Ends, Sync, TypeOK, LeaseMeans, FreshGrounding
  <2> QED
    BY <2>1, <2>2, <2>3
<1>3. CASE record' = "blocked" /\ proposal' = NoProposal /\ UNCHANGED machine /\ UNCHANGED world
  <2>1. TypeOK'
    BY <1>3, NoProposalType DEF Blocked, Ends, TypeOK, Op, Outcome
  <2>2. interrupted' <= observed' /\ FreshGrounding' /\ CopyAgrees'
    BY <1>3, NoProposalType DEF Blocked, Ends, TypeOK, FreshGrounding, CopyAgrees, LeaseMeans
  <2>3. LeaseMeans'
    BY <1>3, NoProposalType DEF Blocked, Ends, TypeOK, LeaseMeans, FreshGrounding
  <2> QED
    BY <2>1, <2>2, <2>3
<1> QED
  BY <1>1, <1>2, <1>3 DEF Blocked

LEMMA PreflightedKeeps == ControlInv /\ Preflighted => ControlInv'
<1> SUFFICES ASSUME ControlInv, Preflighted PROVE ControlInv'
  OBVIOUS
<1> USE DEF ControlInv, Grounding, machine, grounds, locals, ledger, world
<1>0. ASSUME Accept(IF session.state = "awaiting_approval" THEN "agent_observing"
                    ELSE control.state)
      PROVE  control' \in Control /\ leased' \in BOOLEAN
  BY <1>0, States DEF Accept, TypeOK, Control
<1>1. CASE leased /\ op' = "claiming" /\ leased' = FALSE /\ UNCHANGED <<control, session, grounds>>
  <2>1. TypeOK'
    BY <1>1 DEF Preflighted, TypeOK, Op, Outcome
  <2>2. interrupted' <= observed' /\ FreshGrounding' /\ CopyAgrees'
    BY <1>1 DEF Preflighted, TypeOK, FreshGrounding, CopyAgrees, LeaseMeans
  <2>3. LeaseMeans'
    BY <1>1 DEF Preflighted, TypeOK, LeaseMeans, FreshGrounding
  <2> QED
    BY <2>1, <2>2, <2>3
<1>2. CASE leased /\ BeginAction /\ UNCHANGED grounds
  <2>1. TypeOK'
    BY <1>2, States, Moving DEF Preflighted, BeginAction, Sync, TypeOK, Op, Outcome
  <2>2. interrupted' <= observed' /\ FreshGrounding' /\ CopyAgrees'
    BY <1>2, States, Moving DEF Preflighted, BeginAction, Sync, TypeOK, FreshGrounding, CopyAgrees, LeaseMeans
  <2>3. LeaseMeans'
    BY <1>2, States, Moving DEF Preflighted, BeginAction, Sync, TypeOK, LeaseMeans, FreshGrounding
  <2> QED
    BY <2>1, <2>2, <2>3
<1>3. CASE /\ leased /\ proposal' = NoProposal /\ current' = shot
           /\ Accept(IF session.state = "awaiting_approval" THEN "agent_observing"
                     ELSE control.state)
           /\ Sync /\ Ends
  <2>1. TypeOK'
    BY <1>3, <1>0, NoProposalType DEF Preflighted, Ends, Sync, TypeOK, Op, Outcome
  <2>2. interrupted' <= observed' /\ FreshGrounding' /\ CopyAgrees'
    BY <1>3, <1>0, NoProposalType DEF Preflighted, Ends, Sync, TypeOK, FreshGrounding, CopyAgrees, LeaseMeans
  <2>3. LeaseMeans'
    BY <1>3, <1>0, NoProposalType DEF Preflighted, Ends, Sync, TypeOK, LeaseMeans, FreshGrounding
  <2> QED
    BY <2>1, <2>2, <2>3
<1>4. CASE Ends /\ leased' = FALSE /\ UNCHANGED <<control, session, grounds>>
  <2>1. TypeOK'
    BY <1>4 DEF Preflighted, Ends, TypeOK, Op, Outcome
  <2>2. interrupted' <= observed' /\ FreshGrounding' /\ CopyAgrees'
    BY <1>4 DEF Preflighted, Ends, TypeOK, FreshGrounding, CopyAgrees, LeaseMeans
  <2>3. LeaseMeans'
    BY <1>4 DEF Preflighted, Ends, TypeOK, LeaseMeans, FreshGrounding
  <2> QED
    BY <2>1, <2>2, <2>3
<1> QED
  BY <1>1, <1>2, <1>3, <1>4 DEF Preflighted

LEMMA ClaimedKeeps == ControlInv /\ Claimed => ControlInv'
<1> SUFFICES ASSUME ControlInv, Claimed PROVE ControlInv'
  OBVIOUS
<1> USE DEF ControlInv, Grounding, machine, grounds, locals, ledger, world
<1>1. CASE claimed' = TRUE /\ CanMove("agent_executing") /\ BeginAction /\ UNCHANGED world
  <2>1. TypeOK'
    BY <1>1, States, Moving DEF Claimed, BeginAction, Sync, TypeOK, Op, Outcome
  <2>2. interrupted' <= observed' /\ FreshGrounding' /\ CopyAgrees'
    BY <1>1, States, Moving DEF Claimed, BeginAction, Sync, TypeOK, FreshGrounding, CopyAgrees, LeaseMeans
  <2>3. LeaseMeans'
    BY <1>1, States, Moving DEF Claimed, BeginAction, Sync, TypeOK, LeaseMeans, FreshGrounding
  <2> QED
    BY <2>1, <2>2, <2>3
<1>2. CASE claimed' = TRUE /\ Ends /\ UNCHANGED <<machine, world>>
  <2>1. TypeOK'
    BY <1>2 DEF Claimed, Ends, TypeOK, Op, Outcome
  <2>2. interrupted' <= observed' /\ FreshGrounding' /\ CopyAgrees'
    BY <1>2 DEF Claimed, Ends, TypeOK, FreshGrounding, CopyAgrees, LeaseMeans
  <2>3. LeaseMeans'
    BY <1>2 DEF Claimed, Ends, TypeOK, LeaseMeans, FreshGrounding
  <2> QED
    BY <2>1, <2>2, <2>3
<1>3. CASE op' = "blocking" /\ UNCHANGED <<machine, claimed, world>>
  <2>1. TypeOK'
    BY <1>3 DEF Claimed, TypeOK, Op, Outcome
  <2>2. interrupted' <= observed' /\ FreshGrounding' /\ CopyAgrees'
    BY <1>3 DEF Claimed, TypeOK, FreshGrounding, CopyAgrees, LeaseMeans
  <2>3. LeaseMeans'
    BY <1>3 DEF Claimed, TypeOK, LeaseMeans, FreshGrounding
  <2> QED
    BY <2>1, <2>2, <2>3
<1>4. CASE Fails /\ Ends /\ claimed' \in {claimed, TRUE} /\ UNCHANGED machine
  <2>1. TypeOK'
    <3>1. claimed' \in BOOLEAN
      BY <1>4 DEF TypeOK
    <3>2. op' \in Op /\ faults' \in Nat /\ mishap' \in BOOLEAN
      BY <1>4 DEF Fails, Ends, TypeOK, Op
    <3>3. /\ UNCHANGED <<control, session, leased, grounds, locals, record, posted>>
          /\ UNCHANGED <<observed, interrupted>>
      BY <1>4 DEF Claimed, Fails
    <3> QED
      BY <3>1, <3>2, <3>3 DEF TypeOK
  <2>2. interrupted' <= observed' /\ FreshGrounding' /\ CopyAgrees'
    BY <1>4 DEF Claimed, Fails, Ends, TypeOK, FreshGrounding, CopyAgrees, LeaseMeans
  <2>3. LeaseMeans'
    BY <1>4 DEF Claimed, Fails, Ends, TypeOK, LeaseMeans, FreshGrounding
  <2> QED
    BY <2>1, <2>2, <2>3
<1> QED
  BY <1>1, <1>2, <1>3, <1>4 DEF Claimed

LEMMA StartedKeeps == ControlInv /\ Started => ControlInv'
<1> SUFFICES ASSUME ControlInv, Started PROVE ControlInv'
  OBVIOUS
<1> USE DEF ControlInv, Grounding, machine, grounds, locals, ledger, world
<1>1. CASE Fails /\ Ends /\ UNCHANGED leased
  <2>1. TypeOK'
    BY <1>1 DEF Started, Fails, Ends, TypeOK, Op, Outcome
  <2>2. interrupted' <= observed' /\ FreshGrounding' /\ CopyAgrees'
    BY <1>1 DEF Started, Fails, Ends, TypeOK, FreshGrounding, CopyAgrees, LeaseMeans
  <2>3. LeaseMeans'
    BY <1>1 DEF Started, Fails, Ends, TypeOK, LeaseMeans, FreshGrounding
  <2> QED
    BY <2>1, <2>2, <2>3
<1>2. CASE control.state = "agent_executing" /\ op' = "saving" /\ leased' = TRUE /\ UNCHANGED world
  <2>1. TypeOK'
    BY <1>2 DEF Started, TypeOK, Op, Outcome
  <2>2. interrupted' <= observed' /\ FreshGrounding' /\ CopyAgrees'
    BY <1>2 DEF Started, TypeOK, FreshGrounding, CopyAgrees, LeaseMeans
  <2>3. LeaseMeans'
    BY <1>2 DEF Started, TypeOK, LeaseMeans, FreshGrounding
  <2> QED
    BY <2>1, <2>2, <2>3
<1>3. CASE Ends /\ UNCHANGED <<leased, world>>
  <2>1. TypeOK'
    BY <1>3 DEF Started, Ends, TypeOK, Op, Outcome
  <2>2. interrupted' <= observed' /\ FreshGrounding' /\ CopyAgrees'
    BY <1>3 DEF Started, Ends, TypeOK, FreshGrounding, CopyAgrees, LeaseMeans
  <2>3. LeaseMeans'
    BY <1>3 DEF Started, Ends, TypeOK, LeaseMeans, FreshGrounding
  <2> QED
    BY <2>1, <2>2, <2>3
<1> QED
  BY <1>1, <1>2, <1>3 DEF Started

LEMMA SavedKeeps == ControlInv /\ Saved => ControlInv'
<1> SUFFICES ASSUME ControlInv, Saved PROVE ControlInv'
  OBVIOUS
<1> USE DEF ControlInv, Grounding, machine, grounds, locals, ledger, world
<1>1. CASE Fails /\ Ends /\ record' \in {record, "started"} /\ leased' = FALSE /\ UNCHANGED <<locals, posted>>
  <2>1. TypeOK'
    <3>1. record' \in Outcome /\ leased' \in BOOLEAN
      BY <1>1 DEF TypeOK, Outcome
    <3>2. op' \in Op /\ faults' \in Nat /\ mishap' \in BOOLEAN
      BY <1>1 DEF Fails, Ends, TypeOK, Op
    <3>3. UNCHANGED <<control, session, grounds, locals, claimed, posted, observed, interrupted>>
      BY <1>1 DEF Saved, Fails
    <3> QED
      BY <3>1, <3>2, <3>3 DEF TypeOK
  <2>2. interrupted' <= observed' /\ FreshGrounding' /\ CopyAgrees'
    BY <1>1 DEF Saved, Fails, Ends, TypeOK, FreshGrounding, CopyAgrees, LeaseMeans
  <2>3. LeaseMeans'
    BY <1>1 DEF Saved, Fails, Ends, TypeOK, LeaseMeans, FreshGrounding
  <2> QED
    BY <2>1, <2>2, <2>3
<1>2. CASE /\ leased /\ record' = "started" /\ posted' = posted + 1
           /\ op' = "posting" /\ UNCHANGED <<leased, locals, world>>
  <2>1. TypeOK'
    BY <1>2 DEF Saved, TypeOK, Op, Outcome
  <2>2. interrupted' <= observed' /\ FreshGrounding' /\ CopyAgrees'
    BY <1>2 DEF Saved, TypeOK, FreshGrounding, CopyAgrees, LeaseMeans
  <2>3. LeaseMeans'
    BY <1>2 DEF Saved, TypeOK, LeaseMeans, FreshGrounding
  <2> QED
    BY <2>1, <2>2, <2>3
<1>3. CASE ~leased /\ record' = "started" /\ Catch /\ UNCHANGED <<leased, posted, world>>
  <2>1. TypeOK'
    BY <1>3 DEF Saved, Catch, Control, TypeOK, Op, Outcome
  <2>2. interrupted' <= observed' /\ FreshGrounding' /\ CopyAgrees'
    BY <1>3 DEF Saved, Catch, Control, TypeOK, FreshGrounding, CopyAgrees, LeaseMeans
  <2>3. LeaseMeans'
    BY <1>3 DEF Saved, Catch, Control, TypeOK, LeaseMeans, FreshGrounding
  <2> QED
    BY <2>1, <2>2, <2>3
<1> QED
  BY <1>1, <1>2, <1>3 DEF Saved

LEMMA CheckedKeeps == ControlInv /\ Checked => ControlInv'
<1> SUFFICES ASSUME ControlInv, Checked PROVE ControlInv'
  OBVIOUS
<1> USE DEF ControlInv, Grounding, machine, grounds, locals, ledger, world
<1>1. CASE leased /\ Accept("verifying") /\ current' = shot /\ op' = "filing" /\ UNCHANGED locals
  <2>1. TypeOK'
    BY <1>1, States, Accepting DEF Checked, TypeOK, Op, Outcome
  <2>2. interrupted' <= observed' /\ FreshGrounding' /\ CopyAgrees'
    BY <1>1, States, Accepting DEF Checked, TypeOK, FreshGrounding, CopyAgrees, LeaseMeans
  <2>3. LeaseMeans'
    BY <1>1, States, Accepting DEF Checked, TypeOK, LeaseMeans, FreshGrounding
  <2> QED
    BY <2>1, <2>2, <2>3
<1>2. CASE Catch /\ UNCHANGED <<control, leased, current>>
  <2>1. TypeOK'
    BY <1>2 DEF Checked, Catch, Control, TypeOK, Op, Outcome
  <2>2. interrupted' <= observed' /\ FreshGrounding' /\ CopyAgrees'
    BY <1>2 DEF Checked, Catch, Control, TypeOK, FreshGrounding, CopyAgrees, LeaseMeans
  <2>3. LeaseMeans'
    BY <1>2 DEF Checked, Catch, Control, TypeOK, LeaseMeans, FreshGrounding
  <2> QED
    BY <2>1, <2>2, <2>3
<1> QED
  BY <1>1, <1>2 DEF Checked

LEMMA FiledKeeps == ControlInv /\ Filed => ControlInv'
<1> SUFFICES ASSUME ControlInv, Filed PROVE ControlInv'
  OBVIOUS
<1> USE DEF ControlInv, Grounding, machine, grounds, locals, ledger, world
<1>1. CASE Fails /\ Catch /\ record' \in {record, "executed"} /\ UNCHANGED <<session, proposal>>
  <2>1. TypeOK'
    BY <1>1 DEF Filed, Fails, Catch, Control, TypeOK, Op, Outcome
  <2>2. interrupted' <= observed' /\ FreshGrounding' /\ CopyAgrees'
    BY <1>1 DEF Filed, Fails, Catch, Control, TypeOK, FreshGrounding, CopyAgrees, LeaseMeans
  <2>3. LeaseMeans'
    BY <1>1 DEF Filed, Fails, Catch, Control, TypeOK, LeaseMeans, FreshGrounding
  <2> QED
    BY <2>1, <2>2, <2>3
<1>2. CASE record' = "executed" /\ proposal' = NoProposal /\ session' = control /\ Ends /\ UNCHANGED <<locals, world>>
  <2>1. TypeOK'
    BY <1>2, NoProposalType DEF Filed, Ends, TypeOK, Op, Outcome
  <2>2. interrupted' <= observed' /\ FreshGrounding' /\ CopyAgrees'
    BY <1>2, NoProposalType DEF Filed, Ends, TypeOK, FreshGrounding, CopyAgrees, LeaseMeans
  <2>3. LeaseMeans'
    BY <1>2, NoProposalType DEF Filed, Ends, TypeOK, LeaseMeans, FreshGrounding
  <2> QED
    BY <2>1, <2>2, <2>3
<1> QED
  BY <1>1, <1>2 DEF Filed

LEMMA ClosedKeeps == ControlInv /\ Closed => ControlInv'
<1> SUFFICES ASSUME ControlInv, Closed PROVE ControlInv'
  OBVIOUS
<1> USE DEF ControlInv, Grounding, machine, grounds, locals, ledger, world
<1>1. CASE Fails /\ record' \in {record, Status} /\ UNCHANGED <<machine, proposal>>
  <2>1. TypeOK'
    BY <1>1 DEF Closed, Status, Fails, Ends, TypeOK, Op, Outcome
  <2>2. interrupted' <= observed' /\ FreshGrounding' /\ CopyAgrees'
    BY <1>1 DEF Closed, Status, Fails, Ends, TypeOK, FreshGrounding, CopyAgrees, LeaseMeans
  <2>3. LeaseMeans'
    BY <1>1 DEF Closed, Status, Fails, Ends, TypeOK, LeaseMeans, FreshGrounding
  <2> QED
    BY <2>1, <2>2, <2>3
<1>2. CASE record' = Status /\ proposal' = NoProposal /\ Transition("agent_observing") /\ Sync /\ UNCHANGED world
  <2>1. TypeOK'
    BY <1>2, States, Moving, NoProposalType DEF Closed, Status, Ends, Sync, TypeOK, Op, Outcome
  <2>2. interrupted' <= observed' /\ FreshGrounding' /\ CopyAgrees'
    BY <1>2, States, Moving, NoProposalType DEF Closed, Status, Ends, Sync, TypeOK, FreshGrounding, CopyAgrees, LeaseMeans
  <2>3. LeaseMeans'
    BY <1>2, States, Moving, NoProposalType DEF Closed, Status, Ends, Sync, TypeOK, LeaseMeans, FreshGrounding
  <2> QED
    BY <2>1, <2>2, <2>3
<1>3. CASE record' = Status /\ proposal' = NoProposal /\ UNCHANGED machine /\ UNCHANGED world
  <2>1. TypeOK'
    BY <1>3, NoProposalType DEF Closed, Status, Ends, TypeOK, Op, Outcome
  <2>2. interrupted' <= observed' /\ FreshGrounding' /\ CopyAgrees'
    BY <1>3, NoProposalType DEF Closed, Status, Ends, TypeOK, FreshGrounding, CopyAgrees, LeaseMeans
  <2>3. LeaseMeans'
    BY <1>3, NoProposalType DEF Closed, Status, Ends, TypeOK, LeaseMeans, FreshGrounding
  <2> QED
    BY <2>1, <2>2, <2>3
<1> QED
  BY <1>1, <1>2, <1>3 DEF Closed, MoveIfAllowed

LEMMA FetchedKeeps == ControlInv /\ Fetched => ControlInv'
<1> SUFFICES ASSUME ControlInv, Fetched PROVE ControlInv'
  OBVIOUS
<1> USE DEF ControlInv, Grounding, machine, grounds, locals, ledger, world
<1>1. CASE control.state = "verifying" /\ leased' = TRUE /\ op' = "verifying"
  <2>1. TypeOK'
    BY <1>1 DEF Fetched, TypeOK, Op, Outcome
  <2>2. interrupted' <= observed' /\ FreshGrounding' /\ CopyAgrees'
    BY <1>1 DEF Fetched, TypeOK, FreshGrounding, CopyAgrees, LeaseMeans
  <2>3. LeaseMeans'
    BY <1>1 DEF Fetched, TypeOK, LeaseMeans, FreshGrounding
  <2> QED
    BY <2>1, <2>2, <2>3
<1>2. CASE Ends /\ UNCHANGED leased
  <2>1. TypeOK'
    BY <1>2 DEF Fetched, Ends, TypeOK, Op, Outcome
  <2>2. interrupted' <= observed' /\ FreshGrounding' /\ CopyAgrees'
    BY <1>2 DEF Fetched, Ends, TypeOK, FreshGrounding, CopyAgrees, LeaseMeans
  <2>3. LeaseMeans'
    BY <1>2 DEF Fetched, Ends, TypeOK, LeaseMeans, FreshGrounding
  <2> QED
    BY <2>1, <2>2, <2>3
<1> QED
  BY <1>1, <1>2 DEF Fetched

LEMMA ConcludedKeeps == ControlInv /\ Concluded => ControlInv'
<1> SUFFICES ASSUME ControlInv, Concluded PROVE ControlInv'
  OBVIOUS
<1> USE DEF ControlInv, Grounding, machine, grounds, locals, ledger, world
<1>1. CASE Fails /\ record' \in {record, "verified"} /\ UNCHANGED machine
  <2>1. TypeOK'
    BY <1>1 DEF Concluded, Fails, Ends, TypeOK, Op, Outcome
  <2>2. interrupted' <= observed' /\ FreshGrounding' /\ CopyAgrees'
    BY <1>1 DEF Concluded, Fails, Ends, TypeOK, FreshGrounding, CopyAgrees, LeaseMeans
  <2>3. LeaseMeans'
    BY <1>1 DEF Concluded, Fails, Ends, TypeOK, LeaseMeans, FreshGrounding
  <2> QED
    BY <2>1, <2>2, <2>3
<1>2. CASE record' = "verified" /\ Transition("agent_observing") /\ Sync /\ UNCHANGED world
  <2>1. TypeOK'
    BY <1>2, States, Moving DEF Concluded, Ends, Sync, TypeOK, Op, Outcome
  <2>2. interrupted' <= observed' /\ FreshGrounding' /\ CopyAgrees'
    BY <1>2, States, Moving DEF Concluded, Ends, Sync, TypeOK, FreshGrounding, CopyAgrees, LeaseMeans
  <2>3. LeaseMeans'
    BY <1>2, States, Moving DEF Concluded, Ends, Sync, TypeOK, LeaseMeans, FreshGrounding
  <2> QED
    BY <2>1, <2>2, <2>3
<1>3. CASE record' = "verified" /\ UNCHANGED machine /\ UNCHANGED world
  <2>1. TypeOK'
    BY <1>3 DEF Concluded, Ends, TypeOK, Op, Outcome
  <2>2. interrupted' <= observed' /\ FreshGrounding' /\ CopyAgrees'
    BY <1>3 DEF Concluded, Ends, TypeOK, FreshGrounding, CopyAgrees, LeaseMeans
  <2>3. LeaseMeans'
    BY <1>3 DEF Concluded, Ends, TypeOK, LeaseMeans, FreshGrounding
  <2> QED
    BY <2>1, <2>2, <2>3
<1> QED
  BY <1>1, <1>2, <1>3 DEF Concluded, MoveIfAllowed

(* A word of the user ends every lease, unless it changes nothing.            *)
LEMMA UserMoveKeeps ==
    ASSUME ControlInv, NEW next \in {"paused", "user_control", "recovering", "stopped"},
           next = "recovering" => control.state \in {"paused", "user_control"}, UserMove(next)
    PROVE  ControlInv'
<1> USE DEF ControlInv, Grounding, grounds, locals, ledger
<1>1. /\ control' \in Control /\ control'.state = next /\ session' = control'
      /\ leased' = (leased /\ next = control.state) /\ leased' \in BOOLEAN
  BY Moving DEF State, Handed, UserMove, Sync
<1>2. TypeOK'
  BY <1>1, NoProposalType DEF UserMove, TypeOK
<1>3. interrupted' <= observed' /\ FreshGrounding' /\ CopyAgrees'
  BY <1>1, NoProposalType DEF UserMove, TypeOK, FreshGrounding, CopyAgrees
<1>4. ~ CanMove("agent_executing")'
  BY <1>1, ExecutingFromNext
<1>5. LeaseMeans'
  <2>1. UNCHANGED <<op, shot, acting>>
    BY DEF UserMove
  <2>2. leased' => leased /\ control.state = next
    BY <1>1
  <2>3. (leased' /\ op' = "observing") =>
           /\ control'.state = session'.state
           /\ session'.state \notin {"recovering", "agent_observing"}
    BY <1>1, <2>2
  <2>4. ~(leased' /\ op' \in {"grounding", "preflight", "saving", "posting", "checking"})
    BY <2>1, <2>2 DEF LeaseMeans
  <2>5. control'.state \notin {"agent_proposing", "agent_executing"}
    BY <1>1
  <2> QED
    BY <1>4, <2>3, <2>4, <2>5 DEF LeaseMeans
<1> QED
  BY <1>2, <1>3, <1>5

(* One step of the session, agent's or user's.                                *)
LEMMA StepKeeps == ControlInv /\ [Next]_vars => ControlInv'
<1> SUFFICES ASSUME ControlInv, [Next]_vars PROVE ControlInv'
  OBVIOUS
<1>1. CASE Agent
  BY <1>1, ObserveKeeps, ObservedKeeps, ProposeKeeps, AnnouncedKeeps, GroundedKeeps,
     ExpireKeeps, DenyKeeps, BlockedKeeps, ExecuteKeeps, PreflightedKeeps, ClaimedKeeps,
     StartedKeeps, SavedKeeps, PostedKeeps, CheckedKeeps, FiledKeeps, ClosedKeeps,
     VerifyKeeps, FetchedKeeps, VerifiedKeeps, ConcludedKeeps DEF Agent
<1>2. CASE User
  BY <1>2, UserMoveKeeps DEF User, Pause, Takeover, Resume, ReturnControl, Stop
<1>3. CASE UNCHANGED vars
  BY <1>3 DEF ControlInv, TypeOK, FreshGrounding, CopyAgrees, LeaseMeans, Grounding,
              CanMove, vars, machine, grounds, locals, ledger, world
<1> QED
  BY <1>1, <1>2, <1>3 DEF Next

(* The invariant that a resumed operation relies on: a current lease means    *)
(* that nobody spoke since the operation looked.                              *)
THEOREM ControlInvariant == Spec => []ControlInv
<1> QED
  BY InitControl, StepKeeps, PTL DEF Spec

(* What the agent may act on was captured after the user's last word.         *)
THEOREM ControlFreshGrounding == Spec => []FreshGrounding
<1>1. ControlInv => FreshGrounding
  BY DEF ControlInv
<1> QED
  BY <1>1, ControlInvariant, PTL

(* The copy of the state never gives the agent a control it does not have.    *)
THEOREM ControlCopyAgrees == Spec => []CopyAgrees
<1>1. ControlInv => CopyAgrees
  BY DEF ControlInv
<1> QED
  BY <1>1, ControlInvariant, PTL

(* Only the turn after the record's save posts, and it asserts the lease.     *)
LEMMA OnlySavedPosts ==
    ASSUME ControlInv, [Next]_vars, posted' > posted
    PROVE  control.state = "agent_executing" /\ acting.at > interrupted
<1>1. posted \in Nat
  BY DEF ControlInv, TypeOK
<1>2. CASE Saved
  BY <1>1, <1>2 DEF Saved, ControlInv, LeaseMeans, Grounding
<1>3. CASE Grounded
  BY <1>1, <1>3 DEF Grounded, ledger
<1>4. CASE Agent /\ ~Saved /\ ~Grounded
  <2>1. UNCHANGED posted
    BY <1>4 DEF Agent, Observe, Observed, Propose, Announced, Expire, Deny, Blocked,
                Execute, Preflighted, Claimed, Started, Posted, Checked, Filed, Closed,
                Verify, Fetched, Verified, Concluded, ledger
  <2> QED
    BY <1>1, <2>1
<1>5. CASE User
  BY <1>1, <1>5 DEF User, Pause, Takeover, Resume, ReturnControl, Stop, UserMove, ledger
<1>6. CASE UNCHANGED vars
  BY <1>1, <1>6 DEF vars, ledger
<1> QED
  BY <1>2, <1>3, <1>4, <1>5, <1>6 DEF Next

(* Native input is posted only while the agent holds control, for a proposal  *)
(* grounded after the user's last word.                                       *)
THEOREM ControlInputUnderControl == Spec => InputUnderControl
<1>1. ControlInv /\ [Next]_vars =>
        [posted' > posted =>
            control.state = "agent_executing" /\ acting.at > interrupted]_vars
  BY OnlySavedPosts
<1> QED
  BY <1>1, ControlInvariant, PTL DEF Spec, InputUnderControl
(***************************************************************************)
(* A proposal is posted at most once: whatever ends its execution, no      *)
(* later one starts from a state where its input is out.                   *)
(***************************************************************************)
LEMMA InitInput == Init => InputInv
<1>1. Init => InputOnce /\ PostingMeans
  BY DEF Init, InputOnce, PostingMeans, Acting, NoProposal
<1> QED
  BY <1>1, InitControl DEF InputInv

LEMMA ObservePosts == InputInv /\ Observe => InputOnce' /\ PostingMeans'
  BY DEF Observe, Capture, Observable, InputInv, ControlInv, TypeOK, CopyAgrees,
         InputOnce, PostingMeans, Acting, LeaseMeans, Control, Proposal, State, Handed,
         machine, grounds, locals, ledger, world

LEMMA ObservedPosts == InputInv /\ Observed => InputOnce' /\ PostingMeans'
  BY DEF Observed, Accept, Sync, Ends, InputInv, ControlInv, TypeOK, CopyAgrees,
         InputOnce, PostingMeans, Acting, LeaseMeans, Control, Proposal, State, Handed,
         machine, grounds, locals, ledger, world

LEMMA ProposePosts == InputInv /\ Propose => InputOnce' /\ PostingMeans'
  BY DEF Propose, Transition, Moved, Sync, CanMove, Allowed, InputInv, ControlInv, TypeOK,
         CopyAgrees, InputOnce, PostingMeans, Acting, LeaseMeans, Control, Proposal,
         State, Handed, machine, grounds, locals, ledger, world

LEMMA AnnouncedPosts == InputInv /\ Announced => InputOnce' /\ PostingMeans'
  BY DEF Announced, Fails, Ends, InputInv, ControlInv, TypeOK, CopyAgrees, InputOnce,
         PostingMeans, Acting, LeaseMeans, Control, Proposal, State, Handed, machine,
         grounds, locals, ledger, world

LEMMA GroundedPosts == InputInv /\ Grounded => InputOnce' /\ PostingMeans'
<1> SUFFICES ASSUME InputInv, Grounded PROVE InputOnce' /\ PostingMeans'
  OBVIOUS
<1> USE DEF InputInv, ControlInv, InputOnce, PostingMeans, ledger
<1>0. op' = "idle" /\ UNCHANGED acting /\ TypeOK
  BY DEF Grounded, Ends, locals
<1>1. CASE UNCHANGED machine /\ UNCHANGED proposal /\ UNCHANGED ledger /\ UNCHANGED mishap
  BY <1>0, <1>1 DEF Grounded, machine, Acting
<1>2. CASE /\ control.state = "agent_proposing"
           /\ Transition("agent_observing") /\ Sync
           /\ UNCHANGED <<proposal, ledger, mishap>>
  <2>1. session'.state = "agent_observing"
    BY <1>0, <1>2, Moving, States DEF Sync
  <2>2. ~(posted # 0 /\ proposal.at # 0)
    BY <1>2
  <2> QED
    BY <1>0, <1>2, <2>1, <2>2
<1>3. ASSUME NEW mutation \in BOOLEAN, Sync, posted' = 0,
             Transition(IF mutation THEN "awaiting_approval" ELSE "agent_observing")
      PROVE  InputOnce' /\ PostingMeans'
  <2>1. session'.state \in {"awaiting_approval", "agent_observing"}
    BY <1>0, <1>3, Moving, States DEF Sync
  <2> QED
    BY <1>0, <1>3, <2>1
<1> QED
  BY <1>1, <1>2, <1>3 DEF Grounded

LEMMA ExpirePosts == InputInv /\ Expire => InputOnce' /\ PostingMeans'
  BY DEF Expire, NoProposal, InputInv, ControlInv, TypeOK, CopyAgrees, InputOnce,
         PostingMeans, Acting, LeaseMeans, Control, Proposal, State, Handed, machine,
         grounds, locals, ledger, world

LEMMA DenyPosts == InputInv /\ Deny => InputOnce' /\ PostingMeans'
  BY DEF Deny, InputInv, ControlInv, TypeOK, CopyAgrees, InputOnce, PostingMeans, Acting,
         LeaseMeans, Control, Proposal, State, Handed, machine, grounds, locals, ledger,
         world

LEMMA BlockedPosts == InputInv /\ Blocked => InputOnce' /\ PostingMeans'
  BY DEF Blocked, Fails, Ends, Transition, Moved, Sync, NoProposal, InputInv, ControlInv,
         TypeOK, CopyAgrees, InputOnce, PostingMeans, Acting, LeaseMeans, Control,
         Proposal, State, Handed, machine, grounds, locals, ledger, world

LEMMA ExecutePosts == InputInv /\ Execute => InputOnce' /\ PostingMeans'
  BY DEF Execute, Capture, InputInv, ControlInv, TypeOK, CopyAgrees, InputOnce,
         PostingMeans, Acting, LeaseMeans, Control, Proposal, State, Handed, machine,
         grounds, locals, ledger, world

LEMMA PreflightedPosts == InputInv /\ Preflighted => InputOnce' /\ PostingMeans'
  BY DEF Preflighted, BeginAction, Transition, Moved, Accept, Sync, Ends, NoProposal,
         InputInv, ControlInv, TypeOK, CopyAgrees, InputOnce, PostingMeans, Acting,
         LeaseMeans, Control, Proposal, State, Handed, machine, grounds, locals, ledger,
         world

LEMMA ClaimedPosts == InputInv /\ Claimed => InputOnce' /\ PostingMeans'
<1> SUFFICES ASSUME InputInv, Claimed PROVE InputOnce' /\ PostingMeans'
  OBVIOUS
<1> USE DEF InputInv, ControlInv, InputOnce, PostingMeans, grounds, locals
<1>0. posted = 0 /\ UNCHANGED <<posted, proposal, acting>> /\ TypeOK
  BY DEF Claimed
<1>1. CASE claimed' = TRUE /\ BeginAction
  <2>1. session'.state = "agent_executing" /\ op' = "starting"
    BY <1>0, <1>1, Moving, States DEF BeginAction, Sync
  <2> QED
    BY <1>0, <1>1, <2>1
<1>2. CASE op' \in {"idle", "blocking"} /\ UNCHANGED session
  BY <1>0, <1>2
<1> QED
  BY <1>1, <1>2 DEF Claimed, Ends, machine

LEMMA StartedPosts == InputInv /\ Started => InputOnce' /\ PostingMeans'
  BY DEF Started, Fails, Ends, InputInv, ControlInv, TypeOK, CopyAgrees, InputOnce,
         PostingMeans, Acting, LeaseMeans, Control, Proposal, State, Handed, machine,
         grounds, locals, ledger, world

LEMMA SavedPosts == InputInv /\ Saved => InputOnce' /\ PostingMeans'
  BY DEF Saved, Fails, Ends, Catch, InputInv, ControlInv, TypeOK, CopyAgrees, InputOnce,
         PostingMeans, Acting, LeaseMeans, Control, Proposal, State, Handed, machine,
         grounds, locals, ledger, world

LEMMA PostedPosts == InputInv /\ Posted => InputOnce' /\ PostingMeans'
  BY DEF Posted, Capture, Catch, InputInv, ControlInv, TypeOK, CopyAgrees, InputOnce,
         PostingMeans, Acting, LeaseMeans, Control, Proposal, State, Handed, machine,
         grounds, locals, ledger, world

LEMMA CheckedPosts == InputInv /\ Checked => InputOnce' /\ PostingMeans'
  BY DEF Checked, Accept, Catch, InputInv, ControlInv, TypeOK, CopyAgrees, InputOnce,
         PostingMeans, Acting, LeaseMeans, Control, Proposal, State, Handed, machine,
         grounds, locals, ledger, world

LEMMA FiledPosts == InputInv /\ Filed => InputOnce' /\ PostingMeans'
  BY DEF Filed, Fails, Catch, Ends, NoProposal, InputInv, ControlInv, TypeOK, CopyAgrees,
         InputOnce, PostingMeans, Acting, LeaseMeans, Control, Proposal, State, Handed,
         machine, grounds, locals, ledger, world

LEMMA ClosedPosts == InputInv /\ Closed => InputOnce' /\ PostingMeans'
  BY DEF Closed, Fails, Ends, Status, MoveIfAllowed, Transition, Moved, Sync, NoProposal,
         InputInv, ControlInv, TypeOK, CopyAgrees, InputOnce, PostingMeans, Acting,
         LeaseMeans, Control, Proposal, State, Handed, machine, grounds, locals, ledger,
         world

LEMMA VerifyPosts == InputInv /\ Verify => InputOnce' /\ PostingMeans'
  BY DEF Verify, InputInv, ControlInv, TypeOK, CopyAgrees, InputOnce, PostingMeans,
         Acting, LeaseMeans, Control, Proposal, State, Handed, machine, grounds, locals,
         ledger, world

LEMMA FetchedPosts == InputInv /\ Fetched => InputOnce' /\ PostingMeans'
  BY DEF Fetched, Ends, InputInv, ControlInv, TypeOK, CopyAgrees, InputOnce, PostingMeans,
         Acting, LeaseMeans, Control, Proposal, State, Handed, machine, grounds, locals,
         ledger, world

LEMMA VerifiedPosts == InputInv /\ Verified => InputOnce' /\ PostingMeans'
  BY DEF Verified, Ends, InputInv, ControlInv, TypeOK, CopyAgrees, InputOnce,
         PostingMeans, Acting, LeaseMeans, Control, Proposal, State, Handed, machine,
         grounds, locals, ledger, world

LEMMA ConcludedPosts == InputInv /\ Concluded => InputOnce' /\ PostingMeans'
  BY DEF Concluded, Fails, Ends, MoveIfAllowed, Transition, Moved, Sync, InputInv,
         ControlInv, TypeOK, CopyAgrees, InputOnce, PostingMeans, Acting, LeaseMeans,
         Control, Proposal, State, Handed, machine, grounds, locals, ledger, world

(* The user's word drops the proposal and posts nothing.                      *)
LEMMA UserMovePosts ==
    ASSUME InputInv, NEW next \in {"paused", "user_control", "recovering", "stopped"},
           UserMove(next)
    PROVE  InputOnce' /\ PostingMeans'
<1>1. session'.state = next
  BY Moving DEF UserMove, Sync, State, Handed, InputInv, ControlInv
<1>2. proposal'.at = 0 /\ UNCHANGED <<op, acting, posted, claimed, mishap>>
  BY NoProposalType DEF UserMove, locals, ledger
<1> QED
  BY <1>1, <1>2 DEF InputInv, InputOnce, PostingMeans

LEMMA StepPosts == InputInv /\ [Next]_vars => InputInv'
<1> SUFFICES ASSUME InputInv, [Next]_vars PROVE InputInv'
  OBVIOUS
<1>1. ControlInv'
  BY StepKeeps DEF InputInv
<1>2. CASE Agent
  BY <1>1, <1>2, ObservePosts, ObservedPosts, ProposePosts, AnnouncedPosts, GroundedPosts,
     ExpirePosts, DenyPosts, BlockedPosts, ExecutePosts, PreflightedPosts,
     ClaimedPosts, StartedPosts, SavedPosts, PostedPosts, CheckedPosts,
     FiledPosts, ClosedPosts, VerifyPosts, FetchedPosts, VerifiedPosts,
     ConcludedPosts DEF Agent, InputInv
<1>3. CASE User
  BY <1>1, <1>3, UserMovePosts
     DEF User, Pause, Takeover, Resume, ReturnControl, Stop, InputInv
<1>4. CASE UNCHANGED vars
  BY <1>1, <1>4 DEF InputInv, InputOnce, PostingMeans,
                    vars, machine, grounds, locals, ledger, world
<1> QED
  BY <1>2, <1>3, <1>4 DEF Next

(* The invariant of the inputs: an operation that is about to post holds the  *)
(* proposal and its reserved key, and nothing was posted for it before.       *)
THEOREM ControlInputInvariant == Spec => []InputInv
<1> QED
  BY InitInput, StepPosts, PTL DEF Spec

(* However execution is asked for again and whatever save, claim or capture   *)
(* failed before, one proposal gives one native input, and a mutation only    *)
(* once its key was reserved.                                                 *)
THEOREM ControlInputOnce == Spec => []InputOnce
<1>1. InputInv => InputOnce
  BY DEF InputInv
<1> QED
  BY <1>1, ControlInputInvariant, PTL

(* Only Blocked and Closed write "blocked": one for a proposal that was not   *)
(* posted, the other never for a mutation.                                    *)
LEMMA BlocksHonestly ==
    ASSUME InputInv, [Next]_vars, record' = "blocked", record # "blocked", ~mishap,
           acting.mutation
    PROVE  posted = 0
<1>1. CASE Blocked
  BY <1>1 DEF Blocked, InputInv, PostingMeans
<1>2. CASE Closed
  BY <1>2 DEF Closed, Status
<1>3. CASE Agent /\ ~Blocked /\ ~Closed
  BY <1>3 DEF Agent, Observe, Observed, Propose, Announced, Grounded, Expire, Deny,
              Execute, Preflighted, Claimed, Started, Saved, Posted, Checked, Filed,
              Verify, Fetched, Verified, Concluded, ledger
<1>4. CASE User
  BY <1>4 DEF User, Pause, Takeover, Resume, ReturnControl, Stop, UserMove, ledger
<1>5. CASE UNCHANGED vars
  BY <1>5 DEF vars, ledger
<1> QED
  BY <1>1, <1>2, <1>3, <1>4, <1>5 DEF Next

(* A mutation whose input was posted is not filed as blocked as long as every *)
(* save of its record worked.                                                 *)
THEOREM ControlHonestRecord == Spec => HonestRecord
<1>1. InputInv /\ [Next]_vars =>
        [record' = "blocked" /\ record # "blocked" /\ ~mishap /\ acting.mutation =>
            posted = 0]_vars
  BY BlocksHonestly
<1> QED
  BY <1>1, ControlInputInvariant, PTL DEF Spec, HonestRecord

(***************************************************************************)
(* Between two operations the agent stands where the runtime accepts it.   *)
(***************************************************************************)
LEMMA InitAgent == Init => AgentInv
<1>1. Init => ControlSettles
  BY DEF Init, ControlSettles, Acting
<1> QED
  BY <1>1, InitInput DEF AgentInv

LEMMA ObserveSettles == AgentInv /\ Observe => ControlSettles'
  BY DEF Observe, Capture, Observable, AgentInv, InputInv, ControlInv, TypeOK, CopyAgrees,
         InputOnce, PostingMeans, ControlSettles, Acting, LeaseMeans, Control, Proposal,
         State, Handed, machine, grounds, locals, ledger, world

LEMMA ObservedSettles == AgentInv /\ Observed => ControlSettles'
  BY DEF Observed, Accept, Sync, Ends, AgentInv, InputInv, ControlInv, TypeOK, CopyAgrees,
         InputOnce, PostingMeans, ControlSettles, Acting, LeaseMeans, Control, Proposal,
         State, Handed, machine, grounds, locals, ledger, world

LEMMA ProposeSettles == AgentInv /\ Propose => ControlSettles'
  BY DEF Propose, Transition, Moved, Sync, CanMove, Allowed, AgentInv, InputInv,
         ControlInv, TypeOK, CopyAgrees, InputOnce, PostingMeans, ControlSettles, Acting,
         LeaseMeans, Control, Proposal, State, Handed, machine, grounds, locals, ledger,
         world

LEMMA AnnouncedSettles == AgentInv /\ Announced => ControlSettles'
  BY DEF Announced, Fails, Ends, AgentInv, InputInv, ControlInv, TypeOK, CopyAgrees,
         InputOnce, PostingMeans, ControlSettles, Acting, LeaseMeans, Control, Proposal,
         State, Handed, machine, grounds, locals, ledger, world

LEMMA GroundedSettles == AgentInv /\ Grounded => ControlSettles'
<1> SUFFICES ASSUME AgentInv, Grounded PROVE ControlSettles'
  OBVIOUS
<1> USE DEF AgentInv, InputInv, ControlInv, ControlSettles
<1>0. op' = "idle" /\ TypeOK /\ UNCHANGED <<current, shot>>
  BY DEF Grounded, Ends, locals
<1>1. CASE /\ control.state # "agent_proposing"
           /\ UNCHANGED <<machine, proposal, ledger, mishap>>
  BY <1>0, <1>1 DEF Grounded, machine, ledger, Acting
<1>2. CASE Transition("agent_observing") /\ Sync
  <2>1. control'.state = "agent_observing" /\ session' = control'
    BY <1>0, <1>2, Moving, States DEF Sync
  <2> QED
    BY <1>0, <2>1 DEF Acting
<1>3. ASSUME leased, Sync, proposal' = [at |-> shot, mutation |-> TRUE],
             Transition("awaiting_approval")
      PROVE  ControlSettles'
  <2>1. control'.state = "awaiting_approval" /\ session' = control'
    BY <1>0, <1>3, Moving, States DEF Sync
  <2>2. shot = current /\ current # 0
    BY <1>3 DEF Grounded
  <2> QED
    BY <1>0, <1>3, <2>1, <2>2 DEF Acting
<1> QED
  <2>1. ASSUME leased, Sync, NEW mutation \in BOOLEAN,
               proposal' = [at |-> shot, mutation |-> mutation],
               Transition(IF mutation THEN "awaiting_approval" ELSE "agent_observing")
        PROVE  ControlSettles'
    <3>1. CASE mutation = TRUE
      BY <1>3, <2>1, <3>1
    <3>2. CASE mutation = FALSE
      BY <1>2, <2>1, <3>2
    <3> QED
      BY <3>1, <3>2
  <2> QED
    BY <1>1, <1>2, <2>1 DEF Grounded

LEMMA ExpireSettles == AgentInv /\ Expire => ControlSettles'
  BY DEF Expire, NoProposal, AgentInv, InputInv, ControlInv, TypeOK, CopyAgrees,
         InputOnce, PostingMeans, ControlSettles, Acting, LeaseMeans, Control, Proposal,
         State, Handed, machine, grounds, locals, ledger, world

LEMMA DenySettles == AgentInv /\ Deny => ControlSettles'
  BY DEF Deny, AgentInv, InputInv, ControlInv, TypeOK, CopyAgrees, InputOnce,
         PostingMeans, ControlSettles, Acting, LeaseMeans, Control, Proposal, State,
         Handed, machine, grounds, locals, ledger, world

LEMMA BlockedSettles == AgentInv /\ Blocked => ControlSettles'
  BY DEF Blocked, Fails, Ends, Transition, Moved, Sync, NoProposal, AgentInv, InputInv,
         ControlInv, TypeOK, CopyAgrees, InputOnce, PostingMeans, ControlSettles, Acting,
         LeaseMeans, Control, Proposal, State, Handed, machine, grounds, locals, ledger,
         world

LEMMA ExecuteSettles == AgentInv /\ Execute => ControlSettles'
  BY DEF Execute, Capture, AgentInv, InputInv, ControlInv, TypeOK, CopyAgrees, InputOnce,
         PostingMeans, ControlSettles, Acting, LeaseMeans, Control, Proposal, State,
         Handed, machine, grounds, locals, ledger, world

LEMMA PreflightedSettles == AgentInv /\ Preflighted => ControlSettles'
  BY DEF Preflighted, BeginAction, Transition, Moved, Accept, Sync, Ends, NoProposal,
         AgentInv, InputInv, ControlInv, TypeOK, CopyAgrees, InputOnce, PostingMeans,
         ControlSettles, Acting, LeaseMeans, Control, Proposal, State, Handed, machine,
         grounds, locals, ledger, world

LEMMA ClaimedSettles == AgentInv /\ Claimed => ControlSettles'
<1> SUFFICES ASSUME AgentInv, Claimed PROVE ControlSettles'
  OBVIOUS
<1>1. /\ op = "claiming" /\ TypeOK
      /\ UNCHANGED <<current, proposal, shot, caught, record>>
  BY DEF Claimed, AgentInv, InputInv, ControlInv, grounds, locals
<1>2. CASE BeginAction
  <2>1. control'.state = "agent_executing" /\ session' = control' /\ op' = "starting"
    BY <1>1, <1>2, Moving, States DEF BeginAction, Sync
  <2> QED
    BY <1>1, <2>1 DEF AgentInv, ControlSettles, Acting
<1>3. CASE op' \in {"idle", "blocking"} /\ UNCHANGED machine /\ (mishap => mishap')
  BY <1>1, <1>3 DEF machine, AgentInv, ControlSettles, Acting
<1>4. BeginAction \/ (op' \in {"idle", "blocking"} /\ UNCHANGED machine)
  BY DEF Claimed, Ends
<1>5. mishap => mishap'
  BY DEF Claimed, Fails, world
<1> QED
  BY <1>2, <1>3, <1>4, <1>5

LEMMA StartedSettles == AgentInv /\ Started => ControlSettles'
  BY DEF Started, Fails, Ends, AgentInv, InputInv, ControlInv, TypeOK, CopyAgrees,
         InputOnce, PostingMeans, ControlSettles, Acting, LeaseMeans, Control, Proposal,
         State, Handed, machine, grounds, locals, ledger, world

LEMMA SavedSettles == AgentInv /\ Saved => ControlSettles'
  BY DEF Saved, Fails, Ends, Catch, AgentInv, InputInv, ControlInv, TypeOK, CopyAgrees,
         InputOnce, PostingMeans, ControlSettles, Acting, LeaseMeans, Control, Proposal,
         State, Handed, machine, grounds, locals, ledger, world

LEMMA PostedSettles == AgentInv /\ Posted => ControlSettles'
  BY DEF Posted, Capture, Catch, AgentInv, InputInv, ControlInv, TypeOK, CopyAgrees,
         InputOnce, PostingMeans, ControlSettles, Acting, LeaseMeans, Control, Proposal,
         State, Handed, machine, grounds, locals, ledger, world

LEMMA CheckedSettles == AgentInv /\ Checked => ControlSettles'
  BY DEF Checked, Accept, Catch, AgentInv, InputInv, ControlInv, TypeOK, CopyAgrees,
         InputOnce, PostingMeans, ControlSettles, Acting, LeaseMeans, Control, Proposal,
         State, Handed, machine, grounds, locals, ledger, world

LEMMA FiledSettles == AgentInv /\ Filed => ControlSettles'
  BY DEF Filed, Fails, Catch, Ends, NoProposal, AgentInv, InputInv, ControlInv, TypeOK,
         CopyAgrees, InputOnce, PostingMeans, ControlSettles, Acting, LeaseMeans, Control,
         Proposal, State, Handed, machine, grounds, locals, ledger, world

LEMMA ClosedSettles == AgentInv /\ Closed => ControlSettles'
<1> SUFFICES ASSUME AgentInv, Closed PROVE ControlSettles'
  OBVIOUS
<1> USE DEF AgentInv, InputInv, ControlInv, ControlSettles, locals, Acting
<1>0. op = "closing" /\ op' = "idle" /\ UNCHANGED <<current, shot, caught>> /\ TypeOK
  BY DEF Closed, Ends
<1>1. CASE mishap' = TRUE /\ UNCHANGED machine
  BY <1>0, <1>1 DEF machine
<1>2. CASE Transition("agent_observing") /\ Sync
  <2>1. control'.state = "agent_observing" /\ session' = control'
    BY <1>0, <1>2, Moving, States DEF Sync
  <2> QED
    BY <1>0, <2>1
<1>3. CASE /\ UNCHANGED machine /\ UNCHANGED world
           /\ caught = "agent_executing" => ~CanMove("agent_observing")
  <2>1. control.state # "agent_executing"
    BY <1>0, <1>3 DEF CanMove, Allowed
  <2> QED
    BY <1>0, <1>3, <2>1 DEF machine, world
<1> QED
  BY <1>1, <1>2, <1>3 DEF Closed, MoveIfAllowed, Fails

LEMMA VerifySettles == AgentInv /\ Verify => ControlSettles'
  BY DEF Verify, AgentInv, InputInv, ControlInv, TypeOK, CopyAgrees, InputOnce,
         PostingMeans, ControlSettles, Acting, LeaseMeans, Control, Proposal, State,
         Handed, machine, grounds, locals, ledger, world

LEMMA FetchedSettles == AgentInv /\ Fetched => ControlSettles'
  BY DEF Fetched, Ends, AgentInv, InputInv, ControlInv, TypeOK, CopyAgrees, InputOnce,
         PostingMeans, ControlSettles, Acting, LeaseMeans, Control, Proposal, State,
         Handed, machine, grounds, locals, ledger, world

LEMMA VerifiedSettles == AgentInv /\ Verified => ControlSettles'
  BY DEF Verified, Ends, AgentInv, InputInv, ControlInv, TypeOK, CopyAgrees, InputOnce,
         PostingMeans, ControlSettles, Acting, LeaseMeans, Control, Proposal, State,
         Handed, machine, grounds, locals, ledger, world

LEMMA ConcludedSettles == AgentInv /\ Concluded => ControlSettles'
<1> SUFFICES ASSUME AgentInv, Concluded PROVE ControlSettles'
  OBVIOUS
<1> USE DEF AgentInv, InputInv, ControlInv, ControlSettles, grounds, locals, Acting
<1>0. op = "concluding" /\ op' = "idle" /\ TypeOK
      /\ UNCHANGED <<current, proposal, shot, caught>>
  BY DEF Concluded, Ends
<1>1. CASE mishap' = TRUE /\ UNCHANGED machine
  BY <1>0, <1>1 DEF machine
<1>2. CASE Transition("agent_observing") /\ Sync
  <2>1. control'.state = "agent_observing" /\ session' = control'
    BY <1>0, <1>2, Moving, States DEF Sync
  <2> QED
    BY <1>0, <2>1
<1>3. CASE UNCHANGED machine /\ UNCHANGED world /\ ~CanMove("agent_observing")
  <2>1. control.state # "verifying"
    BY <1>3 DEF CanMove, Allowed
  <2> QED
    BY <1>0, <1>3, <2>1 DEF machine, world
<1> QED
  BY <1>1, <1>2, <1>3 DEF Concluded, MoveIfAllowed, Fails

LEMMA UserMoveSettles ==
    ASSUME AgentInv, NEW next \in {"paused", "user_control", "recovering", "stopped"},
           UserMove(next)
    PROVE  ControlSettles'
<1>1. /\ control'.state = next /\ session' = control'
      /\ leased' = (leased /\ next = control.state)
  BY Moving DEF UserMove, Sync, State, Handed, AgentInv, InputInv, ControlInv
<1>2. ~(leased' /\ op' = "grounding")
  BY <1>1 DEF UserMove, AgentInv, InputInv, ControlInv, LeaseMeans
<1> QED
  BY <1>1, <1>2 DEF ControlSettles

LEMMA StepSettles == AgentInv /\ [Next]_vars => AgentInv'
<1> SUFFICES ASSUME AgentInv, [Next]_vars PROVE AgentInv'
  OBVIOUS
<1>1. InputInv'
  BY StepPosts DEF AgentInv
<1>2. CASE Agent
  BY <1>1, <1>2, ObserveSettles, ObservedSettles, ProposeSettles, AnnouncedSettles,
     GroundedSettles, ExpireSettles, DenySettles, BlockedSettles,
     ExecuteSettles, PreflightedSettles, ClaimedSettles, StartedSettles,
     SavedSettles, PostedSettles, CheckedSettles, FiledSettles, ClosedSettles,
     VerifySettles, FetchedSettles, VerifiedSettles, ConcludedSettles DEF Agent, AgentInv
<1>3. CASE User
  BY <1>1, <1>3, UserMoveSettles
     DEF User, Pause, Takeover, Resume, ReturnControl, Stop, AgentInv
<1>4. CASE UNCHANGED vars
  BY <1>1, <1>4 DEF AgentInv, ControlSettles,
                    vars, machine, grounds, locals, ledger, world
<1> QED
  BY <1>2, <1>3, <1>4 DEF Next

(* The invariant behind it: whoever holds the agent's control in an action or *)
(* a confirmation is on the way to settle it, or failed to.                   *)
THEOREM ControlAgentInvariant == Spec => []AgentInv
<1> QED
  BY InitAgent, StepSettles, PTL DEF Spec

(* No sequence of operations, interruptions and refused approvals leaves the  *)
(* agent in a control it cannot leave, unless a save failed or a proposal     *)
(* expired.                                                                   *)
THEOREM ControlAgentCanMove == Spec => []AgentCanMove
<1>1. AgentInv => AgentCanMove
  <2> SUFFICES ASSUME AgentInv, op = "idle", ~mishap,
                      control.state \notin {"stopped", "paused", "user_control"},
                      control.state # Observable
               PROVE  \/ /\ control.state = "awaiting_approval" /\ session = control
                         /\ proposal.mutation /\ proposal.at = current /\ current # 0
                      \/ /\ control.state = "verifying" /\ session = control
                         /\ record = "executed"
    BY DEF AgentCanMove
  <2>1. control.state \in State /\ session.state \in State
    BY DEF AgentInv, InputInv, ControlInv, TypeOK, Control
  <2>2. control.state \notin {"agent_proposing", "agent_executing"}
    BY DEF AgentInv, ControlSettles, Acting
  <2>3. control.state = "awaiting_approval" \/ control.state = "verifying"
    BY <2>1, <2>2 DEF Observable, State, Handed, AgentInv, ControlSettles
  <2> QED
    BY <2>3 DEF AgentInv, ControlSettles
<1> QED
  BY <1>1, ControlAgentInvariant, PTL
(***************************************************************************)
(* Terminals.                                                              *)
(***************************************************************************)

(* A step of one command keeps the invariant when the command it becomes is   *)
(* well formed, and so are the directory it leaves and the place it ran in.   *)
LEMMA TerminalsCommand ==
    ASSUME Shells!TerminalsInv, UNCHANGED <<stage, shell, temp, pending, linked, fed>>,
           NEW e \in Execs, NEW x \in Shells!Command, Shells!StillReal(x),
           exec' = [exec EXCEPT ![e] = x],
           DOMAIN cwd' = Terminal, \A t \in Terminal : cwd'[t] \in {"root", "sub"},
           \A r \in ran' : r.dir = "outside" => r.stale
    PROVE  Shells!TerminalsInv'
<1>1. DOMAIN exec' = Execs
  BY DEF Shells!TerminalsInv
<1>2. ASSUME NEW f \in Execs PROVE exec'[f] \in Shells!Command /\ Shells!StillReal(exec[f])'
  <2>1. exec'[f] = x \/ exec'[f] = exec[f]
    BY DEF Shells!TerminalsInv
  <2> QED
    BY <2>1 DEF Shells!TerminalsInv, Shells!StillReal, Shells!Real
<1>3. Shells!StaysInside'
  BY DEF Shells!StaysInside
<1> QED
  BY <1>1, <1>2, <1>3 DEF Shells!TerminalsInv, Shells!TerminalsContained, Shells!CommandsChecked,
     Shells!TempFollowsShell, Shells!Command

(* Every step keeps the commands checked and the working directories inside. *)
LEMMA TerminalsStep ==
    ASSUME Shells!TerminalsInv, [Shells!Next]_(Shells!vars)
    PROVE  Shells!TerminalsInv'
<1> USE DEF Shells!TerminalsInv, Shells!TerminalsContained, Shells!CommandsChecked, Shells!StaysInside,
            Shells!TempFollowsShell, Shells!Command, Shells!StillReal, Shells!Real
<1>1. ASSUME NEW t \in Terminal, Shells!Create(t) PROVE Shells!TerminalsInv'
  BY <1>1 DEF Shells!Create
<1>2. ASSUME NEW t \in Terminal, Shells!Spawn(t) PROVE Shells!TerminalsInv'
  BY <1>2 DEF Shells!Spawn
<1>3. ASSUME NEW t \in Terminal, Shells!ShellExits(t) PROVE Shells!TerminalsInv'
  BY <1>3 DEF Shells!ShellExits
<1>4. ASSUME NEW t \in Terminal, Shells!Kill(t) \/ Shells!GraceOver(t) \/ Shells!KillEnds(t) PROVE Shells!TerminalsInv'
  BY <1>4 DEF Shells!Kill, Shells!GraceOver, Shells!KillEnds
<1>5. ASSUME NEW t \in Terminal, NEW p \in Shells!Pieces, NEW approved \in BOOLEAN,
             Shells!Write(t, p, approved)
      PROVE  Shells!TerminalsInv'
  <2>1. \/ fed' = fed
        \/ /\ fed' = fed \cup {[input |-> Append(pending[t], p), approved |-> approved]}
           /\ Shells!Verdict(Append(pending[t], p)) # "deny"
           /\ Shells!Verdict(Append(pending[t], p)) = "write" => approved
    BY <1>5 DEF Shells!Write, Shells!Classified
  <2>2. Shells!CommandsChecked'
    <3> SUFFICES ASSUME NEW c \in fed'
                 PROVE  Shells!Verdict(c.input) # "deny" /\ (Shells!Verdict(c.input) = "write" => c.approved)
      BY DEF Shells!CommandsChecked
    <3>1. CASE c \in fed
      BY <3>1
    <3>2. CASE c \notin fed
      <4>1. c = [input |-> Append(pending[t], p), approved |-> approved]
        BY <2>1, <3>2
      <4>2. c.input = Append(pending[t], p) /\ c.approved = approved
        BY <4>1
      <4> HIDE DEF Shells!CommandsChecked
      <4> QED
        BY <2>1, <3>2, <4>2
    <3> QED
      BY <3>1, <3>2
  <2> QED
    BY <1>5, <2>2 DEF Shells!Write
<1>6. ASSUME NEW t \in Terminal, NEW e \in Execs, Shells!Exec(e, t) PROVE Shells!TerminalsInv'
  <2> DEFINE x == [Shells!NoExec EXCEPT !.pc = "realpath", !.t = t, !.at = cwd[t]]
  <2>1. x \in Shells!Command /\ x.pc = "realpath" /\ Shells!StillReal(x)
    BY DEF Shells!NoExec
  <2>2. exec' = [exec EXCEPT ![e] = x]
    BY <1>6 DEF Shells!Exec
  <2>3. /\ UNCHANGED <<stage, shell, temp, pending, linked, fed, ran, cwd>>
        /\ DOMAIN cwd' = Terminal /\ \A u \in Terminal : cwd'[u] \in {"root", "sub"}
        /\ \A r \in ran' : r.dir = "outside" => r.stale
    BY <1>6 DEF Shells!Exec
  <2> HIDE DEF x, Shells!TerminalsInv, Shells!Command, Shells!StillReal
  <2> QED
    BY <2>1, <2>2, <2>3, TerminalsCommand
<1>7. ASSUME NEW e \in Execs, NEW to \in {"check", "running", "done"}, exec' = [exec EXCEPT ![e].pc = to],
             to = "check" => exec[e].pc = "stat",
             UNCHANGED <<stage, shell, temp, pending, linked, fed>>,
             DOMAIN cwd' = Terminal, \A t \in Terminal : cwd'[t] \in {"root", "sub"},
             \A r \in ran' : r.dir = "outside" => r.stale
      PROVE  Shells!TerminalsInv'
  <2> DEFINE x == [exec[e] EXCEPT !.pc = to]
  <2>1. x \in Shells!Command /\ x.pc = to /\ x.at = exec[e].at /\ x.stale = exec[e].stale
    OBVIOUS
  <2>2. Shells!StillReal(x)
    BY <1>7, <2>1
  <2>3. exec' = [exec EXCEPT ![e] = x]
    BY <1>7
  <2> HIDE DEF x
  <2> QED
    BY <1>7, <2>1, <2>2, <2>3, TerminalsCommand
<1>8. ASSUME NEW e \in Execs, Shells!Realpath(e) PROVE Shells!TerminalsInv'
  <2> DEFINE x == [exec[e] EXCEPT !.pc = "stat", !.at = Shells!Real(exec[e].at), !.stale = FALSE]
  <2>1. CASE exec' = [exec EXCEPT ![e].pc = "stat", ![e].at = Shells!Real(exec[e].at), ![e].stale = FALSE]
    <3>0. exec[e] \in Shells!Command /\ Shells!Real(exec[e].at) \in {"root", "sub", "outside"}
      OBVIOUS
    <3>1. x \in Shells!Command /\ x.at = Shells!Real(exec[e].at)
      BY <3>0
    <3>2. Shells!StillReal(x)
      BY <3>1
    <3>3. exec' = [exec EXCEPT ![e] = x]
      BY <2>1
    <3> HIDE DEF x
    <3> QED
      BY <1>8, <3>1, <3>2, <3>3, TerminalsCommand DEF Shells!Realpath
  <2>2. CASE exec' = [exec EXCEPT ![e].pc = "done"]
    BY <1>7, <1>8, <2>2 DEF Shells!Realpath
  <2> QED
    BY <1>8, <2>1, <2>2 DEF Shells!Realpath
<1>9. ASSUME NEW e \in Execs, Shells!Stat(e) PROVE Shells!TerminalsInv'
  BY <1>7, <1>9 DEF Shells!Stat
<1>10. ASSUME NEW e \in Execs, Shells!Start(e) PROVE Shells!TerminalsInv'
  <2>1. CASE ran' = ran
    BY <1>7, <1>10, <2>1 DEF Shells!Start
  <2>2. CASE ran' # ran
    <3>1. /\ Shells!Inside(exec[e].at) /\ exec' = [exec EXCEPT ![e].pc = "running"] /\ cwd' = cwd
          /\ ran' = ran \cup {[dir |-> Shells!Real(exec[e].at), stale |-> exec[e].stale]}
      BY <1>10, <2>2 DEF Shells!Start
    <3>2. Shells!Real(exec[e].at) = "outside" => exec[e].stale
      BY <1>10, <3>1 DEF Shells!Start, Shells!Inside
    <3> HIDE DEF Shells!Real
    <3>3. \A r \in ran' : r.dir = "outside" => r.stale
      <4> SUFFICES ASSUME NEW r \in ran', r.dir = "outside" PROVE r.stale
        OBVIOUS
      <4>1. r \in ran \/ r = [dir |-> Shells!Real(exec[e].at), stale |-> exec[e].stale]
        BY <3>1
      <4> QED
        BY <4>1, <3>2
    <3> QED
      BY <1>7, <1>10, <3>1, <3>3 DEF Shells!Start
  <2> QED
    BY <2>1, <2>2
<1>11. ASSUME NEW e \in Execs, Shells!ExecEnds(e) PROVE Shells!TerminalsInv'
  <2>1. ASSUME NEW d \in {"root", "sub", "outside"},
               exec' = [exec EXCEPT ![e].pc = "realpath", ![e].phase = "end", ![e].at = d]
        PROVE  Shells!TerminalsInv'
    <3> DEFINE x == [exec[e] EXCEPT !.pc = "realpath", !.phase = "end", !.at = d]
    <3>0. exec[e] \in Shells!Command
      OBVIOUS
    <3>1. x \in Shells!Command /\ x.pc = "realpath" /\ Shells!StillReal(x)
      BY <3>0
    <3>2. exec' = [exec EXCEPT ![e] = x]
      BY <2>1
    <3> HIDE DEF x
    <3> QED
      BY <1>11, <3>1, <3>2, TerminalsCommand DEF Shells!ExecEnds
  <2>2. CASE exec' = [exec EXCEPT ![e].pc = "done"]
    BY <1>7, <1>11, <2>2 DEF Shells!ExecEnds
  <2> QED
    BY <1>11, <2>1, <2>2 DEF Shells!ExecEnds
<1>12. ASSUME NEW e \in Execs, Shells!Moved(e) PROVE Shells!TerminalsInv'
  <2>1. \A t \in Terminal : cwd'[t] \in {"root", "sub"}
    <3>1. exec[e].at \in {"root", "sub"} \/ ~Shells!Inside(exec[e].at)
      BY DEF Shells!Inside
    <3> QED
      BY <1>12, <3>1 DEF Shells!Moved
  <2> QED
    BY <1>7, <1>12, <2>1 DEF Shells!Moved
<1>13. ASSUME Shells!Relink PROVE Shells!TerminalsInv'
  <2>1. ASSUME NEW e \in Execs PROVE exec'[e] \in Shells!Command /\ Shells!StillReal(exec[e])'
    <3>1. CASE exec[e].pc \in {"stat", "check"}
      <4>1. exec'[e] = [exec[e] EXCEPT !.stale = TRUE]
        BY <1>13, <3>1 DEF Shells!Relink
      <4> QED
        BY <4>1
    <3>2. CASE exec[e].pc \notin {"stat", "check"}
      <4>1. exec'[e] = exec[e]
        BY <1>13, <3>2 DEF Shells!Relink
      <4> QED
        BY <3>2, <4>1
    <3> QED
      BY <3>1, <3>2
  <2>2. DOMAIN exec' = Execs /\ linked' \in BOOLEAN
    BY <1>13 DEF Shells!Relink
  <2> QED
    BY <1>13, <2>1, <2>2 DEF Shells!Relink
<1>14. ASSUME UNCHANGED Shells!vars PROVE Shells!TerminalsInv'
  BY <1>14 DEF Shells!vars
<1> QED
  BY <1>1, <1>2, <1>3, <1>4, <1>5, <1>6, <1>8, <1>9, <1>10, <1>11, <1>12, <1>13, <1>14 DEF Shells!Next

(* Terminals: every state satisfies the inductive invariant, for any number  *)
(* of terminals, commands and pieces of input.                               *)
THEOREM TerminalsInvariant == Shells!Init /\ [][Shells!Next]_(Shells!vars) => []Shells!TerminalsInv
<1>1. ASSUME Shells!Init PROVE Shells!TerminalsInv
  <2> USE DEF Shells!Init
  <2>1. ASSUME NEW e \in Execs PROVE exec[e] \in Shells!Command /\ Shells!StillReal(exec[e])
    BY <1>1 DEF Shells!Command, Shells!StillReal, Shells!NoExec
  <2> QED
    BY <1>1, <2>1 DEF Shells!TerminalsInv, Shells!TerminalsContained, Shells!CommandsChecked,
       Shells!StaysInside, Shells!TempFollowsShell
<1>2. Shells!TerminalsInv /\ [Shells!Next]_(Shells!vars) => Shells!TerminalsInv'
  BY TerminalsStep
<1> QED
  BY <1>1, <1>2, PTL

(***************************************************************************)
(* Workflow definitions under their runs.                                  *)
(***************************************************************************)

(* A step of run r that executes nothing and keeps its approval.             *)
LEMMA DefinitionsSet ==
    ASSUME Definitions!DefinitionsInv, NEW r \in WorkflowRuns, NEW status, status # Definitions!None, NEW succeeded,
           Definitions!Set(r, status, succeeded), DOMAIN loop' = WorkflowRuns, executed' = executed,
           \A q \in WorkflowRuns : q # r => loop'[q] = loop[q]
    PROVE  Definitions!DefinitionsInv'
<1>1. /\ \A q \in WorkflowRuns : definitionsRun'[q].approval = definitionsRun[q].approval
      /\ definitionsRun'[r].status # Definitions!None /\ DOMAIN definitionsRun' = WorkflowRuns
      /\ \A q \in WorkflowRuns : q # r => definitionsRun'[q] = definitionsRun[q]
  <2>1. DOMAIN definitionsRun = WorkflowRuns
    BY DEF Definitions!DefinitionsInv
  <2>2. definitionsRun'[r] = [definitionsRun[r] EXCEPT !.status = status, !.succeeded = succeeded]
    BY <2>1 DEF Definitions!Set
  <2>3. definitionsRun'[r].approval = definitionsRun[r].approval
    BY <2>2
  <2> QED
    BY <2>1, <2>2, <2>3 DEF Definitions!Set
<1> QED
  BY <1>1 DEF Definitions!DefinitionsInv, Definitions!MutationsApproved

(* Every step of an edit or a run keeps it.                                  *)
LEMMA DefinitionsStep ==
    ASSUME Definitions!DefinitionsInv, [Definitions!Next]_(Definitions!vars)
    PROVE  Definitions!DefinitionsInv'
<1>1. ASSUME NEW e \in Edits, Definitions!Save(e) \/ \E what \in {"patch", "describe", "publish", "archive"} : Definitions!Begin(e, what)
      PROVE  Definitions!DefinitionsInv'
  <2>1. UNCHANGED <<definitionsRun, loop, executed>>
    BY <1>1 DEF Definitions!Save, Definitions!Begin
  <2> QED
    BY <2>1 DEF Definitions!DefinitionsInv, Definitions!MutationsApproved
<1>2. ASSUME NEW r \in WorkflowRuns, NEW approval \in BOOLEAN, Definitions!CreateRun(r, approval) PROVE Definitions!DefinitionsInv'
  BY <1>2 DEF Definitions!CreateRun, Definitions!DefinitionsInv, Definitions!MutationsApproved, Definitions!None
<1>3. ASSUME NEW r \in WorkflowRuns, Definitions!Resume(r) PROVE Definitions!DefinitionsInv'
  BY <1>3 DEF Definitions!Resume, Definitions!DefinitionsInv, Definitions!MutationsApproved, Definitions!None
<1>4. ASSUME NEW r \in WorkflowRuns, Definitions!Load(r) PROVE Definitions!DefinitionsInv'
  BY <1>4, DefinitionsSet DEF Definitions!Load, Definitions!DefinitionsInv, Definitions!None
<1>5. ASSUME NEW r \in WorkflowRuns, Definitions!NextStep(r) PROVE Definitions!DefinitionsInv'
  <2>0. PICK doc \in loop[r].read : \E s :
          \/ \E status \in {"failed", "paused"} :
               Definitions!Set(r, status, definitionsRun[r].succeeded) /\ Definitions!Leave(r) /\ executed' = executed
          \/ /\ ~Definitions!WithoutApproval(r, doc, s)
             /\ executed' = executed \cup {[run |-> r, step |-> s, mutation |-> s \in doc.mutations]}
             /\ loop' = [loop EXCEPT ![r].at = "executing", ![r].step = s]
             /\ UNCHANGED definitionsRun
    BY <1>5 DEF Definitions!NextStep
  <2>1. PICK s :
          \/ \E status \in {"failed", "paused"} :
               Definitions!Set(r, status, definitionsRun[r].succeeded) /\ Definitions!Leave(r) /\ executed' = executed
          \/ /\ ~Definitions!WithoutApproval(r, doc, s)
             /\ executed' = executed \cup {[run |-> r, step |-> s, mutation |-> s \in doc.mutations]}
             /\ loop' = [loop EXCEPT ![r].at = "executing", ![r].step = s]
             /\ UNCHANGED definitionsRun
    BY <2>0
  <2>2. CASE \E status \in {"failed", "paused"} :
               Definitions!Set(r, status, definitionsRun[r].succeeded) /\ Definitions!Leave(r) /\ executed' = executed
    BY <2>2, DefinitionsSet DEF Definitions!Leave, Definitions!DefinitionsInv, Definitions!None
  <2>3. CASE /\ ~Definitions!WithoutApproval(r, doc, s)
             /\ executed' = executed \cup {[run |-> r, step |-> s, mutation |-> s \in doc.mutations]}
             /\ loop' = [loop EXCEPT ![r].at = "executing", ![r].step = s]
             /\ UNCHANGED definitionsRun
    <3>1. loop[r].at = "next"
      BY <1>5 DEF Definitions!NextStep
    <3>2. \A x \in executed' : x.run \in WorkflowRuns /\ definitionsRun[x.run].status # Definitions!None
                               /\ (x.mutation => definitionsRun[x.run].approval)
      <4> SUFFICES ASSUME NEW x \in executed', x \notin executed
                   PROVE  x.run \in WorkflowRuns /\ definitionsRun[x.run].status # Definitions!None
                          /\ (x.mutation => definitionsRun[x.run].approval)
        BY DEF Definitions!DefinitionsInv, Definitions!MutationsApproved
      <4>1. x = [run |-> r, step |-> s, mutation |-> s \in doc.mutations]
        BY <2>3
      <4>2. x.run = r /\ (x.mutation => s \in doc.mutations)
        BY <4>1
      <4>3. s \in doc.mutations => definitionsRun[r].approval
        BY <2>3 DEF Definitions!WithoutApproval
      <4> QED
        BY <4>2, <4>3, <3>1 DEF Definitions!DefinitionsInv
    <3> QED
      BY <2>3, <3>1, <3>2 DEF Definitions!DefinitionsInv, Definitions!MutationsApproved
  <2> QED
    BY <2>1, <2>2, <2>3
<1>6. ASSUME NEW r \in WorkflowRuns, Definitions!StepEnds(r) PROVE Definitions!DefinitionsInv'
  <2>0. PICK status \in {"running", "paused"} : \E succeeded : Definitions!Set(r, status, succeeded)
    BY <1>6 DEF Definitions!StepEnds
  <2>1. PICK succeeded : Definitions!Set(r, status, succeeded)
    BY <2>0
  <2> QED
    BY <1>6, <2>1, DefinitionsSet DEF Definitions!StepEnds, Definitions!Leave, Definitions!DefinitionsInv, Definitions!None
<1>7. ASSUME NEW r \in WorkflowRuns, Definitions!Complete(r) PROVE Definitions!DefinitionsInv'
  BY <1>7, DefinitionsSet DEF Definitions!Complete, Definitions!Leave, Definitions!DefinitionsInv, Definitions!None
<1>8. CASE UNCHANGED Definitions!vars
  BY <1>8 DEF Definitions!vars, Definitions!DefinitionsInv, Definitions!MutationsApproved
<1> QED
  BY <1>1, <1>2, <1>3, <1>4, <1>5, <1>6, <1>7, <1>8 DEF Definitions!Next

(* Workflow definitions: whatever is edited under a run, its executed        *)
(* mutations belong to an approved run.                                      *)
THEOREM DefinitionsInvariant == Definitions!Spec => []Definitions!DefinitionsInv
<1>1. Definitions!Init => Definitions!DefinitionsInv
  BY DEF Definitions!Init, Definitions!DefinitionsInv, Definitions!MutationsApproved
<1>2. Definitions!DefinitionsInv /\ [Definitions!Next]_(Definitions!vars) => Definitions!DefinitionsInv'
  BY DefinitionsStep
<1> QED
  BY <1>1, <1>2, PTL DEF Definitions!Spec

(***************************************************************************)
(* The ledger of plug-in mutations.                                        *)
(***************************************************************************)

(* The key of an ordinal is one of the keys of the ledger.                   *)
LEMMA MutationKeys ==
    ASSUME NEW i \in Invocations, NEW n \in Tools!Ordinals
    PROVE  Tools!Key(i, n) \in Tools!IdempotencyKeys
  BY ServicesAssumption DEF Tools!MutationAssumption, Tools!Key, Tools!IdempotencyKeys

(* Every step of a call, of its settlement and of a crash keeps the ledger.  *)
LEMMA MutationsStep ==
    ASSUME Tools!MutationsInv, [Tools!Next]_(Tools!vars)
    PROVE  Tools!MutationsInv'
<1> USE ServicesAssumption DEF Tools!MutationAssumption, Tools!MutationsInv, Tools!LedgerKeepsMutations, Tools!DispatchedOnce, Tools!NothingForgotten,
               Tools!NoGate, Tools!Unresolved
<1>1. ASSUME UNCHANGED <<gate, toolsRecord, effects>> PROVE Tools!MutationsInv'
  BY <1>1
<1>2. ASSUME NEW i \in Invocations, NEW n \in Tools!Ordinals, Tools!Begin(i, n) PROVE Tools!MutationsInv'
  <2>1. CASE Tools!Refuses(i, n)
    BY <1>2, <2>1, <1>1 DEF Tools!Begin
  <2>2. CASE ~Tools!Refuses(i, n)
    <3> DEFINE k == Tools!Key(i, n)
    <3>1. k \in Tools!IdempotencyKeys /\ toolsRecord[k] = Tools!NoRecord /\ gate.inv \in {NoInv, i}
      BY <2>2, MutationKeys DEF Tools!Refuses
    <3>2. /\ gate' = Tools!OpenGate(i)
          /\ toolsRecord' = [toolsRecord EXCEPT ![k] = [inv |-> i, state |-> "dispatched"]]
          /\ effects' = [effects EXCEPT ![k] = @ + 1]
      BY <1>2, <2>2 DEF Tools!Begin
    <3>3. gate'.inv = i /\ gate' \in [inv : Invocations \cup {NoInv}, state : {"none", "dispatched", "outcome_unknown"}]
      BY <3>1, <3>2 DEF Tools!OpenGate
    <3>4. effects[k] = 0
      BY <3>1 DEF Tools!NoRecord
    <3>5. \A l \in Tools!IdempotencyKeys : l # k => toolsRecord'[l] = toolsRecord[l] /\ effects'[l] = effects[l]
      BY <3>2
    <3>6. toolsRecord'[k] = [inv |-> i, state |-> "dispatched"] /\ effects'[k] = 1
      BY <3>1, <3>2, <3>4
    <3>7. toolsRecord' \in [Tools!IdempotencyKeys ->
            [inv : Invocations \cup {NoInv},
             state : {"none", "dispatched", "outcome_unknown", "completed", "reconciled"}]]
          /\ effects' \in [Tools!IdempotencyKeys -> 0..1]
      BY <3>1, <3>2, <3>4
    <3>8. \A l \in Tools!IdempotencyKeys : toolsRecord[l].inv = gate.inv /\ effects[l] > 0 => gate.inv = i
      BY <3>1
    <3>9. gate'.inv # NoInv /\ gate' # Tools!NoGate
      BY <3>3
    <3>10. \A l \in Tools!IdempotencyKeys :
             /\ effects'[l] <= 1
             /\ effects'[l] = 1 => toolsRecord'[l].inv # NoInv
             /\ effects'[l] > 0 => \/ toolsRecord'[l].state \in {"completed", "reconciled"}
                                   \/ toolsRecord'[l].state \in Tools!Unresolved /\ gate'.inv = toolsRecord'[l].inv
      <4> SUFFICES ASSUME NEW l \in Tools!IdempotencyKeys, effects'[l] > 0
                   PROVE  /\ effects'[l] <= 1 /\ toolsRecord'[l].inv # NoInv
                          /\ \/ toolsRecord'[l].state \in {"completed", "reconciled"}
                             \/ toolsRecord'[l].state \in Tools!Unresolved /\ gate'.inv = toolsRecord'[l].inv
        BY <3>7
      <4>1. CASE l = k
        BY <4>1, <3>3, <3>6
      <4>2. CASE l # k
        <5>1. toolsRecord'[l] = toolsRecord[l] /\ effects[l] > 0 /\ effects'[l] = effects[l]
          BY <4>2, <3>5
        <5> QED
          BY <5>1, <3>3, <3>8
      <4> QED
        BY <4>1, <4>2
    <3> QED
      BY <3>3, <3>7, <3>9, <3>10
  <2> QED
    BY <2>1, <2>2
<1>3. ASSUME NEW i \in Invocations, NEW s \in {"completed", "reconciled", "outcome_unknown"},
             gate.inv = i, toolsRecord' = Tools!Settled(i, s), effects' = effects,
             gate' = IF s = "outcome_unknown" THEN [inv |-> i, state |-> s] ELSE Tools!NoGate
      PROVE  Tools!MutationsInv'
  BY <1>3 DEF Tools!Settled
<1>4. ASSUME NEW i \in Invocations, Tools!Conclude(i) PROVE Tools!MutationsInv'
  BY <1>1, <1>3, <1>4 DEF Tools!Conclude, Tools!TellLedger
<1>5. ASSUME NEW i \in Invocations, NEW d, Tools!Reconcile(i, d) PROVE Tools!MutationsInv'
  BY <1>3, <1>5 DEF Tools!Reconcile, Tools!MayDecide
<1>6. ASSUME NEW i \in Invocations, NEW s \in {"completed", "reconciled", "outcome_unknown"},
             gate.inv = i, Tools!SomeSettled(i, s), effects' = effects,
             gate' = gate \/ gate' = [inv |-> i, state |-> "outcome_unknown"]
      PROVE  Tools!MutationsInv'
  BY <1>6 DEF Tools!SomeSettled
<1>7. ASSUME Tools!Crash PROVE Tools!MutationsInv'
  <2>0. effects' = effects
    BY <1>7 DEF Tools!Crash
  <2>1. ASSUME NEW i \in Invocations, NEW n \in Tools!Ordinals, Tools!TornBegin(i, n) PROVE Tools!MutationsInv'
    BY <2>0, <2>1 DEF Tools!TornBegin, Tools!OpenGate, Tools!Refuses
  <2>2. ASSUME NEW i \in Invocations, Tools!TornConclude(i) PROVE Tools!MutationsInv'
    BY <2>0, <2>2, <1>6 DEF Tools!TornConclude, Tools!TellsLedger
  <2>3. ASSUME NEW i \in Invocations, NEW d, Tools!TornReconcile(i, d) PROVE Tools!MutationsInv'
    BY <2>0, <2>3, <1>6 DEF Tools!TornReconcile, Tools!MayDecide
  <2> QED
    BY <1>7, <2>0, <2>1, <2>2, <2>3, <1>1 DEF Tools!Crash, Tools!ledger
<1> QED
  BY <1>1, <1>2, <1>4, <1>5, <1>7 DEF Tools!Next, Tools!vars, Tools!ledger, Tools!CheckGate, Tools!Start, Tools!Request, Tools!HostResult, Tools!HostError, Tools!Timeout, Tools!Fail, Tools!Finish, Tools!HandlerReturns, Tools!SetCap

(* Plug-in mutations: a mutation that was dispatched stands in the ledger,   *)
(* settled or blocking the next invocation, for any number of calls and      *)
(* crashes.                                                                  *)
THEOREM MutationsInvariant == Tools!Init /\ [][Tools!Next]_(Tools!vars) => []Tools!MutationsInv
<1>1. Tools!Init => Tools!MutationsInv
  BY ServicesAssumption DEF Tools!MutationAssumption, Tools!Init, Tools!MutationsInv, Tools!LedgerKeepsMutations, Tools!DispatchedOnce, Tools!NothingForgotten, Tools!NoGate, Tools!NoRecord
<1>2. Tools!MutationsInv /\ [Tools!Next]_(Tools!vars) => Tools!MutationsInv'
  BY MutationsStep
<1> QED
  BY <1>1, <1>2, PTL

(***************************************************************************)
(* Browser sessions.                                                       *)
(***************************************************************************)

(* A step of one call that spawns nothing and finds nothing: what it will    *)
(* work on from here, and the record, are as good as before.                 *)
LEMMA BrowsersCallStep ==
    ASSUME Browsers!BrowsersInv, UNCHANGED <<Browsers!world, bound>>, browsersRecord' \in Browsers!Records, Browsers!Faithful(browsersRecord'),
           NEW c \in BrowserCalls, NEW k \in Browsers!CallRecords, Browsers!CallOK(k), browsersCall' = [browsersCall EXCEPT ![c] = k],
           Browsers!Starting(k) => Browsers!Starting(browsersCall[c]) /\ k.read.pid = browsersCall[c].read.pid
    PROVE  Browsers!BrowsersInv'
<1> USE DEF Browsers!BrowsersInv, Browsers!world
<1>1. /\ browsersCall' \in [BrowserCalls -> Browsers!CallRecords]
      /\ \A d \in BrowserCalls : Browsers!CallOK(browsersCall'[d])
  OBVIOUS
<1>2. Browsers!Records' = Browsers!Records /\ Browsers!CallRecords' = Browsers!CallRecords
  BY DEF Browsers!Records, Browsers!CallRecords
<1>3. \A r : Browsers!Faithful(r)' <=> Browsers!Faithful(r)
  BY DEF Browsers!Faithful
<1>4. \A d \in BrowserCalls : Browsers!CallOK(browsersCall[d])'
  BY <1>1 DEF Browsers!CallOK, Browsers!Faithful, Browsers!Starting
<1>5. Browsers!Faithful(browsersRecord)'
  BY DEF Browsers!Faithful
<1>6. \A d, e \in BrowserCalls :
        Browsers!Starting(browsersCall'[d]) /\ Browsers!Starting(browsersCall'[e]) /\ browsersCall'[d].read.pid = browsersCall'[e].read.pid
          => d = e
  OBVIOUS
<1> QED
  BY <1>1, <1>2, <1>4, <1>5, <1>6 DEF Browsers!Starting

(* What a call holds.                                                        *)
LEMMA BrowsersTypes ==
    ASSUME Browsers!BrowsersInv, NEW c \in BrowserCalls
    PROVE  /\ browsersCall[c] \in Browsers!CallRecords /\ Browsers!CallOK(browsersCall[c])
           /\ browsersCall[c].read \in Browsers!Records /\ browsersCall[c].seen \in Nat /\ browsersCall[c].kind \in Browsers!Kinds \cup {Browsers!None}
           /\ Browsers!NoCall \in Browsers!CallRecords /\ Browsers!CallOK(Browsers!NoCall) /\ ~Browsers!Starting(Browsers!NoCall)
  BY ServicesAssumption DEF Browsers!BrowserAssumption, Browsers!BrowsersInv, Browsers!CallRecords, Browsers!Records, Browsers!NoCall, Browsers!NoRecord, Browsers!CallOK, Browsers!Faithful, Browsers!Starting, Browsers!None, Browsers!Kinds

(* The same call, further on.                                               *)
LEMMA BrowsersGo ==
    ASSUME Browsers!BrowsersInv, NEW c \in BrowserCalls, NEW at \in {"waiting", "mismatch", "terminated"}, Browsers!Go(c, at),
           at = "waiting" => Browsers!Starting(browsersCall[c]), UNCHANGED <<Browsers!world, bound>>, browsersRecord' \in Browsers!Records, Browsers!Faithful(browsersRecord')
    PROVE  Browsers!BrowsersInv'
<1> DEFINE k == [browsersCall[c] EXCEPT !.at = at]
<1>1. /\ browsersCall[c] \in Browsers!CallRecords /\ Browsers!CallOK(browsersCall[c])
  BY BrowsersTypes
<1>2. k \in Browsers!CallRecords /\ k.at = at /\ k.read = browsersCall[c].read
  BY <1>1 DEF Browsers!CallRecords
<1>3. Browsers!CallOK(k)
  BY <1>1, <1>2 DEF Browsers!CallOK, Browsers!Starting
<1>4. browsersCall' = [browsersCall EXCEPT ![c] = k]
  BY DEF Browsers!Go
<1>5. Browsers!Starting(k) => Browsers!Starting(browsersCall[c])
  BY <1>2 DEF Browsers!Starting
<1> QED
  BY <1>2, <1>3, <1>4, <1>5, BrowsersCallStep

(* A call that ends, with a record as good as before.                        *)
LEMMA BrowsersLeave ==
    ASSUME Browsers!BrowsersInv, NEW c \in BrowserCalls, Browsers!Leave(c),
           UNCHANGED <<Browsers!world, bound>>, browsersRecord' \in Browsers!Records, Browsers!Faithful(browsersRecord')
    PROVE  Browsers!BrowsersInv'
  BY BrowsersTypes, BrowsersCallStep DEF Browsers!Leave

(* Every step of a request, the browser and a restart keeps the bindings     *)
(* faithful.                                                                 *)
LEMMA BrowsersStep ==
    ASSUME Browsers!BrowsersInv, [Browsers!Next]_(Browsers!vars)
    PROVE  Browsers!BrowsersInv'
<1> USE ServicesAssumption DEF Browsers!BrowserAssumption
<1>0. browsersRecord \in Browsers!Records /\ Browsers!Faithful(browsersRecord)
  BY DEF Browsers!BrowsersInv
<1>1. ASSUME NEW c \in BrowserCalls, NEW what \in Browsers!Kinds, Browsers!Begin(c, what) PROVE Browsers!BrowsersInv'
  <2> DEFINE k == [kind |-> what, at |-> "read", read |-> browsersRecord, seen |-> 0]
  <2>1. k \in Browsers!CallRecords /\ Browsers!CallOK(k) /\ ~Browsers!Starting(k)
    BY <1>0 DEF Browsers!CallRecords, Browsers!CallOK, Browsers!Starting
  <2>2. browsersCall' = [browsersCall EXCEPT ![c] = k] /\ UNCHANGED <<browsersRecord, Browsers!world, bound>>
    BY <1>1 DEF Browsers!Begin
  <2> QED
    BY <2>1, <2>2, <1>0, BrowsersCallStep
<1>2. ASSUME NEW c \in BrowserCalls, Browsers!Launch(c) PROVE Browsers!BrowsersInv'
  <2> DEFINE r == [status |-> "starting", pid |-> launched + 1, window |-> 0]
             k == [kind |-> "start", at |-> "spawned", seen |-> 0, read |-> r]
  <2>1. /\ launched' = launched + 1 /\ launched \in Nat /\ launched < MaxPid
        /\ browsersCall' = [browsersCall EXCEPT ![c] = k]
        /\ UNCHANGED <<browsersRecord, window, bound>>
    BY <1>2 DEF Browsers!Launch, Browsers!BrowsersInv
  <2>2. Browsers!Records \subseteq Browsers!Records'
    BY <2>1 DEF Browsers!Records
  <2>3. Browsers!CallRecords \subseteq Browsers!CallRecords' /\ k \in Browsers!CallRecords'
    BY <2>1, <2>2 DEF Browsers!CallRecords, Browsers!Records, Browsers!Kinds
  <2>4. /\ k.read.pid = launched + 1 /\ k.read.window = 0 /\ k.read.status = "starting"
        /\ k.at = "spawned" /\ bound[launched + 1] = 0
    BY <2>1 DEF Browsers!BrowsersInv, Browsers!Pids
  <2>5. \A d \in BrowserCalls : d # c => browsersCall'[d] = browsersCall[d] /\ browsersCall[d].read.pid <= launched
    BY <2>1 DEF Browsers!BrowsersInv, Browsers!CallRecords, Browsers!Records
  <2>7. browsersCall' \in [BrowserCalls -> Browsers!CallRecords'] /\ browsersCall'[c] = k
    BY <2>1, <2>3 DEF Browsers!BrowsersInv
  <2>6. \A d \in BrowserCalls : Browsers!CallOK(browsersCall[d])'
    <3> SUFFICES ASSUME NEW d \in BrowserCalls PROVE Browsers!CallOK(browsersCall[d])'
      OBVIOUS
    <3>1. CASE d = c
      BY <3>1, <2>1, <2>4, <2>7 DEF Browsers!CallOK, Browsers!Starting, Browsers!Faithful
    <3>2. CASE d # c
      BY <3>2, <2>1, <2>5, BrowsersTypes DEF Browsers!CallOK, Browsers!Starting, Browsers!Faithful
    <3> QED
      BY <3>1, <3>2
  <2>8. \A d, e \in BrowserCalls :
          Browsers!Starting(browsersCall'[d]) /\ Browsers!Starting(browsersCall'[e]) /\ browsersCall'[d].read.pid = browsersCall'[e].read.pid
            => d = e
    BY <2>1, <2>4, <2>5, <2>7 DEF Browsers!BrowsersInv
  <2> QED
    BY <2>1, <2>2, <2>6, <2>7, <2>8 DEF Browsers!BrowsersInv, Browsers!Faithful, Browsers!Pids, Browsers!Starting
<1>3. ASSUME NEW c \in BrowserCalls, Browsers!SaveStarting(c) PROVE Browsers!BrowsersInv'
  <2>1. browsersRecord' = browsersCall[c].read /\ Browsers!Go(c, "waiting") /\ Browsers!Starting(browsersCall[c]) /\ UNCHANGED <<Browsers!world, bound>>
    BY <1>3 DEF Browsers!SaveStarting, Browsers!At, Browsers!Starting
  <2> QED
    BY <2>1, BrowsersTypes, BrowsersGo DEF Browsers!CallOK
<1>4. ASSUME NEW c \in BrowserCalls, Browsers!WindowAppears(c) PROVE Browsers!BrowsersInv'
  <2> DEFINE p == browsersCall[c].read.pid
             r == [status |-> "connected", pid |-> p, window |-> window[p]]
  <2>0. PICK k : k = [browsersCall[c] EXCEPT !.at = "found", !.seen = window[p], !.read = r]
    OBVIOUS
  <2>1. /\ Browsers!Starting(browsersCall[c]) /\ window[p] # 0 /\ bound' = [bound EXCEPT ![p] = window[p]]
        /\ UNCHANGED <<browsersRecord, Browsers!world>>
    BY <1>4 DEF Browsers!WindowAppears, Browsers!At, Browsers!Starting
  <2>2. browsersCall' = [browsersCall EXCEPT ![c] = k]
    BY <1>4, <2>0 DEF Browsers!WindowAppears
  <2>3. /\ browsersCall[c] \in Browsers!CallRecords /\ Browsers!CallOK(browsersCall[c]) /\ p \in 0..launched /\ p > 0 /\ bound[p] = 0
        /\ p \in Browsers!Pids /\ window[p] \in Nat
    <3>1. browsersCall[c] \in Browsers!CallRecords /\ Browsers!CallOK(browsersCall[c]) /\ browsersCall[c].read \in Browsers!Records
      BY BrowsersTypes
    <3>2. p \in 0..launched /\ p > 0 /\ bound[p] = 0
      BY <2>1, <3>1 DEF Browsers!CallOK, Browsers!Records
    <3>3. p \in Browsers!Pids
      BY <3>2 DEF Browsers!Pids, Browsers!BrowsersInv
    <3> QED
      BY <3>1, <3>2, <3>3 DEF Browsers!BrowsersInv
  <2>4. /\ k \in Browsers!CallRecords /\ k.at = "found" /\ k.seen = window[p] /\ k.read = r
        /\ r.status = "connected" /\ r.pid = p /\ r.window = window[p] /\ r \in Browsers!Records
    BY <2>0, <2>3 DEF Browsers!CallRecords, Browsers!Records
  <2>5. bound' \in [Browsers!Pids -> Nat] /\ bound'[p] = window[p] /\ (\A q \in Browsers!Pids : q # p => bound'[q] = bound[q])
    BY <2>1, <2>3 DEF Browsers!BrowsersInv
  <2>6. \A s \in Browsers!Records : Browsers!Faithful(s) => Browsers!Faithful(s)'
    <3> SUFFICES ASSUME NEW s \in Browsers!Records, Browsers!Faithful(s), s.window # 0
                 PROVE  s.window = bound'[s.pid]
      BY DEF Browsers!Faithful
    <3>1. s.pid \in 1..launched /\ s.window = bound[s.pid]
      BY DEF Browsers!Faithful, Browsers!Records, Browsers!BrowsersInv
    <3>2. s.pid \in Browsers!Pids /\ s.pid # p
      BY <3>1, <2>3 DEF Browsers!Pids, Browsers!BrowsersInv
    <3> QED
      BY <3>1, <3>2, <2>5
  <2>7. \A d \in BrowserCalls : d # c => browsersCall'[d] = browsersCall[d] /\ (Browsers!Starting(browsersCall[d]) => browsersCall[d].read.pid # p)
    BY <2>1, <2>2 DEF Browsers!BrowsersInv
  <2>8. browsersCall'[c] = k /\ browsersCall' \in [BrowserCalls -> Browsers!CallRecords]
    BY <2>2, <2>4 DEF Browsers!BrowsersInv
  <2>9. Browsers!CallOK(browsersCall[c])'
    BY <2>1, <2>3, <2>4, <2>5, <2>8 DEF Browsers!CallOK, Browsers!Faithful, Browsers!Starting
  <2>10. \A d \in BrowserCalls : d # c => Browsers!CallOK(browsersCall[d])'
    <3> SUFFICES ASSUME NEW d \in BrowserCalls, d # c PROVE Browsers!CallOK(browsersCall[d])'
      OBVIOUS
    <3>1. browsersCall[d] \in Browsers!CallRecords /\ browsersCall[d].read \in Browsers!Records /\ Browsers!CallOK(browsersCall[d])
      BY BrowsersTypes
    <3>2. Browsers!Faithful(browsersCall[d].read)'
      BY <3>1, <2>6, <2>7 DEF Browsers!CallOK, Browsers!Faithful
    <3>3. Browsers!Starting(browsersCall[d]) => bound'[browsersCall[d].read.pid] = 0 /\ browsersCall[d].read.pid > 0
      <4> SUFFICES ASSUME Browsers!Starting(browsersCall[d]) PROVE bound'[browsersCall[d].read.pid] = 0 /\ browsersCall[d].read.pid > 0
        OBVIOUS
      <4>1. browsersCall[d].read.pid \in 1..launched /\ bound[browsersCall[d].read.pid] = 0
        BY <3>1 DEF Browsers!CallOK, Browsers!Records, Browsers!BrowsersInv
      <4>2. browsersCall[d].read.pid \in Browsers!Pids /\ browsersCall[d].read.pid # p
        BY <4>1, <2>7 DEF Browsers!Pids, Browsers!BrowsersInv
      <4> QED
        BY <4>1, <4>2, <2>5
    <3> QED
      BY <3>1, <3>2, <3>3, <2>7 DEF Browsers!CallOK, Browsers!Starting
  <2>11. ~Browsers!Starting(k)
    BY <2>4 DEF Browsers!Starting
  <2>12. UNCHANGED <<browsersRecord, window, launched>> /\ Browsers!Records' = Browsers!Records /\ Browsers!CallRecords' = Browsers!CallRecords
    BY <2>1 DEF Browsers!world, Browsers!Records, Browsers!CallRecords
  <2>13. Browsers!Faithful(browsersRecord)'
    BY <1>0, <2>6, <2>12 DEF Browsers!Faithful
  <2>14. \A q \in Browsers!Pids : q > launched => bound'[q] = 0
    BY <2>3, <2>5 DEF Browsers!BrowsersInv, Browsers!Pids
  <2>15. \A d, e \in BrowserCalls :
          Browsers!Starting(browsersCall'[d]) /\ Browsers!Starting(browsersCall'[e]) /\ browsersCall'[d].read.pid = browsersCall'[e].read.pid
            => d = e
    BY <2>7, <2>8, <2>11 DEF Browsers!BrowsersInv
  <2> QED
    BY <2>5, <2>8, <2>9, <2>10, <2>12, <2>13, <2>14, <2>15 DEF Browsers!BrowsersInv, Browsers!Starting
<1>5. ASSUME NEW c \in BrowserCalls, Browsers!NoWindow(c) PROVE Browsers!BrowsersInv'
  BY <1>0, <1>5, BrowsersGo DEF Browsers!NoWindow
<1>6. ASSUME NEW c \in BrowserCalls, Browsers!Validates(c) PROVE Browsers!BrowsersInv'
  <2> DEFINE r == browsersCall[c].read
  <2>0. PICK k : k = [browsersCall[c] EXCEPT !.at = "found", !.read = Browsers!Seen(r), !.seen = window[r.pid]]
    OBVIOUS
  <2>1. UNCHANGED <<browsersRecord, Browsers!world, bound>>
    BY <1>6 DEF Browsers!Validates
  <2>2. CASE Browsers!Leave(c) \/ Browsers!Go(c, "mismatch")
    BY <2>1, <2>2, <1>0, BrowsersGo, BrowsersLeave
  <2>3. CASE Browsers!IsBound(r, r.pid) /\ browsersCall' = [browsersCall EXCEPT ![c] = k]
    <3>1. r \in Browsers!Records /\ Browsers!Faithful(r) /\ browsersCall[c] \in Browsers!CallRecords
      BY BrowsersTypes DEF Browsers!CallOK
    <3>2. window[r.pid] = r.window /\ r.window # 0
      BY <2>3 DEF Browsers!IsBound
    <3>3. Browsers!Seen(r) \in Browsers!Records /\ Browsers!Seen(r).window = r.window /\ Browsers!Seen(r).pid = r.pid
      BY <3>1 DEF Browsers!Seen, Browsers!Records
    <3>4. k \in Browsers!CallRecords /\ k.at = "found" /\ k.read = Browsers!Seen(r) /\ k.seen = r.window
      BY <2>0, <3>1, <3>2, <3>3 DEF Browsers!CallRecords, Browsers!Records
    <3>5. Browsers!CallOK(k) /\ ~Browsers!Starting(k)
      BY <3>1, <3>2, <3>3, <3>4 DEF Browsers!CallOK, Browsers!Faithful, Browsers!Starting
    <3> QED
      BY <2>1, <2>3, <3>4, <3>5, <1>0, BrowsersCallStep
  <2> QED
    BY <1>6, <2>0, <2>2, <2>3 DEF Browsers!Validates
<1>7. ASSUME NEW c \in BrowserCalls, Browsers!SaveConnected(c) PROVE Browsers!BrowsersInv'
  BY <1>7, BrowsersTypes, BrowsersLeave DEF Browsers!SaveConnected, Browsers!CallOK
<1>8. ASSUME NEW c \in BrowserCalls, Browsers!MarkLost(c) PROVE Browsers!BrowsersInv'
  <2>1. [browsersCall[c].read EXCEPT !.status = "lost"] \in Browsers!Records /\ Browsers!Faithful([browsersCall[c].read EXCEPT !.status = "lost"])
    BY BrowsersTypes DEF Browsers!CallOK, Browsers!Records, Browsers!Faithful
  <2> QED
    BY <2>1, <1>8, BrowsersLeave DEF Browsers!MarkLost
<1>9. ASSUME NEW c \in BrowserCalls, Browsers!Terminate(c) PROVE Browsers!BrowsersInv'
  <2> DEFINE k == [browsersCall[c] EXCEPT !.at = "terminated"]
  <2>1. /\ browsersCall[c] \in Browsers!CallRecords /\ Browsers!CallOK(browsersCall[c])
    BY BrowsersTypes
  <2>2. k \in Browsers!CallRecords /\ k.at = "terminated" /\ k.read = browsersCall[c].read
    BY <2>1 DEF Browsers!CallRecords
  <2>3. Browsers!CallOK(k) /\ ~Browsers!Starting(k)
    BY <2>1, <2>2 DEF Browsers!CallOK, Browsers!Starting
  <2>4. browsersCall' = [browsersCall EXCEPT ![c] = k] /\ UNCHANGED <<browsersRecord, window, launched, bound>>
    BY <1>9 DEF Browsers!Terminate, Browsers!Go
  <2> QED
    BY <2>2, <2>3, <2>4 DEF Browsers!BrowsersInv, Browsers!Records, Browsers!CallRecords, Browsers!CallOK, Browsers!Faithful, Browsers!Starting, Browsers!Pids
<1>10. ASSUME NEW c \in BrowserCalls, Browsers!SaveClosed(c) PROVE Browsers!BrowsersInv'
  <2>1. [browsersCall[c].read EXCEPT !.status = "closed"] \in Browsers!Records /\ Browsers!Faithful([browsersCall[c].read EXCEPT !.status = "closed"])
    BY BrowsersTypes DEF Browsers!CallOK, Browsers!Records, Browsers!Faithful
  <2> QED
    BY <2>1, <1>10, BrowsersLeave DEF Browsers!SaveClosed
<1>11. ASSUME NEW p \in Browsers!Pids, Browsers!OpenWindow(p) \/ Browsers!Quit(p) PROVE Browsers!BrowsersInv'
  <2>1. window' \in [Browsers!Pids -> Nat] /\ UNCHANGED <<browsersRecord, browsersCall, launched, bound>>
    BY <1>11 DEF Browsers!OpenWindow, Browsers!Quit, Browsers!BrowsersInv
  <2> QED
    BY <2>1 DEF Browsers!BrowsersInv, Browsers!Records, Browsers!CallRecords, Browsers!CallOK, Browsers!Faithful, Browsers!Starting, Browsers!Pids
<1>12. ASSUME Browsers!Restart PROVE Browsers!BrowsersInv'
  <2> DEFINE k == [kind |-> "recover", at |-> "read", read |-> browsersRecord, seen |-> 0]
  <2>1. k \in Browsers!CallRecords /\ Browsers!CallOK(k) /\ ~Browsers!Starting(k)
    BY <1>0 DEF Browsers!CallRecords, Browsers!CallOK, Browsers!Starting, Browsers!Kinds
  <2>2. UNCHANGED <<browsersRecord, window, launched, bound>> /\ (\A c \in BrowserCalls : browsersCall'[c] \in {Browsers!NoCall, k})
        /\ DOMAIN browsersCall' = BrowserCalls /\ browsersCall' = [c \in BrowserCalls |-> browsersCall'[c]]
    BY <1>12 DEF Browsers!Restart, Browsers!world
  <2>3. \A c \in BrowserCalls : browsersCall'[c] \in Browsers!CallRecords /\ Browsers!CallOK(browsersCall'[c]) /\ ~Browsers!Starting(browsersCall'[c])
    BY <2>1, <2>2, BrowsersTypes
  <2> QED
    BY <2>2, <2>3 DEF Browsers!BrowsersInv, Browsers!Records, Browsers!CallRecords, Browsers!CallOK, Browsers!Faithful, Browsers!Starting, Browsers!Pids
<1>13. ASSUME UNCHANGED Browsers!vars PROVE Browsers!BrowsersInv'
  BY <1>13 DEF Browsers!vars, Browsers!world, Browsers!BrowsersInv, Browsers!Records, Browsers!CallRecords, Browsers!CallOK, Browsers!Faithful, Browsers!Starting
<1> QED
  BY <1>1, <1>2, <1>3, <1>4, <1>5, <1>6, <1>7, <1>8, <1>9, <1>10, <1>11, <1>12, <1>13 DEF Browsers!Next

(* Browser sessions: every record names the window its process was first     *)
(* seen with, and two starts never share a process.                          *)
THEOREM BrowsersInvariant == Browsers!Spec => []Browsers!BrowsersInv
<1>1. Browsers!Init => Browsers!BrowsersInv
  BY ServicesAssumption DEF Browsers!BrowserAssumption, Browsers!Init, Browsers!BrowsersInv, Browsers!Records, Browsers!CallRecords, Browsers!CallOK, Browsers!Faithful, Browsers!Starting, Browsers!Pids, Browsers!Kinds, Browsers!None, Browsers!NoRecord, Browsers!NoCall
<1>2. Browsers!BrowsersInv /\ [Browsers!Next]_(Browsers!vars) => Browsers!BrowsersInv'
  BY BrowsersStep
<1> QED
  BY <1>1, <1>2, PTL DEF Browsers!Spec

(* A session that is found connected is connected to the window it was bound *)
(* to, however requests and restarts overlap.                                *)
THEOREM BrowsersNeverRebind == Browsers!Spec => []Browsers!NeverRebinds
<1>1. Browsers!BrowsersInv => Browsers!NeverRebinds
  BY DEF Browsers!BrowsersInv, Browsers!NeverRebinds, Browsers!Records, Browsers!CallRecords, Browsers!CallOK, Browsers!Faithful, Browsers!At
<1> QED
  BY <1>1, BrowsersInvariant, PTL

(***************************************************************************)
(* Project records.                                                        *)
(***************************************************************************)

(* The instance has its own names for the operators of FiniteSets.           *)
LEMMA ProjectsCardinality == \A S : Projects!Cardinality(S) = Cardinality(S)
  BY DEF Projects!Cardinality, Cardinality

LEMMA ProjectsFinite == \A S : Projects!IsFiniteSet(S) <=> IsFiniteSet(S)
  BY DEF Projects!IsFiniteSet, IsFiniteSet

(* What the calls other than c hold is left alone by a step of c.            *)
ProjectsOthers(c) ==
  \A d \in ProjectCalls : d # c => pc'[d] = pc[d] /\ kind'[d] = kind[d] /\ held'[d] = held[d]

(* Nothing is taken out of a store.                                          *)
ProjectsGrow ==
  /\ goals \subseteq goals' /\ sessions \subseteq sessions' /\ registered \subseteq registered'
  /\ \A a \in ProjectCalls, v \in Projects!Versions : output[a][v] # Projects!None => output'[a][v] # Projects!None

(* The shape of the state.                                                   *)
ProjectsTypes ==
  /\ pc \in [ProjectCalls -> {"new", "asked", "read", "second", "create", "link", "append", "save", "spec",
                       "files", "ready", "register", "linking", "done", "refused", "lost"}]
  /\ kind \in [ProjectCalls -> Projects!Kinds \cup {Projects!None}]
  /\ \A c \in ProjectCalls : pc[c] = "new" => kind[c] = Projects!None
  /\ DOMAIN held = ProjectCalls
  /\ goals \subseteq ProjectCalls /\ sessions \subseteq ProjectCalls /\ registered \subseteq ProjectCalls
  /\ order \subseteq ProjectCalls
  /\ artifact \in [ProjectCalls -> [version : Nat, status : {Projects!None, "rendering", "failed", "ready"}, born : Nat]]
  /\ output \in [ProjectCalls -> [Projects!Versions -> ProjectCalls \cup {Projects!None}]]

(* The artifacts of the title: their versions, and which of them is first.   *)
ProjectsTitle ==
  /\ \A a \in order : artifact[a].version \in 1..Projects!Cardinality(Projects!Listed)
  /\ order # {} => \E a \in order : artifact[a].born = 0
  /\ \A a \in registered : Projects!Rendered(a)

(* The invariant by its parts.                                               *)
LEMMA ProjectsParts ==
    /\ Projects!ProjectsInv <=> /\ ProjectsTypes /\ ProjectsTitle /\ project \in Projects!Docs /\ Projects!Lists(project)
                       /\ \A c \in ProjectCalls : Projects!Holds(c)
    /\ Projects!ProjectsInv' <=> /\ ProjectsTypes' /\ ProjectsTitle' /\ project' \in Projects!Docs' /\ Projects!Lists(project)'
                        /\ \A c \in ProjectCalls : Projects!Holds(c)'
  BY DEF Projects!ProjectsInv, ProjectsTypes, ProjectsTitle

(* The counts of the renders that have looked at the list.                   *)
LEMMA FiniteCounts ==
    ASSUME NEW S \in SUBSET ProjectCalls, NEW R \in SUBSET ProjectCalls, S \subseteq R
    PROVE  /\ Cardinality(S) \in Nat /\ Cardinality(R) \in Nat /\ Cardinality(ProjectCalls) \in Nat
           /\ Cardinality(S) <= Cardinality(R) /\ Cardinality(R) <= Cardinality(ProjectCalls)
           /\ \A x \in R : x \notin S => Cardinality(S) + 1 <= Cardinality(R)
<1>0. IsFiniteSet(ProjectCalls)
  BY ProjectsFinite, ServicesAssumption DEF Projects!ProjectAssumption
<1>1. IsFiniteSet(ProjectCalls) /\ IsFiniteSet(R) /\ IsFiniteSet(S)
  BY <1>0, FS_Subset
<1>2. /\ Cardinality(S) \in Nat /\ Cardinality(R) \in Nat /\ Cardinality(ProjectCalls) \in Nat
      /\ Cardinality(S) <= Cardinality(R) /\ Cardinality(R) <= Cardinality(ProjectCalls)
  BY <1>1, FS_CardinalityType, FS_Subset
<1>3. ASSUME NEW x \in R, x \notin S PROVE Cardinality(S) + 1 <= Cardinality(R)
  <2>1. Cardinality(S \cup {x}) = Cardinality(S) + 1
    BY <1>1, <1>3, FS_AddElement
  <2>2. Cardinality(S \cup {x}) <= Cardinality(R)
    BY <1>1, <1>3, FS_Subset
  <2> QED
    BY <2>1, <2>2
<1> QED
  BY <1>2, <1>3

(* The renders that have looked at the list only grow in number, and their   *)
(* versions have a directory.                                                *)
LEMMA ProjectsCounts ==
    ASSUME NEW S \in SUBSET ProjectCalls, NEW R \in SUBSET ProjectCalls, S \subseteq R
    PROVE  /\ Projects!Cardinality(S) \in Nat /\ Projects!Cardinality(R) \in Nat /\ Projects!Cardinality(ProjectCalls) \in Nat
           /\ Projects!Cardinality(S) <= Projects!Cardinality(R) /\ Projects!Cardinality(R) <= Projects!Cardinality(ProjectCalls)
           /\ \A x \in R : x \notin S => Projects!Cardinality(S) + 1 <= Projects!Cardinality(R)
<1>0. Projects!IsFiniteSet(ProjectCalls)
  BY ServicesAssumption DEF Projects!ProjectAssumption
<1>1. \A T : Projects!Cardinality(T) = Cardinality(T)
  BY ProjectsCardinality
<1>2. /\ Projects!Cardinality(S) = Cardinality(S) /\ Projects!Cardinality(R) = Cardinality(R)
      /\ Projects!Cardinality(ProjectCalls) = Cardinality(ProjectCalls)
  BY <1>1, Zenon
<1> QED
  BY <1>2, FiniteCounts

LEMMA ProjectsListed ==
    ASSUME Projects!Listed \subseteq Projects!Listed'
    PROVE  /\ Projects!Cardinality(Projects!Listed) \in Nat /\ Projects!Cardinality(Projects!Listed)' \in Nat
           /\ Projects!Cardinality(ProjectCalls) \in Nat
           /\ Projects!Cardinality(Projects!Listed) <= Projects!Cardinality(Projects!Listed)' /\ Projects!Cardinality(Projects!Listed)' <= Projects!Cardinality(ProjectCalls)
           /\ 1..Projects!Cardinality(Projects!Listed) \subseteq Projects!Versions
<1>1. Projects!Listed \in SUBSET ProjectCalls /\ Projects!Listed' \in SUBSET ProjectCalls
  BY DEF Projects!Listed
<1>2. PICK S \in SUBSET ProjectCalls, R \in SUBSET ProjectCalls : S = Projects!Listed /\ R = Projects!Listed'
  BY <1>1
<1> HIDE DEF Projects!Listed
<1>3. /\ Projects!Cardinality(S) \in Nat /\ Projects!Cardinality(R) \in Nat /\ Projects!Cardinality(ProjectCalls) \in Nat
      /\ Projects!Cardinality(S) <= Projects!Cardinality(R) /\ Projects!Cardinality(R) <= Projects!Cardinality(ProjectCalls)
  BY <1>2, ProjectsCounts
<1> QED
  BY <1>2, <1>3 DEF Projects!Versions

(* The other calls keep what they hold.                                      *)
LEMMA ProjectsFrame ==
    ASSUME Projects!ProjectsInv, ProjectsTypes', NEW c \in ProjectCalls, ProjectsOthers(c), ProjectsGrow, Projects!Listed \subseteq Projects!Listed'
    PROVE  \A d \in ProjectCalls : d # c => Projects!Holds(d)'
<1> SUFFICES ASSUME NEW d \in ProjectCalls, d # c PROVE Projects!Holds(d)'
  OBVIOUS
<1>1. /\ Projects!Holds(d) /\ ProjectsTypes
      /\ pc'[d] = pc[d] /\ kind'[d] = kind[d] /\ held'[d] = held[d]
  BY ProjectsParts DEF ProjectsOthers
<1>2. \A doc : Projects!Lists(doc) => Projects!Lists(doc)'
  BY DEF Projects!Lists, ProjectsGrow
<1>3. Projects!Docs' = Projects!Docs /\ 1..Projects!Cardinality(Projects!Listed) \subseteq 1..Projects!Cardinality(Projects!Listed)'
      /\ 1..Projects!Cardinality(Projects!Listed) \subseteq Projects!Versions
  BY ProjectsListed DEF Projects!Docs
<1>4. /\ (pc'[d] \in {"read", "second"} => kind'[d] = "goal")
      /\ (pc'[d] = "second" => d \in goals')
      /\ ((pc'[d] \in {"link", "append"} /\ kind'[d] = "session") => d \in sessions')
      /\ (pc'[d] = "linking" => kind'[d] = "render")
      /\ ((kind'[d] = "render" /\ pc'[d] \in {"linking", "append"}) => held'[d].id \in registered')
  BY <1>1 DEF Projects!Holds, ProjectsGrow
<1>5. Projects!Lists(held[d])' <=> /\ held[d].goals \subseteq goals' /\ held[d].sessions \subseteq sessions'
                          /\ held[d].artifacts \subseteq registered'
  BY <1>1 DEF Projects!Lists
<1>6. Projects!Reading(d)' => (held'[d] \in Projects!Docs' /\ Projects!Lists(held[d])')
  BY <1>1, <1>3, <1>5 DEF Projects!Holds, Projects!Reading, Projects!Lists, ProjectsGrow
<1>7. Projects!Rendering(d)' => (kind'[d] = "render" /\ held'[d].id \in ProjectCalls
                       /\ held'[d].version \in 1..Projects!Cardinality(Projects!Listed)')
  BY <1>1, <1>3 DEF Projects!Holds, Projects!Rendering
<1>8. pc'[d] \in {"ready", "register"} => output'[held'[d].id][held'[d].version] # Projects!None
  BY <1>1, <1>3 DEF Projects!Holds, Projects!Rendering, ProjectsGrow
<1>9. (kind'[d] = "render" /\ pc'[d] = "append") => (held'[d].doc \in Projects!Docs' /\ Projects!Lists(held[d].doc)')
  BY <1>1, <1>3 DEF Projects!Holds, Projects!Lists, ProjectsGrow
<1> QED
  BY <1>4, <1>6, <1>7, <1>8, <1>9 DEF Projects!Holds

(* What a step of c has to show beside the frame.                            *)
LEMMA ProjectsCallStep ==
    ASSUME Projects!ProjectsInv, ProjectsTypes', ProjectsTitle', NEW c \in ProjectCalls, ProjectsOthers(c), ProjectsGrow,
           Projects!Listed \subseteq Projects!Listed', Projects!Holds(c)', project' \in Projects!Docs, Projects!Lists(project)'
    PROVE  Projects!ProjectsInv'
<1>1. Projects!Docs' = Projects!Docs
  BY DEF Projects!Docs
<1> QED
  BY <1>1, ProjectsFrame, ProjectsParts

(* A step of one call lets nobody leave the list.                            *)
LEMMA ProjectsAdvance ==
    ASSUME ProjectsTypes, NEW c \in ProjectCalls, NEW to, to # "asked", Projects!Go(c, to), UNCHANGED kind
    PROVE  Projects!Listed \subseteq Projects!Listed' /\ (\A d \in ProjectCalls : d # c => pc'[d] = pc[d]) /\ pc'[c] = to
  BY DEF ProjectsTypes, Projects!Listed, Projects!Go

(* A step that writes no record of the title keeps what is said of it.       *)
LEMMA ProjectsTitleKept ==
    ASSUME ProjectsTitle, ProjectsTypes, ProjectsGrow, Projects!Listed \subseteq Projects!Listed', UNCHANGED <<order, artifact, registered>>
    PROVE  ProjectsTitle'
<1>1. 1..Projects!Cardinality(Projects!Listed) \subseteq 1..Projects!Cardinality(Projects!Listed)'
  BY ProjectsListed
<1>2. \A a \in registered : Projects!Rendered(a)'
  BY DEF ProjectsTitle, ProjectsTypes, Projects!Rendered, ProjectsGrow
<1> QED
  BY <1>1, <1>2 DEF ProjectsTitle

(* A step of c that writes none of the artifact's records.                    *)
LEMMA ProjectsGo ==
    ASSUME Projects!ProjectsInv, NEW c \in ProjectCalls,
           NEW to \in {"read", "second", "create", "link", "append", "save", "spec",
                       "files", "ready", "register", "linking", "done", "refused"},
           Projects!Go(c, to), UNCHANGED <<kind, artifact, order, registered, output>>,
           DOMAIN held' = ProjectCalls, \A d \in ProjectCalls : d # c => held'[d] = held[d],
           goals \subseteq goals' /\ goals' \subseteq ProjectCalls,
           sessions \subseteq sessions' /\ sessions' \subseteq ProjectCalls,
           project' \in Projects!Docs, Projects!Lists(project)', Projects!Holds(c)'
    PROVE  Projects!ProjectsInv'
<1>1. ProjectsTypes /\ ProjectsTitle
  BY ProjectsParts
<1>2. Projects!Listed \subseteq Projects!Listed' /\ (\A d \in ProjectCalls : d # c => pc'[d] = pc[d]) /\ pc'[c] = to
  BY <1>1, ProjectsAdvance
<1>3. ProjectsTypes'
  BY <1>1, <1>2 DEF ProjectsTypes, Projects!Go
<1>4. ProjectsOthers(c) /\ ProjectsGrow
  BY <1>2 DEF ProjectsOthers, ProjectsGrow
<1> QED
  BY <1>1, <1>2, <1>3, <1>4, ProjectsTitleKept, ProjectsCallStep

(* Revisions are natural numbers.                                            *)
LEMMA ProjectsNatural == \A n \in Nat : n + 1 \in Nat
  OBVIOUS

(* A document with one more id lists what exists.                             *)
LEMMA ProjectsAppend ==
    ASSUME NEW doc \in Projects!Docs, Projects!Lists(doc), NEW id \in ProjectCalls, UNCHANGED <<goals, sessions, registered>>,
           \/ id \in goals /\ project' = [doc EXCEPT !["goals"] = @ \cup {id}, !.revision = @ + 1]
           \/ id \in sessions /\ project' = [doc EXCEPT !["sessions"] = @ \cup {id}, !.revision = @ + 1]
           \/ id \in registered /\ project' = [doc EXCEPT !.artifacts = @ \cup {id}, !.revision = @ + 1]
           \/ project' = [doc EXCEPT !.status = "archived", !.revision = @ + 1]
    PROVE  project' \in Projects!Docs /\ Projects!Lists(project)'
<1>0. /\ doc.status \in {"active", "archived"} /\ doc.goals \subseteq ProjectCalls /\ doc.sessions \subseteq ProjectCalls
      /\ doc.artifacts \subseteq ProjectCalls /\ doc.revision + 1 \in Nat
  <2>1. doc.status \in {"active", "archived"} /\ doc.goals \in SUBSET ProjectCalls /\ doc.revision \in Nat
    BY DEF Projects!Docs
  <2>2. doc.sessions \in SUBSET ProjectCalls
    BY DEF Projects!Docs
  <2>3. doc.artifacts \in SUBSET ProjectCalls
    BY DEF Projects!Docs
  <2>4. doc.revision + 1 \in Nat
    <3>1. doc.revision \in Nat
      BY <2>1
    <3> QED
      BY <3>1, ProjectsNatural, Zenon
  <2>5. doc.goals \subseteq ProjectCalls /\ doc.sessions \subseteq ProjectCalls /\ doc.artifacts \subseteq ProjectCalls
    BY <2>1, <2>2, <2>3, Zenon
  <2> QED
    BY <2>1, <2>4, <2>5
<1>1. doc = [status |-> doc.status, goals |-> doc.goals, sessions |-> doc.sessions,
             artifacts |-> doc.artifacts, revision |-> doc.revision]
  BY DEF Projects!Docs
<1>2. /\ project' = [status |-> project'.status, goals |-> project'.goals, sessions |-> project'.sessions,
                      artifacts |-> project'.artifacts, revision |-> project'.revision]
      /\ project'.status \in {"active", "archived"} /\ project'.revision \in Nat
      /\ project'.goals \subseteq ProjectCalls /\ project'.sessions \subseteq ProjectCalls /\ project'.artifacts \subseteq ProjectCalls
      /\ project'.goals \subseteq goals' /\ project'.sessions \subseteq sessions'
      /\ project'.artifacts \subseteq registered'
  <2>0. doc.goals \subseteq goals /\ doc.sessions \subseteq sessions /\ doc.artifacts \subseteq registered
    BY DEF Projects!Lists
  <2>1. CASE id \in goals /\ project' = [doc EXCEPT !["goals"] = @ \cup {id}, !.revision = @ + 1]
    <3>1. project' = [status |-> doc.status, goals |-> doc.goals \cup {id}, sessions |-> doc.sessions,
                      artifacts |-> doc.artifacts, revision |-> doc.revision + 1]
      BY <1>1, <2>1
    <3> QED
      BY <1>0, <2>0, <2>1, <3>1
  <2>2. CASE id \in sessions /\ project' = [doc EXCEPT !["sessions"] = @ \cup {id}, !.revision = @ + 1]
    <3>1. project' = [status |-> doc.status, goals |-> doc.goals, sessions |-> doc.sessions \cup {id},
                      artifacts |-> doc.artifacts, revision |-> doc.revision + 1]
      BY <1>1, <2>2
    <3> QED
      BY <1>0, <2>0, <2>2, <3>1
  <2>3. CASE id \in registered /\ project' = [doc EXCEPT !.artifacts = @ \cup {id}, !.revision = @ + 1]
    <3>1. project' = [status |-> doc.status, goals |-> doc.goals, sessions |-> doc.sessions,
                      artifacts |-> doc.artifacts \cup {id}, revision |-> doc.revision + 1]
      BY <1>1, <2>3
    <3> QED
      BY <1>0, <2>0, <2>3, <3>1
  <2>4. CASE project' = [doc EXCEPT !.status = "archived", !.revision = @ + 1]
    <3>1. project' = [status |-> "archived", goals |-> doc.goals, sessions |-> doc.sessions,
                      artifacts |-> doc.artifacts, revision |-> doc.revision + 1]
      BY <1>1, <2>4
    <3> QED
      BY <1>0, <2>0, <2>4, <3>1
  <2> QED
    BY <2>1, <2>2, <2>3, <2>4
<1>3. Projects!Lists(project)'
  BY <1>2 DEF Projects!Lists
<1>4. project' \in Projects!Docs
  BY <1>2 DEF Projects!Docs
<1> QED
  BY <1>3, <1>4

(* Where a call that stands at a step is, and what it holds there.             *)
LEMMA ProjectsAt ==
    ASSUME Projects!ProjectsInv, NEW c \in ProjectCalls
    PROVE  /\ Projects!Holds(c) /\ project \in Projects!Docs /\ Projects!Lists(project) /\ DOMAIN pc = ProjectCalls
           /\ goals \subseteq ProjectCalls /\ sessions \subseteq ProjectCalls /\ registered \subseteq ProjectCalls
           /\ DOMAIN held = ProjectCalls
  BY DEF Projects!ProjectsInv

(* A read holds the project as it is now.                                    *)
LEMMA ProjectsReads ==
    ASSUME Projects!ProjectsInv, NEW c \in ProjectCalls, Projects!ReadProject(c, "goal", "asked", "read")
           \/ Projects!ReadProject(c, "session", "link", "append") \/ Projects!ReadProject(c, "archive", "asked", "append")
    PROVE  Projects!ProjectsInv'
<1>0. Projects!ProjectsInv /\ Projects!Holds(c) /\ project \in Projects!Docs /\ Projects!Lists(project) /\ DOMAIN pc = ProjectCalls
      /\ goals \subseteq ProjectCalls /\ sessions \subseteq ProjectCalls /\ DOMAIN held = ProjectCalls
  BY ProjectsAt
<1>1. UNCHANGED <<kind, project, goals, sessions, registered, artifact, order, output>>
  BY DEF Projects!ReadProject, Projects!stores
<1>2. project' \in Projects!Docs /\ Projects!Lists(project)'
  BY <1>0, <1>1 DEF Projects!Lists
<1>3. CASE Projects!Go(c, "refused") /\ UNCHANGED held
  <2>1. pc'[c] = "refused"
    BY <1>0, <1>3 DEF Projects!Go
  <2>2. Projects!Holds(c)'
    BY <2>1 DEF Projects!Holds, Projects!Reading, Projects!Rendering
  <2> QED
    BY <1>0, <1>1, <1>2, <1>3, <2>2, ProjectsGo
<1>4. CASE Projects!Hold(c, project) /\ Projects!Go(c, "read") /\ kind[c] = "goal"
  <2>1. pc'[c] = "read" /\ kind'[c] = "goal" /\ held'[c] = project' /\ DOMAIN held' = ProjectCalls
        /\ (\A d \in ProjectCalls : d # c => held'[d] = held[d])
    BY <1>0, <1>1, <1>4 DEF Projects!Go, Projects!Hold
  <2>2. Projects!Holds(c)'
    BY <1>1, <1>2, <2>1 DEF Projects!Holds, Projects!Reading, Projects!Rendering, Projects!Docs, Projects!Lists
  <2> QED
    BY <1>0, <1>1, <1>2, <1>4, <2>1, <2>2, ProjectsGo
<1>5. CASE Projects!Hold(c, project) /\ Projects!Go(c, "append") /\ kind[c] # "render" /\ (kind[c] = "session" => c \in sessions)
  <2>1. pc'[c] = "append" /\ kind'[c] # "render" /\ held'[c] = project' /\ DOMAIN held' = ProjectCalls
        /\ (\A d \in ProjectCalls : d # c => held'[d] = held[d])
    BY <1>0, <1>1, <1>5 DEF Projects!Go, Projects!Hold
  <2>2. Projects!Holds(c)'
    BY <1>1, <1>2, <1>5, <2>1 DEF Projects!Holds, Projects!Reading, Projects!Rendering, Projects!Docs, Projects!Lists
  <2> QED
    BY <1>0, <1>1, <1>2, <1>5, <2>1, <2>2, ProjectsGo
<1> QED
  BY <1>0, <1>3, <1>4, <1>5 DEF Projects!ReadProject, Projects!At, Projects!Holds

(* A step of c that ends it, with the project as good as before.               *)
LEMMA ProjectsEnds ==
    ASSUME Projects!ProjectsInv, NEW c \in ProjectCalls, Projects!Go(c, "done"),
           UNCHANGED <<kind, held, goals, sessions, registered, artifact, order, output>>,
           project' \in Projects!Docs, Projects!Lists(project)'
    PROVE  Projects!ProjectsInv'
<1>1. DOMAIN held = ProjectCalls /\ pc'[c] = "done" /\ goals \subseteq ProjectCalls /\ sessions \subseteq ProjectCalls
  BY ProjectsAt DEF Projects!Go
<1>2. Projects!Holds(c)'
  BY <1>1 DEF Projects!Holds, Projects!Reading, Projects!Rendering
<1> QED
  BY <1>1, <1>2, ProjectsGo

(* Each save of the project document keeps the invariant.                    *)
LEMMA ProjectsDocument ==
    ASSUME Projects!ProjectsInv, NEW c \in ProjectCalls,
           Projects!CreateGoal(c) \/ Projects!AppendGoal(c) \/ Projects!EnsureSession(c) \/ Projects!CreateSession(c) \/ Projects!LinkSession(c)
             \/ Projects!Archive(c) \/ Projects!LinkArtifact(c)
    PROVE  Projects!ProjectsInv'
<1>0. Projects!Holds(c) /\ project \in Projects!Docs /\ Projects!Lists(project) /\ DOMAIN pc = ProjectCalls
      /\ goals \subseteq ProjectCalls /\ sessions \subseteq ProjectCalls /\ DOMAIN held = ProjectCalls
  BY ProjectsAt
<1>1. CASE Projects!CreateGoal(c)
  <2>1. /\ pc[c] = "read" /\ Projects!Go(c, "second") /\ goals' = goals \cup {c} /\ kind[c] = "goal"
        /\ UNCHANGED <<kind, held, project, sessions, registered, artifact, order, output>>
    BY <1>1 DEF Projects!CreateGoal, Projects!Turn, Projects!GoalSteps
  <2>2. pc'[c] = "second" /\ kind'[c] = "goal" /\ held[c] \in Projects!Docs /\ Projects!Lists(held[c])
    BY <1>0, <2>1 DEF Projects!Go, Projects!Holds, Projects!Reading
  <2>3. Projects!Holds(c)' /\ Projects!Lists(project)'
    BY <1>0, <2>1, <2>2 DEF Projects!Holds, Projects!Reading, Projects!Rendering, Projects!Lists, Projects!Docs
  <2> QED
    BY <1>0, <2>1, <2>3, ProjectsGo
<1>2. CASE Projects!AppendGoal(c)
  <2>1. /\ pc[c] = "second" /\ Projects!Go(c, "done") /\ Projects!AppendProjectId(c, "goals", c)
        /\ UNCHANGED <<kind, held, goals, sessions, registered, artifact, order, output>>
    BY <1>2 DEF Projects!AppendGoal, Projects!Turn, Projects!GoalSteps
  <2>2. c \in goals /\ held[c] \in Projects!Docs /\ Projects!Lists(held[c])
    BY <1>0, <2>1 DEF Projects!Holds, Projects!Reading
  <2>3. project' \in Projects!Docs /\ Projects!Lists(project)'
    BY <1>0, <2>1, <2>2, ProjectsAppend DEF Projects!AppendProjectId, Projects!Lists
  <2> QED
    BY <2>1, <2>3, ProjectsEnds
<1>3. CASE Projects!EnsureSession(c)
  <2>1. /\ kind[c] = "session" /\ (Projects!Go(c, "done") \/ Projects!Go(c, "create"))
        /\ UNCHANGED <<kind, held, project, goals, sessions, registered, artifact, order, output>>
    BY <1>3 DEF Projects!EnsureSession, Projects!At, Projects!stores
  <2>2. Projects!Lists(project)'
    BY <1>0, <2>1 DEF Projects!Lists
  <2>3. CASE Projects!Go(c, "done")
    BY <1>0, <2>1, <2>2, <2>3, ProjectsEnds
  <2>4. CASE Projects!Go(c, "create")
    <3>1. Projects!Holds(c)'
      BY <1>0, <2>4 DEF Projects!Holds, Projects!Go, Projects!Reading, Projects!Rendering
    <3> QED
      BY <1>0, <2>1, <2>2, <2>4, <3>1, ProjectsGo
  <2> QED
    BY <2>1, <2>3, <2>4
<1>4. CASE Projects!CreateSession(c)
  <2>1. /\ kind[c] = "session" /\ Projects!Go(c, "link") /\ sessions' = sessions \cup {c}
        /\ UNCHANGED <<kind, held, project, goals, registered, artifact, order, output>>
    BY <1>4 DEF Projects!CreateSession, Projects!At
  <2>2. Projects!Lists(project)'
    BY <1>0, <2>1 DEF Projects!Lists
  <2>3. pc'[c] = "link" /\ c \in sessions'
    BY <1>0, <2>1 DEF Projects!Go
  <2>4. Projects!Holds(c)'
    BY <2>1, <2>3 DEF Projects!Holds, Projects!Reading, Projects!Rendering
  <2> QED
    BY <1>0, <2>1, <2>2, <2>4, ProjectsGo
<1>5. CASE Projects!LinkSession(c)
  <2>1. /\ pc[c] = "append" /\ kind[c] = "session" /\ Projects!Go(c, "done") /\ Projects!AppendProjectId(c, "sessions", c)
        /\ UNCHANGED <<kind, held, goals, sessions, registered, artifact, order, output>>
    BY <1>5 DEF Projects!LinkSession, Projects!At
  <2>2. c \in sessions /\ held[c] \in Projects!Docs /\ Projects!Lists(held[c])
    BY <1>0, <2>1 DEF Projects!Holds, Projects!Reading
  <2>3. project' \in Projects!Docs /\ Projects!Lists(project)'
    BY <1>0, <2>1, <2>2, ProjectsAppend DEF Projects!AppendProjectId, Projects!Lists
  <2> QED
    BY <2>1, <2>3, ProjectsEnds
<1>6. CASE Projects!Archive(c)
  <2>1. /\ pc[c] = "append" /\ kind[c] = "archive" /\ Projects!Go(c, "done")
        /\ UNCHANGED <<kind, held, goals, sessions, registered, artifact, order, output>>
    BY <1>6 DEF Projects!Archive, Projects!At
  <2>2. held[c] \in Projects!Docs /\ Projects!Lists(held[c])
    BY <1>0, <2>1 DEF Projects!Holds, Projects!Reading
  <2>3. project' \in Projects!Docs /\ Projects!Lists(project)'
    BY <1>0, <1>6, <2>1, <2>2, ProjectsAppend DEF Projects!Archive, Projects!Lists
  <2> QED
    BY <2>1, <2>3, ProjectsEnds
<1>7. CASE Projects!LinkArtifact(c)
  <2>1. /\ pc[c] = "append" /\ kind[c] = "render" /\ Projects!Go(c, "done")
        /\ UNCHANGED <<kind, held, goals, sessions, registered, artifact, order, output>>
    BY <1>7 DEF Projects!LinkArtifact, Projects!At
  <2>2. held[c].doc \in Projects!Docs /\ Projects!Lists(held[c].doc) /\ held[c].id \in registered /\ registered \subseteq ProjectCalls
    BY <2>1, ProjectsAt DEF Projects!Holds
  <2>3. project' \in Projects!Docs /\ Projects!Lists(project)'
    BY <1>0, <1>7, <2>1, <2>2, ProjectsAppend DEF Projects!LinkArtifact, Projects!Lists
  <2> QED
    BY <2>1, <2>3, ProjectsEnds
<1> QED
  BY <1>1, <1>2, <1>3, <1>4, <1>5, <1>6, <1>7

(***************************************************************************)
(* Rendering.                                                              *)
(***************************************************************************)
LEMMA ProjectsAsk ==
    ASSUME Projects!ProjectsInv, NEW c \in ProjectCalls, NEW k \in Projects!Kinds, Projects!Ask(c, k)
    PROVE  Projects!ProjectsInv'
<1>1. /\ pc[c] = "new" /\ pc' = [pc EXCEPT ![c] = "asked"] /\ kind' = [kind EXCEPT ![c] = k]
      /\ UNCHANGED <<held, project, goals, sessions, registered, artifact, order, output>>
  BY DEF Projects!Ask, Projects!Go, Projects!stores
<1>2. ProjectsTypes /\ ProjectsTitle /\ project \in Projects!Docs /\ Projects!Lists(project) /\ Projects!Holds(c)
  BY ProjectsParts
<1>3. kind[c] = Projects!None /\ pc'[c] = "asked"
  BY <1>1, <1>2 DEF ProjectsTypes
<1>4. \A d \in ProjectCalls : d # c => pc'[d] = pc[d] /\ kind'[d] = kind[d]
  BY <1>1, <1>2 DEF ProjectsTypes
<1>5. Projects!Listed \subseteq Projects!Listed'
  BY <1>3, <1>4 DEF Projects!Listed, Projects!None
<1>6. ProjectsOthers(c) /\ ProjectsGrow /\ Projects!Lists(project)'
  BY <1>1, <1>2, <1>4 DEF ProjectsOthers, ProjectsGrow, Projects!Lists
<1>7. ProjectsTypes'
  BY <1>1, <1>2, <1>3 DEF ProjectsTypes
<1>8. Projects!Holds(c)'
  BY <1>3 DEF Projects!Holds, Projects!Reading, Projects!Rendering
<1> QED
  BY <1>1, <1>2, <1>5, <1>6, <1>7, <1>8, ProjectsTitleKept, ProjectsCallStep

(* The first artifact of the title is one of the list.                         *)
LEMMA ProjectsFirst ==
    ASSUME Projects!ProjectsInv, order # {}
    PROVE  Projects!First \in order
<1>1. PICK a \in order : artifact[a].born = 0
  BY DEF Projects!ProjectsInv
<1>2. \A b \in order : artifact[b].born \in Nat
  BY DEF Projects!ProjectsInv
<1>3. \A b \in order : artifact[a].born <= artifact[b].born
  BY <1>1, <1>2
<1> QED
  BY <1>3 DEF Projects!First

(* createFromRenderer takes over the first artifact of the title.            *)
LEMMA ProjectsList ==
    ASSUME Projects!ProjectsInv, NEW c \in ProjectCalls, Projects!ListArtifacts(c)
    PROVE  Projects!ProjectsInv'
<1>1. /\ pc[c] = "asked" /\ kind[c] = "render" /\ Projects!Go(c, "save")
      /\ UNCHANGED <<kind, project, goals, sessions, registered, artifact, order, output>>
  BY DEF Projects!ListArtifacts, Projects!At, Projects!stores
<1>2. ProjectsTypes /\ ProjectsTitle /\ project \in Projects!Docs /\ Projects!Lists(project) /\ Projects!Holds(c)
  BY ProjectsParts
<1>3. Projects!Listed \subseteq Projects!Listed' /\ pc'[c] = "save"
  BY <1>1, <1>2, ProjectsAdvance
<1>4. c \in Projects!Listed' /\ c \notin Projects!Listed
  BY <1>1, <1>3 DEF Projects!Listed
<1>5. PICK S \in SUBSET ProjectCalls, R \in SUBSET ProjectCalls : S = Projects!Listed /\ R = Projects!Listed'
  BY DEF Projects!Listed
<1>6. /\ Projects!Cardinality(S) \in Nat /\ Projects!Cardinality(R) \in Nat /\ Projects!Cardinality(S) + 1 <= Projects!Cardinality(R)
  BY <1>3, <1>4, <1>5, ProjectsCounts
<1>7. PICK x : /\ held' = [held EXCEPT ![c] = x] /\ x.id \in ProjectCalls /\ x.version \in 1..Projects!Cardinality(R)
  <2>1. CASE order = {}
    <3> DEFINE y == [id |-> c, version |-> 1, born |-> 0]
    <3>1. held' = [held EXCEPT ![c] = y]
      BY <2>1 DEF Projects!ListArtifacts, Projects!Hold
    <3>2. y.id \in ProjectCalls /\ y.version \in 1..Projects!Cardinality(R)
      BY <1>6
    <3> QED
      BY <3>1, <3>2
  <2>2. CASE order # {}
    <3>1. Projects!First \in order /\ Projects!First \in ProjectCalls
      BY <2>2, <1>2, ProjectsFirst DEF ProjectsTypes
    <3>2. artifact[Projects!First].version \in 1..Projects!Cardinality(S)
      BY <3>1, <1>2, <1>5 DEF ProjectsTitle
    <3>3. artifact[Projects!First].version + 1 \in 1..Projects!Cardinality(R)
      BY <3>2, <1>6
    <3> DEFINE y == [id |-> Projects!First, version |-> artifact[Projects!First].version + 1,
                     born |-> artifact[Projects!First].born]
    <3>4. held' = [held EXCEPT ![c] = y]
      BY <2>2 DEF Projects!ListArtifacts, Projects!Hold
    <3>5. y.id \in ProjectCalls /\ y.version \in 1..Projects!Cardinality(R)
      BY <3>1, <3>3
    <3> QED
      BY <3>4, <3>5
  <2> QED
    BY <2>1, <2>2
<1>8. DOMAIN held' = ProjectCalls /\ held'[c] = x /\ (\A d \in ProjectCalls : d # c => held'[d] = held[d])
  BY <1>2, <1>7 DEF ProjectsTypes
<1>9. Projects!Holds(c)'
  <2>1. x.version \in 1..Projects!Cardinality(Projects!Listed)'
    BY <1>5, <1>7
  <2> QED
    BY <1>1, <1>3, <1>7, <1>8, <2>1 DEF Projects!Holds, Projects!Reading, Projects!Rendering
<1>10. Projects!Lists(project)' /\ goals \subseteq ProjectCalls /\ sessions \subseteq ProjectCalls
  BY <1>1, <1>2 DEF Projects!Lists, ProjectsTypes
<1> QED
  BY <1>1, <1>2, <1>8, <1>9, <1>10, ProjectsGo

(* A record of the title is saved.                                             *)
LEMMA ProjectsSave ==
    ASSUME Projects!ProjectsInv, NEW c \in ProjectCalls, NEW status \in {"rendering", "failed", "ready"}, Projects!Saved(c, status),
           NEW to \in {"spec", "register", "refused"}, Projects!Go(c, to), Projects!Rendering(c), to = "register" => pc[c] = "ready",
           UNCHANGED <<kind, held, project, goals, sessions, registered, output>>,
           order' = order \/ order' = order \cup {held[c].id}
    PROVE  Projects!ProjectsInv'
<1>2. ProjectsTypes /\ ProjectsTitle /\ project \in Projects!Docs /\ Projects!Lists(project) /\ Projects!Holds(c)
  BY ProjectsParts
<1>3. Projects!Listed \subseteq Projects!Listed' /\ (\A d \in ProjectCalls : d # c => pc'[d] = pc[d]) /\ pc'[c] = to
  BY <1>2, ProjectsAdvance
<1> DEFINE i == held[c].id
           born == IF i \in order THEN artifact[i].born ELSE Projects!Cardinality(order)
           r == [version |-> held[c].version, status |-> status, born |-> born]
<1>4. i \in ProjectCalls /\ held[c].version \in 1..Projects!Cardinality(Projects!Listed) /\ kind[c] = "render"
  BY <1>2 DEF Projects!Holds
<1>5. Projects!Cardinality(order) \in Nat
  BY <1>2, ProjectsCounts DEF ProjectsTypes
<1>6. Projects!Cardinality(Projects!Listed) \in Nat /\ 1..Projects!Cardinality(Projects!Listed) \subseteq 1..Projects!Cardinality(Projects!Listed)'
  BY <1>3, ProjectsListed
<1>7. born \in Nat
  BY <1>2, <1>4, <1>5 DEF ProjectsTypes
<1>8. r \in [version : Nat, status : {Projects!None, "rendering", "failed", "ready"}, born : Nat] /\ r.version = held[c].version
      /\ r.born = born
  BY <1>4, <1>6, <1>7
<1>9. artifact' = [artifact EXCEPT ![i] = r]
  BY DEF Projects!Saved
<1> HIDE DEF r
<1>10. /\ artifact' \in [ProjectCalls -> [version : Nat, status : {Projects!None, "rendering", "failed", "ready"}, born : Nat]]
       /\ artifact'[i] = r /\ (\A a \in ProjectCalls : a # i => artifact'[a] = artifact[a])
  BY <1>2, <1>4, <1>8, <1>9 DEF ProjectsTypes
<1>11. ProjectsTypes'
  <2>1. pc' = [pc EXCEPT ![c] = to] /\ order' \subseteq ProjectCalls
    BY <1>2, <1>4 DEF Projects!Go, ProjectsTypes
  <2> QED
    BY <1>2, <1>3, <1>10, <2>1 DEF ProjectsTypes
<1>12. ProjectsTitle'
  <2>1. \A a \in order' : artifact'[a].version \in 1..Projects!Cardinality(Projects!Listed)'
    BY <1>2, <1>4, <1>6, <1>8, <1>10 DEF ProjectsTitle, ProjectsTypes
  <2>2. order' # {} => \E a \in order' : artifact'[a].born = 0
    <3> SUFFICES ASSUME order' # {} PROVE \E a \in order' : artifact'[a].born = 0
      OBVIOUS
    <3>1. CASE order = {}
      <4>1. order' = {i} /\ i \notin order
        BY <3>1
      <4>2. born = 0
        BY <3>1, <4>1, FS_EmptySet, ProjectsCardinality
      <4> QED
        BY <1>8, <1>10, <4>1, <4>2
    <3>2. CASE order # {}
      <4>1. PICK a \in order : artifact[a].born = 0
        BY <1>2, <3>2 DEF ProjectsTitle
      <4>2. artifact'[a].born = 0 /\ a \in order'
        BY <1>2, <1>8, <1>10, <4>1 DEF ProjectsTypes
      <4> QED
        BY <4>2
    <3> QED
      BY <3>1, <3>2
  <2>3. \A a \in registered' : Projects!Rendered(a)'
    BY <1>2 DEF ProjectsTitle, Projects!Rendered
  <2> QED
    BY <2>1, <2>2, <2>3 DEF ProjectsTitle
<1>13. ProjectsOthers(c) /\ ProjectsGrow /\ Projects!Lists(project)'
  BY <1>2, <1>3 DEF ProjectsOthers, ProjectsGrow, Projects!Lists
<1>14. Projects!Holds(c)'
  BY <1>2, <1>3, <1>4, <1>6 DEF Projects!Holds, Projects!Reading, Projects!Rendering
<1> QED
  BY <1>2, <1>3, <1>11, <1>12, <1>13, <1>14, ProjectsCallStep

(* Each save of a rendering keeps the invariant.                             *)
LEMMA ProjectsRender ==
    ASSUME Projects!ProjectsInv, NEW c \in ProjectCalls,
           Projects!SaveRendering(c) \/ Projects!WriteSpec(c) \/ Projects!WriteFiles(c) \/ Projects!RenderFails(c) \/ Projects!SaveReady(c)
             \/ Projects!RegisterArtifact(c) \/ Projects!LinkReads(c)
    PROVE  Projects!ProjectsInv'
<1>0. ProjectsTypes /\ ProjectsTitle /\ project \in Projects!Docs /\ Projects!Lists(project) /\ Projects!Holds(c)
      /\ goals \subseteq ProjectCalls /\ sessions \subseteq ProjectCalls /\ DOMAIN held = ProjectCalls
  BY ProjectsParts, ProjectsAt
<1>1. CASE Projects!SaveRendering(c)
  BY <1>1, ProjectsSave DEF Projects!SaveRendering, Projects!At, Projects!Rendering
<1>2. CASE Projects!RenderFails(c)
  BY <1>2, ProjectsSave DEF Projects!RenderFails, Projects!At, Projects!Rendering
<1>3. CASE Projects!SaveReady(c)
  BY <1>3, ProjectsSave DEF Projects!SaveReady, Projects!At, Projects!Rendering
<1>4. CASE Projects!WriteSpec(c)
  <2>1. /\ pc[c] = "spec" /\ Projects!Go(c, "files")
        /\ UNCHANGED <<kind, held, project, goals, sessions, registered, artifact, order, output>>
    BY <1>4 DEF Projects!WriteSpec, Projects!At
  <2>2. Projects!Listed \subseteq Projects!Listed' /\ pc'[c] = "files"
    BY <1>0, <2>1, ProjectsAdvance
  <2>3. 1..Projects!Cardinality(Projects!Listed) \subseteq 1..Projects!Cardinality(Projects!Listed)'
    BY <2>2, ProjectsListed
  <2>4. Projects!Holds(c)' /\ Projects!Lists(project)'
    BY <1>0, <2>1, <2>2, <2>3 DEF Projects!Holds, Projects!Reading, Projects!Rendering, Projects!Lists
  <2> QED
    BY <1>0, <2>1, <2>4, ProjectsGo
<1>5. CASE Projects!WriteFiles(c)
  <2> DEFINE i == held[c].id
             v == held[c].version
  <2>1. /\ pc[c] = "files" /\ Projects!Go(c, "ready") /\ output' = [output EXCEPT ![i][v] = c]
        /\ UNCHANGED <<kind, held, project, goals, sessions, registered, artifact, order>>
    BY <1>5 DEF Projects!WriteFiles, Projects!At
  <2>2. Projects!Listed \subseteq Projects!Listed' /\ pc'[c] = "ready" /\ (\A d \in ProjectCalls : d # c => pc'[d] = pc[d])
    BY <1>0, <2>1, ProjectsAdvance
  <2>3. 1..Projects!Cardinality(Projects!Listed) \subseteq 1..Projects!Cardinality(Projects!Listed)' /\ 1..Projects!Cardinality(Projects!Listed) \subseteq Projects!Versions
    BY <2>2, ProjectsListed
  <2>4. i \in ProjectCalls /\ v \in 1..Projects!Cardinality(Projects!Listed) /\ v \in Projects!Versions /\ c # Projects!None /\ kind[c] = "render"
    BY <1>0, <2>1, <2>3, ServicesAssumption DEF Projects!Holds, Projects!Rendering, Projects!ProjectAssumption
  <2>5. output' \in [ProjectCalls -> [Projects!Versions -> ProjectCalls \cup {Projects!None}]] /\ output'[i][v] = c
        /\ (\A a \in ProjectCalls, w \in Projects!Versions : output'[a][w] = output[a][w] \/ output'[a][w] = c)
    BY <1>0, <2>1, <2>4 DEF ProjectsTypes
  <2>6. ProjectsTypes'
    <3>1. pc' = [pc EXCEPT ![c] = "ready"]
      BY <2>1 DEF Projects!Go
    <3> QED
      BY <1>0, <2>1, <2>2, <2>5, <3>1 DEF ProjectsTypes
  <2>7. ProjectsOthers(c) /\ ProjectsGrow
    BY <2>1, <2>2, <2>4, <2>5 DEF ProjectsOthers, ProjectsGrow
  <2>8. Projects!Holds(c)' /\ Projects!Lists(project)'
    BY <1>0, <2>1, <2>2, <2>3, <2>4, <2>5 DEF Projects!Holds, Projects!Reading, Projects!Rendering, Projects!Lists
  <2> QED
    BY <1>0, <2>1, <2>2, <2>6, <2>7, <2>8, ProjectsTitleKept, ProjectsCallStep
<1>6. CASE Projects!RegisterArtifact(c)
  <2> DEFINE i == held[c].id
  <2>1. /\ pc[c] = "register" /\ kind[c] = "render" /\ Projects!Go(c, "linking") /\ registered' = registered \cup {i}
        /\ held' = [held EXCEPT ![c] = [id |-> i, doc |-> Projects!None]]
        /\ UNCHANGED <<kind, project, goals, sessions, artifact, order, output>>
    BY <1>6 DEF Projects!RegisterArtifact, Projects!At, Projects!Hold
  <2>2. Projects!Listed \subseteq Projects!Listed' /\ pc'[c] = "linking" /\ (\A d \in ProjectCalls : d # c => pc'[d] = pc[d])
    BY <1>0, <2>1, ProjectsAdvance
  <2>3. 1..Projects!Cardinality(Projects!Listed) \subseteq 1..Projects!Cardinality(Projects!Listed)' /\ 1..Projects!Cardinality(Projects!Listed) \subseteq Projects!Versions
    BY <2>2, ProjectsListed
  <2>4. i \in ProjectCalls /\ Projects!Rendered(i)
    BY <1>0, <2>1, <2>3 DEF Projects!Holds, Projects!Rendering, Projects!Rendered
  <2>5. DOMAIN held' = ProjectCalls /\ held'[c].id = i /\ (\A d \in ProjectCalls : d # c => held'[d] = held[d])
    BY <1>0, <2>1
  <2>6. ProjectsTypes'
    <3>1. pc' = [pc EXCEPT ![c] = "linking"]
      BY <2>1 DEF Projects!Go
    <3> QED
      BY <1>0, <2>1, <2>2, <2>4, <2>5, <3>1 DEF ProjectsTypes
  <2>7. ProjectsOthers(c) /\ ProjectsGrow
    BY <2>1, <2>2, <2>5 DEF ProjectsOthers, ProjectsGrow
  <2>8. ProjectsTitle'
    BY <1>0, <2>1, <2>3, <2>4 DEF ProjectsTitle, Projects!Rendered
  <2>9. Projects!Holds(c)' /\ Projects!Lists(project)'
    BY <1>0, <2>1, <2>2, <2>4, <2>5 DEF Projects!Holds, Projects!Reading, Projects!Rendering, Projects!Lists
  <2> QED
    BY <1>0, <2>1, <2>2, <2>6, <2>7, <2>8, <2>9, ProjectsCallStep
<1>7. CASE Projects!LinkReads(c)
  <2>1. /\ pc[c] = "linking" /\ kind[c] = "render" /\ Projects!Go(c, "append")
        /\ held' = [held EXCEPT ![c] = [id |-> held[c].id, doc |-> project]]
        /\ UNCHANGED <<kind, project, goals, sessions, registered, artifact, order, output>>
    BY <1>7 DEF Projects!LinkReads, Projects!At, Projects!Hold, Projects!stores
  <2>2. pc'[c] = "append" /\ DOMAIN held' = ProjectCalls /\ held'[c].id = held[c].id /\ held'[c].doc = project
        /\ (\A d \in ProjectCalls : d # c => held'[d] = held[d])
    BY <1>0, <2>1 DEF Projects!Go, ProjectsTypes
  <2>3. Projects!Lists(project)' /\ Projects!Docs' = Projects!Docs /\ held[c].id \in registered
    BY <1>0, <2>1 DEF Projects!Lists, Projects!Docs, Projects!Holds
  <2>4. Projects!Holds(c)'
    BY <1>0, <2>1, <2>2, <2>3 DEF Projects!Holds, Projects!Reading, Projects!Rendering, Projects!Lists
  <2> QED
    BY <1>0, <2>1, <2>2, <2>3, <2>4, ProjectsGo
<1> QED
  BY <1>1, <1>2, <1>3, <1>4, <1>5, <1>6, <1>7

(* A restart forgets what the calls held.                                    *)
LEMMA ProjectsCrash ==
    ASSUME Projects!ProjectsInv, Projects!Crash
    PROVE  Projects!ProjectsInv'
<1>1. ProjectsTypes /\ ProjectsTitle /\ project \in Projects!Docs /\ Projects!Lists(project)
  BY ProjectsParts
<1>2. UNCHANGED <<kind, project, goals, sessions, registered, artifact, order, output>> /\ DOMAIN held' = ProjectCalls
      /\ pc' = [c \in ProjectCalls |-> IF Projects!Open(c) THEN "lost" ELSE pc[c]]
  BY DEF Projects!Crash, Projects!stores
<1>3. \A c \in ProjectCalls : pc'[c] \in {"new", "done", "refused", "lost"} /\ (pc'[c] = "new" => pc[c] = "new")
  BY <1>2 DEF Projects!Open
<1>4. ProjectsTypes'
  BY <1>1, <1>2, <1>3 DEF ProjectsTypes
<1>5. Projects!Listed \subseteq Projects!Listed' /\ ProjectsGrow
  BY <1>1, <1>2, <1>3 DEF Projects!Listed, ProjectsGrow
<1>6. \A c \in ProjectCalls : Projects!Holds(c)'
  BY <1>3 DEF Projects!Holds, Projects!Reading, Projects!Rendering
<1>7. Projects!Lists(project)' /\ Projects!Docs' = Projects!Docs
  BY <1>1, <1>2 DEF Projects!Lists, Projects!Docs
<1> QED
  BY <1>1, <1>2, <1>4, <1>5, <1>6, <1>7, ProjectsTitleKept, ProjectsParts

(* Every step keeps the invariant.                                           *)
LEMMA ProjectsStep ==
    ASSUME Projects!ProjectsInv, [Projects!Next]_(Projects!vars)
    PROVE  Projects!ProjectsInv'
<1>1. CASE UNCHANGED Projects!vars
  <2>1. UNCHANGED <<pc, kind, held, project, goals, sessions, registered, artifact, order, output>>
    BY <1>1 DEF Projects!vars, Projects!stores
  <2>2. Projects!Listed' = Projects!Listed
    BY <2>1 DEF Projects!Listed
  <2>3. ProjectsTypes' /\ ProjectsTitle'
    BY <2>1, <2>2, ProjectsParts DEF ProjectsTypes, ProjectsTitle, Projects!Rendered
  <2>4. \A c \in ProjectCalls : Projects!Holds(c)'
    BY <2>1, <2>2, ProjectsParts DEF Projects!Holds, Projects!Reading, Projects!Rendering, Projects!Lists, Projects!Docs
  <2> QED
    BY <2>1, <2>3, <2>4, ProjectsParts DEF Projects!Docs, Projects!Lists
<1> QED
  BY <1>1, ProjectsAsk, ProjectsReads, ProjectsDocument, ProjectsList, ProjectsRender, ProjectsCrash DEF Projects!Next

(* Projects: what any call still holds lists only what exists, for any       *)
(* number of calls and crashes.                                              *)
THEOREM ProjectsInvariant == Projects!Spec => []Projects!ProjectsInv
<1>1. Projects!Init => Projects!ProjectsInv
  <2> SUFFICES ASSUME Projects!Init PROVE Projects!ProjectsInv
    OBVIOUS
  <2>1. \A c \in ProjectCalls : pc[c] = "new" /\ kind[c] = Projects!None
    BY DEF Projects!Init
  <2>2. \A c \in ProjectCalls : Projects!Holds(c)
    BY <2>1 DEF Projects!Holds, Projects!Reading, Projects!Rendering
  <2> QED
    BY <2>1, <2>2 DEF Projects!Init, Projects!ProjectsInv, Projects!Docs, Projects!Lists, Projects!NoRecord
<1>2. Projects!ProjectsInv /\ [Projects!Next]_(Projects!vars) => Projects!ProjectsInv'
  BY ProjectsStep
<1> QED
  BY <1>1, <1>2, PTL DEF Projects!Spec

(* The id lists of a project never dangle, whatever is cut off between two   *)
(* stores.                                                                   *)
THEOREM ProjectsNeverDangle == Projects!Spec => []Projects!NeverDangles
<1>1. Projects!ProjectsInv => Projects!NeverDangles
  BY DEF Projects!ProjectsInv, Projects!NeverDangles, Projects!Lists, Projects!Rendered
<1> QED
  BY <1>1, ProjectsInvariant, PTL

(***************************************************************************)
(* The life of a plug-in.                                                  *)
(***************************************************************************)

(* The installation changes by one revision, goes, or is a new one.          *)
LifecycleMoves ==
  \/ UNCHANGED <<inst, installs>>
  \/ inst' = Plugins!NotInstalled /\ installs' = installs
  \/ installs' = installs + 1 /\ inst'.id = installs + 1
  \/ /\ Plugins!Installed /\ installs' = installs
     /\ inst'.id = inst.id /\ inst'.revision = inst.revision + 1

LifecycleState ==
  /\ installs \in Nat
  /\ Plugins!Installed => inst \in Plugins!Installations /\ inst.id = installs /\ Plugins!Switched

(* What a request read stays older than the installation, or equal to it.    *)
LEMMA LifecycleRead ==
    ASSUME Plugins!LifecycleInv, LifecycleMoves, NEW i, Plugins!ReadBefore(i)
    PROVE  Plugins!ReadBefore(i)'
<1> USE DEF Plugins!ReadBefore, Plugins!LifecycleInv
<1>1. i \in Plugins!Installations /\ i.id \in Nat /\ i.revision \in Nat /\ Plugins!Installations' = Plugins!Installations
  BY DEF Plugins!Installations, Plugins!Updates
<1>2. CASE UNCHANGED <<inst, installs>>
  BY <1>2, <1>1 DEF Plugins!Installed
<1>3. CASE inst' = Plugins!NotInstalled /\ installs' = installs
  BY <1>3, <1>1 DEF Plugins!Installed
<1>4. CASE installs' = installs + 1 /\ inst'.id = installs + 1
  BY <1>4, <1>1
<1>5. CASE /\ Plugins!Installed /\ installs' = installs
           /\ inst'.id = inst.id /\ inst'.revision = inst.revision + 1
  <2>1. inst.revision \in Nat
    BY <1>5 DEF Plugins!Installations
  <2> QED
    BY <1>5, <1>1, <2>1
<1> QED
  BY <1>2, <1>3, <1>4, <1>5 DEF LifecycleMoves

(* The requests of others, and the request that moves.                       *)
LEMMA LifecycleOthers ==
    ASSUME Plugins!LifecycleInv, LifecycleMoves, NEW q, Plugins!IsRequest(q)
    PROVE  Plugins!IsRequest(q)'
  BY LifecycleRead DEF Plugins!IsRequest

(* A step that gives one request a new record.                               *)
LEMMA LifecycleRequest ==
    ASSUME Plugins!LifecycleInv, LifecycleMoves, LifecycleState', NEW r \in Requests, NEW q,
           req' = [req EXCEPT ![r] = q], Plugins!IsRequest(q)'
    PROVE  Plugins!LifecycleInv'
<1>1. DOMAIN req' = Requests
  BY DEF Plugins!LifecycleInv
<1>2. \A p \in Requests : Plugins!IsRequest(req[p])'
  <2> SUFFICES ASSUME NEW p \in Requests PROVE Plugins!IsRequest(req[p])'
    OBVIOUS
  <2>1. CASE p = r
    <3>1. req'[p] = q
      BY <2>1 DEF Plugins!LifecycleInv
    <3> QED
      BY <3>1 DEF Plugins!IsRequest, Plugins!ReadBefore
  <2>2. CASE p # r
    <3>1. req'[p] = req[p] /\ Plugins!IsRequest(req[p])
      BY <2>2 DEF Plugins!LifecycleInv
    <3>2. PICK o : o = req[p]
      OBVIOUS
    <3>3. Plugins!IsRequest(o)'
      BY <3>1, <3>2, LifecycleOthers
    <3> QED
      BY <3>1, <3>2, <3>3 DEF Plugins!IsRequest, Plugins!ReadBefore
  <2> QED
    BY <2>1, <2>2
<1> QED
  BY <1>1, <1>2 DEF Plugins!LifecycleInv, LifecycleState

(* A step that only moves a request on.                                      *)
LEMMA LifecycleGoto ==
    ASSUME Plugins!LifecycleInv, LifecycleMoves, LifecycleState', NEW r \in Requests, NEW to, to # "approve", Plugins!Goto(r, to)
    PROVE  Plugins!LifecycleInv'
<1>1. PICK q : q = [req[r] EXCEPT !.pc = to]
  OBVIOUS
<1>2. Plugins!IsRequest(req[r]) /\ req' = [req EXCEPT ![r] = q]
  BY <1>1 DEF Plugins!LifecycleInv, Plugins!Goto
<1>3. q = [op |-> q.op, version |-> q.version, accept |-> q.accept, needs |-> q.needs,
           seen |-> q.seen, pc |-> q.pc] /\ q.pc = to /\ q.version = req[r].version
  BY <1>1, <1>2 DEF Plugins!IsRequest
<1>4. Plugins!IsRequest(q)'
  BY <1>2, <1>3 DEF Plugins!IsRequest, Plugins!Versions
<1> QED
  BY <1>2, <1>4, LifecycleRequest

(* A step that leaves the installation alone.                                *)
LEMMA LifecycleSame ==
    ASSUME Plugins!LifecycleInv, UNCHANGED <<inst, installs, switch>>
    PROVE  LifecycleMoves /\ LifecycleState'
  BY DEF Plugins!LifecycleInv, LifecycleMoves, LifecycleState, Plugins!Installed, Plugins!Installations, Plugins!Updates, Plugins!Switched, Plugins!Pending,
         Plugins!Versions

(* What is known of an installation.                                         *)
LEMMA LifecycleNow ==
    ASSUME Plugins!LifecycleInv, Plugins!Installed
    PROVE  /\ inst \in Plugins!Installations /\ inst.id = installs /\ Plugins!Switched
           /\ inst.id \in Nat /\ inst.revision \in Nat /\ inst.active \in Plugins!Versions /\ inst.pending \in Plugins!Updates
           /\ inst.status \in {"active", "disabled", "needs_review"}
  BY DEF Plugins!LifecycleInv, Plugins!Installations

(* A new revision of the installation.                                       *)
LEMMA LifecycleRevise ==
    ASSUME Plugins!LifecycleInv, Plugins!Installed, NEW status \in {"active", "disabled", "needs_review"},
           NEW active \in Plugins!Versions, NEW update \in Plugins!Updates,
           inst' = [id |-> inst.id, revision |-> inst.revision + 1, status |-> status, active |-> active,
                    pending |-> update],
           installs' = installs,
           status = "active" => switch' = "on" /\ update = Plugins!NoPending,
           status = "needs_review" => update # Plugins!NoPending,
           update # Plugins!NoPending => update.previous # "none" /\ update.version # 0,
           (update # Plugins!NoPending /\ update.previous = "active") => switch' = "on" /\ status = "needs_review"
    PROVE  LifecycleMoves /\ LifecycleState'
<1>1. inst' \in Plugins!Installations /\ installs \in Nat /\ inst'.id = inst.id /\ inst'.revision = inst.revision + 1
      /\ inst'.status = status /\ inst'.pending = update
  BY LifecycleNow DEF Plugins!Installations, Plugins!LifecycleInv
<1>2. LifecycleMoves
  BY <1>1 DEF LifecycleMoves
<1>3. Plugins!Installed' /\ (Plugins!Pending' <=> update # Plugins!NoPending)
  BY <1>1 DEF Plugins!Installed, Plugins!NotInstalled, Plugins!Pending, Plugins!Installations
<1>4. Plugins!Switched'
  BY <1>1, <1>3 DEF Plugins!Switched
<1> QED
  BY <1>1, <1>2, <1>4, LifecycleNow DEF LifecycleState, Plugins!Installations, Plugins!Updates, Plugins!Versions

(* runtime.disable, on behalf of a request, an answer or a restart.          *)
LEMMA LifecycleDisable ==
    ASSUME Plugins!LifecycleInv, Plugins!RuntimeDisable, installs' = installs
    PROVE  LifecycleMoves /\ LifecycleState'
<1>1. CASE ~Plugins!Installed
  BY <1>1 DEF Plugins!RuntimeDisable, Plugins!LifecycleInv, LifecycleMoves, LifecycleState, Plugins!Installed
<1>2. CASE Plugins!Installed /\ inst.status = "disabled"
  <2>1. inst' = inst /\ inst \in Plugins!Installations /\ Plugins!Switched /\ switch' = "off"
    BY <1>2, LifecycleNow DEF Plugins!RuntimeDisable
  <2>2. Plugins!Switched'
    BY <1>2, <2>1 DEF Plugins!Switched, Plugins!Pending, Plugins!Installed
  <2> QED
    BY <1>2, <2>1, <2>2, LifecycleNow
    DEF Plugins!LifecycleInv, LifecycleMoves, LifecycleState, Plugins!Installed, Plugins!Installations, Plugins!Updates, Plugins!Versions
<1>3. CASE Plugins!Installed /\ inst.status # "disabled"
  <2>1. PICK p : p = IF inst.pending = Plugins!NoPending THEN inst.pending
                     ELSE [inst.pending EXCEPT !.previous = "disabled"]
    OBVIOUS
  <2>2. PICK i : i = [inst EXCEPT !.status = "disabled", !.pending = p]
    OBVIOUS
  <2>3. inst' = [i EXCEPT !.revision = @ + 1]
    BY <1>3, <2>1, <2>2 DEF Plugins!RuntimeDisable, Plugins!Revise, Plugins!SwitchedOff
  <2>4. p \in Plugins!Updates /\ (p # Plugins!NoPending => Plugins!Pending /\ p.previous = "disabled" /\ p.version = inst.pending.version)
    BY <1>3, <2>1, LifecycleNow DEF Plugins!Updates, Plugins!NoPending, Plugins!Pending
  <2>5. inst' = [id |-> inst.id, revision |-> inst.revision + 1, status |-> "disabled", active |-> inst.active,
                 pending |-> p]
    BY <1>3, <2>2, <2>3, LifecycleNow DEF Plugins!Installations
  <2>6. p # Plugins!NoPending => p.version # 0
    BY <1>3, <2>4, LifecycleNow DEF Plugins!Switched
  <2> QED
    BY <1>3, <2>4, <2>5, <2>6, LifecycleNow, LifecycleRevise
<1> QED
  BY <1>1, <1>2, <1>3

(* An installation is a new one.                                             *)
LEMMA LifecycleFirst ==
    ASSUME Plugins!LifecycleInv, NEW v \in Plugins!Versions, inst' = Plugins!FirstInstall(v, installs + 1), installs' = installs + 1,
           switch' = "on"
    PROVE  LifecycleMoves /\ LifecycleState'
<1>1. installs \in Nat /\ Plugins!NoPending \in Plugins!Updates
  BY DEF Plugins!LifecycleInv, Plugins!NoPending, Plugins!Updates
<1>2. /\ inst'.id = installs + 1 /\ inst'.revision = 1 /\ inst'.status = "active" /\ inst'.pending = Plugins!NoPending
      /\ inst' \in Plugins!Installations
  BY <1>1 DEF Plugins!FirstInstall, Plugins!Installations
<1>3. ~Plugins!Pending' /\ LifecycleMoves
  BY <1>2 DEF Plugins!Pending, LifecycleMoves, Plugins!NoPending
<1>4. Plugins!Installations' = Plugins!Installations
  BY DEF Plugins!Installations, Plugins!Updates, Plugins!Versions
<1> QED
  BY <1>1, <1>2, <1>3, <1>4 DEF LifecycleState, Plugins!Switched

(* An uninstalled plug-in leaves nothing.                                    *)
LEMMA LifecycleGone ==
    ASSUME Plugins!LifecycleInv, inst' = Plugins!NotInstalled, installs' = installs
    PROVE  LifecycleMoves /\ LifecycleState'
  BY DEF Plugins!LifecycleInv, LifecycleMoves, LifecycleState, Plugins!Installed, Plugins!NotInstalled

(* activateUpdate, for a version that exists and a status that fits the switch. *)
LEMMA LifecycleActivate ==
    ASSUME Plugins!LifecycleInv, Plugins!Installed, NEW r, NEW v \in Plugins!Versions, NEW status \in {"active", "disabled"},
           Plugins!Activate(r, inst, v, status), UNCHANGED <<installs, switch>>, status = "active" => switch = "on"
    PROVE  LifecycleMoves /\ LifecycleState'
<1>1. PICK i : i = [inst EXCEPT !.active = v, !.status = status, !.pending = Plugins!NoPending]
  OBVIOUS
<1>2. inst' = [i EXCEPT !.revision = @ + 1]
  BY <1>1 DEF Plugins!Activate, Plugins!Revise
<1>3. inst' = [id |-> inst.id, revision |-> inst.revision + 1, status |-> status, active |-> v,
               pending |-> Plugins!NoPending]
  BY <1>1, <1>2, LifecycleNow DEF Plugins!Installations
<1>4. Plugins!NoPending \in Plugins!Updates
  BY DEF Plugins!NoPending, Plugins!Updates
<1> QED
  BY <1>3, <1>4, LifecycleRevise

(* What is known of a request.                                               *)
LEMMA LifecycleRequestOf ==
    ASSUME Plugins!LifecycleInv, NEW r \in Requests
    PROVE  Plugins!IsRequest(req[r]) /\ Plugins!Target(r) \in Plugins!Versions
  BY ServicesAssumption DEF Plugins!LifecycleInv, Plugins!IsRequest, Plugins!Target, Plugins!LifecycleAssumption, Plugins!Versions

(* A request arrives.                                                        *)
LEMMA LifecycleArrive ==
    ASSUME Plugins!LifecycleInv, NEW r \in Requests, Plugins!Arrive(r)
    PROVE  Plugins!LifecycleInv'
<1>1. PICK what \in {"install", "uninstall", "enable", "disable", "update"},
           v \in Plugins!Versions \cup {0}, a \in BOOLEAN :
        req' = [req EXCEPT ![r] = [Plugins!NoRequest EXCEPT !.op = what, !.version = v, !.accept = a, !.pc = "begin"]]
  BY DEF Plugins!Arrive
<1>2. PICK q : q = [Plugins!NoRequest EXCEPT !.op = what, !.version = v, !.accept = a, !.pc = "begin"]
  OBVIOUS
<1>3. req' = [req EXCEPT ![r] = q] /\ UNCHANGED <<inst, installs, switch>>
  BY <1>1, <1>2 DEF Plugins!Arrive
<1>4. q = [op |-> q.op, version |-> q.version, accept |-> q.accept, needs |-> q.needs,
           seen |-> q.seen, pc |-> q.pc] /\ q.pc = "begin" /\ q.version = v
  BY <1>2 DEF Plugins!NoRequest
<1>5. Plugins!IsRequest(q)'
  BY <1>4 DEF Plugins!IsRequest, Plugins!Versions
<1> QED
  BY <1>3, <1>5, LifecycleSame, LifecycleRequest

(* install keeps the invariant.                                              *)
LEMMA LifecycleInstall ==
    ASSUME Plugins!LifecycleInv, NEW r \in Requests, Plugins!Install(r)
    PROVE  Plugins!LifecycleInv'
<1>1. CASE Plugins!Installed
  BY <1>1, LifecycleSame, LifecycleGoto DEF Plugins!Install, Plugins!Stop
<1>2. CASE ~Plugins!Installed
  BY <1>2, LifecycleRequestOf, LifecycleFirst, LifecycleGoto DEF Plugins!Install, Plugins!Stop
<1> QED
  BY <1>1, <1>2

(* uninstall, disable and the steps of enable keep it.                       *)
LEMMA LifecycleSwitches ==
    ASSUME Plugins!LifecycleInv, NEW r \in Requests,
           Plugins!Uninstall(r) \/ Plugins!Disable(r) \/ Plugins!EnableVerify(r) \/ Plugins!EnableSwitch(r) \/ Plugins!EnableAnswer(r)
    PROVE  Plugins!LifecycleInv'
<1>1. CASE Plugins!Uninstall(r)
  <2>1. CASE Plugins!Installed
    BY <1>1, <2>1, LifecycleGone, LifecycleGoto DEF Plugins!Uninstall, Plugins!Stop
  <2>2. CASE ~Plugins!Installed
    BY <1>1, <2>2, LifecycleSame, LifecycleGoto DEF Plugins!Uninstall, Plugins!Stop
  <2> QED
    BY <2>1, <2>2
<1>2. CASE Plugins!Disable(r)
  BY <1>2, LifecycleDisable, LifecycleGoto DEF Plugins!Disable, Plugins!Stop
<1>3. CASE Plugins!EnableVerify(r)
  BY <1>3, LifecycleSame, LifecycleGoto DEF Plugins!EnableVerify, Plugins!Stop
<1>4. CASE Plugins!EnableAnswer(r)
  BY <1>4, LifecycleSame, LifecycleDisable, LifecycleGoto DEF Plugins!EnableAnswer, Plugins!Stop
<1>5. CASE Plugins!EnableSwitch(r)
  <2>1. CASE ~Plugins!MayEnable
    BY <1>5, <2>1, LifecycleSame, LifecycleGoto DEF Plugins!EnableSwitch, Plugins!Stop
  <2>2. CASE Plugins!MayEnable
    <3>1. /\ Plugins!Goto(r, "answer") /\ installs' = installs /\ switch' = "on" /\ Plugins!Installed /\ inst.pending = Plugins!NoPending
          /\ inst.status # "needs_review"
      BY <1>5, <2>2 DEF Plugins!EnableSwitch, Plugins!MayEnable
    <3>2. CASE inst.status = "active"
      <4>1. inst' = inst /\ switch' = switch
        BY <1>5, <2>2, <3>1, <3>2, LifecycleNow DEF Plugins!EnableSwitch, Plugins!Switched
      <4> QED
        BY <3>1, <4>1, LifecycleSame, LifecycleGoto
    <3>3. CASE inst.status # "active"
      <4>1. PICK i : i = [inst EXCEPT !.status = "active"]
        OBVIOUS
      <4>2. inst' = [i EXCEPT !.revision = @ + 1]
        BY <1>5, <2>2, <3>3, <4>1 DEF Plugins!EnableSwitch, Plugins!Revise
      <4>3. inst' = [id |-> inst.id, revision |-> inst.revision + 1, status |-> "active", active |-> inst.active,
                     pending |-> inst.pending]
        BY <3>1, <4>1, <4>2, LifecycleNow DEF Plugins!Installations
      <4> QED
        BY <3>1, <4>3, LifecycleNow, LifecycleRevise, LifecycleGoto
    <3> QED
      BY <3>2, <3>3
  <2> QED
    BY <2>1, <2>2
<1> QED
  BY <1>1, <1>2, <1>3, <1>4, <1>5

(* The steps of an update and of its approval keep it.                       *)
LEMMA LifecycleUpdates ==
    ASSUME Plugins!LifecycleInv, NEW r \in Requests,
           Plugins!UpdateList(r) \/ Plugins!UpdateRead(r) \/ Plugins!RuntimeUpdate(r) \/ Plugins!MintReceipt(r) \/ Plugins!Approve(r)
    PROVE  Plugins!LifecycleInv'
<1>1. CASE Plugins!UpdateList(r)
  <2>1. PICK q : q = [req[r] EXCEPT !.needs = Plugins!ListedNeedsConsent, !.pc = "listed"]
    OBVIOUS
  <2>2. req' = [req EXCEPT ![r] = q] /\ UNCHANGED <<inst, installs, switch>>
    BY <1>1, <2>1 DEF Plugins!UpdateList
  <2>3. q = [op |-> q.op, version |-> q.version, accept |-> q.accept, needs |-> q.needs,
             seen |-> q.seen, pc |-> q.pc] /\ q.pc = "listed" /\ q.version = req[r].version
    <3>1. PICK o : o = req[r]
      OBVIOUS
    <3>2. o = [op |-> o.op, version |-> o.version, accept |-> o.accept, needs |-> o.needs,
               seen |-> o.seen, pc |-> o.pc]
      BY <3>1, LifecycleRequestOf DEF Plugins!IsRequest
    <3>3. q = [op |-> o.op, version |-> o.version, accept |-> o.accept, needs |-> Plugins!ListedNeedsConsent,
               seen |-> o.seen, pc |-> "listed"]
      BY <2>1, <3>1, <3>2
    <3> QED
      BY <3>1, <3>3
  <2>4. Plugins!IsRequest(q)'
    BY <2>3, LifecycleRequestOf DEF Plugins!IsRequest, Plugins!Versions
  <2> QED
    BY <2>2, <2>4, LifecycleSame, LifecycleRequest
<1>2. CASE Plugins!UpdateRead(r)
  BY <1>2, LifecycleSame, LifecycleGoto DEF Plugins!UpdateRead
<1>3. CASE Plugins!RuntimeUpdate(r)
  <2> DEFINE v == Plugins!Target(r)
             refused == ~Plugins!Installed \/ Plugins!Pending \/ (Plugins!Installed /\ v <= inst.active) \/ v \in damaged
  <2>1. CASE refused
    BY <1>3, <2>1, LifecycleSame, LifecycleGoto DEF Plugins!RuntimeUpdate, Plugins!Stop
  <2>2. CASE ~refused
    <3>1. Plugins!Installed /\ ~Plugins!Pending /\ inst.pending = Plugins!NoPending /\ inst.status \in {"active", "disabled"} /\ v \in Plugins!Versions
          /\ UNCHANGED <<installs, switch>> /\ (inst.status = "active" => switch = "on")
      BY <1>3, <2>2, LifecycleNow, LifecycleRequestOf DEF Plugins!RuntimeUpdate, Plugins!Pending, Plugins!Switched
    <3>2. CASE Plugins!Added(inst.active, v) # {}
      <4>1. PICK p : p = [version |-> v, added |-> Plugins!Added(inst.active, v),
                          previous |-> IF inst.status = "disabled" THEN "disabled" ELSE "active"]
        OBVIOUS
      <4>2. PICK i : i = [inst EXCEPT !.status = "needs_review", !.pending = p]
        OBVIOUS
      <4>3. inst' = [i EXCEPT !.revision = @ + 1] /\ Plugins!Goto(r, "receipt")
        BY <1>3, <2>2, <3>2, <4>1, <4>2 DEF Plugins!RuntimeUpdate, Plugins!Revise, Plugins!UnderReview
      <4>4. Plugins!Added(inst.active, v) \in SUBSET Permissions
        BY <3>1, ServicesAssumption, LifecycleNow DEF Plugins!Added, Plugins!LifecycleAssumption
      <4>5. p \in Plugins!Updates /\ p # Plugins!NoPending /\ p.previous # "none" /\ p.version # 0
            /\ (p.previous = "active" => inst.status = "active")
        BY <3>1, <4>1, <4>4 DEF Plugins!Updates, Plugins!NoPending, Plugins!Versions
      <4>6. inst' = [id |-> inst.id, revision |-> inst.revision + 1, status |-> "needs_review",
                     active |-> inst.active, pending |-> p]
        BY <3>1, <4>2, <4>3, LifecycleNow DEF Plugins!Installations
      <4> QED
        BY <3>1, <4>3, <4>5, <4>6, LifecycleNow, LifecycleRevise, LifecycleGoto
    <3>3. CASE Plugins!Added(inst.active, v) = {}
      <4>1. PICK status \in {"active", "disabled"} :
              status = IF inst.status = "disabled" THEN "disabled" ELSE "active"
        OBVIOUS
      <4>2. Plugins!Activate(r, inst, v, status) /\ Plugins!Goto(r, "done")
        BY <1>3, <2>2, <3>3, <4>1 DEF Plugins!RuntimeUpdate, Plugins!Stop
      <4>3. status = "active" => switch = "on"
        BY <3>1, <4>1
      <4> QED
        BY <3>1, <4>2, <4>3, LifecycleActivate, LifecycleGoto
    <3> QED
      BY <3>2, <3>3
  <2> QED
    BY <2>1, <2>2
<1>4. CASE Plugins!MintReceipt(r)
  <2>1. CASE ~Plugins!Pending
    BY <1>4, <2>1, LifecycleSame, LifecycleGoto DEF Plugins!MintReceipt, Plugins!Stop
  <2>2. CASE Plugins!Pending
    <3>1. PICK q : q = [req[r] EXCEPT !.seen = inst, !.pc = "approve"]
      OBVIOUS
    <3>2. req' = [req EXCEPT ![r] = q] /\ UNCHANGED <<inst, installs, switch>> /\ Plugins!Installed
      BY <1>4, <2>2, <3>1 DEF Plugins!MintReceipt, Plugins!Pending
    <3>3. q = [op |-> q.op, version |-> q.version, accept |-> q.accept, needs |-> q.needs,
               seen |-> q.seen, pc |-> q.pc] /\ q.version = req[r].version /\ q.seen = inst
      <4>1. PICK o : o = req[r]
        OBVIOUS
      <4>2. o = [op |-> o.op, version |-> o.version, accept |-> o.accept, needs |-> o.needs,
                 seen |-> o.seen, pc |-> o.pc]
        BY <4>1, LifecycleRequestOf DEF Plugins!IsRequest
      <4>3. q = [op |-> o.op, version |-> o.version, accept |-> o.accept, needs |-> o.needs,
                 seen |-> inst, pc |-> "approve"]
        BY <3>1, <4>1, <4>2
      <4> QED
        BY <4>1, <4>3
    <3>4. Plugins!ReadBefore(inst)
      BY <3>2, LifecycleNow DEF Plugins!ReadBefore, Plugins!LifecycleInv
    <3>5. Plugins!ReadBefore(inst)'
      BY <3>2, <3>4 DEF Plugins!ReadBefore, Plugins!Installations, Plugins!Updates, Plugins!Versions, Plugins!Installed
    <3>6. Plugins!IsRequest(q)'
      BY <3>2, <3>3, <3>5, LifecycleRequestOf DEF Plugins!IsRequest, Plugins!Versions, Plugins!ReadBefore
    <3> QED
      BY <3>2, <3>6, LifecycleSame, LifecycleRequest
  <2> QED
    BY <2>1, <2>2
<1>5. CASE Plugins!Approve(r)
  <2>1. CASE UNCHANGED inst /\ Plugins!Goto(r, "done")
    BY <1>5, <2>1, LifecycleSame, LifecycleGoto DEF Plugins!Approve
  <2>2. CASE Plugins!Pending /\ Plugins!Activate(r, inst, inst.pending.version, inst.pending.previous) /\ Plugins!Goto(r, "approved")
    <3>1. Plugins!Installed /\ inst.pending.version \in Plugins!Versions /\ inst.pending.previous \in {"active", "disabled"}
          /\ (inst.pending.previous = "active" => switch = "on") /\ UNCHANGED <<installs, switch>>
      BY <1>5, <2>2, LifecycleNow DEF Plugins!Approve, Plugins!Pending, Plugins!Switched, Plugins!Updates
    <3> QED
      BY <2>2, <3>1, LifecycleActivate, LifecycleGoto
  <2> QED
    BY <1>5, <2>1, <2>2 DEF Plugins!Approve, Plugins!Matches, Plugins!Stop
<1> QED
  BY <1>1, <1>2, <1>3, <1>4, <1>5

(* A restart keeps it.                                                       *)
LEMMA LifecycleRestart ==
    ASSUME Plugins!LifecycleInv, Plugins!Restart
    PROVE  Plugins!LifecycleInv'
<1>1. LifecycleMoves /\ LifecycleState'
  BY LifecycleSame, LifecycleDisable DEF Plugins!Restart
<1>2. \A r \in Requests : Plugins!IsRequest(req[r])'
  <2> SUFFICES ASSUME NEW r \in Requests PROVE Plugins!IsRequest(req[r])'
    OBVIOUS
  <2>1. PICK q : q = IF req[r].pc \in {"idle", "done", "approved"} THEN req[r]
                                ELSE [req[r] EXCEPT !.pc = "done"]
    OBVIOUS
  <2>2. req'[r] = q /\ Plugins!IsRequest(req[r])
    BY <2>1, LifecycleRequestOf DEF Plugins!Restart
  <2>3. q = [op |-> q.op, version |-> q.version, accept |-> q.accept, needs |-> q.needs,
             seen |-> q.seen, pc |-> q.pc] /\ q.version = req[r].version /\ q.pc # "approve"
    BY <2>1, <2>2 DEF Plugins!IsRequest
  <2> QED
    BY <2>2, <2>3 DEF Plugins!IsRequest, Plugins!Versions
<1>3. DOMAIN req' = Requests
  BY DEF Plugins!Restart
<1> QED
  BY <1>1, <1>2, <1>3 DEF Plugins!LifecycleInv, LifecycleState

(* Every step keeps the invariant.                                           *)
LEMMA LifecycleStep ==
    ASSUME Plugins!LifecycleInv, [Plugins!Next]_(Plugins!vars)
    PROVE  Plugins!LifecycleInv'
<1>1. CASE UNCHANGED <<inst, installs, switch, req>>
  <2>1. \A r \in Requests : Plugins!IsRequest(req[r])'
    BY <1>1 DEF Plugins!LifecycleInv, Plugins!IsRequest, Plugins!ReadBefore, Plugins!Versions, Plugins!Installations, Plugins!Updates, Plugins!Installed
  <2> QED
    BY <1>1, <2>1, LifecycleSame DEF Plugins!LifecycleInv, LifecycleState
<1>2. ASSUME NEW v \in Plugins!Versions, Plugins!Tamper(v) PROVE Plugins!LifecycleInv'
  BY <1>1, <1>2 DEF Plugins!Tamper
<1> QED
  BY <1>1, <1>2, LifecycleArrive, LifecycleInstall, LifecycleSwitches, LifecycleUpdates, LifecycleRestart
  DEF Plugins!Next, Plugins!vars

(* Plug-ins: an update under review comes back active only if the plug-in    *)
(* was on all the while, for any registry, requests, damage and crashes.     *)
THEOREM LifecycleInvariant == Plugins!Spec => []Plugins!LifecycleInv
<1>1. Plugins!Init => Plugins!LifecycleInv
  <2> SUFFICES ASSUME Plugins!Init PROVE Plugins!LifecycleInv
    OBVIOUS
  <2>1. \A r \in Requests : Plugins!IsRequest(req[r])
    BY DEF Plugins!Init, Plugins!IsRequest, Plugins!NoRequest
  <2>2. CASE inst = Plugins!NotInstalled /\ installs = 0
    BY <2>1, <2>2 DEF Plugins!Init, Plugins!LifecycleInv, Plugins!Installed
  <2>3. CASE inst = Plugins!FirstInstall(1, 1) /\ installs = 1 /\ switch = "on"
    <3>1. 1 \in Plugins!Versions /\ Plugins!NoPending \in Plugins!Updates
      BY ServicesAssumption DEF Plugins!LifecycleAssumption, Plugins!Versions, Plugins!NoPending, Plugins!Updates
    <3>2. inst \in Plugins!Installations /\ inst.id = 1 /\ inst.status = "active" /\ inst.pending = Plugins!NoPending
      BY <2>3, <3>1 DEF Plugins!FirstInstall, Plugins!Installations
    <3> QED
      BY <2>1, <2>3, <3>2 DEF Plugins!Init, Plugins!LifecycleInv, Plugins!Switched, Plugins!Pending
  <2> QED
    BY <2>2, <2>3 DEF Plugins!Init
<1>2. Plugins!LifecycleInv /\ [Plugins!Next]_(Plugins!vars) => Plugins!LifecycleInv'
  BY LifecycleStep
<1> QED
  BY <1>1, <1>2, PTL DEF Plugins!Spec

(* The invariant gives the two state properties.                             *)
LEMMA LifecycleDecides ==
    ASSUME Plugins!LifecycleInv
    PROVE  Plugins!SwitchAndReviewHold
  BY DEF Plugins!LifecycleInv, Plugins!Switched, Plugins!SwitchAndReviewHold, Plugins!SwitchKept, Plugins!ReviewHolds, Plugins!Pending

(* Only Approve ends a request as approved, and it compared the revision.     *)
LEMMA LifecycleApproves ==
    ASSUME Plugins!LifecycleInv, [Plugins!Next]_(Plugins!vars), NEW r \in Requests, req[r].pc = "approve", req'[r].pc = "approved"
    PROVE  inst.id = req[r].seen.id /\ inst.pending = req[r].seen.pending
<1>0. Plugins!IsRequest(req[r]) /\ Plugins!ReadBefore(req[r].seen) /\ DOMAIN req = Requests
  BY LifecycleRequestOf DEF Plugins!IsRequest, Plugins!LifecycleInv
<1>1. ASSUME NEW q \in Requests, q # r, \E x : req' = [req EXCEPT ![q] = x] PROVE FALSE
  BY <1>0, <1>1
<1>2. ASSUME NEW q \in Requests, q # r, NEW x, Plugins!Goto(q, x) PROVE FALSE
  BY <1>0, <1>2 DEF Plugins!Goto
<1>3. ASSUME NEW x, x # "approved", Plugins!Goto(r, x) PROVE FALSE
  BY <1>0, <1>3 DEF Plugins!Goto, Plugins!IsRequest
<1>4. CASE Plugins!Approve(r)
  <2>1. Plugins!Matches(r)
    BY <1>3, <1>4 DEF Plugins!Approve, Plugins!Stop
  <2>2. Plugins!Installed /\ req[r].seen.id = inst.id /\ req[r].seen.revision = inst.revision
    BY <2>1 DEF Plugins!Matches, Plugins!Pending
  <2> QED
    BY <1>0, <2>2 DEF Plugins!ReadBefore
<1>5. CASE Plugins!Restart \/ \E v \in Plugins!Versions : Plugins!Tamper(v)
  BY <1>0, <1>5 DEF Plugins!Restart, Plugins!Tamper, Plugins!IsRequest
<1>6. ASSUME NEW q \in Requests, q # r,
             \/ Plugins!Arrive(q) \/ Plugins!Install(q) \/ Plugins!Uninstall(q) \/ Plugins!Disable(q)
             \/ Plugins!EnableVerify(q) \/ Plugins!EnableSwitch(q) \/ Plugins!EnableAnswer(q)
             \/ Plugins!UpdateList(q) \/ Plugins!UpdateRead(q) \/ Plugins!RuntimeUpdate(q)
             \/ Plugins!MintReceipt(q) \/ Plugins!Approve(q)
      PROVE  FALSE
  <2>1. CASE Plugins!Arrive(q)
    BY <1>1, <1>6, <2>1 DEF Plugins!Arrive
  <2>2. CASE Plugins!Install(q) \/ Plugins!Uninstall(q) \/ Plugins!Disable(q) \/ Plugins!EnableVerify(q) \/ Plugins!EnableSwitch(q) \/ Plugins!EnableAnswer(q)
    BY <1>2, <1>6, <2>2 DEF Plugins!Install, Plugins!Uninstall, Plugins!Disable, Plugins!EnableVerify, Plugins!EnableSwitch, Plugins!EnableAnswer, Plugins!Stop
  <2>3. CASE Plugins!UpdateList(q) \/ Plugins!MintReceipt(q)
    BY <1>1, <1>2, <1>6, <2>3 DEF Plugins!UpdateList, Plugins!MintReceipt, Plugins!Stop
  <2>4. CASE Plugins!UpdateRead(q) \/ Plugins!RuntimeUpdate(q) \/ Plugins!Approve(q)
    BY <1>2, <1>6, <2>4 DEF Plugins!UpdateRead, Plugins!RuntimeUpdate, Plugins!Approve, Plugins!Stop
  <2> QED
    BY <1>6, <2>1, <2>2, <2>3, <2>4
<1>7. CASE \/ Plugins!Arrive(r) \/ Plugins!Install(r) \/ Plugins!Uninstall(r) \/ Plugins!Disable(r)
           \/ Plugins!EnableVerify(r) \/ Plugins!EnableSwitch(r) \/ Plugins!EnableAnswer(r)
           \/ Plugins!UpdateList(r) \/ Plugins!UpdateRead(r) \/ Plugins!RuntimeUpdate(r)
           \/ Plugins!MintReceipt(r) \/ UNCHANGED Plugins!vars
  BY <1>7 DEF Plugins!Arrive, Plugins!Install, Plugins!Uninstall, Plugins!Disable, Plugins!EnableVerify, Plugins!EnableSwitch, Plugins!EnableAnswer, Plugins!UpdateList,
     Plugins!UpdateRead, Plugins!RuntimeUpdate, Plugins!MintReceipt, Plugins!At, Plugins!vars
<1> QED
  BY <1>4, <1>5, <1>6, <1>7 DEF Plugins!Next

(* What the user decided about a plug-in holds: its switch, its review, and  *)
(* the update an approval was given for.                                     *)
THEOREM LifecycleDecisionsHold == Plugins!Spec => Plugins!DecisionsHold
<1>1. Plugins!LifecycleInv' => Plugins!SwitchAndReviewHold'
  BY LifecycleDecides, PTL
<1>2. Plugins!LifecycleInv /\ Plugins!LifecycleInv' /\ [Plugins!Next]_(Plugins!vars) => [Plugins!SwitchAndReviewHold']_(Plugins!vars)
  BY <1>1
<1>3. Plugins!LifecycleInv /\ [Plugins!Next]_(Plugins!vars) =>
        [\A r \in Requests :
           req[r].pc = "approve" /\ req'[r].pc = "approved" =>
             inst.id = req[r].seen.id /\ inst.pending = req[r].seen.pending]_(Plugins!vars)
  BY LifecycleApproves
<1> QED
  BY <1>2, <1>3, LifecycleInvariant, PTL DEF Plugins!Spec, Plugins!DecisionsHold, Plugins!ApprovesWhatItRead

(***************************************************************************)
(* The alert monitor.                                                      *)
(***************************************************************************)

(* The parts of the invariant.                                               *)
AlertsTypes ==
  /\ answer \in [Submissions -> {"none", "deduplicated", "pending", "rate_limited", "injected"}]
  /\ file \in [Submissions -> {"none", "pending", "delivering"}] /\ transcript \in [Submissions -> 0..1]
  /\ inflight \subseteq Alerts!Injections /\ queue \in [Conversations -> SUBSET Alerts!Injections]
  /\ appending \in [Conversations -> SUBSET Submissions]
  /\ alertsRun \in [Conversations -> {"idle", "active", "running", "ended"}]
  /\ anchors = [memory |-> anchors.memory, audit |-> anchors.audit]
  /\ windows \in Nat /\ stops \in Nat /\ alertsCrashes \in Nat
  /\ stops = 0 => stopped = {}

AlertsTracked ==
  stops = 0 /\ alertsCrashes = 0 => \A a \in Submissions : Alerts!Accepted(a) => Alerts!Tracked(a)

AlertsParts ==
  AlertsTypes /\ Alerts!InOnePlace /\ Alerts!Queued /\ Alerts!KeysHeld /\ Alerts!OncePerWindow /\ AlertsTracked

(* The invariant by its parts.                                               *)
LEMMA AlertsByParts == Alerts!AlertsInv <=> AlertsParts
<1>1. AlertsTypes => (Alerts!DeliveredOnce /\ (stops + alertsCrashes = 0 <=> stops = 0 /\ alertsCrashes = 0))
  BY DEF AlertsTypes, Alerts!DeliveredOnce
<1> QED
  BY <1>1 DEF Alerts!AlertsInv, AlertsTypes, Alerts!AlertsKept, AlertsTracked, AlertsParts

(* An injection is one.                                                      *)
LEMMA AlertsInjection ==
    ASSUME NEW s \in Conversations, NEW A \in SUBSET Submissions, NEW b \in BOOLEAN
    PROVE  /\ Alerts!Injection(s, A, b) \in Alerts!Injections /\ Alerts!Injection(s, A, b).session = s
           /\ Alerts!Injection(s, A, b).alerts = A
  BY DEF Alerts!Injection, Alerts!Injections

(* What an injection carries.                                                *)
LEMMA AlertsOf ==
    ASSUME NEW d \in Alerts!Injections
    PROVE  d.alerts \subseteq Submissions /\ d.session \in Conversations
  BY DEF Alerts!Injections

(* A submission.                                                             *)
LEMMA AlertsSubmit ==
    ASSUME AlertsParts, NEW a \in Submissions, Alerts!Deduplicate(a) \/ Alerts!Persist(a) \/ \E s \in Conversations : Alerts!Inject(a, s)
    PROVE  AlertsParts'
<1>0. AlertsTypes /\ Alerts!InOnePlace /\ Alerts!Queued /\ Alerts!KeysHeld /\ Alerts!OncePerWindow /\ AlertsTracked
  BY DEF AlertsParts
<1>1. UNCHANGED <<alertsRun, stopped, appending, transcript, runs, windows, stops, alertsCrashes>>
  BY DEF Alerts!Deduplicate, Alerts!Persist, Alerts!Inject, Alerts!agent, Alerts!bounds
<1>2. PICK as \in {"deduplicated", "pending", "rate_limited", "injected"} :
        /\ answer[a] = "none" /\ answer' = [answer EXCEPT ![a] = as]
        /\ (as # "deduplicated" =>
             DedupeKey[a] \notin anchors.memory /\ anchors' = Alerts!Anchored({DedupeKey[a]}))
        /\ (as = "deduplicated" => anchors' = anchors)
  BY DEF Alerts!Deduplicate, Alerts!Persist, Alerts!Inject, Alerts!Answer
<1>3. /\ answer' \in [Submissions -> {"none", "deduplicated", "pending", "rate_limited", "injected"}]
      /\ answer'[a] = as /\ (\A b \in Submissions : b # a => answer'[b] = answer[b])
  BY <1>0, <1>2 DEF AlertsTypes
<1>4. /\ anchors' = [memory |-> anchors'.memory, audit |-> anchors'.audit]
      /\ anchors.memory \subseteq anchors'.memory /\ anchors.audit \subseteq anchors'.audit
      /\ (as # "deduplicated" => DedupeKey[a] \in anchors'.memory /\ DedupeKey[a] \in anchors'.audit)
  <2>1. CASE as = "deduplicated"
    BY <1>0, <1>2, <2>1 DEF AlertsTypes
  <2>2. CASE as # "deduplicated"
    <3>1. anchors' = [memory |-> anchors.memory \cup {DedupeKey[a]}, audit |-> anchors.audit \cup {DedupeKey[a]}]
      BY <1>2, <2>2 DEF Alerts!Anchored
    <3>2. anchors'.memory = anchors.memory \cup {DedupeKey[a]} /\ anchors'.audit = anchors.audit \cup {DedupeKey[a]}
      BY <3>1
    <3> QED
      BY <3>1, <3>2
  <2> QED
    BY <2>1, <2>2
<1>5. Alerts!KeysHeld'
  BY <1>0, <1>1, <1>2, <1>3, <1>4 DEF Alerts!KeysHeld, Alerts!Accepted
<1>6. Alerts!OncePerWindow'
  <2> SUFFICES ASSUME windows = 0, NEW b \in Submissions, NEW c \in Submissions, b # c, DedupeKey[b] = DedupeKey[c],
                      Alerts!Accepted(b)', Alerts!Accepted(c)'
               PROVE  FALSE
    BY <1>1 DEF Alerts!OncePerWindow
  <2>1. \A x \in Submissions : x # a /\ Alerts!Accepted(x)' => Alerts!Accepted(x) /\ DedupeKey[x] \in anchors.memory
    BY <1>0, <1>3 DEF Alerts!Accepted, Alerts!KeysHeld
  <2>2. Alerts!Accepted(a)' => DedupeKey[a] \notin anchors.memory
    BY <1>2, <1>3 DEF Alerts!Accepted
  <2> QED
    BY <1>0, <2>1, <2>2 DEF Alerts!OncePerWindow
<1>7. CASE UNCHANGED <<file, inflight, queue>> /\ as = "deduplicated"
  <2>1. AlertsTypes' /\ Alerts!Queued'
    BY <1>0, <1>1, <1>3, <1>4, <1>7 DEF AlertsTypes, Alerts!Queued
  <2>2. Alerts!InOnePlace'
    BY <1>0, <1>1, <1>3, <1>7 DEF AlertsTypes, Alerts!InOnePlace, Alerts!Waits, Alerts!Injections
  <2>3. AlertsTracked'
    BY <1>0, <1>1, <1>3, <1>7 DEF AlertsTracked, Alerts!Accepted, Alerts!Tracked
  <2> QED
    BY <1>5, <1>6, <2>1, <2>2, <2>3 DEF AlertsParts
<1>8. CASE Alerts!Persist(a)
  <2>1. file' = [file EXCEPT ![a] = "pending"] /\ UNCHANGED <<inflight, queue>>
    BY <1>8 DEF Alerts!Persist, Alerts!agent
  <2>2. file' \in [Submissions -> {"none", "pending", "delivering"}] /\ file'[a] = "pending"
        /\ (\A b \in Submissions : b # a => file'[b] = file[b])
    BY <1>0, <2>1 DEF AlertsTypes
  <2>3. AlertsTypes' /\ Alerts!Queued'
    BY <1>0, <1>1, <1>3, <1>4, <2>1, <2>2 DEF AlertsTypes, Alerts!Queued
  <2>4. (\A d \in inflight : a \notin d.alerts) /\ (\A s \in Conversations : a \notin appending[s]) /\ transcript[a] = 0
    BY <1>0, <1>2 DEF Alerts!InOnePlace, Alerts!Waits, AlertsTypes
  <2>7. \A b : b # a /\ Alerts!Waits(b) => answer'[b] = answer[b] /\ file'[b] = file[b] /\ Alerts!Waits(b)'
    BY <1>0, <1>1, <1>2, <2>1 DEF Alerts!Waits, AlertsTypes
  <2>8. \A d \in inflight' : \A b \in d.alerts : Alerts!Waits(b)' /\ \A s \in Conversations : b \notin appending'[s]
    BY <1>0, <1>1, <2>1, <2>4, <2>7 DEF Alerts!InOnePlace
  <2>9. \A s \in Conversations : \A b \in appending'[s] :
          Alerts!Waits(b)' /\ \A t \in Conversations \ {s} : b \notin appending'[t]
    BY <1>0, <1>1, <2>4, <2>7 DEF Alerts!InOnePlace
  <2>10. \A b \in Submissions : /\ (transcript'[b] = 1 \/ file'[b] = "pending" => answer'[b] # "none")
                           /\ (transcript'[b] = 1 => file'[b] # "pending")
    <3> SUFFICES ASSUME NEW b \in Submissions
                 PROVE  /\ (transcript'[b] = 1 \/ file'[b] = "pending" => answer'[b] # "none")
                        /\ (transcript'[b] = 1 => file'[b] # "pending")
      OBVIOUS
    <3>1. CASE b = a
      <4>0. transcript'[b] = 0 /\ answer'[b] = as
        BY <3>1, <1>1, <1>3, <2>4
      <4>2. as # "none"
        OBVIOUS
      <4>1. answer'[b] # "none"
        BY <4>0, <4>2
      <4>3. transcript'[b] # 1
        BY <4>0
      <4> QED
        BY <4>1, <4>3
    <3>2. CASE b # a
      <4>1. /\ (transcript[b] = 1 \/ file[b] = "pending" => answer[b] # "none")
            /\ (transcript[b] = 1 => file[b] # "pending")
        BY <1>0 DEF Alerts!InOnePlace
      <4> QED
        BY <4>1, <3>2, <1>1, <1>3, <2>2
    <3> QED
      BY <3>1, <3>2
  <2>5. Alerts!InOnePlace'
    BY <1>0, <2>1, <2>8, <2>9, <2>10 DEF Alerts!InOnePlace
  <2>6. AlertsTracked'
    BY <1>0, <1>1, <1>3, <2>1, <2>2 DEF AlertsTracked, Alerts!Accepted, Alerts!Tracked
  <2> QED
    BY <1>5, <1>6, <2>3, <2>5, <2>6 DEF AlertsParts
<1>9. ASSUME NEW s \in Conversations, Alerts!Inject(a, s) PROVE AlertsParts'
  <2>1. PICK x : x = Alerts!Injection(s, {a}, FALSE)
    OBVIOUS
  <2>2. x \in Alerts!Injections /\ x.session = s /\ x.alerts = {a}
    BY <2>1, AlertsInjection
  <2>3. /\ queue' = [queue EXCEPT ![s] = @ \cup {x}] /\ inflight' = inflight \cup {x} /\ file' = file
    BY <1>9, <2>1 DEF Alerts!Inject
  <2>4. queue' \in [Conversations -> SUBSET Alerts!Injections] /\ queue'[s] = queue[s] \cup {x}
        /\ (\A t \in Conversations : t # s => queue'[t] = queue[t])
    BY <1>0, <2>2, <2>3 DEF AlertsTypes
  <2>5. AlertsTypes'
    BY <1>0, <1>1, <1>3, <1>4, <2>2, <2>3, <2>4 DEF AlertsTypes
  <2>6. Alerts!Queued'
    BY <1>0, <1>1, <2>2, <2>3, <2>4 DEF Alerts!Queued
  <2>7. (\A d \in inflight : a \notin d.alerts) /\ (\A t \in Conversations : a \notin appending[t]) /\ transcript[a] = 0
        /\ file[a] # "pending"
    BY <1>0, <1>2 DEF Alerts!InOnePlace, Alerts!Waits, AlertsTypes
  <2>8. \A d \in inflight' : d # x => d \in inflight
    BY <2>3
  <2>9. Alerts!Waits(a)' /\ (\A b \in Submissions : Alerts!Waits(b) => Alerts!Waits(b)')
    BY <1>1, <1>2, <1>3, <2>3, <2>7 DEF Alerts!Waits
  <2>10. \A d, e \in inflight' : \A b \in d.alerts \cap e.alerts : d = e
    BY <1>0, <2>2, <2>7, <2>8 DEF Alerts!InOnePlace
  <2>11. \A d \in inflight' : \A b \in d.alerts : b \in Submissions /\ Alerts!Waits(b)' /\ \A t \in Conversations : b \notin appending'[t]
    <3> SUFFICES ASSUME NEW d \in inflight', NEW b \in d.alerts
                 PROVE  b \in Submissions /\ Alerts!Waits(b)' /\ \A t \in Conversations : b \notin appending'[t]
      OBVIOUS
    <3>1. CASE d = x
      BY <3>1, <1>1, <2>2, <2>7, <2>9
    <3>2. CASE d # x
      <4>1. d \in inflight /\ d \in Alerts!Injections
        BY <3>2, <2>8, <1>0 DEF AlertsTypes
      <4>2. b \in Submissions /\ Alerts!Waits(b) /\ \A t \in Conversations : b \notin appending[t]
        BY <4>1, <1>0, AlertsOf DEF Alerts!InOnePlace
      <4> QED
        BY <4>2, <1>1, <2>9
    <3> QED
      BY <3>1, <3>2
  <2>12. Alerts!InOnePlace'
    BY <1>0, <1>1, <1>3, <2>3, <2>9, <2>10, <2>11 DEF Alerts!InOnePlace, AlertsTypes
  <2>13. AlertsTracked'
    BY <1>0, <1>1, <1>3, <2>2, <2>3 DEF AlertsTracked, Alerts!Accepted, Alerts!Tracked
  <2> QED
    BY <1>5, <1>6, <2>5, <2>6, <2>12, <2>13 DEF AlertsParts
<1> QED
  BY <1>2, <1>3, <1>7, <1>8, <1>9 DEF Alerts!Deduplicate, Alerts!Answer, Alerts!agent

(* A step that leaves the alerts where they are.                             *)
LEMMA AlertsStill ==
    ASSUME AlertsParts, AlertsTypes', UNCHANGED <<answer, file, inflight, transcript, appending>>,
           Alerts!Queued', windows' = windows, alertsCrashes' = alertsCrashes, anchors' = anchors, stops' = 0 => stops = 0
    PROVE  AlertsParts'
  BY DEF AlertsParts, Alerts!InOnePlace, Alerts!Waits, Alerts!KeysHeld, Alerts!Accepted, Alerts!OncePerWindow, AlertsTracked, Alerts!Tracked

(* agent_start: the pending alerts move into one injection.                  *)
LEMMA AlertsFlush ==
    ASSUME AlertsParts, NEW s \in Conversations, Alerts!FlushPending(s)
    PROVE  AlertsParts'
<1>0. AlertsTypes /\ Alerts!InOnePlace /\ Alerts!Queued /\ Alerts!KeysHeld /\ Alerts!OncePerWindow /\ AlertsTracked
  BY DEF AlertsParts
<1>1. UNCHANGED <<answer, stopped, appending, transcript, windows, stops, alertsCrashes>>
  BY DEF Alerts!FlushPending, Alerts!bounds
<1>2. PICK A \in SUBSET Submissions : A = Alerts!Deliverable
  BY DEF Alerts!Deliverable
<1>3. PICK x : x = Alerts!Injection(s, A, TRUE)
  OBVIOUS
<1>4. x \in Alerts!Injections /\ x.session = s /\ x.alerts = A
  BY <1>3, AlertsInjection
<1>5. PICK batch : batch = IF A = {} THEN {} ELSE {x}
  OBVIOUS
<1>6. /\ queue' = [queue EXCEPT ![s] = @ \cup batch] /\ inflight' = inflight \cup batch
      /\ file' = [a \in Submissions |-> IF a \in A THEN "delivering" ELSE file[a]]
      /\ alertsRun[s] = "active" /\ alertsRun' = [alertsRun EXCEPT ![s] = "running"]
  BY <1>2, <1>3, <1>5 DEF Alerts!FlushPending
<1>7. \E K : anchors' = [anchors EXCEPT !.audit = @ \cup K]
  BY DEF Alerts!FlushPending
<1>8. /\ anchors' = [memory |-> anchors'.memory, audit |-> anchors'.audit]
      /\ anchors.memory \subseteq anchors'.memory /\ anchors.audit \subseteq anchors'.audit
  BY <1>0, <1>7 DEF AlertsTypes
<1>9. \A a \in Submissions : a \in A <=> file[a] = "pending"
  BY <1>2 DEF Alerts!Deliverable
<1>10. /\ queue' \in [Conversations -> SUBSET Alerts!Injections] /\ queue'[s] = queue[s] \cup batch
       /\ (\A t \in Conversations : t # s => queue'[t] = queue[t])
  BY <1>0, <1>4, <1>5, <1>6 DEF AlertsTypes
<1>11. AlertsTypes'
  BY <1>0, <1>1, <1>4, <1>5, <1>6, <1>8, <1>10 DEF AlertsTypes
<1>12. Alerts!Queued'
  BY <1>0, <1>1, <1>4, <1>5, <1>6, <1>10 DEF Alerts!Queued, AlertsTypes
<1>13. Alerts!KeysHeld' /\ Alerts!OncePerWindow'
  BY <1>0, <1>1, <1>8 DEF Alerts!KeysHeld, Alerts!Accepted, Alerts!OncePerWindow
<1>14. \A d \in inflight' : d \in inflight \/ (d = x /\ A # {})
  BY <1>5, <1>6
<1>15. \A a \in A : /\ a \in Submissions /\ answer[a] # "none" /\ transcript[a] = 0 /\ file'[a] = "delivering"
                     /\ (\A t \in Conversations : a \notin appending[t]) /\ (\A d \in inflight : a \notin d.alerts)
  <2> SUFFICES ASSUME NEW a \in A
               PROVE  /\ a \in Submissions /\ answer[a] # "none" /\ transcript[a] = 0 /\ file'[a] = "delivering"
                      /\ (\A t \in Conversations : a \notin appending[t]) /\ (\A d \in inflight : a \notin d.alerts)
    OBVIOUS
  <2>1. a \in Submissions /\ file[a] = "pending" /\ file'[a] = "delivering" /\ ~Alerts!Waits(a) /\ transcript[a] \in 0..1
    BY <1>0, <1>6, <1>9 DEF Alerts!Waits, AlertsTypes
  <2>2. answer[a] # "none" /\ transcript[a] # 1
    BY <1>0, <2>1 DEF Alerts!InOnePlace
  <2>3. (\A t \in Conversations : a \notin appending[t]) /\ (\A d \in inflight : a \notin d.alerts)
    BY <1>0, <2>1 DEF Alerts!InOnePlace
  <2> QED
    BY <2>1, <2>2, <2>3
<1>16. \A a \in Submissions : (file'[a] = "pending" => file[a] = "pending") /\ (Alerts!Waits(a) => Alerts!Waits(a)')
  BY <1>1, <1>6 DEF Alerts!Waits
<1>17. \A d, e \in inflight' : \A b \in d.alerts \cap e.alerts : d = e
  BY <1>0, <1>4, <1>14, <1>15 DEF Alerts!InOnePlace
<1>18. \A d \in inflight' : \A b \in d.alerts : b \in Submissions /\ Alerts!Waits(b)' /\ \A t \in Conversations : b \notin appending'[t]
  <2> SUFFICES ASSUME NEW d \in inflight', NEW b \in d.alerts
               PROVE  b \in Submissions /\ Alerts!Waits(b)' /\ \A t \in Conversations : b \notin appending'[t]
    OBVIOUS
  <2>1. CASE d = x
    BY <2>1, <1>1, <1>4, <1>15 DEF Alerts!Waits
  <2>2. CASE d \in inflight
    <3>1. b \in Submissions /\ Alerts!Waits(b) /\ \A t \in Conversations : b \notin appending[t]
      BY <2>2, <1>0, AlertsOf DEF Alerts!InOnePlace, AlertsTypes
    <3> QED
      BY <3>1, <1>1, <1>16
  <2> QED
    BY <2>1, <2>2, <1>14
<1>19. \A t \in Conversations : \A b \in appending'[t] : Alerts!Waits(b)' /\ \A u \in Conversations \ {t} : b \notin appending'[u]
  <2> SUFFICES ASSUME NEW t \in Conversations, NEW b \in appending[t]
               PROVE  Alerts!Waits(b)' /\ \A u \in Conversations \ {t} : b \notin appending[u]
    BY <1>1
  <2>1. b \in Submissions /\ Alerts!Waits(b) /\ \A u \in Conversations \ {t} : b \notin appending[u]
    BY <1>0 DEF Alerts!InOnePlace, AlertsTypes
  <2> QED
    BY <2>1, <1>16
<1>20. Alerts!InOnePlace'
  <2>1. \A a \in Submissions : transcript'[a] = 1 \/ file'[a] = "pending" => answer'[a] # "none"
    BY <1>0, <1>1, <1>16 DEF Alerts!InOnePlace
  <2>2. \A a \in Submissions : transcript'[a] = 1 => file'[a] # "pending"
    BY <1>0, <1>1, <1>16 DEF Alerts!InOnePlace
  <2> QED
    BY <1>17, <1>18, <1>19, <2>1, <2>2 DEF Alerts!InOnePlace
<1>21. AlertsTracked'
  BY <1>0, <1>1, <1>6 DEF AlertsTracked, Alerts!Accepted, Alerts!Tracked
<1> QED
  BY <1>11, <1>12, <1>13, <1>20, <1>21 DEF AlertsParts

(* message_end: an injection that is queued by a live agent is in flight,    *)
(* and leaves both.                                                          *)
LEMMA AlertsConfirm ==
    ASSUME AlertsParts, NEW s \in Conversations, NEW d \in queue[s], Alerts!ConfirmDelivery(s, d)
    PROVE  AlertsParts'
<1>0. AlertsTypes /\ Alerts!InOnePlace /\ Alerts!Queued /\ Alerts!KeysHeld /\ Alerts!OncePerWindow /\ AlertsTracked
  BY DEF AlertsParts
<1>1. UNCHANGED <<answer, alertsRun, stopped, transcript, windows, stops, alertsCrashes>>
  BY DEF Alerts!ConfirmDelivery, Alerts!bounds
<1>2. /\ alertsRun[s] = "running" /\ appending[s] = Alerts!NoAlerts /\ queue' = [queue EXCEPT ![s] = @ \ {d}]
      /\ appending' = [appending EXCEPT ![s] = d.alerts]
  BY DEF Alerts!ConfirmDelivery
<1>3. d \in inflight /\ d.session = s /\ d \in Alerts!Injections /\ d.alerts \subseteq Submissions
  BY <1>0, <1>2, AlertsOf DEF Alerts!Queued, AlertsTypes
<1>4. /\ inflight' = inflight \ {d}
      /\ file' = file \/ file' = [a \in Submissions |-> IF a \in d.alerts THEN "none" ELSE file[a]]
  BY <1>3 DEF Alerts!ConfirmDelivery
<1>5. \E K : anchors' = [anchors EXCEPT !.audit = @ \cup K]
  BY <1>3 DEF Alerts!ConfirmDelivery
<1>6. /\ anchors' = [memory |-> anchors'.memory, audit |-> anchors'.audit]
      /\ anchors.memory \subseteq anchors'.memory /\ anchors.audit \subseteq anchors'.audit
  BY <1>0, <1>5 DEF AlertsTypes
<1>7. /\ queue' \in [Conversations -> SUBSET Alerts!Injections] /\ queue'[s] = queue[s] \ {d}
      /\ (\A t \in Conversations : t # s => queue'[t] = queue[t])
      /\ appending' \in [Conversations -> SUBSET Submissions] /\ appending'[s] = d.alerts
      /\ (\A t \in Conversations : t # s => appending'[t] = appending[t])
  BY <1>0, <1>2, <1>3 DEF AlertsTypes
<1>8. file' \in [Submissions -> {"none", "pending", "delivering"}]
      /\ (\A a \in Submissions : file'[a] = file[a] \/ (file'[a] = "none" /\ a \in d.alerts))
  BY <1>0, <1>4 DEF AlertsTypes
<1>9. AlertsTypes'
  BY <1>0, <1>1, <1>4, <1>6, <1>7, <1>8 DEF AlertsTypes
<1>10. Alerts!Queued'
  <2> SUFFICES ASSUME NEW t \in Conversations
               PROVE  /\ \A e \in queue'[t] : e.session = t
                      /\ (alertsRun'[t] # "ended" => queue'[t] \subseteq inflight')
                      /\ (alertsRun'[t] # "running" => appending'[t] = Alerts!NoAlerts)
    BY DEF Alerts!Queued
  <2>1. CASE t = s
    BY <2>1, <1>0, <1>1, <1>2, <1>4, <1>7 DEF Alerts!Queued
  <2>2. CASE t # s
    BY <2>2, <1>0, <1>1, <1>3, <1>4, <1>7 DEF Alerts!Queued
  <2> QED
    BY <2>1, <2>2
<1>11. Alerts!KeysHeld' /\ Alerts!OncePerWindow'
  BY <1>0, <1>1, <1>6 DEF Alerts!KeysHeld, Alerts!Accepted, Alerts!OncePerWindow
<1>12. \A b \in d.alerts : /\ b \in Submissions /\ Alerts!Waits(b) /\ (\A t \in Conversations : b \notin appending[t])
                           /\ (\A e \in inflight' : b \notin e.alerts)
  BY <1>0, <1>3, <1>4 DEF Alerts!InOnePlace
<1>13. \A a \in Submissions : (file'[a] = "pending" => file[a] = "pending") /\ (Alerts!Waits(a) => Alerts!Waits(a)')
  BY <1>1, <1>8 DEF Alerts!Waits
<1>14. \A e \in inflight' : \A b \in e.alerts : Alerts!Waits(b)' /\ \A t \in Conversations : b \notin appending'[t]
  <2> SUFFICES ASSUME NEW e \in inflight', NEW b \in e.alerts
               PROVE  Alerts!Waits(b)' /\ \A t \in Conversations : b \notin appending'[t]
    OBVIOUS
  <2>1. e \in inflight /\ b \in Submissions /\ b \notin d.alerts
    BY <1>0, <1>4, <1>12, AlertsOf DEF AlertsTypes
  <2>2. Alerts!Waits(b) /\ \A t \in Conversations : b \notin appending[t]
    BY <1>0, <2>1 DEF Alerts!InOnePlace
  <2> QED
    BY <2>1, <2>2, <1>7, <1>13
<1>15. \A t \in Conversations : \A b \in appending'[t] : Alerts!Waits(b)' /\ \A u \in Conversations \ {t} : b \notin appending'[u]
  <2> SUFFICES ASSUME NEW t \in Conversations, NEW b \in appending'[t]
               PROVE  Alerts!Waits(b)' /\ \A u \in Conversations \ {t} : b \notin appending'[u]
    OBVIOUS
  <2>1. CASE t = s
    BY <2>1, <1>7, <1>12, <1>13
  <2>2. CASE t # s
    <3>1. b \in appending[t] /\ b \in Submissions
      BY <2>2, <1>0, <1>7 DEF AlertsTypes
    <3>2. Alerts!Waits(b) /\ (\A u \in Conversations \ {t} : b \notin appending[u]) /\ b \notin d.alerts
      BY <1>0, <1>12, <3>1 DEF Alerts!InOnePlace
    <3> QED
      BY <2>2, <3>1, <3>2, <1>7, <1>13
  <2> QED
    BY <2>1, <2>2
<1>16. Alerts!InOnePlace'
  <2>1. \A a \in Submissions : transcript'[a] = 1 \/ file'[a] = "pending" => answer'[a] # "none"
    BY <1>0, <1>1, <1>13 DEF Alerts!InOnePlace
  <2>2. \A a \in Submissions : transcript'[a] = 1 => file'[a] # "pending"
    BY <1>0, <1>1, <1>13 DEF Alerts!InOnePlace
  <2>3. \A e, f \in inflight' : \A b \in e.alerts \cap f.alerts : e = f
    BY <1>0, <1>4 DEF Alerts!InOnePlace
  <2> QED
    BY <1>14, <1>15, <2>1, <2>2, <2>3 DEF Alerts!InOnePlace
<1>17. AlertsTracked'
  <2> SUFFICES ASSUME stops = 0, alertsCrashes = 0, NEW a \in Submissions, Alerts!Accepted(a) PROVE Alerts!Tracked(a)'
    BY <1>1 DEF AlertsTracked, Alerts!Accepted
  <2>1. Alerts!Tracked(a)
    BY <1>0 DEF AlertsTracked
  <2>2. CASE a \in d.alerts
    BY <2>2, <1>7 DEF Alerts!Tracked
  <2>3. CASE a \notin d.alerts
    <3>1. file'[a] = file[a] /\ (\A e \in inflight : a \in e.alerts => e \in inflight')
          /\ (\A t \in Conversations : a \in appending[t] => a \in appending'[t])
      BY <2>3, <1>2, <1>4, <1>7, <1>8 DEF Alerts!NoAlerts
    <3> QED
      BY <2>1, <3>1, <1>1 DEF Alerts!Tracked
  <2> QED
    BY <2>2, <2>3
<1> QED
  BY <1>9, <1>10, <1>11, <1>16, <1>17 DEF AlertsParts

(* The confirmed alerts enter the transcript.                                *)
LEMMA AlertsAppend ==
    ASSUME AlertsParts, NEW s \in Conversations, Alerts!Append(s)
    PROVE  AlertsParts'
<1>0. AlertsTypes /\ Alerts!InOnePlace /\ Alerts!Queued /\ Alerts!KeysHeld /\ Alerts!OncePerWindow /\ AlertsTracked
  BY DEF AlertsParts
<1>1. UNCHANGED <<answer, file, anchors, inflight, alertsRun, stopped, queue, windows, stops, alertsCrashes>>
  BY DEF Alerts!Append, Alerts!store, Alerts!bounds
<1>2. PICK A \in SUBSET Submissions : A = appending[s]
  BY <1>0 DEF AlertsTypes
<1>3. /\ transcript' = [a \in Submissions |-> transcript[a] + (IF a \in A THEN 1 ELSE 0)]
      /\ appending' = [appending EXCEPT ![s] = {}]
  BY <1>2 DEF Alerts!Append, Alerts!NoAlerts
<1>4. \A a \in A : Alerts!Waits(a) /\ (\A t \in Conversations \ {s} : a \notin appending[t]) /\ (\A d \in inflight : a \notin d.alerts)
  BY <1>0, <1>2 DEF Alerts!InOnePlace
<1>5. /\ \A a \in A : transcript'[a] = 1
      /\ \A a \in Submissions : a \notin A => transcript'[a] = transcript[a]
      /\ transcript' \in [Submissions -> 0..1]
  BY <1>0, <1>3, <1>4 DEF AlertsTypes, Alerts!Waits
<1>6. /\ appending' \in [Conversations -> SUBSET Submissions] /\ appending'[s] = {}
      /\ (\A t \in Conversations : t # s => appending'[t] = appending[t])
  BY <1>0, <1>3 DEF AlertsTypes
<1>7. AlertsTypes' /\ Alerts!Queued' /\ Alerts!KeysHeld' /\ Alerts!OncePerWindow'
  BY <1>0, <1>1, <1>5, <1>6 DEF AlertsTypes, Alerts!Queued, Alerts!KeysHeld, Alerts!Accepted, Alerts!OncePerWindow, Alerts!NoAlerts
<1>8. \A a \in Submissions : a \notin A /\ Alerts!Waits(a) => Alerts!Waits(a)'
  BY <1>1, <1>5 DEF Alerts!Waits
<1>9. \A d \in inflight' : \A b \in d.alerts : Alerts!Waits(b)' /\ \A t \in Conversations : b \notin appending'[t]
  <2> SUFFICES ASSUME NEW d \in inflight, NEW b \in d.alerts
               PROVE  Alerts!Waits(b)' /\ \A t \in Conversations : b \notin appending'[t]
    BY <1>1
  <2>1. b \in Submissions /\ b \notin A /\ Alerts!Waits(b) /\ \A t \in Conversations : b \notin appending[t]
    BY <1>0, <1>4, AlertsOf DEF AlertsTypes, Alerts!InOnePlace
  <2> QED
    BY <2>1, <1>6, <1>8
<1>10. \A t \in Conversations : \A b \in appending'[t] : Alerts!Waits(b)' /\ \A u \in Conversations \ {t} : b \notin appending'[u]
  <2> SUFFICES ASSUME NEW t \in Conversations, NEW b \in appending'[t]
               PROVE  Alerts!Waits(b)' /\ \A u \in Conversations \ {t} : b \notin appending'[u]
    OBVIOUS
  <2>1. t # s /\ b \in appending[t] /\ b \in Submissions /\ b \notin A
    BY <1>0, <1>4, <1>6 DEF AlertsTypes
  <2>2. Alerts!Waits(b) /\ \A u \in Conversations \ {t} : b \notin appending[u]
    BY <1>0, <2>1 DEF Alerts!InOnePlace
  <2> QED
    BY <2>1, <2>2, <1>6, <1>8
<1>11. Alerts!InOnePlace'
  <2>1. \A a \in Submissions : transcript'[a] = 1 \/ file'[a] = "pending" => answer'[a] # "none"
    BY <1>0, <1>1, <1>4, <1>5 DEF Alerts!InOnePlace, Alerts!Waits
  <2>2. \A a \in Submissions : transcript'[a] = 1 => file'[a] # "pending"
    BY <1>0, <1>1, <1>4, <1>5 DEF Alerts!InOnePlace, Alerts!Waits
  <2> QED
    BY <1>0, <1>1, <1>9, <1>10, <2>1, <2>2 DEF Alerts!InOnePlace
<1>12. AlertsTracked'
  <2> SUFFICES ASSUME stops = 0, alertsCrashes = 0, NEW a \in Submissions, Alerts!Accepted(a) PROVE Alerts!Tracked(a)'
    BY <1>1 DEF AlertsTracked, Alerts!Accepted
  <2>1. Alerts!Tracked(a)
    BY <1>0 DEF AlertsTracked
  <2>2. CASE a \in A
    <3>1. transcript'[a] = 1
      BY <2>2, <1>5
    <3> QED
      BY <3>1 DEF Alerts!Tracked
  <2>3. CASE a \notin A
    <3>1. transcript'[a] = transcript[a] /\ (\A t \in Conversations : a \in appending[t] => a \in appending'[t])
      BY <2>3, <1>2, <1>5, <1>6
    <3> QED
      BY <2>1, <3>1, <1>1 DEF Alerts!Tracked
  <2> QED
    BY <2>2, <2>3
<1> QED
  BY <1>7, <1>11, <1>12 DEF AlertsParts

(* agent_end: what was not drained is written down again.                    *)
LEMMA AlertsRelease ==
    ASSUME AlertsParts, NEW s \in Conversations, Alerts!ReleaseUndelivered(s)
    PROVE  AlertsParts'
<1>0. AlertsTypes /\ Alerts!InOnePlace /\ Alerts!Queued /\ Alerts!KeysHeld /\ Alerts!OncePerWindow /\ AlertsTracked
  BY DEF AlertsParts
<1>1. UNCHANGED <<answer, anchors, stopped, queue, appending, transcript, windows, stops, alertsCrashes>>
  BY DEF Alerts!ReleaseUndelivered, Alerts!bounds
<1>2. /\ alertsRun' = [alertsRun EXCEPT ![s] = "ended"] /\ appending[s] = Alerts!NoAlerts
      /\ inflight' = {d \in inflight : d.session # s}
  BY DEF Alerts!ReleaseUndelivered
<1>3. PICK A : A = Alerts!Requeued(s)
  OBVIOUS
<1>4. \A a : a \in A <=> \E d \in inflight : d.session = s /\ a \in d.alerts
  BY <1>3 DEF Alerts!Requeued
<1>5. file' = [a \in Submissions |-> IF a \in A THEN "pending" ELSE file[a]]
  BY <1>3 DEF Alerts!ReleaseUndelivered
<1>6. \A a \in A : /\ Alerts!Waits(a) /\ (\A t \in Conversations : a \notin appending[t])
                    /\ (\A d \in inflight' : a \notin d.alerts)
  BY <1>0, <1>2, <1>4 DEF Alerts!InOnePlace
<1>7. AlertsTypes' /\ Alerts!Queued'
  BY <1>0, <1>1, <1>2, <1>5 DEF AlertsTypes, Alerts!Queued, Alerts!NoAlerts
<1>8. Alerts!KeysHeld' /\ Alerts!OncePerWindow'
  BY <1>0, <1>1 DEF Alerts!KeysHeld, Alerts!Accepted, Alerts!OncePerWindow
<1>9. \A a \in Submissions : a \notin A => file'[a] = file[a] /\ (Alerts!Waits(a) => Alerts!Waits(a)')
  BY <1>1, <1>5 DEF Alerts!Waits
<1>10. \A d \in inflight' : \A b \in d.alerts : Alerts!Waits(b)' /\ \A t \in Conversations : b \notin appending'[t]
  <2> SUFFICES ASSUME NEW d \in inflight', NEW b \in d.alerts
               PROVE  Alerts!Waits(b)' /\ \A t \in Conversations : b \notin appending'[t]
    OBVIOUS
  <2>1. b \in Submissions /\ b \notin A /\ Alerts!Waits(b) /\ \A t \in Conversations : b \notin appending[t]
    BY <1>0, <1>2, <1>6, AlertsOf DEF AlertsTypes, Alerts!InOnePlace
  <2> QED
    BY <2>1, <1>1, <1>9
<1>11. \A t \in Conversations : \A b \in appending'[t] : Alerts!Waits(b)' /\ \A u \in Conversations \ {t} : b \notin appending'[u]
  <2> SUFFICES ASSUME NEW t \in Conversations, NEW b \in appending[t]
               PROVE  Alerts!Waits(b)' /\ \A u \in Conversations \ {t} : b \notin appending[u]
    BY <1>1
  <2>1. b \in Submissions /\ b \notin A /\ Alerts!Waits(b) /\ \A u \in Conversations \ {t} : b \notin appending[u]
    BY <1>0, <1>6 DEF AlertsTypes, Alerts!InOnePlace
  <2> QED
    BY <2>1, <1>9
<1>12. Alerts!InOnePlace'
  <2>1. \A a \in Submissions : transcript'[a] = 1 \/ file'[a] = "pending" => answer'[a] # "none"
    BY <1>0, <1>1, <1>6, <1>9 DEF Alerts!InOnePlace, Alerts!Waits
  <2>2. \A a \in Submissions : transcript'[a] = 1 => file'[a] # "pending"
    BY <1>0, <1>1, <1>6, <1>9 DEF Alerts!InOnePlace, Alerts!Waits
  <2>3. \A e, f \in inflight' : \A b \in e.alerts \cap f.alerts : e = f
    BY <1>0, <1>2 DEF Alerts!InOnePlace
  <2> QED
    BY <1>10, <1>11, <2>1, <2>2, <2>3 DEF Alerts!InOnePlace
<1>13. AlertsTracked'
  <2> SUFFICES ASSUME stops = 0, alertsCrashes = 0, NEW a \in Submissions, Alerts!Accepted(a) PROVE Alerts!Tracked(a)'
    BY <1>1 DEF AlertsTracked, Alerts!Accepted
  <2>1. Alerts!Tracked(a)
    BY <1>0 DEF AlertsTracked
  <2>2. CASE a \in A
    <3>1. file'[a] = "pending"
      BY <2>2, <1>5
    <3> QED
      BY <3>1 DEF Alerts!Tracked
  <2>3. CASE a \notin A
    <3>1. file'[a] = file[a] /\ (\A d \in inflight : a \in d.alerts => d \in inflight')
      BY <2>3, <1>2, <1>4, <1>9
    <3> QED
      BY <2>1, <3>1, <1>1 DEF Alerts!Tracked
  <2> QED
    BY <2>2, <2>3
<1> QED
  BY <1>7, <1>8, <1>12, <1>13 DEF AlertsParts

(* Remove drops what a run confirmed and did not append: only a stopped run  *)
(* has such a thing.                                                         *)
LEMMA AlertsRemove ==
    ASSUME AlertsParts, NEW s \in Conversations, Alerts!Remove(s)
    PROVE  AlertsParts'
<1>0. AlertsTypes /\ Alerts!InOnePlace /\ Alerts!Queued /\ Alerts!KeysHeld /\ Alerts!OncePerWindow /\ AlertsTracked
  BY DEF AlertsParts
<1>1. UNCHANGED <<answer, file, anchors, inflight, transcript, windows, stops, alertsCrashes>>
  BY DEF Alerts!Remove, Alerts!store, Alerts!bounds
<1>2. /\ alertsRun' = [alertsRun EXCEPT ![s] = "idle"] /\ stopped' = stopped \ {s}
      /\ queue' = [queue EXCEPT ![s] = {}] /\ appending' = [appending EXCEPT ![s] = {}]
      /\ alertsRun[s] = "ended" \/ s \in stopped
  BY DEF Alerts!Remove, Alerts!NoAlerts
<1>3. /\ queue' \in [Conversations -> SUBSET Alerts!Injections] /\ queue'[s] = {}
      /\ (\A t \in Conversations : t # s => queue'[t] = queue[t])
      /\ appending' \in [Conversations -> SUBSET Submissions] /\ appending'[s] = {}
      /\ (\A t \in Conversations : t # s => appending'[t] = appending[t])
      /\ alertsRun' \in [Conversations -> {"idle", "active", "running", "ended"}]
      /\ (\A t \in Conversations : t # s => alertsRun'[t] = alertsRun[t])
  BY <1>0, <1>2 DEF AlertsTypes
<1>4. AlertsTypes'
  BY <1>0, <1>1, <1>2, <1>3 DEF AlertsTypes
<1>5. Alerts!Queued'
  BY <1>0, <1>1, <1>3 DEF Alerts!Queued, Alerts!NoAlerts
<1>6. Alerts!KeysHeld' /\ Alerts!OncePerWindow'
  BY <1>0, <1>1 DEF Alerts!KeysHeld, Alerts!Accepted, Alerts!OncePerWindow
<1>7. Alerts!InOnePlace'
  <2>1. \A a : Alerts!Waits(a) => Alerts!Waits(a)'
    BY <1>1 DEF Alerts!Waits
  <2>2. \A t \in Conversations : appending'[t] \subseteq appending[t]
    BY <1>3
  <2> QED
    BY <1>0, <1>1, <2>1, <2>2 DEF Alerts!InOnePlace
<1>8. AlertsTracked'
  <2> SUFFICES ASSUME stops = 0, alertsCrashes = 0, NEW a \in Submissions, Alerts!Accepted(a) PROVE Alerts!Tracked(a)'
    BY <1>1 DEF AlertsTracked, Alerts!Accepted
  <2>1. Alerts!Tracked(a) /\ appending[s] = {}
    BY <1>0, <1>2 DEF AlertsTracked, AlertsTypes, Alerts!Queued, Alerts!NoAlerts
  <2>2. \A t \in Conversations : a \in appending[t] => a \in appending'[t]
    BY <2>1, <1>3
  <2> QED
    BY <2>1, <2>2, <1>1 DEF Alerts!Tracked
<1> QED
  BY <1>4, <1>5, <1>6, <1>7, <1>8 DEF AlertsParts

(* A run that starts or is stopped moves no alert.                           *)
LEMMA AlertsRuns ==
    ASSUME AlertsParts, NEW s \in Conversations, Alerts!Activate(s) \/ Alerts!Stop(s)
    PROVE  AlertsParts'
<1>0. AlertsTypes /\ Alerts!Queued
  BY DEF AlertsParts
<1>1. CASE Alerts!Activate(s)
  <2>1. /\ UNCHANGED <<answer, file, anchors, inflight, stopped, queue, appending, transcript, windows, stops, alertsCrashes>>
        /\ alertsRun[s] = "idle" /\ alertsRun' = [alertsRun EXCEPT ![s] = "active"]
    BY <1>1 DEF Alerts!Activate, Alerts!store
  <2>2. AlertsTypes' /\ Alerts!Queued'
    BY <1>0, <2>1 DEF AlertsTypes, Alerts!Queued
  <2> QED
    BY <2>1, <2>2, AlertsStill
<1>2. CASE Alerts!Stop(s)
  <2>1. /\ UNCHANGED <<answer, file, anchors, inflight, alertsRun, appending, transcript, windows, alertsCrashes>>
        /\ queue' = [queue EXCEPT ![s] = {}] /\ stops' = stops + 1
    BY <1>2 DEF Alerts!Stop, Alerts!store
  <2>2. AlertsTypes' /\ Alerts!Queued' /\ stops' # 0
    BY <1>0, <2>1 DEF AlertsTypes, Alerts!Queued
  <2> QED
    BY <2>1, <2>2, AlertsStill
<1> QED
  BY <1>1, <1>2

(* Time and restarts.                                                        *)
LEMMA AlertsTime ==
    ASSUME AlertsParts, Alerts!MinutePasses \/ Alerts!WindowPasses \/ Alerts!Crash
    PROVE  AlertsParts'
<1>0. AlertsTypes /\ Alerts!InOnePlace /\ Alerts!Queued /\ Alerts!KeysHeld /\ Alerts!OncePerWindow /\ AlertsTracked
  BY DEF AlertsParts
<1>1. CASE Alerts!MinutePasses
  <2>1. /\ UNCHANGED <<answer, file, anchors, inflight, alertsRun, stopped, queue, appending, transcript, windows, stops, alertsCrashes>>
    BY <1>1 DEF Alerts!MinutePasses, Alerts!agent, Alerts!bounds
  <2>2. AlertsTypes' /\ Alerts!Queued'
    BY <1>0, <2>1 DEF AlertsTypes, Alerts!Queued
  <2> QED
    BY <2>1, <2>2, AlertsStill
<1>2. CASE Alerts!WindowPasses
  <2>1. /\ UNCHANGED <<answer, file, inflight, alertsRun, stopped, queue, appending, transcript, stops, alertsCrashes>>
        /\ windows' = windows + 1 /\ anchors' = [memory |-> {}, audit |-> {}]
    BY <1>2 DEF Alerts!WindowPasses, Alerts!agent
  <2>2. windows' \in Nat /\ windows' # 0 /\ anchors' = [memory |-> anchors'.memory, audit |-> anchors'.audit]
    BY <1>0, <2>1 DEF AlertsTypes
  <2>3. AlertsTypes' /\ Alerts!Queued' /\ Alerts!KeysHeld' /\ Alerts!OncePerWindow'
    BY <1>0, <2>1, <2>2 DEF AlertsTypes, Alerts!Queued, Alerts!KeysHeld, Alerts!OncePerWindow
  <2>4. Alerts!InOnePlace' /\ AlertsTracked'
    BY <1>0, <2>1 DEF Alerts!InOnePlace, Alerts!Waits, AlertsTracked, Alerts!Accepted, Alerts!Tracked
  <2> QED
    BY <2>3, <2>4 DEF AlertsParts
<1>3. CASE Alerts!Crash
  <2>1. /\ UNCHANGED <<answer, file, transcript, windows, stops>>
        /\ alertsCrashes' = alertsCrashes + 1 /\ inflight' = {} /\ anchors' = [anchors EXCEPT !.memory = anchors.audit]
        /\ alertsRun' = [s \in Conversations |-> "idle"] /\ stopped' = {} /\ queue' = [s \in Conversations |-> {}]
        /\ appending' = [s \in Conversations |-> {}]
    BY <1>3 DEF Alerts!Crash, Alerts!NoAlerts
  <2>2. /\ anchors' = [memory |-> anchors'.memory, audit |-> anchors'.audit]
        /\ anchors'.memory = anchors.audit /\ anchors'.audit = anchors.audit
    BY <1>0, <2>1 DEF AlertsTypes
  <2>3. AlertsTypes' /\ alertsCrashes' # 0
    BY <1>0, <2>1, <2>2 DEF AlertsTypes
  <2>4. Alerts!Queued' /\ Alerts!KeysHeld' /\ Alerts!OncePerWindow' /\ AlertsTracked'
    BY <1>0, <2>1, <2>2, <2>3 DEF Alerts!Queued, Alerts!KeysHeld, Alerts!OncePerWindow, Alerts!Accepted, AlertsTracked, Alerts!NoAlerts
  <2>5. Alerts!InOnePlace'
    BY <1>0, <2>1 DEF Alerts!InOnePlace
  <2> QED
    BY <2>3, <2>4, <2>5 DEF AlertsParts
<1> QED
  BY <1>1, <1>2, <1>3

(* Every step keeps the invariant.                                           *)
LEMMA AlertsStep ==
    ASSUME Alerts!AlertsInv, [Alerts!Next]_(Alerts!vars)
    PROVE  Alerts!AlertsInv'
<1>1. AlertsParts
  BY AlertsByParts
<1>2. ASSUME UNCHANGED Alerts!vars PROVE AlertsParts'
  <2>1. /\ UNCHANGED <<answer, file, anchors, inflight, alertsRun, stopped, queue, appending, transcript, windows, stops, alertsCrashes>>
    BY <1>2 DEF Alerts!vars, Alerts!store, Alerts!agent, Alerts!bounds
  <2>2. AlertsTypes' /\ Alerts!Queued'
    BY <1>1, <2>1 DEF AlertsTypes, Alerts!Queued, AlertsParts
  <2> QED
    BY <1>1, <2>1, <2>2, AlertsStill
<1>3. AlertsParts'
  BY <1>1, <1>2, AlertsSubmit, AlertsRuns, AlertsFlush, AlertsConfirm, AlertsAppend, AlertsRelease, AlertsRemove,
     AlertsTime DEF Alerts!Next
<1> QED
  BY <1>3, AlertsByParts, PTL

(* Alerts: an alert is in one place at a time, for any number of alerts,     *)
(* conversations, stops and restarts.                                        *)
THEOREM AlertsInvariant == Alerts!Spec => []Alerts!AlertsInv
<1>1. Alerts!Init => Alerts!AlertsInv
  <2> SUFFICES ASSUME Alerts!Init PROVE AlertsParts
    BY AlertsByParts
  <2> QED
    BY DEF Alerts!Init, AlertsParts, AlertsTypes, Alerts!InOnePlace, Alerts!Queued, Alerts!KeysHeld, Alerts!OncePerWindow, AlertsTracked, Alerts!Accepted,
           Alerts!NoAlerts
<1>2. Alerts!AlertsInv /\ [Alerts!Next]_(Alerts!vars) => Alerts!AlertsInv'
  BY AlertsStep
<1> QED
  BY <1>1, <1>2, PTL DEF Alerts!Spec

(* An alert enters the conversations once, keys are accepted once in a       *)
(* window, and no alert is lost without a Stop or a crash.                   *)
THEOREM AlertsAreKept == Alerts!Spec => []Alerts!AlertsKept
<1>1. Alerts!AlertsInv => Alerts!AlertsKept
  BY DEF Alerts!AlertsInv
<1> QED
  BY <1>1, AlertsInvariant, PTL

(***************************************************************************)
(* The properties of Services.                                             *)
(***************************************************************************)

(* Each part runs its own specification in the composition: when another part *)
(* is the one that moves, its own variables stay. (Two of the parts have a     *)
(* fairness of their own, which the composition does not ask for.)            *)
THEOREM ServicesRunTheirParts ==
    ServicesSpec => /\ Spec /\ Plugins!Spec /\ Alerts!Spec /\ Projects!Spec
                    /\ Definitions!Spec /\ Browsers!Spec
                    /\ Tools!Init /\ [][Tools!Next]_(Tools!vars)
                    /\ Shells!Init /\ [][Shells!Next]_(Shells!vars)
<1>1. ServicesSpec => Spec
  <2>1. ServicesInit => Init
    BY DEF ServicesInit
  <2>2. [ServicesNext]_ServicesVars => [Next]_vars
    BY DEF ServicesNext, ServicesVars
  <2> QED
    BY <2>1, <2>2, PTL DEF ServicesSpec, Spec
<1>2. ServicesSpec => Plugins!Spec
  <2>1. ServicesInit => Plugins!Init
    BY DEF ServicesInit
  <2>2. [ServicesNext]_ServicesVars => [Plugins!Next]_(Plugins!vars)
    BY DEF ServicesNext, ServicesVars, PluginsVars, Plugins!vars
  <2> QED
    BY <2>1, <2>2, PTL DEF ServicesSpec, Plugins!Spec
<1>3. ServicesSpec => Alerts!Spec
  <2>1. ServicesInit => Alerts!Init
    BY DEF ServicesInit
  <2>2. [ServicesNext]_ServicesVars => [Alerts!Next]_(Alerts!vars)
    BY DEF ServicesNext, ServicesVars, AlertsVars, Alerts!vars, Alerts!store, Alerts!agent, Alerts!bounds
  <2> QED
    BY <2>1, <2>2, PTL DEF ServicesSpec, Alerts!Spec
<1>4. ServicesSpec => Projects!Spec
  <2>1. ServicesInit => Projects!Init
    BY DEF ServicesInit
  <2>2. [ServicesNext]_ServicesVars => [Projects!Next]_(Projects!vars)
    BY DEF ServicesNext, ServicesVars, ProjectsVars, Projects!vars, Projects!stores
  <2> QED
    BY <2>1, <2>2, PTL DEF ServicesSpec, Projects!Spec
<1>5. ServicesSpec => Definitions!Spec
  <2>1. ServicesInit => Definitions!Init
    BY DEF ServicesInit
  <2>2. [ServicesNext]_ServicesVars => [Definitions!Next]_(Definitions!vars)
    BY DEF ServicesNext, ServicesVars, DefinitionsVars, Definitions!vars
  <2> QED
    BY <2>1, <2>2, PTL DEF ServicesSpec, Definitions!Spec
<1>6. ServicesSpec => Browsers!Spec
  <2>1. ServicesInit => Browsers!Init
    BY DEF ServicesInit
  <2>2. [ServicesNext]_ServicesVars => [Browsers!Next]_(Browsers!vars)
    BY DEF ServicesNext, ServicesVars, BrowsersVars, Browsers!vars, Browsers!world
  <2> QED
    BY <2>1, <2>2, PTL DEF ServicesSpec, Browsers!Spec
<1>7. ServicesSpec => Tools!Init /\ [][Tools!Next]_(Tools!vars)
  <2>1. ServicesInit => Tools!Init
    BY DEF ServicesInit
  <2>2. [ServicesNext]_ServicesVars => [Tools!Next]_(Tools!vars)
    BY DEF ServicesNext, ServicesVars, ToolsVars, Tools!vars, Tools!ledger
  <2> QED
    BY <2>1, <2>2, PTL DEF ServicesSpec
<1>8. ServicesSpec => Shells!Init /\ [][Shells!Next]_(Shells!vars)
  <2>1. ServicesInit => Shells!Init
    BY DEF ServicesInit
  <2>2. [ServicesNext]_ServicesVars => [Shells!Next]_(Shells!vars)
    BY DEF ServicesNext, ServicesVars, ShellsVars, Shells!vars
  <2> QED
    BY <2>1, <2>2, PTL DEF ServicesSpec
<1> QED
  BY <1>1, <1>2, <1>3, <1>4, <1>5, <1>6, <1>7, <1>8

(* A plug-in is active only if it was last switched on, and never under       *)
(* review; a review approves the update that it read.                         *)
THEOREM ServicesDecisionsHold == ServicesSpec => DecisionsHold
<1>1. Plugins!DecisionsHold => DecisionsHold
  BY DEF DecisionsHold
<1> QED
  BY <1>1, ServicesRunTheirParts, LifecycleDecisionsHold

(* Alerts are delivered once, accepted once in a window, and lost by nothing  *)
(* but a Stop or a crash.                                                     *)
THEOREM ServicesAlertsKept == ServicesSpec => []AlertsKept
<1>1. Alerts!AlertsKept => AlertsKept
  BY DEF AlertsKept
<1> QED
  BY <1>1, ServicesRunTheirParts, AlertsAreKept, PTL

(* What a project, a goal or an artifact refers to exists, and a browser      *)
(* session never comes back with another process or window.                   *)
THEOREM ServicesReferencesHold == ServicesSpec => []ReferencesHold
<1>1. Projects!NeverDangles /\ Browsers!NeverRebinds => ReferencesHold
  BY DEF ReferencesHold
<1> QED
  BY <1>1, ServicesRunTheirParts, ProjectsNeverDangle, BrowsersNeverRebind, PTL

(* A recorded workflow mutates nothing without an approval of that run, and   *)
(* the ledger never forgets a mutation of a plug-in tool.                     *)
THEOREM ServicesMutationsAccounted == ServicesSpec => []MutationsAccounted
<1>1. Definitions!DefinitionsInv /\ Tools!MutationsInv => MutationsAccounted
  BY DEF MutationsAccounted, Definitions!DefinitionsInv, Tools!MutationsInv
<1> QED
  BY <1>1, ServicesRunTheirParts, DefinitionsInvariant, MutationsInvariant, PTL

(* Terminals run what the classifier saw, where it was resolved.              *)
THEOREM ServicesTerminalsContained == ServicesSpec => []TerminalsContained
<1>1. Shells!TerminalsInv => TerminalsContained
  BY DEF TerminalsContained, Shells!TerminalsInv
<1> QED
  BY <1>1, ServicesRunTheirParts, TerminalsInvariant, PTL
=============================================================================
