----------------------------- MODULE Evidence -----------------------------
(***************************************************************************)
(* The shared facts of a client and the investigations that rest on them:  *)
(* what a specialist reads from a page, the copies a task inherits, the    *)
(* guardrail facts derived from them, and the approvals they carry. Every  *)
(* executed visual action makes the facts of its task stale, every change  *)
(* of the managed browser those of the client.                             *)
(*                                                                         *)
(* The ledger's own operations run one after another in a queue per client *)
(* and are atomic here; what callers do between two of them is not. Facts  *)
(* without a screenshot (the conclusions of specialists, the synthesis)    *)
(* stay hypotheses and are left out: nothing ever uses them.               *)
(***************************************************************************)
EXTENDS Naturals, Sequences, FiniteSets

CONSTANTS
  Tasks,      \* investigations that may run
  Past,       \* the task of an earlier investigation
  Guards,     \* predicates that the guardrail derives (three in the code)
  Approvals,
  MaxFacts,   \* bound: facts in the ledger
  MaxActs,    \* bound: visual actions of the tasks' tools
  MaxChanges, \* bound: changes of the managed browser
  MaxLapses   \* bound: observations whose time runs out

Owners == Tasks \cup {Past}

\* What the constants have to be; the module of the run assumes it.
EvidenceAssumption == Past \notin Tasks /\ Guards # {} /\ "metric" \notin Guards

VARIABLES
  ledger,   \* shared-facts.json: the facts in the order they were created
  due,      \* facts whose expiresAt has passed
  page,     \* how often the page a task looks at has changed
  phase,    \* the saved phase of each task
  pc,       \* where runTask is
  inherit,  \* the facts runTask still has to copy, and the copy it is verifying
  stop,     \* the tasks whose conversation was stopped
  tool,     \* the tool call of each task
  created,  \* createdApprovalIds
  approval,
  request,  \* the request under way for each approval
  acts, changes, lapses

vars == <<ledger, due, page, phase, pc, inherit, stop, tool, created, approval,
          request, acts, changes, lapses>>

Idle == [at |-> "idle", shot |-> 0, src |-> 0, left |-> {}, ids |-> {}]
Absent == [status |-> "none", task |-> Past, facts |-> {}]
Open == {"pending_risk_review", "pending_user", "approved"}

Init ==
  /\ ledger = <<[task |-> Past, slot |-> "metric", status |-> "verified", from |-> {},
                 origin |-> {<<Past, 0>>}]>>
  /\ due = {} /\ page = [t \in Owners |-> 0]
  /\ phase = [t \in Tasks |-> "none"]
  /\ pc = [t \in Tasks |-> "idle"]
  /\ inherit = [t \in Tasks |-> [todo |-> {}, copy |-> 0]]
  /\ stop = {}
  /\ tool = [t \in Tasks |-> Idle]
  /\ created = [t \in Tasks |-> {}]
  /\ approval = [a \in Approvals |-> Absent]
  /\ request = [a \in Approvals |-> "none"]
  /\ acts = 0 /\ changes = 0 /\ lapses = 0

-----------------------------------------------------------------------------
(* The ledger                                                              *)

Facts == 1 .. Len(ledger)
Current(f) == f.status \in {"observed", "verified"}

\* expire, which every list runs first.
Swept == [i \in Facts |-> IF i \in due /\ Current(ledger[i])
                            THEN [ledger[i] EXCEPT !.status = "stale"] ELSE ledger[i]]

\* usable: verified and not past its time.
Usable(i) == ledger[i].status = "verified" /\ i \notin due

\* A fact made from others carries their screenshots, names them and lives no longer.
Derived(t, slot, S) ==
  /\ Len(ledger) < MaxFacts
  /\ ledger' = Append(ledger,
       [task |-> t, slot |-> slot, status |-> "observed",
        from |-> S \cup UNION {ledger[i].from : i \in S},
        origin |-> UNION {ledger[i].origin : i \in S}])
  /\ due' = IF S \cap due # {} THEN due \cup {Len(ledger) + 1} ELSE due

Seen(t, slot) ==
  /\ Len(ledger) < MaxFacts
  /\ ledger' = Append(ledger, [task |-> t, slot |-> slot, status |-> "observed",
                               from |-> {}, origin |-> {<<t, page[t]>>}])
  /\ UNCHANGED due

MutVerifiable(i) == ledger[i].status # "superseded"
Verifiable(i) == ledger[i].status = "observed"

SameSlot(i, j) == ledger[i].task = ledger[j].task /\ ledger[i].slot = ledger[j].slot

MutReplaced(i, j) == FALSE
\* verify replaces what was verified for the same slot.
Replaced(i, j) == j # i /\ ledger[j].status = "verified" /\ SameSlot(i, j)

Verify(i) ==
  ledger' = [j \in Facts |-> IF j = i THEN [ledger[j] EXCEPT !.status = "verified"]
                             ELSE IF Replaced(i, j) THEN [ledger[j] EXCEPT !.status = "superseded"]
                             ELSE ledger[j]]

Reject(i) == ledger' = [ledger EXCEPT ![i].status = IF @ = "superseded" THEN @ ELSE "rejected"]

\* invalidateVisualEvidence for the tasks whose page changed.
Changed(S) ==
  /\ page' = [t \in Owners |-> page[t] + IF t \in S THEN 1 ELSE 0]
  /\ ledger' = [i \in Facts |-> IF ledger[i].task \in S /\ Current(ledger[i])
                                  THEN [ledger[i] EXCEPT !.status = "stale"] ELSE ledger[i]]

\* assertLiveGuardrailLineage: the facts a fact names, and those that these name.
Lineage(S) == S \cup UNION {ledger[i].from : i \in S}

MutSupported(S) == {ledger[i].slot : i \in S} = Guards /\ \A i \in S : Usable(i)
\* requireVerifiedGuardrailFact for each predicate and its lineage.
Supported(S) == {ledger[i].slot : i \in S} = Guards /\ \A i \in Lineage(S) : Usable(i)

-----------------------------------------------------------------------------
(* runTask                                                                 *)

Go(t, to) == pc' = [pc EXCEPT ![t] = to]
\* ensureActive: a stopped conversation sends its task to failTask.
GoActive(t, to) == Go(t, IF t \in stop THEN "cancel" ELSE to)

StartTask(t) ==
  /\ pc[t] = "idle" /\ Go(t, "inherit")
  /\ phase' = [phase EXCEPT ![t] = "intake"]
  /\ UNCHANGED <<ledger, due, page, inherit, stop, tool, created, approval, request, acts, changes, lapses>>

Inherit(t) ==
  /\ pc[t] = "inherit" /\ GoActive(t, "copy")
  /\ ledger' = Swept
  /\ inherit' = [inherit EXCEPT ![t].todo = {i \in Facts : Usable(i)}]
  /\ UNCHANGED <<due, page, phase, stop, tool, created, approval, request, acts, changes, lapses>>

Oldest(S) == CHOOSE i \in S : \A j \in S : i <= j

\* deriveForTask: observe, then verify, one source after another.
Copy(t) ==
  /\ pc[t] = "copy" /\ inherit[t].todo # {} /\ inherit[t].copy = 0
  /\ LET i == Oldest(inherit[t].todo) IN Derived(t, ledger[i].slot, {i})
  /\ inherit' = [inherit EXCEPT ![t].copy = Len(ledger) + 1]
  /\ UNCHANGED <<page, phase, pc, stop, tool, created, approval, request, acts, changes, lapses>>

\* A copy that went stale in between makes verify throw outside every handler.
VerifyCopy(t) ==
  /\ pc[t] = "copy" /\ inherit[t].copy # 0
  /\ LET c == inherit[t].copy IN
     IF Verifiable(c)
       THEN /\ Verify(c) /\ UNCHANGED pc
            /\ inherit' = [inherit EXCEPT ![t] = [todo |-> @.todo \ {Oldest(@.todo)}, copy |-> 0]]
       ELSE /\ Go(t, "stranded") /\ UNCHANGED ledger
            /\ inherit' = [inherit EXCEPT ![t] = [todo |-> {}, copy |-> 0]]
  /\ UNCHANGED <<due, page, phase, stop, tool, created, approval, request, acts, changes, lapses>>

Investigate(t) ==
  /\ pc[t] = "copy" /\ inherit[t].todo = {} /\ GoActive(t, "model")
  /\ phase' = [phase EXCEPT ![t] = IF t \in stop THEN @ ELSE "investigating"]
  /\ ledger' = Swept
  /\ UNCHANGED <<due, page, inherit, stop, tool, created, approval, request, acts, changes, lapses>>

\* runStructured settles when no tool runs; a stop makes it fail.
ModelEnds(t) ==
  /\ pc[t] = "model" /\ tool[t] = Idle
  /\ \E to \in {"finish", "block"} : GoActive(t, to)
  /\ UNCHANGED <<ledger, due, page, phase, inherit, stop, tool, created, approval, request, acts, changes, lapses>>

\* enforceDeadline rejects while a tool may still run; a stop disarms the timer.
Deadline(t) ==
  /\ pc[t] = "model" /\ t \notin stop /\ Go(t, "block")
  /\ UNCHANGED <<ledger, due, page, phase, inherit, stop, tool, created, approval, request, acts, changes, lapses>>

\* The decision, the memory, the synthesis, and the phase they end in.
Finish(t) ==
  /\ pc[t] = "finish" /\ GoActive(t, "saved")
  /\ phase' = [phase EXCEPT ![t] = IF t \in stop THEN @
                 ELSE IF created[t] # {} THEN "awaiting_approval" ELSE "completed"]
  /\ UNCHANGED <<ledger, due, page, inherit, stop, tool, created, approval, request, acts, changes, lapses>>

Return(t) ==
  /\ pc[t] = "saved" /\ GoActive(t, "done")
  /\ UNCHANGED <<ledger, due, page, phase, inherit, stop, tool, created, approval, request, acts, changes, lapses>>

\* failTask of a stopped task: its approvals one by one, then its phase.
CancelApproval(t) ==
  /\ pc[t] = "cancel"
  /\ \E a \in created[t] :
       /\ approval' = [approval EXCEPT ![a].status = IF @ \in Open THEN "cancelled" ELSE @]
       /\ created' = [created EXCEPT ![t] = @ \ {a}]
  /\ UNCHANGED <<ledger, due, page, phase, pc, inherit, stop, tool, request, acts, changes, lapses>>

Cancelled(t) ==
  /\ pc[t] = "cancel" /\ created[t] = {} /\ Go(t, "done")
  /\ phase' = [phase EXCEPT ![t] = "cancelled"]
  /\ UNCHANGED <<ledger, due, page, inherit, stop, tool, created, approval, request, acts, changes, lapses>>

Block(t) ==
  /\ pc[t] = "block" /\ Go(t, "done")
  /\ phase' = [phase EXCEPT ![t] = "blocked"]
  /\ UNCHANGED <<ledger, due, page, inherit, stop, tool, created, approval, request, acts, changes, lapses>>

\* stopConversationRun, until the handler releases its reservation.
Stop(t) ==
  /\ pc[t] \notin {"idle", "stranded", "done"} /\ stop' = stop \cup {t} /\ t \notin stop
  /\ UNCHANGED <<ledger, due, page, phase, pc, inherit, tool, created, approval, request, acts, changes, lapses>>

-----------------------------------------------------------------------------
(* The tools of the model: dispatch_specialist and prepare_approval        *)

May(t) == pc[t] = "model" /\ t \notin stop /\ tool[t] = Idle
Set(t, call) == tool' = [tool EXCEPT ![t] = call]

\* readVisualTable: the screenshot, a scroll with another one, the cell, its review.
Capture(t) ==
  /\ May(t) /\ Set(t, [Idle EXCEPT !.at = "read", !.shot = page[t]])
  /\ UNCHANGED <<ledger, due, page, phase, pc, inherit, stop, created, approval, request, acts, changes, lapses>>

Scroll(t) ==
  /\ tool[t].at = "read" /\ acts < MaxActs /\ acts' = acts + 1
  /\ Changed({t}) /\ Set(t, [tool[t] EXCEPT !.shot = page[t] + 1])
  /\ UNCHANGED <<due, phase, pc, inherit, stop, created, approval, request, changes, lapses>>

Record(t) ==
  /\ tool[t].at = "read" /\ Seen(t, "metric")
  /\ Set(t, [tool[t] EXCEPT !.at = "review", !.src = Len(ledger) + 1])
  /\ UNCHANGED <<page, phase, pc, inherit, stop, created, approval, request, acts, changes, lapses>>

\* The second model agrees (verify, which throws for a stale fact), or does not.
Review(t) ==
  /\ tool[t].at = "review" /\ Set(t, Idle)
  /\ \/ Verifiable(tool[t].src) /\ Verify(tool[t].src)
     \/ ~Verifiable(tool[t].src) /\ UNCHANGED ledger
     \/ Reject(tool[t].src)
  /\ UNCHANGED <<due, page, phase, pc, inherit, stop, created, approval, request, acts, changes, lapses>>

\* executeVisualTask: typing changes the page.
Type(t) ==
  /\ May(t) /\ acts < MaxActs /\ acts' = acts + 1 /\ Changed({t})
  /\ UNCHANGED <<due, phase, pc, inherit, stop, tool, created, approval, request, changes, lapses>>

\* resolveApprovalGuardrailEvidence, from a metric or from facts derived before.
Prepare(t) ==
  /\ May(t) /\ ledger' = Swept
  /\ \/ \E i \in Facts : /\ ledger[i].task = t /\ ledger[i].slot = "metric" /\ Usable(i)
                         /\ Set(t, [Idle EXCEPT !.at = "derive", !.src = i, !.left = Guards])
     \/ \E S \in SUBSET {i \in Facts : ledger[i].task = t /\ ledger[i].slot \in Guards} :
          /\ Cardinality(S) = Cardinality(Guards) /\ {ledger[i].slot : i \in S} = Guards
          /\ Set(t, [Idle EXCEPT !.at = "build", !.ids = S])
  /\ UNCHANGED <<due, page, phase, pc, inherit, stop, created, approval, request, acts, changes, lapses>>

\* persistDerivedGuardrailFact: one predicate after another, observe then verify.
Derive(t) ==
  /\ tool[t].at = "derive" /\ tool[t].left # {}
  /\ LET g == CHOOSE g \in tool[t].left : TRUE IN
       /\ Derived(t, g, {tool[t].src})
       /\ Set(t, [tool[t] EXCEPT !.at = "attest", !.left = @ \ {g}, !.ids = @ \cup {Len(ledger) + 1}])
  /\ UNCHANGED <<page, phase, pc, inherit, stop, created, approval, request, acts, changes, lapses>>

Attest(t) ==
  /\ tool[t].at = "attest"
  /\ LET i == CHOOSE i \in tool[t].ids : \A j \in tool[t].ids : j <= i IN
     IF Verifiable(i)
       THEN Verify(i) /\ Set(t, [tool[t] EXCEPT !.at = IF tool[t].left = {} THEN "build" ELSE "derive"])
       ELSE Set(t, Idle) /\ UNCHANGED ledger
  /\ UNCHANGED <<due, page, phase, pc, inherit, stop, created, approval, request, acts, changes, lapses>>

\* buildApprovalGuardrail.
Build(t) ==
  /\ tool[t].at = "build" /\ ledger' = Swept
  /\ Set(t, IF Supported(tool[t].ids) THEN [tool[t] EXCEPT !.at = "create"] ELSE Idle)
  /\ UNCHANGED <<due, page, phase, pc, inherit, stop, created, approval, request, acts, changes, lapses>>

MutKept(t, a) == created' = [created EXCEPT ![t] = IF t \in stop THEN @ ELSE @ \cup {a}]
\* createdApprovalIds has the approval before the stop is looked at.
Kept(t, a) == created' = [created EXCEPT ![t] = @ \cup {a}]

Create(t) ==
  /\ tool[t].at = "create" /\ Set(t, Idle)
  /\ \E a \in Approvals :
       /\ approval[a].status = "none"
       /\ approval' = [approval EXCEPT ![a] =
            [status |-> "pending_risk_review", task |-> t, facts |-> tool[t].ids]]
       /\ Kept(t, a)
  /\ UNCHANGED <<ledger, due, page, phase, pc, inherit, stop, request, acts, changes, lapses>>

-----------------------------------------------------------------------------
(* The routes of an approval                                               *)

For(status) == CASE status = "pending_risk_review" -> "review"
                 [] status = "pending_user" -> "approve"
                 [] status = "approved" -> "commit"

\* validateApprovalGuardrail cancels what its evidence no longer carries.
Validate(a) ==
  /\ request[a] = "none" /\ approval[a].status \in Open
  /\ ledger' = Swept
  /\ IF Supported(approval[a].facts)
       THEN request' = [request EXCEPT ![a] = For(approval[a].status)] /\ UNCHANGED approval
       ELSE approval' = [approval EXCEPT ![a].status = "cancelled"] /\ UNCHANGED request
  /\ UNCHANGED <<due, page, phase, pc, inherit, stop, tool, created, acts, changes, lapses>>

Moves(a, kind, from, to) ==
  /\ request[a] = kind
  /\ request' = [request EXCEPT ![a] = IF to = "executing" /\ approval[a].status = from
                                         THEN "act" ELSE "none"]
  /\ approval' = [approval EXCEPT ![a].status = IF @ = from THEN to ELSE @]
  /\ UNCHANGED <<ledger, due, page, phase, pc, inherit, stop, tool, created, acts, changes, lapses>>

RiskReview(a) == \/ Moves(a, "review", "pending_risk_review", "pending_user")
                 \/ Moves(a, "review", "pending_risk_review", "rejected")
Approve(a) == Moves(a, "approve", "pending_user", "approved")
Consume(a) == Moves(a, "commit", "approved", "executing")

\* commitApprovedVisualAction: the action changes the page, or is blocked before it.
Act(a) ==
  /\ request[a] = "act" /\ request' = [request EXCEPT ![a] = "none"]
  /\ \E done \in BOOLEAN :
       /\ approval' = [approval EXCEPT ![a].status = IF done THEN "executed" ELSE "failed"]
       /\ IF done THEN Changed({approval[a].task}) ELSE UNCHANGED <<page, ledger>>
  /\ UNCHANGED <<due, phase, pc, inherit, stop, tool, created, acts, changes, lapses>>

-----------------------------------------------------------------------------
(* The world                                                               *)

\* The managed browser is started, resumed or closed.
BrowserChanges ==
  /\ changes < MaxChanges /\ changes' = changes + 1 /\ Changed(Owners)
  /\ UNCHANGED <<due, phase, pc, inherit, stop, tool, created, approval, request, acts, lapses>>

\* The time of an observation, and of all that was made from it, runs out.
Lapse ==
  /\ lapses < MaxLapses /\ lapses' = lapses + 1
  /\ \E i \in Facts : /\ ledger[i].from = {} /\ i \notin due
                      /\ due' = due \cup {j \in Facts : i \in Lineage({j})}
  /\ UNCHANGED <<ledger, page, phase, pc, inherit, stop, tool, created, approval, request, acts, changes>>

Next ==
  \/ \E t \in Tasks :
       \/ StartTask(t) \/ Inherit(t) \/ Copy(t) \/ VerifyCopy(t) \/ Investigate(t)
       \/ ModelEnds(t) \/ Deadline(t) \/ Finish(t) \/ Return(t)
       \/ CancelApproval(t) \/ Cancelled(t) \/ Block(t) \/ Stop(t)
       \/ Capture(t) \/ Scroll(t) \/ Record(t) \/ Review(t) \/ Type(t)
       \/ Prepare(t) \/ Derive(t) \/ Attest(t) \/ Build(t) \/ Create(t)
  \/ \E a \in Approvals : Validate(a) \/ RiskReview(a) \/ Approve(a) \/ Consume(a) \/ Act(a)
  \/ BrowserChanges \/ Lapse

Spec == Init /\ [][Next]_vars

-----------------------------------------------------------------------------
(* Properties                                                              *)

\* Production never has two answers to one question: a task has at most one
\* verified fact for a subject and predicate.
OneValue ==
  \A i, j \in Facts :
    (ledger[i].status = "verified" /\ ledger[j].status = "verified" /\ SameSlot(i, j)) => i = j

\* What was found stale, replaced or rejected between two steps of a caller is
\* never brought back by its next step.
TerminalStays ==
  \A i \in Facts : ~Current(ledger[i]) => ~Current(ledger'[i])

\* A task saved as cancelled has no approval that could still be carried out,
\* whenever the stop arrived.
NoneLeftOpen ==
  \A a \in Approvals :
    approval[a].task \in Tasks /\ phase[approval[a].task] = "cancelled" => approval[a].status \notin Open

\* No request takes an approval further once the page of any observation that its
\* evidence goes back to has changed, in whichever task it was made.
ForwardOnLiveEvidence ==
  \A a \in Approvals :
    request[a] = "none" /\ request'[a] # "none" =>
      \A i \in approval[a].facts : \A o \in ledger[i].origin : page[o[1]] = o[2]

EvidenceHolds ==
  [][(OneValue /\ NoneLeftOpen)' /\ TerminalStays /\ ForwardOnLiveEvidence]_vars

\* Not so: a verified fact goes back to verified facts only. The copy that a task
\* inherited stays usable when the page of its source changes.
CopiesFollow == \A i \in Facts : ledger[i].status = "verified" => \A j \in Lineage({i}) : ledger[j].status = "verified"

\* Not so: what is recorded is what the page shows. The page may change between the
\* screenshot and the record.
FactsOfThePage == [][\A t \in Tasks : tool[t].at = "read" /\ tool'[t].at = "review" => tool[t].shot = page[t]]_vars

\* Not so: an action is carried out on evidence that is live when it is ("this check
\* prevents a stale or superseded snapshot from surviving until user
\* approval/execution"). The check is before the preflight.
ExecutesOnLiveEvidence ==
  [][\A a \in Approvals : request[a] = "commit" /\ request'[a] = "act" => Supported(approval[a].facts)]_vars

\* Not so: every task that started is settled.
NeverStranded == \A t \in Tasks : pc[t] # "stranded"

\* Not so: "specialists must not outlive the conversation run".
SpecialistsEnd == \A t \in Tasks : pc[t] = "done" => tool[t] = Idle
-----------------------------------------------------------------------------
(* Types, and what holds between the steps                                 *)

FactRecord ==
  [task : Owners, slot : Guards \cup {"metric"},
   status : {"observed", "verified", "stale", "superseded", "rejected"},
   from : SUBSET Nat, origin : SUBSET (Owners \X Nat)]
ToolCall ==
  [at : {"idle", "read", "review", "derive", "attest", "build", "create"},
   shot : Nat, src : Nat, left : SUBSET Guards, ids : SUBSET Nat]
Steps == {"idle", "inherit", "copy", "stranded", "model", "finish", "saved", "cancel", "block", "done"}

TypeOK ==
  /\ ledger \in Seq(FactRecord) /\ due \subseteq Nat /\ page \in [Owners -> Nat]
  /\ phase \in [Tasks -> {"none", "intake", "investigating", "awaiting_approval", "completed",
                          "blocked", "cancelled"}]
  /\ pc \in [Tasks -> Steps] /\ stop \subseteq Tasks
  /\ inherit \in [Tasks -> [todo : SUBSET Nat, copy : Nat]]
  /\ tool \in [Tasks -> ToolCall] /\ created \in [Tasks -> SUBSET Approvals]
  /\ approval \in [Approvals -> [status : Open \cup {"none", "rejected", "cancelled", "executing",
                                                    "executed", "failed"},
                                task : Owners, facts : SUBSET Nat]]
  /\ request \in [Approvals -> {"none", "review", "approve", "commit", "act"}]
  /\ acts \in Nat /\ changes \in Nat /\ lapses \in Nat

\* What is named by its number exists.
NamesFacts ==
  /\ \A i \in Facts : ledger[i].from \subseteq Facts
  /\ \A t \in Tasks : /\ inherit[t].todo \subseteq Facts /\ tool[t].ids \subseteq Facts
                      /\ tool[t].at \in {"derive", "attest"} => tool[t].src \in Facts
  /\ \A a \in Approvals : approval[a].facts \subseteq Facts

\* Where a fact was seen is known from its lineage: a fact of that task, which is not
\* current any more once the page has changed.
SeenBy(i, o) == \E j \in Lineage({i}) :
  ledger[j].task = o[1] /\ (Current(ledger[j]) => page[o[1]] = o[2])
SeenOnPages == \A i \in Facts : \A o \in ledger[i].origin : SeenBy(i, o)

\* An open approval is listed by its task, and a cancelled task lists and makes none.
OpenKept ==
  \A a \in Approvals :
    approval[a].status \in Open => approval[a].task \in Tasks /\ a \in created[approval[a].task]
CancelledIsOver ==
  \A t \in Tasks :
    /\ pc[t] \notin {"model", "block", "done"} => tool[t] = Idle
    /\ phase[t] = "cancelled" => pc[t] = "done" /\ created[t] = {} /\ tool[t] = Idle

\* The inductive invariant.
EvidenceInv == TypeOK /\ NamesFacts /\ SeenOnPages /\ OpenKept /\ CancelledIsOver /\ OneValue
=============================================================================
