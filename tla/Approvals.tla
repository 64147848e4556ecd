----------------------------- MODULE Approvals -----------------------------
(***************************************************************************)
(* One approval of packages/approvals/src/index.ts and the server handlers *)
(* that act on it.                                                         *)
(*                                                                         *)
(* ApprovalService keeps the record in a file and has no lock: every       *)
(* operation reads the file, decides, and writes the whole record it read  *)
(* with a patch.  Read and write are separate awaits, so they are separate *)
(* actions here and handlers interleave between them.  The one-time token  *)
(* lives in the server's memory (approvalTokens).                          *)
(*                                                                         *)
(* A handler is one request: a risk review, a user approval, a commit, a   *)
(* stop of the conversation that made the approval (cancel), or the boot   *)
(* of another daemon, which runs recoverInterrupted before it asks for the *)
(* workspace lease.                                                        *)
(***************************************************************************)
EXTENDS Integers

CONSTANTS
    Handler,        \* requests
    KindOf,         \* what each request is
    TokenLife,      \* lifetime of a token; five minutes in the code
    PlanExpiry,     \* when the visual execution plan expires
    MaxNow,         \* bound: the clock stops here
    MaxCrashes,     \* bound: daemon crashes
    NoToken         \* absent token or nonce

Kind == {"review", "approve", "commit", "stop", "boot"}

ASSUME ApprovalAssumption ==
    /\ KindOf \in [Handler -> Kind]
    /\ TokenLife \in Nat /\ PlanExpiry \in Nat /\ MaxNow \in Nat /\ MaxCrashes \in Nat
    /\ NoToken \notin Handler

VARIABLES
    record,      \* approvals/<id>.json
    tokens,      \* system.approvalTokens for this approval
    pc,          \* the await each handler stands at
    todo,        \* the record the handler is about to write
    after,       \* where the handler stands once it is written
    held,        \* the token a commit took from approvalTokens
    evidence,    \* do the bound facts still carry the guardrail?
    experiment,  \* is an experiment of this client unfinished?
    now,         \* the clock
    crashes,     \* daemon crashes so far
    up,          \* is the daemon serving?
    attempted,   \* attemptedMutationPlans holds the plan (in memory)
    claimed,     \* computer-mutation-replay holds the claim (on disk)
    began,       \* commits that consumed the approval, with the daemon life
    ran          \* commits that performed the mutation, with the daemon life

vars == <<record, tokens, pc, todo, after, held, evidence, experiment, now,
          crashes, up, attempted, claimed, began, ran>>

Pending == {"pending_risk_review", "pending_user"}
Cancellable == Pending \cup {"approved"}
Terminal == {"rejected", "executed", "failed", "expired", "cancelled"}
Status == Cancellable \cup {"executing"} \cup Terminal
Token == Handler \cup {NoToken}

(* A token is named by the approve request that minted it.                 *)
Record == [status : Status, reviewed : BOOLEAN, user : BOOLEAN, nonce : Token,
           binding : Token, expires : Nat, attempts : {0, 1}]

Label == {"idle", "validate", "reviewed", "approveRead", "store", "claim",
          "identity", "consumeRead", "acting", "claimFile", "posting",
          "succeeded", "unverified",
          "cancelRead", "bootRead", "write", "cancelWrite", "done", "lost"}

TypeOK ==
    /\ record \in Record
    /\ tokens \in Token
    /\ pc \in [Handler -> Label]
    /\ todo \in [Handler -> Record]
    /\ after \in [Handler -> Label]
    /\ held \in [Handler -> Token]
    /\ evidence \in BOOLEAN /\ experiment \in BOOLEAN
    /\ now \in Nat /\ crashes \in Nat
    /\ up \in BOOLEAN
    /\ attempted \in BOOLEAN /\ claimed \in BOOLEAN
    /\ began \subseteq (Handler \X Nat)
    /\ ran \subseteq (Handler \X Nat)

Created ==
    [status |-> "pending_risk_review", reviewed |-> FALSE, user |-> FALSE,
     nonce |-> NoToken, binding |-> NoToken, expires |-> 0, attempts |-> 0]

Init ==
    /\ record = Created
    /\ tokens = NoToken
    /\ pc = [h \in Handler |-> "idle"]
    /\ todo = [h \in Handler |-> Created]
    /\ after = [h \in Handler |-> "done"]
    /\ held = [h \in Handler |-> NoToken]
    /\ evidence = TRUE
    /\ experiment = FALSE
    /\ now = 0
    /\ crashes = 0
    /\ up = TRUE
    /\ attempted = FALSE
    /\ claimed = FALSE
    /\ began = {}
    /\ ran = {}

-----------------------------------------------------------------------------
(* Reading and writing the record                                          *)

replay == <<attempted, claimed, began, ran>>
world == <<evidence, experiment, now, crashes, up, replay>>

Goto(h, label) ==
    /\ pc' = [pc EXCEPT ![h] = label]
    /\ UNCHANGED <<todo, after>>

(* update(): the decision was made on the record just read; the whole      *)
(* record is written by a later await.                                     *)
Update(h, rec, next) ==
    /\ pc' = [pc EXCEPT ![h] = "write"]
    /\ todo' = [todo EXCEPT ![h] = rec]
    /\ after' = [after EXCEPT ![h] = next]

Invalidate(rec, status) ==
    [rec EXCEPT !.status = status, !.nonce = NoToken,
                !.attempts = IF rec.status = "approved" THEN @ + 1 ELSE @]

Write(h) ==
    /\ up /\ pc[h] = "write"
    /\ record' = todo[h]
    /\ pc' = [pc EXCEPT ![h] = after[h]]
    /\ UNCHANGED <<tokens, todo, after, held, world>>

CancelRead(h) ==
    /\ up /\ pc[h] = "cancelRead"
    /\ IF record.status \in Cancellable
         THEN /\ todo' = [todo EXCEPT ![h] = Invalidate(record, "cancelled")]
              /\ pc' = [pc EXCEPT ![h] = "cancelWrite"]
              /\ UNCHANGED after
         ELSE Goto(h, "done")
    /\ UNCHANGED <<record, tokens, held, world>>

CancelWrite(h) ==
    /\ up /\ pc[h] = "cancelWrite"
    /\ record' = todo[h]
    /\ Goto(h, "done")
    /\ UNCHANGED <<tokens, held, world>>

-----------------------------------------------------------------------------
(* The handlers                                                            *)

First(h) == IF KindOf[h] = "commit" THEN "claim"
            ELSE IF KindOf[h] = "stop" THEN "cancelRead"
            ELSE IF KindOf[h] = "boot" THEN "bootRead"
            ELSE "validate"

Begin(h) ==
    /\ up /\ pc[h] = "idle"
    /\ Goto(h, First(h))
    /\ UNCHANGED <<record, tokens, held, world>>

(* validateApprovalGuardrail reloads the facts; on failure it cancels what  *)
(* was still cancellable when it read the record.  An unfinished experiment *)
(* stops a commit.                                                         *)
Validate(h) ==
    /\ up /\ pc[h] = "validate"
    /\ \/ /\ ~evidence
          /\ Goto(h, IF record.status \in Cancellable THEN "cancelRead" ELSE "done")
       \/ evidence /\ KindOf[h] = "review" /\ Goto(h, "reviewed")
       \/ evidence /\ KindOf[h] = "approve" /\ Goto(h, "approveRead")
       \/ /\ evidence /\ KindOf[h] = "commit"
          /\ Goto(h, IF experiment THEN "done" ELSE "identity")
    /\ UNCHANGED <<record, tokens, held, world>>

RecordRiskReview(h) ==
    /\ up /\ pc[h] = "reviewed"
    /\ \/ /\ record.status = "pending_risk_review"
          /\ \E approved \in BOOLEAN :
                Update(h, [record EXCEPT !.status = IF approved THEN "pending_user"
                                                    ELSE "rejected",
                                         !.reviewed = approved], "done")
       \/ /\ record.status # "pending_risk_review"
          /\ Goto(h, "done")
    /\ UNCHANGED <<record, tokens, held, world>>

Minimum(m, n) == IF m < n THEN m ELSE n

(* Mutant: the risk review is not consulted. *)
ApproveUnreviewed(h) ==
    /\ up /\ pc[h] = "approveRead"
    /\ record.status \in Pending
    /\ Update(h, [record EXCEPT !.status = "approved", !.user = TRUE, !.nonce = h,
                                !.binding = h, !.expires = PlanExpiry], "store")
    /\ UNCHANGED <<record, tokens, held, world>>

(* The token lives for TokenLife but never longer than the plan.           *)
ApproveByUser(h) ==
    /\ up /\ pc[h] = "approveRead"
    /\ \/ /\ ~(record.status = "pending_user" /\ record.reviewed)
          /\ Goto(h, "done")
       \/ /\ record.status = "pending_user" /\ record.reviewed
          /\ now >= PlanExpiry
          /\ Update(h, [record EXCEPT !.status = "expired"], "done")
       \/ /\ record.status = "pending_user" /\ record.reviewed
          /\ now < PlanExpiry
          /\ Update(h, [record EXCEPT !.status = "approved", !.user = TRUE,
                                      !.nonce = h, !.binding = h, !.attempts = 0,
                                      !.expires = Minimum(now + TokenLife, PlanExpiry)],
                    "store")
    /\ UNCHANGED <<record, tokens, held, world>>

StoreToken(h) ==
    /\ up /\ pc[h] = "store"
    /\ tokens' = h
    /\ Goto(h, "done")
    /\ UNCHANGED <<record, held, world>>

(* Mutant: the token stays in approvalTokens. *)
ClaimTokenKeeping(h) ==
    /\ up /\ pc[h] = "claim"
    /\ tokens # NoToken
    /\ held' = [held EXCEPT ![h] = tokens]
    /\ Goto(h, "validate")
    /\ UNCHANGED <<tokens, record, world>>

(* The commit handler takes the token and deletes it in one turn.          *)
ClaimToken(h) ==
    /\ up /\ pc[h] = "claim"
    /\ \/ tokens = NoToken /\ Goto(h, "done") /\ UNCHANGED <<tokens, held>>
       \/ /\ tokens # NoToken
          /\ held' = [held EXCEPT ![h] = tokens]
          /\ tokens' = NoToken
          /\ Goto(h, "validate")
    /\ UNCHANGED <<record, world>>

(* Two reviewers compare the live page with the plan; a mismatch cancels.  *)
ConfirmIdentity(h) ==
    /\ up /\ pc[h] = "identity"
    /\ \E label \in {"consumeRead", "cancelRead"} : Goto(h, label)
    /\ UNCHANGED <<record, tokens, held, world>>

(* consume(): the token must be the last one minted, unspent and unexpired, *)
(* and the plan rebuilt from the live page must be the approved one.        *)
Consume(h) ==
    /\ up /\ pc[h] = "consumeRead"
    /\ LET spent == [record EXCEPT !.nonce = NoToken, !.attempts = @ + 1]
       IN  \/ /\ record.status # "approved"
              /\ Goto(h, "done")
           \/ /\ record.status = "approved"
              /\ Update(h, Invalidate(record, "cancelled"), "done")
           \/ /\ record.status = "approved" /\ record.nonce # held[h]
              /\ Update(h, Invalidate(record, "failed"), "done")
           \/ /\ record.status = "approved" /\ record.nonce = held[h]
              /\ IF now >= record.expires
                   THEN Update(h, [spent EXCEPT !.status = "expired"], "done")
                   ELSE Update(h, [spent EXCEPT !.status = "executing"], "acting")
    /\ UNCHANGED <<record, tokens, held, world>>

(* runMicroTask may be blocked on its way (capture, grounding, control); it  *)
(* refuses a plan that was attempted in this life and marks it in one turn. *)
ClaimMutation(h) ==
    /\ up /\ pc[h] = "acting"
    /\ began' = began \cup {<<h, crashes>>}
    /\ \/ Goto(h, "unverified") /\ UNCHANGED attempted
       \/ ~attempted /\ attempted' = TRUE /\ Goto(h, "claimFile")
    /\ UNCHANGED <<record, tokens, held, evidence, experiment, now, crashes, up,
                   claimed, ran>>

(* Mutant: the claim is written over an earlier one (no exclusive flag).     *)
ClaimFileAgain(h) ==
    /\ up /\ pc[h] = "claimFile"
    /\ claimed' = TRUE
    /\ Goto(h, "posting")
    /\ UNCHANGED <<record, tokens, held, evidence, experiment, now, crashes, up,
                   attempted, began, ran>>

(* FileMutationReplayStore.claim: the file of this session, approval and     *)
(* plan is created exclusively and never removed; a write that fails after   *)
(* creating it leaves it.                                                   *)
ClaimFile(h) ==
    /\ up /\ pc[h] = "claimFile"
    /\ \/ Goto(h, "unverified") /\ claimed' \in {claimed, TRUE}
       \/ ~claimed /\ claimed' = TRUE /\ Goto(h, "posting")
    /\ UNCHANGED <<record, tokens, held, evidence, experiment, now, crashes, up,
                   attempted, began, ran>>

(* The record is saved (which may fail) and the mutation happens;            *)
(* independent verification says whether it counts, and a verified one opens *)
(* an experiment.                                                           *)
Act(h) ==
    /\ up /\ pc[h] = "posting"
    /\ \/ Goto(h, "unverified") /\ UNCHANGED <<experiment, ran>>
       \/ /\ ran' = ran \cup {<<h, crashes>>}
          /\ \/ Goto(h, "succeeded") /\ experiment' = TRUE
             \/ Goto(h, "unverified") /\ UNCHANGED experiment
    /\ UNCHANGED <<record, tokens, held, evidence, now, crashes, up, attempted,
                   claimed, began>>

(* Mutant: only a verified mutation is finished. *)
FinishVerifiedOnly(h) ==
    /\ up /\ pc[h] \in {"succeeded", "unverified"}
    /\ IF record.status = "executing" /\ pc[h] = "succeeded"
         THEN Update(h, [record EXCEPT !.status = "executed"], "done")
         ELSE Goto(h, "done")
    /\ UNCHANGED <<record, tokens, held, world>>

(* finish(); when it throws, the catch block calls finish(false) once more. *)
Finish(h) ==
    /\ up /\ pc[h] \in {"succeeded", "unverified"}
    /\ IF record.status = "executing"
         THEN Update(h, [record EXCEPT !.status = IF pc[h] = "succeeded"
                                                  THEN "executed" ELSE "failed"], "done")
         ELSE Goto(h, IF pc[h] = "succeeded" THEN "unverified" ELSE "done")
    /\ UNCHANGED <<record, tokens, held, world>>

-----------------------------------------------------------------------------
(* Recovery and the environment                                            *)

(* Mutant: an interrupted execution goes back to the user. *)
RecoveredForRetry(rec) ==
    IF rec.status = "executing" THEN [rec EXCEPT !.status = "pending_user"] ELSE rec

Recovered(rec) ==
    IF rec.status = "approved" THEN Invalidate(rec, "cancelled")
    ELSE IF rec.status = "executing" THEN Invalidate(rec, "failed")
    ELSE rec

(* A second daemon runs recoverInterrupted next to the serving one; it is   *)
(* refused the workspace lease only afterwards.                            *)
RecoverInterrupted(h) ==
    /\ up /\ pc[h] = "bootRead"
    /\ IF Recovered(record) = record
         THEN Goto(h, "done")
         ELSE Update(h, Recovered(record), "done")
    /\ UNCHANGED <<record, tokens, held, world>>

Crash ==
    /\ up /\ crashes < MaxCrashes
    /\ up' = FALSE
    /\ crashes' = crashes + 1
    /\ tokens' = NoToken
    /\ pc' = [h \in Handler |-> IF pc[h] = "idle" THEN "idle" ELSE "lost"]
    /\ attempted' = FALSE
    /\ UNCHANGED <<record, todo, after, held, evidence, experiment, now, claimed,
                   began, ran>>

(* createSystem recovers every approval before the server listens.         *)
Restart ==
    /\ ~up
    /\ up' = TRUE
    /\ record' = Recovered(record)
    /\ UNCHANGED <<tokens, pc, todo, after, held, evidence, experiment, now,
                   crashes, replay>>

FactsGoStale ==
    /\ evidence
    /\ evidence' = FALSE
    /\ UNCHANGED <<record, tokens, pc, todo, after, held, experiment, now,
                   crashes, up, replay>>

Tick ==
    /\ now < MaxNow
    /\ now' = now + 1
    /\ UNCHANGED <<record, tokens, pc, todo, after, held, evidence, experiment,
                   crashes, up, replay>>

-----------------------------------------------------------------------------
Step(h) ==
    \/ Write(h) \/ CancelRead(h) \/ CancelWrite(h) \/ Validate(h)
    \/ RecordRiskReview(h) \/ ApproveByUser(h) \/ StoreToken(h) \/ ClaimToken(h)
    \/ ConfirmIdentity(h) \/ Consume(h) \/ ClaimMutation(h) \/ ClaimFile(h)
    \/ Act(h) \/ Finish(h) \/ RecoverInterrupted(h)

Next ==
    \/ \E h \in Handler : Begin(h) \/ Step(h)
    \/ Crash \/ Restart \/ FactsGoStale \/ Tick

Spec == Init /\ [][Next]_vars

(* A request that was accepted runs on, and a daemon that died is started   *)
(* again (the desktop shell restarts it).                                  *)
FairSpec == Spec /\ WF_vars(Restart) /\ \A h \in Handler : WF_vars(Step(h))

-----------------------------------------------------------------------------
(* Properties                                                              *)

(* A token is spent by at most one commit, whatever approvals, commits and  *)
(* cancels interleave ("tokens are single-use", APPROVAL_FLOW.md).         *)
TokenSingleUse ==
    \A m, n \in began : held[m[1]] = held[n[1]] => m = n

(* No interleaving of unlocked read-then-write updates forges authority: an *)
(* approval that is executable or was executed carries an approving risk    *)
(* review and a user approval.                                             *)
ExecutableWasApproved ==
    record.status \in {"approved", "executing", "executed"} =>
        record.reviewed /\ record.user

(* "execute exactly once" (APPROVAL_FLOW.md): one approval, at most one      *)
(* mutation, although two commits may consume it with a token each, two risk *)
(* reviews may make it pending again, and the daemon may die and boot.       *)
ExecutesOnce == \A m, n \in ran : m = n

(* "restart makes interrupted states terminal and non-replayable"           *)
(* (recoverInterrupted): an approval consumed before a crash is never        *)
(* consumed again by a later daemon.                                       *)
NoReplayAfterRestart ==
    \A m, n \in began : m[2] = n[2]

(* An approval never stays executing: its commit finishes it, or the next   *)
(* daemon fails it (finish, recoverInterrupted).                           *)
ExecutionEnds == record.status = "executing" ~> record.status # "executing"

(* "cancellation ... burns or invalidates" the token (security.md): an       *)
(* approval that ended stays as it ended.                                   *)
EndedStaysEnded == [][record.status \in Terminal => record' = record]_vars

-----------------------------------------------------------------------------
(* The inductive invariant behind the safety properties                    *)

GoodRecord(rec) ==
    /\ rec.status = "approved" => rec.attempts = 0
    /\ rec.status = "executing" => rec.attempts = 1
    /\ rec.status \in {"approved", "executing", "executed"} => rec.reviewed /\ rec.user

Settled(h) == pc[h] \in {"done", "lost"}

(* A token is in the map or in one commit's hands, and its minter is done.  *)
TokenInOnePlace ==
    /\ tokens # NoToken => Settled(tokens) /\ \A h \in Handler : held[h] # tokens
    /\ \A h \in Handler :
         held[h] # NoToken =>
             Settled(held[h]) /\ \A g \in Handler : held[g] = held[h] => g = h

Committing(h) ==
    \/ pc[h] \in {"identity", "consumeRead", "acting"}
    \/ pc[h] = "validate" /\ KindOf[h] = "commit"
    \/ pc[h] = "write" /\ after[h] = "acting"

CommitHoldsToken == \A h \in Handler : Committing(h) => held[h] # NoToken

(* Who consumed the approval once is past that for good.                   *)
BeganOnce ==
    \A m \in began :
        /\ held[m[1]] # NoToken
        /\ \/ pc[m[1]] \in {"claimFile", "posting", "succeeded", "unverified", "done", "lost"}
           \/ pc[m[1]] = "write" /\ after[m[1]] = "done"
        /\ \A n \in began : m[1] = n[1] => m = n

WriteTargets ==
    \A h \in Handler : pc[h] = "write" => after[h] \in {"done", "store", "acting"}

ApprovalInv ==
    /\ TypeOK
    /\ GoodRecord(record)
    /\ \A h \in Handler : GoodRecord(todo[h])
    /\ TokenInOnePlace
    /\ CommitHoldsToken
    /\ BeganOnce
    /\ WriteTargets

(* Who may post holds the claim, alone, and the claim outlives everybody.   *)
ClaimedBeforePosting ==
    /\ ran # {} => claimed
    /\ \A h \in Handler : pc[h] = "posting" =>
          claimed /\ ran = {} /\ \A g \in Handler : pc[g] = "posting" => g = h
    /\ ExecutesOnce

-----------------------------------------------------------------------------
(* The inductive invariant behind NoReplayAfterRestart, for one risk review  *)

(* Two concurrent reviews would let the slower one put a consumed approval   *)
(* back to pending_user, and a later daemon consume it again; the claim then *)
(* refuses the mutation (ExecutesOnce).                                     *)
SingleReview ==
    \A g, h \in Handler : KindOf[g] = "review" /\ KindOf[h] = "review" => g = h

ReviewLabel == {"idle", "validate", "reviewed", "cancelRead", "write", "cancelWrite",
                "done", "lost"}

Reviewing(h) == KindOf[h] = "review" /\ ~Settled(h)
Writing(h) == pc[h] \in {"write", "cancelWrite"}
Consuming(h) == pc[h] = "acting" \/ (pc[h] = "write" /\ after[h] = "acting")

(* Only the review makes an approval pending, and until its write is done    *)
(* no record or prepared write carries a review.                             *)
ReviewFirst ==
    /\ \A h \in Handler : pc[h] = "reviewed" => KindOf[h] = "review"
    /\ \A h \in Handler : KindOf[h] = "review" =>
         /\ pc[h] \in ReviewLabel
         /\ pc[h] = "write" => after[h] = "done"
    /\ \A h \in Handler : Writing(h) /\ todo[h].status \in Pending => KindOf[h] = "review"
    /\ \A h \in Handler : Reviewing(h) => ~record.reviewed
    /\ \A g, h \in Handler : Reviewing(h) /\ Writing(g) /\ g # h => ~todo[g].reviewed

(* Once a commit consumed the approval it is never pending again.            *)
NeverPendingAgain ==
    (began # {} \/ \E h \in Handler : Consuming(h)) =>
        record.status \notin Pending /\ \A h \in Handler : ~Reviewing(h)

(* A later daemon finds what an earlier one consumed terminal, and writes    *)
(* nothing more.                                                             *)
LaterLives ==
    /\ \A m \in began : m[2] <= crashes
    /\ ~up => \A h \in Handler : pc[h] \in {"idle", "lost"}
    /\ up => \A m \in began : m[2] < crashes =>
           record.status \in Terminal /\ \A h \in Handler : ~Writing(h) /\ pc[h] # "acting"

ReplayInv ==
    ApprovalInv /\ ReviewFirst /\ NeverPendingAgain /\ LaterLives /\ NoReplayAfterRestart
=============================================================================
