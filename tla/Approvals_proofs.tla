-------------------------- MODULE Approvals_proofs --------------------------
(* Safety of one approval for every set of concurrent requests.             *)
EXTENDS Approvals, TLAPS

LEMMA CreatedGood == Created \in Record /\ GoodRecord(Created)
  BY DEF Created, Record, GoodRecord, Status, Token, Pending, Cancellable

LEMMA ApprovalInit == Init => ApprovalInv
<1> SUFFICES ASSUME Init PROVE ApprovalInv
  OBVIOUS
<1> USE ApprovalAssumption, CreatedGood DEF Init
<1>1. TypeOK
  BY DEF TypeOK, Token, Label
<1>2. GoodRecord(record) /\ \A h \in Handler : GoodRecord(todo[h])
  OBVIOUS
<1>3. TokenInOnePlace /\ CommitHoldsToken /\ BeganOnce /\ WriteTargets
  BY DEF TokenInOnePlace, CommitHoldsToken, Committing, BeganOnce, WriteTargets
<1> QED
  BY <1>1, <1>2, <1>3 DEF ApprovalInv

(* cancel(), recoverInterrupted and a failed consume write such a record.   *)
LEMMA InvalidateGood ==
    ASSUME NEW rec \in Record, GoodRecord(rec), NEW s \in {"cancelled", "failed"}
    PROVE  Invalidate(rec, s) \in Record /\ GoodRecord(Invalidate(rec, s))
<1> DEFINE att == IF rec.status = "approved" THEN rec.attempts + 1 ELSE rec.attempts
<1>1. att \in {0, 1}
  BY DEF Record, GoodRecord
<1>2. Invalidate(rec, s) =
         [rec EXCEPT !.status = s, !.nonce = NoToken, !.attempts = att]
  BY DEF Invalidate
<1> HIDE DEF att
<1>3. Invalidate(rec, s) \in Record
  BY <1>1, <1>2 DEF Record, Status, Token, Cancellable, Terminal
<1>4. Invalidate(rec, s).status = s
  BY <1>2 DEF Record
<1> QED
  BY <1>3, <1>4 DEF GoodRecord

(* approveByUser writes such a record.                                      *)
LEMMA ApprovedGood ==
    ASSUME NEW rec \in Record, rec.reviewed, NEW h \in Handler, NEW e \in Nat,
           NEW r, r = [rec EXCEPT !.status = "approved", !.user = TRUE, !.nonce = h,
                          !.binding = h, !.attempts = 0, !.expires = e]
    PROVE  r \in Record /\ GoodRecord(r)
<1>1. r \in Record
  BY DEF Record, Status, Cancellable, Token
<1>2. r.status = "approved" /\ r.attempts = 0 /\ r.user = TRUE /\ r.reviewed = rec.reviewed
  BY DEF Record
<1> QED
  BY <1>1, <1>2 DEF GoodRecord

(* A successful or expired consume writes such a record.                    *)
LEMMA SpentGood ==
    ASSUME NEW rec \in Record, GoodRecord(rec), rec.status = "approved",
           NEW s \in {"expired", "executing"},
           NEW r, r = [rec EXCEPT !.nonce = NoToken, !.attempts = @ + 1]
    PROVE  [r EXCEPT !.status = s] \in Record /\ GoodRecord([r EXCEPT !.status = s])
<1> DEFINE q == [r EXCEPT !.status = s]
<1>1. rec.attempts + 1 = 1 /\ rec.reviewed /\ rec.user
  BY DEF GoodRecord
<1>2. r = [rec EXCEPT !.nonce = NoToken, !.attempts = 1]
  BY <1>1
<1>3. q \in Record
  BY <1>2 DEF Record, Status, Cancellable, Terminal, Token
<1>4. q.status = s /\ q.attempts = 1 /\ q.reviewed = rec.reviewed /\ q.user = rec.user
  BY <1>2 DEF Record
<1> QED
  BY <1>1, <1>3, <1>4 DEF GoodRecord

LEMMA RecoveredGood ==
    ASSUME NEW rec \in Record, GoodRecord(rec)
    PROVE  Recovered(rec) \in Record /\ GoodRecord(Recovered(rec))
  BY InvalidateGood DEF Recovered

(* A handler that only moves on, keeping clear of the settled labels.       *)
LEMMA GotoKeeps ==
    ASSUME ApprovalInv, NEW h \in Handler, ~Settled(h), NEW next \in Label \ {"write"},
           Goto(h, next), UNCHANGED <<record, tokens, held, began>>,
           evidence' \in BOOLEAN, experiment' \in BOOLEAN, now' \in Nat,
           crashes' \in Nat, up' \in BOOLEAN, attempted' \in BOOLEAN,
           claimed' \in BOOLEAN, ran' \subseteq (Handler \X Nat),
           next \in {"identity", "consumeRead", "acting"} => held[h] # NoToken,
           next = "validate" /\ KindOf[h] = "commit" => held[h] # NoToken,
           next \notin {"posting", "succeeded", "unverified", "done"} =>
               \A m \in began : m[1] # h
    PROVE  ApprovalInv'
<1> USE ApprovalAssumption DEF ApprovalInv, Goto
<1>1. TypeOK'
  BY DEF TypeOK
<1>2. GoodRecord(record)' /\ \A g \in Handler : GoodRecord(todo[g])'
  OBVIOUS
<1>3. TokenInOnePlace'
  BY DEF TokenInOnePlace, Settled, TypeOK, Token
<1>4. CommitHoldsToken'
  BY DEF CommitHoldsToken, Committing, TypeOK
<1>5. BeganOnce'
  BY DEF BeganOnce, TypeOK
<1>6. WriteTargets'
  BY DEF WriteTargets, TypeOK
<1> QED
  BY <1>1, <1>2, <1>3, <1>4, <1>5, <1>6

(* A handler that prepares a record to write.                               *)
LEMMA UpdateKeeps ==
    ASSUME ApprovalInv, NEW h \in Handler, ~Settled(h),
           NEW rec \in Record, GoodRecord(rec), NEW next \in {"done", "store", "acting"},
           Update(h, rec, next), UNCHANGED <<record, tokens, held, world>>,
           next = "acting" => held[h] # NoToken,
           next # "done" => \A m \in began : m[1] # h
    PROVE  ApprovalInv'
<1> USE ApprovalAssumption DEF ApprovalInv, Update, world, replay
<1>1. TypeOK'
  BY DEF TypeOK, Label
<1>2. GoodRecord(record)'
  OBVIOUS
<1>3. \A g \in Handler : GoodRecord(todo[g])'
  BY DEF TypeOK
<1>4. TokenInOnePlace'
  BY DEF TokenInOnePlace, Settled, TypeOK, Token
<1>5. CommitHoldsToken'
  BY DEF CommitHoldsToken, Committing, TypeOK
<1>6. BeganOnce'
  BY DEF BeganOnce, TypeOK
<1>7. WriteTargets'
  BY DEF WriteTargets, TypeOK
<1> QED
  BY <1>1, <1>2, <1>3, <1>4, <1>5, <1>6, <1>7

(* Every step of a handler, of recovery and of the environment keeps it.    *)
LEMMA ApprovalStep ==
    ASSUME ApprovalInv, [Next]_vars
    PROVE  ApprovalInv'
<1> USE ApprovalAssumption
<1>a. record \in Record /\ GoodRecord(record)
  BY DEF ApprovalInv, TypeOK
<1>b. /\ up \in BOOLEAN /\ evidence \in BOOLEAN /\ experiment \in BOOLEAN
      /\ now \in Nat /\ crashes \in Nat /\ attempted \in BOOLEAN
      /\ claimed \in BOOLEAN /\ ran \subseteq (Handler \X Nat)
  BY DEF ApprovalInv, TypeOK
<1>c. ASSUME NEW h \in Handler,
             pc[h] \notin {"claimFile", "posting", "succeeded", "unverified", "done",
                           "lost", "write"}
      PROVE  \A m \in began : m[1] # h
  BY <1>c DEF ApprovalInv, BeganOnce
<1>1. ASSUME NEW h \in Handler, Begin(h) PROVE ApprovalInv'
  BY <1>1, <1>b, <1>c, GotoKeeps DEF Begin, First, Label, Settled, world, replay
<1>2. ASSUME NEW h \in Handler, Write(h) PROVE ApprovalInv'
  <2> USE <1>2 DEF Write, ApprovalInv, world, replay
  <2>1. TypeOK'
    BY DEF TypeOK
  <2>2. GoodRecord(record)' /\ \A g \in Handler : GoodRecord(todo[g])'
    OBVIOUS
  <2>3. TokenInOnePlace' /\ CommitHoldsToken'
    BY DEF TokenInOnePlace, Settled, TypeOK, Token, CommitHoldsToken, Committing,
           WriteTargets
  <2>4. BeganOnce' /\ WriteTargets'
    BY DEF BeganOnce, WriteTargets, TypeOK
  <2> QED
    BY <2>1, <2>2, <2>3, <2>4
<1>3. ASSUME NEW h \in Handler, CancelRead(h) PROVE ApprovalInv'
  <2>1. CASE record.status \notin Cancellable
    BY <1>3, <2>1, <1>b, GotoKeeps DEF CancelRead, Label, Settled, world, replay
  <2>2. CASE record.status \in Cancellable
    <3> USE <1>3, <2>2 DEF CancelRead, ApprovalInv, world, replay
    <3>1. TypeOK'
      BY InvalidateGood DEF TypeOK, Label
    <3>2. GoodRecord(record)' /\ \A g \in Handler : GoodRecord(todo[g])'
      BY InvalidateGood DEF TypeOK
    <3>3. TokenInOnePlace' /\ CommitHoldsToken'
      BY DEF TokenInOnePlace, Settled, TypeOK, Token, CommitHoldsToken, Committing
    <3>4. BeganOnce' /\ WriteTargets'
      BY DEF BeganOnce, WriteTargets, TypeOK
    <3> QED
      BY <3>1, <3>2, <3>3, <3>4
  <2> QED
    BY <2>1, <2>2
<1>4. ASSUME NEW h \in Handler, CancelWrite(h) PROVE ApprovalInv'
  <2> USE <1>4 DEF CancelWrite, ApprovalInv, Goto, world, replay
  <2>1. TypeOK'
    BY DEF TypeOK, Label
  <2>2. GoodRecord(record)' /\ \A g \in Handler : GoodRecord(todo[g])'
    OBVIOUS
  <2>3. TokenInOnePlace' /\ CommitHoldsToken'
    BY DEF TokenInOnePlace, Settled, TypeOK, Token, CommitHoldsToken, Committing
  <2>4. BeganOnce' /\ WriteTargets'
    BY DEF BeganOnce, WriteTargets, TypeOK
  <2> QED
    BY <2>1, <2>2, <2>3, <2>4
<1>5. ASSUME NEW h \in Handler, Validate(h) PROVE ApprovalInv'
  <2>1. KindOf[h] = "commit" => held[h] # NoToken
    BY <1>5 DEF Validate, ApprovalInv, CommitHoldsToken, Committing
  <2> QED
    BY <1>5, <2>1, <1>b, <1>c, GotoKeeps DEF Validate, Label, Settled, world, replay
<1>6. ASSUME NEW h \in Handler, RecordRiskReview(h) PROVE ApprovalInv'
  <2>1. CASE record.status # "pending_risk_review"
    BY <1>6, <2>1, <1>b, GotoKeeps DEF RecordRiskReview, Label, Settled, world, replay
  <2>2. CASE record.status = "pending_risk_review"
    <3>1. PICK approved \in BOOLEAN :
             Update(h, [record EXCEPT !.status = IF approved THEN "pending_user"
                                                 ELSE "rejected",
                                      !.reviewed = approved], "done")
      BY <1>6, <2>2 DEF RecordRiskReview
    <3> DEFINE rec == [record EXCEPT !.status = IF approved THEN "pending_user"
                                                ELSE "rejected",
                                     !.reviewed = approved]
    <3>2. rec \in Record /\ GoodRecord(rec)
      BY <1>a DEF Record, GoodRecord, Status, Pending, Cancellable, Terminal
    <3> QED
      BY <1>6, <3>1, <3>2, UpdateKeeps DEF RecordRiskReview, Settled
  <2> QED
    BY <2>1, <2>2
<1>7. ASSUME NEW h \in Handler, ApproveByUser(h) PROVE ApprovalInv'
  <2> USE <1>7 DEF ApproveByUser
  <2>1. CASE ~(record.status = "pending_user" /\ record.reviewed)
    BY <2>1, <1>b, GotoKeeps DEF Label, Settled, world, replay
  <2>2. CASE record.status = "pending_user" /\ record.reviewed /\ now >= PlanExpiry
    <3> DEFINE rec == [record EXCEPT !.status = "expired"]
    <3>1. rec \in Record /\ GoodRecord(rec)
      BY <1>a DEF Record, GoodRecord, Status, Pending, Cancellable, Terminal
    <3>2. Update(h, rec, "done")
      BY <2>2, <1>b
    <3> QED
      BY <3>1, <3>2, UpdateKeeps DEF Settled
  <2>3. CASE record.status = "pending_user" /\ record.reviewed /\ now < PlanExpiry
    <3> DEFINE rec == [record EXCEPT !.status = "approved", !.user = TRUE, !.nonce = h,
                          !.binding = h, !.attempts = 0,
                          !.expires = Minimum(now + TokenLife, PlanExpiry)]
    <3>1. rec \in Record /\ GoodRecord(rec)
      <4>1. Minimum(now + TokenLife, PlanExpiry) \in Nat
        BY <1>b DEF Minimum
      <4> QED
        BY <4>1, <1>a, <2>3, ApprovedGood
    <3>2. Update(h, rec, "store")
      BY <2>3, <1>b
    <3> HIDE DEF rec
    <3> QED
      BY <3>1, <3>2, <1>c, UpdateKeeps DEF Settled
  <2> QED
    BY <2>1, <2>2, <2>3, <1>b
<1>8. ASSUME NEW h \in Handler, StoreToken(h) PROVE ApprovalInv'
  <2> USE <1>8 DEF StoreToken, ApprovalInv, Goto, world, replay
  <2>1. TypeOK'
    BY DEF TypeOK, Token, Label
  <2>2. GoodRecord(record)' /\ \A g \in Handler : GoodRecord(todo[g])'
    OBVIOUS
  <2>3. TokenInOnePlace' /\ CommitHoldsToken'
    BY DEF TokenInOnePlace, Settled, TypeOK, Token, CommitHoldsToken, Committing
  <2>4. BeganOnce' /\ WriteTargets'
    BY DEF BeganOnce, WriteTargets, TypeOK
  <2> QED
    BY <2>1, <2>2, <2>3, <2>4
<1>9. ASSUME NEW h \in Handler, ClaimToken(h) PROVE ApprovalInv'
  <2>1. CASE tokens = NoToken
    BY <1>9, <2>1, <1>b, GotoKeeps DEF ClaimToken, Label, Settled, world, replay
  <2>2. CASE tokens # NoToken
    <3> USE <1>9, <2>2 DEF ClaimToken, ApprovalInv, Goto, world, replay
    <3>1. TypeOK'
      BY DEF TypeOK, Token, Label
    <3>2. GoodRecord(record)' /\ \A g \in Handler : GoodRecord(todo[g])'
      OBVIOUS
    <3>3. TokenInOnePlace' /\ CommitHoldsToken'
      BY DEF TokenInOnePlace, Settled, TypeOK, Token, CommitHoldsToken, Committing
    <3>4. BeganOnce' /\ WriteTargets'
      BY <1>c DEF BeganOnce, WriteTargets, TypeOK
    <3> QED
      BY <3>1, <3>2, <3>3, <3>4
  <2> QED
    BY <2>1, <2>2
<1>10. ASSUME NEW h \in Handler, ConfirmIdentity(h) PROVE ApprovalInv'
  <2>1. held[h] # NoToken
    BY <1>10 DEF ConfirmIdentity, ApprovalInv, CommitHoldsToken, Committing
  <2> QED
    BY <1>10, <2>1, <1>b, <1>c, GotoKeeps DEF ConfirmIdentity, Label, Settled, world, replay
<1>11. ASSUME NEW h \in Handler, Consume(h) PROVE ApprovalInv'
  <2>1. held[h] # NoToken
    BY <1>11 DEF Consume, ApprovalInv, CommitHoldsToken, Committing
  <2>2. CASE Goto(h, "done")
    BY <1>11, <2>2, <1>b, GotoKeeps DEF Consume, Label, Settled, world, replay
  <2>3. CASE \E s \in {"cancelled", "failed"} : Update(h, Invalidate(record, s), "done")
    BY <1>11, <2>3, <1>a, InvalidateGood, UpdateKeeps DEF Consume, Settled
  <2> DEFINE spent == [record EXCEPT !.nonce = NoToken, !.attempts = @ + 1]
  <2>4. CASE /\ record.status = "approved"
             /\ Update(h, [spent EXCEPT !.status = "expired"], "done")
    <3> DEFINE rec == [spent EXCEPT !.status = "expired"]
    <3>1. rec \in Record /\ GoodRecord(rec)
      BY <2>4, <1>a, SpentGood
    <3>2. Update(h, rec, "done")
      BY <2>4
    <3> HIDE DEF rec
    <3> QED
      BY <1>11, <3>1, <3>2, UpdateKeeps DEF Consume, Settled
  <2>5. CASE /\ record.status = "approved"
             /\ Update(h, [spent EXCEPT !.status = "executing"], "acting")
    <3> DEFINE rec == [spent EXCEPT !.status = "executing"]
    <3>1. rec \in Record /\ GoodRecord(rec)
      BY <2>5, <1>a, SpentGood
    <3>2. Update(h, rec, "acting")
      BY <2>5
    <3> HIDE DEF rec
    <3> QED
      BY <1>11, <3>1, <3>2, <2>1, <1>c, UpdateKeeps DEF Consume, Settled
  <2> QED
    BY <1>11, <2>2, <2>3, <2>4, <2>5 DEF Consume
(* The commit had not begun before: acting is passed once.                  *)
<1>12. ASSUME NEW h \in Handler, ClaimMutation(h) PROVE ApprovalInv'
  <2> USE <1>12 DEF ClaimMutation, ApprovalInv, Goto
  <2>a. began' \subseteq (Handler \X Nat)
    BY DEF TypeOK
  <2>b. /\ pc' \in [Handler -> Label] /\ attempted' \in BOOLEAN
        /\ todo' \in [Handler -> Record] /\ after' \in [Handler -> Label]
    BY DEF TypeOK, Label
  <2>1. TypeOK'
    BY <2>a, <2>b DEF TypeOK
  <2>2. GoodRecord(record)' /\ \A g \in Handler : GoodRecord(todo[g])'
    OBVIOUS
  <2>3. TokenInOnePlace' /\ CommitHoldsToken' /\ WriteTargets'
    BY DEF TokenInOnePlace, Settled, TypeOK, Token, CommitHoldsToken, Committing,
           WriteTargets
  <2>4. held[h] # NoToken
    BY DEF CommitHoldsToken, Committing
  <2>5. BeganOnce'
    BY <1>c, <2>4 DEF BeganOnce, TypeOK
  <2> QED
    BY <2>1, <2>2, <2>3, <2>5
<1>18. ASSUME NEW h \in Handler, ClaimFile(h) PROVE ApprovalInv'
  BY <1>18, <1>b, GotoKeeps DEF ClaimFile, Label, Settled
<1>19. ASSUME NEW h \in Handler, Act(h) PROVE ApprovalInv'
  <2>1. ran' = ran \/ ran' = ran \cup {<<h, crashes>>}
    BY <1>19 DEF Act
  <2>2. ran' \subseteq (Handler \X Nat)
    BY <1>b, <2>1
  <2>3. experiment' \in BOOLEAN
    BY <1>19, <1>b, Zenon DEF Act
  <2> QED
    BY <1>19, <2>2, <2>3, <1>b, GotoKeeps DEF Act, Label, Settled
<1>13. ASSUME NEW h \in Handler, Finish(h) PROVE ApprovalInv'
  <2>1. CASE record.status # "executing"
    BY <1>13, <2>1, <1>b, GotoKeeps DEF Finish, Label, Settled, world, replay
  <2>2. CASE record.status = "executing"
    <3> DEFINE rec == [record EXCEPT !.status = IF pc[h] = "succeeded"
                                                THEN "executed" ELSE "failed"]
    <3>1. rec \in Record /\ GoodRecord(rec)
      BY <2>2, <1>a DEF Record, GoodRecord, Status, Pending, Cancellable, Terminal
    <3>2. Update(h, rec, "done")
      BY <1>13, <2>2 DEF Finish
    <3> HIDE DEF rec
    <3> QED
      BY <1>13, <3>1, <3>2, UpdateKeeps DEF Finish, Settled
  <2> QED
    BY <2>1, <2>2
<1>14. ASSUME NEW h \in Handler, RecoverInterrupted(h) PROVE ApprovalInv'
  <2>1. CASE Recovered(record) = record
    BY <1>14, <2>1, <1>b, GotoKeeps DEF RecoverInterrupted, Label, Settled, world, replay
  <2>2. CASE Recovered(record) # record
    BY <1>14, <2>2, <1>a, RecoveredGood, UpdateKeeps DEF RecoverInterrupted, Settled
  <2> QED
    BY <2>1, <2>2
<1>15. CASE Crash
  <2> USE <1>15 DEF Crash, ApprovalInv
  <2>a. pc' \in [Handler -> Label] /\ tokens' \in Token /\ crashes' \in Nat
    BY DEF TypeOK, Label, Token
  <2>1. TypeOK'
    BY <2>a DEF TypeOK
  <2>2. GoodRecord(record)' /\ \A g \in Handler : GoodRecord(todo[g])'
    OBVIOUS
  <2>3. TokenInOnePlace' /\ CommitHoldsToken'
    BY DEF TokenInOnePlace, Settled, TypeOK, Token, CommitHoldsToken, Committing
  <2>4. BeganOnce' /\ WriteTargets'
    BY DEF BeganOnce, WriteTargets, TypeOK
  <2> QED
    BY <2>1, <2>2, <2>3, <2>4
<1>16. CASE Restart
  <2> USE <1>16 DEF Restart, ApprovalInv, replay
  <2>a. record' \in Record /\ GoodRecord(record')
    BY <1>a, RecoveredGood
  <2>b. TypeOK'
    BY <2>a DEF TypeOK
  <2>1. TypeOK' /\ GoodRecord(record)' /\ \A g \in Handler : GoodRecord(todo[g])'
    BY <2>a, <2>b
  <2>2. TokenInOnePlace' /\ CommitHoldsToken' /\ BeganOnce' /\ WriteTargets'
    BY DEF TokenInOnePlace, Settled, CommitHoldsToken, Committing, BeganOnce, WriteTargets
  <2> QED
    BY <2>1, <2>2
<1>17. CASE FactsGoStale \/ Tick \/ UNCHANGED vars
  <2>a. evidence' \in BOOLEAN
    BY <1>17, <1>b, Zenon DEF FactsGoStale, Tick, vars, replay
  <2>b. now' \in Nat
    BY <1>17, <1>b DEF FactsGoStale, Tick, vars, replay
  <2>2. UNCHANGED <<record, tokens, pc, todo, after, held, experiment, crashes, up,
                    attempted, claimed, began, ran>>
    BY <1>17 DEF FactsGoStale, Tick, vars, replay
  <2>3. TypeOK'
    BY <2>a, <2>b, <2>2 DEF ApprovalInv, TypeOK
  <2>4. TokenInOnePlace' /\ CommitHoldsToken' /\ BeganOnce' /\ WriteTargets'
    BY <2>2 DEF ApprovalInv, TokenInOnePlace, Settled, CommitHoldsToken, Committing,
                BeganOnce, WriteTargets
  <2> QED
    BY <2>2, <2>3, <2>4 DEF ApprovalInv
<1> QED
  BY <1>1, <1>2, <1>3, <1>4, <1>5, <1>6, <1>7, <1>8, <1>9, <1>10, <1>11, <1>12,
     <1>13, <1>14, <1>15, <1>16, <1>17, <1>18, <1>19 DEF Next, Step

(* The inductive invariant holds for every set of requests.                 *)
THEOREM ApprovalInvariant == Spec => []ApprovalInv
<1>1. Init => ApprovalInv
  BY ApprovalInit
<1>2. ApprovalInv /\ [Next]_vars => ApprovalInv'
  BY ApprovalStep
<1> QED
  BY <1>1, <1>2, PTL DEF Spec

(* A one-time token is spent by at most one commit: it is in the map or in   *)
(* one commit's hands, and a commit consumes the approval at most once.     *)
THEOREM ApprovalTokenSingleUse == Spec => []TokenSingleUse
<1>1. ApprovalInv => TokenSingleUse
  BY DEF ApprovalInv, TypeOK, Token, TokenSingleUse, BeganOnce, TokenInOnePlace
<1> QED
  BY <1>1, ApprovalInvariant, PTL

(* Whatever unlocked updates overwrite each other, an executable approval    *)
(* carries its risk review and its user approval.                           *)
THEOREM ApprovalExecutableWasApproved == Spec => []ExecutableWasApproved
<1>1. ApprovalInv => ExecutableWasApproved
  BY DEF ApprovalInv, GoodRecord, ExecutableWasApproved
<1> QED
  BY <1>1, ApprovalInvariant, PTL

(***************************************************************************)
(* One mutation: the claim of the plan                                      *)
(***************************************************************************)
(* Only ClaimFile sets the claim, which was free, and only Act posts.       *)
LEMMA ClaimStep ==
    ASSUME ApprovalInv, ClaimedBeforePosting, [Next]_vars
    PROVE  ClaimedBeforePosting'
<1>0. /\ pc \in [Handler -> Label] /\ after \in [Handler -> Label]
      /\ \A h \in Handler : pc[h] = "write" => after[h] # "posting"
  BY DEF ApprovalInv, TypeOK, WriteTargets
<1> USE DEF ClaimedBeforePosting, ExecutesOnce
<1>1. ASSUME claimed' = claimed, ran' = ran,
             \A h \in Handler : pc'[h] = "posting" => pc[h] = "posting"
      PROVE  ClaimedBeforePosting'
  BY <1>1
<1>2. ASSUME NEW h \in Handler, ClaimFile(h) PROVE ClaimedBeforePosting'
  <2>1. CASE Goto(h, "unverified")
    <3>1. ran' = ran /\ \A g \in Handler : pc'[g] = "posting" => pc[g] = "posting"
      BY <1>0, <1>2, <2>1 DEF ClaimFile, Goto
    <3>2. CASE claimed' = claimed
      BY <1>1, <3>1, <3>2
    <3>3. CASE claimed' = TRUE
      BY <3>1, <3>3
    <3>4. claimed' = claimed \/ claimed' = TRUE
      BY <1>2, Zenon DEF ClaimFile
    <3> QED
      BY <3>2, <3>3, <3>4
  <2>2. CASE ~claimed /\ claimed' = TRUE /\ Goto(h, "posting")
    BY <1>0, <1>2, <2>2 DEF ClaimFile, Goto
  <2> QED
    BY <1>2, <2>1, <2>2 DEF ClaimFile
<1>3. ASSUME NEW h \in Handler, Act(h) PROVE ClaimedBeforePosting'
  BY <1>0, <1>3 DEF Act, Goto
<1>4. ASSUME NEW h \in Handler, Begin(h) \/ Validate(h) \/ StoreToken(h) \/ ClaimToken(h)
                                \/ ConfirmIdentity(h) \/ CancelWrite(h)
      PROVE  ClaimedBeforePosting'
  BY <1>0, <1>1, <1>4 DEF Begin, First, Validate, StoreToken, ClaimToken, ConfirmIdentity,
                          CancelWrite, Goto, world, replay
<1>5. ASSUME NEW h \in Handler, Write(h) \/ CancelRead(h) \/ RecordRiskReview(h)
                                \/ ApproveByUser(h)
      PROVE  ClaimedBeforePosting'
  BY <1>0, <1>1, <1>5 DEF Write, CancelRead, RecordRiskReview, ApproveByUser, Goto, Update,
                          world, replay
<1>6. ASSUME NEW h \in Handler, Consume(h) \/ Finish(h) \/ RecoverInterrupted(h)
      PROVE  ClaimedBeforePosting'
  BY <1>0, <1>1, <1>6 DEF Consume, Finish, RecoverInterrupted, Goto, Update, world, replay
<1>7. ASSUME NEW h \in Handler, ClaimMutation(h) PROVE ClaimedBeforePosting'
  BY <1>0, <1>1, <1>7 DEF ClaimMutation, Goto
<1>8. CASE Crash \/ Restart \/ FactsGoStale \/ Tick \/ UNCHANGED vars
  BY <1>0, <1>1, <1>8 DEF Crash, Restart, FactsGoStale, Tick, vars, replay
<1> QED
  BY <1>2, <1>3, <1>4, <1>5, <1>6, <1>7, <1>8 DEF Next, Step

(* An approval is executed at most once, whatever reviews, approvals,        *)
(* commits, crashes and boots there are: the first commit that may post      *)
(* leaves a claim on disk, and every later one is refused.                  *)
THEOREM ApprovalExecutesOnce == Spec => []ExecutesOnce
<1>1. Init => ClaimedBeforePosting
  BY DEF Init, ClaimedBeforePosting, ExecutesOnce
<1>2. ApprovalInv /\ ClaimedBeforePosting /\ [Next]_vars => ClaimedBeforePosting'
  BY ClaimStep
<1>3. ClaimedBeforePosting => ExecutesOnce
  BY DEF ClaimedBeforePosting
<1> QED
  BY <1>1, <1>2, <1>3, ApprovalInvariant, PTL DEF Spec

(***************************************************************************)
(* No replay after a restart, for one risk review of the approval          *)
(***************************************************************************)
Replays == ReviewFirst /\ NeverPendingAgain /\ LaterLives /\ NoReplayAfterRestart

LEMMA InitReplay == Init => ReplayInv
<1> SUFFICES ASSUME Init PROVE ReplayInv
  OBVIOUS
<1>1. ReviewFirst
  BY DEF Init, ReviewFirst, ReviewLabel, Reviewing, Writing, Created
<1>2. NeverPendingAgain /\ LaterLives /\ NoReplayAfterRestart
  BY DEF Init, NeverPendingAgain, Consuming, LaterLives, NoReplayAfterRestart
<1> QED
  BY <1>1, <1>2, ApprovalInit DEF ReplayInv

(* A handler that only moves on.                                            *)
LEMMA GotoReplays ==
    ASSUME ReplayInv, NEW h \in Handler, ~Settled(h),
           NEW next \in Label \ {"write", "cancelWrite", "acting"}, Goto(h, next),
           UNCHANGED <<record, began, crashes, up>>, up,
           next = "reviewed" => KindOf[h] = "review",
           KindOf[h] = "review" => next \in ReviewLabel
    PROVE  Replays'
<1> USE DEF ReplayInv, Goto, Settled
<1>0. pc \in [Handler -> Label]
  BY DEF ApprovalInv, TypeOK
<1>1. ReviewFirst'
  BY <1>0 DEF ReviewFirst, Reviewing, Writing
<1>2. NeverPendingAgain'
  BY <1>0 DEF NeverPendingAgain, Reviewing, Consuming
<1>3. LaterLives'
  BY <1>0 DEF LaterLives, Writing
<1>4. NoReplayAfterRestart'
  BY DEF NoReplayAfterRestart
<1> QED
  BY <1>1, <1>2, <1>3, <1>4 DEF Replays

(* A handler that prepares a record, from one that is not terminal.         *)
LEMMA PrepareReplays ==
    ASSUME ReplayInv, SingleReview, NEW h \in Handler, ~Settled(h), NEW rec,
           NEW label \in {"write", "cancelWrite"}, NEW next,
           pc' = [pc EXCEPT ![h] = label], todo' = [todo EXCEPT ![h] = rec],
           after' = [after EXCEPT ![h] = next],
           UNCHANGED <<record, began, crashes, up>>, up,
           record.status \notin Terminal,
           rec.status \in Pending => KindOf[h] = "review",
           rec.reviewed => record.reviewed \/ KindOf[h] = "review",
           KindOf[h] = "review" /\ label = "write" => next = "done",
           label = "write" /\ next = "acting" => record.status = "approved"
    PROVE  Replays'
<1> USE DEF ReplayInv, Settled
<1>0. /\ pc \in [Handler -> Label] /\ todo \in [Handler -> Record]
      /\ after \in [Handler -> Label]
  BY DEF ApprovalInv, TypeOK
<1>1. ReviewFirst'
  <2>1. /\ \A g \in Handler : pc'[g] = "reviewed" => KindOf[g] = "review"
        /\ \A g \in Handler : KindOf[g] = "review" =>
             /\ pc'[g] \in ReviewLabel
             /\ pc'[g] = "write" => after'[g] = "done"
    BY <1>0 DEF ReviewFirst, ReviewLabel
  <2>2. \A g \in Handler : Writing(g)' /\ todo'[g].status \in Pending => KindOf[g] = "review"
    BY <1>0 DEF ReviewFirst, Writing
  <2>3. \A r \in Handler : Reviewing(r)' => Reviewing(r)
    BY <1>0 DEF Reviewing
  <2>4. \A r \in Handler : Reviewing(r)' => ~record'.reviewed
    BY <2>3 DEF ReviewFirst
  <2>5. ASSUME NEW g \in Handler, NEW r \in Handler, Reviewing(r)', Writing(g)', g # r
        PROVE  ~todo'[g].reviewed
    <3>1. CASE g = h
      BY <1>0, <2>3, <2>5, <3>1 DEF ReviewFirst, Reviewing, SingleReview
    <3>2. CASE g # h
      BY <1>0, <2>3, <2>5, <3>2 DEF ReviewFirst, Writing
    <3> QED
      BY <3>1, <3>2
  <2> QED
    BY <2>1, <2>2, <2>4, <2>5 DEF ReviewFirst
<1>2. NeverPendingAgain'
  <2>1. \A r \in Handler : Reviewing(r)' => Reviewing(r)
    BY <1>0 DEF Reviewing
  <2>2. CASE label = "write" /\ next = "acting"
    <3>1. record.reviewed /\ record.status \notin Pending
      BY <2>2 DEF ApprovalInv, GoodRecord, Pending
    <3> QED
      BY <2>1, <3>1 DEF NeverPendingAgain, ReviewFirst
  <2>3. CASE ~(label = "write" /\ next = "acting")
    <3>1. \A g \in Handler : Consuming(g)' => Consuming(g)
      BY <1>0, <2>3 DEF Consuming
    <3> QED
      BY <2>1, <3>1 DEF NeverPendingAgain
  <2> QED
    BY <2>2, <2>3
<1>3. LaterLives'
  BY <1>0 DEF LaterLives
<1>4. NoReplayAfterRestart'
  BY DEF NoReplayAfterRestart
<1> QED
  BY <1>1, <1>2, <1>3, <1>4 DEF Replays

(* A handler that writes what it prepared.                                  *)
LEMMA WriteReplays ==
    ASSUME ReplayInv, NEW h \in Handler, Writing(h), up,
           NEW next, next = (IF pc[h] = "write" THEN after[h] ELSE "done"),
           record' = todo[h], pc' = [pc EXCEPT ![h] = next],
           UNCHANGED <<todo, after, began, crashes, up>>
    PROVE  Replays'
<1> USE DEF ReplayInv, Settled
<1>0. /\ pc \in [Handler -> Label] /\ todo \in [Handler -> Record]
      /\ after \in [Handler -> Label] /\ next \in {"done", "store", "acting"}
  BY DEF ApprovalInv, TypeOK, WriteTargets
<1>1. KindOf[h] = "review" => next = "done"
  BY DEF ReviewFirst
<1>2. \A r \in Handler : Reviewing(r)' => Reviewing(r) /\ r # h
  BY <1>0, <1>1 DEF Reviewing, Writing
<1>3. ReviewFirst'
  <2>1. /\ \A g \in Handler : pc'[g] = "reviewed" => KindOf[g] = "review"
        /\ \A g \in Handler : KindOf[g] = "review" =>
             /\ pc'[g] \in ReviewLabel
             /\ pc'[g] = "write" => after'[g] = "done"
    BY <1>0, <1>1 DEF ReviewFirst, ReviewLabel
  <2>2. \A g \in Handler : Writing(g)' => Writing(g)
    BY <1>0 DEF Writing
  <2>3. \A r \in Handler : Reviewing(r)' => ~record'.reviewed
    BY <1>2 DEF ReviewFirst
  <2> QED
    BY <1>2, <2>1, <2>2, <2>3 DEF ReviewFirst
<1>4. NeverPendingAgain'
  <2>1. \A g \in Handler : Consuming(g)' => Consuming(g)
    BY <1>0 DEF Consuming, Writing
  <2>2. todo[h].status \in Pending => Reviewing(h)
    BY DEF ReviewFirst, Reviewing, Writing
  <2> QED
    BY <1>2, <2>1, <2>2 DEF NeverPendingAgain
<1>5. LaterLives'
  BY <1>0 DEF LaterLives
<1>6. NoReplayAfterRestart'
  BY DEF NoReplayAfterRestart
<1> QED
  BY <1>3, <1>4, <1>5, <1>6 DEF Replays

LEMMA RecoveredStatus ==
    ASSUME NEW rec \in Record
    PROVE  /\ Recovered(rec).reviewed = rec.reviewed
           /\ Recovered(rec).status \in Pending => Recovered(rec) = rec
           /\ rec.status \notin Pending => Recovered(rec).status \in Terminal
           /\ Recovered(rec) # rec => rec.status \notin Terminal
<1>1. ASSUME NEW s \in {"cancelled", "failed"}
      PROVE  /\ Invalidate(rec, s).status = s
             /\ Invalidate(rec, s).reviewed = rec.reviewed
  BY DEF Invalidate, Record
<1> QED
  BY <1>1 DEF Recovered, Record, Status, Cancellable, Pending, Terminal

LEMMA ReplayStep ==
    ASSUME SingleReview, ReplayInv, [Next]_vars
    PROVE  ReplayInv'
<1>a. ApprovalInv /\ ApprovalInv'
  BY ApprovalStep DEF ReplayInv
<1>b. /\ record \in Record /\ pc \in [Handler -> Label] /\ todo \in [Handler -> Record]
      /\ after \in [Handler -> Label] /\ crashes \in Nat /\ began \subseteq (Handler \X Nat)
  BY <1>a DEF ApprovalInv, TypeOK
<1>c. ASSUME NEW h \in Handler, pc[h] \notin ReviewLabel PROVE KindOf[h] # "review"
  BY <1>c DEF ReplayInv, ReviewFirst
<1> SUFFICES Replays'
  BY <1>a DEF ReplayInv, Replays
<1>1. ASSUME NEW h \in Handler, Begin(h) PROVE Replays'
  BY <1>1, GotoReplays DEF Begin, First, Label, ReviewLabel, Settled, world, replay
<1>2. ASSUME NEW h \in Handler, Write(h) PROVE Replays'
  BY <1>2, WriteReplays DEF Write, Writing, world, replay
<1>3. ASSUME NEW h \in Handler, CancelRead(h) PROVE Replays'
  <2>1. CASE record.status \notin Cancellable
    BY <1>3, <2>1, GotoReplays DEF CancelRead, Label, ReviewLabel, Settled, world, replay
  <2>2. CASE record.status \in Cancellable
    <3> DEFINE rec == Invalidate(record, "cancelled")
    <3>1. rec.status = "cancelled" /\ rec.reviewed = record.reviewed
      BY <1>b DEF Invalidate, Record
    <3>2. /\ pc' = [pc EXCEPT ![h] = "cancelWrite"] /\ todo' = [todo EXCEPT ![h] = rec]
          /\ after' = [after EXCEPT ![h] = after[h]]
          /\ UNCHANGED <<record, began, crashes, up>> /\ up
      BY <1>3, <2>2, <1>b DEF CancelRead, world, replay
    <3> HIDE DEF rec
    <3> QED
      BY <1>3, <2>2, <3>1, <3>2, PrepareReplays
         DEF CancelRead, Settled, Cancellable, Pending, Terminal
  <2> QED
    BY <2>1, <2>2
<1>4. ASSUME NEW h \in Handler, CancelWrite(h) PROVE Replays'
  BY <1>4, WriteReplays DEF CancelWrite, Goto, Writing, world, replay
<1>5. ASSUME NEW h \in Handler, Validate(h) PROVE Replays'
  BY <1>5, GotoReplays DEF Validate, Label, ReviewLabel, Settled, world, replay
<1>6. ASSUME NEW h \in Handler, RecordRiskReview(h) PROVE Replays'
  <2>1. CASE record.status # "pending_risk_review"
    BY <1>6, <2>1, GotoReplays DEF RecordRiskReview, Label, ReviewLabel, Settled, world, replay
  <2>2. CASE record.status = "pending_risk_review"
    <3>1. PICK rec : Update(h, rec, "done")
      BY <1>6, <2>2 DEF RecordRiskReview
    <3>2. KindOf[h] = "review"
      BY <1>6 DEF RecordRiskReview, ReplayInv, ReviewFirst
    <3> QED
      BY <1>6, <2>2, <3>1, <3>2, PrepareReplays
         DEF RecordRiskReview, Update, Settled, Terminal, world, replay
  <2> QED
    BY <2>1, <2>2
<1>7. ASSUME NEW h \in Handler, ApproveByUser(h) PROVE Replays'
  <2> USE <1>7 DEF ApproveByUser
  <2>1. CASE Goto(h, "done")
    BY <2>1, GotoReplays DEF Label, ReviewLabel, Settled, world, replay
  <2>2. ASSUME record.status = "pending_user", NEW rec, NEW next \in {"done", "store"},
               rec.reviewed = record.reviewed, rec.status \in {"expired", "approved"},
               Update(h, rec, next)
        PROVE  Replays'
    <3>1. KindOf[h] # "review"
      BY <1>c DEF ReviewLabel
    <3> QED
      BY <2>2, <3>1, PrepareReplays DEF Update, Settled, Pending, Terminal, world, replay
  <2> DEFINE expired == [record EXCEPT !.status = "expired"]
             approved == [record EXCEPT !.status = "approved", !.user = TRUE, !.nonce = h,
                             !.binding = h, !.attempts = 0,
                             !.expires = Minimum(now + TokenLife, PlanExpiry)]
  <2>3. /\ expired.reviewed = record.reviewed /\ expired.status = "expired"
        /\ approved.reviewed = record.reviewed /\ approved.status = "approved"
    BY <1>b DEF Record
  <2>4. \/ Goto(h, "done")
        \/ record.status = "pending_user" /\ Update(h, expired, "done")
        \/ record.status = "pending_user" /\ Update(h, approved, "store")
    OBVIOUS
  <2> HIDE DEF expired, approved
  <2> QED
    BY <2>1, <2>2, <2>3, <2>4
<1>8. ASSUME NEW h \in Handler, StoreToken(h) PROVE Replays'
  BY <1>8, GotoReplays DEF StoreToken, Label, ReviewLabel, Settled, world, replay
<1>9. ASSUME NEW h \in Handler, ClaimToken(h) PROVE Replays'
  BY <1>9, GotoReplays DEF ClaimToken, Label, ReviewLabel, Settled, world, replay
<1>10. ASSUME NEW h \in Handler, ConfirmIdentity(h) PROVE Replays'
  BY <1>10, <1>c, GotoReplays DEF ConfirmIdentity, Label, ReviewLabel, Settled, world, replay
<1>11. ASSUME NEW h \in Handler, Consume(h) PROVE Replays'
  <2>1. KindOf[h] # "review"
    BY <1>11, <1>c DEF Consume, ReviewLabel
  <2>2. CASE Goto(h, "done")
    BY <1>11, <2>2, GotoReplays DEF Consume, Label, ReviewLabel, Settled, world, replay
  <2>3. ASSUME record.status = "approved", NEW rec, NEW next \in {"done", "acting"},
               rec.reviewed = record.reviewed, rec.status \notin Pending,
               Update(h, rec, next)
        PROVE  Replays'
    BY <1>11, <2>1, <2>3, PrepareReplays DEF Consume, Update, Settled, Terminal, world, replay
  <2>4. ASSUME NEW s \in {"cancelled", "failed"}
        PROVE  /\ Invalidate(record, s).status = s
               /\ Invalidate(record, s).reviewed = record.reviewed
    BY <1>b DEF Invalidate, Record
  <2> DEFINE spent == [record EXCEPT !.nonce = NoToken, !.attempts = @ + 1]
             expired == [spent EXCEPT !.status = "expired"]
             executing == [spent EXCEPT !.status = "executing"]
  <2>5. /\ expired.status = "expired" /\ expired.reviewed = record.reviewed
        /\ executing.status = "executing" /\ executing.reviewed = record.reviewed
    BY <1>b DEF Record
  <2>6. \/ Goto(h, "done")
        \/ /\ record.status = "approved"
           /\ \/ \E s \in {"cancelled", "failed"} : Update(h, Invalidate(record, s), "done")
              \/ Update(h, expired, "done") \/ Update(h, executing, "acting")
    BY <1>11 DEF Consume
  <2> HIDE DEF expired, executing
  <2> QED
    BY <2>2, <2>3, <2>4, <2>5, <2>6 DEF Pending
<1>12. ASSUME NEW h \in Handler, ClaimMutation(h) PROVE Replays'
  <2> USE <1>12, <1>b DEF ClaimMutation, Goto, ReplayInv
  <2>1. \A m \in began : m[2] = crashes
    BY DEF LaterLives
  <2>2. ReviewFirst'
    BY DEF ReviewFirst, ReviewLabel, Reviewing, Settled, Writing
  <2>3. NeverPendingAgain'
    BY DEF NeverPendingAgain, Reviewing, Settled, Consuming
  <2>4. \A m \in began' : m[2] = crashes
    BY <2>1
  <2> QED
    BY <2>2, <2>3, <2>4 DEF Replays, LaterLives, NoReplayAfterRestart
<1>18. ASSUME NEW h \in Handler, ClaimFile(h) \/ Act(h) PROVE Replays'
  <2>1. KindOf[h] # "review"
    BY <1>18, <1>c DEF ClaimFile, Act, ReviewLabel
  <2> QED
    BY <1>18, <2>1, GotoReplays DEF ClaimFile, Act, Label, Settled
<1>13. ASSUME NEW h \in Handler, Finish(h) PROVE Replays'
  <2>1. KindOf[h] # "review"
    BY <1>13, <1>c DEF Finish, ReviewLabel
  <2>2. CASE record.status # "executing"
    BY <1>13, <2>1, <2>2, GotoReplays DEF Finish, Label, ReviewLabel, Settled, world, replay
  <2>3. CASE record.status = "executing"
    <3> DEFINE rec == [record EXCEPT !.status = IF pc[h] = "succeeded"
                                                THEN "executed" ELSE "failed"]
    <3>1. rec.status \in {"executed", "failed"} /\ rec.reviewed = record.reviewed
      BY <1>b DEF Record
    <3>2. Update(h, rec, "done")
      BY <1>13, <2>3 DEF Finish
    <3> HIDE DEF rec
    <3> QED
      BY <1>13, <2>1, <2>3, <3>1, <3>2, PrepareReplays
         DEF Finish, Update, Settled, Pending, Terminal, world, replay
  <2> QED
    BY <2>2, <2>3
<1>14. ASSUME NEW h \in Handler, RecoverInterrupted(h) PROVE Replays'
  <2>1. CASE Recovered(record) = record
    BY <1>14, <2>1, GotoReplays DEF RecoverInterrupted, Label, ReviewLabel, Settled, world, replay
  <2>2. CASE Recovered(record) # record
    <3>1. KindOf[h] # "review"
      BY <1>14, <1>c DEF RecoverInterrupted, ReviewLabel
    <3>2. /\ Recovered(record).status \notin Pending /\ record.status \notin Terminal
          /\ Recovered(record).reviewed = record.reviewed
      BY <1>b, <2>2, RecoveredStatus
    <3> QED
      BY <1>14, <2>2, <3>1, <3>2, PrepareReplays
         DEF RecoverInterrupted, Update, Settled, world, replay
  <2> QED
    BY <2>1, <2>2
(* What began in this life belongs to an earlier one from now on.           *)
<1>15. CASE Crash
  <2> USE <1>15, <1>b DEF Crash, ReplayInv
  <2>1. \A h \in Handler : Reviewing(h)' => Reviewing(h)
    BY DEF Reviewing, Settled
  <2>2. \A h \in Handler : pc'[h] \in {"idle", "lost"} /\ ~Writing(h)' /\ ~Consuming(h)'
    BY DEF Writing, Consuming
  <2>3. ReviewFirst'
    BY <2>1, <2>2 DEF ReviewFirst, ReviewLabel, Writing
  <2>4. NeverPendingAgain'
    BY <2>1, <2>2 DEF NeverPendingAgain
  <2>5. LaterLives'
    BY <2>2 DEF LaterLives
  <2> QED
    BY <2>3, <2>4, <2>5 DEF Replays, NoReplayAfterRestart
(* Recovery makes what was not pending terminal.                            *)
<1>16. CASE Restart
  <2> USE <1>16, <1>b DEF Restart, ReplayInv, replay
  <2>1. \A h \in Handler : pc[h] \in {"idle", "lost"} /\ ~Writing(h) /\ ~Consuming(h)
    BY DEF LaterLives, Writing, Consuming
  <2>2. /\ record'.reviewed = record.reviewed
        /\ record'.status \in Pending => record' = record
        /\ record.status \notin Pending => record'.status \in Terminal
    BY RecoveredStatus
  <2>3. ReviewFirst'
    BY <2>1, <2>2 DEF ReviewFirst, Reviewing, Settled, Writing
  <2>4. NeverPendingAgain'
    BY <2>1, <2>2 DEF NeverPendingAgain, Reviewing, Settled, Consuming, Pending
  <2>5. LaterLives'
    BY <2>1, <2>2 DEF LaterLives, NeverPendingAgain, Writing
  <2> QED
    BY <2>3, <2>4, <2>5 DEF Replays, NoReplayAfterRestart
<1>17. CASE FactsGoStale \/ Tick \/ UNCHANGED vars
  <2>1. UNCHANGED <<record, pc, todo, after, crashes, up, began>>
    BY <1>17 DEF FactsGoStale, Tick, vars, replay
  <2> QED
    BY <2>1 DEF Replays, ReplayInv, ReviewFirst, NeverPendingAgain, LaterLives,
                NoReplayAfterRestart, Reviewing, Settled, Writing, Consuming
<1> QED
  BY <1>1, <1>2, <1>3, <1>4, <1>5, <1>6, <1>7, <1>8, <1>9, <1>10, <1>11, <1>12,
     <1>13, <1>14, <1>15, <1>16, <1>17, <1>18 DEF Next, Step

(* With one risk review, an approval that was consumed before a crash is     *)
(* never consumed again by a later daemon.                                  *)
THEOREM ApprovalNoReplay ==
    ASSUME SingleReview
    PROVE  Spec => []NoReplayAfterRestart
<1>1. ReplayInv /\ [Next]_vars => ReplayInv'
  BY ReplayStep
<1>2. ReplayInv => NoReplayAfterRestart
  BY DEF ReplayInv
<1> QED
  BY <1>1, <1>2, InitReplay, PTL DEF Spec
=============================================================================
