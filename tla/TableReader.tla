---------------------------- MODULE TableReader ----------------------------
(***************************************************************************)
(* VisualTableReader.read: one table read from screenshots by a model,     *)
(* page after page under scrolling, then reviewed by a second model. What  *)
(* the models answer is arbitrary; what the reader does with it is not.    *)
(*                                                                         *)
(* One critical column. A row keeps its kind (data or total) on all pages, *)
(* and a value is a small number: the tolerance of a comparison, units and *)
(* boxes are left out. Images, privacy masks and evidence files too.       *)
(***************************************************************************)
EXTENDS Integers, FiniteSets, FiniteSetsExt

CONSTANTS
  Data,       \* data rows
  TotalRow,
  Values,
  MaxPages, Retries,
  MaxChanges  \* bound: changes of the page behind the reader's back

Rows == Data \cup {TotalRow}
None == [value |-> 0, sure |-> FALSE]

\* What the constants have to be; the module of the run assumes it.
ReaderAssumption == TotalRow \notin Data /\ 0 \notin Values

VARIABLES
  at,       \* where read is
  wanted,   \* targetRows; empty: every row
  pageNo, tries,
  shown,    \* the rows of this page that are still to be merged
  more,     \* hasMore of this page
  cell,     \* cellMap
  blocker,
  fact,     \* the recorded fact of each row
  review,   \* the rows whose cells are still to be reviewed
  matched,  \* the rows that the second model confirmed
  answers,  \* every value that a page showed for a row
  changes

vars == <<at, wanted, pageNo, tries, shown, more, cell, blocker, fact, review, matched, answers, changes>>

Init ==
  /\ at = "request" /\ wanted = {} /\ pageNo = 0 /\ tries = 0 /\ shown = {} /\ more = FALSE
  /\ cell = [r \in Rows |-> None] /\ blocker = "none"
  /\ fact = [r \in Data |-> "none"] /\ review = {} /\ matched = {}
  /\ answers = [r \in Rows |-> {}] /\ changes = 0

Read == {r \in Rows : cell[r] # None}

-----------------------------------------------------------------------------
(* The pages                                                               *)

Blocked(code) == at' = "record" /\ blocker' = code

Request ==
  /\ at = "request" /\ at' = "page" /\ wanted' \in SUBSET Rows
  /\ UNCHANGED <<pageNo, tries, shown, more, cell, blocker, fact, review, matched, answers, changes>>

\* The image, the model or its answer is unusable, or the page is an error.
PageFails ==
  /\ at = "page" /\ Blocked("TABLE_MODEL_ERROR")
  /\ UNCHANGED <<wanted, pageNo, tries, shown, more, cell, fact, review, matched, answers, changes>>

\* A page that still loads is captured again and does not count.
PageLoads ==
  /\ at = "page"
  /\ IF tries < Retries THEN tries' = tries + 1 /\ UNCHANGED <<at, blocker>>
                        ELSE Blocked("TABLE_LOADING") /\ UNCHANGED tries
  /\ UNCHANGED <<wanted, pageNo, shown, more, cell, fact, review, matched, answers, changes>>

\* The column's header must be on the page and certain.
HeaderFails ==
  /\ at = "page" /\ \E code \in {"MISSING_TABLE_HEADER", "UNRELIABLE_VISUAL_VALUE"} : Blocked(code)
  /\ tries' = 0
  /\ UNCHANGED <<wanted, pageNo, shown, more, cell, fact, review, matched, answers, changes>>

\* Rows that nobody asked for are skipped.
PageReady ==
  /\ at = "page" /\ at' = "rows" /\ tries' = 0
  /\ \E S \in SUBSET (IF wanted = {} THEN Rows ELSE wanted), m \in BOOLEAN :
       \E v \in [S -> Values], c \in [S -> BOOLEAN] :
         /\ shown' = {[row |-> r, value |-> v[r], sure |-> c[r]] : r \in S}
         /\ more' = m
  /\ UNCHANGED <<wanted, pageNo, cell, blocker, fact, review, matched, answers, changes>>

\* A label that was cut, a cell without or beside its header.
RowFails ==
  /\ at = "rows" /\ shown # {} /\ shown' = {}
  /\ \E code \in {"TRUNCATED_ROW_IDENTITY", "TABLE_MODEL_ERROR"} : Blocked(code)
  /\ UNCHANGED <<wanted, pageNo, tries, more, cell, fact, review, matched, answers, changes>>

MutConflicting(old, new) == FALSE
Conflicting(old, new) == old # None /\ old.value # new.value

\* Two pages overlap: they must agree, and the more certain reading stays.
MergeRow ==
  /\ at = "rows"
  /\ \E x \in shown :
       LET new == [value |-> x.value, sure |-> x.sure]
           old == cell[x.row]
       IN
       /\ answers' = [answers EXCEPT ![x.row] = @ \cup {x.value}]
       /\ IF Conflicting(old, new)
            THEN Blocked("CONFLICTING_OVERLAP_VALUE") /\ shown' = {} /\ UNCHANGED cell
            ELSE /\ cell' = [cell EXCEPT ![x.row] = IF old = None \/ (new.sure /\ ~old.sure)
                                                      THEN new ELSE old]
                 /\ shown' = shown \ {x} /\ UNCHANGED <<at, blocker>>
  /\ UNCHANGED <<wanted, pageNo, tries, more, fact, review, matched, changes>>

\* Scrolling ends before the table does, or reaches the next page; the last page
\* allowed blocks when there is more. An exception ends the read without a result.
NextPage ==
  /\ at = "rows" /\ shown = {}
  /\ \/ ~more /\ at' = "check" /\ UNCHANGED <<pageNo, blocker>>
     \/ more /\ Blocked("INCOMPLETE_TABLE") /\ UNCHANGED pageNo
     \/ more /\ pageNo + 1 < MaxPages /\ at' = "page" /\ pageNo' = pageNo + 1 /\ UNCHANGED blocker
     \/ more /\ at' = "thrown" /\ UNCHANGED <<pageNo, blocker>>
  /\ UNCHANGED <<wanted, tries, shown, more, cell, fact, review, matched, answers, changes>>

-----------------------------------------------------------------------------
(* The checks and the records                                              *)

Summed(c, S) == MapThenSumSet(LAMBDA r : c[r].value, S)
Sum(S) == Summed(cell, S)

MutMissing == Read = {}
\* validateRequiredCells: nothing was read, or a wanted row was not.
Missing == Read = {} \/ ~(wanted \subseteq Read)

Unsure == \E r \in Read : ~cell[r].sure

MutTotalsAgree == TRUE
\* validateTotals: the total of what was read, when both were.
TotalsAgree == TotalRow \in Read /\ Read \cap Data # {} => Sum(Read \cap Data) = cell[TotalRow].value

Check ==
  /\ at = "check" /\ at' = "record"
  /\ blocker' = IF Unsure \/ Missing THEN "UNRELIABLE_VISUAL_VALUE"
                ELSE IF ~TotalsAgree THEN "TOTAL_MISMATCH" ELSE "none"
  /\ UNCHANGED <<wanted, pageNo, tries, shown, more, cell, fact, review, matched, answers, changes>>

\* Every data cell becomes an observed fact, one write after another, whatever
\* blocks the read.
Unrecorded == {r \in Read \cap Data : fact[r] = "none"}

Record ==
  /\ at = "record" /\ Unrecorded # {}
  /\ \E r \in Unrecorded : fact' = [fact EXCEPT ![r] = "observed"]
  /\ UNCHANGED <<at, wanted, pageNo, tries, shown, more, cell, blocker, review, matched, answers, changes>>

MutReviewed == Read # {}
\* Only a read that nothing blocks is reviewed.
Reviewed == blocker = "none" /\ Read # {}

\* The second model fails, or says which cells it finds on the screenshots.
AskReview ==
  /\ at = "record" /\ Unrecorded = {}
  /\ IF Reviewed
       THEN \/ at' = "ended" /\ blocker' = "VERIFICATION_FAILED" /\ UNCHANGED <<review, matched>>
            \/ /\ \E S \in SUBSET Read : matched' = S
               /\ at' = "review" /\ review' = Read /\ UNCHANGED blocker
       ELSE at' = "ended" /\ UNCHANGED <<blocker, review, matched>>
  /\ UNCHANGED <<wanted, pageNo, tries, shown, more, cell, fact, answers, changes>>

\* verify throws for a fact that went stale meanwhile; reject does not.
ReviewCell ==
  /\ at = "review"
  /\ \E r \in review :
       /\ review' = review \ {r}
       /\ IF r \notin Data THEN UNCHANGED <<at, fact>>
          ELSE IF r \notin matched THEN fact' = [fact EXCEPT ![r] = "rejected"] /\ UNCHANGED at
          ELSE IF fact[r] = "observed" THEN fact' = [fact EXCEPT ![r] = "verified"] /\ UNCHANGED at
          ELSE at' = "thrown" /\ UNCHANGED fact
  /\ UNCHANGED <<wanted, pageNo, tries, shown, more, cell, blocker, matched, answers, changes>>

MutUnconfirmed == Data \cap Read \subseteq matched
\* A critical cell that was not confirmed blocks the read after all.
Unconfirmed == ~(Read \subseteq matched)

Answer ==
  /\ at = "review" /\ review = {} /\ at' = "ended"
  /\ blocker' = IF Unconfirmed THEN "UNRELIABLE_VISUAL_VALUE" ELSE "none"
  /\ UNCHANGED <<wanted, pageNo, tries, shown, more, cell, fact, review, matched, answers, changes>>

\* invalidateVisualEvidence: a visual action of the task or a change of the browser.
PageChanges ==
  /\ changes < MaxChanges /\ changes' = changes + 1
  /\ \E r \in Data : fact[r] \in {"observed", "verified"}
  /\ fact' = [r \in Data |-> IF fact[r] \in {"observed", "verified"} THEN "stale" ELSE fact[r]]
  /\ UNCHANGED <<at, wanted, pageNo, tries, shown, more, cell, blocker, review, matched, answers>>

Next ==
  \/ Request \/ PageFails \/ PageLoads \/ HeaderFails \/ PageReady \/ RowFails \/ MergeRow \/ NextPage
  \/ Check \/ Record \/ AskReview \/ ReviewCell \/ Answer \/ PageChanges

Spec == Init /\ [][Next]_vars

-----------------------------------------------------------------------------
(* Properties                                                              *)

\* A verified fact is a value that every page showing its row agreed on, and one
\* that both models were certain of.
VerifiedIsAgreed ==
  \A r \in Data : fact[r] = "verified" => answers[r] = {cell[r].value} /\ cell[r].sure /\ r \in matched

\* "done" means the whole table: every wanted row, confirmed by both models, and
\* sums that add up. Nothing of it was dropped on the way, whatever went stale.
DoneIsWhole ==
  at = "ended" /\ blocker = "none" =>
    /\ wanted \subseteq Read /\ Read # {} /\ Read \subseteq matched /\ ~more
    /\ \A r \in Read \cap Data : fact[r] \in {"verified", "stale"}
    /\ TotalRow \in Read /\ Read \cap Data # {} => Sum(Read \cap Data) = cell[TotalRow].value

TableHolds == VerifiedIsAgreed /\ DoneIsWhole

\* Not so: a read that is answered as blocked leaves no fact that production may
\* use. The cells that were confirmed stay verified when another one was not.
BlockedLeavesNothing ==
  at = "ended" /\ blocker # "none" => \A r \in Data : fact[r] # "verified"

-----------------------------------------------------------------------------
(* Types, and what is known on the way                                     *)

TypeOK ==
  /\ at \in {"request", "page", "rows", "check", "record", "review", "ended", "thrown"}
  /\ wanted \subseteq Rows /\ review \subseteq Rows /\ matched \subseteq Rows
  /\ pageNo \in Nat /\ tries \in Nat /\ changes \in Nat /\ more \in BOOLEAN
  /\ shown \subseteq [row : Rows, value : Values, sure : BOOLEAN]
  /\ cell \in [Rows -> [value : Values \cup {0}, sure : BOOLEAN]]
  /\ fact \in [Data -> {"none", "observed", "verified", "rejected", "stale"}]
  /\ answers \in [Rows -> SUBSET Values]

\* Every page that was merged showed for a row what its cell holds.
Agreed == \A r \in Rows : answers[r] = IF cell[r] = None THEN {} ELSE {cell[r].value}

Checked == Agreed /\ ~more /\ ~Unsure /\ ~Missing /\ TotalsAgree

\* Nothing is recorded before the checks, nothing is verified before the review, and
\* only what passed the checks is reviewed.
ReadSoFar ==
  /\ at \in {"request", "page", "rows", "check"} => Agreed /\ \A r \in Data : fact[r] = "none"
  /\ at = "check" => ~more
  /\ at = "record" => /\ \A r \in Data : fact[r] \in {"none", "observed", "stale"}
                      /\ blocker = "none" => Checked
  /\ at = "review" =>
       /\ Checked /\ review \subseteq Read
       /\ \A r \in Read \cap Data :
            /\ r \in review => fact[r] \in {"observed", "stale"}
            /\ r \in matched \ review => fact[r] \in {"verified", "stale"}

\* The inductive invariant.
ReaderInv == TypeOK /\ ReadSoFar /\ TableHolds
=============================================================================
