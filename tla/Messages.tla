--------------------------- MODULE Messages ---------------------------
(***************************************************************************)
(* A message and what its run does: the run with stop, disconnection,      *)
(* deletion and crash; the investigation that the run makes, with the      *)
(* facts and the approvals that rest on them; the reading of a table,      *)
(* which the facts come from; the window of the person who sends it; and   *)
(* the checkpoints of the repository the run works in. A behaviour picks   *)
(* one of them and the others stay as they start.                          *)
(***************************************************************************)
EXTENDS ConversationRun

CONSTANTS
  Tasks, Past, Guards, Approvals,                  \* of Evidence
  MaxFacts, MaxActs, MaxBrowserChanges, MaxLapses,
  Data, TotalRow, Values, MaxPages, Retries,       \* of TableReader
  MaxTableChanges,
  Clients, Planned, First, Sessions, ClientOf, Old, Nobody, \* of DesktopApp
  MaxClicks, MaxWrites, MaxRev,
  Paths, Contents, NoFile, Unmarked, NewDirs,      \* of GitCheckpoints
  FirstTrees, MaxEdits, MaxRestores

VARIABLE part \* the module under check, chosen once and for all

VARIABLES
  ledger, due, page, phase, pc, inherit, stop, tool, created, approval, request, acts,
  factsChanges, lapses
VARIABLES
  at, wanted, pageNo, tries, tableShown, more, cell, blocker, fact, review, matched,
  answers, tableChanges
VARIABLES
  selected, windowSession, bootstrapped, loading, loads, asks, windowShown, plan,
  sidebar, source, windowQueue, timer, run, posts, opening, settings, hosted, store,
  written, clicks
VARIABLES
  head, base, index, work, making, checkpoint, restoring, edits, restores

Facts == INSTANCE Evidence WITH
  MaxChanges <- MaxBrowserChanges, changes <- factsChanges

Table == INSTANCE TableReader WITH
  MaxChanges <- MaxTableChanges, shown <- tableShown, changes <- tableChanges

Window == INSTANCE DesktopApp WITH
  session <- windowSession, shown <- windowShown, queue <- windowQueue

Repo == INSTANCE GitCheckpoints WITH
  Absent <- NoFile

FactsVars == <<ledger, due, page, phase, pc, inherit, stop, tool, created, approval, request,
    acts, factsChanges, lapses>>
TableVars == <<at, wanted, pageNo, tries, tableShown, more, cell, blocker, fact, review, matched,
    answers, tableChanges>>
WindowVars == <<selected, windowSession, bootstrapped, loading, loads, asks, windowShown, plan,
    sidebar, source, windowQueue, timer, run, posts, opening, settings, hosted, store,
    written, clicks>>
RepoVars == <<head, base, index, work, making, checkpoint, restoring, edits, restores>>

MessagesInit ==
  /\ part \in {"message", "facts", "table", "window", "repository"}
  /\ Init /\ Facts!Init /\ Table!Init /\ Window!Init /\ Repo!Init

\* One part moves, the others keep their first state.
MessagesNext ==
  /\ UNCHANGED part
  /\ IF part = "message" THEN Next ELSE UNCHANGED vars
  /\ IF part = "facts" THEN Facts!Next ELSE UNCHANGED FactsVars
  /\ IF part = "table" THEN Table!Next ELSE UNCHANGED TableVars
  /\ IF part = "window" THEN Window!Next ELSE UNCHANGED WindowVars
  /\ IF part = "repository" THEN Repo!Next ELSE UNCHANGED RepoVars

MessagesVars == <<part, vars, FactsVars, TableVars, WindowVars, RepoVars>>

ASSUME MessagesAssumption ==
  /\ Facts!EvidenceAssumption /\ Table!ReaderAssumption /\ Window!DesktopAssumption
  /\ Repo!GitAssumption

MessagesSpec == MessagesInit /\ [][MessagesNext]_MessagesVars

-----------------------------------------------------------------------------
\* The properties of the parts, named where the configuration can reach them.

\* What an investigation rests on: facts that were seen and are not brought back,
\* approvals whose pages have not changed since, and tables that are answered whole
\* or not at all.
EvidenceHolds == Facts!EvidenceHolds /\ [][Table!TableHolds']_MessagesVars

\* The window shows what is selected, and late answers neither move it nor mix messages.
ScreenHolds == Window!ScreenHolds

\* A restore brings back exactly what the checkpoint found.
CheckpointsHold == Repo!CheckpointsHold
=============================================================================
