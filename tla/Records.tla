--------------------------- MODULE Records ---------------------------
(***************************************************************************)
(* The files of sessions: one session record, the legacy mapping under     *)
(* damage, the sessions around the legacy import, the two transcripts of a *)
(* conversation, and the tasks of its goal. They share no state: a         *)
(* behaviour picks one of them and the others stay as they start.          *)
(***************************************************************************)
EXTENDS SessionRecords

CONSTANTS
  MappingCalls, MappingKindOf, MappingEntries,       \* of the legacy mapping
  MappingEntryOf, MaxMappingDamages, MaxMappingFaults, MaxMappingCrashes,
  TreeRuns, MaxForks, MaxTreeCrashes,                \* of Transcripts
  Conversations, SessionIds, NoId, Migrations,       \* of LegacySessions
  MaxRevision, MaxSessionCrashes,
  Agents, Requests, OpsOf, MaxTasks, MaxPlanFaults   \* of TaskGraph

VARIABLE part \* the module under check, chosen once and for all

VARIABLES
  indexPrimary, indexBackup, indexMarker, indexQueue, indexGate, indexPc, indexMem,
  indexDamages, indexFaults, indexCrashes, indexCreated, indexPurged, indexAcked,
  indexSafe
VARIABLES
  file, torn, treesLog, lock, run, handler, fork, ids, forks, treesCrashes
VARIABLES
  legacyLog, session, mapping, migration, purge, copy, drawn, gone, up, legacyCrashes
VARIABLES
  tasks, planPc, call, left, seen, made, did, told, planFaults

Index == INSTANCE SessionRecords WITH
  Caller <- MappingCalls, KindOf <- MappingKindOf, Entry <- MappingEntries,
  EntryOf <- MappingEntryOf, Mapping <- TRUE, MaxDamages <- MaxMappingDamages,
  MaxFaults <- MaxMappingFaults, MaxCrashes <- MaxMappingCrashes,
  primary <- indexPrimary, backup <- indexBackup, marker <- indexMarker,
  queue <- indexQueue, gate <- indexGate, pc <- indexPc, mem <- indexMem,
  damages <- indexDamages, faults <- indexFaults, crashes <- indexCrashes,
  created <- indexCreated, purged <- indexPurged, acked <- indexAcked,
  safe <- indexSafe

Trees == INSTANCE Transcripts WITH
  Runs <- TreeRuns, MaxCrashes <- MaxTreeCrashes, log <- treesLog,
  crashes <- treesCrashes

Legacy == INSTANCE LegacySessions WITH
  Ids <- SessionIds, MaxCrashes <- MaxSessionCrashes, log <- legacyLog,
  crashes <- legacyCrashes

Plan == INSTANCE TaskGraph WITH
  MaxFaults <- MaxPlanFaults, pc <- planPc, faults <- planFaults

IndexVars == <<indexPrimary, indexBackup, indexMarker, indexQueue, indexGate, indexPc, indexMem,
    indexDamages, indexFaults, indexCrashes, indexCreated, indexPurged, indexAcked,
    indexSafe>>
TreesVars == <<file, torn, treesLog, lock, run, handler, fork, ids, forks, treesCrashes>>
LegacyVars == <<legacyLog, session, mapping, migration, purge, copy, drawn, gone, up,
    legacyCrashes>>
PlanVars == <<tasks, planPc, call, left, seen, made, did, told, planFaults>>

RecordsInit ==
  /\ part \in {"record", "mapping", "trees", "legacy", "plan"}
  /\ Init /\ Index!Init /\ Trees!Init /\ Legacy!Init /\ Plan!Init

\* One part moves, the others keep their first state.
RecordsNext ==
  /\ UNCHANGED part
  /\ IF part = "record" THEN Next ELSE UNCHANGED vars
  /\ IF part = "mapping" THEN Index!Next ELSE UNCHANGED IndexVars
  /\ IF part = "trees" THEN Trees!Next ELSE UNCHANGED TreesVars
  /\ IF part = "legacy" THEN Legacy!Next ELSE UNCHANGED LegacyVars
  /\ IF part = "plan" THEN Plan!Next ELSE UNCHANGED PlanVars

RecordsVars == <<part, vars, IndexVars, TreesVars, LegacyVars, PlanVars>>

ASSUME RecordsAssumption ==
  /\ Index!RecordAssumption /\ Trees!TreesAssumption /\ Legacy!SessionsAssumption
  /\ Plan!PlanAssumption

RecordsSpec == RecordsInit /\ [][RecordsNext]_RecordsVars

-----------------------------------------------------------------------------
\* The properties of the parts, named where the configuration can reach them.

\* The legacy mapping keeps its tombstones and acknowledged entries; the tasks of a
\* goal can be done in an order, and each call of an agent is on record.
MappingAndPlanHold == Index!TombstoneKept /\ Index!AckedSurvive /\ Plan!PlanHolds

\* A conversation is neither doubled by the import, brought back nor destroyed, and
\* what the model sees and what the user sees of it agree, in itself and in a fork.
ConversationsKept == [][Trees!TranscriptsHold']_RecordsVars /\ Legacy!SessionsKept
=============================================================================
