--------------------------- MODULE LegacySessions ---------------------------
(***************************************************************************)
(* The sessions of one client around the import of its legacy              *)
(* conversations: migrateLegacy, edits, deletion, restoration, permanent   *)
(* purge, copies and their rollback. How a record or the mapping is kept   *)
(* in its files is SessionRecords; here each is read and written whole.    *)
(***************************************************************************)
EXTENDS Naturals

CONSTANTS
  Conversations, \* the legacy conversations the client's log may come to hold
  Ids,           \* session ids that may be drawn
  NoId,
  Migrations,    \* calls of migrateLegacy: the start, a legacy message
  MaxRevision,   \* bound on the revision of one session
  MaxCrashes     \* bound on the deaths of the daemon

SessionsAssumption ==
  NoId \notin Ids /\ "native" \notin Conversations /\ MaxRevision \in Nat \ {0} /\ MaxCrashes \in Nat

VARIABLES
  log,       \* the conversations in conversation.jsonl
  session,   \* the record of each id; its conversation, or "native"
  mapping,   \* legacy-mapping.json: id and tombstone of each conversation
  migration, \* where each migrateLegacy stands and what it has read
  purge,     \* the permanentPurge that holds the actor of an id
  copy,      \* copies without their history yet, and rollbacks of them
  drawn,     \* ids drawn so far
  gone,      \* conversations purged while no migration ran
  up,        \* the import of the start is done
  crashes

vars == <<log, session, mapping, migration, purge, copy, drawn, gone, up, crashes>>

NoSession == [state |-> "none", of |-> "native", rev |-> 0]
Unmapped == [id |-> NoId, purged |-> FALSE]
NoMigration == [pc |-> "idle", todo |-> {}, known |-> {}, conv |-> "none", id |-> NoId]
NoPurge == [pc |-> "none", rev |-> 0, alone |-> FALSE]
NoCopy == [pc |-> "none", rev |-> 0]

Init ==
  /\ log \in SUBSET Conversations
  /\ session = [id \in Ids |-> NoSession]
  /\ mapping = [c \in Conversations |-> Unmapped]
  /\ migration = [m \in Migrations |-> NoMigration]
  /\ purge = [id \in Ids |-> NoPurge]
  /\ copy = [id \in Ids |-> NoCopy]
  /\ drawn = {} /\ gone = {} /\ up = FALSE /\ crashes = 0

Exists(id) == session[id].state # "none"
Running == {m \in Migrations : migration[m].pc # "idle"}

SessionType ==
  [state : {"none", "live", "deleted"}, of : Conversations \cup {"native"}, rev : 0..MaxRevision]
MigrationType ==
  [pc : {"idle", "list", "next", "find", "look", "create", "upsert"},
   todo : SUBSET Conversations, known : SUBSET (Ids \X (Conversations \cup {"native"})),
   conv : Conversations \cup {"none"}, id : Ids \cup {NoId}]
PurgeType == [pc : {"none", "marked"}, rev : 0..MaxRevision, alone : BOOLEAN]
CopyType == [pc : {"none", "copying", "rollback"}, rev : 0..MaxRevision]

TypeOK ==
  /\ log \subseteq Conversations
  /\ session \in [Ids -> SessionType]
  /\ mapping \in [Conversations -> [id : Ids \cup {NoId}, purged : BOOLEAN]]
  /\ migration \in [Migrations -> MigrationType]
  /\ purge \in [Ids -> PurgeType] /\ copy \in [Ids -> CopyType]
  /\ drawn \subseteq Ids /\ gone \subseteq Conversations /\ up \in BOOLEAN
  /\ crashes \in 0..MaxCrashes

-----------------------------------------------------------------------------
(* migrateLegacy, one at a time behind its lock.                           *)

Goto(m, pc) == migration' = [migration EXCEPT ![m].pc = pc]
Reading == UNCHANGED <<log, session, mapping, purge, copy, drawn, gone, crashes>>

Lock(m) ==
  /\ Running = {}
  /\ Goto(m, "list")
  /\ purge' = [id \in Ids |-> [purge[id] EXCEPT !.alone = FALSE]]
  /\ UNCHANGED <<log, session, mapping, copy, drawn, gone, up, crashes>>

\* Mutant: deleted sessions are not known.
KnownLive == {<<id, session[id].of>> : id \in {i \in Ids : session[i].state = "live"}}

Known == {<<id, session[id].of>> : id \in {i \in Ids : Exists(i)}}

List(m) ==
  /\ migration[m].pc = "list"
  /\ migration' = [migration EXCEPT ![m].pc = "next", ![m].todo = log, ![m].known = Known]
  /\ Reading /\ UNCHANGED up

NextConversation(m) ==
  /\ migration[m].pc = "next"
  /\ \/ /\ migration[m].todo = {}
        /\ migration' = [migration EXCEPT ![m] = NoMigration]
        /\ up' = TRUE
     \/ /\ \E c \in migration[m].todo :
             migration' = [migration EXCEPT ![m].pc = "find", ![m].conv = c,
                                            ![m].todo = @ \ {c}]
        /\ UNCHANGED up
  /\ Reading

\* A tombstone is skipped; without a mapping the sessions listed before decide.
FindLegacyMapping(m) ==
  LET c == migration[m].conv
      same == {k \in migration[m].known : k[2] = c} IN
  /\ migration[m].pc = "find"
  /\ migration' =
       IF mapping[c].purged THEN [migration EXCEPT ![m].pc = "next"]
       ELSE IF mapping[c] # Unmapped
       THEN [migration EXCEPT ![m].pc = "look", ![m].id = mapping[c].id]
       ELSE IF same = {} THEN [migration EXCEPT ![m].pc = "create", ![m].id = NoId]
       ELSE [migration EXCEPT ![m].pc = "upsert", ![m].id = (CHOOSE k \in same : TRUE)[1]]
  /\ Reading /\ UNCHANGED up

\* A mapped session whose record is missing is created again under its id.
GetSession(m) ==
  /\ migration[m].pc = "look"
  /\ Goto(m, IF Exists(migration[m].id) THEN "next" ELSE "create")
  /\ Reading /\ UNCHANGED up

CreateLegacySession(m) ==
  LET mapped == migration[m].id IN
  /\ migration[m].pc = "create"
  /\ \E id \in IF mapped = NoId THEN Ids \ drawn ELSE {mapped} :
       /\ session' = [session EXCEPT ![id] =
                        [state |-> "live", of |-> migration[m].conv, rev |-> 1]]
       /\ drawn' = drawn \cup {id}
       /\ migration' = [migration EXCEPT ![m].id = id,
                          ![m].pc = IF mapped = NoId THEN "upsert" ELSE "next",
                          ![m].known = @ \cup {<<id, migration[m].conv>>}]
  /\ UNCHANGED <<log, mapping, purge, copy, gone, up, crashes>>

UpsertLegacyMapping(m) ==
  /\ migration[m].pc = "upsert"
  /\ mapping' = [mapping EXCEPT ![migration[m].conv] =
                   IF @ = Unmapped THEN [@ EXCEPT !.id = migration[m].id] ELSE @]
  /\ Goto(m, "next")
  /\ UNCHANGED <<log, session, purge, copy, drawn, gone, up, crashes>>

-----------------------------------------------------------------------------
(* The user. The actor of an id lets one operation at a time at its record. *)

Free(id) == up /\ Exists(id) /\ purge[id].pc = "none"
Save(id, state) ==
  /\ session[id].rev < MaxRevision
  /\ session' = [session EXCEPT ![id].state = state, ![id].rev = @ + 1]

\* A message of a conversation that has no session is logged before the import.
LogAppend(c) ==
  /\ up /\ log' = log \cup {c}
  /\ UNCHANGED <<session, mapping, migration, purge, copy, drawn, gone, up, crashes>>

\* rename, pin, setStatus and the other edits refuse a deleted session.
Mutate(id) ==
  /\ Free(id) /\ session[id].state = "live" /\ Save(id, "live")
  /\ UNCHANGED <<log, mapping, migration, purge, copy, drawn, gone, up, crashes>>

SoftDelete(id) ==
  /\ Free(id) /\ Save(id, "deleted")
  /\ UNCHANGED <<log, mapping, migration, purge, copy, drawn, gone, up, crashes>>

Restore(id) ==
  /\ Free(id) /\ Save(id, "live")
  /\ UNCHANGED <<log, mapping, migration, purge, copy, drawn, gone, up, crashes>>

\* markLegacyMappingPurged; a session without a mapping leaves no tombstone.
Marked(id) == [c \in Conversations |-> IF mapping[c].id = id
                                       THEN [mapping[c] EXCEPT !.purged = TRUE] ELSE mapping[c]]

\* Mutant: the mapping is marked after the record is gone.
BeginPurgeUnmarked(id) ==
  /\ Free(id) /\ session[id].state = "deleted"
  /\ purge' = [purge EXCEPT ![id] = [pc |-> "marked", rev |-> session[id].rev,
                                     alone |-> Running = {}]]
  /\ UNCHANGED <<log, session, mapping, migration, copy, drawn, gone, up, crashes>>

\* Only a deleted session is purged.
BeginPurge(id) ==
  /\ Free(id) /\ session[id].state = "deleted"
  /\ mapping' = IF session[id].of = "native" THEN mapping ELSE Marked(id)
  /\ purge' = [purge EXCEPT ![id] = [pc |-> "marked", rev |-> session[id].rev,
                                     alone |-> Running = {}]]
  /\ UNCHANGED <<log, session, migration, copy, drawn, gone, up, crashes>>

\* purgeSession removes the record, or fails and leaves it.
FinishPurge(id) ==
  /\ purge[id].pc = "marked"
  /\ purge' = [purge EXCEPT ![id] = NoPurge]
  /\ \/ /\ session[id].rev = purge[id].rev
        /\ session' = [session EXCEPT ![id] = NoSession]
        /\ gone' = IF purge[id].alone THEN gone \cup ({session[id].of} \ {"native"}) ELSE gone
     \/ UNCHANGED <<session, gone>>
  /\ UNCHANGED <<log, mapping, migration, copy, drawn, up, crashes>>

-----------------------------------------------------------------------------
(* duplicate and branch: a new session, then its history.                  *)

Duplicate(source, id) ==
  /\ up /\ session[source].state = "live" /\ id \notin drawn
  /\ drawn' = drawn \cup {id}
  /\ session' = [session EXCEPT ![id] = [state |-> "live", of |-> "native", rev |-> 1]]
  /\ copy' = [copy EXCEPT ![id].pc = "copying"]
  /\ UNCHANGED <<log, mapping, migration, purge, gone, up, crashes>>

HistoryCopied(id) ==
  /\ copy[id].pc = "copying"
  /\ copy' = [copy EXCEPT ![id] = NoCopy]
  /\ UNCHANGED <<log, session, mapping, migration, purge, drawn, gone, up, crashes>>

\* rollbackCreatedSession: soft-delete, then purge at the revision that gave.
RollbackDeletes(id) ==
  /\ copy[id].pc = "copying"
  /\ \/ /\ Free(id) /\ Save(id, "deleted")
        /\ copy' = [copy EXCEPT ![id] = [pc |-> "rollback", rev |-> session[id].rev + 1]]
     \/ /\ ~Exists(id)
        /\ copy' = [copy EXCEPT ![id] = NoCopy] /\ UNCHANGED session
  /\ UNCHANGED <<log, mapping, migration, purge, drawn, gone, up, crashes>>

\* Mutant: the copy is purged at whatever revision it has now.
RevisionNow(id) == session[id].state = "deleted" \/ session[id].rev > copy[id].rev

RevisionHeld(id) == session[id].state = "deleted" /\ session[id].rev = copy[id].rev

RollbackPurges(id) ==
  /\ copy[id].pc = "rollback" /\ purge[id].pc = "none"
  /\ session' = IF RevisionHeld(id) THEN [session EXCEPT ![id] = NoSession] ELSE session
  /\ copy' = [copy EXCEPT ![id] = NoCopy]
  /\ UNCHANGED <<log, mapping, migration, purge, drawn, gone, up, crashes>>

\* Requests and the lock die with the daemon; the next start imports first.
Crash ==
  /\ crashes < MaxCrashes /\ crashes' = crashes + 1
  /\ migration' = [m \in Migrations |-> NoMigration]
  /\ purge' = [id \in Ids |-> NoPurge]
  /\ copy' = [id \in Ids |-> NoCopy]
  /\ up' = FALSE
  /\ UNCHANGED <<log, session, mapping, drawn, gone>>

Next ==
  \/ \E m \in Migrations :
       \/ Lock(m) \/ List(m) \/ NextConversation(m) \/ FindLegacyMapping(m)
       \/ GetSession(m) \/ CreateLegacySession(m) \/ UpsertLegacyMapping(m)
  \/ \E c \in Conversations : LogAppend(c)
  \/ \E id \in Ids :
       \/ Mutate(id) \/ SoftDelete(id) \/ Restore(id) \/ BeginPurge(id) \/ FinishPurge(id)
       \/ HistoryCopied(id) \/ RollbackDeletes(id) \/ RollbackPurges(id)
       \/ \E source \in Ids : Duplicate(source, id)
  \/ Crash

Spec == Init /\ [][Next]_vars

-----------------------------------------------------------------------------
(* Properties.                                                             *)

\* "idempotent legacy conversation import": whatever crashed half-way, one
\* conversation never has two sessions.
OneSessionEach ==
  \A i, j \in Ids : Exists(i) /\ Exists(j) /\ session[i].of = session[j].of
                    /\ session[i].of # "native" => i = j

\* The tombstone comes before the record goes: after a purge that no migration
\* overlapped, also one that died in the middle, no import brings the
\* conversation back.
PurgedForGood ==
  \A id \in Ids : Exists(id) => session[id].of \notin gone

\* A session that is not deleted is not destroyed: a copy that the user restored
\* or edited meanwhile is not purged by its rollback, nor a session that was
\* restored before the purge got to it.
OnlyDeletedAreDestroyed ==
  [][\A id \in Ids : session[id].state = "live" => session'[id].state # "none"]_vars

-----------------------------------------------------------------------------
(* The inductive invariant: why an import never makes a second session.    *)

SessionOf(id, c) == Exists(id) /\ session[id].of = c
Mapped(c) == mapping[c].id # NoId
Runs(m) == migration[m].pc # "idle"
NoneRuns == \A m \in Migrations : ~Runs(m)
At(m, pcs, c) == migration[m].pc \in pcs /\ migration[m].conv = c

\* One import at a time, of conversations that were logged. A session and a mapping have
\* ids that were drawn, and a session a conversation that was logged, if any.
ImportsAlone ==
  /\ \A m, n \in Migrations : Runs(m) /\ Runs(n) => m = n
  /\ \A m \in Migrations :
       /\ migration[m].todo \subseteq log
       /\ migration[m].pc \in {"find", "look", "create", "upsert"} => migration[m].conv \in log
  /\ \A id \in Ids : Exists(id) => id \in drawn /\ session[id].of \in log \cup {"native"}
  /\ \A c \in Conversations :
       mapping[c].id \in drawn \cup {NoId} /\ (mapping[c].purged => Mapped(c))

\* A mapped conversation has no session but the mapped one.
MappedOnly ==
  \A c \in Conversations, id \in Ids : Mapped(c) /\ SessionOf(id, c) => id = mapping[c].id

\* What a running import knows: every session there is, at most one of a conversation,
\* the mapped one if there is one.
Knows(m, c, i) ==
  /\ SessionOf(i, c) => <<i, c>> \in migration[m].known
  /\ <<i, c>> \in migration[m].known =>
       /\ i \in drawn
       /\ Mapped(c) => i = mapping[c].id
       /\ \A j \in Ids : <<j, c>> \in migration[m].known => i = j
KnowsSessions ==
  \A m \in Migrations, c \in Conversations, i \in Ids :
    migration[m].pc \notin {"idle", "list"} => Knows(m, c, i)

\* What it is about to create, or to map.
Imported(m, c) ==
  LET id == migration[m].id
  IN  /\ At(m, {"look"}, c) => id # NoId /\ id = mapping[c].id
      /\ At(m, {"create"}, c) /\ id # NoId => id = mapping[c].id /\ ~Exists(id)
      /\ At(m, {"create"}, c) /\ id = NoId =>
           ~Mapped(c) /\ \A i \in Ids : <<i, c>> \notin migration[m].known
      /\ At(m, {"upsert"}, c) => id # NoId /\ <<id, c>> \in migration[m].known
      /\ At(m, {"look", "create", "upsert"}, c) => c \notin gone
Imports == \A m \in Migrations, c \in Conversations : Imported(m, c)

\* Once the import of the start is done, a session without a mapping is the one that is
\* being imported; before, it is one that the import has yet to come to.
UnmappedDue ==
  \A c \in Conversations, id \in Ids : SessionOf(id, c) /\ ~Mapped(c) =>
    \/ \E m \in Migrations : At(m, {"upsert"}, c)
    \/ ~up /\ (NoneRuns \/ \E m \in Migrations :
                 Runs(m) /\ (migration[m].pc = "list" \/ c \in migration[m].todo \/ At(m, {"find"}, c)))

\* A purge under way has the session it began with, and its tombstone if no import ran.
PurgesDeleted ==
  /\ \A id \in Ids : purge[id].pc = "marked" =>
       /\ session[id].state = "deleted" /\ session[id].rev = purge[id].rev
       /\ purge[id].alone =>
            NoneRuns /\ (session[id].of # "native" => mapping[session[id].of].purged)
  /\ \A c \in gone : mapping[c].purged

SessionsInv ==
  /\ TypeOK /\ ImportsAlone /\ MappedOnly /\ KnowsSessions /\ Imports /\ UnmappedDue
  /\ PurgesDeleted /\ OneSessionEach /\ PurgedForGood

\* All three: no session is doubled, brought back or destroyed.
SessionsKept == [][OneSessionEach' /\ PurgedForGood']_vars /\ OnlyDeletedAreDestroyed

\* "keeps a tombstone so permanent purge is not undone by migration"
\* (migration.test.ts), for every purge.
PurgeNotUndone ==
  [][\A id \in Ids : id \in drawn /\ ~Exists(id) => session'[id].state = "none"]_vars
=============================================================================
