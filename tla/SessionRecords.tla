---------------------------- MODULE SessionRecords ----------------------------
(***************************************************************************)
(* One record of the session repository                                    *)
(* (packages/session-service/src/repository.ts): its primary file, the     *)
(* .bak beside it and the unrecoverable marker, under create, update,      *)
(* purge and read of a session record, or upsert, mark-purged and lookup   *)
(* of the legacy mapping, which share readRecoverable and the write        *)
(* sequences.                                                              *)
(*                                                                         *)
(* Writers of one path queue behind each other (withFileMutationLock);     *)
(* readers do not, and a reader recovers what it finds damaged.  Every     *)
(* change of a file runs inside the gate of the writer lease, which the    *)
(* two-step write sequences hold across both renames; the lease itself is  *)
(* taken to be held (WriterLease).  Each rename or unlink is one step, so  *)
(* a crash or a read falls between any two.                                *)
(***************************************************************************)
EXTENDS Integers, Sequences

CONSTANTS
    Caller,       \* requests of the owning process
    KindOf,       \* what each asks
    Entry,        \* the changes they make, or the conversations they map
    EntryOf,      \* the one each caller is about
    NoCaller,     \* the gate is free
    Mapping,      \* TRUE: the file is legacy-mapping.json, read before it exists
    MaxDamages,   \* bound: torn or edited files
    MaxFaults,    \* bound: file operations that throw
    MaxCrashes    \* bound: crashes of the process

SessionKind == {"create", "update", "purge", "read"}
MappingKind == {"upsert", "mark", "read"}
Locking == {"create", "upsert", "mark"}   \* kinds whose first read is locked

(* A session id is random: one createSession makes it.                     *)
ASSUME RecordAssumption ==
    /\ Mapping \in BOOLEAN
    /\ KindOf \in [Caller -> IF Mapping THEN MappingKind ELSE SessionKind]
    /\ \A c, d \in Caller : KindOf[c] = "create" /\ KindOf[d] = "create" => c = d
    /\ EntryOf \in [Caller -> Entry]
    /\ NoCaller \notin Caller
    /\ MaxDamages \in Nat /\ MaxFaults \in Nat /\ MaxCrashes \in Nat

VARIABLES
    primary,      \* <id>.json
    backup,       \* <id>.json.bak
    marker,       \* <id>.json.unrecoverable.json exists
    queue,        \* fileMutationTails of the path
    gate,         \* who is inside a two-step write sequence
    pc,           \* the await each caller stands at
    mem,          \* what each caller read or decided before it
    damages, faults, crashes,
    created,      \* history: the record was committed once
    purged,       \* history: a purge moved the primary away
    acked,        \* history: callers whose change was committed
    safe          \* history: the ones of them since the last damage

vars == <<primary, backup, marker, queue, gate, pc, mem, damages, faults,
          crashes, created, purged, acked, safe>>
files == <<primary, backup, marker>>
bounds == <<damages, faults, crashes>>
history == <<created, purged, acked, safe>>

Content == [state : {"missing", "invalid", "valid"}, rev : Nat,
            entries : SUBSET Entry, purged : SUBSET Entry]
Missing == [state |-> "missing", rev |-> 0, entries |-> {}, purged |-> {}]
Invalid == [state |-> "invalid", rev |-> 0, entries |-> {}, purged |-> {}]

Label == {"idle", "exists", "readPrimary", "readBackup", "readMarker",
          "quarantine", "quarantineBackup", "restore", "dropMarker", "condemn",
          "writeBackup", "writePrimary", "moveBackup", "movePrimary", "done"}

Memory == [locked : BOOLEAN, expected : Nat, primary : Content, backup : Content,
           next : Content]

TypeOK ==
    /\ primary \in Content /\ backup \in Content
    /\ marker \in BOOLEAN
    /\ queue \in Seq(Caller)
    /\ gate \in Caller \cup {NoCaller}
    /\ pc \in [Caller -> Label]
    /\ mem \in [Caller -> Memory]
    /\ damages \in Nat /\ faults \in Nat /\ crashes \in Nat
    /\ created \in BOOLEAN /\ purged \in BOOLEAN
    /\ acked \subseteq Caller /\ safe \subseteq acked

Blank == [locked |-> FALSE, expected |-> 0, primary |-> Missing, backup |-> Missing,
          next |-> Missing]

Init ==
    /\ primary = Missing /\ backup = Missing
    /\ marker = FALSE
    /\ queue = <<>>
    /\ gate = NoCaller
    /\ pc = [c \in Caller |-> "idle"]
    /\ mem = [c \in Caller |-> Blank]
    /\ damages = 0 /\ faults = 0 /\ crashes = 0
    /\ created = FALSE /\ purged = FALSE
    /\ acked = {} /\ safe = {}

Goto(c, label) == pc' = [pc EXCEPT ![c] = label]

Remember(c, m) == mem' = [mem EXCEPT ![c] = m]

(* A locked caller acts only when the ones queued before it have left.     *)
MyTurn(c) == mem[c].locked => queue # <<>> /\ Head(queue) = c

GateFree == gate = NoCaller

(* Mutant: the queue is left on success only. *)
LeaveWritten(c) ==
    /\ Goto(c, "done")
    /\ Remember(c, Blank)
    /\ queue' = IF mem[c].locked /\ pc[c] = "writePrimary" THEN Tail(queue) ELSE queue

(* The caller returns or throws and leaves the queue of the path.          *)
Leave(c) ==
    /\ Goto(c, "done")
    /\ Remember(c, Blank)
    /\ queue' = IF mem[c].locked THEN Tail(queue) ELSE queue

Fault == faults < MaxFaults /\ faults' = faults + 1

-----------------------------------------------------------------------------
(* The caller's way in.  A service call reads the session before it takes  *)
(* the lock; only a session that was created has an id to ask for.         *)

Begin(c) ==
    /\ pc[c] = "idle"
    /\ Mapping \/ KindOf[c] = "create" \/ created
    /\ Goto(c, IF KindOf[c] = "create" THEN "exists" ELSE "readPrimary")
    /\ IF KindOf[c] \in Locking
         THEN /\ queue' = Append(queue, c)
              /\ Remember(c, [Blank EXCEPT !.locked = TRUE])
         ELSE UNCHANGED <<queue, mem>>
    /\ UNCHANGED <<files, gate, bounds, history>>

Exists(c) ==
    /\ pc[c] = "exists" /\ MyTurn(c)
    /\ IF primary.state = "missing"
         THEN /\ Goto(c, "writeBackup")
              /\ Remember(c, [mem[c] EXCEPT !.next =
                     [state |-> "valid", rev |-> 1, entries |-> {EntryOf[c]}, purged |-> {}]])
              /\ UNCHANGED queue
         ELSE Leave(c)
    /\ UNCHANGED <<files, gate, bounds, history>>

-----------------------------------------------------------------------------
(* What a caller does with the content readRecoverable returned.           *)

(* Mutant: the revision is not compared. *)
NothingFound(c, value) ==
    \/ KindOf[c] \in {"update", "purge"} /\ value.state = "missing"
    \/ KindOf[c] = "upsert" /\ EntryOf[c] \in value.entries
    \/ /\ KindOf[c] = "mark"
       /\ EntryOf[c] \notin value.entries \/ EntryOf[c] \in value.purged

(* Not found, revision conflict, already mapped, nothing to mark.          *)
NothingToDo(c, value) ==
    \/ /\ KindOf[c] \in {"update", "purge"}
       /\ value.state = "missing" \/ value.rev # mem[c].expected
    \/ KindOf[c] = "upsert" /\ EntryOf[c] \in value.entries
    \/ /\ KindOf[c] = "mark"
       /\ EntryOf[c] \notin value.entries \/ EntryOf[c] \in value.purged

Edited(c, value) ==
    IF KindOf[c] = "mark"
    THEN [value EXCEPT !.rev = @ + 1, !.purged = @ \cup {EntryOf[c]}]
    ELSE [state |-> "valid", rev |-> value.rev + 1,
          entries |-> value.entries \cup {EntryOf[c]}, purged |-> value.purged]

(* The service passes the revision it read; the repository compares it     *)
(* under the lock.                                                         *)
Enqueue(c, value) ==
    /\ queue' = Append(queue, c)
    /\ Remember(c, [mem[c] EXCEPT !.locked = TRUE, !.expected = value.rev])
    /\ Goto(c, "readPrimary")

Proceed(c, value) ==
    IF NothingToDo(c, value) THEN Leave(c)
    ELSE /\ Goto(c, IF KindOf[c] = "purge" THEN "moveBackup" ELSE "writeBackup")
         /\ Remember(c, [mem[c] EXCEPT !.next = Edited(c, value)])
         /\ UNCHANGED queue

Return(c, value) ==
    IF mem[c].locked THEN Proceed(c, value)
    ELSE IF KindOf[c] = "read" \/ value.state = "missing" THEN Leave(c)
    ELSE Enqueue(c, value)

-----------------------------------------------------------------------------
(* readRecoverable()                                                       *)

ReadPrimary(c) ==
    /\ pc[c] = "readPrimary" /\ MyTurn(c)
    /\ IF primary.state = "valid" THEN Return(c, primary)
       ELSE /\ Goto(c, "readBackup")
            /\ Remember(c, [mem[c] EXCEPT !.primary = primary])
            /\ UNCHANGED queue
    /\ UNCHANGED <<files, gate, bounds, history>>

AfterBackup(m, saved) ==
    IF m.primary.state = "missing" /\ saved.state = "missing" THEN "readMarker"
    ELSE IF m.primary.state = "invalid" THEN "quarantine"
    ELSE IF saved.state = "valid" THEN "restore"
    ELSE "quarantineBackup"

ReadBackup(c) ==
    /\ pc[c] = "readBackup"
    /\ Goto(c, AfterBackup(mem[c], backup))
    /\ Remember(c, [mem[c] EXCEPT !.backup = backup])
    /\ UNCHANGED <<files, queue, gate, bounds, history>>

ReadMarker(c) ==
    /\ pc[c] = "readMarker"
    /\ IF marker THEN Leave(c) ELSE Return(c, Missing)
    /\ UNCHANGED <<files, gate, bounds, history>>

AfterQuarantine(saved) ==
    IF saved.state = "valid" THEN "restore"
    ELSE IF saved.state = "invalid" THEN "quarantineBackup" ELSE "condemn"

(* A rename of whatever is at the path now; it throws when nothing is.     *)
Quarantine(c) ==
    /\ pc[c] = "quarantine" /\ GateFree
    /\ IF primary.state = "missing" THEN Leave(c) /\ UNCHANGED primary
       ELSE /\ primary' = Missing
            /\ Goto(c, AfterQuarantine(mem[c].backup))
            /\ UNCHANGED <<mem, queue>>
    /\ UNCHANGED <<backup, marker, gate, bounds, history>>

QuarantineBackup(c) ==
    /\ pc[c] = "quarantineBackup" /\ GateFree
    /\ IF backup.state = "missing" THEN Leave(c) /\ UNCHANGED backup
       ELSE /\ backup' = Missing
            /\ Goto(c, "condemn")
            /\ UNCHANGED <<mem, queue>>
    /\ UNCHANGED <<primary, marker, gate, bounds, history>>

(* The raw text read from the backup replaces whatever is at the path now. *)
Restore(c) ==
    /\ pc[c] = "restore" /\ GateFree
    /\ primary' = mem[c].backup
    /\ Goto(c, "dropMarker")
    /\ UNCHANGED <<backup, marker, mem, queue, gate, bounds, history>>

DropMarker(c) ==
    /\ pc[c] = "dropMarker" /\ GateFree
    /\ marker' = FALSE
    /\ Return(c, mem[c].backup)
    /\ UNCHANGED <<primary, backup, gate, bounds, history>>

Condemn(c) ==
    /\ pc[c] = "condemn" /\ GateFree
    /\ marker' = TRUE
    /\ Leave(c)
    /\ UNCHANGED <<primary, backup, gate, bounds, history>>

-----------------------------------------------------------------------------
(* writeRecoverable() and writeCriticalRecoverable(): the backup, then the *)
(* primary, inside the gate                                                *)

(* Mutant: the regular write prepares the backup like the critical one. *)
BackupAheadOf(c) == mem[c].next

(* Mutant: the critical write keeps the previous text like a regular one. *)
BackupPrevious(c) == primary

(* A regular write keeps the text the primary has now, whatever it is; a   *)
(* critical one writes the new content there first.                        *)
BackupOf(c) == IF KindOf[c] = "mark" THEN mem[c].next ELSE primary

WriteBackup(c) ==
    /\ pc[c] = "writeBackup" /\ GateFree
    /\ \/ /\ backup' = BackupOf(c)
          /\ gate' = c
          /\ Goto(c, "writePrimary")
          /\ UNCHANGED <<mem, queue, faults>>
       \/ Fault /\ Leave(c) /\ UNCHANGED <<backup, gate>>
    /\ UNCHANGED <<primary, marker, damages, crashes, history>>

WritePrimary(c) ==
    /\ pc[c] = "writePrimary" /\ gate = c
    /\ \/ /\ primary' = mem[c].next
          /\ created' = TRUE
          /\ acked' = acked \cup {c}
          /\ safe' = safe \cup {c}
          /\ UNCHANGED faults
       \/ Fault /\ UNCHANGED <<primary, created, acked, safe>>
    /\ gate' = NoCaller
    /\ Leave(c)
    /\ UNCHANGED <<backup, marker, damages, crashes, purged>>

-----------------------------------------------------------------------------
(* purgeSession(): the backup, then the primary, are renamed away.  Moving *)
(* the primary is the commit; if it throws, the backup is moved back,      *)
(* unless that throws as well.                                             *)

(* Mutant: the purge leaves the backup where it is. *)
MoveBackupKept(c) ==
    /\ pc[c] = "moveBackup" /\ GateFree
    /\ gate' = c
    /\ Goto(c, "movePrimary")
    /\ Remember(c, [mem[c] EXCEPT !.backup = backup])
    /\ UNCHANGED <<files, queue, bounds, history>>

MoveBackup(c) ==
    /\ pc[c] = "moveBackup" /\ GateFree
    /\ \/ /\ backup' = Missing
          /\ Remember(c, [mem[c] EXCEPT !.backup = backup])
          /\ gate' = c
          /\ Goto(c, "movePrimary")
          /\ UNCHANGED <<queue, faults>>
       \/ Fault /\ Leave(c) /\ UNCHANGED <<backup, gate>>
    /\ UNCHANGED <<primary, marker, damages, crashes, history>>

MovePrimary(c) ==
    /\ pc[c] = "movePrimary" /\ gate = c
    /\ \/ /\ primary.state # "missing"
          /\ primary' = Missing
          /\ purged' = TRUE
          /\ UNCHANGED <<backup, faults>>
       \/ /\ \/ primary.state = "missing" /\ UNCHANGED faults
             \/ Fault
          /\ backup' = mem[c].backup
          /\ UNCHANGED <<primary, purged>>
       \/ /\ faults + 1 < MaxFaults
          /\ faults' = faults + 2
          /\ UNCHANGED <<primary, backup, purged>>
    /\ gate' = NoCaller
    /\ Leave(c)
    /\ UNCHANGED <<marker, damages, crashes, created, acked, safe>>

-----------------------------------------------------------------------------
(* What happens to the files and to the process                            *)

Damage ==
    /\ damages < MaxDamages
    /\ damages' = damages + 1
    /\ \/ primary.state = "valid" /\ primary' = Invalid /\ UNCHANGED backup
       \/ backup.state = "valid" /\ backup' = Invalid /\ UNCHANGED primary
    /\ safe' = {}
    /\ UNCHANGED <<marker, queue, gate, pc, mem, faults, crashes, created, purged, acked>>

(* Queue, gate and requests are memory of the process.                     *)
Crash ==
    /\ crashes < MaxCrashes
    /\ crashes' = crashes + 1
    /\ queue' = <<>>
    /\ gate' = NoCaller
    /\ pc' = [c \in Caller |-> IF pc[c] = "idle" THEN "idle" ELSE "done"]
    /\ mem' = [c \in Caller |-> Blank]
    /\ UNCHANGED <<files, damages, faults, history>>

Step(c) ==
    \/ Exists(c) \/ ReadPrimary(c) \/ ReadBackup(c) \/ ReadMarker(c)
    \/ Quarantine(c) \/ QuarantineBackup(c) \/ Restore(c) \/ DropMarker(c) \/ Condemn(c)
    \/ WriteBackup(c) \/ WritePrimary(c) \/ MoveBackup(c) \/ MovePrimary(c)

Next ==
    \/ \E c \in Caller : Begin(c) \/ Step(c)
    \/ Damage \/ Crash

Spec == Init /\ [][Next]_vars

(* A caller's promises are settled by the event loop: a step that can be   *)
(* taken is.  Nothing makes a request arrive, a file break or a crash.     *)
FairSpec == Spec /\ \A c \in Caller : WF_vars(Step(c))

-----------------------------------------------------------------------------
(* Properties                                                              *)

(* A change whose caller was told of success stays in the primary through  *)
(* later updates, unlocked readers, failed writes and crashes, until the   *)
(* record is purged or a file is damaged again.                            *)
AckedSurvive ==
    purged \/ \A c \in safe : primary.state = "valid" /\
        EntryOf[c] \in IF KindOf[c] = "mark" THEN primary.purged ELSE primary.entries

(* An update or a purge replaces the revision its service call read before *)
(* it queued: a change committed in between is a conflict, never lost.     *)
CommitsWhatItRead ==
    [][/\ \A c \in acked' \ acked : KindOf[c] = "update" => primary.rev = mem[c].expected
       /\ purged # purged' =>
             \E c \in Caller : pc[c] = "movePrimary" /\ primary.rev = mem[c].expected]_vars

(* The backup of a session is the commit before the primary, or the same   *)
(* one, so that restoring it loses at most one change.                     *)
BackupWithinOne ==
    primary.state = "valid" /\ backup.state = "valid" =>
        /\ primary.rev - backup.rev \in {0, 1}
        /\ backup.entries \subseteq primary.entries

(* Together: what a caller was told is in the record, and a copy of it one *)
(* commit old at most is beside it.                                        *)
RecordsSurvive == AckedSurvive /\ BackupWithinOne

(* Once a conversation was marked purged, one damaged file does not lose   *)
(* the tombstone: the primary, the backup or the write under way carries   *)
(* it, so that a later migration does not recreate the session             *)
(* (writeCriticalRecoverable). No failed write and no crash alone loses    *)
(* it; one of them during the write that would repair the damage does.     *)
TombstoneKept ==
    damages = 0 \/ (damages = 1 /\ faults = 0 /\ crashes = 0) =>
        \A c \in acked : KindOf[c] = "mark" =>
            \E copy \in {primary, backup} \cup {mem[d].next : d \in {gate} \cap Caller} :
                copy.state = "valid" /\ EntryOf[c] \in copy.purged

(* A purged session has no valid primary again.                            *)
PurgedStaysPurged == [][purged => primary'.state # "valid"]_vars

(* Every request is answered: the queue of the path, the gate and the      *)
(* recovery never leave a caller waiting.                                  *)
EveryCallAnswered == \A c \in Caller : pc[c] # "idle" ~> pc[c] = "done"

(* The record behaves as a revisioned register (RevisionedRecord) as long  *)
(* as nobody damages its files.                                            *)
Register == INSTANCE RevisionedRecord WITH record <- primary, gone <- purged
RegisterSpec == Register!Spec
=============================================================================
