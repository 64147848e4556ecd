--------------------------- MODULE Records_proofs ---------------------------
(***************************************************************************)
(* The files of sessions, for every value of the bounds: the queue of a    *)
(* path and the register it makes of an undamaged session record first,    *)
(* then the parts that Records instantiates, and at the end the properties *)
(* it names.                                                               *)
(***************************************************************************)
EXTENDS Records, Sequences, FiniteSetTheorems, WellFoundedInduction, TLAPS


-----------------------------------------------------------------------------
(* Types                                                                    *)

LEMMA ContentType == Missing \in Content /\ Invalid \in Content
  BY DEF Missing, Invalid, Content

LEMMA BlankType == Blank \in Memory /\ [Blank EXCEPT !.locked = TRUE] \in Memory
  BY ContentType DEF Blank, Memory

(* What a caller remembers has its type.                                    *)
LEMMA MemoryType ==
    ASSUME TypeOK, NEW c \in Caller
    PROVE  /\ mem[c] \in Memory
           /\ \A x \in Content : /\ [mem[c] EXCEPT !.primary = x] \in Memory
                                 /\ [mem[c] EXCEPT !.backup = x] \in Memory
                                 /\ [mem[c] EXCEPT !.next = x] \in Memory
           /\ \A n \in Nat : [mem[c] EXCEPT !.locked = TRUE, !.expected = n] \in Memory
<1>1. mem[c] \in Memory
  BY DEF TypeOK
<1> QED
  BY <1>1 DEF Memory

LEMMA RememberType ==
    ASSUME TypeOK, NEW c \in Caller, NEW m \in Memory, Remember(c, m)
    PROVE  mem' \in [Caller -> Memory]
  BY DEF Remember, TypeOK

LEMMA GotoType ==
    ASSUME TypeOK, NEW c \in Caller, NEW l \in Label, Goto(c, l)
    PROVE  pc' \in [Caller -> Label]
  BY DEF Goto, TypeOK

(* A locked caller that does not wait is the head of the queue.             *)
Holds(c) == queue # <<>> /\ Head(queue) = c

Queued ==
    \A c \in Caller :
        mem[c].locked /\ pc[c] \notin {"exists", "readPrimary"} => Holds(c)

(* What a step of one caller leaves to the others.                          *)
Moved(c) ==
    /\ pc' \in [Caller -> Label] /\ mem' \in [Caller -> Memory] /\ queue' \in Seq(Caller)
    /\ \A d \in Caller \ {c} : pc'[d] = pc[d] /\ mem'[d] = mem[d]
    /\ \A d \in Caller \ {c} : Holds(d) => Holds(d)'
    /\ mem'[c].locked /\ pc'[c] \notin {"exists", "readPrimary"} => Holds(c)'

LEMMA MovedQueued ==
    ASSUME Queued, NEW c \in Caller, Moved(c)
    PROVE  Queued'
  BY DEF Queued, Moved

(* The caller stays in the queue, or outside of it.                         *)
LEMMA StayMoved ==
    ASSUME TypeOK, NEW c \in Caller, NEW l \in Label, NEW m \in Memory,
           Goto(c, l), mem' = [mem EXCEPT ![c] = m], UNCHANGED queue,
           m.locked => Holds(c)
    PROVE  Moved(c)
<1>1. pc' \in [Caller -> Label] /\ mem' \in [Caller -> Memory] /\ queue' \in Seq(Caller)
  BY DEF Goto, TypeOK
<1>2. mem'[c] = m /\ \A d \in Caller \ {c} : pc'[d] = pc[d] /\ mem'[d] = mem[d]
  BY DEF Goto, TypeOK
<1> QED
  BY <1>1, <1>2 DEF Moved, Holds

LEMMA LeaveMoved ==
    ASSUME TypeOK, NEW c \in Caller, Leave(c), mem[c].locked => Holds(c)
    PROVE  Moved(c)
<1>1. pc' \in [Caller -> Label] /\ mem' \in [Caller -> Memory]
  BY BlankType DEF Leave, Goto, Remember, TypeOK, Label
<1>2. mem'[c] = Blank /\ ~Blank.locked
  BY DEF Leave, Remember, TypeOK, Blank
<1>3. \A d \in Caller \ {c} : pc'[d] = pc[d] /\ mem'[d] = mem[d]
  BY DEF Leave, Goto, Remember, TypeOK
<1>4. CASE mem[c].locked
  <2>1. queue' = Tail(queue) /\ queue \in Seq(Caller) /\ queue # <<>>
    BY <1>4 DEF Leave, Holds, TypeOK
  <2>2. queue' \in Seq(Caller)
    BY <2>1
  <2>3. \A d \in Caller \ {c} : ~Holds(d)
    BY <1>4 DEF Holds
  <2> QED
    BY <1>1, <1>2, <1>3, <2>2, <2>3 DEF Moved
<1>5. CASE ~mem[c].locked
  <2>1. queue' = queue /\ queue \in Seq(Caller)
    BY <1>5 DEF Leave, TypeOK
  <2> QED
    BY <1>1, <1>2, <1>3, <2>1 DEF Moved, Holds
<1> QED
  BY <1>4, <1>5

LEMMA AppendMoved ==
    ASSUME TypeOK, NEW c \in Caller, NEW m \in Memory, NEW l \in {"exists", "readPrimary"},
           Goto(c, l), mem' = [mem EXCEPT ![c] = m], queue' = Append(queue, c)
    PROVE  Moved(c)
<1>1. pc' \in [Caller -> Label] /\ mem' \in [Caller -> Memory] /\ pc'[c] = l
  BY DEF Goto, TypeOK, Label
<1>2. \A d \in Caller \ {c} : pc'[d] = pc[d] /\ mem'[d] = mem[d]
  BY DEF Goto, TypeOK
<1>3. queue' \in Seq(Caller) /\ queue' # <<>>
  BY DEF TypeOK
<1>4. queue # <<>> => Head(queue') = Head(queue)
  BY DEF TypeOK
<1> QED
  BY <1>1, <1>2, <1>3, <1>4 DEF Moved, Holds

LEMMA EditedType ==
    ASSUME TypeOK, NEW c \in Caller, NEW value \in Content
    PROVE  Edited(c, value) \in Content
<1>1. EntryOf[c] \in Entry
  BY RecordAssumption
<1>2. value.rev + 1 \in Nat /\ value.purged \cup {EntryOf[c]} \in SUBSET Entry
      /\ value.entries \cup {EntryOf[c]} \in SUBSET Entry
  BY <1>1 DEF Content
<1> QED
  BY <1>2 DEF Edited, Content

LEMMA ReturnMoved ==
    ASSUME TypeOK, NEW c \in Caller, NEW value \in Content, Return(c, value),
           mem[c].locked => Holds(c)
    PROVE  Moved(c)
<1>1. CASE Leave(c)
  BY <1>1, LeaveMoved
<1>2. CASE ~mem[c].locked /\ Enqueue(c, value)
  <2>1. value.rev \in Nat
    BY DEF Content
  <2>2. [mem[c] EXCEPT !.locked = TRUE, !.expected = value.rev] \in Memory
    BY <2>1, MemoryType
  <2> QED
    BY <1>2, <2>2, AppendMoved DEF Enqueue, Remember
<1>3. CASE mem[c].locked /\ Proceed(c, value) /\ ~NothingToDo(c, value)
  <2> DEFINE m == [mem[c] EXCEPT !.next = Edited(c, value)]
             l == IF KindOf[c] = "purge" THEN "moveBackup" ELSE "writeBackup"
  <2>1. m \in Memory /\ l \in Label
    BY EditedType, MemoryType DEF Label
  <2>2. Goto(c, l) /\ mem' = [mem EXCEPT ![c] = m] /\ UNCHANGED queue
    BY <1>3 DEF Proceed, Remember
  <2> QED
    BY <1>3, <2>1, <2>2, StayMoved
<1> QED
  BY <1>1, <1>2, <1>3 DEF Return, Proceed

-----------------------------------------------------------------------------
(* Every step of a caller moves it only, and keeps the types                *)

Plain ==
    /\ primary \in Content /\ backup \in Content
    /\ marker \in BOOLEAN
    /\ gate \in Caller \cup {NoCaller}
    /\ damages \in Nat /\ faults \in Nat /\ crashes \in Nat
    /\ created \in BOOLEAN /\ purged \in BOOLEAN
    /\ acked \subseteq Caller /\ safe \subseteq acked

LEMMA BeginKeeps ==
    ASSUME TypeOK, NEW c \in Caller, Queued, Begin(c)
    PROVE  Moved(c) /\ Plain'
<1>1. Plain'
  BY DEF Begin, TypeOK, Plain, files, bounds, history
<1>2. CASE KindOf[c] \in Locking
  <2> DEFINE l == IF KindOf[c] = "create" THEN "exists" ELSE "readPrimary"
             m == [Blank EXCEPT !.locked = TRUE]
  <2>1. Goto(c, l) /\ mem' = [mem EXCEPT ![c] = m] /\ queue' = Append(queue, c)
    BY <1>2 DEF Begin, Remember
  <2>2. l \in {"exists", "readPrimary"} /\ m \in Memory
    BY BlankType
  <2> QED
    BY <1>1, <2>1, <2>2, AppendMoved
<1>3. CASE KindOf[c] \notin Locking
  <2>1. Goto(c, "readPrimary") /\ UNCHANGED <<queue, mem>>
    BY <1>3 DEF Begin, Locking
  <2>2. pc' \in [Caller -> Label] /\ pc'[c] = "readPrimary" /\ \A d \in Caller \ {c} : pc'[d] = pc[d]
    BY <2>1 DEF Goto, TypeOK, Label
  <2> QED
    BY <1>1, <2>1, <2>2 DEF Moved, Holds, TypeOK
<1> QED
  BY <1>2, <1>3

(* Wherever a locked caller acts, it is the head of the queue.              *)
LEMMA ActorHolds ==
    ASSUME TypeOK, Queued, NEW c \in Caller,
           pc[c] \in {"exists", "readPrimary"} => MyTurn(c)
    PROVE  mem[c].locked => Holds(c)
  BY DEF Queued, MyTurn, Holds

LEMMA ReadsKeep ==
    ASSUME TypeOK, Queued, NEW c \in Caller,
           Exists(c) \/ ReadPrimary(c) \/ ReadBackup(c) \/ ReadMarker(c)
    PROVE  Moved(c) /\ Plain'
<1>1. Plain'
  BY DEF Exists, ReadPrimary, ReadBackup, ReadMarker, TypeOK, Plain, files, bounds, history
<1>2. mem[c].locked => Holds(c)
  BY ActorHolds DEF Exists, ReadPrimary, ReadBackup, ReadMarker
<1>3. CASE Exists(c)
  <2> DEFINE x == [state |-> "valid", rev |-> 1, entries |-> {EntryOf[c]}, purged |-> {}]
             m == [mem[c] EXCEPT !.next = x]
  <2>1. m \in Memory
    <3>1. x \in Content
      BY RecordAssumption DEF Content
    <3> QED
      BY <3>1, MemoryType
  <2>2. CASE primary.state = "missing"
    <3>1. Goto(c, "writeBackup") /\ mem' = [mem EXCEPT ![c] = m] /\ UNCHANGED queue
      BY <1>3, <2>2 DEF Exists, Remember
    <3>2. m.locked = mem[c].locked
      BY DEF TypeOK, Memory
    <3>3. "writeBackup" \in Label
      BY DEF Label
    <3> HIDE DEF m
    <3> QED
      BY <1>1, <1>2, <2>1, <3>1, <3>2, <3>3, StayMoved
  <2>3. CASE primary.state # "missing"
    BY <1>1, <1>2, <1>3, <2>3, LeaveMoved DEF Exists
  <2> QED
    BY <2>2, <2>3
<1>4. CASE ReadPrimary(c)
  <2>1. CASE primary.state = "valid"
    <3>1. Return(c, primary) /\ primary \in Content
      BY <1>4, <2>1 DEF ReadPrimary, TypeOK
    <3> QED
      BY <1>1, <1>2, <3>1, ReturnMoved
  <2>2. CASE primary.state # "valid"
    <3> DEFINE m == [mem[c] EXCEPT !.primary = primary]
    <3>1. m \in Memory /\ "readBackup" \in Label
      BY MemoryType DEF TypeOK, Label
    <3>2. Goto(c, "readBackup") /\ mem' = [mem EXCEPT ![c] = m] /\ UNCHANGED queue
      BY <1>4, <2>2 DEF ReadPrimary, Remember
    <3>3. m.locked = mem[c].locked
      BY DEF TypeOK, Memory
    <3> HIDE DEF m
    <3> QED
      BY <1>1, <1>2, <3>1, <3>2, <3>3, StayMoved
  <2> QED
    BY <2>1, <2>2
<1>5. CASE ReadBackup(c)
  <2> DEFINE m == [mem[c] EXCEPT !.backup = backup]
             l == AfterBackup(mem[c], backup)
  <2>1. m \in Memory /\ l \in Label
    BY MemoryType DEF TypeOK, Label, AfterBackup
  <2>2. Goto(c, l) /\ mem' = [mem EXCEPT ![c] = m] /\ UNCHANGED queue
    BY <1>5 DEF ReadBackup, Remember
  <2>3. m.locked = mem[c].locked
    BY DEF TypeOK, Memory
  <2> HIDE DEF m, l
  <2> QED
    BY <1>1, <1>2, <2>1, <2>2, <2>3, StayMoved
<1>6. CASE ReadMarker(c)
  BY <1>1, <1>2, <1>6, LeaveMoved, ReturnMoved, ContentType DEF ReadMarker
<1> QED
  BY <1>3, <1>4, <1>5, <1>6

(* A step that only changes the label of its caller.                        *)
LEMMA GotoMoved ==
    ASSUME TypeOK, NEW c \in Caller, NEW l \in Label, Goto(c, l), UNCHANGED <<mem, queue>>,
           mem[c].locked => Holds(c)
    PROVE  Moved(c)
<1>1. pc' \in [Caller -> Label] /\ \A d \in Caller \ {c} : pc'[d] = pc[d]
  BY DEF Goto, TypeOK
<1> QED
  BY <1>1 DEF Moved, Holds, TypeOK

LEMMA RecoveryKeeps ==
    ASSUME TypeOK, Queued, NEW c \in Caller,
           \/ Quarantine(c) \/ QuarantineBackup(c) \/ Restore(c)
           \/ DropMarker(c) \/ Condemn(c)
    PROVE  Moved(c) /\ Plain'
<1>1. mem[c] \in Memory /\ mem[c].backup \in Content /\ AfterQuarantine(mem[c].backup) \in Label
  BY DEF TypeOK, Memory, Label, AfterQuarantine
<1>2. Plain'
  BY <1>1, ContentType DEF Quarantine, QuarantineBackup, Restore, DropMarker, Condemn,
     TypeOK, Plain, files, bounds, history
<1>3. mem[c].locked => Holds(c)
  BY ActorHolds DEF Quarantine, QuarantineBackup, Restore, DropMarker, Condemn
<1>4. {"condemn", "dropMarker"} \subseteq Label
  BY DEF Label
<1>5. CASE Quarantine(c)
  BY <1>1, <1>2, <1>3, <1>5, GotoMoved, LeaveMoved DEF Quarantine
<1>6. CASE QuarantineBackup(c)
  BY <1>2, <1>3, <1>4, <1>6, GotoMoved, LeaveMoved DEF QuarantineBackup
<1>7. CASE Restore(c)
  BY <1>2, <1>3, <1>4, <1>7, GotoMoved DEF Restore
<1>8. CASE DropMarker(c)
  BY <1>1, <1>2, <1>3, <1>8, ReturnMoved DEF DropMarker
<1>9. CASE Condemn(c)
  BY <1>2, <1>3, <1>9, LeaveMoved DEF Condemn
<1> QED
  BY <1>5, <1>6, <1>7, <1>8, <1>9

LEMMA WritesKeep ==
    ASSUME TypeOK, Queued, NEW c \in Caller,
           WriteBackup(c) \/ WritePrimary(c) \/ MoveBackup(c) \/ MovePrimary(c)
    PROVE  Moved(c) /\ Plain'
<1>1. mem[c] \in Memory /\ mem[c].backup \in Content /\ mem[c].next \in Content
      /\ BackupOf(c) \in Content
  BY DEF TypeOK, Memory, BackupOf
<1>2. Plain'
  <2>1. CASE WriteBackup(c)
    BY <1>1, <2>1 DEF WriteBackup, TypeOK, Plain, history, Fault
  <2>2. CASE WritePrimary(c)
    <3>1. primary' \in Content
      BY <1>1, <2>2 DEF WritePrimary, TypeOK
    <3>2. faults' \in Nat
      BY <2>2 DEF WritePrimary, TypeOK, Fault
    <3>3. created' \in BOOLEAN
      BY <2>2 DEF WritePrimary, TypeOK
    <3>4. acked' \subseteq Caller /\ safe' \subseteq acked'
      BY <2>2 DEF WritePrimary, TypeOK
    <3>5. gate' = NoCaller /\ UNCHANGED <<backup, marker, damages, crashes, purged>>
      BY <2>2 DEF WritePrimary
    <3> QED
      BY <3>1, <3>2, <3>3, <3>4, <3>5 DEF TypeOK, Plain
  <2>3. CASE MoveBackup(c)
    BY <1>1, <2>3, ContentType DEF MoveBackup, TypeOK, Plain, history, Fault
  <2>4. CASE MovePrimary(c)
    <3>1. primary' \in Content /\ backup' \in Content /\ purged' \in BOOLEAN
      BY <1>1, <2>4, ContentType DEF MovePrimary, TypeOK
    <3>2. faults' \in Nat
      BY <2>4 DEF MovePrimary, TypeOK, Fault
    <3>3. gate' = NoCaller /\ UNCHANGED <<marker, damages, crashes, created, acked, safe>>
      BY <2>4 DEF MovePrimary
    <3> QED
      BY <3>1, <3>2, <3>3 DEF TypeOK, Plain
  <2> QED
    BY <2>1, <2>2, <2>3, <2>4
<1>3. mem[c].locked => Holds(c)
  BY ActorHolds DEF WriteBackup, WritePrimary, MoveBackup, MovePrimary
<1>4. {"writePrimary", "movePrimary"} \subseteq Label
  BY DEF Label
<1>5. CASE WriteBackup(c)
  BY <1>2, <1>3, <1>4, <1>5, GotoMoved, LeaveMoved DEF WriteBackup
<1>6. CASE WritePrimary(c) \/ MovePrimary(c)
  BY <1>2, <1>3, <1>6, LeaveMoved DEF WritePrimary, MovePrimary
<1>7. CASE MoveBackup(c)
  <2> DEFINE m == [mem[c] EXCEPT !.backup = backup]
  <2>1. CASE Leave(c)
    BY <1>2, <1>3, <2>1, LeaveMoved
  <2>2. CASE Goto(c, "movePrimary") /\ Remember(c, m) /\ UNCHANGED queue
    <3>1. m \in Memory /\ m.locked = mem[c].locked
      BY MemoryType DEF TypeOK, Memory
    <3>2. mem' = [mem EXCEPT ![c] = m]
      BY <2>2 DEF Remember
    <3> HIDE DEF m
    <3> QED
      BY <1>2, <1>3, <1>4, <2>2, <3>1, <3>2, StayMoved
  <2> QED
    BY <1>7, <2>1, <2>2 DEF MoveBackup
<1> QED
  BY <1>5, <1>6, <1>7

LEMMA WorldKeeps ==
    ASSUME TypeOK, Queued, Damage \/ Crash \/ UNCHANGED vars
    PROVE  TypeOK' /\ Queued'
<1>1. CASE Damage
  BY <1>1, ContentType DEF Damage, TypeOK, Queued, Holds
<1>2. CASE Crash
  <2>1. pc' \in [Caller -> Label] /\ mem' = [c \in Caller |-> Blank]
    BY <1>2 DEF Crash, TypeOK, Label
  <2>2. mem' \in [Caller -> Memory] /\ \A c \in Caller : ~mem'[c].locked
    BY <2>1, BlankType DEF Blank
  <2>3. queue' \in Seq(Caller)
    BY <1>2 DEF Crash
  <2> QED
    BY <1>2, <2>1, <2>2, <2>3 DEF Crash, TypeOK, Queued, files, history
<1>3. CASE UNCHANGED vars
  BY <1>3 DEF vars, TypeOK, Queued, Holds
<1> QED
  BY <1>1, <1>2, <1>3

LEMMA StepKeeps ==
    ASSUME TypeOK, Queued, NEW c \in Caller, Begin(c) \/ Step(c)
    PROVE  Moved(c) /\ Plain'
  BY BeginKeeps, ReadsKeep, RecoveryKeeps, WritesKeep DEF Step

LEMMA TypeStep ==
    ASSUME TypeOK, Queued, [Next]_vars
    PROVE  TypeOK' /\ Queued'
<1>1. CASE \E c \in Caller : Begin(c) \/ Step(c)
  <2>1. PICK c \in Caller : Begin(c) \/ Step(c)
    BY <1>1
  <2>2. Moved(c) /\ Plain'
    BY <2>1, StepKeeps
  <2> QED
    BY <2>2, MovedQueued DEF Moved, Plain, TypeOK
<1>2. CASE Damage \/ Crash \/ UNCHANGED vars
  BY <1>2, WorldKeeps
<1> QED
  BY <1>1, <1>2 DEF Next

LEMMA InitType == Init => TypeOK /\ Queued
<1> SUFFICES ASSUME Init PROVE TypeOK /\ Queued
  OBVIOUS
<1>1. mem \in [Caller -> Memory] /\ \A c \in Caller : ~mem[c].locked
  BY BlankType DEF Init, Blank
<1>2. pc \in [Caller -> Label]
  BY DEF Init, Label
<1>3. queue \in Seq(Caller)
  BY DEF Init
<1> QED
  BY <1>1, <1>2, <1>3, ContentType DEF Init, TypeOK, Queued

(* Every variable keeps its type, and the files of a path are changed by    *)
(* one locked caller at a time: the head of the queue.                      *)
THEOREM RecordTypes == Spec => [](TypeOK /\ Queued)
  BY InitType, TypeStep, PTL DEF Spec

-----------------------------------------------------------------------------
(* An undamaged session record                                              *)

Undamaged == ~Mapping /\ MaxDamages = 0

Reading == {"readPrimary", "readBackup", "readMarker"}
Recovering == {"quarantine", "quarantineBackup", "restore", "dropMarker", "condemn"}
Writing == {"writeBackup", "writePrimary"}
Purging == {"moveBackup", "movePrimary"}

First(c) == [state |-> "valid", rev |-> 1, entries |-> {EntryOf[c]}, purged |-> {}]

(* The files are what the history says: nothing before the creation, one    *)
(* valid primary after it, nothing at all after the purge.                  *)
FilesOK ==
    /\ ~created => primary = Missing /\ ~purged
    /\ purged => primary = Missing /\ backup = Missing
    /\ created /\ ~purged => primary.state = "valid"

(* What a caller stands on: a writer holds the queue and replaces the       *)
(* primary it read; nobody ever has a file to recover.                      *)
CallerOK(c) ==
    /\ pc[c] \notin Recovering
    /\ pc[c] = "idle" => ~mem[c].locked
    /\ KindOf[c] = "create" /\ pc[c] \in {"idle", "exists"} => ~created
    /\ pc[c] = "exists" => KindOf[c] = "create" /\ mem[c].locked
    /\ pc[c] \in Reading => KindOf[c] # "create" /\ created
    /\ pc[c] \in Reading /\ mem[c].locked => KindOf[c] \in {"update", "purge"}
    /\ pc[c] \in {"readBackup", "readMarker"} => purged /\ mem[c].primary.state = "missing"
    /\ pc[c] \in Writing \cup Purging => mem[c].locked /\ Holds(c)
    /\ pc[c] \in Writing /\ KindOf[c] = "create" => ~created /\ mem[c].next = First(c)
    /\ pc[c] \in Writing /\ KindOf[c] # "create" =>
          /\ KindOf[c] = "update" /\ primary.state = "valid"
          /\ mem[c].next = Edited(c, primary)
    /\ pc[c] \in Purging => KindOf[c] = "purge" /\ primary.state = "valid"
    /\ pc[c] = "movePrimary" => backup = Missing

RecordOK == TypeOK /\ Queued /\ FilesOK /\ \A c \in Caller : CallerOK(c)

(* While a caller writes, nobody else does.                                 *)
LEMMA OneWriter ==
    ASSUME RecordOK, NEW c \in Caller, NEW d \in Caller \ {c},
           pc[c] \in Writing \cup Purging
    PROVE  pc[d] \notin Writing \cup Purging
  BY DEF RecordOK, CallerOK, Holds

LEMMA MissingState == Missing.state = "missing" /\ Missing # Invalid
  BY DEF Missing, Invalid

(* The state of the files a caller finds when it writes.                    *)
LEMMA WriterFiles ==
    ASSUME RecordOK, NEW c \in Caller, pc[c] \in Writing \cup Purging
    PROVE  /\ ~purged
           /\ KindOf[c] = "create" => primary = Missing /\ ~created
           /\ KindOf[c] # "create" => primary.state = "valid" /\ created
<1>1. FilesOK /\ CallerOK(c)
  BY DEF RecordOK
<1>2. KindOf[c] = "create" => ~created
  BY <1>1 DEF CallerOK
<1>3. KindOf[c] # "create" => primary.state = "valid"
  BY <1>1 DEF CallerOK
<1>4. primary.state = "valid" => primary # Missing
  BY MissingState
<1> QED
  BY <1>1, <1>2, <1>3, <1>4 DEF FilesOK

LEMMA InitRecordOK == Init => RecordOK
<1> SUFFICES ASSUME Init PROVE RecordOK
  OBVIOUS
<1>1. TypeOK /\ Queued
  BY InitType
<1>2. FilesOK
  BY DEF Init, FilesOK
<1>3. \A c \in Caller : pc[c] = "idle" /\ ~mem[c].locked /\ ~created
  BY DEF Init, Blank
<1>4. \A c \in Caller : CallerOK(c)
  BY <1>3 DEF CallerOK, Recovering, Reading, Writing, Purging
<1> QED
  BY <1>1, <1>2, <1>4 DEF RecordOK

(* No caller of an undamaged session has anything to recover.               *)
LEMMA NoRecovery ==
    ASSUME RecordOK, NEW c \in Caller
    PROVE  ~(Quarantine(c) \/ QuarantineBackup(c) \/ Restore(c) \/ DropMarker(c) \/ Condemn(c))
<1>1. pc[c] \notin Recovering
  BY DEF RecordOK, CallerOK
<1> QED
  BY <1>1 DEF Recovering, Quarantine, QuarantineBackup, Restore, DropMarker, Condemn

(* A step that leaves files and history alone leaves the others as they     *)
(* were.                                                                    *)
LEMMA QuietOthers ==
    ASSUME RecordOK, NEW c \in Caller, NEW d \in Caller \ {c}, Moved(c),
           UNCHANGED <<primary, backup, created, purged>>
    PROVE  CallerOK(d)'
<1>1. pc'[d] = pc[d] /\ mem'[d] = mem[d] /\ (Holds(d) => Holds(d)')
  BY DEF Moved
<1>2. CallerOK(d)
  BY DEF RecordOK
<1>3. Edited(d, primary)' = Edited(d, primary)
  BY DEF Edited
<1> QED
  BY <1>1, <1>2, <1>3 DEF CallerOK

(* A writer is alone, so what it changes concerns no other writer.          *)
LEMMA WriteOthers ==
    ASSUME RecordOK, NEW c \in Caller, NEW d \in Caller \ {c}, Moved(c),
           pc[c] \in Writing \cup Purging,
           purged => purged', created => created',
           KindOf[c] # "create" => created' = created
    PROVE  CallerOK(d)'
<1>1. pc'[d] = pc[d] /\ mem'[d] = mem[d]
  BY DEF Moved
<1>2. CallerOK(d)
  BY DEF RecordOK
<1>3. pc[d] \notin Writing \cup Purging /\ pc[d] # "movePrimary"
  BY OneWriter DEF Purging
<1>4. KindOf[c] = "create" => KindOf[d] # "create"
  BY RecordAssumption
<1> QED
  BY <1>1, <1>2, <1>3, <1>4 DEF CallerOK

-----------------------------------------------------------------------------
(* What each step makes of the caller that takes it                         *)

LEMMA LabelSets ==
    /\ \A l \in Reading : l \notin Recovering \cup Writing \cup Purging \cup {"exists", "idle", "done"}
    /\ \A l \in Writing \cup Purging : l \notin Recovering \cup {"exists", "idle", "done"}
    /\ \A l \in Writing : l \notin Purging
    /\ "done" \notin Recovering \cup Reading \cup Writing \cup Purging
  BY DEF Reading, Recovering, Writing, Purging

LEMMA LeaveOwn ==
    ASSUME TypeOK, NEW c \in Caller, Leave(c)
    PROVE  CallerOK(c)'
<1>1. pc'[c] = "done"
  BY DEF Leave, Goto, TypeOK
<1> QED
  BY <1>1, LabelSets DEF CallerOK

LEMMA BeginOwn ==
    ASSUME Undamaged, RecordOK, NEW c \in Caller, Begin(c)
    PROVE  CallerOK(c)'
<1>1. UNCHANGED <<created, purged, primary, backup>>
  BY DEF Begin, history, files
<1>2. CASE KindOf[c] = "create"
  <2>1. pc'[c] = "exists" /\ mem'[c] = [Blank EXCEPT !.locked = TRUE]
    BY <1>2 DEF Begin, Goto, Remember, RecordOK, TypeOK, Locking
  <2>2. mem'[c].locked
    BY <2>1 DEF Blank
  <2>3. ~created'
    BY <1>1, <1>2 DEF Begin, RecordOK, CallerOK
  <2> QED
    BY <1>2, <2>1, <2>2, <2>3 DEF CallerOK, Reading, Recovering, Writing, Purging
<1>3. CASE KindOf[c] # "create"
  <2>1. KindOf[c] \in {"update", "purge", "read"}
    BY <1>3, RecordAssumption DEF Undamaged, SessionKind
  <2>2. pc'[c] = "readPrimary" /\ created /\ mem' = mem
    BY <1>3, <2>1 DEF Begin, Goto, RecordOK, TypeOK, Locking, Undamaged
  <2>3. ~mem[c].locked
    <3>1. pc[c] = "idle"
      BY DEF Begin
    <3> QED
      BY <3>1 DEF RecordOK, CallerOK
  <2> QED
    BY <1>1, <1>3, <2>1, <2>2, <2>3 DEF CallerOK, Reading, Recovering, Writing, Purging
<1> QED
  BY <1>2, <1>3

(* The content a read returns is the primary as it is, or nothing.          *)
LEMMA ReturnOwn ==
    ASSUME Undamaged, RecordOK, NEW c \in Caller, pc[c] \in Reading,
           NEW value \in Content,
           (value = primary /\ primary.state = "valid") \/ value.state = "missing",
           Return(c, value), mem[c].locked => Holds(c),
           UNCHANGED <<primary, backup, created, purged>>
    PROVE  CallerOK(c)'
<1>1. KindOf[c] # "create" /\ created /\ CallerOK(c) /\ TypeOK
  BY LabelSets DEF RecordOK, CallerOK
<1>2. CASE Leave(c)
  BY <1>1, <1>2, LeaveOwn
<1>3. CASE ~mem[c].locked /\ KindOf[c] # "read" /\ Enqueue(c, value)
  <2>1. KindOf[c] \in {"update", "purge"}
    BY <1>1, <1>3, RecordAssumption DEF Undamaged, SessionKind
  <2>2. pc'[c] = "readPrimary"
    BY <1>1, <1>3 DEF Enqueue, Goto, TypeOK
  <2> QED
    BY <1>1, <2>1, <2>2 DEF CallerOK, Reading, Recovering, Writing, Purging
<1>4. CASE mem[c].locked /\ ~NothingToDo(c, value) /\ Proceed(c, value)
  <2>1. KindOf[c] \in {"update", "purge"}
    BY <1>1, <1>4 DEF CallerOK
  <2>2. value = primary /\ primary.state = "valid"
    BY <1>4, <2>1 DEF NothingToDo
  <2>3. Holds(c)' /\ Edited(c, primary)' = Edited(c, primary)
    BY <1>4 DEF Proceed, Holds, Edited
  <2>4. mem'[c] = [mem[c] EXCEPT !.next = Edited(c, value)]
    BY <1>1, <1>4 DEF Proceed, Remember, TypeOK
  <2>5. mem'[c].locked /\ mem'[c].next = Edited(c, primary)
    BY <1>1, <1>4, <2>2, <2>4 DEF TypeOK, Memory
  <2>6. pc'[c] = IF KindOf[c] = "purge" THEN "moveBackup" ELSE "writeBackup"
    BY <1>1, <1>4 DEF Proceed, Goto, TypeOK
  <2>7. CASE KindOf[c] = "update"
    BY <2>2, <2>3, <2>5, <2>6, <2>7 DEF CallerOK, Reading, Recovering, Writing, Purging
  <2>8. CASE KindOf[c] = "purge"
    BY <2>2, <2>3, <2>5, <2>6, <2>8 DEF CallerOK, Reading, Recovering, Writing, Purging
  <2> QED
    BY <2>1, <2>7, <2>8
<1> QED
  BY <1>2, <1>3, <1>4 DEF Return, Proceed

LEMMA ReadsOwn ==
    ASSUME Undamaged, RecordOK, NEW c \in Caller,
           Exists(c) \/ ReadPrimary(c) \/ ReadBackup(c) \/ ReadMarker(c)
    PROVE  CallerOK(c)'
<1>1. TypeOK /\ CallerOK(c) /\ FilesOK /\ Queued
  BY DEF RecordOK
<1>2. UNCHANGED <<primary, backup, created, purged>>
  BY DEF Exists, ReadPrimary, ReadBackup, ReadMarker, files, history
<1>3. mem[c].locked => Holds(c)
  BY <1>1, ActorHolds DEF Exists, ReadPrimary, ReadBackup, ReadMarker
<1>4. CASE Exists(c)
  <2>1. CASE Leave(c)
    BY <1>1, <2>1, LeaveOwn
  <2>2. CASE /\ Goto(c, "writeBackup")
             /\ Remember(c, [mem[c] EXCEPT !.next = First(c)])
             /\ UNCHANGED queue
    <3>1. KindOf[c] = "create" /\ ~created /\ mem[c].locked
      BY <1>1, <1>4 DEF Exists, CallerOK
    <3>2. pc'[c] = "writeBackup" /\ Holds(c)'
      BY <1>1, <1>3, <2>2, <3>1 DEF Goto, TypeOK, Holds
    <3>3. mem'[c] = [mem[c] EXCEPT !.next = First(c)]
      BY <1>1, <2>2 DEF Remember, TypeOK
    <3>4. mem'[c].locked /\ mem'[c].next = First(c)
      BY <1>1, <3>1, <3>3 DEF TypeOK, Memory
    <3> QED
      BY <1>2, <3>1, <3>2, <3>4 DEF CallerOK, Reading, Recovering, Writing, Purging
  <2> QED
    BY <1>4, <2>1, <2>2 DEF Exists, First
<1>5. CASE ReadPrimary(c)
  <2>1. pc[c] \in Reading /\ primary \in Content
    BY <1>1, <1>5 DEF ReadPrimary, Reading, TypeOK
  <2>2. CASE primary.state = "valid"
    BY <1>2, <1>3, <1>5, <2>1, <2>2, ReturnOwn DEF ReadPrimary
  <2>3. CASE primary.state # "valid"
    <3>1. created /\ KindOf[c] # "create"
      BY <1>1, <2>1 DEF CallerOK
    <3>2. purged /\ primary.state = "missing"
      BY <1>1, <2>3, <3>1, MissingState DEF FilesOK
    <3>3. pc'[c] = "readBackup" /\ mem'[c] = [mem[c] EXCEPT !.primary = primary]
      BY <1>1, <1>5, <2>3 DEF ReadPrimary, Goto, Remember, TypeOK
    <3>4. mem'[c].primary = primary /\ mem'[c].locked = mem[c].locked
      BY <1>1, <3>3 DEF TypeOK, Memory
    <3>5. mem'[c].locked => KindOf[c] \in {"update", "purge"}
      BY <1>1, <2>1, <3>4 DEF CallerOK
    <3> QED
      BY <1>2, <3>1, <3>2, <3>3, <3>4, <3>5 DEF CallerOK, Reading, Recovering, Writing, Purging
  <2> QED
    BY <2>2, <2>3
<1>6. CASE ReadBackup(c)
  <2>1. pc[c] \in Reading /\ pc[c] \in {"readBackup", "readMarker"}
    BY <1>6 DEF ReadBackup, Reading
  <2>2. created /\ KindOf[c] # "create" /\ purged /\ mem[c].primary.state = "missing"
    BY <1>1, <2>1 DEF CallerOK
  <2>3. AfterBackup(mem[c], backup) = "readMarker"
    BY <1>1, <2>2, MissingState DEF FilesOK, AfterBackup
  <2>4. pc'[c] = "readMarker" /\ mem'[c] = [mem[c] EXCEPT !.backup = backup]
    BY <1>1, <1>6, <2>3 DEF ReadBackup, Goto, Remember, TypeOK
  <2>5. mem'[c].primary = mem[c].primary /\ mem'[c].locked = mem[c].locked
    BY <1>1, <2>4 DEF TypeOK, Memory
  <2>6. mem'[c].locked => KindOf[c] \in {"update", "purge"}
    BY <1>1, <2>1, <2>5 DEF CallerOK
  <2> QED
    BY <1>2, <2>2, <2>4, <2>5, <2>6 DEF CallerOK, Reading, Recovering, Writing, Purging
<1>7. CASE ReadMarker(c)
  <2>1. pc[c] \in Reading
    BY <1>7 DEF ReadMarker, Reading
  <2>2. CASE Leave(c)
    BY <1>1, <2>2, LeaveOwn
  <2>3. CASE Return(c, Missing)
    BY <1>2, <1>3, <2>1, <2>3, ReturnOwn, ContentType, MissingState
  <2> QED
    BY <1>7, <2>2, <2>3 DEF ReadMarker
<1> QED
  BY <1>4, <1>5, <1>6, <1>7

LEMMA WritesOwn ==
    ASSUME Undamaged, RecordOK, NEW c \in Caller,
           WriteBackup(c) \/ WritePrimary(c) \/ MoveBackup(c) \/ MovePrimary(c)
    PROVE  CallerOK(c)'
<1>1. TypeOK /\ CallerOK(c)
  BY DEF RecordOK
<1>2. CASE Leave(c)
  BY <1>1, <1>2, LeaveOwn
<1>3. CASE WriteBackup(c) /\ Goto(c, "writePrimary") /\ UNCHANGED <<mem, queue>>
  <2>1. pc[c] = "writeBackup" /\ pc'[c] = "writePrimary" /\ UNCHANGED <<primary, created, purged>>
    BY <1>1, <1>3 DEF WriteBackup, Goto, TypeOK, history
  <2>2. Edited(c, primary)' = Edited(c, primary) /\ Holds(c)' = Holds(c)
    BY <1>3, <2>1 DEF Edited, Holds
  <2> QED
    BY <1>1, <1>3, <2>1, <2>2 DEF CallerOK, Reading, Recovering, Writing, Purging
<1>4. CASE MoveBackup(c) /\ Goto(c, "movePrimary") /\ backup' = Missing
           /\ Remember(c, [mem[c] EXCEPT !.backup = backup]) /\ UNCHANGED queue
  <2>1. pc[c] = "moveBackup" /\ pc'[c] = "movePrimary" /\ UNCHANGED <<primary, created, purged>>
    BY <1>1, <1>4 DEF MoveBackup, Goto, TypeOK, history
  <2>2. mem'[c] = [mem[c] EXCEPT !.backup = backup]
    BY <1>1, <1>4 DEF Remember, TypeOK
  <2>3. mem'[c].locked = mem[c].locked /\ Holds(c)' = Holds(c)
    BY <1>1, <1>4, <2>2 DEF TypeOK, Memory, Holds
  <2> QED
    BY <1>1, <1>4, <2>1, <2>3 DEF CallerOK, Reading, Recovering, Writing, Purging
<1> QED
  BY <1>2, <1>3, <1>4 DEF WriteBackup, WritePrimary, MoveBackup, MovePrimary

-----------------------------------------------------------------------------
(* Every step keeps the invariant                                           *)

(* What a write makes of the files and of the history.                      *)
LEMMA WritesFiles ==
    ASSUME RecordOK, NEW c \in Caller,
           WriteBackup(c) \/ WritePrimary(c) \/ MoveBackup(c) \/ MovePrimary(c)
    PROVE  /\ pc[c] \in Writing \cup Purging
           /\ FilesOK'
           /\ purged => purged'
           /\ created => created'
           /\ KindOf[c] # "create" => created' = created
<1>1. pc[c] \in Writing \cup Purging
  BY DEF WriteBackup, WritePrimary, MoveBackup, MovePrimary, Writing, Purging
<1>2. FilesOK /\ CallerOK(c) /\ ~purged
  BY <1>1, WriterFiles DEF RecordOK
<1>3. CASE UNCHANGED <<primary, created, purged>>
  BY <1>1, <1>2, <1>3 DEF FilesOK
<1>4. CASE WritePrimary(c) /\ primary' = mem[c].next /\ created' = TRUE
  <2>1. pc[c] \in Writing
    BY <1>4 DEF WritePrimary, Writing
  <2>2. mem[c].next.state = "valid"
    BY <1>2, <2>1 DEF CallerOK, First, Edited
  <2>3. KindOf[c] # "create" => created
    BY <1>1, WriterFiles
  <2>4. created \in BOOLEAN
    BY DEF RecordOK, TypeOK
  <2> QED
    BY <1>1, <1>2, <1>4, <2>2, <2>3, <2>4 DEF WritePrimary, FilesOK
<1>5. CASE MovePrimary(c) /\ primary' = Missing /\ purged' = TRUE /\ UNCHANGED backup
  <2>1. backup = Missing
    BY <1>2, <1>5 DEF MovePrimary, CallerOK
  <2>2. created /\ created' = created
    <3>1. KindOf[c] # "create"
      BY <1>2, <1>5 DEF MovePrimary, CallerOK, Purging
    <3> QED
      BY <1>1, <1>5, <3>1, WriterFiles DEF MovePrimary
  <2> QED
    BY <1>1, <1>2, <1>5, <2>1, <2>2 DEF FilesOK
<1> QED
  BY <1>3, <1>4, <1>5 DEF WriteBackup, WritePrimary, MoveBackup, MovePrimary, history

LEMMA CallerStep ==
    ASSUME Undamaged, RecordOK, NEW c \in Caller, Begin(c) \/ Step(c)
    PROVE  FilesOK' /\ \A d \in Caller : CallerOK(d)'
<1>1. Moved(c)
  BY StepKeeps DEF RecordOK
<1>2. CASE Begin(c) \/ Exists(c) \/ ReadPrimary(c) \/ ReadBackup(c) \/ ReadMarker(c)
  <2>1. UNCHANGED <<primary, backup, created, purged>>
    BY <1>2 DEF Begin, Exists, ReadPrimary, ReadBackup, ReadMarker, files, history
  <2>2. FilesOK'
    BY <2>1 DEF RecordOK, FilesOK
  <2>3. CallerOK(c)'
    BY <1>2, BeginOwn, ReadsOwn
  <2>4. \A d \in Caller \ {c} : CallerOK(d)'
    BY <1>1, <2>1, QuietOthers
  <2> QED
    BY <2>2, <2>3, <2>4
<1>3. CASE WriteBackup(c) \/ WritePrimary(c) \/ MoveBackup(c) \/ MovePrimary(c)
  <2>1. \A d \in Caller \ {c} : CallerOK(d)'
    BY <1>1, <1>3, WritesFiles, WriteOthers
  <2> QED
    BY <1>3, <2>1, WritesFiles, WritesOwn
<1> QED
  BY <1>2, <1>3, NoRecovery DEF Step

LEMMA CrashStep ==
    ASSUME RecordOK, Crash
    PROVE  FilesOK' /\ \A d \in Caller : CallerOK(d)'
<1>1. UNCHANGED <<primary, backup, created, purged>>
  BY DEF Crash, files, history
<1>2. FilesOK'
  BY <1>1 DEF RecordOK, FilesOK
<1>3. ASSUME NEW d \in Caller PROVE CallerOK(d)'
  <2>1. CallerOK(d) /\ mem'[d] = Blank /\ ~mem'[d].locked
    BY DEF RecordOK, Crash, Blank
  <2>2. pc'[d] = IF pc[d] = "idle" THEN "idle" ELSE "done"
    BY DEF RecordOK, Crash
  <2> QED
    BY <1>1, <2>1, <2>2 DEF CallerOK, Reading, Recovering, Writing, Purging
<1> QED
  BY <1>2, <1>3

LEMMA RecordStep ==
    ASSUME Undamaged, RecordOK, [Next]_vars
    PROVE  RecordOK'
<1>1. TypeOK' /\ Queued'
  BY TypeStep DEF RecordOK
<1>2. CASE \E c \in Caller : Begin(c) \/ Step(c)
  BY <1>1, <1>2, CallerStep DEF RecordOK
<1>3. CASE Damage
  BY <1>3 DEF Damage, Undamaged, RecordOK, TypeOK
<1>4. CASE Crash
  BY <1>1, <1>4, CrashStep DEF RecordOK
<1>5. CASE UNCHANGED vars
  <2>1. FilesOK'
    BY <1>5 DEF vars, RecordOK, FilesOK
  <2>2. ASSUME NEW d \in Caller PROVE CallerOK(d)'
    <3>1. CallerOK(d) /\ Edited(d, primary)' = Edited(d, primary)
      BY <1>5 DEF RecordOK, vars, Edited
    <3> QED
      BY <1>5, <3>1 DEF vars, CallerOK, Holds
  <2> QED
    BY <1>1, <2>1, <2>2 DEF RecordOK
<1> QED
  BY <1>2, <1>3, <1>4, <1>5 DEF Next

-----------------------------------------------------------------------------
(* Refinement                                                               *)

LEMMA RegisterInit == Init => Register!Init
  BY DEF Init, Register!Init, Register!Absent, Missing

LEMMA RegisterStep ==
    ASSUME Undamaged, RecordOK, [Next]_vars
    PROVE  [Register!Next]_(Register!vars)
<1>1. CASE UNCHANGED <<primary, purged>>
  BY <1>1 DEF Register!vars
<1>2. ASSUME NEW c \in Caller, WritePrimary(c), primary' = mem[c].next
      PROVE  Register!Next
  <2>1. pc[c] \in Writing /\ pc[c] \in Writing \cup Purging /\ CallerOK(c) /\ UNCHANGED purged
    BY <1>2 DEF WritePrimary, Writing, RecordOK
  <2>2. EntryOf[c] \in Entry
    BY RecordAssumption
  <2>3. CASE KindOf[c] = "create"
    <3>1. primary = Missing /\ ~purged /\ primary' = First(c)
      BY <1>2, <2>1, <2>3, WriterFiles DEF CallerOK
    <3>2. Register!Create
      BY <2>1, <2>2, <3>1 DEF Register!Create, Register!Absent, Missing, First
    <3> QED
      BY <3>2 DEF Register!Next
  <2>4. CASE KindOf[c] # "create"
    <3>1. KindOf[c] = "update" /\ primary.state = "valid" /\ primary' = Edited(c, primary)
      BY <1>2, <2>1, <2>4 DEF CallerOK
    <3>2. primary \in Content
      BY DEF RecordOK, TypeOK
    <3>3. primary' = Register!Changed({EntryOf[c]}, {})
      BY <3>1 DEF Edited, Register!Changed
    <3>4. Register!Commit
      BY <2>1, <2>2, <3>1, <3>3 DEF Register!Commit
    <3> QED
      BY <3>4 DEF Register!Next
  <2> QED
    BY <2>3, <2>4
<1>3. ASSUME NEW c \in Caller, MovePrimary(c), primary' = Missing, purged' = TRUE
      PROVE  Register!Next
  <2>1. primary.state = "valid"
    BY <1>3 DEF MovePrimary, RecordOK, CallerOK, Purging
  <2>2. Register!Purge
    BY <1>3, <2>1 DEF Register!Purge, Register!Absent, Missing
  <2> QED
    BY <2>2 DEF Register!Next
<1>4. CASE \E c \in Caller : Begin(c) \/ Step(c)
  <2>1. PICK c \in Caller : Begin(c) \/ Step(c)
    BY <1>4
  <2>2. CASE Begin(c) \/ Exists(c) \/ ReadPrimary(c) \/ ReadBackup(c) \/ ReadMarker(c)
    BY <1>1, <2>2 DEF Begin, Exists, ReadPrimary, ReadBackup, ReadMarker, files, history
  <2>3. CASE WriteBackup(c) \/ MoveBackup(c)
    BY <1>1, <2>3 DEF WriteBackup, MoveBackup, history
  <2>4. CASE WritePrimary(c)
    BY <1>1, <1>2, <2>4 DEF WritePrimary
  <2>5. CASE MovePrimary(c)
    BY <1>1, <1>3, <2>5 DEF MovePrimary
  <2> QED
    BY <2>1, <2>2, <2>3, <2>4, <2>5, NoRecovery DEF Step
<1>5. CASE Damage
  BY <1>5 DEF Damage, Undamaged, RecordOK, TypeOK
<1>6. CASE Crash
  BY <1>1, <1>6 DEF Crash, files, history
<1>7. CASE UNCHANGED vars
  BY <1>1, <1>7 DEF vars
<1> QED
  BY <1>4, <1>5, <1>6, <1>7 DEF Next

(* As long as nobody damages its files, a session record behaves as the     *)
(* revisioned register RevisionedRecord specifies, under any number of      *)
(* concurrent updates, purges, unlocked readers, failed file operations     *)
(* and crashes of the process.                                              *)
THEOREM RegisterRefinement ==
    ASSUME Undamaged
    PROVE  Spec => RegisterSpec
<1>1. Init => RecordOK
  BY InitRecordOK
<1>2. RecordOK /\ [Next]_vars => RecordOK'
  BY RecordStep
<1>3. RecordOK /\ [Next]_vars => [Register!Next]_(Register!vars)
  BY RegisterStep
<1>4. Init => Register!Init
  BY RegisterInit
<1> QED
  BY <1>1, <1>2, <1>3, <1>4, PTL DEF Spec, RegisterSpec, Register!Spec

-----------------------------------------------------------------------------
(* What was committed is kept, and each commit replaces what it read        *)

Within(content) ==
    primary.state = "valid" /\ content.state = "valid" =>
        /\ primary.rev - content.rev \in {0, 1}
        /\ content.entries \subseteq primary.entries

(* What a caller that is about to write relies on: the text it saved is the *)
(* primary, the backup it set aside can be moved back, and nobody committed *)
(* since its service call read the record.                                  *)
Basis(c) ==
    /\ pc[c] = "writePrimary" => backup = primary
    /\ pc[c] = "movePrimary" => Within(mem[c].backup)
    /\ pc[c] \in Writing \cup Purging /\ KindOf[c] # "create" =>
          primary.rev = mem[c].expected

KeptFiles ==
    /\ Within(backup)
    /\ purged \/ \A c \in safe : created /\ EntryOf[c] \in primary.entries

KeptOK == RecordOK /\ KeptFiles /\ \A c \in Caller : Basis(c)

LEMMA InitKept == Init => KeptOK
<1> SUFFICES ASSUME Init PROVE KeptOK
  OBVIOUS
<1>1. KeptFiles
  BY MissingState DEF Init, KeptFiles, Within
<1>2. \A c \in Caller : Basis(c)
  BY DEF Init, Basis, Writing, Purging
<1> QED
  BY <1>1, <1>2, InitRecordOK DEF KeptOK

(* A caller that leaves relies on nothing.                                  *)
LEMMA LeaveBasis ==
    ASSUME TypeOK, NEW c \in Caller, Leave(c)
    PROVE  Basis(c)'
<1>1. pc'[c] = "done"
  BY DEF Leave, Goto, TypeOK
<1> QED
  BY <1>1, LabelSets DEF Basis, Writing, Purging

LEMMA OthersBasis ==
    ASSUME KeptOK, NEW c \in Caller, NEW d \in Caller \ {c}, Moved(c),
           UNCHANGED <<primary, backup>> \/ pc[c] \in Writing \cup Purging
    PROVE  Basis(d)'
<1>1. pc'[d] = pc[d] /\ mem'[d] = mem[d] /\ Basis(d)
  BY DEF Moved, KeptOK
<1>2. CASE UNCHANGED <<primary, backup>>
  BY <1>1, <1>2 DEF Basis, Within
<1>3. CASE pc[c] \in Writing \cup Purging
  <2>1. pc[d] \notin Writing \cup Purging
    BY <1>3, OneWriter DEF KeptOK
  <2> QED
    BY <1>1, <2>1 DEF Basis, Writing, Purging
<1> QED
  BY <1>2, <1>3

(* The revision is compared with the one that was read, under the lock.     *)
LEMMA ReturnBasis ==
    ASSUME KeptOK, NEW c \in Caller, pc[c] \in Reading, NEW value,
           value = primary \/ value.state = "missing",
           Return(c, value), UNCHANGED primary
    PROVE  Basis(c)'
<1>0. TypeOK /\ CallerOK(c)
  BY DEF KeptOK, RecordOK
<1>1. CASE Leave(c)
  BY <1>0, <1>1, LeaveBasis
<1>2. CASE Enqueue(c, value)
  <2>1. pc'[c] = "readPrimary"
    BY <1>0, <1>2 DEF Enqueue, Goto, TypeOK
  <2> QED
    BY <2>1 DEF Basis, Writing, Purging
<1>3. CASE mem[c].locked /\ ~NothingToDo(c, value) /\ Proceed(c, value)
  <2>1. KindOf[c] \in {"update", "purge"}
    BY <1>0, <1>3 DEF CallerOK
  <2>2. value = primary /\ primary.rev = mem[c].expected
    BY <1>3, <2>1 DEF NothingToDo
  <2>3. pc'[c] \in {"moveBackup", "writeBackup"}
    BY <1>0, <1>3 DEF Proceed, Goto, TypeOK
  <2>4. mem'[c] = [mem[c] EXCEPT !.next = Edited(c, value)]
    BY <1>0, <1>3 DEF Proceed, Remember, TypeOK
  <2>5. mem'[c].expected = mem[c].expected
    BY <1>0, <2>4 DEF TypeOK, Memory
  <2> QED
    BY <2>2, <2>3, <2>5 DEF Basis
<1> QED
  BY <1>1, <1>2, <1>3 DEF Return, Proceed

LEMMA ReadsBasis ==
    ASSUME KeptOK, NEW c \in Caller,
           Begin(c) \/ Exists(c) \/ ReadPrimary(c) \/ ReadBackup(c) \/ ReadMarker(c)
    PROVE  Basis(c)'
<1>0. TypeOK /\ CallerOK(c)
  BY DEF KeptOK, RecordOK
<1>1. CASE Leave(c)
  BY <1>0, <1>1, LeaveBasis
<1>2. CASE Begin(c) \/ ReadBackup(c)
  <2>1. pc'[c] \in {"exists", "readPrimary"} \cup Reading \cup Recovering
    BY <1>0, <1>2 DEF Begin, ReadBackup, AfterBackup, Goto, TypeOK, Reading, Recovering
  <2> QED
    BY <2>1 DEF Basis, Reading, Recovering, Writing, Purging
<1>3. CASE Exists(c) /\ ~Leave(c)
  <2>1. pc'[c] = "writeBackup" /\ pc[c] = "exists"
    BY <1>0, <1>3 DEF Exists, Goto, TypeOK
  <2>2. KindOf[c] = "create"
    BY <1>0, <2>1 DEF CallerOK
  <2> QED
    BY <2>1, <2>2 DEF Basis
<1>4. CASE ReadPrimary(c)
  <2>1. pc[c] \in Reading /\ UNCHANGED primary
    BY <1>4 DEF ReadPrimary, Reading, files
  <2>2. CASE Return(c, primary)
    BY <2>1, <2>2, ReturnBasis
  <2>3. CASE Goto(c, "readBackup")
    <3>1. pc'[c] = "readBackup"
      BY <1>0, <2>3 DEF Goto, TypeOK
    <3> QED
      BY <3>1 DEF Basis, Writing, Purging
  <2> QED
    BY <1>4, <2>2, <2>3 DEF ReadPrimary
<1>5. CASE ReadMarker(c) /\ ~Leave(c)
  <2>1. pc[c] \in Reading /\ UNCHANGED primary /\ Return(c, Missing)
    BY <1>5 DEF ReadMarker, Reading, files
  <2> QED
    BY <2>1, ReturnBasis, MissingState
<1> QED
  BY <1>1, <1>2, <1>3, <1>4, <1>5

LEMMA ReadsKept ==
    ASSUME KeptOK, NEW c \in Caller, Moved(c),
           Begin(c) \/ Exists(c) \/ ReadPrimary(c) \/ ReadBackup(c) \/ ReadMarker(c)
    PROVE  KeptFiles' /\ \A d \in Caller : Basis(d)'
<1>1. UNCHANGED <<primary, backup, created, purged, safe>>
  BY DEF Begin, Exists, ReadPrimary, ReadBackup, ReadMarker, files, history
<1>2. KeptFiles'
  BY <1>1 DEF KeptOK, KeptFiles, Within
<1>3. \A d \in Caller \ {c} : Basis(d)'
  BY <1>1, OthersBasis
<1> QED
  BY <1>2, <1>3, ReadsBasis

LEMMA WritesKept ==
    ASSUME Undamaged, KeptOK, NEW c \in Caller, Moved(c),
           WriteBackup(c) \/ WritePrimary(c) \/ MoveBackup(c) \/ MovePrimary(c)
    PROVE  KeptFiles' /\ \A d \in Caller : Basis(d)'
<1>0. /\ TypeOK /\ RecordOK /\ CallerOK(c) /\ Basis(c) /\ KeptFiles
      /\ primary.rev \in Nat /\ backup.rev \in Nat
  BY DEF KeptOK, RecordOK, TypeOK, Content
<1>1. pc[c] \in Writing \cup Purging
  BY <1>0, WritesFiles
<1>2. \A d \in Caller \ {c} : Basis(d)'
  BY <1>1, OthersBasis
<1>3. ~purged /\ KindOf[c] # "mark"
  BY <1>0, <1>1, WriterFiles, RecordAssumption DEF Undamaged, SessionKind
<1>4. CASE UNCHANGED <<primary, backup, created, purged, safe>> /\ Leave(c)
  <2>1. KeptFiles'
    BY <1>0, <1>4 DEF KeptFiles, Within
  <2> QED
    BY <1>0, <1>2, <1>4, <2>1, LeaveBasis
<1>5. CASE WriteBackup(c) /\ backup' = BackupOf(c) /\ Goto(c, "writePrimary") /\ UNCHANGED mem
  <2>1. backup' = primary /\ UNCHANGED <<primary, created, purged, safe>>
    BY <1>3, <1>5 DEF WriteBackup, BackupOf, history
  <2>2. KeptFiles'
    BY <1>0, <2>1 DEF KeptFiles, Within
  <2>3. pc[c] = "writeBackup" /\ pc'[c] = "writePrimary"
    BY <1>0, <1>5 DEF WriteBackup, Goto, TypeOK
  <2>4. Basis(c)'
    BY <1>0, <1>1, <1>5, <2>1, <2>3 DEF Basis
  <2> QED
    BY <1>2, <2>2, <2>4
<1>6. CASE WritePrimary(c) /\ primary' = mem[c].next
  <2>1. /\ pc[c] = "writePrimary" /\ pc[c] \in Writing /\ backup = primary /\ Leave(c)
        /\ backup' = backup /\ purged' = purged
    BY <1>0, <1>6 DEF WritePrimary, Writing, Basis
  <2>2. CASE safe' = safe \cup {c} /\ created' = TRUE
    <3>1. CASE KindOf[c] = "create"
      <4>1. primary = Missing /\ ~created /\ primary' = First(c)
        BY <1>0, <1>1, <1>6, <2>1, <3>1, WriterFiles DEF CallerOK
      <4>2. safe = {}
        BY <1>0, <1>3, <4>1 DEF KeptFiles
      <4>3. backup'.state = "missing" /\ EntryOf[c] \in primary'.entries
        BY <2>1, <4>1, MissingState DEF First
      <4> QED
        BY <1>0, <1>2, <2>1, <2>2, <4>2, <4>3, LeaveBasis DEF KeptFiles, Within
    <3>2. CASE KindOf[c] # "create"
      <4>1. primary' = Edited(c, primary)
        BY <1>0, <1>6, <2>1, <3>2 DEF CallerOK
      <4>2. primary'.rev = primary.rev + 1 /\ primary'.entries = primary.entries \cup {EntryOf[c]}
        BY <1>3, <4>1 DEF Edited
      <4>3. Within(backup)'
        BY <1>0, <2>1, <4>2 DEF Within
      <4>4. \A d \in safe' : created' /\ EntryOf[d] \in primary'.entries
        BY <1>0, <1>3, <2>2, <4>2 DEF KeptFiles
      <4> QED
        BY <1>0, <1>2, <2>1, <4>3, <4>4, LeaveBasis DEF KeptFiles
    <3> QED
      BY <3>1, <3>2
  <2>3. CASE UNCHANGED <<primary, safe, created>>
    BY <1>4, <2>1, <2>3
  <2> QED
    BY <1>6, <2>2, <2>3 DEF WritePrimary
<1>7. CASE MoveBackup(c) /\ backup' = Missing /\ Goto(c, "movePrimary")
           /\ Remember(c, [mem[c] EXCEPT !.backup = backup])
  <2>1. UNCHANGED <<primary, created, purged, safe>> /\ backup'.state # "valid"
    BY <1>7, MissingState DEF MoveBackup, history
  <2>2. KeptFiles'
    BY <1>0, <2>1 DEF KeptFiles, Within
  <2>3. pc'[c] = "movePrimary"
    BY <1>0, <1>7 DEF Goto, TypeOK
  <2>4. mem'[c] = [mem[c] EXCEPT !.backup = backup]
    BY <1>0, <1>7 DEF Remember, TypeOK
  <2>5. mem'[c].backup = backup /\ mem'[c].expected = mem[c].expected
    BY <1>0, <2>4 DEF TypeOK, Memory
  <2>6. Basis(c)'
    BY <1>0, <1>1, <2>1, <2>3, <2>5 DEF Basis, KeptFiles, Within
  <2> QED
    BY <1>2, <2>2, <2>6
<1>8. CASE MovePrimary(c)
  <2>1. pc[c] = "movePrimary" /\ Leave(c) /\ UNCHANGED <<created, safe>>
    BY <1>8 DEF MovePrimary
  <2>2. CASE primary' = Missing /\ purged' = TRUE
    BY <1>0, <1>2, <2>1, <2>2, LeaveBasis, MissingState DEF KeptFiles, Within
  <2>3. CASE UNCHANGED <<primary, purged>> /\ backup' = mem[c].backup
    BY <1>0, <1>2, <2>1, <2>3, LeaveBasis DEF KeptFiles, Within, Basis
  <2>4. CASE UNCHANGED <<primary, backup, purged>>
    BY <1>4, <2>1, <2>4
  <2> QED
    BY <1>8, <2>2, <2>3, <2>4 DEF MovePrimary
<1>9. CASE WritePrimary(c) /\ UNCHANGED <<primary, created, safe>>
  BY <1>4, <1>9 DEF WritePrimary
<1>10. CASE (WriteBackup(c) \/ MoveBackup(c)) /\ Leave(c) /\ UNCHANGED backup
  BY <1>4, <1>10 DEF WriteBackup, MoveBackup, history
<1> QED
  BY <1>5, <1>6, <1>7, <1>8, <1>9, <1>10 DEF WriteBackup, WritePrimary, MoveBackup

LEMMA KeptStep ==
    ASSUME Undamaged, KeptOK, [Next]_vars
    PROVE  KeptOK'
<1>0. TypeOK /\ RecordOK /\ RecordOK'
  BY RecordStep DEF KeptOK, RecordOK
<1>1. ASSUME NEW c \in Caller, Begin(c) \/ Step(c) PROVE KeptOK'
  <2>1. Moved(c)
    BY <1>0, <1>1, StepKeeps DEF RecordOK
  <2> QED
    BY <1>0, <1>1, <2>1, ReadsKept, WritesKept, NoRecovery DEF Step, KeptOK
<1>2. CASE Damage
  BY <1>0, <1>2 DEF Damage, Undamaged, TypeOK
<1>3. CASE Crash
  <2>1. UNCHANGED <<primary, backup, created, purged, safe>>
    BY <1>3 DEF Crash, files, history
  <2>2. \A c \in Caller : pc'[c] \in {"idle", "done"}
    BY <1>3 DEF Crash
  <2>3. KeptFiles'
    BY <2>1 DEF KeptOK, KeptFiles, Within
  <2>4. \A c \in Caller : Basis(c)'
    BY <2>2 DEF Basis, Writing, Purging
  <2> QED
    BY <1>0, <2>3, <2>4 DEF KeptOK
<1>4. CASE UNCHANGED vars
  <2>1. KeptFiles' /\ \A c \in Caller : Basis(c)'
    BY <1>4 DEF vars, KeptOK, KeptFiles, Basis, Within
  <2> QED
    BY <1>0, <2>1 DEF KeptOK
<1> QED
  BY <1>1, <1>2, <1>3, <1>4 DEF Next

(* As long as nobody damages its files, every change whose caller was told  *)
(* of success is in the record until it is purged, and the backup beside it *)
(* is at most one commit old.                                               *)
THEOREM RecordsKept ==
    ASSUME Undamaged
    PROVE  Spec => []RecordsSurvive
<1>1. KeptOK => RecordsSurvive
  <2> SUFFICES ASSUME KeptOK PROVE RecordsSurvive
    OBVIOUS
  <2>1. BackupWithinOne
    BY DEF KeptOK, KeptFiles, Within, BackupWithinOne
  <2>2. \A c \in Caller : KindOf[c] # "mark"
    BY RecordAssumption DEF Undamaged, SessionKind
  <2>3. safe \subseteq Caller
    BY DEF KeptOK, RecordOK, TypeOK
  <2>4. AckedSurvive
    BY <2>2, <2>3 DEF KeptOK, KeptFiles, RecordOK, FilesOK, AckedSurvive
  <2> QED
    BY <2>1, <2>4 DEF RecordsSurvive
<1>2. KeptOK /\ [Next]_vars => KeptOK'
  BY KeptStep
<1> QED
  BY <1>1, <1>2, InitKept, PTL DEF Spec

LEMMA CommitReplaces ==
    ASSUME KeptOK, [Next]_vars
    PROVE  /\ \A c \in acked' \ acked : KindOf[c] = "update" => primary.rev = mem[c].expected
           /\ purged # purged' =>
                 \E c \in Caller : pc[c] = "movePrimary" /\ primary.rev = mem[c].expected
<1>1. ASSUME NEW c \in Caller, WritePrimary(c), KindOf[c] = "update"
      PROVE  primary.rev = mem[c].expected
  BY <1>1 DEF WritePrimary, KeptOK, Basis, Writing
<1>2. ASSUME NEW c \in Caller, MovePrimary(c), purged # purged'
      PROVE  pc[c] = "movePrimary" /\ primary.rev = mem[c].expected
  BY <1>2 DEF MovePrimary, KeptOK, RecordOK, CallerOK, Basis, Purging
<1>3. ASSUME NEW c \in Caller, Begin(c) \/ Step(c), ~WritePrimary(c), ~MovePrimary(c)
      PROVE  UNCHANGED <<acked, purged>>
  BY <1>3 DEF Step, Begin, Exists, ReadPrimary, ReadBackup, ReadMarker, Quarantine,
     QuarantineBackup, Restore, DropMarker, Condemn, WriteBackup, MoveBackup, history
<1>4. ASSUME NEW c \in Caller, WritePrimary(c)
      PROVE  UNCHANGED purged /\ acked' \subseteq acked \cup {c}
  BY <1>4 DEF WritePrimary
<1>5. ASSUME NEW c \in Caller, MovePrimary(c) PROVE UNCHANGED acked
  BY <1>5 DEF MovePrimary
<1>6. CASE Damage \/ Crash \/ UNCHANGED vars
  BY <1>6 DEF Damage, Crash, vars, history
<1>7. CASE \E c \in Caller : Begin(c) \/ Step(c)
  BY <1>1, <1>2, <1>3, <1>4, <1>5, <1>7
<1> QED
  BY <1>6, <1>7 DEF Next

(* An update or a purge replaces the revision that its service call read    *)
(* before it queued: what was committed meanwhile is a conflict, not lost.  *)
THEOREM RecordsCommitWhatTheyRead ==
    ASSUME Undamaged
    PROVE  Spec => CommitsWhatItRead
<1>1. KeptOK /\ [Next]_vars => KeptOK'
  BY KeptStep
<1>2. KeptOK /\ [Next]_vars =>
        [/\ \A c \in acked' \ acked : KindOf[c] = "update" => primary.rev = mem[c].expected
         /\ purged # purged' =>
               \E c \in Caller : pc[c] = "movePrimary" /\ primary.rev = mem[c].expected]_vars
  BY CommitReplaces
<1> QED
  BY <1>1, <1>2, InitKept, PTL DEF Spec, CommitsWhatItRead

(***************************************************************************)
(* The legacy mapping.                                                     *)
(***************************************************************************)

-----------------------------------------------------------------------------
(* The legacy mapping, of which every call takes the queue: without the     *)
(* lookups that read outside of it.                                         *)

\* Every call of the mapping changes it.
NoLookups == \A c \in MappingCalls : MappingKindOf[c] # "read"

\* Past its first read, and not yet answered.
Busy(c) == indexPc[c] \notin {"idle", "readPrimary", "done"}

AtHead(c) == indexQueue # <<>> /\ Head(indexQueue) = c

\* Only the head of the queue is past its first read.
MappingSerial ==
    \A c \in MappingCalls :
        /\ indexPc[c] \notin {"exists", "moveBackup", "movePrimary"}
        /\ Busy(c) => AtHead(c) /\ indexMem[c].locked
        /\ indexPc[c] = "readPrimary" => indexMem[c].locked

MappingTypes ==
    /\ indexPrimary \in Index!Content /\ indexBackup \in Index!Content
    /\ indexQueue \in Seq(MappingCalls)
    /\ indexGate \in MappingCalls \cup {NoCaller}
    /\ indexPc \in [MappingCalls -> Index!Label] /\ indexMem \in [MappingCalls -> Index!Memory]
    /\ indexDamages \in Nat /\ indexFaults \in Nat /\ indexCrashes \in Nat
    /\ indexAcked \subseteq MappingCalls /\ indexSafe \subseteq indexAcked

\* What was acknowledged to a caller is in a copy.
HasEntry(content, c) ==
    content.state = "valid" /\
    MappingEntryOf[c] \in IF MappingKindOf[c] = "mark" THEN content.purged ELSE content.entries

Marked == {c \in indexAcked : MappingKindOf[c] = "mark"}

\* A copy that can be read has every tombstone.
HasMarks(content) ==
    content.state = "valid" => \A c \in Marked : MappingEntryOf[c] \in content.purged

OneDamage == indexDamages = 0 \/ (indexDamages = 1 /\ indexFaults = 0 /\ indexCrashes = 0)

Repairing == {"readBackup", "readMarker", "quarantine", "quarantineBackup", "restore",
              "dropMarker", "condemn"}
Rewriting == {"writeBackup", "writePrimary"}

\* A writer has what is acknowledged since the last damage in what it will write,
\* and its own change; a caller that repairs found nothing to keep.
SafeKept(c) ==
    /\ indexPc[c] \in Repairing => indexSafe = {}
    /\ indexPc[c] \in {"restore", "dropMarker"} => indexMem[c].backup.state = "valid"
    /\ indexPc[c] \in Rewriting => \A d \in indexSafe \cup {c} : HasEntry(indexMem[c].next, d)

\* So with the tombstones: a repair takes place after the damage only, and puts the
\* backup back.
MarksKept(c) ==
    /\ indexPc[c] \in Rewriting => HasMarks(indexMem[c].next)
    /\ indexPc[c] = "writePrimary" =>
         /\ indexGate = c
         /\ MappingKindOf[c] = "mark" => indexBackup = indexMem[c].next \/ (indexBackup = Index!Invalid /\ indexDamages # 0)
    /\ Marked # {} =>
         /\ indexPc[c] \in Repairing =>
              /\ indexDamages # 0 /\ indexBackup.state = "valid"
              /\ indexPc[c] \in {"readBackup", "quarantine", "restore", "dropMarker"}
         /\ indexPc[c] \in {"quarantine", "restore", "dropMarker"} => indexMem[c].backup = indexBackup

\* Before the damage both files have the tombstones, after it one of them or the
\* write that is under way.
MarkFiles ==
    /\ HasMarks(indexPrimary) /\ HasMarks(indexBackup)
    /\ Marked # {} =>
         /\ indexDamages = 0 => indexPrimary.state = "valid" /\ indexBackup.state = "valid"
         /\ indexPrimary.state = "valid" \/ indexBackup.state = "valid" \/ indexGate # NoCaller

GateHeld == indexGate # NoCaller => indexPc[indexGate] = "writePrimary"

MappingInv ==
    /\ MappingTypes /\ MappingSerial /\ Index!AckedSurvive /\ GateHeld /\ ~indexPurged
    /\ \A c \in MappingCalls : SafeKept(c)
    /\ OneDamage => MarkFiles /\ \A c \in MappingCalls : MarksKept(c)

-----------------------------------------------------------------------------
(* What a call does, and who else may                                       *)

(* What a caller remembers has its type.                                    *)
LEMMA MappingMemory ==
    ASSUME NEW m \in Index!Memory, NEW x \in Index!Content
    PROVE  /\ m.primary \in Index!Content /\ m.backup \in Index!Content /\ m.next \in Index!Content
           /\ [m EXCEPT !.primary = x] \in Index!Memory /\ [m EXCEPT !.primary = x].locked = m.locked
           /\ [m EXCEPT !.backup = x] \in Index!Memory /\ [m EXCEPT !.backup = x].locked = m.locked
           /\ [m EXCEPT !.next = x] \in Index!Memory /\ [m EXCEPT !.next = x].locked = m.locked
           /\ [m EXCEPT !.backup = x].backup = x /\ [m EXCEPT !.next = x].next = x
  BY DEF Index!Memory

(* The values the code starts a call from have their types.                  *)
LEMMA MappingBlank ==
    /\ Index!Missing \in Index!Content /\ Index!Invalid \in Index!Content /\ Index!Missing.state = "missing"
    /\ Index!Invalid.state = "invalid" /\ Index!Blank \in Index!Memory
    /\ [Index!Blank EXCEPT !.locked = TRUE] \in Index!Memory /\ [Index!Blank EXCEPT !.locked = TRUE].locked
<1>1. Index!Missing \in Index!Content /\ Index!Invalid \in Index!Content /\ Index!Missing.state = "missing"
      /\ Index!Invalid.state = "invalid"
  BY DEF Index!Missing, Index!Invalid, Index!Content
<1>2. Index!Blank \in Index!Memory
  BY <1>1 DEF Index!Blank, Index!Memory
<1> QED
  BY <1>1, <1>2 DEF Index!Memory

(* The caller goes on with what it remembers, or leaves the queue.          *)
Acts(c, l, m) ==
    /\ l \in Index!Label /\ m \in Index!Memory /\ indexPc'[c] = l /\ indexMem'[c] = m
    /\ indexPc' \in [MappingCalls -> Index!Label] /\ indexMem' \in [MappingCalls -> Index!Memory]
    /\ \A d \in MappingCalls : d # c => indexPc'[d] = indexPc[d] /\ indexMem'[d] = indexMem[d]
    /\ \/ l = "done" /\ indexQueue' = Tail(indexQueue)
       \/ /\ l \notin {"idle", "readPrimary", "done", "exists", "moveBackup", "movePrimary"}
          /\ m.locked /\ indexQueue' = indexQueue

(* A call that ends leaves the queue and keeps nothing.                      *)
LEMMA MappingLeaves ==
    ASSUME MappingTypes, NEW c \in MappingCalls, indexMem[c].locked, Index!Leave(c)
    PROVE  Acts(c, "done", Index!Blank)
  BY MappingBlank DEF Index!Leave, Index!Goto, Index!Remember, Acts, MappingTypes, Index!Label

(* A call that goes on holds the lock with what it read.                     *)
LEMMA MappingGoes ==
    ASSUME MappingTypes, NEW c \in MappingCalls, indexMem[c].locked, NEW m \in Index!Memory, m.locked,
           NEW l \in Repairing \cup Rewriting, Index!Goto(c, l), indexMem' = [indexMem EXCEPT ![c] = m],
           UNCHANGED indexQueue
    PROVE  Acts(c, l, m)
  BY DEF Index!Goto, Acts, MappingTypes, Index!Label, Repairing, Rewriting

(* What it writes has its own change and all that it read.                  *)
LEMMA MappingEdits ==
    ASSUME NoLookups, NEW c \in MappingCalls, NEW value \in Index!Content,
           value.state = "valid" \/ value = Index!Missing, ~Index!NothingToDo(c, value)
    PROVE  /\ Index!Edited(c, value) \in Index!Content /\ Index!Edited(c, value).state = "valid"
           /\ HasEntry(Index!Edited(c, value), c)
           /\ value.entries \subseteq Index!Edited(c, value).entries
           /\ value.purged \subseteq Index!Edited(c, value).purged
<1>1. MappingEntryOf[c] \in MappingEntries /\ MappingKindOf[c] \in {"upsert", "mark"}
  BY RecordsAssumption DEF Index!RecordAssumption, NoLookups, Index!MappingKind
<1>2. CASE MappingKindOf[c] = "mark"
  <2>1. MappingEntryOf[c] \in value.entries /\ value.state = "valid"
    BY <1>2 DEF Index!NothingToDo, Index!Missing
  <2>2. Index!Edited(c, value) = [value EXCEPT !.rev = @ + 1, !.purged = @ \cup {MappingEntryOf[c]}]
    BY <1>2 DEF Index!Edited
  <2>3. /\ Index!Edited(c, value) \in Index!Content /\ Index!Edited(c, value).state = value.state
        /\ Index!Edited(c, value).entries = value.entries
        /\ Index!Edited(c, value).purged = value.purged \cup {MappingEntryOf[c]}
    <3>1. value.rev + 1 \in Nat /\ value.purged \cup {MappingEntryOf[c]} \in SUBSET MappingEntries
      BY <1>1 DEF Index!Content
    <3>2. Index!Edited(c, value) = [state |-> value.state, rev |-> value.rev + 1,
             entries |-> value.entries, purged |-> value.purged \cup {MappingEntryOf[c]}]
      BY <2>2 DEF Index!Content
    <3> QED
      BY <3>1, <3>2 DEF Index!Content
  <2> QED
    BY <1>2, <2>1, <2>3 DEF HasEntry
<1>3. CASE MappingKindOf[c] = "upsert"
  BY <1>1, <1>3 DEF Index!Edited, Index!Content, HasEntry
<1> QED
  BY <1>1, <1>2, <1>3

(* A step of a call: it is at the head, and nobody else is past the reading. *)
LEMMA MappingTurn ==
    ASSUME NoLookups, MappingInv, NEW c \in MappingCalls, Index!Step(c)
    PROVE  /\ AtHead(c) /\ indexMem[c].locked /\ indexMem[c] \in Index!Memory
           /\ indexPc[c] \notin {"idle", "done", "exists", "moveBackup", "movePrimary"}
           /\ indexPc[c] # "writePrimary" => indexGate = NoCaller
           /\ \A d \in MappingCalls : d # c => ~Busy(d)
<1>1. indexPc[c] \notin {"idle", "done"}
  BY DEF Index!Step, Index!Exists, Index!ReadPrimary, Index!ReadBackup, Index!ReadMarker, Index!Quarantine, Index!QuarantineBackup,
     Index!Restore, Index!DropMarker, Index!Condemn, Index!WriteBackup, Index!WritePrimary, Index!MoveBackup, Index!MovePrimary
<1>2. AtHead(c) /\ indexMem[c].locked
  <2>1. CASE indexPc[c] = "readPrimary"
    <3>1. indexMem[c].locked
      BY <2>1 DEF MappingInv, MappingSerial
    <3>2. Index!MyTurn(c)
      BY <2>1 DEF Index!Step, Index!Exists, Index!ReadPrimary, Index!ReadBackup, Index!ReadMarker, Index!Quarantine,
         Index!QuarantineBackup, Index!Restore, Index!DropMarker, Index!Condemn, Index!WriteBackup, Index!WritePrimary,
         Index!MoveBackup, Index!MovePrimary
    <3> QED
      BY <3>1, <3>2 DEF Index!MyTurn, AtHead
  <2>2. CASE indexPc[c] # "readPrimary"
    BY <1>1, <2>2 DEF MappingInv, MappingSerial, Busy
  <2> QED
    BY <2>1, <2>2
<1>3. \A d \in MappingCalls : d # c => ~Busy(d)
  BY <1>2 DEF MappingInv, MappingSerial, AtHead
<1>4. indexPc[c] # "writePrimary" => indexGate = NoCaller
  BY <1>3 DEF MappingInv, MappingTypes, GateHeld, Busy
<1> QED
  BY <1>1, <1>2, <1>3, <1>4 DEF MappingInv, MappingSerial, MappingTypes

(* Who reads goes on to write, or leaves.                                   *)
LEMMA MappingReturns ==
    ASSUME NoLookups, MappingTypes, NEW c \in MappingCalls, indexMem[c].locked, NEW value \in Index!Content,
           value.state = "valid" \/ value = Index!Missing, Index!Return(c, value)
    PROVE  \/ Acts(c, "done", Index!Blank)
           \/ \E m \in Index!Memory :
                /\ Acts(c, "writeBackup", m) /\ m.next.state = "valid"
                /\ HasEntry(m.next, c)
                /\ value.entries \subseteq m.next.entries
                /\ value.purged \subseteq m.next.purged
<1>1. CASE Index!NothingToDo(c, value)
  BY <1>1, MappingLeaves DEF Index!Return, Index!Proceed
<1>2. CASE ~Index!NothingToDo(c, value)
  <2> DEFINE m == [indexMem[c] EXCEPT !.next = Index!Edited(c, value)]
  <2>1. MappingKindOf[c] # "purge"
    BY RecordsAssumption DEF Index!RecordAssumption, NoLookups, Index!MappingKind
  <2>2. Index!Goto(c, "writeBackup") /\ indexMem' = [indexMem EXCEPT ![c] = m] /\ UNCHANGED indexQueue
    BY <1>2, <2>1 DEF Index!Return, Index!Proceed, Index!Remember
  <2>3. indexMem[c] \in Index!Memory /\ Index!Edited(c, value) \in Index!Content
    BY <1>2, MappingEdits DEF MappingTypes
  <2>4. m \in Index!Memory /\ m.locked /\ m.next = Index!Edited(c, value)
    BY <2>3 DEF Index!Memory
  <2>5. "writeBackup" \in Repairing \cup Rewriting
    BY DEF Rewriting
  <2> HIDE DEF m
  <2>6. Acts(c, "writeBackup", m)
    BY <2>2, <2>4, <2>5, MappingGoes
  <2> QED
    BY <1>2, <2>4, <2>6, MappingEdits
<1> QED
  BY <1>1, <1>2

-----------------------------------------------------------------------------
(* Every step keeps the invariant                                           *)

(* What the others keep when one takes a step.                              *)
LEMMA MappingOthers ==
    ASSUME NoLookups, MappingInv, NEW c \in MappingCalls, Index!Step(c), NEW l, NEW m, Acts(c, l, m)
    PROVE  /\ MappingSerial' /\ indexQueue' \in Seq(MappingCalls)
           /\ indexPc' \in [MappingCalls -> Index!Label] /\ indexMem' \in [MappingCalls -> Index!Memory]
           /\ \A d \in MappingCalls : d # c => indexPc'[d] \notin Repairing \cup Rewriting
<1>1. /\ AtHead(c) /\ indexQueue \in Seq(MappingCalls)
      /\ \A d \in MappingCalls : d # c => ~Busy(d)
  BY MappingTurn DEF MappingInv, MappingTypes
<1>2. indexQueue' \in Seq(MappingCalls)
  <2>1. indexQueue # <<>>
    BY <1>1 DEF AtHead
  <2> QED
    BY <1>1, <2>1 DEF Acts
<1>3. \A d \in MappingCalls : d # c => indexPc'[d] \in {"idle", "readPrimary", "done"}
  BY <1>1 DEF Acts, Busy
<1>4. MappingSerial'
  <2> SUFFICES ASSUME NEW d \in MappingCalls
               PROVE  /\ indexPc'[d] \notin {"exists", "moveBackup", "movePrimary"}
                      /\ Busy(d)' => AtHead(d)' /\ indexMem'[d].locked
                      /\ indexPc'[d] = "readPrimary" => indexMem'[d].locked
    BY DEF MappingSerial
  <2>1. CASE d = c
    BY <1>1, <2>1 DEF Acts, Busy, AtHead
  <2>2. CASE d # c
    BY <1>3, <2>2 DEF Acts, Busy, MappingInv, MappingSerial
  <2> QED
    BY <2>1, <2>2
<1> QED
  BY <1>2, <1>3, <1>4 DEF Acts, Repairing, Rewriting

\* What is left to show of a step.
Rest(c) ==
    /\ indexPrimary' \in Index!Content /\ indexBackup' \in Index!Content /\ indexGate' \in MappingCalls \cup {NoCaller}
    /\ indexDamages' \in Nat /\ indexFaults' \in Nat /\ indexCrashes' \in Nat
    /\ indexAcked' \subseteq MappingCalls /\ indexSafe' \subseteq indexAcked' /\ ~indexPurged'
    /\ Index!AckedSurvive' /\ GateHeld' /\ SafeKept(c)'
    /\ OneDamage' => MarkFiles' /\ MarksKept(c)'

(* A step that writes no file and acknowledges nothing keeps the invariant.  *)
LEMMA MappingRest ==
    ASSUME NoLookups, MappingInv, NEW c \in MappingCalls, Index!Step(c), NEW l, NEW m, Acts(c, l, m),
           Rest(c)
    PROVE  MappingInv'
<1>1. /\ MappingSerial' /\ indexQueue' \in Seq(MappingCalls)
      /\ indexPc' \in [MappingCalls -> Index!Label] /\ indexMem' \in [MappingCalls -> Index!Memory]
      /\ \A d \in MappingCalls : d # c => indexPc'[d] \notin Repairing \cup Rewriting
  BY MappingOthers
<1>2. \A d \in MappingCalls : d # c => SafeKept(d)' /\ MarksKept(d)'
  BY <1>1 DEF SafeKept, MarksKept, Repairing, Rewriting
<1>3. MappingTypes'
  BY <1>1 DEF Rest, MappingTypes
<1> QED
  BY <1>1, <1>2, <1>3 DEF Rest, MappingInv

(* What the files have stays when they and the answers do.                  *)
LEMMA MappingQuiet ==
    ASSUME NoLookups, MappingInv, NEW c \in MappingCalls, Index!Step(c), indexPc[c] # "writePrimary",
           UNCHANGED <<indexPrimary, indexBackup, indexGate, Index!bounds, Index!history>>,
           SafeKept(c)', OneDamage => MarksKept(c)'
    PROVE  Rest(c)
<1>1. indexGate = NoCaller
  BY MappingTurn
<1>2. /\ indexPrimary' = indexPrimary /\ indexBackup' = indexBackup /\ indexGate' = indexGate /\ indexDamages' = indexDamages
      /\ indexFaults' = indexFaults /\ indexCrashes' = indexCrashes /\ indexAcked' = indexAcked /\ indexSafe' = indexSafe
      /\ indexPurged' = indexPurged
  BY DEF Index!bounds, Index!history
<1>3. Index!AckedSurvive' /\ ~indexPurged'
  BY <1>2 DEF MappingInv, Index!AckedSurvive
<1>4. Marked' = Marked /\ OneDamage' = OneDamage
  BY <1>2 DEF Marked, OneDamage
<1>5. OneDamage => MarkFiles'
  BY <1>2, <1>4 DEF MappingInv, MarkFiles, HasMarks
<1>6. GateHeld'
  BY <1>1, <1>2 DEF GateHeld
<1> QED
  BY <1>2, <1>3, <1>4, <1>5, <1>6 DEF Rest, MappingInv, MappingTypes

(* Who leaves stands nowhere.                                               *)
LEMMA MappingLeft ==
    ASSUME NEW c \in MappingCalls, NEW m, Acts(c, "done", m)
    PROVE  SafeKept(c)' /\ MarksKept(c)'
  BY DEF Acts, SafeKept, MarksKept, Repairing, Rewriting

(* Who found a copy and goes on to write.                                   *)
LEMMA MappingFound ==
    ASSUME NoLookups, MappingInv, NEW c \in MappingCalls, Index!Step(c), indexMem[c].locked,
           UNCHANGED <<indexPrimary, indexBackup, indexGate, Index!bounds, Index!history>>, indexPc[c] # "writePrimary",
           NEW value \in Index!Content, value.state = "valid" \/ value = Index!Missing, Index!Return(c, value),
           \A d \in indexSafe : HasEntry(value, d),
           OneDamage /\ Marked # {} => value.state = "valid" /\ HasMarks(value)
    PROVE  MappingInv'
<1>0. MappingTypes
  BY DEF MappingInv
<1>1. CASE Acts(c, "done", Index!Blank)
  BY <1>1, MappingLeft, MappingQuiet, MappingRest
<1>2. ASSUME NEW m \in Index!Memory, Acts(c, "writeBackup", m), m.next.state = "valid",
             HasEntry(m.next, c), value.entries \subseteq m.next.entries,
             value.purged \subseteq m.next.purged
      PROVE  MappingInv'
  <2>1. indexPc'[c] = "writeBackup" /\ indexMem'[c] = m
    BY <1>2 DEF Acts
  <2>2. indexSafe' = indexSafe /\ Marked' = Marked /\ indexBackup' = indexBackup /\ indexDamages' = indexDamages
    BY DEF Index!history, Index!bounds, Marked
  <2>3. \A d \in indexSafe : HasEntry(m.next, d)
    BY <1>2 DEF HasEntry
  <2>4. SafeKept(c)'
    BY <1>2, <2>1, <2>2, <2>3 DEF SafeKept, Repairing, HasEntry
  <2>5. OneDamage => HasMarks(m.next)
    BY <1>2 DEF HasMarks
  <2>6. OneDamage => MarksKept(c)'
    BY <2>1, <2>2, <2>5 DEF MarksKept, Repairing, HasMarks
  <2> QED
    BY <1>2, <2>4, <2>6, MappingQuiet, MappingRest
<1> QED
  BY <1>0, <1>1, <1>2, MappingReturns

(* Its first read, under the lock.                                          *)
LEMMA MappingReadPrimary ==
    ASSUME NoLookups, MappingInv, NEW c \in MappingCalls, Index!ReadPrimary(c)
    PROVE  MappingInv'
<1>0. Index!Step(c)
  BY DEF Index!Step
<1>1. /\ indexMem[c].locked /\ indexMem[c] \in Index!Memory /\ indexPc[c] # "writePrimary" /\ indexGate = NoCaller
      /\ MappingTypes /\ UNCHANGED <<indexPrimary, indexBackup, indexGate, Index!bounds, Index!history>>
  BY <1>0, MappingTurn DEF Index!ReadPrimary, Index!files, MappingInv
<1>2. /\ \A d \in indexSafe : HasEntry(indexPrimary, d)
      /\ OneDamage => MarkFiles
  BY DEF MappingInv, Index!AckedSurvive, HasEntry
<1>3. CASE indexPrimary.state = "valid"
  <2>1. Index!Return(c, indexPrimary) /\ indexPrimary \in Index!Content
    BY <1>1, <1>3 DEF Index!ReadPrimary, MappingTypes
  <2>2. OneDamage /\ Marked # {} => indexPrimary.state = "valid" /\ HasMarks(indexPrimary)
    BY <1>2, <1>3 DEF MarkFiles
  <2> QED
    BY <1>0, <1>1, <1>2, <1>3, <2>1, <2>2, MappingFound
<1>4. CASE indexPrimary.state # "valid"
  <2> DEFINE m == [indexMem[c] EXCEPT !.primary = indexPrimary]
  <2>1. m \in Index!Memory /\ m.locked
    BY <1>1, MappingMemory DEF MappingTypes
  <2>2. Index!Goto(c, "readBackup") /\ indexMem' = [indexMem EXCEPT ![c] = m] /\ UNCHANGED indexQueue
    BY <1>4 DEF Index!ReadPrimary, Index!Remember
  <2> HIDE DEF m
  <2>3. Acts(c, "readBackup", m)
    BY <1>1, <2>1, <2>2, MappingGoes DEF Repairing
  <2>4. indexPc'[c] = "readBackup" /\ indexSafe' = indexSafe /\ Marked' = Marked /\ indexBackup' = indexBackup
        /\ indexDamages' = indexDamages
    BY <1>1, <2>3 DEF Acts, Index!history, Index!bounds, Marked
  <2>5. indexSafe = {}
    BY <1>2, <1>4 DEF HasEntry
  <2>6. OneDamage /\ Marked # {} => indexBackup.state = "valid" /\ indexDamages # 0
    BY <1>1, <1>2, <1>4 DEF MarkFiles
  <2>7. SafeKept(c)'
    BY <2>4, <2>5 DEF SafeKept, Rewriting
  <2>8. OneDamage => MarksKept(c)'
    BY <2>4, <2>6 DEF MarksKept, Rewriting
  <2> QED
    BY <1>0, <1>1, <2>3, <2>7, <2>8, MappingQuiet, MappingRest
<1> QED
  BY <1>3, <1>4

(* Reading the second copy: what it proves is on disk while the lock is held.*)
LEMMA MappingReadBackup ==
    ASSUME NoLookups, MappingInv, NEW c \in MappingCalls, Index!ReadBackup(c)
    PROVE  MappingInv'
<1>0. Index!Step(c)
  BY DEF Index!Step
<1>1. /\ indexMem[c].locked /\ indexMem[c] \in Index!Memory /\ indexPc[c] = "readBackup" /\ indexGate = NoCaller
      /\ MappingTypes /\ UNCHANGED <<indexPrimary, indexBackup, indexGate, Index!bounds, Index!history>>
  BY <1>0, MappingTurn DEF Index!ReadBackup, Index!files, MappingInv
<1>2. indexSafe = {} /\ (OneDamage /\ Marked # {} => indexDamages # 0 /\ indexBackup.state = "valid")
  BY <1>1 DEF MappingInv, SafeKept, MarksKept, Repairing
<1> DEFINE m == [indexMem[c] EXCEPT !.backup = indexBackup]
           l == Index!AfterBackup(indexMem[c], indexBackup)
<1>3. m \in Index!Memory /\ m.locked /\ m.backup = indexBackup
  BY <1>1, MappingMemory DEF MappingTypes
<1>4. /\ l \in {"readMarker", "quarantine", "restore", "quarantineBackup"}
      /\ l = "restore" => indexBackup.state = "valid"
      /\ indexBackup.state = "valid" => l \in {"quarantine", "restore"}
  BY DEF Index!AfterBackup
<1>5. Index!Goto(c, l) /\ indexMem' = [indexMem EXCEPT ![c] = m] /\ UNCHANGED indexQueue
  BY DEF Index!ReadBackup, Index!Remember
<1> HIDE DEF m, l
<1>6. Acts(c, l, m)
  BY <1>1, <1>3, <1>4, <1>5, MappingGoes DEF Repairing
<1>7. indexPc'[c] = l /\ indexMem'[c] = m /\ indexSafe' = indexSafe /\ Marked' = Marked /\ indexBackup' = indexBackup
      /\ indexDamages' = indexDamages
  BY <1>1, <1>6 DEF Acts, Index!history, Index!bounds, Marked
<1>8. SafeKept(c)'
  BY <1>2, <1>3, <1>4, <1>7 DEF SafeKept, Rewriting
<1>9. OneDamage => MarksKept(c)'
  BY <1>2, <1>3, <1>4, <1>7 DEF MarksKept, Rewriting, Repairing
<1> QED
  BY <1>0, <1>1, <1>6, <1>8, <1>9, MappingQuiet, MappingRest

(* Reading the transaction marker of an interrupted write.                   *)
LEMMA MappingReadMarker ==
    ASSUME NoLookups, MappingInv, NEW c \in MappingCalls, Index!ReadMarker(c)
    PROVE  MappingInv'
<1>0. Index!Step(c)
  BY DEF Index!Step
<1>1. /\ indexMem[c].locked /\ indexPc[c] = "readMarker" /\ MappingTypes
      /\ UNCHANGED <<indexPrimary, indexBackup, indexGate, Index!bounds, Index!history>>
  BY <1>0, MappingTurn DEF Index!ReadMarker, Index!files, MappingInv
<1>2. indexSafe = {} /\ (OneDamage => Marked = {})
  BY <1>1 DEF MappingInv, SafeKept, MarksKept, Repairing
<1>3. CASE Index!Leave(c)
  BY <1>0, <1>1, <1>3, MappingLeaves, MappingLeft, MappingQuiet, MappingRest
<1>4. CASE Index!Return(c, Index!Missing)
  BY <1>0, <1>1, <1>2, <1>4, MappingBlank, MappingFound
<1> QED
  BY <1>3, <1>4 DEF Index!ReadMarker

(* The invalid primary is renamed away; the backup is all there is.         *)
LEMMA MappingQuarantine ==
    ASSUME NoLookups, MappingInv, NEW c \in MappingCalls, Index!Quarantine(c)
    PROVE  MappingInv'
<1>0. Index!Step(c)
  BY DEF Index!Step
<1>1. /\ indexMem[c].locked /\ indexMem[c] \in Index!Memory /\ indexPc[c] = "quarantine" /\ indexGate = NoCaller
      /\ MappingTypes /\ UNCHANGED <<indexBackup, indexGate, Index!bounds, Index!history>>
  BY <1>0, MappingTurn DEF Index!Quarantine, MappingInv
<1>2. indexSafe = {} /\ (OneDamage /\ Marked # {} =>
         indexDamages # 0 /\ indexBackup.state = "valid" /\ indexMem[c].backup = indexBackup)
  BY <1>1 DEF MappingInv, SafeKept, MarksKept, Repairing
<1>3. CASE Index!Leave(c) /\ UNCHANGED indexPrimary
  BY <1>0, <1>1, <1>3, MappingLeaves, MappingLeft, MappingQuiet, MappingRest
<1>4. CASE indexPrimary' = Index!Missing /\ Index!Goto(c, Index!AfterQuarantine(indexMem[c].backup)) /\ UNCHANGED <<indexMem, indexQueue>>
  <2> DEFINE m == indexMem[c]
             l == Index!AfterQuarantine(indexMem[c].backup)
  <2>1. /\ l \in {"restore", "quarantineBackup", "condemn"}
        /\ l = "restore" <=> indexMem[c].backup.state = "valid"
    BY DEF Index!AfterQuarantine
  <2>2. indexMem' = [indexMem EXCEPT ![c] = m]
    BY <1>1, <1>4 DEF MappingTypes
  <2>3. Acts(c, l, m)
    BY <1>1, <1>4, <2>1, <2>2, MappingGoes DEF Repairing
  <2>4. indexPc'[c] = l /\ indexMem'[c] = indexMem[c] /\ indexSafe' = indexSafe /\ Marked' = Marked
        /\ indexBackup' = indexBackup /\ indexDamages' = indexDamages /\ OneDamage' = OneDamage
    BY <1>1, <2>3 DEF Acts, Index!history, Index!bounds, Marked, OneDamage
  <2> HIDE DEF l
  <2>5. SafeKept(c)'
    BY <1>2, <2>1, <2>4 DEF SafeKept, Rewriting
  <2>6. OneDamage => MarksKept(c)'
    BY <1>2, <2>1, <2>4 DEF MarksKept, Rewriting, Repairing
  <2>7. OneDamage => MarkFiles'
    BY <1>2, <1>4, <2>4, MappingBlank DEF MarkFiles, HasMarks, MappingInv
  <2>8. Index!AckedSurvive' /\ GateHeld' /\ indexPrimary' \in Index!Content
    BY <1>1, <1>2, <1>4, <2>4, MappingBlank DEF Index!AckedSurvive, GateHeld, MappingInv
  <2>9. Rest(c)
    BY <1>1, <2>4, <2>5, <2>6, <2>7, <2>8 DEF Rest, MappingInv, MappingTypes, Index!bounds, Index!history
  <2> QED
    BY <1>0, <2>3, <2>9, MappingRest
<1> QED
  BY <1>3, <1>4 DEF Index!Quarantine

(* An invalid backup goes as well: there was nothing to keep.               *)
LEMMA MappingQuarantineBackup ==
    ASSUME NoLookups, MappingInv, NEW c \in MappingCalls, Index!QuarantineBackup(c)
    PROVE  MappingInv'
<1>0. Index!Step(c)
  BY DEF Index!Step
<1>1. /\ indexMem[c].locked /\ indexMem[c] \in Index!Memory /\ indexPc[c] = "quarantineBackup" /\ indexGate = NoCaller
      /\ MappingTypes /\ UNCHANGED <<indexPrimary, indexGate, Index!bounds, Index!history>>
  BY <1>0, MappingTurn DEF Index!QuarantineBackup, MappingInv
<1>2. indexSafe = {} /\ (OneDamage => Marked = {})
  BY <1>1 DEF MappingInv, SafeKept, MarksKept, Repairing
<1>3. CASE Index!Leave(c) /\ UNCHANGED indexBackup
  BY <1>0, <1>1, <1>3, MappingLeaves, MappingLeft, MappingQuiet, MappingRest
<1>4. CASE indexBackup' = Index!Missing /\ Index!Goto(c, "condemn") /\ UNCHANGED <<indexMem, indexQueue>>
  <2>1. indexMem' = [indexMem EXCEPT ![c] = indexMem[c]]
    BY <1>1, <1>4 DEF MappingTypes
  <2>2. Acts(c, "condemn", indexMem[c])
    BY <1>1, <1>4, <2>1, MappingGoes DEF Repairing
  <2>3. indexPc'[c] = "condemn" /\ indexMem'[c] = indexMem[c] /\ indexSafe' = indexSafe /\ Marked' = Marked
        /\ indexDamages' = indexDamages /\ OneDamage' = OneDamage
    BY <1>1, <2>2 DEF Acts, Index!history, Index!bounds, Marked, OneDamage
  <2>4. SafeKept(c)'
    BY <1>2, <2>3 DEF SafeKept, Rewriting
  <2>5. OneDamage => MarksKept(c)'
    BY <1>2, <2>3 DEF MarksKept, Rewriting, Repairing
  <2>6. OneDamage => MarkFiles'
    BY <1>1, <1>2, <1>4, <2>3, MappingBlank DEF MarkFiles, HasMarks, MappingInv
  <2>7. Index!AckedSurvive' /\ GateHeld' /\ indexBackup' \in Index!Content
    BY <1>1, <1>2, <1>4, <2>3, MappingBlank DEF Index!AckedSurvive, GateHeld, MappingInv
  <2>8. Rest(c)
    BY <1>1, <2>3, <2>4, <2>5, <2>6, <2>7 DEF Rest, MappingInv, MappingTypes, Index!bounds, Index!history
  <2> QED
    BY <1>0, <2>2, <2>8, MappingRest
<1> QED
  BY <1>3, <1>4 DEF Index!QuarantineBackup

(* The backup becomes the primary.                                          *)
LEMMA MappingRestore ==
    ASSUME NoLookups, MappingInv, NEW c \in MappingCalls, Index!Restore(c)
    PROVE  MappingInv'
<1>0. Index!Step(c)
  BY DEF Index!Step
<1>1. /\ indexMem[c].locked /\ indexMem[c] \in Index!Memory /\ indexPc[c] = "restore" /\ indexGate = NoCaller
      /\ MappingTypes /\ UNCHANGED <<indexBackup, indexGate, Index!bounds, Index!history>>
      /\ indexPrimary' = indexMem[c].backup /\ indexMem[c].backup \in Index!Content
  BY <1>0, MappingTurn, MappingMemory, MappingBlank DEF Index!Restore, MappingInv
<1>2. /\ indexSafe = {} /\ indexMem[c].backup.state = "valid"
      /\ OneDamage /\ Marked # {} =>
            indexDamages # 0 /\ indexBackup.state = "valid" /\ indexMem[c].backup = indexBackup
  BY <1>1 DEF MappingInv, SafeKept, MarksKept, Repairing
<1>3. indexMem' = [indexMem EXCEPT ![c] = indexMem[c]] /\ Index!Goto(c, "dropMarker") /\ UNCHANGED indexQueue
  BY <1>1 DEF Index!Restore, MappingTypes
<1>4. Acts(c, "dropMarker", indexMem[c])
  BY <1>1, <1>3, MappingGoes DEF Repairing
<1>5. indexPc'[c] = "dropMarker" /\ indexMem'[c] = indexMem[c] /\ indexSafe' = indexSafe /\ Marked' = Marked
      /\ indexBackup' = indexBackup /\ indexDamages' = indexDamages /\ OneDamage' = OneDamage
  BY <1>1, <1>4 DEF Acts, Index!history, Index!bounds, Marked, OneDamage
<1>6. SafeKept(c)'
  BY <1>2, <1>5 DEF SafeKept, Rewriting
<1>7. OneDamage => MarksKept(c)'
  BY <1>2, <1>5 DEF MarksKept, Rewriting, Repairing
<1>8. OneDamage => MarkFiles'
  <2> SUFFICES ASSUME OneDamage PROVE MarkFiles'
    OBVIOUS
  <2>1. HasMarks(indexBackup)
    BY DEF MappingInv, MarkFiles
  <2>2. HasMarks(indexPrimary)' /\ HasMarks(indexBackup)'
    BY <1>1, <1>2, <1>5, <2>1 DEF HasMarks
  <2> QED
    BY <1>1, <1>2, <1>5, <2>2 DEF MarkFiles
<1>9. Index!AckedSurvive' /\ GateHeld'
  BY <1>1, <1>2, <1>5 DEF Index!AckedSurvive, GateHeld
<1>10. Rest(c)
  BY <1>1, <1>5, <1>6, <1>7, <1>8, <1>9 DEF Rest, MappingInv, MappingTypes, Index!bounds, Index!history
<1> QED
  BY <1>0, <1>4, <1>10, MappingRest

(* The marker goes once both copies hold what was written.                   *)
LEMMA MappingDropMarker ==
    ASSUME NoLookups, MappingInv, NEW c \in MappingCalls, Index!DropMarker(c)
    PROVE  MappingInv'
<1>0. Index!Step(c)
  BY DEF Index!Step
<1>1. /\ indexMem[c].locked /\ indexMem[c] \in Index!Memory /\ indexPc[c] = "dropMarker" /\ indexMem[c].backup \in Index!Content
      /\ UNCHANGED <<indexPrimary, indexBackup, indexGate, Index!bounds, Index!history>> /\ Index!Return(c, indexMem[c].backup)
  BY <1>0, MappingTurn, MappingMemory, MappingBlank DEF Index!DropMarker, MappingInv
<1>2. /\ indexSafe = {} /\ indexMem[c].backup.state = "valid"
      /\ OneDamage /\ Marked # {} => indexMem[c].backup = indexBackup
  BY <1>1 DEF MappingInv, SafeKept, MarksKept, Repairing
<1>3. OneDamage => HasMarks(indexBackup)
  BY DEF MappingInv, MarkFiles
<1>4. OneDamage /\ Marked # {} => HasMarks(indexMem[c].backup)
  BY <1>2, <1>3
<1> QED
  BY <1>0, <1>1, <1>2, <1>4, MappingFound

(* A pair of files neither of which can be read is condemned, not rewritten. *)
LEMMA MappingCondemn ==
    ASSUME NoLookups, MappingInv, NEW c \in MappingCalls, Index!Condemn(c)
    PROVE  MappingInv'
<1>0. Index!Step(c)
  BY DEF Index!Step
<1>1. /\ indexMem[c].locked /\ indexPc[c] = "condemn" /\ MappingTypes /\ Index!Leave(c)
      /\ UNCHANGED <<indexPrimary, indexBackup, indexGate, Index!bounds, Index!history>>
  BY <1>0, MappingTurn DEF Index!Condemn, MappingInv
<1> QED
  BY <1>0, <1>1, MappingLeaves, MappingLeft, MappingQuiet, MappingRest

(* The backup takes the primary as it is, or the new content.               *)
LEMMA MappingWriteBackup ==
    ASSUME NoLookups, MappingInv, NEW c \in MappingCalls, Index!WriteBackup(c)
    PROVE  MappingInv'
<1>0. Index!Step(c)
  BY DEF Index!Step
<1>1. /\ indexMem[c].locked /\ indexMem[c] \in Index!Memory /\ indexPc[c] = "writeBackup" /\ indexGate = NoCaller
      /\ MappingTypes /\ UNCHANGED <<indexPrimary, indexDamages, indexCrashes, Index!history>>
      /\ indexMem[c].next \in Index!Content /\ NoCaller \notin MappingCalls
  BY <1>0, MappingTurn, MappingMemory, MappingBlank, RecordsAssumption
     DEF Index!RecordAssumption, Index!WriteBackup, MappingInv
<1>2. /\ \A d \in indexSafe \cup {c} : HasEntry(indexMem[c].next, d)
      /\ OneDamage => HasMarks(indexMem[c].next) /\ MarkFiles
  BY <1>1 DEF MappingInv, SafeKept, MarksKept, Rewriting
<1>3. /\ indexSafe' = indexSafe /\ indexAcked' = indexAcked /\ indexPurged' = indexPurged /\ Marked' = Marked
      /\ indexPrimary' = indexPrimary /\ indexDamages' = indexDamages /\ indexCrashes' = indexCrashes
  BY <1>1 DEF Index!history, Marked
<1>4. Index!AckedSurvive' /\ ~indexPurged'
  BY <1>3 DEF Index!AckedSurvive, MappingInv
<1>5. CASE indexBackup' = Index!BackupOf(c) /\ indexGate' = c /\ Index!Goto(c, "writePrimary") /\ UNCHANGED <<indexMem, indexQueue, indexFaults>>
  <2>1. indexMem' = [indexMem EXCEPT ![c] = indexMem[c]]
    BY <1>1, <1>5 DEF MappingTypes
  <2>2. Acts(c, "writePrimary", indexMem[c])
    BY <1>1, <1>5, <2>1, MappingGoes DEF Rewriting
  <2>3. indexPc'[c] = "writePrimary" /\ indexMem'[c] = indexMem[c] /\ OneDamage' = OneDamage
    BY <1>3, <1>5, <2>2 DEF Acts, OneDamage
  <2>4. SafeKept(c)'
    BY <1>2, <1>3, <2>3 DEF SafeKept, Repairing
  <2>5. MappingKindOf[c] = "mark" => indexBackup' = indexMem[c].next
    BY <1>5 DEF Index!BackupOf
  <2>6. OneDamage => MarksKept(c)'
    BY <1>2, <1>3, <1>5, <2>3, <2>5 DEF MarksKept, Repairing, HasMarks
  <2>7. OneDamage => MarkFiles'
    <3> SUFFICES ASSUME OneDamage PROVE MarkFiles'
      OBVIOUS
    <3>1. HasMarks(indexPrimary) /\ HasMarks(indexMem[c].next) /\ HasEntry(indexMem[c].next, c)
      BY <1>2 DEF MarkFiles
    <3>2. indexBackup' \in {indexPrimary, indexMem[c].next}
      BY <1>5 DEF Index!BackupOf
    <3>3. HasMarks(indexPrimary)' /\ HasMarks(indexBackup)'
      BY <1>3, <3>1, <3>2 DEF HasMarks
    <3>4. Marked # {} /\ indexDamages = 0 => indexPrimary.state = "valid"
      BY <1>2 DEF MarkFiles
    <3>5. Marked # {} /\ indexDamages = 0 => indexBackup'.state = "valid"
      BY <3>1, <3>2, <3>4 DEF HasEntry
    <3> QED
      BY <1>1, <1>3, <1>5, <3>3, <3>4, <3>5 DEF MarkFiles
  <2>8. GateHeld' /\ indexBackup' \in Index!Content /\ indexFaults' \in Nat
    BY <1>1, <1>5, <2>3 DEF GateHeld, Index!BackupOf, MappingTypes
  <2>9. Rest(c)
    BY <1>1, <1>3, <1>4, <1>5, <2>3, <2>4, <2>6, <2>7, <2>8 DEF Rest, MappingTypes
  <2> QED
    BY <1>0, <2>2, <2>9, MappingRest
<1>6. CASE Index!Fault /\ Index!Leave(c) /\ UNCHANGED <<indexBackup, indexGate>>
  <2>1. Acts(c, "done", Index!Blank)
    BY <1>1, <1>6, MappingLeaves
  <2>2. indexFaults' = indexFaults + 1 /\ indexFaults \in Nat
    BY <1>1, <1>6 DEF Index!Fault, MappingTypes
  <2>3. OneDamage' => OneDamage
    BY <1>3, <2>2 DEF OneDamage
  <2>4. OneDamage => MarkFiles'
    BY <1>2, <1>3, <1>6 DEF MarkFiles, HasMarks
  <2>5. SafeKept(c)' /\ MarksKept(c)'
    BY <2>1, MappingLeft
  <2>6. GateHeld'
    BY <1>1, <1>6 DEF GateHeld
  <2>7. Rest(c)
    BY <1>1, <1>3, <1>4, <1>6, <2>2, <2>3, <2>4, <2>5, <2>6 DEF Rest, MappingTypes
  <2> QED
    BY <1>0, <2>1, <2>7, MappingRest
<1> QED
  BY <1>5, <1>6 DEF Index!WriteBackup

(* The write of the primary is what is acknowledged.                        *)
LEMMA MappingWritePrimary ==
    ASSUME NoLookups, MappingInv, NEW c \in MappingCalls, Index!WritePrimary(c)
    PROVE  MappingInv'
<1>0. Index!Step(c)
  BY DEF Index!Step
<1>1. /\ indexMem[c].locked /\ indexPc[c] = "writePrimary" /\ MappingTypes /\ Index!Leave(c)
      /\ UNCHANGED <<indexBackup, indexMarker, indexDamages, indexCrashes, indexPurged>> /\ indexGate' = NoCaller
      /\ indexMem[c].next \in Index!Content
  BY <1>0, MappingTurn, MappingMemory, MappingBlank DEF Index!WritePrimary, MappingInv
<1>2. /\ \A d \in indexSafe \cup {c} : HasEntry(indexMem[c].next, d)
      /\ OneDamage => HasMarks(indexMem[c].next) /\ MarkFiles
      /\ OneDamage /\ MappingKindOf[c] = "mark" => indexBackup = indexMem[c].next \/ (indexBackup = Index!Invalid /\ indexDamages # 0)
  BY <1>1 DEF MappingInv, SafeKept, MarksKept, Rewriting
<1>3. Acts(c, "done", Index!Blank)
  BY <1>1, MappingLeaves
<1>4. SafeKept(c)' /\ MarksKept(c)' /\ GateHeld' /\ ~indexPurged'
  BY <1>1, <1>3, MappingLeft DEF GateHeld, MappingInv
<1>5. CASE /\ indexPrimary' = indexMem[c].next /\ indexAcked' = indexAcked \cup {c} /\ indexSafe' = indexSafe \cup {c}
           /\ UNCHANGED indexFaults
  <2>1. OneDamage' = OneDamage
    BY <1>1, <1>5 DEF OneDamage
  <2>2. Marked' \subseteq Marked \cup {c}
    BY <1>5 DEF Marked
  <2>3. MappingKindOf[c] # "mark" => Marked' = Marked
    BY <1>5 DEF Marked
  <2>4. HasEntry(indexMem[c].next, c) /\ indexMem[c].next.state = "valid"
    BY <1>2 DEF HasEntry
  <2>5. OneDamage => MarkFiles'
    <3> SUFFICES ASSUME OneDamage PROVE MarkFiles'
      OBVIOUS
    <3>1. \A d \in Marked' : MappingEntryOf[d] \in indexMem[c].next.purged
      <4>1. \A d \in Marked : MappingEntryOf[d] \in indexMem[c].next.purged
        BY <1>2, <2>4 DEF HasMarks
      <4>2. MappingKindOf[c] = "mark" => MappingEntryOf[c] \in indexMem[c].next.purged
        BY <2>4 DEF HasEntry
      <4> QED
        BY <2>2, <2>3, <4>1, <4>2
    <3>2. HasMarks(indexPrimary)'
      BY <1>5, <3>1 DEF HasMarks
    <3>3. HasMarks(indexBackup)'
      <4>1. CASE MappingKindOf[c] = "mark"
        BY <1>1, <1>2, <3>1, <4>1, MappingBlank DEF HasMarks
      <4>2. CASE MappingKindOf[c] # "mark"
        BY <1>1, <1>2, <2>3, <4>2 DEF MarkFiles, HasMarks
      <4> QED
        BY <4>1, <4>2
    <3>4. Marked' # {} /\ indexDamages = 0 => indexBackup.state = "valid"
      <4>1. CASE MappingKindOf[c] = "mark"
        BY <1>2, <2>4, <4>1
      <4>2. CASE MappingKindOf[c] # "mark"
        BY <1>2, <2>3, <4>2 DEF MarkFiles
      <4> QED
        BY <4>1, <4>2
    <3> QED
      BY <1>1, <1>5, <2>4, <3>2, <3>3, <3>4 DEF MarkFiles
  <2>6. Index!AckedSurvive'
    <3>1. \A d \in indexSafe' : HasEntry(indexPrimary', d)
      BY <1>2, <1>5
    <3> QED
      BY <3>1 DEF Index!AckedSurvive, HasEntry
  <2>7. Rest(c)
    BY <1>1, <1>4, <1>5, <2>1, <2>5, <2>6 DEF Rest, MappingTypes
  <2> QED
    BY <1>0, <1>3, <2>7, MappingRest
<1>6. CASE Index!Fault /\ UNCHANGED <<indexPrimary, indexCreated, indexAcked, indexSafe>>
  <2>1. indexFaults' = indexFaults + 1 /\ indexFaults \in Nat /\ Marked' = Marked
    BY <1>1, <1>6 DEF Index!Fault, MappingTypes, Marked
  <2>2. OneDamage' => OneDamage /\ indexDamages = 0
    BY <1>1, <2>1 DEF OneDamage, MappingTypes
  <2>3. OneDamage' => MarkFiles'
    BY <1>1, <1>2, <1>6, <2>1, <2>2 DEF MarkFiles, HasMarks
  <2>4. Index!AckedSurvive'
    BY <1>1, <1>6 DEF Index!AckedSurvive, MappingInv
  <2>5. Rest(c)
    BY <1>1, <1>4, <1>6, <2>1, <2>3, <2>4 DEF Rest, MappingTypes
  <2> QED
    BY <1>0, <1>3, <2>5, MappingRest
<1> QED
  BY <1>5, <1>6 DEF Index!WritePrimary

(* A call comes in and queues.                                              *)
LEMMA MappingBegin ==
    ASSUME NoLookups, MappingInv, NEW c \in MappingCalls, Index!Begin(c)
    PROVE  MappingInv'
<1>1. MappingKindOf[c] \in {"upsert", "mark"} /\ MappingTypes /\ indexPc[c] = "idle"
  BY RecordsAssumption DEF Index!RecordAssumption, NoLookups, Index!MappingKind, MappingInv, Index!Begin
<1>2. /\ indexPc' = [indexPc EXCEPT ![c] = "readPrimary"] /\ indexQueue' = Append(indexQueue, c)
      /\ indexMem' = [indexMem EXCEPT ![c] = [Index!Blank EXCEPT !.locked = TRUE]]
  BY <1>1 DEF Index!Begin, Index!Goto, Index!Remember, Index!Locking
<1>3. /\ indexPc' \in [MappingCalls -> Index!Label] /\ indexMem' \in [MappingCalls -> Index!Memory] /\ indexQueue' \in Seq(MappingCalls)
      /\ indexPc'[c] = "readPrimary" /\ indexMem'[c].locked
      /\ \A d \in MappingCalls : d # c => indexPc'[d] = indexPc[d] /\ indexMem'[d] = indexMem[d]
  BY <1>1, <1>2, MappingBlank DEF MappingTypes, Index!Label
<1>4. /\ indexPrimary' = indexPrimary /\ indexBackup' = indexBackup /\ indexGate' = indexGate /\ indexDamages' = indexDamages
      /\ indexFaults' = indexFaults /\ indexCrashes' = indexCrashes /\ indexAcked' = indexAcked /\ indexSafe' = indexSafe
      /\ indexPurged' = indexPurged /\ Marked' = Marked /\ OneDamage' = OneDamage
  BY DEF Index!Begin, Index!files, Index!bounds, Index!history, Marked, OneDamage
<1>5. MappingTypes'
  BY <1>1, <1>3, <1>4 DEF MappingTypes
<1>6. MappingSerial'
  <2>1. \A d \in MappingCalls : AtHead(d) => AtHead(d)'
    BY <1>1, <1>2 DEF AtHead, MappingTypes
  <2> QED
    BY <1>3, <2>1 DEF MappingInv, MappingSerial, Busy
<1>7. Index!AckedSurvive' /\ ~indexPurged'
  BY <1>4 DEF Index!AckedSurvive, MappingInv
<1>8. GateHeld'
  BY <1>1, <1>3, <1>4 DEF GateHeld, MappingInv, MappingTypes
<1>9. SafeKept(c)' /\ MarksKept(c)'
  BY <1>3 DEF SafeKept, MarksKept, Repairing, Rewriting
<1>10. \A d \in MappingCalls : SafeKept(d)'
  BY <1>3, <1>4, <1>9 DEF MappingInv, SafeKept
<1>11. OneDamage => \A d \in MappingCalls : MarksKept(d)'
  BY <1>3, <1>4, <1>9 DEF MappingInv, MarksKept, HasMarks
<1>12. OneDamage => MarkFiles'
  BY <1>4 DEF MappingInv, MarkFiles, HasMarks
<1> QED
  BY <1>4, <1>5, <1>6, <1>7, <1>8, <1>10, <1>11, <1>12 DEF MappingInv

(* A file is torn or edited; what was valid is not any more.                *)
LEMMA MappingDamage ==
    ASSUME NoLookups, MappingInv, Index!Damage
    PROVE  MappingInv'
<1>1. /\ MappingTypes /\ indexDamages' = indexDamages + 1 /\ indexSafe' = {} /\ indexAcked' = indexAcked
      /\ indexPc' = indexPc /\ indexMem' = indexMem /\ indexQueue' = indexQueue /\ indexGate' = indexGate /\ indexFaults' = indexFaults
      /\ indexCrashes' = indexCrashes /\ indexPurged' = indexPurged /\ Marked' = Marked
      /\ \/ indexPrimary.state = "valid" /\ indexPrimary' = Index!Invalid /\ indexBackup' = indexBackup
         \/ indexBackup.state = "valid" /\ indexBackup' = Index!Invalid /\ indexPrimary' = indexPrimary
  BY DEF Index!Damage, MappingInv, Marked
<1>2. MappingTypes'
  BY <1>1, MappingBlank DEF MappingTypes
<1>3. MappingSerial' /\ Index!AckedSurvive' /\ GateHeld' /\ ~indexPurged'
  BY <1>1 DEF MappingInv, MappingSerial, AtHead, Busy, Index!AckedSurvive, GateHeld
<1>4. \A d \in MappingCalls : SafeKept(d)'
  BY <1>1 DEF MappingInv, SafeKept
<1>5. ASSUME OneDamage' PROVE MarkFiles' /\ \A d \in MappingCalls : MarksKept(d)'
  <2>1. indexDamages = 0 /\ OneDamage /\ indexDamages' = 1
    BY <1>1, <1>5 DEF OneDamage, MappingTypes
  <2>2. MarkFiles'
    <3>1. HasMarks(indexPrimary)' /\ HasMarks(indexBackup)'
      BY <1>1, <2>1, MappingBlank DEF MappingInv, MarkFiles, HasMarks
    <3> QED
      BY <1>1, <2>1, <3>1 DEF MappingInv, MarkFiles
  <2>3. ASSUME NEW d \in MappingCalls PROVE MarksKept(d)'
    <3>1. MarksKept(d)
      BY <2>1 DEF MappingInv
    <3>2. indexPc[d] \in Rewriting => HasMarks(indexMem[d].next)'
      BY <1>1, <3>1 DEF MarksKept, HasMarks
    <3>3. Marked # {} => indexPc[d] \notin Repairing
      BY <2>1, <3>1 DEF MarksKept
    <3> QED
      BY <1>1, <2>1, <3>1, <3>2, <3>3 DEF MarksKept, Repairing
  <2> QED
    BY <2>2, <2>3
<1> QED
  BY <1>1, <1>2, <1>3, <1>4, <1>5 DEF MappingInv

(* The process dies: nobody is at work any more.                            *)
LEMMA MappingCrash ==
    ASSUME NoLookups, MappingInv, Index!Crash
    PROVE  MappingInv'
<1>1. /\ MappingTypes /\ indexCrashes' = indexCrashes + 1 /\ indexQueue' = <<>> /\ indexGate' = NoCaller
      /\ indexPrimary' = indexPrimary /\ indexBackup' = indexBackup /\ indexDamages' = indexDamages /\ indexFaults' = indexFaults
      /\ indexAcked' = indexAcked /\ indexSafe' = indexSafe /\ indexPurged' = indexPurged /\ Marked' = Marked
  BY DEF Index!Crash, MappingInv, Index!files, Index!history, Marked
<1>2. /\ indexPc' \in [MappingCalls -> Index!Label] /\ indexMem' \in [MappingCalls -> Index!Memory]
      /\ \A d \in MappingCalls : indexPc'[d] \in {"idle", "done"}
  BY MappingBlank DEF Index!Crash, Index!Label
<1>3. MappingTypes'
  BY <1>1, <1>2 DEF MappingTypes
<1>4. MappingSerial' /\ Index!AckedSurvive' /\ GateHeld' /\ ~indexPurged'
  BY <1>1, <1>2 DEF MappingInv, MappingSerial, Busy, Index!AckedSurvive, GateHeld
<1>5. \A d \in MappingCalls : SafeKept(d)' /\ MarksKept(d)'
  BY <1>2 DEF SafeKept, MarksKept, Repairing, Rewriting
<1>6. ASSUME OneDamage' PROVE MarkFiles'
  <2>1. indexDamages = 0 /\ OneDamage
    BY <1>1, <1>6 DEF OneDamage, MappingTypes
  <2> QED
    BY <1>1, <2>1 DEF MappingInv, MarkFiles, HasMarks
<1> QED
  BY <1>1, <1>3, <1>4, <1>5, <1>6 DEF MappingInv

(* Each step of a call keeps the invariant.                                  *)
LEMMA MappingStep ==
    ASSUME NoLookups, MappingInv, NEW c \in MappingCalls, Index!Step(c)
    PROVE  MappingInv'
<1>1. indexPc[c] \notin {"exists", "moveBackup", "movePrimary"}
  BY MappingTurn
<1>2. ~Index!Exists(c) /\ ~Index!MoveBackup(c) /\ ~Index!MovePrimary(c)
  BY <1>1 DEF Index!Exists, Index!MoveBackup, Index!MovePrimary
<1> QED
  BY <1>2, MappingReadPrimary, MappingReadBackup, MappingReadMarker, MappingQuarantine,
     MappingQuarantineBackup, MappingRestore, MappingDropMarker, MappingCondemn,
     MappingWriteBackup, MappingWritePrimary DEF Index!Step

(* A step that changes nothing keeps the invariant.                          *)
LEMMA MappingStays ==
    ASSUME MappingInv, UNCHANGED Index!vars
    PROVE  MappingInv'
<1>1. /\ indexPrimary' = indexPrimary /\ indexBackup' = indexBackup /\ indexQueue' = indexQueue /\ indexGate' = indexGate /\ indexPc' = indexPc
      /\ indexMem' = indexMem /\ indexDamages' = indexDamages /\ indexFaults' = indexFaults /\ indexCrashes' = indexCrashes
      /\ indexPurged' = indexPurged /\ indexAcked' = indexAcked /\ indexSafe' = indexSafe /\ Marked' = Marked
  BY DEF Index!vars, Marked
<1>2. MappingTypes' /\ MappingSerial' /\ Index!AckedSurvive' /\ GateHeld'
  BY <1>1 DEF MappingInv, MappingTypes, MappingSerial, AtHead, Busy, Index!AckedSurvive, GateHeld
<1>3. \A c \in MappingCalls : SafeKept(c)'
  BY <1>1 DEF MappingInv, SafeKept
<1>4. ASSUME OneDamage' PROVE MarkFiles' /\ \A c \in MappingCalls : MarksKept(c)'
  <2>1. OneDamage
    BY <1>1, <1>4 DEF OneDamage
  <2>2. MarkFiles'
    BY <1>1, <2>1 DEF MappingInv, MarkFiles, HasMarks
  <2>3. \A c \in MappingCalls : MarksKept(c)'
    BY <1>1, <2>1 DEF MappingInv, MarksKept, HasMarks
  <2> QED
    BY <2>2, <2>3
<1> QED
  BY <1>1, <1>2, <1>3, <1>4 DEF MappingInv

(* No file, no call: the invariant holds at the start.                       *)
LEMMA MappingInit ==
    ASSUME Index!Init
    PROVE  MappingInv
<1>1. MappingTypes
  BY MappingBlank DEF Index!Init, MappingTypes, Index!Label
<1>2. MappingSerial /\ Index!AckedSurvive /\ GateHeld /\ ~indexPurged
  BY DEF Index!Init, MappingSerial, Busy, Index!AckedSurvive, GateHeld
<1>3. \A c \in MappingCalls : SafeKept(c) /\ MarksKept(c)
  BY DEF Index!Init, SafeKept, MarksKept, Repairing, Rewriting
<1>4. MarkFiles
  BY MappingBlank DEF Index!Init, MarkFiles, HasMarks, Marked
<1> QED
  BY <1>1, <1>2, <1>3, <1>4 DEF MappingInv

(* The calls of the legacy mapping that change it go one at a time, and what *)
(* each leaves in the two files is what the next one needs, whatever fails   *)
(* or crashes; one damaged file is repaired from the other.                  *)
THEOREM MappingInvariant == NoLookups => (Index!Spec => []MappingInv)
<1>1. NoLookups /\ MappingInv /\ [Index!Next]_(Index!vars) => MappingInv'
  BY MappingStep, MappingBegin, MappingDamage, MappingCrash, MappingStays DEF Index!Next
<1>2. NoLookups /\ Index!Init => MappingInv
  BY MappingInit
<1>3. NoLookups => [](NoLookups)
  BY DEF NoLookups
<1> QED
  BY <1>1, <1>2, <1>3, PTL DEF Index!Spec

(* What the mapping acknowledged is in the primary until a file is damaged,  *)
(* and a tombstone through one damaged file too: without the lookups, which  *)
(* read outside of the queue and may put an old backup back.                 *)
THEOREM MappingKept == NoLookups => (Index!Spec => [](Index!TombstoneKept /\ Index!AckedSurvive))
<1>1. MappingInv => Index!TombstoneKept
  <2> SUFFICES ASSUME MappingInv, OneDamage, NEW c \in indexAcked, MappingKindOf[c] = "mark"
               PROVE  \E content \in {indexPrimary, indexBackup} \cup {indexMem[d].next : d \in {indexGate} \cap MappingCalls} :
                        content.state = "valid" /\ MappingEntryOf[c] \in content.purged
    BY DEF Index!TombstoneKept, OneDamage
  <2>1. MarkFiles /\ c \in Marked
    BY DEF MappingInv, Marked
  <2>2. CASE indexPrimary.state = "valid"
    BY <2>1, <2>2 DEF MarkFiles, HasMarks
  <2>3. CASE indexBackup.state = "valid"
    BY <2>1, <2>3 DEF MarkFiles, HasMarks
  <2>4. CASE indexGate # NoCaller
    <3>1. indexGate \in MappingCalls /\ indexPc[indexGate] = "writePrimary"
      BY <2>4 DEF MappingInv, MappingTypes, GateHeld
    <3>2. MarksKept(indexGate) /\ SafeKept(indexGate)
      BY <3>1 DEF MappingInv
    <3>3. HasMarks(indexMem[indexGate].next) /\ indexMem[indexGate].next.state = "valid"
      BY <3>1, <3>2 DEF MarksKept, SafeKept, HasEntry, Rewriting
    <3> QED
      BY <2>1, <3>1, <3>3 DEF HasMarks
  <2> QED
    BY <2>1, <2>2, <2>3, <2>4 DEF MarkFiles
<1>2. MappingInv => Index!AckedSurvive
  BY DEF MappingInv
<1> QED
  BY <1>1, <1>2, MappingInvariant, PTL

(***************************************************************************)
(* Sessions around the legacy import.                                      *)
(***************************************************************************)

(* The kinds of steps, as far as the invariant can tell.                     *)

\* The record of a migration is r, the others are as they were.
Becomes(m, r) ==
  /\ r \in Legacy!MigrationType /\ migration'[m] = r
  /\ \A n \in Migrations : n # m => migration'[n] = migration[n]

\* A request writes its session.
Saved(id) ==
  /\ UNCHANGED <<legacyLog, mapping, migration, purge, drawn, gone, up>>
  /\ Legacy!Exists(id) /\ purge[id].pc = "none"
  /\ session'[id].state \in {"live", "deleted"} /\ session'[id].of = session[id].of
  /\ \A i \in SessionIds : i # id => session'[i] = session[i]

\* Nothing happens but to the log, or to a purge or a copy that ends.
Quiet ==
  /\ UNCHANGED <<session, mapping, migration, drawn, gone, up>> /\ legacyLog \subseteq legacyLog'
  /\ \A id \in SessionIds : purge'[id] = purge[id] \/ purge'[id].pc = "none"

\* A session is destroyed, by a purge of the user or by the rollback of a copy.
Destroyed(id) ==
  /\ UNCHANGED <<legacyLog, mapping, migration, drawn, up>>
  /\ session[id].state = "deleted" /\ session'[id].state = "none"
  /\ \A i \in SessionIds : i # id => session'[i] = session[i] /\ purge'[i] = purge[i]
  /\ purge'[id].pc = "none"
  /\ \/ gone' = gone
     \/ /\ purge[id].pc = "marked" /\ purge[id].alone
        /\ gone' = gone \cup ({session[id].of} \ {"native"})

(* A record of a function is replaced.                                       *)
LEMMA SessionsReplace ==
  ASSUME Legacy!TypeOK, NEW m \in Migrations, NEW r \in Legacy!MigrationType,
         migration' = [migration EXCEPT ![m] = r]
  PROVE Becomes(m, r) /\ migration' \in [Migrations -> Legacy!MigrationType]
  BY DEF Legacy!TypeOK, Becomes

(* A migration that only moves on keeps its other fields.                    *)
LEMMA SessionsGoto ==
  ASSUME Legacy!TypeOK, NEW m \in Migrations,
         NEW step \in {"idle", "list", "next", "find", "look", "create", "upsert"}, Legacy!Goto(m, step)
  PROVE /\ Becomes(m, [migration[m] EXCEPT !.pc = step])
        /\ migration' \in [Migrations -> Legacy!MigrationType]
<1>1. [migration[m] EXCEPT !.pc = step] \in Legacy!MigrationType
  BY DEF Legacy!TypeOK, Legacy!MigrationType
<1>2. migration' = [migration EXCEPT ![m] = [migration[m] EXCEPT !.pc = step]]
  BY DEF Legacy!Goto
<1> QED
  BY <1>1, <1>2, SessionsReplace

(* The imports.                                                              *)
LEMMA SessionsLock ==
  ASSUME Legacy!TypeOK, NEW m \in Migrations, Legacy!Lock(m)
  PROVE /\ Legacy!TypeOK' /\ Legacy!NoneRuns /\ Becomes(m, [migration[m] EXCEPT !.pc = "list"])
        /\ UNCHANGED <<legacyLog, session, mapping, copy, drawn, gone, up>>
        /\ \A id \in SessionIds : /\ purge'[id].pc = purge[id].pc /\ purge'[id].rev = purge[id].rev
                            /\ purge'[id].alone = FALSE
<1>1. Becomes(m, [migration[m] EXCEPT !.pc = "list"]) /\ migration' \in [Migrations -> Legacy!MigrationType]
  BY SessionsGoto DEF Legacy!Lock
<1>2. Legacy!NoneRuns
  BY DEF Legacy!Lock, Legacy!Running, Legacy!NoneRuns, Legacy!Runs
<1>3. /\ purge' \in [SessionIds -> Legacy!PurgeType]
      /\ \A id \in SessionIds : /\ purge'[id].pc = purge[id].pc /\ purge'[id].rev = purge[id].rev
                          /\ purge'[id].alone = FALSE
  BY DEF Legacy!Lock, Legacy!TypeOK, Legacy!PurgeType
<1> QED
  BY <1>1, <1>2, <1>3 DEF Legacy!Lock, Legacy!TypeOK

(* The list of legacy conversations and of sessions a migration starts from. *)
LEMMA SessionsList ==
  ASSUME Legacy!TypeOK, NEW m \in Migrations, Legacy!List(m)
  PROVE /\ Legacy!TypeOK' /\ migration[m].pc = "list"
        /\ Becomes(m, [migration[m] EXCEPT !.pc = "next", !.todo = legacyLog, !.known = Legacy!Known])
        /\ UNCHANGED <<legacyLog, session, mapping, purge, copy, drawn, gone, up>>
<1>1. Legacy!Known \in SUBSET (SessionIds \X (Conversations \cup {"native"}))
  BY DEF Legacy!Known, Legacy!TypeOK, Legacy!SessionType
<1>2. [migration[m] EXCEPT !.pc = "next", !.todo = legacyLog, !.known = Legacy!Known] \in Legacy!MigrationType
  <2>1. migration[m] \in Legacy!MigrationType /\ legacyLog \in SUBSET Conversations
    BY DEF Legacy!TypeOK
  <2> HIDE DEF Legacy!Known
  <2> QED
    BY <1>1, <2>1 DEF Legacy!MigrationType
<1>3. migration' = [migration EXCEPT ![m] = [migration[m] EXCEPT !.pc = "next", !.todo = legacyLog, !.known = Legacy!Known]]
  BY DEF Legacy!List
<1> QED
  BY <1>2, <1>3, SessionsReplace DEF Legacy!List, Legacy!Reading, Legacy!TypeOK

(* A migration takes one more conversation of its list, or has none left.    *)
LEMMA SessionsNext ==
  ASSUME Legacy!TypeOK, NEW m \in Migrations, Legacy!NextConversation(m)
  PROVE /\ Legacy!TypeOK' /\ migration[m].pc = "next"
        /\ UNCHANGED <<legacyLog, session, mapping, purge, copy, drawn, gone>>
        /\ \/ migration[m].todo = {} /\ Becomes(m, Legacy!NoMigration) /\ up' = TRUE
           \/ /\ up' = up
              /\ \E c \in migration[m].todo :
                   Becomes(m, [migration[m] EXCEPT !.pc = "find", !.conv = c,
                                                   !.todo = migration[m].todo \ {c}])
<1>1. CASE migration[m].todo = {} /\ migration' = [migration EXCEPT ![m] = Legacy!NoMigration] /\ up' = TRUE
  <2>1. Legacy!NoMigration \in Legacy!MigrationType
    BY DEF Legacy!NoMigration, Legacy!MigrationType
  <2> QED
    BY <1>1, <2>1, SessionsReplace DEF Legacy!NextConversation, Legacy!Reading, Legacy!TypeOK
<1>2. ASSUME NEW c \in migration[m].todo, up' = up,
             migration' = [migration EXCEPT ![m].pc = "find", ![m].conv = c, ![m].todo = @ \ {c}]
      PROVE Becomes(m, [migration[m] EXCEPT !.pc = "find", !.conv = c, !.todo = migration[m].todo \ {c}])
            /\ Legacy!TypeOK'
  <2>1. [migration[m] EXCEPT !.pc = "find", !.conv = c, !.todo = migration[m].todo \ {c}] \in Legacy!MigrationType
    <3>1. migration[m] \in Legacy!MigrationType
      BY DEF Legacy!TypeOK
    <3>2. c \in Conversations \cup {"none"} /\ migration[m].todo \ {c} \in SUBSET Conversations
      BY <3>1 DEF Legacy!MigrationType
    <3> QED
      BY <3>1, <3>2 DEF Legacy!MigrationType
  <2>2. migration' = [migration EXCEPT ![m] =
          [migration[m] EXCEPT !.pc = "find", !.conv = c, !.todo = migration[m].todo \ {c}]]
    BY <1>2 DEF Legacy!TypeOK, Legacy!MigrationType
  <2> QED
    BY <1>2, <2>1, <2>2, SessionsReplace DEF Legacy!NextConversation, Legacy!Reading, Legacy!TypeOK
<1> QED
  BY <1>1, <1>2 DEF Legacy!NextConversation, Legacy!Reading

(* The mapping of a conversation decides where its migration goes.           *)
LEMMA SessionsFind ==
  ASSUME Legacy!TypeOK, NEW m \in Migrations, Legacy!FindLegacyMapping(m), migration[m].conv \in Conversations
  PROVE /\ Legacy!TypeOK' /\ migration[m].pc = "find"
        /\ UNCHANGED <<legacyLog, session, mapping, purge, copy, drawn, gone, up>>
        /\ LET c == migration[m].conv
           IN  \/ mapping[c].purged /\ Becomes(m, [migration[m] EXCEPT !.pc = "next"])
               \/ /\ ~mapping[c].purged /\ mapping[c] # Legacy!Unmapped
                  /\ Becomes(m, [migration[m] EXCEPT !.pc = "look", !.id = mapping[c].id])
               \/ /\ mapping[c] = Legacy!Unmapped /\ \A i \in SessionIds : <<i, c>> \notin migration[m].known
                  /\ Becomes(m, [migration[m] EXCEPT !.pc = "create", !.id = NoId])
               \/ /\ mapping[c] = Legacy!Unmapped
                  /\ \E i \in SessionIds : <<i, c>> \in migration[m].known
                                   /\ Becomes(m, [migration[m] EXCEPT !.pc = "upsert", !.id = i])
<1> DEFINE c == migration[m].conv
           same == {k \in migration[m].known : k[2] = c}
<1>0. migration[m].pc = "find" /\ UNCHANGED <<legacyLog, session, mapping, purge, copy, drawn, gone, up>>
      /\ (migration' \in [Migrations -> Legacy!MigrationType] => Legacy!TypeOK')
  BY DEF Legacy!FindLegacyMapping, Legacy!Reading, Legacy!TypeOK
<1>1. migration[m] \in Legacy!MigrationType
  BY DEF Legacy!TypeOK
<1>2. migration' =
       IF mapping[c].purged THEN [migration EXCEPT ![m].pc = "next"]
       ELSE IF mapping[c] # Legacy!Unmapped
       THEN [migration EXCEPT ![m].pc = "look", ![m].id = mapping[c].id]
       ELSE IF same = {} THEN [migration EXCEPT ![m].pc = "create", ![m].id = NoId]
       ELSE [migration EXCEPT ![m].pc = "upsert", ![m].id = (CHOOSE k \in same : TRUE)[1]]
  BY DEF Legacy!FindLegacyMapping
<1>3. ASSUME NEW step \in {"look", "create", "upsert"}, NEW i \in SessionIds \cup {NoId},
             migration' = [migration EXCEPT ![m].pc = step, ![m].id = i]
      PROVE Becomes(m, [migration[m] EXCEPT !.pc = step, !.id = i]) /\ migration' \in [Migrations -> Legacy!MigrationType]
  <2>1. [migration[m] EXCEPT !.pc = step, !.id = i] \in Legacy!MigrationType
    BY <1>1 DEF Legacy!MigrationType
  <2>2. migration' = [migration EXCEPT ![m] = [migration[m] EXCEPT !.pc = step, !.id = i]]
    BY <1>1, <1>3 DEF Legacy!TypeOK
  <2> QED
    BY <2>1, <2>2, SessionsReplace
<1>4. CASE mapping[c].purged
  <2>1. Legacy!Goto(m, "next")
    BY <1>2, <1>4 DEF Legacy!Goto
  <2> QED
    BY <1>0, <1>4, <2>1, SessionsGoto
<1>5. CASE ~mapping[c].purged /\ mapping[c] # Legacy!Unmapped
  <2>1. mapping[c].id \in SessionIds \cup {NoId}
    BY DEF Legacy!TypeOK
  <2> QED
    BY <1>0, <1>2, <1>3, <1>5, <2>1
<1>6. CASE ~mapping[c].purged /\ mapping[c] = Legacy!Unmapped /\ same = {}
  <2>1. \A i \in SessionIds : <<i, c>> \notin migration[m].known
    BY <1>6
  <2> QED
    BY <1>0, <1>2, <1>3, <1>6, <2>1
<1>7. CASE ~mapping[c].purged /\ mapping[c] = Legacy!Unmapped /\ same # {}
  <2> DEFINE k == CHOOSE k \in same : TRUE
  <2>1. k \in same
    BY <1>7
  <2>2. k[1] \in SessionIds /\ k = <<k[1], k[2]>> /\ k[2] = c
    BY <1>1, <2>1 DEF Legacy!MigrationType
  <2> HIDE DEF k
  <2>3. <<k[1], c>> \in migration[m].known
    BY <2>1, <2>2
  <2>4. migration' = [migration EXCEPT ![m].pc = "upsert", ![m].id = k[1]]
    BY <1>2, <1>7 DEF k
  <2> QED
    BY <1>0, <1>3, <1>7, <2>2, <2>3, <2>4
<1> QED
  BY <1>4, <1>5, <1>6, <1>7

(* The session of a mapping is found, or created under its id.               *)
LEMMA SessionsGet ==
  ASSUME Legacy!TypeOK, NEW m \in Migrations, Legacy!GetSession(m)
  PROVE /\ Legacy!TypeOK' /\ migration[m].pc = "look"
        /\ UNCHANGED <<legacyLog, session, mapping, purge, copy, drawn, gone, up>>
        /\ \/ Becomes(m, [migration[m] EXCEPT !.pc = "next"])
           \/ ~Legacy!Exists(migration[m].id) /\ Becomes(m, [migration[m] EXCEPT !.pc = "create"])
<1>1. PICK step \in {"next", "create"} : Legacy!Goto(m, step) /\ (step = "create" => ~Legacy!Exists(migration[m].id))
  BY DEF Legacy!GetSession
<1>2. Becomes(m, [migration[m] EXCEPT !.pc = step]) /\ migration' \in [Migrations -> Legacy!MigrationType]
  BY <1>1, SessionsGoto
<1> QED
  BY <1>1, <1>2 DEF Legacy!GetSession, Legacy!Reading, Legacy!TypeOK

(* The session of a conversation is created under the mapped id, or under a  *)
(* new one.                                                                  *)
LEMMA SessionsCreate ==
  ASSUME Legacy!TypeOK, NEW m \in Migrations, Legacy!CreateLegacySession(m), migration[m].conv \in Conversations
  PROVE /\ Legacy!TypeOK' /\ migration[m].pc = "create"
        /\ UNCHANGED <<legacyLog, mapping, purge, copy, gone, up>>
        /\ \E id \in SessionIds :
             /\ IF migration[m].id = NoId THEN id \notin drawn ELSE id = migration[m].id
             /\ session'[id].state = "live" /\ session'[id].of = migration[m].conv
             /\ \A i \in SessionIds : i # id => session'[i] = session[i]
             /\ drawn' = drawn \cup {id}
             /\ Becomes(m, [migration[m] EXCEPT !.id = id,
                              !.pc = IF migration[m].id = NoId THEN "upsert" ELSE "next",
                              !.known = migration[m].known \cup {<<id, migration[m].conv>>}])
<1> DEFINE mapped == migration[m].id
           c == migration[m].conv
<1>0. migration[m] \in Legacy!MigrationType
  BY DEF Legacy!TypeOK
<1>1. PICK id \in IF mapped = NoId THEN SessionIds \ drawn ELSE {mapped} :
       /\ session' = [session EXCEPT ![id] = [state |-> "live", of |-> c, rev |-> 1]]
       /\ drawn' = drawn \cup {id}
       /\ migration' = [migration EXCEPT ![m].id = id,
                          ![m].pc = IF mapped = NoId THEN "upsert" ELSE "next",
                          ![m].known = @ \cup {<<id, c>>}]
  BY DEF Legacy!CreateLegacySession
<1>2. id \in SessionIds
  BY <1>0, <1>1 DEF Legacy!MigrationType
<1>3. PICK step \in {"upsert", "next"} : step = IF mapped = NoId THEN "upsert" ELSE "next"
  OBVIOUS
<1> DEFINE known == migration[m].known \cup {<<id, c>>}
           r == [migration[m] EXCEPT !.id = id, !.pc = step, !.known = known]
<1>4. known \in SUBSET (SessionIds \X (Conversations \cup {"native"}))
  BY <1>0, <1>2 DEF Legacy!MigrationType
<1>5. r \in Legacy!MigrationType
  <2> HIDE DEF known
  <2> QED
    BY <1>0, <1>2, <1>4 DEF Legacy!MigrationType
<1>6. migration' = [migration EXCEPT ![m] = r]
  BY <1>0, <1>1, <1>3 DEF Legacy!TypeOK, Legacy!MigrationType
<1>7. [state |-> "live", of |-> c, rev |-> 1] \in Legacy!SessionType
  BY RecordsAssumption DEF Legacy!SessionType, Legacy!SessionsAssumption
<1>8. /\ session' \in [SessionIds -> Legacy!SessionType] /\ session'[id].state = "live" /\ session'[id].of = c
      /\ \A i \in SessionIds : i # id => session'[i] = session[i]
  BY <1>1, <1>2, <1>7 DEF Legacy!TypeOK
<1>9. Becomes(m, r) /\ migration' \in [Migrations -> Legacy!MigrationType]
  BY <1>5, <1>6, SessionsReplace
<1>10. Legacy!TypeOK'
  BY <1>1, <1>2, <1>8, <1>9 DEF Legacy!CreateLegacySession, Legacy!TypeOK
<1>11. migration[m].pc = "create" /\ UNCHANGED <<legacyLog, mapping, purge, copy, gone, up>>
  BY DEF Legacy!CreateLegacySession
<1>12. IF mapped = NoId THEN id \notin drawn ELSE id = mapped
  BY <1>1
<1> QED
  BY <1>1, <1>2, <1>3, <1>8, <1>9, <1>10, <1>11, <1>12

(* The mapping of a conversation is written unless it has one.               *)
LEMMA SessionsUpsert ==
  ASSUME Legacy!TypeOK, NEW m \in Migrations, Legacy!UpsertLegacyMapping(m), migration[m].conv \in Conversations
  PROVE /\ Legacy!TypeOK' /\ migration[m].pc = "upsert"
        /\ UNCHANGED <<legacyLog, session, purge, copy, drawn, gone, up>>
        /\ Becomes(m, [migration[m] EXCEPT !.pc = "next"])
        /\ \A c \in Conversations :
             /\ mapping'[c].purged = mapping[c].purged
             /\ mapping'[c].id = IF c = migration[m].conv /\ mapping[c] = Legacy!Unmapped
                                 THEN migration[m].id ELSE mapping[c].id
<1> DEFINE conv == migration[m].conv
           id == migration[m].id
<1>1. Becomes(m, [migration[m] EXCEPT !.pc = "next"]) /\ migration' \in [Migrations -> Legacy!MigrationType]
  BY SessionsGoto DEF Legacy!UpsertLegacyMapping
<1>2. id \in SessionIds \cup {NoId}
  BY DEF Legacy!TypeOK, Legacy!MigrationType
<1>3. mapping' = [mapping EXCEPT ![conv] = IF @ = Legacy!Unmapped THEN [@ EXCEPT !.id = id] ELSE @]
  BY DEF Legacy!UpsertLegacyMapping
<1>4. mapping' \in [Conversations -> [id : SessionIds \cup {NoId}, purged : BOOLEAN]]
  BY <1>2, <1>3 DEF Legacy!TypeOK
<1>5. \A c \in Conversations :
             /\ mapping'[c].purged = mapping[c].purged
             /\ mapping'[c].id = IF c = migration[m].conv /\ mapping[c] = Legacy!Unmapped
                                 THEN migration[m].id ELSE mapping[c].id
  BY <1>2, <1>3 DEF Legacy!TypeOK
<1> QED
  BY <1>1, <1>4, <1>5 DEF Legacy!UpsertLegacyMapping, Legacy!TypeOK

-----------------------------------------------------------------------------
(* The requests of the user.                                                 *)

(* Saving a session raises its revision and changes nothing else.            *)
LEMMA SessionsSave ==
  ASSUME Legacy!TypeOK, NEW id \in SessionIds, NEW state \in {"live", "deleted"}, Legacy!Free(id), Legacy!Save(id, state),
         UNCHANGED <<legacyLog, mapping, migration, purge, drawn, gone, up, legacyCrashes>>
  PROVE /\ Saved(id) /\ (copy' \in [SessionIds -> Legacy!CopyType] => Legacy!TypeOK') /\ session[id].rev + 1 \in 0..MaxRevision
<1>0. session[id] \in Legacy!SessionType /\ MaxRevision \in Nat
  BY RecordsAssumption DEF Legacy!TypeOK, Legacy!SessionsAssumption
<1>1. session[id].rev + 1 \in 0..MaxRevision
  BY <1>0 DEF Legacy!Save, Legacy!SessionType
<1> DEFINE r == [session[id] EXCEPT !.state = state, !.rev = session[id].rev + 1]
<1>2. r \in Legacy!SessionType /\ r.state = state /\ r.of = session[id].of
  BY <1>0, <1>1 DEF Legacy!SessionType
<1>3. session' = [session EXCEPT ![id] = r]
  BY <1>0 DEF Legacy!Save, Legacy!SessionType, Legacy!TypeOK
<1> HIDE DEF r
<1>4. /\ session' \in [SessionIds -> Legacy!SessionType] /\ session'[id] = r
      /\ \A i \in SessionIds : i # id => session'[i] = session[i]
  BY <1>2, <1>3 DEF Legacy!TypeOK
<1> QED
  BY <1>1, <1>2, <1>4 DEF Saved, Legacy!Free, Legacy!TypeOK

(* An update, a soft delete and a restore are saves.                         *)
LEMMA SessionsUser ==
  ASSUME Legacy!TypeOK, NEW id \in SessionIds, Legacy!Mutate(id) \/ Legacy!SoftDelete(id) \/ Legacy!Restore(id)
  PROVE Saved(id) /\ Legacy!TypeOK'
<1>1. copy' \in [SessionIds -> Legacy!CopyType]
  BY DEF Legacy!Mutate, Legacy!SoftDelete, Legacy!Restore, Legacy!TypeOK
<1>2. PICK state \in {"live", "deleted"} :
        Legacy!Free(id) /\ Legacy!Save(id, state) /\ UNCHANGED <<legacyLog, mapping, migration, purge, drawn, gone, up, legacyCrashes>>
  BY DEF Legacy!Mutate, Legacy!SoftDelete, Legacy!Restore
<1> QED
  BY <1>1, <1>2, SessionsSave

(* A purge marks the conversation of its session before anything is removed. *)
LEMMA SessionsBegin ==
  ASSUME Legacy!TypeOK, NEW id \in SessionIds, Legacy!BeginPurge(id)
  PROVE /\ Legacy!TypeOK' /\ UNCHANGED <<legacyLog, session, migration, drawn, gone, up>>
        /\ Legacy!Exists(id) /\ up /\ session[id].state = "deleted"
        /\ \A c \in Conversations :
             /\ mapping'[c].id = mapping[c].id
             /\ mapping'[c].purged <=>
                  mapping[c].purged \/ (mapping[c].id = id /\ session[id].of # "native")
        /\ \A i \in SessionIds : i # id => purge'[i] = purge[i]
        /\ purge'[id].rev = session[id].rev /\ (purge'[id].alone => Legacy!NoneRuns)
<1>0. session[id] \in Legacy!SessionType
  BY DEF Legacy!TypeOK
<1>1. (Legacy!Running = {}) \in BOOLEAN /\ (Legacy!Running = {} => Legacy!NoneRuns)
  BY DEF Legacy!Running, Legacy!NoneRuns, Legacy!Runs
<1>2. PICK alone \in BOOLEAN : alone = (Legacy!Running = {})
  BY <1>1
<1> DEFINE r == [pc |-> "marked", rev |-> session[id].rev, alone |-> alone]
<1>3. r \in Legacy!PurgeType
  BY <1>0, <1>2 DEF Legacy!PurgeType, Legacy!SessionType
<1>4. purge' = [purge EXCEPT ![id] = r]
  BY <1>2 DEF Legacy!BeginPurge
<1>5. /\ purge' \in [SessionIds -> Legacy!PurgeType] /\ purge'[id] = r
      /\ \A i \in SessionIds : i # id => purge'[i] = purge[i]
  BY <1>3, <1>4 DEF Legacy!TypeOK
<1>6. /\ mapping' \in [Conversations -> [id : SessionIds \cup {NoId}, purged : BOOLEAN]]
      /\ \A c \in Conversations :
             /\ mapping'[c].id = mapping[c].id
             /\ mapping'[c].purged <=>
                  mapping[c].purged \/ (mapping[c].id = id /\ session[id].of # "native")
  <2>1. CASE session[id].of = "native"
    BY <2>1 DEF Legacy!BeginPurge, Legacy!TypeOK
  <2>2. CASE session[id].of # "native"
    <3>1. mapping' = Legacy!Marked(id)
      BY <2>2 DEF Legacy!BeginPurge
    <3>2. ASSUME NEW c \in Conversations
          PROVE /\ mapping'[c] \in [id : SessionIds \cup {NoId}, purged : BOOLEAN]
                /\ mapping'[c].id = mapping[c].id
                /\ mapping'[c].purged <=> mapping[c].purged \/ mapping[c].id = id
      <4>1. mapping[c] \in [id : SessionIds \cup {NoId}, purged : BOOLEAN]
        BY DEF Legacy!TypeOK
      <4>2. mapping'[c] = IF mapping[c].id = id THEN [mapping[c] EXCEPT !.purged = TRUE] ELSE mapping[c]
        BY <3>1, Zenon DEF Legacy!Marked
      <4>3. CASE mapping[c].id = id
        <5>1. mapping'[c] = [mapping[c] EXCEPT !.purged = TRUE]
          BY <4>2, <4>3
        <5>2. mapping'[c] \in [id : SessionIds \cup {NoId}, purged : BOOLEAN] /\ mapping'[c].id = mapping[c].id
          BY <4>1, <5>1
        <5>3. mapping'[c].purged = TRUE
          BY <4>1, <5>1
        <5> QED
          BY <4>3, <5>2, <5>3
      <4>4. CASE mapping[c].id # id
        BY <4>1, <4>2, <4>4
      <4> QED
        BY <4>3, <4>4
    <3>3. mapping' = [c \in Conversations |-> mapping'[c]]
      BY <3>1 DEF Legacy!Marked
    <3> QED
      BY <2>2, <3>2, <3>3
  <2> QED
    BY <2>1, <2>2
<1>7. Legacy!TypeOK'
  BY <1>5, <1>6 DEF Legacy!BeginPurge, Legacy!TypeOK
<1> QED
  BY <1>1, <1>2, <1>5, <1>6, <1>7 DEF Legacy!BeginPurge, Legacy!Free

(* The end of a purge destroys its session, or changes no session.           *)
LEMMA SessionsFinish ==
  ASSUME Legacy!TypeOK, Legacy!PurgesDeleted, NEW id \in SessionIds, Legacy!FinishPurge(id)
  PROVE Legacy!TypeOK' /\ (Quiet \/ Destroyed(id))
<1>1. Legacy!NoPurge \in Legacy!PurgeType /\ Legacy!NoPurge.pc = "none" /\ Legacy!NoSession \in Legacy!SessionType
      /\ Legacy!NoSession.state = "none"
  BY RecordsAssumption DEF Legacy!NoPurge, Legacy!NoSession, Legacy!PurgeType, Legacy!SessionType, Legacy!SessionsAssumption
<1>2. /\ purge' \in [SessionIds -> Legacy!PurgeType] /\ purge'[id].pc = "none"
      /\ \A i \in SessionIds : i # id => purge'[i] = purge[i]
  BY <1>1 DEF Legacy!FinishPurge, Legacy!TypeOK
<1>3. CASE UNCHANGED <<session, gone>>
  BY <1>2, <1>3 DEF Legacy!FinishPurge, Legacy!TypeOK, Quiet
<1>4. CASE session' = [session EXCEPT ![id] = Legacy!NoSession]
           /\ gone' = IF purge[id].alone THEN gone \cup ({session[id].of} \ {"native"}) ELSE gone
  <2>1. /\ session' \in [SessionIds -> Legacy!SessionType] /\ session'[id].state = "none"
        /\ \A i \in SessionIds : i # id => session'[i] = session[i]
    BY <1>1, <1>4 DEF Legacy!TypeOK
  <2>2. session[id].of \in Conversations \cup {"native"}
    BY DEF Legacy!TypeOK, Legacy!SessionType
  <2>3. gone' \subseteq Conversations
    BY <1>4, <2>2 DEF Legacy!TypeOK
  <2>4. session[id].state = "deleted" /\ purge[id].pc = "marked"
    BY DEF Legacy!FinishPurge, Legacy!PurgesDeleted
  <2>5. \/ gone' = gone
        \/ purge[id].alone /\ gone' = gone \cup ({session[id].of} \ {"native"})
    BY <1>4
  <2> QED
    BY <1>2, <2>1, <2>3, <2>4, <2>5 DEF Legacy!FinishPurge, Legacy!TypeOK, Destroyed
<1> QED
  BY <1>3, <1>4 DEF Legacy!FinishPurge

(* A legacy append and the copy of a history change no session.              *)
LEMMA SessionsQuiet ==
  ASSUME Legacy!TypeOK, \/ \E c \in Conversations : Legacy!LogAppend(c)
                 \/ \E id \in SessionIds : Legacy!HistoryCopied(id)
  PROVE Legacy!TypeOK' /\ Quiet
<1>1. Legacy!NoCopy \in Legacy!CopyType
  BY RecordsAssumption DEF Legacy!NoCopy, Legacy!CopyType, Legacy!SessionsAssumption
<1>2. ASSUME NEW c \in Conversations, Legacy!LogAppend(c)
      PROVE Legacy!TypeOK' /\ Quiet
  BY <1>2 DEF Legacy!LogAppend, Legacy!TypeOK, Quiet
<1>3. ASSUME NEW id \in SessionIds, Legacy!HistoryCopied(id)
      PROVE Legacy!TypeOK' /\ Quiet
  BY <1>1, <1>3 DEF Legacy!HistoryCopied, Legacy!TypeOK, Quiet
<1> QED
  BY <1>2, <1>3

(* The rollback of a duplicate saves it as deleted, or destroys it.          *)
LEMMA SessionsRollback ==
  ASSUME Legacy!TypeOK, NEW id \in SessionIds, Legacy!RollbackDeletes(id) \/ Legacy!RollbackPurges(id)
  PROVE Legacy!TypeOK' /\ (Saved(id) \/ Quiet \/ Destroyed(id))
<1>1. Legacy!NoCopy \in Legacy!CopyType /\ Legacy!NoSession \in Legacy!SessionType /\ Legacy!NoSession.state = "none"
  BY RecordsAssumption DEF Legacy!NoCopy, Legacy!CopyType, Legacy!NoSession, Legacy!SessionType, Legacy!SessionsAssumption
<1>2. CASE Legacy!RollbackDeletes(id) /\ copy' = [copy EXCEPT ![id] = Legacy!NoCopy] /\ UNCHANGED session
  BY <1>1, <1>2 DEF Legacy!RollbackDeletes, Legacy!TypeOK, Quiet
<1>3. CASE /\ Legacy!RollbackDeletes(id) /\ Legacy!Free(id) /\ Legacy!Save(id, "deleted")
           /\ copy' = [copy EXCEPT ![id] = [pc |-> "rollback", rev |-> session[id].rev + 1]]
  <2>1. /\ Saved(id) /\ (copy' \in [SessionIds -> Legacy!CopyType] => Legacy!TypeOK')
        /\ session[id].rev + 1 \in 0..MaxRevision
    BY <1>3, SessionsSave DEF Legacy!RollbackDeletes
  <2>2. [pc |-> "rollback", rev |-> session[id].rev + 1] \in Legacy!CopyType
    BY <2>1 DEF Legacy!CopyType
  <2> QED
    BY <1>3, <2>1, <2>2 DEF Legacy!TypeOK
<1>4. CASE Legacy!RollbackPurges(id)
  <2>1. copy' \in [SessionIds -> Legacy!CopyType]
    BY <1>1, <1>4 DEF Legacy!RollbackPurges, Legacy!TypeOK
  <2>2. CASE session' = session
    BY <1>4, <2>1, <2>2 DEF Legacy!RollbackPurges, Legacy!TypeOK, Quiet
  <2>3. CASE Legacy!RevisionHeld(id) /\ session' = [session EXCEPT ![id] = Legacy!NoSession]
    BY <1>1, <1>4, <2>1, <2>3 DEF Legacy!RollbackPurges, Legacy!RevisionHeld, Legacy!TypeOK, Destroyed
  <2> QED
    BY <1>4, <2>2, <2>3 DEF Legacy!RollbackPurges
<1> QED
  BY <1>2, <1>3, <1>4 DEF Legacy!RollbackDeletes

(* A duplicate is a native session under a new id.                           *)
LEMMA SessionsDuplicate ==
  ASSUME Legacy!TypeOK, NEW source \in SessionIds, NEW id \in SessionIds, Legacy!Duplicate(source, id)
  PROVE /\ Legacy!TypeOK' /\ UNCHANGED <<legacyLog, mapping, migration, purge, gone, up>>
        /\ id \notin drawn /\ drawn' = drawn \cup {id}
        /\ session'[id].state = "live" /\ session'[id].of = "native"
        /\ \A i \in SessionIds : i # id => session'[i] = session[i]
<1>1. [state |-> "live", of |-> "native", rev |-> 1] \in Legacy!SessionType
  BY RecordsAssumption DEF Legacy!SessionType, Legacy!SessionsAssumption
<1>2. /\ session' \in [SessionIds -> Legacy!SessionType] /\ session'[id].state = "live" /\ session'[id].of = "native"
      /\ \A i \in SessionIds : i # id => session'[i] = session[i]
  BY <1>1 DEF Legacy!Duplicate, Legacy!TypeOK
<1>3. copy' \in [SessionIds -> Legacy!CopyType]
  BY DEF Legacy!Duplicate, Legacy!TypeOK, Legacy!CopyType
<1> QED
  BY <1>2, <1>3 DEF Legacy!Duplicate, Legacy!TypeOK

(* A crash ends the migrations and the purges and keeps the files.           *)
LEMMA SessionsCrash ==
  ASSUME Legacy!TypeOK, Legacy!Crash
  PROVE /\ Legacy!TypeOK' /\ UNCHANGED <<legacyLog, session, mapping, drawn, gone>> /\ up' = FALSE
        /\ \A m \in Migrations : migration'[m].pc = "idle" /\ migration'[m].todo = {}
        /\ \A id \in SessionIds : purge'[id].pc = "none"
<1>1. Legacy!NoCopy \in Legacy!CopyType /\ Legacy!NoPurge \in Legacy!PurgeType /\ Legacy!NoMigration \in Legacy!MigrationType
  BY RecordsAssumption DEF Legacy!NoCopy, Legacy!CopyType, Legacy!NoPurge, Legacy!PurgeType, Legacy!NoMigration, Legacy!MigrationType, Legacy!SessionsAssumption
<1>2. legacyCrashes' \in 0..MaxSessionCrashes
  BY RecordsAssumption DEF Legacy!Crash, Legacy!TypeOK, Legacy!SessionsAssumption
<1> QED
  BY <1>1, <1>2 DEF Legacy!Crash, Legacy!TypeOK, Legacy!NoMigration, Legacy!NoPurge

-----------------------------------------------------------------------------
(* What each kind of step keeps.                                             *)

SessionsRest ==
  /\ Legacy!ImportsAlone /\ Legacy!MappedOnly /\ Legacy!KnowsSessions /\ Legacy!Imports /\ Legacy!UnmappedDue
  /\ Legacy!PurgesDeleted /\ Legacy!OneSessionEach /\ Legacy!PurgedForGood

(* A request that writes its session.                                        *)
LEMMA SavedKeeps ==
  ASSUME Legacy!SessionsInv, NEW id \in SessionIds, Saved(id)
  PROVE SessionsRest'
<1> USE DEF Legacy!SessionsInv, SessionsRest
<1>1. /\ \A i \in SessionIds : (session'[i].state # "none" <=> session[i].state # "none")
                       /\ session'[i].of = session[i].of
      /\ \A i \in SessionIds : purge[i].pc = "marked" => session'[i] = session[i]
  BY DEF Saved, Legacy!Exists
<1>2. UNCHANGED <<legacyLog, mapping, migration, purge, drawn, gone, up>>
  BY DEF Saved
<1>3. Legacy!ImportsAlone'
  BY <1>1, <1>2 DEF Legacy!ImportsAlone, Legacy!SessionOf, Legacy!Exists, Legacy!Mapped, Legacy!Runs, Legacy!NoneRuns
<1>4. Legacy!MappedOnly'
  BY <1>1, <1>2 DEF Legacy!MappedOnly, Legacy!SessionOf, Legacy!Exists, Legacy!Mapped, Legacy!Runs, Legacy!NoneRuns
<1>5. Legacy!KnowsSessions'
  BY <1>1, <1>2 DEF Legacy!KnowsSessions, Legacy!Knows, Legacy!SessionOf, Legacy!Exists, Legacy!Mapped, Legacy!Runs, Legacy!NoneRuns
<1>6. Legacy!Imports'
  <2> SUFFICES ASSUME NEW m \in Migrations, NEW c \in Conversations
               PROVE Legacy!Imported(m, c)'
    BY DEF Legacy!Imports
  <2>1. Legacy!Imported(m, c)
    BY DEF Legacy!Imports
  <2>2. migration[m].id \in SessionIds \cup {NoId}
    BY DEF Legacy!TypeOK, Legacy!MigrationType
  <2> QED
    BY <2>1, <2>2, <1>1, <1>2 DEF Legacy!Imported, Legacy!At, Legacy!SessionOf, Legacy!Exists, Legacy!Mapped, Legacy!Runs, Legacy!NoneRuns
<1>7. Legacy!UnmappedDue'
  BY <1>1, <1>2 DEF Legacy!UnmappedDue, Legacy!At, Legacy!SessionOf, Legacy!Exists, Legacy!Mapped, Legacy!Runs, Legacy!NoneRuns
<1>8. Legacy!PurgesDeleted'
  BY <1>1, <1>2 DEF Legacy!PurgesDeleted, Legacy!SessionOf, Legacy!Exists, Legacy!Mapped, Legacy!Runs, Legacy!NoneRuns
<1>9. Legacy!OneSessionEach'
  BY <1>1, <1>2 DEF Legacy!OneSessionEach, Legacy!SessionOf, Legacy!Exists, Legacy!Mapped, Legacy!Runs, Legacy!NoneRuns
<1>10. Legacy!PurgedForGood'
  BY <1>1, <1>2 DEF Legacy!PurgedForGood, Legacy!SessionOf, Legacy!Exists, Legacy!Mapped, Legacy!Runs, Legacy!NoneRuns
<1> QED
  BY <1>3, <1>4, <1>5, <1>6, <1>7, <1>8, <1>9, <1>10

(* A step that does nothing to sessions and imports.                         *)
LEMMA QuietKeeps ==
  ASSUME Legacy!SessionsInv, Legacy!TypeOK', Quiet
  PROVE SessionsRest'
<1> USE DEF Legacy!SessionsInv, SessionsRest
<1>1. /\ UNCHANGED <<session, mapping, migration, drawn, gone, up>> /\ legacyLog \subseteq legacyLog'
      /\ \A id \in SessionIds : purge'[id] = purge[id] \/ purge'[id].pc = "none"
  BY DEF Quiet
<1>2. Legacy!ImportsAlone'
  BY <1>1 DEF Legacy!ImportsAlone, Legacy!SessionOf, Legacy!Exists, Legacy!Mapped, Legacy!Runs, Legacy!NoneRuns
<1>3. Legacy!MappedOnly'
  BY <1>1 DEF Legacy!MappedOnly, Legacy!SessionOf, Legacy!Exists, Legacy!Mapped, Legacy!Runs, Legacy!NoneRuns
<1>4. Legacy!KnowsSessions'
  BY <1>1 DEF Legacy!KnowsSessions, Legacy!Knows, Legacy!SessionOf, Legacy!Exists, Legacy!Mapped, Legacy!Runs, Legacy!NoneRuns
<1>5. Legacy!Imports'
  <2> SUFFICES ASSUME NEW m \in Migrations, NEW c \in Conversations
               PROVE Legacy!Imported(m, c)'
    BY DEF Legacy!Imports
  <2>1. Legacy!Imported(m, c)
    BY DEF Legacy!Imports
  <2>2. migration[m].id \in SessionIds \cup {NoId}
    BY DEF Legacy!TypeOK, Legacy!MigrationType
  <2> QED
    BY <2>1, <2>2, <1>1 DEF Legacy!Imported, Legacy!At, Legacy!SessionOf, Legacy!Exists, Legacy!Mapped, Legacy!Runs, Legacy!NoneRuns
<1>6. Legacy!UnmappedDue'
  BY <1>1 DEF Legacy!UnmappedDue, Legacy!At, Legacy!SessionOf, Legacy!Exists, Legacy!Mapped, Legacy!Runs, Legacy!NoneRuns
<1>7. Legacy!PurgesDeleted'
  BY <1>1 DEF Legacy!PurgesDeleted, Legacy!SessionOf, Legacy!Exists, Legacy!Mapped, Legacy!Runs, Legacy!NoneRuns
<1>8. Legacy!OneSessionEach'
  BY <1>1 DEF Legacy!OneSessionEach, Legacy!SessionOf, Legacy!Exists, Legacy!Mapped, Legacy!Runs, Legacy!NoneRuns
<1>9. Legacy!PurgedForGood'
  BY <1>1 DEF Legacy!PurgedForGood, Legacy!SessionOf, Legacy!Exists, Legacy!Mapped, Legacy!Runs, Legacy!NoneRuns
<1> QED
  BY <1>2, <1>3, <1>4, <1>5, <1>6, <1>7, <1>8, <1>9

(* The end of a session.                                                     *)
LEMMA DestroyedKeeps ==
  ASSUME Legacy!SessionsInv, NEW id \in SessionIds, Destroyed(id)
  PROVE SessionsRest'
<1> USE DEF Legacy!SessionsInv, SessionsRest
<1>1. /\ UNCHANGED <<legacyLog, mapping, migration, drawn, up>>
      /\ session[id].state = "deleted" /\ session'[id].state = "none"
      /\ \A i \in SessionIds : i # id => session'[i] = session[i] /\ purge'[i] = purge[i]
      /\ purge'[id].pc = "none"
  BY DEF Destroyed
<1>2. \/ gone' = gone
      \/ /\ purge[id].pc = "marked" /\ purge[id].alone
         /\ gone' = gone \cup ({session[id].of} \ {"native"})
  BY DEF Destroyed
<1>3. gone' = gone \/ Legacy!NoneRuns
  BY <1>2 DEF Legacy!PurgesDeleted
<1>4. Legacy!ImportsAlone'
  BY <1>1, <1>2, <1>3 DEF Legacy!ImportsAlone, Legacy!SessionOf, Legacy!Exists, Legacy!Mapped, Legacy!Runs, Legacy!NoneRuns
<1>5. Legacy!MappedOnly'
  BY <1>1, <1>2, <1>3 DEF Legacy!MappedOnly, Legacy!SessionOf, Legacy!Exists, Legacy!Mapped, Legacy!Runs, Legacy!NoneRuns
<1>6. Legacy!KnowsSessions'
  BY <1>1, <1>2, <1>3 DEF Legacy!KnowsSessions, Legacy!Knows, Legacy!SessionOf, Legacy!Exists, Legacy!Mapped, Legacy!Runs, Legacy!NoneRuns
<1>7. Legacy!Imports'
  <2> SUFFICES ASSUME NEW m \in Migrations, NEW c \in Conversations
               PROVE Legacy!Imported(m, c)'
    BY DEF Legacy!Imports
  <2>1. Legacy!Imported(m, c)
    BY DEF Legacy!Imports
  <2>2. migration[m].id \in SessionIds \cup {NoId}
    BY DEF Legacy!TypeOK, Legacy!MigrationType
  <2> QED
    BY <2>1, <2>2, <1>1, <1>2, <1>3 DEF Legacy!Imported, Legacy!At, Legacy!SessionOf, Legacy!Exists, Legacy!Mapped, Legacy!Runs, Legacy!NoneRuns
<1>8. Legacy!UnmappedDue'
  BY <1>1, <1>2, <1>3 DEF Legacy!UnmappedDue, Legacy!At, Legacy!SessionOf, Legacy!Exists, Legacy!Mapped, Legacy!Runs, Legacy!NoneRuns
<1>9. Legacy!PurgesDeleted'
  BY <1>1, <1>2, <1>3 DEF Legacy!PurgesDeleted, Legacy!SessionOf, Legacy!Exists, Legacy!Mapped, Legacy!Runs, Legacy!NoneRuns
<1>10. Legacy!OneSessionEach'
  BY <1>1, <1>2, <1>3 DEF Legacy!OneSessionEach, Legacy!SessionOf, Legacy!Exists, Legacy!Mapped, Legacy!Runs, Legacy!NoneRuns
<1>11. Legacy!PurgedForGood'
  BY <1>1, <1>2, <1>3 DEF Legacy!PurgedForGood, Legacy!SessionOf, Legacy!Exists, Legacy!Mapped, Legacy!Runs, Legacy!NoneRuns, Legacy!OneSessionEach
<1> QED
  BY <1>4, <1>5, <1>6, <1>7, <1>8, <1>9, <1>10, <1>11

(* The begin of a purge.                                                     *)
LEMMA ImportBeginKeeps ==
  ASSUME Legacy!SessionsInv, NEW id \in SessionIds, Legacy!BeginPurge(id)
  PROVE SessionsRest'
<1> USE DEF Legacy!SessionsInv, SessionsRest
<1>1. /\ UNCHANGED <<legacyLog, session, migration, drawn, gone, up>>
      /\ Legacy!Exists(id) /\ up /\ session[id].state = "deleted"
      /\ \A c \in Conversations :
             /\ mapping'[c].id = mapping[c].id
             /\ mapping'[c].purged <=>
                  mapping[c].purged \/ (mapping[c].id = id /\ session[id].of # "native")
      /\ \A i \in SessionIds : i # id => purge'[i] = purge[i]
      /\ purge'[id].rev = session[id].rev /\ (purge'[id].alone => Legacy!NoneRuns)
  BY SessionsBegin
<1>2. NoId \notin SessionIds /\ session[id].of \in Conversations \cup {"native"}
  BY RecordsAssumption DEF Legacy!SessionsAssumption, Legacy!TypeOK, Legacy!SessionType
<1>3. Legacy!ImportsAlone'
  BY <1>1, <1>2 DEF Legacy!ImportsAlone, Legacy!SessionOf, Legacy!Exists, Legacy!Mapped, Legacy!Runs, Legacy!NoneRuns
<1>4. Legacy!MappedOnly'
  BY <1>1, <1>2 DEF Legacy!MappedOnly, Legacy!SessionOf, Legacy!Exists, Legacy!Mapped, Legacy!Runs, Legacy!NoneRuns
<1>5. Legacy!KnowsSessions'
  BY <1>1, <1>2 DEF Legacy!KnowsSessions, Legacy!Knows, Legacy!SessionOf, Legacy!Exists, Legacy!Mapped, Legacy!Runs, Legacy!NoneRuns
<1>6. Legacy!Imports'
  <2> SUFFICES ASSUME NEW m \in Migrations, NEW c \in Conversations
               PROVE Legacy!Imported(m, c)'
    BY DEF Legacy!Imports
  <2>1. Legacy!Imported(m, c)
    BY DEF Legacy!Imports
  <2>2. migration[m].id \in SessionIds \cup {NoId}
    BY DEF Legacy!TypeOK, Legacy!MigrationType
  <2> QED
    BY <2>1, <2>2, <1>1, <1>2 DEF Legacy!Imported, Legacy!At, Legacy!SessionOf, Legacy!Exists, Legacy!Mapped, Legacy!Runs, Legacy!NoneRuns
<1>7. Legacy!UnmappedDue'
  BY <1>1, <1>2 DEF Legacy!UnmappedDue, Legacy!At, Legacy!SessionOf, Legacy!Exists, Legacy!Mapped, Legacy!Runs, Legacy!NoneRuns
<1>8. Legacy!PurgesDeleted'
  <2>1. ASSUME purge'[id].alone, session[id].of # "native"
        PROVE Legacy!NoneRuns /\ mapping'[session[id].of].purged
    <3> DEFINE c == session[id].of
    <3>1. c \in Conversations /\ Legacy!SessionOf(id, c) /\ Legacy!NoneRuns
      BY <1>1, <1>2, <2>1 DEF Legacy!SessionOf
    <3>2. Legacy!Mapped(c)
      BY <1>1, <3>1 DEF Legacy!UnmappedDue, Legacy!NoneRuns, Legacy!Runs, Legacy!At
    <3>3. mapping[c].id = id
      BY <3>1, <3>2 DEF Legacy!MappedOnly
    <3> QED
      BY <1>1, <2>1, <3>1, <3>3
  <2>2. \A c \in gone' : mapping'[c].purged
    BY <1>1 DEF Legacy!PurgesDeleted, Legacy!TypeOK
  <2>3. Legacy!NoneRuns' <=> Legacy!NoneRuns
    BY <1>1 DEF Legacy!NoneRuns, Legacy!Runs
  <2>4. ASSUME NEW i \in SessionIds, purge'[i].pc = "marked", i # id
        PROVE /\ session'[i].state = "deleted" /\ session'[i].rev = purge'[i].rev
              /\ purge'[i].alone =>
                   Legacy!NoneRuns /\ (session'[i].of # "native" => mapping'[session'[i].of].purged)
    <3>1. /\ session[i].state = "deleted" /\ session[i].rev = purge[i].rev
          /\ purge[i].alone =>
               Legacy!NoneRuns /\ (session[i].of # "native" => mapping[session[i].of].purged)
      BY <1>1, <2>4 DEF Legacy!PurgesDeleted
    <3>2. session[i].of \in Conversations \cup {"native"}
      BY DEF Legacy!TypeOK, Legacy!SessionType
    <3> QED
      BY <1>1, <2>4, <3>1, <3>2
  <2> QED
    BY <1>1, <2>1, <2>2, <2>3, <2>4 DEF Legacy!PurgesDeleted
<1>9. Legacy!OneSessionEach'
  BY <1>1, <1>2 DEF Legacy!OneSessionEach, Legacy!SessionOf, Legacy!Exists, Legacy!Mapped, Legacy!Runs, Legacy!NoneRuns
<1>10. Legacy!PurgedForGood'
  BY <1>1, <1>2 DEF Legacy!PurgedForGood, Legacy!SessionOf, Legacy!Exists, Legacy!Mapped, Legacy!Runs, Legacy!NoneRuns
<1> QED
  BY <1>3, <1>4, <1>5, <1>6, <1>7, <1>8, <1>9, <1>10

(* A copy.                                                                   *)
LEMMA DuplicateKeeps ==
  ASSUME Legacy!SessionsInv, NEW source \in SessionIds, NEW id \in SessionIds, Legacy!Duplicate(source, id)
  PROVE SessionsRest'
<1> USE DEF Legacy!SessionsInv, SessionsRest
<1>1. /\ UNCHANGED <<legacyLog, mapping, migration, purge, gone, up>>
      /\ id \notin drawn /\ drawn' = drawn \cup {id}
      /\ session'[id].state = "live" /\ session'[id].of = "native"
      /\ \A i \in SessionIds : i # id => session'[i] = session[i]
  BY SessionsDuplicate
<1>2. session[id].state = "none" /\ "native" \notin Conversations /\ gone \subseteq Conversations
      /\ NoId \notin SessionIds
  BY <1>1, RecordsAssumption DEF Legacy!ImportsAlone, Legacy!Exists, Legacy!SessionsAssumption, Legacy!TypeOK
<1>3. Legacy!ImportsAlone'
  BY <1>1, <1>2 DEF Legacy!ImportsAlone, Legacy!SessionOf, Legacy!Exists, Legacy!Mapped, Legacy!Runs, Legacy!NoneRuns
<1>4. Legacy!MappedOnly'
  BY <1>1, <1>2 DEF Legacy!MappedOnly, Legacy!SessionOf, Legacy!Exists, Legacy!Mapped, Legacy!Runs, Legacy!NoneRuns
<1>5. Legacy!KnowsSessions'
  BY <1>1, <1>2 DEF Legacy!KnowsSessions, Legacy!Knows, Legacy!SessionOf, Legacy!Exists, Legacy!Mapped, Legacy!Runs, Legacy!NoneRuns
<1>6. Legacy!Imports'
  <2> SUFFICES ASSUME NEW m \in Migrations, NEW c \in Conversations
               PROVE Legacy!Imported(m, c)'
    BY DEF Legacy!Imports
  <2>1. Legacy!Imported(m, c)
    BY DEF Legacy!Imports
  <2>2. migration[m].id \in SessionIds \cup {NoId}
    BY DEF Legacy!TypeOK, Legacy!MigrationType
  <2>3. mapping[c].id \in drawn \cup {NoId}
    BY DEF Legacy!ImportsAlone
  <2> QED
    BY <2>1, <2>2, <2>3, <1>1, <1>2 DEF Legacy!Imported, Legacy!At, Legacy!SessionOf, Legacy!Exists, Legacy!Mapped, Legacy!Runs, Legacy!NoneRuns
<1>7. Legacy!UnmappedDue'
  BY <1>1, <1>2 DEF Legacy!UnmappedDue, Legacy!At, Legacy!SessionOf, Legacy!Exists, Legacy!Mapped, Legacy!Runs, Legacy!NoneRuns
<1>8. Legacy!PurgesDeleted'
  BY <1>1, <1>2 DEF Legacy!PurgesDeleted, Legacy!SessionOf, Legacy!Exists, Legacy!Mapped, Legacy!Runs, Legacy!NoneRuns
<1>9. Legacy!OneSessionEach'
  BY <1>1, <1>2 DEF Legacy!OneSessionEach, Legacy!SessionOf, Legacy!Exists, Legacy!Mapped, Legacy!Runs, Legacy!NoneRuns
<1>10. Legacy!PurgedForGood'
  BY <1>1, <1>2 DEF Legacy!PurgedForGood, Legacy!SessionOf, Legacy!Exists, Legacy!Mapped, Legacy!Runs, Legacy!NoneRuns
<1> QED
  BY <1>3, <1>4, <1>5, <1>6, <1>7, <1>8, <1>9, <1>10

(* The death of the daemon.                                                  *)
LEMMA CrashKeeps ==
  ASSUME Legacy!SessionsInv, Legacy!Crash
  PROVE SessionsRest'
<1> USE DEF Legacy!SessionsInv, SessionsRest
<1>1. /\ UNCHANGED <<legacyLog, session, mapping, drawn, gone>> /\ up' = FALSE
      /\ \A m \in Migrations : migration'[m].pc = "idle" /\ migration'[m].todo = {}
      /\ \A id \in SessionIds : purge'[id].pc = "none"
  BY SessionsCrash
<1>2. Legacy!ImportsAlone'
  BY <1>1 DEF Legacy!ImportsAlone, Legacy!SessionOf, Legacy!Exists, Legacy!Mapped, Legacy!Runs, Legacy!NoneRuns
<1>3. Legacy!MappedOnly'
  BY <1>1 DEF Legacy!MappedOnly, Legacy!SessionOf, Legacy!Exists, Legacy!Mapped, Legacy!Runs, Legacy!NoneRuns
<1>4. Legacy!KnowsSessions'
  BY <1>1 DEF Legacy!KnowsSessions, Legacy!Knows, Legacy!SessionOf, Legacy!Exists, Legacy!Mapped, Legacy!Runs, Legacy!NoneRuns
<1>5. Legacy!Imports'
  <2> SUFFICES ASSUME NEW m \in Migrations, NEW c \in Conversations
               PROVE Legacy!Imported(m, c)'
    BY DEF Legacy!Imports
  <2>1. Legacy!Imported(m, c)
    BY DEF Legacy!Imports
  <2>2. migration[m].id \in SessionIds \cup {NoId}
    BY DEF Legacy!TypeOK, Legacy!MigrationType
  <2> QED
    BY <2>1, <2>2, <1>1 DEF Legacy!Imported, Legacy!At, Legacy!SessionOf, Legacy!Exists, Legacy!Mapped, Legacy!Runs, Legacy!NoneRuns
<1>6. Legacy!UnmappedDue'
  BY <1>1 DEF Legacy!UnmappedDue, Legacy!At, Legacy!SessionOf, Legacy!Exists, Legacy!Mapped, Legacy!Runs, Legacy!NoneRuns
<1>7. Legacy!PurgesDeleted'
  BY <1>1 DEF Legacy!PurgesDeleted, Legacy!SessionOf, Legacy!Exists, Legacy!Mapped, Legacy!Runs, Legacy!NoneRuns
<1>8. Legacy!OneSessionEach'
  BY <1>1 DEF Legacy!OneSessionEach, Legacy!SessionOf, Legacy!Exists, Legacy!Mapped, Legacy!Runs, Legacy!NoneRuns
<1>9. Legacy!PurgedForGood'
  BY <1>1 DEF Legacy!PurgedForGood, Legacy!SessionOf, Legacy!Exists, Legacy!Mapped, Legacy!Runs, Legacy!NoneRuns
<1> QED
  BY <1>2, <1>3, <1>4, <1>5, <1>6, <1>7, <1>8, <1>9

(* An import begins.                                                         *)
LEMMA LockKeeps ==
  ASSUME Legacy!SessionsInv, NEW m \in Migrations, Legacy!Lock(m)
  PROVE SessionsRest'
<1> USE DEF Legacy!SessionsInv, SessionsRest
<1>1. /\ Legacy!NoneRuns /\ UNCHANGED <<legacyLog, session, mapping, drawn, gone, up>>
      /\ \A id \in SessionIds : /\ purge'[id].pc = purge[id].pc /\ purge'[id].rev = purge[id].rev
                          /\ purge'[id].alone = FALSE
  BY SessionsLock
<1>2. /\ migration'[m].pc = "list" /\ migration'[m].todo = migration[m].todo
      /\ migration'[m].known = migration[m].known
      /\ migration'[m].conv = migration[m].conv /\ migration'[m].id = migration[m].id
      /\ \A n \in Migrations : n # m => migration'[n] = migration[n]
  <2>1. migration[m] \in Legacy!MigrationType
    BY DEF Legacy!TypeOK
  <2> QED
    <3>1. migration'[m] = [migration[m] EXCEPT !.pc = "list"] /\ \A n \in Migrations : n # m => migration'[n] = migration[n]
      BY SessionsLock DEF Becomes
    <3> QED
      BY <2>1, <3>1 DEF Legacy!MigrationType
<1>3. \A n \in Migrations : migration[n].pc = "idle" /\ (n # m => migration'[n].pc = "idle")
  BY <1>1, <1>2 DEF Legacy!NoneRuns, Legacy!Runs
<1>4. Legacy!ImportsAlone'
  BY <1>1, <1>2, <1>3 DEF Legacy!ImportsAlone, Legacy!SessionOf, Legacy!Exists, Legacy!Mapped, Legacy!Runs, Legacy!NoneRuns
<1>5. Legacy!MappedOnly'
  BY <1>1, <1>2, <1>3 DEF Legacy!MappedOnly, Legacy!SessionOf, Legacy!Exists, Legacy!Mapped, Legacy!Runs, Legacy!NoneRuns
<1>6. Legacy!KnowsSessions'
  BY <1>1, <1>2, <1>3 DEF Legacy!KnowsSessions, Legacy!Knows, Legacy!SessionOf, Legacy!Exists, Legacy!Mapped, Legacy!Runs, Legacy!NoneRuns
<1>7. Legacy!Imports'
  <2> SUFFICES ASSUME NEW k \in Migrations, NEW c \in Conversations
               PROVE Legacy!Imported(k, c)'
    BY DEF Legacy!Imports
  <2>1. Legacy!Imported(k, c)
    BY DEF Legacy!Imports
  <2>2. migration[k].id \in SessionIds \cup {NoId}
    BY DEF Legacy!TypeOK, Legacy!MigrationType
  <2> QED
    BY <2>1, <2>2, <1>1, <1>2, <1>3 DEF Legacy!Imported, Legacy!At, Legacy!SessionOf, Legacy!Exists, Legacy!Mapped, Legacy!Runs, Legacy!NoneRuns
<1>8. Legacy!UnmappedDue'
  BY <1>1, <1>2, <1>3 DEF Legacy!UnmappedDue, Legacy!At, Legacy!SessionOf, Legacy!Exists, Legacy!Mapped, Legacy!Runs, Legacy!NoneRuns
<1>9. Legacy!PurgesDeleted'
  BY <1>1, <1>2, <1>3 DEF Legacy!PurgesDeleted, Legacy!SessionOf, Legacy!Exists, Legacy!Mapped, Legacy!Runs, Legacy!NoneRuns
<1>10. Legacy!OneSessionEach'
  BY <1>1, <1>2, <1>3 DEF Legacy!OneSessionEach, Legacy!SessionOf, Legacy!Exists, Legacy!Mapped, Legacy!Runs, Legacy!NoneRuns
<1>11. Legacy!PurgedForGood'
  BY <1>1, <1>2, <1>3 DEF Legacy!PurgedForGood, Legacy!SessionOf, Legacy!Exists, Legacy!Mapped, Legacy!Runs, Legacy!NoneRuns
<1> QED
  BY <1>4, <1>5, <1>6, <1>7, <1>8, <1>9, <1>10, <1>11

(* It lists the sessions.                                                    *)
LEMMA ListKeeps ==
  ASSUME Legacy!SessionsInv, NEW m \in Migrations, Legacy!List(m)
  PROVE SessionsRest'
<1> USE DEF Legacy!SessionsInv, SessionsRest
<1>1. /\ migration[m].pc = "list" /\ UNCHANGED <<legacyLog, session, mapping, purge, drawn, gone, up>>
      /\ \A n \in Migrations : n # m => migration'[n] = migration[n]
  BY SessionsList DEF Becomes
<1>2. \A n \in Migrations : n # m => migration[n].pc = "idle"
  BY <1>1 DEF Legacy!ImportsAlone, Legacy!Runs
<1>3. \A i \in SessionIds, c \in Conversations : <<i, c>> \in Legacy!Known <=> Legacy!SessionOf(i, c)
  BY DEF Legacy!Known, Legacy!SessionOf
<1>4. "native" \notin Conversations
  BY RecordsAssumption DEF Legacy!SessionsAssumption
<1>5. /\ migration'[m].pc = "next" /\ migration'[m].todo = legacyLog
      /\ migration'[m].known = Legacy!Known
      /\ migration'[m].conv = migration[m].conv /\ migration'[m].id = migration[m].id
  <2>1. migration[m] \in Legacy!MigrationType /\ Becomes(m, [migration[m] EXCEPT !.pc = "next", !.todo = legacyLog, !.known = Legacy!Known])
    BY SessionsList DEF Legacy!TypeOK
  <2> QED
    BY <2>1 DEF Becomes, Legacy!MigrationType
<1>6. Legacy!ImportsAlone'
  BY <1>1, <1>2, <1>3, <1>4, <1>5 DEF Legacy!ImportsAlone, Legacy!SessionOf, Legacy!Exists, Legacy!Mapped, Legacy!Runs, Legacy!NoneRuns
<1>7. Legacy!MappedOnly'
  BY <1>1, <1>2, <1>3, <1>4, <1>5 DEF Legacy!MappedOnly, Legacy!SessionOf, Legacy!Exists, Legacy!Mapped, Legacy!Runs, Legacy!NoneRuns
<1>8. Legacy!KnowsSessions'
  BY <1>1, <1>2, <1>3, <1>4, <1>5 DEF Legacy!KnowsSessions, Legacy!Knows, Legacy!SessionOf, Legacy!Exists, Legacy!Mapped, Legacy!Runs, Legacy!NoneRuns, Legacy!MappedOnly, Legacy!OneSessionEach, Legacy!ImportsAlone
<1>9. Legacy!Imports'
  <2> SUFFICES ASSUME NEW k \in Migrations, NEW c \in Conversations
               PROVE Legacy!Imported(k, c)'
    BY DEF Legacy!Imports
  <2>1. Legacy!Imported(k, c)
    BY DEF Legacy!Imports
  <2>2. migration[k].id \in SessionIds \cup {NoId}
    BY DEF Legacy!TypeOK, Legacy!MigrationType
  <2> QED
    BY <2>1, <2>2, <1>1, <1>2, <1>3, <1>4, <1>5 DEF Legacy!Imported, Legacy!At, Legacy!SessionOf, Legacy!Exists, Legacy!Mapped, Legacy!Runs, Legacy!NoneRuns
<1>10. Legacy!UnmappedDue'
  BY <1>1, <1>2, <1>3, <1>4, <1>5 DEF Legacy!UnmappedDue, Legacy!At, Legacy!SessionOf, Legacy!Exists, Legacy!Mapped, Legacy!Runs, Legacy!NoneRuns, Legacy!ImportsAlone
<1>11. Legacy!PurgesDeleted'
  BY <1>1, <1>2, <1>3, <1>4, <1>5 DEF Legacy!PurgesDeleted, Legacy!SessionOf, Legacy!Exists, Legacy!Mapped, Legacy!Runs, Legacy!NoneRuns
<1>12. Legacy!OneSessionEach'
  BY <1>1, <1>2, <1>3, <1>4, <1>5 DEF Legacy!OneSessionEach, Legacy!SessionOf, Legacy!Exists, Legacy!Mapped, Legacy!Runs, Legacy!NoneRuns
<1>13. Legacy!PurgedForGood'
  BY <1>1, <1>2, <1>3, <1>4, <1>5 DEF Legacy!PurgedForGood, Legacy!SessionOf, Legacy!Exists, Legacy!Mapped, Legacy!Runs, Legacy!NoneRuns
<1> QED
  BY <1>6, <1>7, <1>8, <1>9, <1>10, <1>11, <1>12, <1>13

(* It takes the next conversation, or ends.                                  *)
LEMMA NextKeeps ==
  ASSUME Legacy!SessionsInv, NEW m \in Migrations, Legacy!NextConversation(m)
  PROVE SessionsRest'
<1> USE DEF Legacy!SessionsInv, SessionsRest
<1>1. /\ migration[m].pc = "next" /\ UNCHANGED <<legacyLog, session, mapping, purge, drawn, gone>>
      /\ \A n \in Migrations : n # m => migration'[n] = migration[n]
  BY SessionsNext DEF Becomes
<1>2. \A n \in Migrations : n # m => migration[n].pc = "idle"
  BY <1>1 DEF Legacy!ImportsAlone, Legacy!Runs
<1>3. \/ /\ migration[m].todo = {} /\ up' = TRUE /\ migration'[m].pc = "idle" /\ migration'[m].todo = {}
      \/ /\ up' = up /\ migration'[m].pc = "find" /\ migration'[m].conv \in migration[m].todo
         /\ migration'[m].todo = migration[m].todo \ {migration'[m].conv}
         /\ migration'[m].known = migration[m].known
  <2>1. migration[m] \in Legacy!MigrationType
    BY DEF Legacy!TypeOK
  <2>2. ASSUME NEW c \in migration[m].todo,
               Becomes(m, [migration[m] EXCEPT !.pc = "find", !.conv = c, !.todo = migration[m].todo \ {c}])
        PROVE /\ migration'[m].pc = "find" /\ migration'[m].conv = c
              /\ migration'[m].todo = migration[m].todo \ {c}
              /\ migration'[m].known = migration[m].known
    BY <2>1, <2>2 DEF Becomes, Legacy!MigrationType
  <2>3. Becomes(m, Legacy!NoMigration) => migration'[m].pc = "idle" /\ migration'[m].todo = {}
    BY DEF Becomes, Legacy!NoMigration
  <2> QED
    BY <2>2, <2>3, SessionsNext
<1>4. Legacy!ImportsAlone'
  BY <1>1, <1>2, <1>3 DEF Legacy!ImportsAlone, Legacy!SessionOf, Legacy!Exists, Legacy!Mapped, Legacy!Runs, Legacy!NoneRuns
<1>5. Legacy!MappedOnly'
  BY <1>1, <1>2, <1>3 DEF Legacy!MappedOnly, Legacy!SessionOf, Legacy!Exists, Legacy!Mapped, Legacy!Runs, Legacy!NoneRuns
<1>6. Legacy!KnowsSessions'
  BY <1>1, <1>2, <1>3 DEF Legacy!KnowsSessions, Legacy!Knows, Legacy!SessionOf, Legacy!Exists, Legacy!Mapped, Legacy!Runs, Legacy!NoneRuns
<1>7. Legacy!Imports'
  <2> SUFFICES ASSUME NEW k \in Migrations, NEW c \in Conversations
               PROVE Legacy!Imported(k, c)'
    BY DEF Legacy!Imports
  <2>1. Legacy!Imported(k, c)
    BY DEF Legacy!Imports
  <2>2. migration[k].id \in SessionIds \cup {NoId}
    BY DEF Legacy!TypeOK, Legacy!MigrationType
  <2> QED
    BY <2>1, <2>2, <1>1, <1>2, <1>3 DEF Legacy!Imported, Legacy!At, Legacy!SessionOf, Legacy!Exists, Legacy!Mapped, Legacy!Runs, Legacy!NoneRuns
<1>8. Legacy!UnmappedDue'
  BY <1>1, <1>2, <1>3 DEF Legacy!UnmappedDue, Legacy!At, Legacy!SessionOf, Legacy!Exists, Legacy!Mapped, Legacy!Runs, Legacy!NoneRuns
<1>9. Legacy!PurgesDeleted'
  BY <1>1, <1>2, <1>3 DEF Legacy!PurgesDeleted, Legacy!SessionOf, Legacy!Exists, Legacy!Mapped, Legacy!Runs, Legacy!NoneRuns
<1>10. Legacy!OneSessionEach'
  BY <1>1, <1>2, <1>3 DEF Legacy!OneSessionEach, Legacy!SessionOf, Legacy!Exists, Legacy!Mapped, Legacy!Runs, Legacy!NoneRuns
<1>11. Legacy!PurgedForGood'
  BY <1>1, <1>2, <1>3 DEF Legacy!PurgedForGood, Legacy!SessionOf, Legacy!Exists, Legacy!Mapped, Legacy!Runs, Legacy!NoneRuns
<1> QED
  BY <1>4, <1>5, <1>6, <1>7, <1>8, <1>9, <1>10, <1>11

(* It looks for a mapping.                                                   *)
LEMMA FindKeeps ==
  ASSUME Legacy!SessionsInv, NEW m \in Migrations, Legacy!FindLegacyMapping(m)
  PROVE SessionsRest'
<1> USE DEF Legacy!SessionsInv, SessionsRest
<1>1. migration[m].pc = "find" /\ UNCHANGED <<legacyLog, session, mapping, purge, drawn, gone, up>>
  BY DEF Legacy!FindLegacyMapping, Legacy!Reading
<1>2. migration[m].conv \in legacyLog /\ migration[m].conv \in Conversations
  BY <1>1 DEF Legacy!ImportsAlone, Legacy!TypeOK
<1>3. \A n \in Migrations : n # m => migration[n].pc = "idle"
  BY <1>1 DEF Legacy!ImportsAlone, Legacy!Runs
<1>4. mapping[migration[m].conv] \in [id : SessionIds \cup {NoId}, purged : BOOLEAN] /\ NoId \notin SessionIds
  BY <1>2, RecordsAssumption DEF Legacy!TypeOK, Legacy!SessionsAssumption
<1>5. /\ \A n \in Migrations : n # m => migration'[n] = migration[n]
      /\ migration'[m].todo = migration[m].todo /\ migration'[m].known = migration[m].known
      /\ migration'[m].conv = migration[m].conv
      /\ LET c == migration[m].conv
         IN  \/ mapping[c].purged /\ migration'[m].pc = "next"
             \/ /\ ~mapping[c].purged /\ Legacy!Mapped(c) /\ migration'[m].pc = "look"
                /\ migration'[m].id = mapping[c].id
             \/ /\ ~Legacy!Mapped(c) /\ \A i \in SessionIds : <<i, c>> \notin migration[m].known
                /\ ~mapping[c].purged /\ migration'[m].pc = "create" /\ migration'[m].id = NoId
             \/ /\ ~Legacy!Mapped(c) /\ <<migration'[m].id, c>> \in migration[m].known
                /\ ~mapping[c].purged /\ migration'[m].pc = "upsert" /\ migration'[m].id \in SessionIds
  <2> DEFINE c == migration[m].conv
  <2>1. migration[m] \in Legacy!MigrationType
    BY DEF Legacy!TypeOK
  <2>2. ASSUME NEW step \in {"look", "create", "upsert"}, NEW i \in SessionIds \cup {NoId},
               Becomes(m, [migration[m] EXCEPT !.pc = step, !.id = i])
        PROVE /\ migration'[m].pc = step /\ migration'[m].id = i
              /\ \A n \in Migrations : n # m => migration'[n] = migration[n]
              /\ migration'[m].todo = migration[m].todo /\ migration'[m].known = migration[m].known
              /\ migration'[m].conv = c
    BY <2>1, <2>2 DEF Becomes, Legacy!MigrationType
  <2>3. ASSUME Becomes(m, [migration[m] EXCEPT !.pc = "next"])
        PROVE /\ migration'[m].pc = "next"
              /\ \A n \in Migrations : n # m => migration'[n] = migration[n]
              /\ migration'[m].todo = migration[m].todo /\ migration'[m].known = migration[m].known
              /\ migration'[m].conv = c
    BY <2>1, <2>3 DEF Becomes, Legacy!MigrationType
  <2>4. mapping[c] = Legacy!Unmapped => ~mapping[c].purged /\ ~Legacy!Mapped(c)
    BY DEF Legacy!Unmapped, Legacy!Mapped
  <2>5. ~mapping[c].purged /\ mapping[c] # Legacy!Unmapped => Legacy!Mapped(c)
    BY <1>4 DEF Legacy!Unmapped, Legacy!Mapped
  <2>6. \/ mapping[c].purged /\ Becomes(m, [migration[m] EXCEPT !.pc = "next"])
        \/ /\ ~mapping[c].purged /\ mapping[c] # Legacy!Unmapped
           /\ Becomes(m, [migration[m] EXCEPT !.pc = "look", !.id = mapping[c].id])
        \/ /\ mapping[c] = Legacy!Unmapped /\ \A i \in SessionIds : <<i, c>> \notin migration[m].known
           /\ Becomes(m, [migration[m] EXCEPT !.pc = "create", !.id = NoId])
        \/ /\ mapping[c] = Legacy!Unmapped
           /\ \E i \in SessionIds : <<i, c>> \in migration[m].known
                            /\ Becomes(m, [migration[m] EXCEPT !.pc = "upsert", !.id = i])
    BY <1>2, SessionsFind
  <2> HIDE DEF c
  <2>7. CASE mapping[c].purged /\ Becomes(m, [migration[m] EXCEPT !.pc = "next"])
    BY <2>3, <2>7 DEF c
  <2>8. CASE /\ ~mapping[c].purged /\ mapping[c] # Legacy!Unmapped
             /\ Becomes(m, [migration[m] EXCEPT !.pc = "look", !.id = mapping[c].id])
    <3>1. mapping[c].id \in SessionIds \cup {NoId}
      BY <1>4 DEF c
    <3> QED
      BY <2>2, <2>5, <2>8, <3>1 DEF c
  <2>9. CASE /\ mapping[c] = Legacy!Unmapped /\ \A i \in SessionIds : <<i, c>> \notin migration[m].known
             /\ Becomes(m, [migration[m] EXCEPT !.pc = "create", !.id = NoId])
    BY <2>2, <2>4, <2>9 DEF c
  <2>10. ASSUME mapping[c] = Legacy!Unmapped, NEW i \in SessionIds, <<i, c>> \in migration[m].known,
                Becomes(m, [migration[m] EXCEPT !.pc = "upsert", !.id = i])
         PROVE /\ migration'[m].pc = "upsert" /\ migration'[m].id = i /\ ~Legacy!Mapped(c) /\ ~mapping[c].purged
               /\ \A n \in Migrations : n # m => migration'[n] = migration[n]
               /\ migration'[m].todo = migration[m].todo /\ migration'[m].known = migration[m].known
               /\ migration'[m].conv = c
    BY <2>2, <2>4, <2>10
  <2> QED
    BY <2>6, <2>7, <2>8, <2>9, <2>10 DEF c
<1>6. Legacy!ImportsAlone'
  BY <1>1, <1>2, <1>3, <1>4, <1>5 DEF Legacy!ImportsAlone, Legacy!SessionOf, Legacy!Exists, Legacy!Mapped, Legacy!Runs, Legacy!NoneRuns
<1>7. Legacy!MappedOnly'
  BY <1>1, <1>2, <1>3, <1>4, <1>5 DEF Legacy!MappedOnly, Legacy!SessionOf, Legacy!Exists, Legacy!Mapped, Legacy!Runs, Legacy!NoneRuns
<1>8. Legacy!KnowsSessions'
  BY <1>1, <1>2, <1>3, <1>4, <1>5 DEF Legacy!KnowsSessions, Legacy!Knows, Legacy!SessionOf, Legacy!Exists, Legacy!Mapped, Legacy!Runs, Legacy!NoneRuns
<1>9. Legacy!Imports'
  <2> SUFFICES ASSUME NEW n \in Migrations, NEW c \in Conversations
               PROVE Legacy!Imported(n, c)'
    BY DEF Legacy!Imports
  <2>1. Legacy!Imported(n, c)
    BY DEF Legacy!Imports
  <2>2. CASE n # m
    BY <2>1, <2>2, <1>1, <1>2, <1>3, <1>4, <1>5 DEF Legacy!Imported, Legacy!At, Legacy!SessionOf, Legacy!Exists, Legacy!Mapped
  <2>3. CASE n = m /\ migration[m].conv # c
    BY <2>1, <2>3, <1>1, <1>2, <1>3, <1>4, <1>5 DEF Legacy!Imported, Legacy!At
  <2>4. CASE n = m /\ migration[m].conv = c
    <3>1. c \in gone => mapping[c].purged
      BY DEF Legacy!PurgesDeleted
    <3>2. ~mapping[c].purged => c \notin gone
      BY <3>1
    <3> QED
      BY <2>4, <3>2, <1>1, <1>4, <1>5 DEF Legacy!Imported, Legacy!At, Legacy!SessionOf, Legacy!Exists, Legacy!Mapped
  <2> QED
    BY <2>2, <2>3, <2>4
<1>10. Legacy!UnmappedDue'
  <2> SUFFICES ASSUME NEW c \in Conversations, NEW i \in SessionIds, Legacy!SessionOf(i, c), ~Legacy!Mapped(c)
               PROVE ~up /\ Legacy!Runs(m)' /\ (c \in migration'[m].todo \/ Legacy!At(m, {"upsert"}, c)')
    BY <1>1 DEF Legacy!UnmappedDue, Legacy!SessionOf, Legacy!Exists, Legacy!Mapped
  <2>1. ~up /\ (c \in migration[m].todo \/ migration[m].conv = c)
    BY <1>1, <1>3 DEF Legacy!UnmappedDue, Legacy!At, Legacy!Runs, Legacy!NoneRuns
  <2>2. <<i, c>> \in migration[m].known
    BY <1>1 DEF Legacy!KnowsSessions, Legacy!Knows
  <2>3. ~mapping[c].purged
    BY DEF Legacy!ImportsAlone
  <2> QED
    BY <1>1, <1>5, <2>1, <2>2, <2>3 DEF Legacy!At, Legacy!Runs
<1>11. Legacy!PurgesDeleted'
  BY <1>1, <1>2, <1>3, <1>4, <1>5 DEF Legacy!PurgesDeleted, Legacy!SessionOf, Legacy!Exists, Legacy!Mapped, Legacy!Runs, Legacy!NoneRuns
<1>12. Legacy!OneSessionEach'
  BY <1>1, <1>2, <1>3, <1>4, <1>5 DEF Legacy!OneSessionEach, Legacy!SessionOf, Legacy!Exists, Legacy!Mapped, Legacy!Runs, Legacy!NoneRuns
<1>13. Legacy!PurgedForGood'
  BY <1>1, <1>2, <1>3, <1>4, <1>5 DEF Legacy!PurgedForGood, Legacy!SessionOf, Legacy!Exists, Legacy!Mapped, Legacy!Runs, Legacy!NoneRuns
<1> QED
  BY <1>6, <1>7, <1>8, <1>9, <1>10, <1>11, <1>12, <1>13

(* It looks for the mapped session.                                          *)
LEMMA GetKeeps ==
  ASSUME Legacy!SessionsInv, NEW m \in Migrations, Legacy!GetSession(m)
  PROVE SessionsRest'
<1> USE DEF Legacy!SessionsInv, SessionsRest
<1>1. migration[m].pc = "look" /\ UNCHANGED <<legacyLog, session, mapping, purge, drawn, gone, up>>
  BY DEF Legacy!GetSession, Legacy!Reading
<1>2. migration[m].conv \in legacyLog /\ migration[m].conv \in Conversations
  BY <1>1 DEF Legacy!ImportsAlone, Legacy!TypeOK
<1>3. \A n \in Migrations : n # m => migration[n].pc = "idle"
  BY <1>1 DEF Legacy!ImportsAlone, Legacy!Runs
<1>4. migration[m].id # NoId /\ migration[m].id = mapping[migration[m].conv].id
  BY <1>1, <1>2 DEF Legacy!Imports, Legacy!Imported, Legacy!At
<1>5. /\ \A n \in Migrations : n # m => migration'[n] = migration[n]
      /\ migration'[m].todo = migration[m].todo /\ migration'[m].known = migration[m].known
      /\ migration'[m].conv = migration[m].conv /\ migration'[m].id = migration[m].id
      /\ \/ migration'[m].pc = "next"
         \/ migration'[m].pc = "create" /\ ~Legacy!Exists(migration[m].id)
  <2>1. migration[m] \in Legacy!MigrationType
    BY DEF Legacy!TypeOK
  <2>2. ASSUME NEW step \in {"next", "create"}, Becomes(m, [migration[m] EXCEPT !.pc = step])
        PROVE /\ migration'[m].pc = step
              /\ \A n \in Migrations : n # m => migration'[n] = migration[n]
              /\ migration'[m].todo = migration[m].todo /\ migration'[m].known = migration[m].known
              /\ migration'[m].conv = migration[m].conv /\ migration'[m].id = migration[m].id
    BY <2>1, <2>2 DEF Becomes, Legacy!MigrationType
  <2> QED
    BY <2>2, SessionsGet
<1>6. Legacy!ImportsAlone'
  BY <1>1, <1>2, <1>3, <1>4, <1>5 DEF Legacy!ImportsAlone, Legacy!SessionOf, Legacy!Exists, Legacy!Mapped, Legacy!Runs, Legacy!NoneRuns
<1>7. Legacy!MappedOnly'
  BY <1>1, <1>2, <1>3, <1>4, <1>5 DEF Legacy!MappedOnly, Legacy!SessionOf, Legacy!Exists, Legacy!Mapped, Legacy!Runs, Legacy!NoneRuns
<1>8. Legacy!KnowsSessions'
  BY <1>1, <1>2, <1>3, <1>4, <1>5 DEF Legacy!KnowsSessions, Legacy!Knows, Legacy!SessionOf, Legacy!Exists, Legacy!Mapped, Legacy!Runs, Legacy!NoneRuns
<1>9. Legacy!Imports'
  <2> SUFFICES ASSUME NEW n \in Migrations, NEW c \in Conversations
               PROVE Legacy!Imported(n, c)'
    BY DEF Legacy!Imports
  <2>1. Legacy!Imported(n, c)
    BY DEF Legacy!Imports
  <2>2. CASE n # m
    BY <2>1, <2>2, <1>1, <1>2, <1>3, <1>4, <1>5 DEF Legacy!Imported, Legacy!At, Legacy!SessionOf, Legacy!Exists, Legacy!Mapped
  <2>3. CASE n = m /\ migration[m].conv # c
    BY <2>1, <2>3, <1>1, <1>2, <1>3, <1>4, <1>5 DEF Legacy!Imported, Legacy!At
  <2>4. CASE n = m /\ migration[m].conv = c
    BY <2>1, <2>4, <1>1, <1>2, <1>3, <1>4, <1>5 DEF Legacy!Imported, Legacy!At, Legacy!SessionOf, Legacy!Exists, Legacy!Mapped
  <2> QED
    BY <2>2, <2>3, <2>4
<1>10. Legacy!UnmappedDue'
  BY <1>1, <1>2, <1>3, <1>4, <1>5 DEF Legacy!UnmappedDue, Legacy!At, Legacy!SessionOf, Legacy!Exists, Legacy!Mapped, Legacy!Runs, Legacy!NoneRuns
<1>11. Legacy!PurgesDeleted'
  BY <1>1, <1>2, <1>3, <1>4, <1>5 DEF Legacy!PurgesDeleted, Legacy!SessionOf, Legacy!Exists, Legacy!Mapped, Legacy!Runs, Legacy!NoneRuns
<1>12. Legacy!OneSessionEach'
  BY <1>1, <1>2, <1>3, <1>4, <1>5 DEF Legacy!OneSessionEach, Legacy!SessionOf, Legacy!Exists, Legacy!Mapped, Legacy!Runs, Legacy!NoneRuns
<1>13. Legacy!PurgedForGood'
  BY <1>1, <1>2, <1>3, <1>4, <1>5 DEF Legacy!PurgedForGood, Legacy!SessionOf, Legacy!Exists, Legacy!Mapped, Legacy!Runs, Legacy!NoneRuns
<1> QED
  BY <1>6, <1>7, <1>8, <1>9, <1>10, <1>11, <1>12, <1>13

(* It creates the session.                                                   *)
LEMMA CreateKeeps ==
  ASSUME Legacy!SessionsInv, NEW m \in Migrations, Legacy!CreateLegacySession(m)
  PROVE SessionsRest'
<1> USE DEF Legacy!SessionsInv, SessionsRest
<1>1. migration[m].pc = "create" /\ UNCHANGED <<legacyLog, mapping, purge, gone, up>>
  BY DEF Legacy!CreateLegacySession
<1>2. migration[m].conv \in legacyLog /\ migration[m].conv \in Conversations
  BY <1>1 DEF Legacy!ImportsAlone, Legacy!TypeOK
<1>3. \A n \in Migrations : n # m => migration[n].pc = "idle"
  BY <1>1 DEF Legacy!ImportsAlone, Legacy!Runs
<1>4. /\ NoId \notin SessionIds /\ "native" \notin Conversations
      /\ Legacy!Imported(m, migration[m].conv)
  BY <1>2, RecordsAssumption DEF Legacy!Imports, Legacy!SessionsAssumption
<1>5. PICK id \in SessionIds :
             /\ IF migration[m].id = NoId THEN id \notin drawn ELSE id = migration[m].id
             /\ session'[id].state = "live" /\ session'[id].of = migration[m].conv
             /\ \A i \in SessionIds : i # id => session'[i] = session[i]
             /\ drawn' = drawn \cup {id}
             /\ Becomes(m, [migration[m] EXCEPT !.id = id,
                              !.pc = IF migration[m].id = NoId THEN "upsert" ELSE "next",
                              !.known = migration[m].known \cup {<<id, migration[m].conv>>}])
  BY <1>2, SessionsCreate
<1>6. /\ \A n \in Migrations : n # m => migration'[n] = migration[n]
      /\ migration'[m].todo = migration[m].todo
      /\ migration'[m].known = migration[m].known \cup {<<id, migration[m].conv>>}
      /\ migration'[m].conv = migration[m].conv /\ migration'[m].id = id
      /\ migration'[m].pc = IF migration[m].id = NoId THEN "upsert" ELSE "next"
  <2>1. migration[m] \in Legacy!MigrationType
    BY DEF Legacy!TypeOK
  <2> DEFINE known == migration[m].known \cup {<<id, migration[m].conv>>}
             step == IF migration[m].id = NoId THEN "upsert" ELSE "next"
  <2>2. Becomes(m, [migration[m] EXCEPT !.id = id, !.pc = step, !.known = known])
    BY <1>5
  <2> HIDE DEF known, step
  <2>3. /\ \A n \in Migrations : n # m => migration'[n] = migration[n]
        /\ migration'[m].todo = migration[m].todo /\ migration'[m].known = known
        /\ migration'[m].conv = migration[m].conv /\ migration'[m].id = id /\ migration'[m].pc = step
    BY <2>1, <2>2 DEF Becomes, Legacy!MigrationType
  <2> QED
    BY <2>3 DEF known, step
<1>7. ~Legacy!Exists(id) /\ (id \in drawn => id = mapping[migration[m].conv].id)
      /\ (Legacy!Mapped(migration[m].conv) => id = mapping[migration[m].conv].id)
      /\ (migration[m].id = NoId => ~Legacy!Mapped(migration[m].conv))
  BY <1>1, <1>4, <1>5 DEF Legacy!Imported, Legacy!At, Legacy!ImportsAlone
<1>8. \A i \in SessionIds : <<i, migration[m].conv>> \in migration[m].known => i = id
  BY <1>1, <1>2, <1>4, <1>5, <1>7 DEF Legacy!Imported, Legacy!At, Legacy!KnowsSessions, Legacy!Knows, Legacy!Mapped
<1>9. \A i \in SessionIds : Legacy!SessionOf(i, migration[m].conv) => i = id
  BY <1>1, <1>2, <1>8 DEF Legacy!KnowsSessions, Legacy!Knows
<1>10. migration[m].conv \notin gone
  BY <1>1, <1>4 DEF Legacy!Imported, Legacy!At
<1>11. Legacy!ImportsAlone'
  BY <1>1, <1>2, <1>3, <1>4, <1>5, <1>6, <1>7, <1>8, <1>9, <1>10 DEF Legacy!ImportsAlone, Legacy!SessionOf, Legacy!Exists, Legacy!Mapped, Legacy!Runs, Legacy!NoneRuns
<1>12. Legacy!MappedOnly'
  BY <1>1, <1>2, <1>3, <1>4, <1>5, <1>6, <1>7, <1>8, <1>9, <1>10 DEF Legacy!MappedOnly, Legacy!SessionOf, Legacy!Exists, Legacy!Mapped, Legacy!Runs, Legacy!NoneRuns
<1>13. Legacy!KnowsSessions'
  BY <1>1, <1>2, <1>3, <1>4, <1>5, <1>6, <1>7, <1>8, <1>9, <1>10 DEF Legacy!KnowsSessions, Legacy!Knows, Legacy!SessionOf, Legacy!Exists, Legacy!Mapped, Legacy!Runs, Legacy!NoneRuns
<1>14. Legacy!Imports'
  <2> SUFFICES ASSUME NEW k \in Migrations, NEW c \in Conversations
               PROVE Legacy!Imported(k, c)'
    BY DEF Legacy!Imports
  <2>1. Legacy!Imported(k, c)
    BY DEF Legacy!Imports
  <2>2. migration[k].id \in SessionIds \cup {NoId}
    BY DEF Legacy!TypeOK, Legacy!MigrationType
  <2> QED
    BY <2>1, <2>2, <1>1, <1>2, <1>3, <1>4, <1>5, <1>6, <1>7, <1>8, <1>9, <1>10 DEF Legacy!Imported, Legacy!At, Legacy!SessionOf, Legacy!Exists, Legacy!Mapped, Legacy!Runs, Legacy!NoneRuns
<1>15. Legacy!UnmappedDue'
  <2> DEFINE conv == migration[m].conv
  <2> SUFFICES ASSUME NEW c \in Conversations, NEW i \in SessionIds, Legacy!SessionOf(i, c)', ~Legacy!Mapped(c)
               PROVE \/ Legacy!At(m, {"upsert"}, c)'
                     \/ ~up /\ Legacy!Runs(m)' /\ c \in migration'[m].todo
    BY <1>1 DEF Legacy!UnmappedDue, Legacy!Mapped
  <2>1. CASE i = id
    <3>1. c = conv
      BY <1>5, <2>1 DEF Legacy!SessionOf
    <3>2. migration[m].id = NoId
      BY <1>1, <1>2, <1>4, <3>1 DEF Legacy!Imported, Legacy!At, Legacy!Mapped
    <3> QED
      BY <1>6, <3>1, <3>2 DEF Legacy!At
  <2>2. CASE i # id
    <3>1. Legacy!SessionOf(i, c)
      BY <1>5, <2>2 DEF Legacy!SessionOf, Legacy!Exists
    <3>2. ~up /\ c \in migration[m].todo
      BY <1>1, <1>3, <3>1 DEF Legacy!UnmappedDue, Legacy!At, Legacy!Runs, Legacy!NoneRuns
    <3> QED
      BY <1>6, <3>2 DEF Legacy!Runs
  <2> QED
    BY <2>1, <2>2
<1>16. Legacy!PurgesDeleted'
  BY <1>1, <1>2, <1>3, <1>4, <1>5, <1>6, <1>7, <1>8, <1>9, <1>10 DEF Legacy!PurgesDeleted, Legacy!SessionOf, Legacy!Exists, Legacy!Mapped, Legacy!Runs, Legacy!NoneRuns
<1>17. Legacy!OneSessionEach'
  BY <1>1, <1>2, <1>3, <1>4, <1>5, <1>6, <1>7, <1>8, <1>9, <1>10 DEF Legacy!OneSessionEach, Legacy!SessionOf, Legacy!Exists, Legacy!Mapped, Legacy!Runs, Legacy!NoneRuns
<1>18. Legacy!PurgedForGood'
  BY <1>1, <1>2, <1>3, <1>4, <1>5, <1>6, <1>7, <1>8, <1>9, <1>10 DEF Legacy!PurgedForGood, Legacy!SessionOf, Legacy!Exists, Legacy!Mapped, Legacy!Runs, Legacy!NoneRuns
<1> QED
  BY <1>11, <1>12, <1>13, <1>14, <1>15, <1>16, <1>17, <1>18

(* It maps the conversation.                                                 *)
LEMMA UpsertKeeps ==
  ASSUME Legacy!SessionsInv, NEW m \in Migrations, Legacy!UpsertLegacyMapping(m)
  PROVE SessionsRest'
<1> USE DEF Legacy!SessionsInv, SessionsRest
<1>1. migration[m].pc = "upsert" /\ UNCHANGED <<legacyLog, session, purge, drawn, gone, up>>
  BY DEF Legacy!UpsertLegacyMapping
<1>2. migration[m].conv \in legacyLog /\ migration[m].conv \in Conversations
  BY <1>1 DEF Legacy!ImportsAlone, Legacy!TypeOK
<1>3. \A n \in Migrations : n # m => migration[n].pc = "idle"
  BY <1>1 DEF Legacy!ImportsAlone, Legacy!Runs
<1>4. Legacy!Imported(m, migration[m].conv) /\ NoId \notin SessionIds
  BY <1>2, RecordsAssumption DEF Legacy!Imports, Legacy!SessionsAssumption
<1>5. /\ \A n \in Migrations : n # m => migration'[n] = migration[n]
      /\ migration'[m].todo = migration[m].todo /\ migration'[m].known = migration[m].known
      /\ migration'[m].conv = migration[m].conv /\ migration'[m].id = migration[m].id
      /\ migration'[m].pc = "next"
  <2>1. migration[m] \in Legacy!MigrationType
    BY DEF Legacy!TypeOK
  <2>2. Becomes(m, [migration[m] EXCEPT !.pc = "next"])
    BY <1>2, SessionsUpsert
  <2> QED
    BY <2>1, <2>2 DEF Becomes, Legacy!MigrationType
<1>6. \A c \in Conversations :
             /\ mapping'[c].purged = mapping[c].purged
             /\ mapping'[c].id = IF c = migration[m].conv /\ mapping[c] = Legacy!Unmapped
                                 THEN migration[m].id ELSE mapping[c].id
  BY <1>2, SessionsUpsert
<1>7. /\ <<migration[m].id, migration[m].conv>> \in migration[m].known /\ migration[m].id \in SessionIds
      /\ (Legacy!Mapped(migration[m].conv) => migration[m].id = mapping[migration[m].conv].id)
      /\ \A i \in SessionIds : <<i, migration[m].conv>> \in migration[m].known => i = migration[m].id
  BY <1>1, <1>2, <1>4 DEF Legacy!Imported, Legacy!At, Legacy!KnowsSessions, Legacy!Knows, Legacy!TypeOK, Legacy!MigrationType
<1>8. mapping[migration[m].conv] = Legacy!Unmapped \/ Legacy!Mapped(migration[m].conv)
  <2>1. mapping[migration[m].conv] \in [id : SessionIds \cup {NoId}, purged : BOOLEAN]
    BY <1>2 DEF Legacy!TypeOK
  <2>2. mapping[migration[m].conv].purged => Legacy!Mapped(migration[m].conv)
    BY <1>2 DEF Legacy!ImportsAlone
  <2> QED
    BY <2>1, <2>2 DEF Legacy!Unmapped, Legacy!Mapped
<1>9. Legacy!Unmapped.id = NoId
  BY DEF Legacy!Unmapped
<1>10. \A c \in Conversations :
         mapping'[c].id = IF c = migration[m].conv THEN migration[m].id ELSE mapping[c].id
  BY <1>6, <1>7, <1>8, <1>9 DEF Legacy!Mapped
<1>11. \A i \in SessionIds : Legacy!SessionOf(i, migration[m].conv) => i = migration[m].id
  BY <1>1, <1>2, <1>7 DEF Legacy!KnowsSessions, Legacy!Knows
<1>12. migration[m].id \in drawn
  BY <1>1, <1>2, <1>7 DEF Legacy!KnowsSessions, Legacy!Knows
<1>13. Legacy!ImportsAlone'
  BY <1>1, <1>2, <1>3, <1>4, <1>5, <1>6, <1>7, <1>8, <1>9, <1>10, <1>11, <1>12 DEF Legacy!ImportsAlone, Legacy!SessionOf, Legacy!Exists, Legacy!Mapped, Legacy!Runs, Legacy!NoneRuns
<1>14. Legacy!MappedOnly'
  BY <1>1, <1>2, <1>3, <1>4, <1>5, <1>6, <1>7, <1>8, <1>9, <1>10, <1>11, <1>12 DEF Legacy!MappedOnly, Legacy!SessionOf, Legacy!Exists, Legacy!Mapped, Legacy!Runs, Legacy!NoneRuns
<1>15. Legacy!KnowsSessions'
  BY <1>1, <1>2, <1>3, <1>4, <1>5, <1>6, <1>7, <1>8, <1>9, <1>10, <1>11, <1>12 DEF Legacy!KnowsSessions, Legacy!Knows, Legacy!SessionOf, Legacy!Exists, Legacy!Mapped, Legacy!Runs, Legacy!NoneRuns
<1>16. Legacy!Imports'
  <2> SUFFICES ASSUME NEW k \in Migrations, NEW c \in Conversations
               PROVE Legacy!Imported(k, c)'
    BY DEF Legacy!Imports
  <2>1. Legacy!Imported(k, c)
    BY DEF Legacy!Imports
  <2>2. migration[k].id \in SessionIds \cup {NoId}
    BY DEF Legacy!TypeOK, Legacy!MigrationType
  <2> QED
    BY <2>1, <2>2, <1>1, <1>2, <1>3, <1>4, <1>5, <1>6, <1>7, <1>8, <1>9, <1>10, <1>11, <1>12 DEF Legacy!Imported, Legacy!At, Legacy!SessionOf, Legacy!Exists, Legacy!Mapped, Legacy!Runs, Legacy!NoneRuns
<1>17. Legacy!UnmappedDue'
  BY <1>1, <1>2, <1>3, <1>4, <1>5, <1>6, <1>7, <1>8, <1>9, <1>10, <1>11, <1>12 DEF Legacy!UnmappedDue, Legacy!At, Legacy!SessionOf, Legacy!Exists, Legacy!Mapped, Legacy!Runs, Legacy!NoneRuns
<1>18. Legacy!PurgesDeleted'
  <2>1. ~Legacy!NoneRuns
    BY <1>1 DEF Legacy!NoneRuns, Legacy!Runs
  <2>2. \A i \in SessionIds : purge[i].pc = "marked" => ~purge[i].alone
    BY <2>1 DEF Legacy!PurgesDeleted
  <2>3. \A c \in gone : mapping'[c].purged
    BY <1>6 DEF Legacy!PurgesDeleted, Legacy!TypeOK
  <2> QED
    BY <1>1, <2>2, <2>3 DEF Legacy!PurgesDeleted
<1>19. Legacy!OneSessionEach'
  BY <1>1, <1>2, <1>3, <1>4, <1>5, <1>6, <1>7, <1>8, <1>9, <1>10, <1>11, <1>12 DEF Legacy!OneSessionEach, Legacy!SessionOf, Legacy!Exists, Legacy!Mapped, Legacy!Runs, Legacy!NoneRuns
<1>20. Legacy!PurgedForGood'
  BY <1>1, <1>2, <1>3, <1>4, <1>5, <1>6, <1>7, <1>8, <1>9, <1>10, <1>11, <1>12 DEF Legacy!PurgedForGood, Legacy!SessionOf, Legacy!Exists, Legacy!Mapped, Legacy!Runs, Legacy!NoneRuns
<1> QED
  BY <1>13, <1>14, <1>15, <1>16, <1>17, <1>18, <1>19, <1>20

-----------------------------------------------------------------------------

(* The invariant holds at the start.                                         *)
LEMMA SessionsStart == Legacy!Init => Legacy!SessionsInv
<1> SUFFICES ASSUME Legacy!Init PROVE Legacy!SessionsInv
  OBVIOUS
<1>1. Legacy!NoSession \in Legacy!SessionType /\ Legacy!NoMigration \in Legacy!MigrationType /\ Legacy!NoPurge \in Legacy!PurgeType
      /\ Legacy!NoCopy \in Legacy!CopyType /\ Legacy!Unmapped \in [id : SessionIds \cup {NoId}, purged : BOOLEAN]
  BY RecordsAssumption DEF Legacy!NoSession, Legacy!SessionType, Legacy!NoMigration, Legacy!MigrationType, Legacy!NoPurge, Legacy!PurgeType, Legacy!NoCopy, Legacy!CopyType,
    Legacy!Unmapped, Legacy!SessionsAssumption
<1>2. Legacy!TypeOK
  <2>1. /\ session \in [SessionIds -> Legacy!SessionType] /\ migration \in [Migrations -> Legacy!MigrationType]
        /\ purge \in [SessionIds -> Legacy!PurgeType] /\ copy \in [SessionIds -> Legacy!CopyType]
    BY <1>1 DEF Legacy!Init
  <2>2. mapping \in [Conversations -> [id : SessionIds \cup {NoId}, purged : BOOLEAN]]
    BY <1>1 DEF Legacy!Init
  <2>3. legacyCrashes \in 0..MaxSessionCrashes
    BY RecordsAssumption DEF Legacy!Init, Legacy!SessionsAssumption
  <2> QED
    BY <2>1, <2>2, <2>3 DEF Legacy!Init, Legacy!TypeOK
<1>3. /\ \A id \in SessionIds : session[id].state = "none" /\ purge[id].pc = "none"
      /\ \A m \in Migrations : migration[m].pc = "idle" /\ migration[m].todo = {}
      /\ \A c \in Conversations : mapping[c].id = NoId /\ mapping[c].purged = FALSE
      /\ gone = {}
  BY DEF Legacy!Init, Legacy!NoSession, Legacy!NoPurge, Legacy!NoMigration, Legacy!Unmapped
<1>4. /\ Legacy!ImportsAlone /\ Legacy!MappedOnly /\ Legacy!KnowsSessions /\ Legacy!UnmappedDue /\ Legacy!PurgesDeleted /\ Legacy!OneSessionEach
      /\ Legacy!PurgedForGood
  BY <1>3 DEF Legacy!ImportsAlone, Legacy!MappedOnly, Legacy!KnowsSessions, Legacy!UnmappedDue, Legacy!PurgesDeleted, Legacy!OneSessionEach,
    Legacy!PurgedForGood, Legacy!SessionOf, Legacy!Exists, Legacy!Mapped, Legacy!Runs
<1>5. Legacy!Imports
  BY <1>3 DEF Legacy!Imports, Legacy!Imported, Legacy!At
<1> QED
  BY <1>2, <1>4, <1>5 DEF Legacy!SessionsInv

(* Every step keeps the invariant.                                           *)
LEMMA SessionsKeep == ASSUME Legacy!SessionsInv, [Legacy!Next]_(Legacy!vars) PROVE Legacy!SessionsInv'
<1>0. Legacy!TypeOK /\ Legacy!PurgesDeleted /\ (Legacy!TypeOK' /\ SessionsRest' => Legacy!SessionsInv')
  BY DEF Legacy!SessionsInv, SessionsRest
<1>1. ASSUME NEW m \in Migrations, Legacy!Lock(m)
      PROVE Legacy!SessionsInv'
  BY <1>0, <1>1, SessionsLock, LockKeeps
<1>2. ASSUME NEW m \in Migrations, Legacy!List(m)
      PROVE Legacy!SessionsInv'
  BY <1>0, <1>2, SessionsList, ListKeeps
<1>3. ASSUME NEW m \in Migrations, Legacy!NextConversation(m)
      PROVE Legacy!SessionsInv'
  BY <1>0, <1>3, SessionsNext, NextKeeps
<1>c. ASSUME NEW m \in Migrations, migration[m].pc \in {"find", "look", "create", "upsert"}
      PROVE migration[m].conv \in Conversations
  BY <1>c DEF Legacy!SessionsInv, Legacy!ImportsAlone, Legacy!TypeOK
<1>4. ASSUME NEW m \in Migrations, Legacy!FindLegacyMapping(m)
      PROVE Legacy!SessionsInv'
  <2>1. migration[m].conv \in Conversations
    BY <1>4, <1>c DEF Legacy!FindLegacyMapping
  <2> QED
    BY <1>0, <1>4, <2>1, SessionsFind, FindKeeps
<1>5. ASSUME NEW m \in Migrations, Legacy!GetSession(m)
      PROVE Legacy!SessionsInv'
  BY <1>0, <1>5, SessionsGet, GetKeeps
<1>6. ASSUME NEW m \in Migrations, Legacy!CreateLegacySession(m)
      PROVE Legacy!SessionsInv'
  <2>1. migration[m].conv \in Conversations
    BY <1>6, <1>c DEF Legacy!CreateLegacySession
  <2> QED
    BY <1>0, <1>6, <2>1, SessionsCreate, CreateKeeps
<1>7. ASSUME NEW m \in Migrations, Legacy!UpsertLegacyMapping(m)
      PROVE Legacy!SessionsInv'
  <2>1. migration[m].conv \in Conversations
    BY <1>7, <1>c DEF Legacy!UpsertLegacyMapping
  <2> QED
    BY <1>0, <1>7, <2>1, SessionsUpsert, UpsertKeeps
<1>8. ASSUME \/ \E c \in Conversations : Legacy!LogAppend(c)
             \/ \E id \in SessionIds : Legacy!HistoryCopied(id)
      PROVE Legacy!SessionsInv'
  BY <1>0, <1>8, SessionsQuiet, QuietKeeps
<1>9. ASSUME NEW id \in SessionIds, Legacy!Mutate(id) \/ Legacy!SoftDelete(id) \/ Legacy!Restore(id)
      PROVE Legacy!SessionsInv'
  BY <1>0, <1>9, SessionsUser, SavedKeeps
<1>10. ASSUME NEW id \in SessionIds, Legacy!BeginPurge(id)
       PROVE Legacy!SessionsInv'
  BY <1>0, <1>10, SessionsBegin, ImportBeginKeeps
<1>11. ASSUME NEW id \in SessionIds, Legacy!FinishPurge(id)
       PROVE Legacy!SessionsInv'
  BY <1>0, <1>11, SessionsFinish, QuietKeeps, DestroyedKeeps
<1>12. ASSUME NEW id \in SessionIds, Legacy!RollbackDeletes(id) \/ Legacy!RollbackPurges(id)
       PROVE Legacy!SessionsInv'
  BY <1>0, <1>12, SessionsRollback, SavedKeeps, QuietKeeps, DestroyedKeeps
<1>13. ASSUME NEW source \in SessionIds, NEW id \in SessionIds, Legacy!Duplicate(source, id)
       PROVE Legacy!SessionsInv'
  BY <1>0, <1>13, SessionsDuplicate, DuplicateKeeps
<1>14. CASE Legacy!Crash
  BY <1>0, <1>14, SessionsCrash, CrashKeeps
<1>15. CASE UNCHANGED Legacy!vars
  BY <1>15 DEF Legacy!vars, Legacy!SessionsInv, Legacy!TypeOK, Legacy!ImportsAlone, Legacy!MappedOnly, Legacy!KnowsSessions, Legacy!Knows, Legacy!Imports, Legacy!Imported,
    Legacy!UnmappedDue, Legacy!PurgesDeleted, Legacy!OneSessionEach, Legacy!PurgedForGood, Legacy!SessionOf, Legacy!Exists, Legacy!Mapped, Legacy!Runs, Legacy!NoneRuns, Legacy!At
<1> QED
  BY <1>1, <1>2, <1>3, <1>4, <1>5, <1>6, <1>7, <1>8, <1>9, <1>10, <1>11, <1>12, <1>13, <1>14, <1>15 DEF Legacy!Next

(* No step destroys a session that is not deleted.                           *)
LEMMA SessionsDestroy ==
  ASSUME Legacy!SessionsInv, [Legacy!Next]_(Legacy!vars), NEW id \in SessionIds, session[id].state = "live"
  PROVE session'[id].state # "none"
<1>0. Legacy!TypeOK /\ Legacy!PurgesDeleted
  BY DEF Legacy!SessionsInv
<1>1. ASSUME NEW m \in Migrations,
             Legacy!Lock(m) \/ Legacy!List(m) \/ Legacy!NextConversation(m) \/ Legacy!FindLegacyMapping(m) \/ Legacy!GetSession(m)
               \/ Legacy!UpsertLegacyMapping(m)
      PROVE session'[id].state # "none"
  BY <1>1 DEF Legacy!Lock, Legacy!List, Legacy!NextConversation, Legacy!FindLegacyMapping, Legacy!GetSession, Legacy!UpsertLegacyMapping, Legacy!Reading
<1>2. ASSUME NEW m \in Migrations, Legacy!CreateLegacySession(m)
      PROVE session'[id].state # "none"
  <2>1. migration[m].conv \in Conversations
    BY <1>2 DEF Legacy!CreateLegacySession, Legacy!SessionsInv, Legacy!ImportsAlone, Legacy!TypeOK
  <2> QED
    BY <1>0, <1>2, <2>1, SessionsCreate
<1>3. ASSUME \/ \E c \in Conversations : Legacy!LogAppend(c)
             \/ \E i \in SessionIds : Legacy!HistoryCopied(i) \/ Legacy!BeginPurge(i)
             \/ Legacy!Crash \/ UNCHANGED Legacy!vars
      PROVE session'[id].state # "none"
  BY <1>3 DEF Legacy!LogAppend, Legacy!HistoryCopied, Legacy!BeginPurge, Legacy!Crash, Legacy!vars
<1>4. ASSUME NEW i \in SessionIds, Saved(i) \/ Quiet \/ Destroyed(i)
      PROVE session'[id].state # "none"
  BY <1>4 DEF Saved, Quiet, Destroyed
<1>5. ASSUME NEW i \in SessionIds, \/ Legacy!Mutate(i) \/ Legacy!SoftDelete(i) \/ Legacy!Restore(i) \/ Legacy!FinishPurge(i)
                            \/ Legacy!RollbackDeletes(i) \/ Legacy!RollbackPurges(i)
      PROVE session'[id].state # "none"
  <2>1. Saved(i) \/ Quiet \/ Destroyed(i)
    BY <1>0, <1>5, SessionsUser, SessionsFinish, SessionsRollback
  <2> QED
    BY <1>4, <2>1
<1>6. ASSUME NEW source \in SessionIds, NEW i \in SessionIds, Legacy!Duplicate(source, i)
      PROVE session'[id].state # "none"
  BY <1>0, <1>6, SessionsDuplicate
<1> QED
  BY <1>1, <1>2, <1>3, <1>5, <1>6 DEF Legacy!Next

(* The inductive invariant of the sessions: ids are drawn once, a            *)
(* conversation is held by the session its mapping names, and each step of a *)
(* migration still believes what it read.                                    *)
THEOREM SessionsInvariant == Legacy!Spec => []Legacy!SessionsInv
<1>1. Legacy!Init => Legacy!SessionsInv
  BY SessionsStart
<1>2. Legacy!SessionsInv /\ [Legacy!Next]_(Legacy!vars) => Legacy!SessionsInv'
  BY SessionsKeep
<1> QED
  BY <1>1, <1>2, PTL DEF Legacy!Spec

(* A legacy conversation is imported once, a purged one never comes back, and*)
(* a live session is never destroyed (session-service, legacy-sessions).     *)
THEOREM SessionsAreKept == Legacy!Spec => Legacy!SessionsKept
<1>1. Legacy!SessionsInv => Legacy!OneSessionEach /\ Legacy!PurgedForGood
  BY DEF Legacy!SessionsInv
<1>2. Legacy!SessionsInv /\ [Legacy!Next]_(Legacy!vars) => [\A id \in SessionIds : session[id].state = "live" => session'[id].state # "none"]_(Legacy!vars)
  BY SessionsDestroy
<1> QED
  BY <1>1, <1>2, SessionsInvariant, PTL DEF Legacy!Spec, Legacy!SessionsKept, Legacy!OnlyDeletedAreDestroyed

(***************************************************************************)
(* The tasks of a goal.                                                    *)
(***************************************************************************)

(* The instance has its own names for the operators of FiniteSets.           *)
LEMMA PlanCardinality == \A S : Plan!Cardinality(S) = Cardinality(S)
  BY DEF Plan!Cardinality, Cardinality

-----------------------------------------------------------------------------
(* A graph without circles                                                  *)

(* Fewer tasks, or tasks that wait for less, make no circle.                *)
LEMMA PlanFewer ==
  ASSUME NEW g, NEW S, Plan!Acyclic(g, S), NEW h, NEW R \in SUBSET S,
         \A i \in R : h[i].deps \cap R \subseteq g[i].deps
  PROVE Plan!Acyclic(h, R)
<1> SUFFICES ASSUME NEW T \in SUBSET R, T # {} PROVE \E i \in T : h[i].deps \cap T = {}
  BY DEF Plan!Acyclic
<1>1. PICK i \in T : g[i].deps \cap T = {}
  BY DEF Plan!Acyclic
<1> QED
  BY <1>1

(* A task that no other waits for makes none.                               *)
LEMMA PlanNew ==
  ASSUME NEW g, NEW S, Plan!Acyclic(g, S), NEW h, NEW n, n \notin h[n].deps,
         \A i \in S \ {n} : h[i].deps = g[i].deps /\ n \notin g[i].deps
  PROVE Plan!Acyclic(h, S \cup {n})
<1> SUFFICES ASSUME NEW T \in SUBSET (S \cup {n}), T # {} PROVE \E i \in T : h[i].deps \cap T = {}
  BY DEF Plan!Acyclic
<1>1. CASE T \ {n} = {}
  BY <1>1
<1>2. CASE T \ {n} # {}
  <2>1. PICK i \in T \ {n} : g[i].deps \cap (T \ {n}) = {}
    BY <1>2 DEF Plan!Acyclic
  <2> QED
    BY <2>1
<1> QED
  BY <1>1, <1>2

(* One more edge closes none when what it leads to stays within a set that  *)
(* the task is not in.                                                      *)
LEMMA PlanEdge ==
  ASSUME NEW g, NEW S, Plan!Acyclic(g, S), NEW h, NEW C, NEW t, NEW d, d \in C, t \notin C,
         \A i \in C \cap S : g[i].deps \cap S \subseteq C,
         \A i \in S : h[i].deps \subseteq g[i].deps \cup (IF i = t THEN {d} ELSE {})
  PROVE Plan!Acyclic(h, S)
<1> SUFFICES ASSUME NEW T \in SUBSET S, T # {} PROVE \E i \in T : h[i].deps \cap T = {}
  BY DEF Plan!Acyclic
<1>1. CASE T \cap C # {}
  <2>1. PICK i \in T \cap C : g[i].deps \cap (T \cap C) = {}
    BY <1>1 DEF Plan!Acyclic
  <2>2. h[i].deps \subseteq g[i].deps /\ g[i].deps \cap S \subseteq C
    BY <2>1
  <2> QED
    BY <2>1, <2>2
<1>2. CASE T \cap C = {}
  <2>1. PICK i \in T : g[i].deps \cap T = {}
    BY DEF Plan!Acyclic
  <2> QED
    BY <2>1, <1>2
<1> QED
  BY <1>1, <1>2

-----------------------------------------------------------------------------
(* A list over another.                                                     *)
Over(s, g) == [i \in DOMAIN g |-> IF i \in Plan!Open(s) THEN s[i] ELSE g[i]]
Sound(s, g) == Plan!Acyclic(Over(s, g), Plan!Open(Over(s, g)))

(* What a call sees: its own copy of an open task, the file of any other.    *)
LEMMA PlanView ==
  \A a : /\ Plan!View(a) = Over(seen[a], tasks) /\ Plan!View(a)' = Over(seen[a], tasks)'
  BY DEF Plan!View, Over

(* Which tasks are open in such a view.                                      *)
LEMMA PlanOpen ==
  ASSUME NEW s, NEW g
  PROVE /\ Plan!Open(Over(s, g)) = {i \in DOMAIN g : i \in Plan!Open(s) \/ i \in Plan!Open(g)}
        /\ \A i \in DOMAIN g : Over(s, g)[i] = IF i \in Plan!Open(s) THEN s[i] ELSE g[i]
  BY DEF Over, Plan!Open

(* Replacing one task of a list.                                             *)
LEMMA PlanWith ==
  ASSUME NEW g, NEW i, NEW x
  PROVE /\ DOMAIN Plan!With(g, i, x) = DOMAIN g \cup {i}
        /\ Plan!With(g, i, x)[i] = x /\ \A j \in DOMAIN g \ {i} : Plan!With(g, i, x)[j] = g[j]
        /\ Plan!Open(Plan!With(g, i, x)) = (Plan!Open(g) \ {i}) \cup (IF Plan!Terminal(x.status) THEN {} ELSE {i})
  BY DEF Plan!With, Plan!Open

(* Nothing of the list is over the other.                                   *)
LEMMA PlanApart ==
  ASSUME NEW s, NEW g, DOMAIN s \cap DOMAIN g = {}, Plan!Acyclic(g, Plan!Open(g))
  PROVE Sound(s, g)
<1>1. Plan!Open(Over(s, g)) = Plan!Open(g) /\ \A i \in DOMAIN g : Over(s, g)[i] = g[i]
  BY PlanOpen DEF Plan!Open
<1>2. Plan!Open(g) \subseteq DOMAIN g
  BY DEF Plan!Open
<1> QED
  BY <1>1, <1>2, PlanFewer DEF Sound

(* A new task under the list.                                               *)
LEMMA PlanUnderNew ==
  ASSUME NEW s, NEW g, NEW n, NEW x, Sound(s, g), n \notin DOMAIN g, n \notin DOMAIN s,
         \A i \in Plan!Open(s) : s[i].deps \subseteq DOMAIN g,
         \A i \in DOMAIN g : g[i].deps \subseteq DOMAIN g, x.deps \subseteq DOMAIN g
  PROVE Sound(s, Plan!With(g, n, x))
<1> DEFINE h == Plan!With(g, n, x)
           S == Plan!Open(Over(s, g))
           R == Plan!Open(Over(s, h))
<1>1. DOMAIN h = DOMAIN g \cup {n} /\ h[n] = x /\ \A j \in DOMAIN g : h[j] = g[j]
  BY DEF Plan!With, Plan!Open
<1> HIDE DEF h
<1>2. n \notin Plan!Open(s)
  BY DEF Plan!Open
<1>3. Over(s, h)[n] = x /\ \A i \in DOMAIN g : Over(s, h)[i] = Over(s, g)[i]
  BY <1>1, <1>2 DEF Over
<1>4. \A i \in DOMAIN g : Over(s, g)[i].deps \subseteq DOMAIN g
  BY DEF Over
<1>5. S \subseteq DOMAIN g /\ R \subseteq S \cup {n}
  BY <1>1, <1>3 DEF Plan!Open, Over
<1>6. Plan!Acyclic(Over(s, g), S)
  BY DEF Sound
<1>7. \A i \in S \ {n} : Over(s, h)[i].deps = Over(s, g)[i].deps /\ n \notin Over(s, g)[i].deps
  BY <1>3, <1>4, <1>5
<1>8. n \notin Over(s, h)[n].deps
  BY <1>3
<1> HIDE DEF S, R
<1>9. Plan!Acyclic(Over(s, h), S \cup {n})
  BY <1>6, <1>7, <1>8, PlanNew
<1>10. Plan!Acyclic(Over(s, h), R)
  BY <1>5, <1>9, PlanFewer
<1> QED
  BY <1>10 DEF Sound, h, R

(* A task that is done under the list.                                      *)
LEMMA PlanUnderDone ==
  ASSUME NEW s, NEW g, NEW t \in DOMAIN g, NEW x, Sound(s, g), Plan!Terminal(x.status)
  PROVE Sound(s, Plan!With(g, t, x))
<1> DEFINE h == Plan!With(g, t, x)
           S == Plan!Open(Over(s, g))
           R == Plan!Open(Over(s, h))
<1>1. /\ DOMAIN h = DOMAIN g /\ \A j \in DOMAIN g \ {t} : h[j] = g[j]
      /\ Plan!Open(h) = Plan!Open(g) \ {t}
  BY DEF Plan!With, Plan!Open
<1> HIDE DEF h
<1>2. R \subseteq S /\ \A i \in R : Over(s, h)[i] = Over(s, g)[i]
  BY <1>1, PlanOpen
<1>3. Plan!Acyclic(Over(s, g), S)
  BY DEF Sound
<1> HIDE DEF S, R
<1>4. Plan!Acyclic(Over(s, h), R)
  BY <1>2, <1>3, PlanFewer
<1> QED
  BY <1>4 DEF Sound, h, R

(* A list of one task that is saved.                                        *)
LEMMA PlanSaved ==
  ASSUME NEW s, NEW g, NEW t \in DOMAIN g, DOMAIN s = {t}, Sound(s, g), Plan!Acyclic(g, Plan!Open(g))
  PROVE /\ Plan!Acyclic(Plan!With(g, t, s[t]), Plan!Open(Plan!With(g, t, s[t])))
        /\ Sound(s, Plan!With(g, t, s[t]))
<1> DEFINE h == Plan!With(g, t, s[t])
           S == Plan!Open(Over(s, g))
           R == Plan!Open(Over(s, h))
           Q == Plan!Open(h)
<1>1. /\ DOMAIN h = DOMAIN g /\ h[t] = s[t] /\ \A j \in DOMAIN g \ {t} : h[j] = g[j]
      /\ Plan!Open(h) = (Plan!Open(g) \ {t}) \cup (IF Plan!Terminal(s[t].status) THEN {} ELSE {t})
  BY DEF Plan!With, Plan!Open
<1>2. Plan!Open(s) = IF Plan!Terminal(s[t].status) THEN {} ELSE {t}
  BY DEF Plan!Open
<1>3. Plan!Open(g) \subseteq DOMAIN g
  BY DEF Plan!Open
<1> HIDE DEF h
<1>4. R \subseteq S /\ Q \subseteq S
  BY <1>1, <1>2, <1>3, PlanOpen
<1>5. \A i \in Q : i \in DOMAIN g /\ h[i] = Over(s, g)[i]
  BY <1>1, <1>2, <1>3, PlanOpen
<1>6. \A i \in R : Over(s, h)[i] = Over(s, g)[i]
  BY <1>1, <1>2, <1>3, PlanOpen
<1>7. Plan!Acyclic(Over(s, g), S)
  BY DEF Sound
<1> HIDE DEF S, R, Q
<1>8. Plan!Acyclic(h, Q)
  BY <1>4, <1>5, <1>7, PlanFewer
<1>9. Plan!Acyclic(Over(s, h), R)
  BY <1>4, <1>6, <1>7, PlanFewer
<1> QED
  BY <1>8, <1>9 DEF Sound, h, R, Q

(* What was read is as it was read, or done.                                *)
PlanFresh(s, g) == DOMAIN s \subseteq DOMAIN g /\ \A i \in DOMAIN s : i \in Plan!Open(g) => s[i] = g[i]

(* The agent reads one more task.                                           *)
LEMMA PlanRead ==
  ASSUME NEW s, NEW g, NEW i \in DOMAIN g, i \notin DOMAIN s, Sound(s, g)
  PROVE Sound(Plan!With(s, i, g[i]), g)
<1> DEFINE r == Plan!With(s, i, g[i])
           S == Plan!Open(Over(s, g))
           R == Plan!Open(Over(r, g))
<1>1. /\ DOMAIN r = DOMAIN s \cup {i} /\ r[i] = g[i] /\ \A j \in DOMAIN s : r[j] = s[j]
      /\ Plan!Open(r) = (Plan!Open(s) \ {i}) \cup (IF Plan!Terminal(g[i].status) THEN {} ELSE {i})
  BY DEF Plan!With, Plan!Open
<1>2. i \notin Plan!Open(s) /\ Plan!Open(s) \subseteq DOMAIN s /\ (i \in Plan!Open(g) <=> ~Plan!Terminal(g[i].status))
  BY DEF Plan!Open
<1> HIDE DEF r
<1>3. R \subseteq S /\ \A j \in R : Over(r, g)[j] = Over(s, g)[j]
  BY <1>1, <1>2, PlanOpen
<1>4. Plan!Acyclic(Over(s, g), S)
  BY DEF Sound
<1> HIDE DEF S, R
<1>5. Plan!Acyclic(Over(r, g), R)
  BY <1>3, <1>4, PlanFewer
<1> QED
  BY <1>5 DEF Sound, r, R

(* One task of a listing is kept to be saved, with what it waits for.       *)
LEMMA PlanKept ==
  ASSUME NEW s, NEW g, Sound(s, g), PlanFresh(s, g), NEW t \in DOMAIN s, NEW r, DOMAIN r = {t},
         t \in Plan!Open(r) => t \in Plan!Open(s) /\ r[t].deps = s[t].deps
  PROVE Sound(r, g)
<1> DEFINE S == Plan!Open(Over(s, g))
           R == Plan!Open(Over(r, g))
<1>1. Plan!Open(r) \subseteq {t} /\ Plan!Open(s) \subseteq DOMAIN s /\ Plan!Open(g) \subseteq DOMAIN g
  BY DEF Plan!Open
<1>2. \A i \in Plan!Open(g) \cap DOMAIN s : i \in Plan!Open(s) /\ s[i] = g[i]
  BY DEF Plan!Open, PlanFresh
<1>3. R \subseteq S /\ \A j \in R : Over(r, g)[j].deps = Over(s, g)[j].deps
  <2>1. SUFFICES ASSUME NEW j \in R PROVE j \in S /\ Over(r, g)[j].deps = Over(s, g)[j].deps
    OBVIOUS
  <2>2. j \in DOMAIN g
    BY PlanOpen
  <2>3. CASE j \in Plan!Open(r)
    BY <2>2, <2>3, <1>1, PlanOpen
  <2>4. CASE j \notin Plan!Open(r)
    <3>1. j \in Plan!Open(g) /\ Over(r, g)[j] = g[j]
      BY <2>1, <2>4, PlanOpen
    <3>2. j \in S /\ Over(s, g)[j] = g[j]
      BY <2>2, <3>1, <1>1, <1>2, PlanOpen
    <3> QED
      BY <3>1, <3>2
  <2> QED
    BY <2>3, <2>4
<1>4. Plan!Acyclic(Over(s, g), S)
  BY DEF Sound
<1> HIDE DEF S, R
<1>5. Plan!Acyclic(Over(r, g), R)
  BY <1>3, <1>4, PlanFewer
<1> QED
  BY <1>5 DEF Sound, R

(* A dependency that the listing does not lead back from.                   *)
LEMMA PlanDepends ==
  ASSUME NEW s, NEW g, Sound(s, g), PlanFresh(s, g), NEW t \in DOMAIN s, NEW d \in DOMAIN s,
         ~Plan!Closes(s, t, d), \A i \in Plan!Open(s) : s[i].deps \subseteq DOMAIN s,
         NEW r, DOMAIN r = {t}, t \in Plan!Open(r) => t \in Plan!Open(s) /\ r[t].deps = s[t].deps \cup {d}
  PROVE Sound(r, g)
<1> DEFINE S == Plan!Open(Over(s, g))
           R == Plan!Open(Over(r, g))
<1>1. Plan!Open(r) \subseteq {t} /\ Plan!Open(s) \subseteq DOMAIN s /\ Plan!Open(g) \subseteq DOMAIN g
  BY DEF Plan!Open
<1>2. \A i \in Plan!Open(g) \cap DOMAIN s : i \in Plan!Open(s) /\ s[i] = g[i]
  BY DEF Plan!Open, PlanFresh
<1>3. PICK C \in SUBSET DOMAIN s : d \in C /\ t \notin C /\ \A i \in C : Plan!Waits(s, i) \subseteq C
  BY DEF Plan!Closes, Plan!reaches
<1>4. \A i \in C \cap S : Over(s, g)[i].deps \cap S \subseteq C
  <2>1. SUFFICES ASSUME NEW i \in C \cap S PROVE Over(s, g)[i].deps \subseteq C
    OBVIOUS
  <2>2. i \in DOMAIN g /\ i \in Plan!Open(s) /\ Over(s, g)[i] = s[i]
    BY <1>2, PlanOpen
  <2> QED
    BY <1>3, <2>2 DEF Plan!Waits
<1>5. R \subseteq S
  <2>1. SUFFICES ASSUME NEW j \in R PROVE j \in S
    OBVIOUS
  <2> QED
    BY <1>1, <1>2, PlanOpen
<1>6. \A j \in R : Over(r, g)[j].deps \subseteq Over(s, g)[j].deps \cup (IF j = t THEN {d} ELSE {})
  <2>1. SUFFICES ASSUME NEW j \in R
                 PROVE Over(r, g)[j].deps \subseteq Over(s, g)[j].deps \cup (IF j = t THEN {d} ELSE {})
    OBVIOUS
  <2>2. j \in DOMAIN g
    BY PlanOpen
  <2>3. CASE j \in Plan!Open(r)
    <3>1. j = t /\ j \in Plan!Open(s) /\ Over(r, g)[j] = r[t] /\ Over(s, g)[j] = s[t]
      BY <2>2, <2>3, <1>1, PlanOpen
    <3> QED
      BY <3>1, <2>3
  <2>4. CASE j \notin Plan!Open(r)
    <3>1. j \in Plan!Open(g) /\ Over(r, g)[j] = g[j]
      BY <2>1, <2>4, PlanOpen
    <3>2. Over(s, g)[j] = g[j]
      BY <2>2, <3>1, <1>1, <1>2, PlanOpen
    <3> QED
      BY <3>1, <3>2
  <2> QED
    BY <2>3, <2>4
<1>7. Plan!Acyclic(Over(s, g), S)
  BY DEF Sound
<1> HIDE DEF S, R
<1>8. Plan!Acyclic(Over(s, g), R)
  BY <1>5, <1>7, PlanFewer
<1>9. \A i \in C \cap R : Over(s, g)[i].deps \cap R \subseteq C
  BY <1>4, <1>5
<1>10. Plan!Acyclic(Over(r, g), R)
  <2> DEFINE h == Over(r, g)
             f == Over(s, g)
  <2>1. /\ Plan!Acyclic(f, R) /\ d \in C /\ t \notin C /\ \A i \in C \cap R : f[i].deps \cap R \subseteq C
        /\ \A i \in R : h[i].deps \subseteq f[i].deps \cup (IF i = t THEN {d} ELSE {})
    BY <1>3, <1>6, <1>8, <1>9
  <2> HIDE DEF h, f
  <2>2. Plan!Acyclic(h, R)
    BY <2>1, PlanEdge
  <2> QED
    BY <2>2 DEF h
<1> QED
  BY <1>10 DEF Sound, R

-----------------------------------------------------------------------------
(* Types                                                                    *)

(* Lists of tasks, and what a task of one is.                                *)
LEMMA PlanLists ==
  /\ Plan!IsList(<<>>)
  /\ \A i \in Plan!Ids \cup {Plan!NewTask}, x \in Plan!Task :
       /\ Plan!IsList([j \in {i} |-> x])
       /\ \A g : Plan!IsList(g) => Plan!IsList(Plan!With(g, i, x))
  /\ \A g : Plan!IsList(g) => \A i \in DOMAIN g : /\ g[i] \in Plan!Task /\ i \in Plan!Ids \cup {Plan!NewTask}
                                            /\ g[i].deps \subseteq Plan!Ids /\ g[i].status \in Plan!Statuses
  BY DEF Plan!IsList, Plan!With, Plan!Task

(* The state of the calls has its type.                                     *)
HeldType ==
  /\ planPc \in [Plan!Callers -> {"idle", "read", "save", "audit", "failed", "noting", "note", "over"}]
  /\ call \in [Plan!Callers -> [op : Plan!Updates \cup Plan!Batches
                                \cup {"none", "create", "complete", "depend", "work"},
                           t : Plan!Ids \cup {0}, d : SUBSET Plan!Ids]]
  /\ left \in [Plan!Callers -> SUBSET Plan!Ids]
  /\ seen = [c \in Plan!Callers |-> seen[c]] /\ \A c \in Plan!Callers : Plan!IsList(seen[c])
  /\ made \in [Plan!Callers -> SUBSET Plan!Ids] /\ did \in [Plan!Callers -> BOOLEAN]

ToldType ==
  told \in [Agents -> [success : BOOLEAN, recoverable : BOOLEAN, logged : BOOLEAN,
                      did : BOOLEAN]]

TasksType == Plan!IsList(tasks) /\ Plan!Mission \in DOMAIN tasks /\ Plan!NewTask \notin DOMAIN tasks

(* The type invariant, part by part, now and next.                           *)
LEMMA PlanTypeParts ==
  /\ Plan!TypeOK <=> TasksType /\ HeldType /\ ToldType /\ planFaults \in 0..MaxPlanFaults
  /\ Plan!TypeOK' <=> TasksType' /\ HeldType' /\ ToldType' /\ planFaults' \in 0..MaxPlanFaults
  BY DEF Plan!TypeOK, TasksType, HeldType, ToldType

(* What of a call changes, at each caller.                                  *)
Others(c) ==
  \A o \in Plan!Callers \ {c} : /\ planPc'[o] = planPc[o] /\ call'[o] = call[o] /\ left'[o] = left[o]
                          /\ seen'[o] = seen[o] /\ made'[o] = made[o]

Stays(c) ==
  Others(c) /\ call'[c] = call[c] /\ left'[c] = left[c] /\ seen'[c] = seen[c] /\ made'[c] = made[c]

Ends(c) ==
  /\ Others(c) /\ planPc'[c] \in {"idle", "over"} /\ (c \in Agents => planPc'[c] = "idle")
  /\ call'[c] = Plan!NoCall /\ left'[c] = {} /\ seen'[c] = <<>> /\ made'[c] = {}

(* One list is replaced.                                                    *)
LEMMA PlanSeen ==
  ASSUME HeldType, NEW c \in Plan!Callers, NEW g, Plan!IsList(g), seen' = [seen EXCEPT ![c] = g]
  PROVE /\ seen' = [x \in Plan!Callers |-> seen'[x]] /\ \A x \in Plan!Callers : Plan!IsList(seen'[x])
        /\ seen'[c] = g /\ \A o \in Plan!Callers \ {c} : seen'[o] = seen[o]
<1>1. DOMAIN seen = Plan!Callers
  BY DEF HeldType
<1>2. seen' = [x \in Plan!Callers |-> IF x = c THEN g ELSE seen[x]]
  BY <1>1
<1>3. \A x \in Plan!Callers : seen'[x] = IF x = c THEN g ELSE seen[x]
  BY <1>2
<1>4. seen' = [x \in Plan!Callers |-> seen'[x]]
  BY <1>2, <1>3
<1> QED
  BY <1>3, <1>4 DEF HeldType

(* A call that finishes keeps nothing.                                       *)
LEMMA PlanEnds ==
  ASSUME HeldType, NEW c \in Plan!Callers, Plan!Finish(c)
  PROVE HeldType' /\ Ends(c)
<1>1. /\ seen' = [x \in Plan!Callers |-> seen'[x]] /\ \A x \in Plan!Callers : Plan!IsList(seen'[x])
      /\ seen'[c] = <<>> /\ \A o \in Plan!Callers \ {c} : seen'[o] = seen[o]
  <2>1. Plan!IsList(<<>>) /\ seen' = [seen EXCEPT ![c] = <<>>]
    BY PlanLists DEF Plan!Finish
  <2> QED
    BY <2>1, PlanSeen
<1>2. Plan!NoCall \in [op : Plan!Updates \cup Plan!Batches \cup {"none", "create", "complete", "depend", "work"},
                  t : Plan!Ids \cup {0}, d : SUBSET Plan!Ids]
  BY DEF Plan!NoCall
<1> QED
  BY <1>1, <1>2 DEF HeldType, Plan!Finish, Plan!Go, Ends, Others

(* The list of a caller is set, and it goes on.                             *)
LEMMA PlanSets ==
  ASSUME HeldType, NEW c \in Plan!Callers, NEW g, Plan!IsList(g), seen' = [seen EXCEPT ![c] = g],
         NEW to \in {"read", "save", "note"}, planPc' = [planPc EXCEPT ![c] = to],
         UNCHANGED <<call, left, made, did>>
  PROVE HeldType' /\ Others(c) /\ planPc'[c] = to /\ seen'[c] = g
<1>1. /\ seen' = [x \in Plan!Callers |-> seen'[x]] /\ \A x \in Plan!Callers : Plan!IsList(seen'[x])
      /\ seen'[c] = g /\ \A o \in Plan!Callers \ {c} : seen'[o] = seen[o]
  BY PlanSeen
<1> QED
  BY <1>1 DEF HeldType, Others

(* A caller goes on with what it holds.                                     *)
LEMMA PlanGoes ==
  ASSUME HeldType, NEW c \in Plan!Callers, NEW to \in {"failed", "noting", "audit"}, Plan!Go(c, to),
         UNCHANGED <<call, left, seen, made>>, did' \in [Plan!Callers -> BOOLEAN]
  PROVE HeldType' /\ Stays(c) /\ planPc'[c] = to
<1>1. seen' = [x \in Plan!Callers |-> seen'[x]] /\ \A x \in Plan!Callers : Plan!IsList(seen'[x])
  BY DEF HeldType
<1> QED
  BY <1>1 DEF HeldType, Others, Stays, Plan!Go

(* A call that throws answers, or fails under an agent that goes on.         *)
LEMMA PlanThrow ==
  ASSUME HeldType, NEW c \in Plan!Callers, Plan!Throw(c)
  PROVE HeldType' /\ (Ends(c) \/ (Stays(c) /\ planPc'[c] = "failed"))
<1>1. CASE c \in Agents
  BY <1>1, PlanGoes DEF Plan!Throw, HeldType
<1>2. CASE c \notin Agents
  BY <1>2, PlanEnds DEF Plan!Throw
<1> QED
  BY <1>1, <1>2

(* One task is kept to be saved.                                            *)
LEMMA PlanKeeps ==
  ASSUME HeldType, NEW c \in Plan!Callers, NEW i \in Plan!Ids \cup {Plan!NewTask}, NEW x \in Plan!Task, Plan!Keep(c, i, x)
  PROVE /\ HeldType' /\ Others(c) /\ planPc'[c] = "save" /\ UNCHANGED <<call, left, made>>
        /\ DOMAIN seen'[c] = {i} /\ seen'[c][i] = x
<1> DEFINE g == [j \in {i} |-> x]
<1>1. Plan!IsList(g) /\ DOMAIN g = {i} /\ g[i] = x
  BY PlanLists
<1>2. seen' = [seen EXCEPT ![c] = g] /\ planPc' = [planPc EXCEPT ![c] = "save"] /\ UNCHANGED <<call, left, made, did>>
  BY DEF Plan!Keep, Plan!Go
<1> HIDE DEF g
<1>3. HeldType' /\ Others(c) /\ planPc'[c] = "save" /\ seen'[c] = g
  BY <1>1, <1>2, PlanSets
<1> QED
  BY <1>1, <1>2, <1>3

(* A file is replaced.                                                      *)
Puts(i, x) ==
  /\ tasks' = Plan!With(tasks, i, x) /\ DOMAIN tasks' = DOMAIN tasks \cup {i}
  /\ tasks'[i] = x /\ \A j \in DOMAIN tasks \ {i} : tasks'[j] = tasks[j]

(* What is saved: the one task that the caller kept, or a new one.          *)
Saves(c) ==
  \E i \in Plan!Ids, k \in Plan!Ids \cup {Plan!NewTask} :
    /\ DOMAIN seen[c] = {k} /\ Puts(i, seen[c][k])
    /\ k = Plan!NewTask => i \notin DOMAIN tasks
    /\ k # Plan!NewTask => k = i /\ i \in DOMAIN tasks

(* Saving a task replaces it and no other.                                   *)
LEMMA PlanReplace ==
  ASSUME TasksType, HeldType, Plan!SeenExist, Plan!CallsInStep, NEW c \in Plan!Callers, planPc[c] \in {"save", "note"},
         NEW i \in Plan!Ids, Plan!Replace(c, i)
  PROVE TasksType' /\ Saves(c) /\ i \in DOMAIN tasks'
<1>1. PICK k \in Plan!Ids \cup {Plan!NewTask} : DOMAIN seen[c] = {k}
  BY DEF Plan!CallsInStep
<1>2. Plan!Target(c) = k
  BY <1>1 DEF Plan!Target
<1>3. Plan!IsList(seen[c]) /\ seen[c][k] \in Plan!Task
  BY <1>1, PlanLists DEF HeldType
<1>4. tasks' = Plan!With(tasks, i, seen[c][k])
  BY <1>2 DEF Plan!Replace
<1>5. Puts(i, seen[c][k])
  BY <1>4 DEF Puts, Plan!With
<1>6. Plan!IsList(Plan!With(tasks, i, seen[c][k]))
  BY <1>3, PlanLists DEF TasksType
<1>7. Plan!IsList(tasks')
  BY <1>4, <1>6
<1>8. Plan!NewTask \notin Plan!Ids
  BY DEF Plan!NewTask, Plan!Ids
<1>9. TasksType'
  BY <1>5, <1>7, <1>8 DEF TasksType, Puts
<1>10. k # Plan!NewTask => k \in DOMAIN tasks
  BY <1>1 DEF Plan!SeenExist
<1>11. (k = Plan!NewTask => i \notin DOMAIN tasks) /\ (k # Plan!NewTask => i = k)
  BY <1>2 DEF Plan!Replace
<1>12. Saves(c)
  BY <1>1, <1>5, <1>10, <1>11 DEF Saves
<1> QED
  BY <1>5, <1>9, <1>12 DEF Puts

-----------------------------------------------------------------------------
(* What each action does, at each caller and each file                      *)

Starts(c) ==
  /\ planPc[c] = "idle" /\ tasks' = tasks /\ Others(c) /\ seen'[c] = seen[c] /\ made'[c] = made[c]
  /\ call'[c].op \in OpsOf[c] /\ (call'[c].op = "depend" => \E x \in Plan!Ids : call'[c].d = {x})
  /\ call'[c].op \in Plan!Updates \cup {"complete", "depend"} => call'[c].t \in DOMAIN tasks
  /\ \/ planPc'[c] = "audit" /\ left'[c] = {}
     \/ /\ planPc'[c] = "read" /\ left'[c] \subseteq DOMAIN tasks
        /\ call'[c].op \in Plan!Updates => left'[c] = {call'[c].t}
        /\ call'[c].op \notin Plan!Updates => left'[c] = DOMAIN tasks

Reads(c) ==
  \E i \in left[c] :
    /\ planPc[c] = "read" /\ planPc'[c] = "read" /\ tasks' = tasks /\ Others(c)
    /\ seen'[c] = Plan!With(seen[c], i, tasks[i]) /\ left'[c] = left[c] \ {i}
    /\ call'[c] = call[c] /\ made'[c] = made[c]

(* Why a task is kept to be saved.                                          *)
Decides(c, i, x) ==
  \/ i = Plan!NewTask /\ x.deps \subseteq DOMAIN tasks
  \/ i \in DOMAIN seen[c] /\ x.deps = seen[c][i].deps /\ Plan!Terminal(x.status)
  \/ /\ i \in DOMAIN seen[c] /\ x.deps = seen[c][i].deps /\ call[c].op \in Plan!Updates
     /\ ~Plan!Terminal(x.status) => ~Plan!Terminal(seen[c][i].status)
  \/ /\ i \in DOMAIN seen[c] /\ call[c].op = "depend" /\ x.status = seen[c][i].status
     /\ \E d \in DOMAIN seen[c] : /\ x.deps = seen[c][i].deps \cup {d}
                                 /\ (d \in seen[c][i].deps \/ ~Plan!Closes(seen[c], i, d))

Keeps(c) ==
  \E i \in Plan!Ids \cup {Plan!NewTask}, x \in Plan!Task :
    /\ planPc[c] = "read" /\ left[c] = {} /\ planPc'[c] = "save" /\ tasks' = tasks /\ Others(c)
    /\ call'[c] = call[c] /\ left'[c] = left[c] /\ made'[c] = made[c]
    /\ DOMAIN seen'[c] = {i} /\ seen'[c][i] = x /\ Decides(c, i, x)

Quits(c) ==
  planPc[c] \notin {"idle", "over"} /\ tasks' = tasks /\ (Ends(c) \/ (Stays(c) /\ planPc'[c] = "failed"))

SavesOn(c) ==
  /\ planPc[c] \in {"save", "note"} /\ Saves(c)
  /\ \/ Ends(c) \/ (Stays(c) /\ planPc'[c] \in {"failed", "audit"})
     \/ /\ Others(c) /\ call'[c] = call[c] /\ planPc'[c] = "read" /\ seen'[c] = <<>>
        /\ left'[c] = DOMAIN tasks' /\ made'[c] \subseteq DOMAIN tasks' /\ call[c].op \in Plan!Batches

Audits(c) ==
  /\ planPc[c] \in {"audit", "failed"} /\ tasks' = tasks
  /\ \/ Ends(c)
     \/ (call[c].op = "work" /\ Stays(c) /\ planPc'[c] = "noting")

Notes(c) ==
  /\ planPc[c] = "noting" /\ planPc'[c] = "note" /\ tasks' = tasks /\ Others(c)
  /\ DOMAIN seen'[c] = {Plan!Mission} /\ seen'[c][Plan!Mission] = tasks[Plan!Mission]
  /\ call'[c] = call[c] /\ left'[c] = left[c] /\ made'[c] = made[c]

Does(c) ==
  \/ Starts(c) \/ Reads(c) \/ Keeps(c) \/ Quits(c) \/ SavesOn(c) \/ Audits(c) \/ Notes(c)

(* A call is made.                                                           *)
LEMMA PlanAsk ==
  ASSUME Plan!TypeOK, Plan!CallsInStep, NEW c \in Plan!Callers, NEW op \in OpsOf[c], NEW t \in Plan!Ids,
         NEW d \in SUBSET Plan!Ids, Plan!Ask(c, op, t, d)
  PROVE Plan!TypeOK' /\ Does(c)
<1>0. TasksType /\ HeldType /\ ToldType /\ planFaults \in 0..MaxPlanFaults
  BY PlanTypeParts
<1>1. op \in Plan!Updates \cup Plan!Batches \cup {"create", "complete", "depend", "work"}
  BY RecordsAssumption DEF Plan!PlanAssumption, Plan!Callers
<1>2. TasksType' /\ planFaults' \in 0..MaxPlanFaults
  BY <1>0 DEF Plan!Ask, TasksType
<1> DEFINE to == IF op = "work" THEN "audit" ELSE "read"
           unread == IF op = "work" THEN {} ELSE IF op \in Plan!Updates THEN {t} ELSE DOMAIN tasks
           asked == [op |-> op, t |-> t, d |-> d]
<1>3. /\ planPc' = [planPc EXCEPT ![c] = to] /\ left' = [left EXCEPT ![c] = unread]
      /\ call' = [call EXCEPT ![c] = asked] /\ UNCHANGED <<seen, made>> /\ tasks' = tasks
      /\ planPc[c] = "idle" /\ (op = "depend" => \E x \in Plan!Ids : d = {x})
      /\ op \in Plan!Updates \cup {"complete", "depend"} => t \in DOMAIN tasks
  BY DEF Plan!Ask, Plan!Go
<1>4. unread \in SUBSET DOMAIN tasks /\ DOMAIN tasks \subseteq Plan!Ids /\ to \in {"audit", "read"}
  BY <1>0, <1>3 DEF TasksType, Plan!IsList
<1>5. asked \in [op : Plan!Updates \cup Plan!Batches \cup {"none", "create", "complete", "depend", "work"},
                t : Plan!Ids \cup {0}, d : SUBSET Plan!Ids]
  BY <1>1
<1>6. did' \in [Plan!Callers -> BOOLEAN]
  BY <1>0 DEF Plan!Ask, HeldType
<1>7. call'[c] = asked /\ left'[c] = unread /\ planPc'[c] = to
  BY <1>0, <1>3 DEF HeldType
<1>8. /\ planPc' \in [Plan!Callers -> {"idle", "read", "save", "audit", "failed", "noting", "note", "over"}]
      /\ left' \in [Plan!Callers -> SUBSET Plan!Ids]
      /\ call' \in [Plan!Callers -> [op : Plan!Updates \cup Plan!Batches
                                \cup {"none", "create", "complete", "depend", "work"},
                           t : Plan!Ids \cup {0}, d : SUBSET Plan!Ids]]
      /\ Others(c)
  <2> HIDE DEF asked, to, unread
  <2> QED
    BY <1>0, <1>3, <1>4, <1>5 DEF HeldType, Others
<1>9. HeldType'
  BY <1>0, <1>3, <1>6, <1>8 DEF HeldType
<1>10. ToldType'
  <2>1. Plan!NoAnswer \in [success : BOOLEAN, recoverable : BOOLEAN, logged : BOOLEAN, did : BOOLEAN]
    BY DEF Plan!NoAnswer
  <2>2. told' = told \/ told' = [told EXCEPT ![c] = Plan!NoAnswer]
    BY DEF Plan!Ask
  <2> HIDE DEF Plan!NoAnswer
  <2> QED
    BY <1>0, <2>1, <2>2 DEF ToldType
<1>11. call'[c].op = op /\ call'[c].t = t /\ call'[c].d = d
  BY <1>7
<1>12. Starts(c)
  BY <1>3, <1>4, <1>7, <1>8, <1>11 DEF Starts, Plan!Updates, Plan!Batches
<1> QED
  BY <1>2, <1>9, <1>10, <1>12, PlanTypeParts DEF Does

(* A call reads the file of one task.                                        *)
LEMMA PlanReadFile ==
  ASSUME Plan!TypeOK, Plan!SeenExist, NEW c \in Plan!Callers, NEW i \in Plan!Ids, Plan!ReadFile(c, i)
  PROVE Plan!TypeOK' /\ Does(c)
<1>0. TasksType /\ HeldType /\ ToldType /\ planFaults \in 0..MaxPlanFaults
  BY PlanTypeParts
<1>1. TasksType' /\ ToldType' /\ planFaults' \in 0..MaxPlanFaults
  BY <1>0 DEF Plan!ReadFile, TasksType, ToldType
<1> DEFINE g == Plan!With(seen[c], i, tasks[i])
<1>2. i \in DOMAIN tasks /\ tasks[i] \in Plan!Task
  BY <1>0, PlanLists DEF Plan!ReadFile, Plan!SeenExist, TasksType
<1>3. Plan!IsList(g) /\ seen' = [seen EXCEPT ![c] = g]
  BY <1>0, <1>2, PlanLists DEF Plan!ReadFile, HeldType
<1> HIDE DEF g
<1>4. /\ seen' = [x \in Plan!Callers |-> seen'[x]] /\ \A x \in Plan!Callers : Plan!IsList(seen'[x])
      /\ seen'[c] = g /\ \A o \in Plan!Callers \ {c} : seen'[o] = seen[o]
  BY <1>0, <1>3, PlanSeen
<1>5. left' = [left EXCEPT ![c] = left[c] \ {i}] /\ UNCHANGED <<planPc, call, made, did, tasks>>
      /\ planPc[c] = "read" /\ i \in left[c]
  BY DEF Plan!ReadFile
<1>6. HeldType'
  BY <1>0, <1>4, <1>5 DEF HeldType
<1>7. left'[c] = left[c] \ {i} /\ Others(c)
  BY <1>0, <1>4, <1>5 DEF HeldType, Others
<1>8. Reads(c)
  BY <1>4, <1>5, <1>7 DEF Reads, g
<1> QED
  BY <1>1, <1>6, <1>8, PlanTypeParts DEF Does

(* A decision keeps one task or throws.                                     *)
LEMMA PlanDecides ==
  ASSUME Plan!TypeOK, NEW c \in Plan!Callers, UNCHANGED <<tasks, told, planFaults>>, planPc[c] = "read", left[c] = {},
         \/ Plan!Throw(c)
         \/ \E i \in Plan!Ids \cup {Plan!NewTask}, x \in Plan!Task : Plan!Keep(c, i, x) /\ Decides(c, i, x)
  PROVE Plan!TypeOK' /\ Does(c)
<1>0. TasksType /\ HeldType /\ ToldType /\ planFaults \in 0..MaxPlanFaults
  BY PlanTypeParts
<1>1. TasksType' /\ ToldType' /\ planFaults' \in 0..MaxPlanFaults
  BY <1>0 DEF TasksType, ToldType
<1>2. CASE Plan!Throw(c)
  <2>1. HeldType' /\ (Ends(c) \/ (Stays(c) /\ planPc'[c] = "failed"))
    BY <1>0, <1>2, PlanThrow
  <2> QED
    BY <1>1, <2>1, PlanTypeParts DEF Does, Quits
<1>3. ASSUME NEW i \in Plan!Ids \cup {Plan!NewTask}, NEW x \in Plan!Task, Plan!Keep(c, i, x), Decides(c, i, x)
      PROVE Plan!TypeOK' /\ Does(c)
  <2>1. /\ HeldType' /\ Others(c) /\ planPc'[c] = "save" /\ UNCHANGED <<call, left, made>>
        /\ DOMAIN seen'[c] = {i} /\ seen'[c][i] = x
    BY <1>0, <1>3, PlanKeeps
  <2>2. Keeps(c)
    BY <1>3, <2>1 DEF Keeps
  <2> QED
    BY <1>1, <2>1, <2>2, PlanTypeParts DEF Does
<1> QED
  BY <1>2, <1>3

(* A task is created.                                                        *)
LEMMA PlanCreate ==
  ASSUME Plan!TypeOK, Plan!SeenExist, Plan!CallsInStep, NEW c \in Plan!Callers, Plan!Create(c)
  PROVE Plan!TypeOK' /\ Does(c)
<1>1. planPc[c] = "read" /\ left[c] = {} /\ UNCHANGED <<tasks, told, planFaults>>
  BY DEF Plan!Create, Plan!HasRead
<1>2. DOMAIN seen[c] \subseteq DOMAIN tasks
  BY <1>1 DEF Plan!SeenExist, Plan!CallsInStep
<1>3. CASE Plan!Throw(c)
  BY <1>1, <1>3, PlanDecides
<1>4. CASE ~Plan!Throw(c)
  <2>1. Plan!Known(c, Plan!Wanted(c)) /\ Plan!Keep(c, Plan!NewTask, [status |-> "queued", deps |-> Plan!Wanted(c)])
    BY <1>4 DEF Plan!Create
  <2>2. Plan!Wanted(c) \subseteq DOMAIN tasks /\ Plan!Wanted(c) \subseteq Plan!Ids
    BY <1>2, <2>1 DEF Plan!Known, Plan!TypeOK, Plan!IsList
  <2> DEFINE x == [status |-> "queued", deps |-> Plan!Wanted(c)]
  <2>3. x \in Plan!Task /\ x.deps = Plan!Wanted(c)
    BY <2>2 DEF Plan!Task, Plan!Statuses
  <2>4. Decides(c, Plan!NewTask, x)
    BY <2>2, <2>3 DEF Decides
  <2> HIDE DEF x
  <2>5. \E i \in Plan!Ids \cup {Plan!NewTask}, y \in Plan!Task : Plan!Keep(c, i, y) /\ Decides(c, i, y)
    BY <2>1, <2>3, <2>4 DEF x
  <2> QED
    BY <1>1, <2>5, PlanDecides
<1> QED
  BY <1>3, <1>4

(* A task is updated.                                                        *)
LEMMA PlanUpdate ==
  ASSUME Plan!TypeOK, Plan!SeenExist, Plan!CallsInStep, NEW c \in Plan!Callers, Plan!Update(c)
  PROVE Plan!TypeOK' /\ Does(c)
<1> DEFINE t == call[c].t
           op == call[c].op
           s == seen[c][t]
           x == [s EXCEPT !.status = Plan!Patched(op, s.status)]
<1>1. planPc[c] = "read" /\ left[c] = {} /\ UNCHANGED <<tasks, told, planFaults>> /\ op \in Plan!Updates
  BY DEF Plan!Update, Plan!HasRead
<1>2. t \in DOMAIN seen[c]
  BY <1>1 DEF Plan!CallsInStep
<1>3. s \in Plan!Task /\ t \in Plan!Ids \cup {Plan!NewTask}
  BY <1>2, PlanLists DEF Plan!TypeOK
<1>4. CASE Plan!Throw(c)
  BY <1>1, <1>4, PlanDecides
<1>5. CASE ~Plan!Throw(c)
  <2>1. Plan!Allowed(op, s.status) /\ Plan!Keep(c, t, x)
    BY <1>5 DEF Plan!Update
  <2>2. Plan!Patched(op, s.status) \in Plan!Statuses
    BY <1>3 DEF Plan!Patched, Plan!Statuses, Plan!Task
  <2>3. x \in Plan!Task /\ x.deps = s.deps /\ x.status = Plan!Patched(op, s.status)
    BY <1>3, <2>2 DEF Plan!Task
  <2>4. ~Plan!Terminal(x.status) => ~Plan!Terminal(s.status)
    BY <2>1, <2>3, <1>1 DEF Plan!Allowed, Plan!Patched, Plan!Terminal, Plan!Updates
  <2>5. Decides(c, t, x)
    BY <1>1, <1>2, <2>3, <2>4 DEF Decides
  <2> HIDE DEF x, t
  <2>6. \E i \in Plan!Ids \cup {Plan!NewTask}, y \in Plan!Task : Plan!Keep(c, i, y) /\ Decides(c, i, y)
    BY <1>3, <2>1, <2>3, <2>5
  <2> QED
    BY <1>1, <2>6, PlanDecides
<1> QED
  BY <1>4, <1>5

(* A task is completed, and the tasks it frees are opened.                   *)
LEMMA PlanComplete ==
  ASSUME Plan!TypeOK, Plan!SeenExist, Plan!CallsInStep, NEW c \in Plan!Callers, Plan!Complete(c)
  PROVE Plan!TypeOK' /\ Does(c)
<1> DEFINE t == call[c].t
           s == seen[c][t]
           x == [s EXCEPT !.status = "completed"]
<1>1. planPc[c] = "read" /\ left[c] = {} /\ UNCHANGED <<tasks, told, planFaults>> /\ call[c].op = "complete"
  BY DEF Plan!Complete, Plan!HasRead
<1>2. t \in DOMAIN seen[c]
  BY <1>1 DEF Plan!CallsInStep
<1>3. s \in Plan!Task /\ t \in Plan!Ids \cup {Plan!NewTask}
  BY <1>2, PlanLists DEF Plan!TypeOK
<1>4. CASE Plan!Throw(c)
  BY <1>1, <1>4, PlanDecides
<1>5. CASE ~Plan!Throw(c)
  <2>1. Plan!Keep(c, t, x)
    BY <1>5 DEF Plan!Complete
  <2>2. x \in Plan!Task /\ x.deps = s.deps /\ x.status = "completed"
    BY <1>3 DEF Plan!Task, Plan!Statuses
  <2>3. Decides(c, t, x)
    BY <1>2, <2>2 DEF Decides, Plan!Terminal
  <2> HIDE DEF x, t
  <2>4. \E i \in Plan!Ids \cup {Plan!NewTask}, y \in Plan!Task : Plan!Keep(c, i, y) /\ Decides(c, i, y)
    BY <1>3, <2>1, <2>2, <2>3
  <2> QED
    BY <1>1, <2>4, PlanDecides
<1> QED
  BY <1>4, <1>5

(* A task gets its dependencies.                                             *)
LEMMA PlanDepend ==
  ASSUME Plan!TypeOK, Plan!SeenExist, Plan!CallsInStep, NEW c \in Plan!Callers, Plan!Depend(c)
  PROVE Plan!TypeOK' /\ Does(c)
<1> DEFINE t == call[c].t
           s == seen[c][t]
<1>1. planPc[c] = "read" /\ left[c] = {} /\ UNCHANGED <<tasks, told, planFaults>> /\ call[c].op = "depend"
  BY DEF Plan!Depend, Plan!HasRead
<1>2. t \in DOMAIN seen[c]
  BY <1>1 DEF Plan!CallsInStep
<1>3. s \in Plan!Task /\ t \in Plan!Ids \cup {Plan!NewTask}
  BY <1>2, PlanLists DEF Plan!TypeOK
<1>4. PICK d \in Plan!Ids : call[c].d = {d}
  BY <1>1 DEF Plan!CallsInStep
<1>5. (CHOOSE y \in call[c].d : TRUE) = d
  BY <1>4
<1> DEFINE x == [s EXCEPT !.deps = s.deps \cup {d}]
<1>6. CASE Plan!Throw(c)
  BY <1>1, <1>6, PlanDecides
<1>7. CASE ~Plan!Throw(c)
  <2>1. Plan!Known(c, {d}) /\ (d \in s.deps \/ ~Plan!Closes(seen[c], t, d)) /\ Plan!Keep(c, t, x)
    BY <1>5, <1>7 DEF Plan!Depend
  <2>2. x \in Plan!Task /\ x.deps = s.deps \cup {d} /\ x.status = s.status
    BY <1>3 DEF Plan!Task
  <2>3. Decides(c, t, x)
    BY <1>1, <1>2, <2>1, <2>2 DEF Decides, Plan!Known
  <2> HIDE DEF x, t
  <2>4. \E i \in Plan!Ids \cup {Plan!NewTask}, y \in Plan!Task : Plan!Keep(c, i, y) /\ Decides(c, i, y)
    BY <1>3, <2>1, <2>2, <2>3
  <2> QED
    BY <1>1, <2>4, PlanDecides
<1> QED
  BY <1>6, <1>7

(* A task is saved.                                                          *)
LEMMA PlanSave ==
  ASSUME Plan!TypeOK, Plan!SeenExist, Plan!CallsInStep, NEW c \in Plan!Callers, Plan!Save(c)
  PROVE Plan!TypeOK' /\ Does(c)
<1>0. TasksType /\ HeldType /\ ToldType /\ planFaults \in 0..MaxPlanFaults
  BY PlanTypeParts
<1>1. ToldType' /\ planFaults' \in 0..MaxPlanFaults /\ planPc[c] \in {"save", "note"}
  BY <1>0 DEF Plan!Save, ToldType
<1>2. PICK i \in Plan!Ids :
        /\ Plan!Replace(c, i)
        /\ \/ /\ call[c].op \in Plan!Batches /\ Plan!Go(c, "read")
              /\ left' = [left EXCEPT ![c] = DOMAIN tasks'] /\ seen' = [seen EXCEPT ![c] = <<>>]
              /\ made' = [made EXCEPT ![c] = {i}] /\ did' = [did EXCEPT ![c] = TRUE]
              /\ UNCHANGED call
           \/ /\ Plan!Go(c, "audit") /\ did' = [did EXCEPT ![c] = TRUE]
              /\ UNCHANGED <<call, left, seen, made>>
           \/ Plan!Finish(c)
  BY Zenon DEF Plan!Save
<1>3. TasksType' /\ Saves(c) /\ i \in DOMAIN tasks'
  BY <1>0, <1>1, <1>2, PlanReplace
<1>4. CASE Plan!Finish(c)
  <2>1. HeldType' /\ Ends(c)
    BY <1>0, <1>4, PlanEnds
  <2> QED
    BY <1>1, <1>3, <2>1, PlanTypeParts DEF Does, SavesOn
<1>5. CASE /\ Plan!Go(c, "audit") /\ did' = [did EXCEPT ![c] = TRUE]
           /\ UNCHANGED <<call, left, seen, made>>
  <2>1. did' \in [Plan!Callers -> BOOLEAN]
    BY <1>0, <1>5 DEF HeldType
  <2>2. HeldType' /\ Stays(c) /\ planPc'[c] = "audit"
    BY <1>0, <1>5, <2>1, PlanGoes
  <2> QED
    BY <1>1, <1>3, <2>2, PlanTypeParts DEF Does, SavesOn
<1>6. CASE /\ call[c].op \in Plan!Batches /\ Plan!Go(c, "read")
           /\ left' = [left EXCEPT ![c] = DOMAIN tasks'] /\ seen' = [seen EXCEPT ![c] = <<>>]
           /\ made' = [made EXCEPT ![c] = {i}] /\ did' = [did EXCEPT ![c] = TRUE]
           /\ UNCHANGED call
  <2>1. /\ seen' = [x \in Plan!Callers |-> seen'[x]] /\ \A x \in Plan!Callers : Plan!IsList(seen'[x])
        /\ seen'[c] = <<>> /\ \A o \in Plan!Callers \ {c} : seen'[o] = seen[o]
    BY <1>0, <1>6, PlanLists, PlanSeen
  <2>2. DOMAIN tasks' \subseteq Plan!Ids
    BY <1>3 DEF TasksType, Plan!IsList
  <2> DEFINE unread == DOMAIN tasks'
  <2>3. left' = [left EXCEPT ![c] = unread] /\ unread \in SUBSET Plan!Ids
    BY <1>6, <2>2
  <2> HIDE DEF unread
  <2>4. left' \in [Plan!Callers -> SUBSET Plan!Ids] /\ left'[c] = unread /\ \A o \in Plan!Callers \ {c} : left'[o] = left[o]
    BY <1>0, <2>3 DEF HeldType
  <2>5. /\ made' \in [Plan!Callers -> SUBSET Plan!Ids] /\ made'[c] = {i} /\ did' \in [Plan!Callers -> BOOLEAN]
        /\ \A o \in Plan!Callers \ {c} : made'[o] = made[o]
    BY <1>0, <1>6 DEF HeldType
  <2>6. /\ planPc' \in [Plan!Callers -> {"idle", "read", "save", "audit", "failed", "noting", "note", "over"}]
        /\ planPc'[c] = "read" /\ \A o \in Plan!Callers \ {c} : planPc'[o] = planPc[o]
    BY <1>0, <1>6 DEF HeldType, Plan!Go
  <2>7. HeldType'
    BY <1>0, <1>6, <2>1, <2>4, <2>5, <2>6 DEF HeldType
  <2>8. Others(c)
    BY <1>6, <2>1, <2>4, <2>5, <2>6 DEF Others
  <2>9. SavesOn(c)
    BY <1>1, <1>3, <1>6, <2>1, <2>4, <2>5, <2>6, <2>8 DEF SavesOn, unread
  <2> QED
    BY <1>1, <1>3, <2>7, <2>9, PlanTypeParts DEF Does
<1> QED
  BY <1>2, <1>4, <1>5, <1>6

(* Saving a task fails, after or before the file is there.                   *)
LEMMA PlanSaveFails ==
  ASSUME Plan!TypeOK, Plan!SeenExist, Plan!CallsInStep, NEW c \in Plan!Callers, NEW landed \in BOOLEAN, Plan!SaveFails(c, landed)
  PROVE Plan!TypeOK' /\ Does(c)
<1>0. TasksType /\ HeldType /\ ToldType /\ planFaults \in 0..MaxPlanFaults
  BY PlanTypeParts
<1>1. ToldType' /\ planFaults' \in 0..MaxPlanFaults /\ planPc[c] \in {"save", "note"}
  <2>1. MaxPlanFaults \in Nat
    BY RecordsAssumption DEF Plan!PlanAssumption
  <2> QED
    BY <1>0, <2>1 DEF Plan!SaveFails, ToldType
<1>2. HeldType' /\ (Ends(c) \/ (Stays(c) /\ planPc'[c] = "failed"))
  <2>1. CASE Plan!Finish(c)
    BY <1>0, <2>1, PlanEnds
  <2>2. CASE ~Plan!Finish(c)
    <3>1. Plan!Go(c, "failed") /\ UNCHANGED <<call, left, seen, made>> /\ did' = [did EXCEPT ![c] = @ \/ landed]
      BY <2>2 DEF Plan!SaveFails
    <3>2. did' \in [Plan!Callers -> BOOLEAN]
      BY <1>0, <3>1 DEF HeldType
    <3> QED
      BY <1>0, <3>1, <3>2, PlanGoes
  <2> QED
    BY <2>1, <2>2
<1>3. CASE tasks' = tasks
  <2>1. TasksType'
    BY <1>0, <1>3 DEF TasksType
  <2> QED
    BY <1>1, <1>2, <1>3, <2>1, PlanTypeParts DEF Does, Quits
<1>4. CASE \E i \in Plan!Ids : Plan!Replace(c, i)
  <2>1. TasksType' /\ Saves(c)
    BY <1>0, <1>1, <1>4, PlanReplace
  <2> QED
    BY <1>1, <1>2, <2>1, PlanTypeParts DEF Does, SavesOn
<1> QED
  BY <1>3, <1>4 DEF Plan!SaveFails

(* A call is written to the audit trail, or is not.                          *)
LEMMA PlanAudit ==
  ASSUME Plan!TypeOK, NEW c \in Plan!Callers, NEW recorded \in BOOLEAN, Plan!Audit(c, recorded)
  PROVE Plan!TypeOK' /\ Does(c)
<1>0. TasksType /\ HeldType /\ ToldType /\ planFaults \in 0..MaxPlanFaults
  BY PlanTypeParts
<1>1. TasksType' /\ tasks' = tasks /\ planFaults' \in 0..MaxPlanFaults /\ planPc[c] \in {"audit", "failed"}
  BY <1>0 DEF Plan!Audit, TasksType
<1>2. ToldType'
  <2> DEFINE done == planPc[c] = "audit"
             answer == [success |-> Plan!Success(done, recorded), recoverable |-> ~done,
                        logged |-> recorded, did |-> did[c]]
  <2>1. did[c] \in BOOLEAN /\ Plan!Success(done, recorded) \in BOOLEAN /\ (~done) \in BOOLEAN
    BY <1>0 DEF HeldType, Plan!Success
  <2> HIDE DEF done
  <2>2. answer \in [success : BOOLEAN, recoverable : BOOLEAN, logged : BOOLEAN, did : BOOLEAN]
    BY <2>1
  <2>3. told' = [told EXCEPT ![c] = answer]
    BY DEF Plan!Audit, done
  <2> HIDE DEF answer
  <2> QED
    BY <1>0, <2>2, <2>3 DEF ToldType
<1>3. CASE Plan!Finish(c)
  <2>1. HeldType' /\ Ends(c)
    BY <1>0, <1>3, PlanEnds
  <2> QED
    BY <1>1, <1>2, <2>1, PlanTypeParts DEF Does, Audits
<1>4. CASE ~Plan!Finish(c)
  <2>1. Plan!Go(c, "noting") /\ UNCHANGED <<call, left, seen, made, did>> /\ call[c].op = "work"
    BY <1>4 DEF Plan!Audit
  <2>2. HeldType' /\ Stays(c) /\ planPc'[c] = "noting"
    BY <1>0, <2>1, PlanGoes DEF HeldType
  <2> QED
    BY <1>1, <1>2, <2>1, <2>2, PlanTypeParts DEF Does, Audits
<1> QED
  BY <1>3, <1>4

(* The note of a finished task is read.                                      *)
LEMMA PlanReadNote ==
  ASSUME Plan!TypeOK, NEW c \in Plan!Callers, Plan!ReadNote(c)
  PROVE Plan!TypeOK' /\ Does(c)
<1>0. TasksType /\ HeldType /\ ToldType /\ planFaults \in 0..MaxPlanFaults
  BY PlanTypeParts
<1>1. TasksType' /\ tasks' = tasks /\ ToldType' /\ planFaults' \in 0..MaxPlanFaults /\ planPc[c] = "noting"
  BY <1>0 DEF Plan!ReadNote, TasksType, ToldType
<1>2. Plan!Mission \in Plan!Ids /\ tasks[Plan!Mission] \in Plan!Task
  <2>1. Plan!Mission \in DOMAIN tasks /\ Plan!Mission \in Plan!Ids
    BY <1>0, RecordsAssumption DEF TasksType, Plan!PlanAssumption, Plan!Mission, Plan!Ids
  <2> QED
    BY <1>0, <2>1, PlanLists DEF TasksType
<1> DEFINE g == [j \in {Plan!Mission} |-> tasks[Plan!Mission]]
<1>3. Plan!IsList(g) /\ DOMAIN g = {Plan!Mission} /\ g[Plan!Mission] = tasks[Plan!Mission]
  BY <1>2, PlanLists
<1>4. seen' = [seen EXCEPT ![c] = g] /\ planPc' = [planPc EXCEPT ![c] = "note"] /\ UNCHANGED <<call, left, made, did>>
  BY DEF Plan!ReadNote, Plan!Go
<1> HIDE DEF g
<1>5. HeldType' /\ Others(c) /\ planPc'[c] = "note" /\ seen'[c] = g
  BY <1>0, <1>3, <1>4, PlanSets
<1>6. Notes(c)
  BY <1>1, <1>3, <1>4, <1>5 DEF Notes
<1> QED
  BY <1>1, <1>5, <1>6, PlanTypeParts DEF Does

(* Every step is a step of one caller.                                      *)
LEMMA PlanSteps ==
  ASSUME Plan!TypeOK, Plan!SeenExist, Plan!CallsInStep, Plan!Next
  PROVE Plan!TypeOK' /\ \E c \in Plan!Callers : Does(c)
<1>1. PICK c \in Plan!Callers :
        \/ \E op \in OpsOf[c], t \in Plan!Ids, d \in SUBSET Plan!Ids : Plan!Ask(c, op, t, d)
        \/ \E i \in Plan!Ids : Plan!ReadFile(c, i)
        \/ Plan!Create(c) \/ Plan!Update(c) \/ Plan!Complete(c) \/ Plan!Depend(c)
        \/ Plan!Save(c) \/ \E landed \in BOOLEAN : Plan!SaveFails(c, landed)
        \/ \E recorded \in BOOLEAN : Plan!Audit(c, recorded)
        \/ Plan!ReadNote(c)
  BY Zenon DEF Plan!Next
<1>2. CASE \E op \in OpsOf[c], t \in Plan!Ids, d \in SUBSET Plan!Ids : Plan!Ask(c, op, t, d)
  BY <1>2, PlanAsk
<1>3. CASE \E i \in Plan!Ids : Plan!ReadFile(c, i)
  BY <1>3, PlanReadFile
<1>4. CASE Plan!Create(c) \/ Plan!Update(c) \/ Plan!Complete(c) \/ Plan!Depend(c)
  BY <1>4, PlanCreate, PlanUpdate, PlanComplete, PlanDepend
<1>5. CASE Plan!Save(c) \/ \E landed \in BOOLEAN : Plan!SaveFails(c, landed)
  BY <1>5, PlanSave, PlanSaveFails
<1>6. CASE (\E recorded \in BOOLEAN : Plan!Audit(c, recorded)) \/ Plan!ReadNote(c)
  BY <1>6, PlanAudit, PlanReadNote
<1> QED
  BY <1>1, <1>2, <1>3, <1>4, <1>5, <1>6

-----------------------------------------------------------------------------
(* What is referred to exists                                               *)

(* The files after a step.                                                  *)
LEMMA PlanGrows ==
  ASSUME NEW c \in Plan!Callers, Does(c), Plan!DependenciesExist, Plan!SeenExist
  PROVE /\ DOMAIN tasks \subseteq DOMAIN tasks'
        /\ tasks' = tasks \/ Saves(c)
        /\ Plan!DependenciesExist'
<1>1. CASE tasks' = tasks
  BY <1>1 DEF Plan!DependenciesExist
<1>2. CASE Saves(c)
  <2>1. PICK i \in Plan!Ids, k \in Plan!Ids \cup {Plan!NewTask} : DOMAIN seen[c] = {k} /\ Puts(i, seen[c][k])
    BY <1>2 DEF Saves
  <2>2. seen[c][k].deps \subseteq DOMAIN tasks
    BY <2>1 DEF Plan!SeenExist
  <2> QED
    BY <1>2, <2>1, <2>2 DEF Puts, Plan!DependenciesExist
<1>3. tasks' = tasks \/ Saves(c)
  BY DEF Does, Starts, Reads, Keeps, Quits, SavesOn, Audits, Notes
<1> QED
  BY <1>1, <1>2, <1>3

SeenExistAt(c) ==
  /\ left[c] \cup made[c] \subseteq DOMAIN tasks
  /\ DOMAIN seen[c] \subseteq DOMAIN tasks \cup {Plan!NewTask}
  /\ \A i \in DOMAIN seen[c] : seen[c][i].deps \subseteq DOMAIN tasks

(* What a call has read of a task still exists: tasks are never removed.     *)
LEMMA PlanSeenExist ==
  ASSUME Plan!TypeOK, Plan!TypeOK', NEW c \in Plan!Callers, Does(c), Plan!DependenciesExist, Plan!SeenExist, Plan!CallsInStep
  PROVE Plan!SeenExist'
<1>1. DOMAIN tasks \subseteq DOMAIN tasks'
  BY PlanGrows
<1>2. SeenExistAt(c)
  BY DEF Plan!SeenExist, SeenExistAt
<1>3. DOMAIN <<>> = {}
  OBVIOUS
<1>4. SeenExistAt(c)'
  <2>1. CASE Starts(c)
    BY <1>1, <1>2, <2>1 DEF Starts, SeenExistAt
  <2>2. CASE Reads(c)
    <3>1. PICK i \in left[c] : /\ seen'[c] = Plan!With(seen[c], i, tasks[i]) /\ left'[c] = left[c] \ {i}
                               /\ made'[c] = made[c]
      BY <2>2 DEF Reads
    <3>2. i \in DOMAIN tasks /\ tasks[i].deps \subseteq DOMAIN tasks
      BY <1>2 DEF SeenExistAt, Plan!DependenciesExist
    <3>3. /\ DOMAIN seen'[c] = DOMAIN seen[c] \cup {i}
          /\ \A j \in DOMAIN seen'[c] : seen'[c][j] = IF j = i THEN tasks[i] ELSE seen[c][j]
      BY <3>1 DEF Plan!With
    <3>4. \A j \in DOMAIN seen'[c] : seen'[c][j].deps \subseteq DOMAIN tasks'
      BY <1>1, <1>2, <3>2, <3>3 DEF SeenExistAt
    <3> QED
      BY <1>1, <1>2, <3>1, <3>2, <3>3, <3>4 DEF SeenExistAt
  <2>3. CASE Keeps(c)
    <3>1. PICK i \in Plan!Ids \cup {Plan!NewTask}, x \in Plan!Task :
            /\ DOMAIN seen'[c] = {i} /\ seen'[c][i] = x /\ Decides(c, i, x)
            /\ left'[c] = left[c] /\ made'[c] = made[c]
      BY <2>3 DEF Keeps
    <3>2. i \in DOMAIN tasks \cup {Plan!NewTask} /\ x.deps \subseteq DOMAIN tasks
      <4>1. Plan!NewTask \notin DOMAIN seen[c]
        BY <2>3 DEF Keeps, Plan!CallsInStep
      <4>2. DOMAIN seen[c] \subseteq DOMAIN tasks
        BY <1>2, <4>1 DEF SeenExistAt
      <4> QED
        BY <1>2, <3>1, <4>2 DEF Decides, SeenExistAt
    <3> QED
      BY <1>1, <1>2, <3>1, <3>2 DEF SeenExistAt
  <2>4. CASE Ends(c)
    BY <1>3, <2>4 DEF Ends, SeenExistAt
  <2>5. CASE Stays(c)
    BY <1>1, <1>2, <2>5 DEF Stays, SeenExistAt
  <2>6. CASE left'[c] = DOMAIN tasks' /\ made'[c] \subseteq DOMAIN tasks' /\ seen'[c] = <<>>
    BY <1>3, <2>6 DEF SeenExistAt
  <2>7. CASE Notes(c)
    <3>1. Plan!Mission \in DOMAIN tasks
      BY DEF Plan!TypeOK
    <3> QED
      BY <1>1, <1>2, <2>7, <3>1 DEF SeenExistAt, Notes, Plan!DependenciesExist
  <2> QED
    BY <2>1, <2>2, <2>3, <2>4, <2>5, <2>6, <2>7 DEF Does, Quits, SavesOn, Audits
<1>5. ASSUME NEW o \in Plan!Callers \ {c} PROVE SeenExistAt(o)'
  <2>1. SeenExistAt(o)
    BY DEF Plan!SeenExist, SeenExistAt
  <2>2. left'[o] = left[o] /\ seen'[o] = seen[o] /\ made'[o] = made[o]
    BY DEF Does, Starts, Reads, Keeps, Quits, SavesOn, Audits, Notes, Ends, Stays, Others
  <2> QED
    BY <1>1, <2>1, <2>2 DEF SeenExistAt
<1> QED
  BY <1>4, <1>5 DEF Plan!SeenExist, SeenExistAt

InStepAt(c) ==
  /\ planPc[c] = "idle" => seen[c] = <<>>
  /\ planPc[c] \notin {"idle", "over"} => call[c].op \in OpsOf[c]
  /\ call[c].op = "depend" => \E x \in Plan!Ids : call[c].d = {x}
  /\ planPc[c] = "read" =>
       /\ Plan!NewTask \notin DOMAIN seen[c] /\ left[c] \cap DOMAIN seen[c] = {}
       /\ call[c].op \in Plan!Updates \cup {"complete", "depend"} =>
            call[c].t \in left[c] \cup DOMAIN seen[c]
  /\ planPc[c] \in {"save", "note"} => \E i \in Plan!Ids \cup {Plan!NewTask} : DOMAIN seen[c] = {i}
  /\ planPc[c] \in {"noting", "note"} => c \in Agents

(* A call holds a task only between its read and its save.                   *)
LEMMA PlanInStep ==
  ASSUME Plan!TypeOK, Plan!TypeOK', NEW c \in Plan!Callers, Does(c), Plan!SeenExist, Plan!CallsInStep
  PROVE Plan!CallsInStep'
<1>1. InStepAt(c)
  BY DEF Plan!CallsInStep, InStepAt
<1>2. DOMAIN <<>> = {}
  OBVIOUS
<1>3. InStepAt(c)'
  <2>1. CASE Starts(c)
    <3>1. seen'[c] = <<>>
      BY <1>1, <2>1 DEF Starts, InStepAt
    <3> QED
      BY <1>2, <2>1, <3>1 DEF Starts, InStepAt
  <2>2. CASE Reads(c)
    <3>1. PICK i \in left[c] : /\ seen'[c] = Plan!With(seen[c], i, tasks[i]) /\ left'[c] = left[c] \ {i}
                               /\ planPc[c] = "read" /\ planPc'[c] = "read" /\ call'[c] = call[c]
      BY <2>2 DEF Reads
    <3>2. DOMAIN seen'[c] = DOMAIN seen[c] \cup {i}
      BY <3>1 DEF Plan!With
    <3>3. i # Plan!NewTask
      BY DEF Plan!TypeOK, Plan!SeenExist
    <3> QED
      BY <1>1, <3>1, <3>2, <3>3 DEF InStepAt
  <2>3. CASE Keeps(c)
    BY <1>1, <2>3 DEF Keeps, InStepAt
  <2>4. CASE Ends(c)
    BY <2>4 DEF Ends, InStepAt, Plan!NoCall
  <2>5. CASE Stays(c) /\ planPc'[c] \in {"failed", "audit"} /\ planPc[c] \notin {"idle", "over"}
    BY <1>1, <2>5 DEF Stays, InStepAt
  <2>6. CASE Stays(c) /\ planPc'[c] = "noting" /\ call[c].op = "work" /\ planPc[c] \notin {"idle", "over"}
    <3>1. c \in Agents
      BY <1>1, <2>6, RecordsAssumption DEF InStepAt, Plan!PlanAssumption, Plan!Callers
    <3> QED
      BY <1>1, <2>6, <3>1 DEF Stays, InStepAt
  <2>7. CASE /\ Others(c) /\ call'[c] = call[c] /\ planPc'[c] = "read" /\ seen'[c] = <<>>
             /\ call[c].op \in Plan!Batches /\ planPc[c] \in {"save", "note"}
    BY <1>1, <1>2, <2>7 DEF InStepAt, Plan!Batches, Plan!Updates
  <2>8. CASE Notes(c)
    <3>1. Plan!Mission \in Plan!Ids
      BY RecordsAssumption DEF Plan!Mission, Plan!Ids, Plan!PlanAssumption
    <3> QED
      BY <1>1, <2>8, <3>1 DEF Notes, InStepAt
  <2> QED
    BY <2>1, <2>2, <2>3, <2>4, <2>5, <2>6, <2>7, <2>8 DEF Does, Quits, SavesOn, Audits
<1>4. ASSUME NEW o \in Plan!Callers \ {c} PROVE InStepAt(o)'
  <2>1. InStepAt(o)
    BY DEF Plan!CallsInStep, InStepAt
  <2>2. planPc'[o] = planPc[o] /\ call'[o] = call[o] /\ left'[o] = left[o] /\ seen'[o] = seen[o]
    BY DEF Does, Starts, Reads, Keeps, Quits, SavesOn, Audits, Notes, Ends, Stays, Others
  <2> QED
    BY <2>1, <2>2 DEF InStepAt
<1> QED
  BY <1>3, <1>4 DEF Plan!CallsInStep, InStepAt

(* The requests that are no agent's only complete a task.                    *)
LEMMA PlanRequests ==
  ASSUME Plan!TypeOK, Plan!TypeOK', NEW c \in Plan!Callers, Does(c), Plan!CallsInStep, Plan!RequestsComplete
  PROVE Plan!RequestsComplete'
<1> SUFFICES ASSUME NEW w \in Requests, planPc'[w] \in {"save", "note"}, NEW i \in DOMAIN seen'[w]
             PROVE i = Plan!NewTask \/ Plan!Terminal(seen'[w][i].status)
  BY DEF Plan!RequestsComplete
<1>1. w \in Plan!Callers /\ w \notin Agents
  BY RecordsAssumption DEF Plan!Callers, Plan!PlanAssumption
<1>2. CASE w # c
  <2>1. planPc'[w] = planPc[w] /\ seen'[w] = seen[w]
    BY <1>1, <1>2 DEF Does, Starts, Reads, Keeps, Quits, SavesOn, Audits, Notes, Ends, Stays, Others
  <2> QED
    BY <2>1 DEF Plan!RequestsComplete
<1>3. CASE w = c
  <2>1. planPc[c] # "noting"
    BY <1>1, <1>3 DEF Plan!CallsInStep
  <2>2. Keeps(c)
    BY <1>3, <2>1 DEF Does, Starts, Reads, Quits, SavesOn, Audits, Notes, Ends
  <2>3. PICK k \in Plan!Ids \cup {Plan!NewTask}, x \in Plan!Task :
          DOMAIN seen'[c] = {k} /\ seen'[c][k] = x /\ Decides(c, k, x) /\ planPc[c] = "read"
    BY <2>2 DEF Keeps
  <2>4. call[c].op \in {"create", "complete"}
    <3>1. call[c].op \in OpsOf[c]
      BY <2>3 DEF Plan!CallsInStep
    <3> QED
      BY <1>3, <3>1, RecordsAssumption DEF Plan!PlanAssumption
  <2> QED
    BY <1>3, <2>3, <2>4 DEF Decides, Plan!Updates
<1> QED
  BY <1>2, <1>3

-----------------------------------------------------------------------------
(* No tasks wait for each other in a circle                                 *)

(* What a request saves is new, or done.                                    *)
LEMMA PlanRequestSaves ==
  ASSUME Plan!TypeOK, NEW w \in Plan!Callers, w \notin Agents, planPc[w] \in {"save", "note"}, Saves(w), Plan!SeenExist,
         Plan!RequestsComplete
  PROVE \E i \in Plan!Ids, x \in Plan!Task :
          /\ Puts(i, x) /\ x.deps \subseteq DOMAIN tasks
          /\ i \notin DOMAIN tasks \/ (i \in DOMAIN tasks /\ Plan!Terminal(x.status))
<1>1. PICK i \in Plan!Ids, k \in Plan!Ids \cup {Plan!NewTask} :
        /\ DOMAIN seen[w] = {k} /\ Puts(i, seen[w][k])
        /\ k = Plan!NewTask => i \notin DOMAIN tasks
        /\ k # Plan!NewTask => k = i /\ i \in DOMAIN tasks
  BY DEF Saves
<1>2. w \in Requests
  BY DEF Plan!Callers
<1>3. seen[w][k].deps \subseteq DOMAIN tasks /\ (k = Plan!NewTask \/ Plan!Terminal(seen[w][k].status))
  BY <1>1, <1>2 DEF Plan!SeenExist, Plan!RequestsComplete
<1>4. seen[w][k] \in Plan!Task
  BY <1>1, PlanLists DEF Plan!TypeOK
<1> QED
  BY <1>1, <1>3, <1>4

ReadsAt(a) ==
  planPc[a] = "read" =>
    /\ \A i \in DOMAIN seen[a] : i \in Plan!Open(tasks) => seen[a][i] = tasks[i]
    /\ call[a].op = "depend" =>
         /\ \A i \in left[a] \cap Plan!Open(tasks) : tasks[i].deps \subseteq left[a] \cup DOMAIN seen[a]
         /\ \A i \in Plan!Open(seen[a]) : seen[a][i].deps \subseteq left[a] \cup DOMAIN seen[a]

(* The agent's own step.                                                    *)
LEMMA PlanReadsOwn ==
  ASSUME Plan!TypeOK, NEW a \in Agents, Does(a), Plan!DependenciesExist, Plan!SeenExist, Plan!CallsInStep, ReadsAt(a)
  PROVE ReadsAt(a)'
<1> SUFFICES ASSUME planPc'[a] = "read" PROVE ReadsAt(a)'
  BY DEF ReadsAt
<1>0. a \in Plan!Callers /\ DOMAIN <<>> = {} /\ Plan!Open(<<>>) = {}
  BY DEF Plan!Callers, Plan!Open
<1>1. CASE Starts(a)
  <2>1. seen'[a] = <<>> /\ tasks' = tasks
    BY <1>0, <1>1 DEF Starts, Plan!CallsInStep
  <2>2. call'[a].op = "depend" => left'[a] = DOMAIN tasks
    BY <1>1 DEF Starts, Plan!Updates
  <2>3. \A i \in left'[a] : tasks[i].deps \subseteq DOMAIN tasks
    BY <1>1 DEF Starts, Plan!DependenciesExist
  <2> QED
    BY <1>0, <2>1, <2>2, <2>3 DEF ReadsAt
<1>2. CASE Reads(a)
  <2>1. PICK i \in left[a] :
          /\ seen'[a] = Plan!With(seen[a], i, tasks[i]) /\ left'[a] = left[a] \ {i}
          /\ planPc[a] = "read" /\ call'[a] = call[a] /\ tasks' = tasks
    BY <1>2 DEF Reads
  <2>2. i \notin DOMAIN seen[a] /\ i \in DOMAIN tasks
    BY <1>0, <2>1 DEF Plan!CallsInStep, Plan!SeenExist
  <2>3. /\ DOMAIN seen'[a] = DOMAIN seen[a] \cup {i}
        /\ \A j \in DOMAIN seen'[a] : seen'[a][j] = IF j = i THEN tasks[i] ELSE seen[a][j]
    BY <2>1 DEF Plan!With
  <2>4. left'[a] \cup DOMAIN seen'[a] = left[a] \cup DOMAIN seen[a]
    BY <2>1, <2>2, <2>3
  <2>5. \A j \in Plan!Open(seen'[a]) : (j = i /\ i \in Plan!Open(tasks)) \/ j \in Plan!Open(seen[a])
    BY <2>2, <2>3 DEF Plan!Open
  <2>6. ASSUME call[a].op = "depend", NEW j \in Plan!Open(seen'[a])
        PROVE seen'[a][j].deps \subseteq left[a] \cup DOMAIN seen[a]
    <3>1. j \in DOMAIN seen'[a]
      BY DEF Plan!Open
    <3>2. CASE j = i
      <4>1. seen'[a][j] = tasks[i] /\ i \in Plan!Open(tasks)
        BY <2>2, <2>3, <2>5, <3>1, <3>2 DEF Plan!Open
      <4> QED
        BY <2>1, <2>6, <4>1 DEF ReadsAt
    <3>3. CASE j # i
      <4>1. seen'[a][j] = seen[a][j] /\ j \in Plan!Open(seen[a])
        BY <2>3, <2>5, <3>1, <3>3
      <4> QED
        BY <2>1, <2>6, <4>1 DEF ReadsAt
    <3> QED
      BY <3>2, <3>3
  <2>7. \A j \in DOMAIN seen'[a] : j \in Plan!Open(tasks) => seen'[a][j] = tasks[j]
    BY <2>1, <2>3 DEF ReadsAt
  <2>8. call[a].op = "depend" =>
          \A j \in left'[a] \cap Plan!Open(tasks) : tasks[j].deps \subseteq left[a] \cup DOMAIN seen[a]
    BY <2>1 DEF ReadsAt
  <2> QED
    BY <2>1, <2>4, <2>6, <2>7, <2>8 DEF ReadsAt
<1>3. CASE seen'[a] = <<>> /\ call'[a].op \in Plan!Batches
  BY <1>0, <1>3 DEF ReadsAt, Plan!Batches
<1> QED
  BY <1>1, <1>2, <1>3 DEF Does, Keeps, Quits, SavesOn, Audits, Notes, Ends

(* A step of a request beside it.                                           *)
LEMMA PlanReadsBeside ==
  ASSUME Plan!TypeOK, NEW a \in Agents, NEW w \in Plan!Callers, w \notin Agents, Does(w), Plan!DependenciesExist,
         Plan!SeenExist, Plan!CallsInStep, Plan!RequestsComplete, ReadsAt(a)
  PROVE ReadsAt(a)'
<1> SUFFICES ASSUME planPc'[a] = "read" PROVE ReadsAt(a)'
  BY DEF ReadsAt
<1>1. a \in Plan!Callers \ {w}
  BY DEF Plan!Callers
<1>2. planPc'[a] = planPc[a] /\ call'[a] = call[a] /\ left'[a] = left[a] /\ seen'[a] = seen[a]
  BY <1>1 DEF Does, Starts, Reads, Keeps, Quits, SavesOn, Audits, Notes, Ends, Stays, Others
<1>3. CASE tasks' = tasks
  BY <1>2, <1>3 DEF ReadsAt
<1>4. CASE tasks' # tasks
  <2>1. planPc[w] \in {"save", "note"} /\ Saves(w)
    BY <1>4 DEF Does, Starts, Reads, Keeps, Quits, SavesOn, Audits, Notes
  <2>2. PICK i \in Plan!Ids, x \in Plan!Task :
          /\ Puts(i, x) /\ x.deps \subseteq DOMAIN tasks
          /\ i \notin DOMAIN tasks \/ (i \in DOMAIN tasks /\ Plan!Terminal(x.status))
    BY <2>1, PlanRequestSaves
  <2>3. ASSUME NEW j \in DOMAIN tasks, j \in Plan!Open(tasks')
        PROVE j \in Plan!Open(tasks) /\ tasks'[j] = tasks[j]
    <3>1. j # i
      BY <2>2, <2>3 DEF Puts, Plan!Open
    <3> QED
      BY <2>2, <2>3, <3>1 DEF Puts, Plan!Open
  <2>4. Plan!NewTask \notin DOMAIN seen[a]
    BY <1>1, <1>2 DEF Plan!CallsInStep
  <2>5. left[a] \subseteq DOMAIN tasks /\ DOMAIN seen[a] \subseteq DOMAIN tasks
    BY <1>1, <2>4 DEF Plan!SeenExist
  <2>6. \A j \in DOMAIN seen[a] : j \in Plan!Open(tasks') => seen[a][j] = tasks'[j]
    BY <1>2, <2>3, <2>5 DEF ReadsAt
  <2>7. call[a].op = "depend" =>
          \A j \in left[a] \cap Plan!Open(tasks') : tasks'[j].deps \subseteq left[a] \cup DOMAIN seen[a]
    BY <1>2, <2>3, <2>5 DEF ReadsAt
  <2>8. call[a].op = "depend" =>
          \A j \in Plan!Open(seen[a]) : seen[a][j].deps \subseteq left[a] \cup DOMAIN seen[a]
    BY <1>2 DEF ReadsAt
  <2> QED
    BY <1>2, <2>6, <2>7, <2>8 DEF ReadsAt
<1> QED
  BY <1>3, <1>4

(* The circles: the files by themselves, and under what the agent has read. *)
LEMMA PlanCircleOwn ==
  ASSUME Plan!TypeOK, NEW a \in Agents, Does(a), Plan!DependenciesExist, Plan!SeenExist, Plan!CallsInStep, ReadsAt(a),
         Plan!Acyclic(tasks, Plan!Open(tasks)), Sound(seen[a], tasks)
  PROVE Plan!Acyclic(tasks', Plan!Open(tasks')) /\ Sound(seen'[a], tasks')
<1>0. a \in Plan!Callers /\ DOMAIN <<>> = {} /\ Plan!NewTask \notin DOMAIN tasks
  BY DEF Plan!Callers, Plan!TypeOK
<1>1. CASE Reads(a)
  <2>1. PICK i \in left[a] :
          seen'[a] = Plan!With(seen[a], i, tasks[i]) /\ planPc[a] = "read" /\ tasks' = tasks
    BY <1>1 DEF Reads
  <2>2. i \notin DOMAIN seen[a] /\ i \in DOMAIN tasks
    BY <1>0, <2>1 DEF Plan!CallsInStep, Plan!SeenExist
  <2>3. Sound(Plan!With(seen[a], i, tasks[i]), tasks)
    BY <2>2, PlanRead
  <2> QED
    BY <2>1, <2>3
<1>2. CASE Keeps(a)
  <2>1. PICK i \in Plan!Ids \cup {Plan!NewTask}, x \in Plan!Task :
          /\ planPc[a] = "read" /\ left[a] = {} /\ tasks' = tasks
          /\ DOMAIN seen'[a] = {i} /\ seen'[a][i] = x /\ Decides(a, i, x)
    BY <1>2 DEF Keeps
  <2> DEFINE s == seen[a]
             r == seen'[a]
  <2>2. PlanFresh(s, tasks)
    BY <1>0, <2>1 DEF PlanFresh, ReadsAt, Plan!SeenExist, Plan!CallsInStep
  <2>3. i \in DOMAIN s => (i \in Plan!Open(r) <=> ~Plan!Terminal(x.status))
                         /\ (i \in Plan!Open(s) <=> ~Plan!Terminal(s[i].status))
    BY <2>1 DEF Plan!Open
  <2>4. Sound(r, tasks)
    <3>1. CASE i = Plan!NewTask
      <4>1. DOMAIN r \cap DOMAIN tasks = {}
        BY <1>0, <2>1, <3>1
      <4> QED
        BY <4>1, PlanApart
    <3>2. CASE /\ i \in DOMAIN s /\ x.deps = s[i].deps
               /\ ~Plan!Terminal(x.status) => ~Plan!Terminal(s[i].status)
      <4>1. i \in Plan!Open(r) => i \in Plan!Open(s) /\ r[i].deps = s[i].deps
        BY <2>1, <2>3, <3>2
      <4> HIDE DEF r, s
      <4> QED
        BY <2>1, <2>2, <3>2, <4>1, PlanKept DEF r, s
    <3>3. CASE /\ i \in DOMAIN s /\ call[a].op = "depend" /\ x.status = s[i].status
               /\ \E d \in DOMAIN s : /\ x.deps = s[i].deps \cup {d}
                                     /\ (d \in s[i].deps \/ ~Plan!Closes(s, i, d))
      <4>1. PICK d \in DOMAIN s : /\ x.deps = s[i].deps \cup {d}
                                /\ (d \in s[i].deps \/ ~Plan!Closes(s, i, d))
        BY <3>3
      <4>2. i \in Plan!Open(r) => i \in Plan!Open(s) /\ r[i].deps = s[i].deps \cup {d}
        BY <2>1, <2>3, <3>3, <4>1
      <4>3. CASE d \in s[i].deps
        <5>1. i \in Plan!Open(r) => i \in Plan!Open(s) /\ r[i].deps = s[i].deps
          BY <4>2, <4>3
        <5> HIDE DEF r, s
        <5> QED
          BY <2>1, <2>2, <3>3, <5>1, PlanKept DEF r, s
      <4>4. CASE ~Plan!Closes(s, i, d)
        <5>1. \A j \in Plan!Open(s) : s[j].deps \subseteq DOMAIN s
          BY <2>1, <3>3 DEF ReadsAt
        <5>2. i \in DOMAIN s
          BY <3>3
        <5> HIDE DEF r, s
        <5> QED
          BY <2>1, <2>2, <4>2, <4>4, <5>1, <5>2, PlanDepends DEF r, s
      <4> QED
        BY <4>1, <4>3, <4>4
    <3> QED
      BY <2>1, <3>1, <3>2, <3>3 DEF Decides
  <2> QED
    BY <2>1, <2>4
<1>3. CASE Notes(a)
  <2>1. tasks' = tasks /\ DOMAIN seen'[a] = {Plan!Mission} /\ seen'[a][Plan!Mission] = tasks[Plan!Mission]
    BY <1>3 DEF Notes
  <2>2. \A i \in Plan!Open(seen'[a]) : i \in Plan!Open(tasks) /\ seen'[a][i] = tasks[i]
    BY <2>1 DEF Plan!Open, Plan!TypeOK
  <2>3. /\ Plan!Open(Over(seen'[a], tasks)) \subseteq Plan!Open(tasks)
        /\ \A i \in Plan!Open(Over(seen'[a], tasks)) : Over(seen'[a], tasks)[i] = tasks[i]
    BY <2>2, PlanOpen
  <2>4. Sound(seen'[a], tasks)
    BY <2>3, PlanFewer DEF Sound
  <2> QED
    BY <2>1, <2>4
<1>4. CASE tasks' = tasks /\ seen'[a] \in {seen[a], <<>>}
  <2>1. Sound(<<>>, tasks)
    BY <1>0, PlanApart
  <2> QED
    BY <1>4, <2>1
<1>5. CASE Saves(a) /\ seen'[a] \in {seen[a], <<>>}
  <2>1. PICK i \in Plan!Ids, k \in Plan!Ids \cup {Plan!NewTask} :
          /\ DOMAIN seen[a] = {k} /\ tasks' = Plan!With(tasks, i, seen[a][k])
          /\ k = Plan!NewTask => i \notin DOMAIN tasks
          /\ k # Plan!NewTask => k = i /\ i \in DOMAIN tasks
    BY <1>5 DEF Saves, Puts
  <2>2. Plan!Acyclic(tasks', Plan!Open(tasks')) /\ Sound(seen[a], tasks')
    <3>1. CASE k # Plan!NewTask
      BY <2>1, <3>1, PlanSaved
    <3>2. CASE k = Plan!NewTask
      <4> DEFINE x == seen[a][k]
                 s == seen[a]
      <4>0. i # Plan!NewTask /\ i \notin DOMAIN s /\ i \notin DOMAIN tasks
        BY <2>1, <3>2 DEF Plan!Ids, Plan!NewTask
      <4>1. \A j \in DOMAIN s : s[j].deps \subseteq DOMAIN tasks
        BY <1>0 DEF Plan!SeenExist
      <4>2. x.deps \subseteq DOMAIN tasks /\ \A j \in Plan!Open(s) : s[j].deps \subseteq DOMAIN tasks
        BY <2>1, <4>1 DEF Plan!Open
      <4>3. \A j \in DOMAIN tasks : tasks[j].deps \subseteq DOMAIN tasks
        BY DEF Plan!DependenciesExist
      <4> HIDE DEF x, s
      <4>4. Sound(s, Plan!With(tasks, i, x))
        BY <4>0, <4>2, <4>3, PlanUnderNew DEF s
      <4>5. i \notin x.deps /\ \A j \in Plan!Open(tasks) \ {i} :
              Plan!With(tasks, i, x)[j].deps = tasks[j].deps /\ i \notin tasks[j].deps
        BY <4>0, <4>2, <4>3 DEF Plan!Open, Plan!With
      <4>6. Plan!With(tasks, i, x)[i] = x /\ Plan!Open(Plan!With(tasks, i, x)) \subseteq Plan!Open(tasks) \cup {i}
        BY DEF Plan!With, Plan!Open
      <4>7. Plan!Acyclic(Plan!With(tasks, i, x), Plan!Open(tasks) \cup {i})
        BY <4>5, <4>6, PlanNew
      <4>8. Plan!Acyclic(Plan!With(tasks, i, x), Plan!Open(Plan!With(tasks, i, x)))
        BY <4>6, <4>7, PlanFewer
      <4> QED
        BY <2>1, <4>4, <4>8 DEF x, s
    <3> QED
      BY <3>1, <3>2
  <2>3. Sound(<<>>, tasks')
    BY <1>0, <2>2, PlanApart
  <2> QED
    BY <1>5, <2>2, <2>3
<1> QED
  BY <1>1, <1>2, <1>3, <1>4, <1>5 DEF Does, Starts, Quits, SavesOn, Audits, Ends, Stays

(* A request beside the agent keeps the agent's copy and the files in one    *)
(* order.                                                                    *)
LEMMA PlanFilesBeside ==
  ASSUME Plan!TypeOK, NEW w \in Plan!Callers, w \notin Agents, Does(w), Plan!DependenciesExist, Plan!SeenExist,
         Plan!RequestsComplete, NEW s, \A i \in DOMAIN s : s[i].deps \subseteq DOMAIN tasks,
         DOMAIN s \subseteq DOMAIN tasks \cup {Plan!NewTask}, Sound(s, tasks)
  PROVE Sound(s, tasks')
<1>1. CASE tasks' = tasks
  BY <1>1
<1>2. CASE tasks' # tasks
  <2>1. planPc[w] \in {"save", "note"} /\ Saves(w)
    BY <1>2 DEF Does, Starts, Reads, Keeps, Quits, SavesOn, Audits, Notes
  <2>2. PICK i \in Plan!Ids, x \in Plan!Task :
          /\ Puts(i, x) /\ x.deps \subseteq DOMAIN tasks
          /\ i \notin DOMAIN tasks \/ (i \in DOMAIN tasks /\ Plan!Terminal(x.status))
    BY <2>1, PlanRequestSaves
  <2>3. tasks' = Plan!With(tasks, i, x)
    BY <2>2 DEF Puts
  <2>4. CASE i \in DOMAIN tasks /\ Plan!Terminal(x.status)
    BY <2>3, <2>4, PlanUnderDone
  <2>5. CASE i \notin DOMAIN tasks
    <3>1. i \notin DOMAIN s
      BY <2>5 DEF Plan!Ids, Plan!NewTask
    <3>2. \A j \in Plan!Open(s) : s[j].deps \subseteq DOMAIN tasks
      BY DEF Plan!Open
    <3>3. \A j \in DOMAIN tasks : tasks[j].deps \subseteq DOMAIN tasks
      BY DEF Plan!DependenciesExist
    <3> QED
      BY <2>2, <2>3, <2>5, <3>1, <3>2, <3>3, PlanUnderNew
  <2> QED
    BY <2>2, <2>4, <2>5
<1> QED
  BY <1>1, <1>2

-----------------------------------------------------------------------------
(* The order of a list: Kahn's algorithm                                    *)

(* A set of numbers has a least one.                                        *)
LEMMA PlanLeast ==
  ASSUME NEW T, T \subseteq Nat, T # {}
  PROVE \E x \in T : \A y \in T : x <= y
<1>1. PICK x \in T : \A y \in T : ~(<<y, x>> \in OpToRel(<, Nat))
  BY NatLessThanWellFounded, WFMin
<1>2. \A y \in T : ~(y < x)
  BY <1>1 DEF OpToRel
<1>3. x \in Nat /\ \A y \in T : y \in Nat
  OBVIOUS
<1>4. \A y \in T : x <= y
  BY <1>2, <1>3
<1> QED
  BY <1>4

(* A finite set in some order.                                              *)
LEMMA PlanSetToSeq ==
  ASSUME NEW S, IsFiniteSet(S)
  PROVE /\ Plan!SetToSeq(S) \in Seq(S) /\ Len(Plan!SetToSeq(S)) = Cardinality(S)
        /\ \A m, n \in 1..Len(Plan!SetToSeq(S)) : Plan!SetToSeq(S)[m] = Plan!SetToSeq(S)[n] => m = n
        /\ \A i \in S : \E n \in 1..Len(Plan!SetToSeq(S)) : Plan!SetToSeq(S)[n] = i
<1> DEFINE N == Cardinality(S)
           q == Plan!SetToSeq(S)
<1>0. N \in Nat
  BY FS_CardinalityType
<1>1. PICK f : f \in Bijection(1..N, S)
  BY FS_CardinalityType DEF ExistsBijection
<1>2. f \in [1..N -> S] /\ IsInjective(f)
  BY <1>1 DEF Bijection, Injection, IsInjective, Plan!IsInjective
<1>3. q \in [1..N -> S] /\ IsInjective(q)
  BY <1>2, PlanCardinality DEF Plan!SetToSeq, IsInjective, Plan!IsInjective
<1>4. q \in Seq(S) /\ Len(q) = N
  BY <1>0, <1>3
<1>5. \A m, n \in 1..N : q[m] = q[n] => m = n
  BY <1>3 DEF IsInjective, Plan!IsInjective
<1>6. q \in Injection(1..N, S)
  BY <1>3, <1>5 DEF Injection, IsInjective, Plan!IsInjective
<1>7. IsFiniteSet(1..N) /\ Cardinality(1..N) = N
  BY <1>0, FS_Interval
<1>8. \A i \in S : \E n \in 1..N : q[n] = i
  <2>1. q \in Surjection(1..N, S)
    BY <1>6, <1>7, FS_Injection, FS_Surjection DEF Bijection
  <2> QED
    BY <2>1 DEF Surjection
<1> QED
  BY <1>4, <1>5, <1>8

(* The queue of Kahn's algorithm after each of its turns.                   *)
PlanOneTurn(g, order, n) ==
  IF n > Len(order) THEN order ELSE order \o Plan!SetToSeq(Plan!Freed(g, order, n))

PlanFree(g) == Plan!SetToSeq({i \in DOMAIN g : Plan!Waits(g, i) = {}})

PlanTurns(g, N, q) ==
  q = [n \in 0..N |-> IF n = 0 THEN PlanFree(g) ELSE PlanOneTurn(g, q[n - 1], n)]

(* There is such a queue for any number of turns.                           *)
LEMMA PlanTurnsExist ==
  ASSUME NEW g
  PROVE \A N \in Nat : \E q : PlanTurns(g, N, q)
<1> DEFINE T == {N \in Nat : ~\E q : PlanTurns(g, N, q)}
<1>1. SUFFICES ASSUME T # {} PROVE FALSE
  OBVIOUS
<1>2. PICK N \in T : \A m \in T : N <= m
  BY <1>1, PlanLeast
<1>3. N # 0
  <2>1. SUFFICES ASSUME N = 0 PROVE FALSE
    OBVIOUS
  <2> DEFINE q == [n \in 0..0 |-> PlanFree(g)]
  <2>2. q = [n \in 0..0 |-> IF n = 0 THEN PlanFree(g) ELSE PlanOneTurn(g, q[n - 1], n)]
    OBVIOUS
  <2> HIDE DEF q
  <2>3. PlanTurns(g, 0, q)
    BY <2>2 DEF PlanTurns
  <2> QED
    BY <2>1, <2>3
<1>4. N \in Nat /\ N - 1 \in Nat /\ N - 1 \notin T
  BY <1>2, <1>3
<1>5. PICK p : PlanTurns(g, N - 1, p)
  BY <1>4
<1> DEFINE q == [n \in 0..N |-> IF n < N THEN p[n] ELSE PlanOneTurn(g, p[N - 1], N)]
<1>6. ASSUME NEW n \in 0..N
      PROVE q[n] = IF n = 0 THEN PlanFree(g) ELSE PlanOneTurn(g, q[n - 1], n)
  <2>1. n < N => p[n] = IF n = 0 THEN PlanFree(g) ELSE PlanOneTurn(g, p[n - 1], n)
    BY <1>4, <1>5 DEF PlanTurns
  <2>2. n # 0 => n - 1 \in 0..N /\ n - 1 < N /\ q[n - 1] = p[n - 1]
    BY <1>4
  <2>3. CASE n < N
    BY <2>1, <2>2, <2>3
  <2>4. CASE n = N
    BY <2>2, <2>4, <1>3
  <2> QED
    BY <2>3, <2>4, <1>4
<1>7. q = [n \in 0..N |-> q[n]]
  OBVIOUS
<1> HIDE DEF q
<1>8. q = [n \in 0..N |-> IF n = 0 THEN PlanFree(g) ELSE PlanOneTurn(g, q[n - 1], n)]
  BY <1>6, <1>7
<1>9. PlanTurns(g, N, q)
  BY <1>8 DEF PlanTurns
<1> QED
  BY <1>2, <1>9

(* Kahn's queue is one of these.                                            *)
LEMMA PlanKahn ==
  ASSUME NEW g, IsFiniteSet(DOMAIN g)
  PROVE PlanTurns(g, Cardinality(DOMAIN g), Plan!Kahn(g))
<1> DEFINE N == Cardinality(DOMAIN g)
<1>1. N \in Nat
  BY FS_CardinalityType
<1>2. PICK q : PlanTurns(g, N, q)
  BY <1>1, PlanTurnsExist
<1>3. Plan!Kahn(g) = CHOOSE p : PlanTurns(g, N, p)
  <2>1. Plan!Cardinality(DOMAIN g) = N
    BY PlanCardinality
  <2> QED
    BY <2>1 DEF Plan!Kahn, PlanTurns, PlanOneTurn, PlanFree
<1> QED
  BY <1>2, <1>3

(* A queue has no task twice, and each after all that it waits for; after n *)
(* turns it has those that wait for its first n only.                       *)
Ordered(g, order) ==
  /\ order \in Seq(DOMAIN g)
  /\ \A m, n \in 1..Len(order) : order[m] = order[n] => m = n
  /\ \A n \in 1..Len(order) : Plan!Waits(g, order[n]) \subseteq {order[k] : k \in 1..n-1}

PlanQueued(order, n) == {order[k] : k \in (1..n) \cap (1..Len(order))}

Reached(g, order, n) ==
  \A i \in DOMAIN g :
    (\E k \in 1..Len(order) : order[k] = i) <=> Plan!Waits(g, i) \subseteq PlanQueued(order, n)

(* The first queue has the tasks that wait for none.                        *)
LEMMA PlanFirstQueue ==
  ASSUME NEW g, IsFiniteSet(DOMAIN g)
  PROVE Ordered(g, PlanFree(g)) /\ Reached(g, PlanFree(g), 0)
<1> DEFINE S == {i \in DOMAIN g : Plan!Waits(g, i) = {}}
           q == Plan!SetToSeq(S)
<1>1. IsFiniteSet(S)
  BY FS_Subset
<1> HIDE DEF S
<1>2. /\ q \in Seq(S) /\ Len(q) \in Nat
      /\ \A m, n \in 1..Len(q) : q[m] = q[n] => m = n
      /\ \A i \in S : \E n \in 1..Len(q) : q[n] = i
  <2>1. q \in Seq(S)
    BY <1>1, PlanSetToSeq
  <2>2. Len(q) \in Nat
    BY <2>1
  <2> QED
    BY <1>1, <2>1, <2>2, PlanSetToSeq
<1> HIDE DEF q
<1>3. \A n \in 1..Len(q) : q[n] \in S
  BY <1>2
<1>4. q \in Seq(DOMAIN g)
  <2>1. q \in [1..Len(q) -> S]
    BY <1>2
  <2>2. S \subseteq DOMAIN g
    BY DEF S
  <2>3. q \in [1..Len(q) -> DOMAIN g]
    BY <2>1, <2>2
  <2> QED
    BY <2>3, <1>2
<1>5. \A n \in 1..Len(q) : Plan!Waits(g, q[n]) = {}
  BY <1>3 DEF S
<1>6. PlanQueued(q, 0) = {}
  BY DEF PlanQueued
<1>7. Ordered(g, q)
  BY <1>2, <1>4, <1>5 DEF Ordered
<1>8. Reached(g, q, 0)
  BY <1>2, <1>3, <1>6 DEF Reached, S
<1> QED
  BY <1>7, <1>8 DEF PlanFree, q, S

(* A turn keeps the order.                                                  *)
LEMMA PlanTurn ==
  ASSUME NEW g, IsFiniteSet(DOMAIN g), NEW n \in Nat, n # 0,
         NEW q, Ordered(g, q), Reached(g, q, n - 1)
  PROVE Ordered(g, PlanOneTurn(g, q, n)) /\ Reached(g, PlanOneTurn(g, q, n), n)
<1>0. q \in Seq(DOMAIN g) /\ Len(q) \in Nat /\ \A k \in 1..Len(q) : q[k] \in DOMAIN g
  BY DEF Ordered
<1>1. CASE n > Len(q)
  <2>1. (1..n) \cap (1..Len(q)) = (1..n-1) \cap (1..Len(q))
    BY <1>0, <1>1
  <2>2. PlanQueued(q, n) = PlanQueued(q, n - 1)
    BY <2>1 DEF PlanQueued
  <2> QED
    BY <1>1, <2>2 DEF PlanOneTurn, Reached
<1>2. CASE n <= Len(q)
  <2> DEFINE S == Plan!Freed(g, q, n)
             f == Plan!SetToSeq(S)
             r == q \o f
  <2>1. PlanOneTurn(g, q, n) = r
    BY <1>0, <1>2 DEF PlanOneTurn
  <2>2. S \subseteq DOMAIN g
    BY DEF Plan!Freed
  <2>3. IsFiniteSet(S)
    BY <2>2, FS_Subset
  <2> HIDE DEF S
  <2>4. /\ f \in Seq(S)
        /\ \A k, m \in 1..Len(f) : f[k] = f[m] => k = m
        /\ \A i \in S : \E k \in 1..Len(f) : f[k] = i
    BY <2>3, PlanSetToSeq
  <2> HIDE DEF f
  <2>5. f \in Seq(DOMAIN g) /\ Len(f) \in Nat /\ \A k \in 1..Len(f) : f[k] \in S
    <3>1. f \in [1..Len(f) -> S] /\ Len(f) \in Nat
      BY <2>4
    <3>2. f \in [1..Len(f) -> DOMAIN g]
      BY <3>1, <2>2
    <3> QED
      BY <3>1, <3>2
  <2>6. /\ r \in Seq(DOMAIN g) /\ Len(r) = Len(q) + Len(f)
        /\ \A k \in 1..Len(q) : r[k] = q[k]
        /\ \A k \in 1..Len(f) : r[Len(q) + k] = f[k]
    BY <1>0, <2>5
  <2> HIDE DEF r
  <2>7. \A k \in 1..Len(r) : k \in 1..Len(q) \/ (k - Len(q) \in 1..Len(f) /\ r[k] = f[k - Len(q)])
    <3>1. ASSUME NEW k \in 1..Len(r), k \notin 1..Len(q)
          PROVE k - Len(q) \in 1..Len(f) /\ k = Len(q) + (k - Len(q))
      BY <3>1, <1>0, <2>5, <2>6
    <3> QED
      BY <3>1, <2>6
  <2>8. n \in 1..Len(q) /\ PlanQueued(q, n) = {q[k] : k \in 1..n}
    <3>1. (1..n) \cap (1..Len(q)) = 1..n /\ n \in 1..Len(q)
      BY <1>0, <1>2
    <3> QED
      BY <3>1 DEF PlanQueued
  <2>9. PlanQueued(r, n) = PlanQueued(q, n)
    <3>1. (1..n) \cap (1..Len(r)) = 1..n /\ \A k \in 1..n : r[k] = q[k]
      BY <1>0, <1>2, <2>5, <2>6
    <3> QED
      BY <3>1, <2>8 DEF PlanQueued
  <2>10. \A i \in S : /\ q[n] \in Plan!Waits(g, i) /\ Plan!Waits(g, i) \subseteq PlanQueued(q, n)
    BY <2>8, <1>0 DEF S, Plan!Freed, Plan!Waits
  <2>11. q[n] \notin PlanQueued(q, n - 1)
    <3>1. \A k \in (1..n-1) \cap (1..Len(q)) : k # n /\ k \in 1..Len(q)
      OBVIOUS
    <3> QED
      BY <3>1, <2>8 DEF Ordered, PlanQueued
  <2>12. \A k \in 1..Len(q) : q[k] \notin S
    <3>1. \A k \in 1..Len(q) : Plan!Waits(g, q[k]) \subseteq PlanQueued(q, n - 1)
      BY <1>0 DEF Reached
    <3> QED
      BY <3>1, <2>10, <2>11
  <2>13. \A k, m \in 1..Len(r) : r[k] = r[m] => k = m
    <3>1. SUFFICES ASSUME NEW k \in 1..Len(r), NEW m \in 1..Len(r), r[k] = r[m] PROVE k = m
      OBVIOUS
    <3>2. CASE k \in 1..Len(q) /\ m \in 1..Len(q)
      BY <3>1, <3>2, <2>6 DEF Ordered
    <3>3. CASE k \notin 1..Len(q) /\ m \notin 1..Len(q)
      <4>1. k - Len(q) \in 1..Len(f) /\ m - Len(q) \in 1..Len(f) /\ f[k - Len(q)] = f[m - Len(q)]
        BY <3>1, <3>3, <2>7
      <4>2. k - Len(q) = m - Len(q)
        BY <4>1, <2>4
      <4> QED
        BY <4>2, <1>0
    <3>4. CASE k \in 1..Len(q) /\ m \notin 1..Len(q)
      BY <3>1, <3>4, <2>5, <2>6, <2>7, <2>12
    <3>5. CASE k \notin 1..Len(q) /\ m \in 1..Len(q)
      BY <3>1, <3>5, <2>5, <2>6, <2>7, <2>12
    <3> QED
      BY <3>2, <3>3, <3>4, <3>5
  <2>14. \A k \in 1..Len(r) : Plan!Waits(g, r[k]) \subseteq {r[j] : j \in 1..k-1}
    <3>1. SUFFICES ASSUME NEW k \in 1..Len(r) PROVE Plan!Waits(g, r[k]) \subseteq {r[j] : j \in 1..k-1}
      OBVIOUS
    <3>2. CASE k \in 1..Len(q)
      <4>1. \A j \in 1..k-1 : r[j] = q[j]
        BY <3>2, <1>0, <2>6
      <4>2. r[k] = q[k] /\ Plan!Waits(g, q[k]) \subseteq {q[j] : j \in 1..k-1}
        BY <3>2, <2>6 DEF Ordered
      <4> QED
        BY <4>1, <4>2
    <3>3. CASE k \notin 1..Len(q)
      <4>1. r[k] \in S
        BY <3>3, <2>5, <2>7
      <4>2. \A j \in 1..n : j \in 1..k-1 /\ r[j] = q[j]
        BY <3>3, <1>0, <1>2, <2>6
      <4> QED
        BY <4>1, <4>2, <2>8, <2>10
    <3> QED
      BY <3>2, <3>3
  <2>15. Reached(g, r, n)
    <3>1. SUFFICES ASSUME NEW i \in DOMAIN g
                   PROVE (\E k \in 1..Len(r) : r[k] = i) <=> Plan!Waits(g, i) \subseteq PlanQueued(q, n)
      BY <2>9 DEF Reached
    <3>2. PlanQueued(q, n) = PlanQueued(q, n - 1) \cup {q[n]}
      <4>1. (1..n) \cap (1..Len(q)) = ((1..n-1) \cap (1..Len(q))) \cup {n}
        BY <2>8, <1>0
      <4> QED
        BY <4>1 DEF PlanQueued
    <3>3. ASSUME NEW k \in 1..Len(r), r[k] = i PROVE Plan!Waits(g, i) \subseteq PlanQueued(q, n)
      <4>1. CASE k \in 1..Len(q)
        BY <4>1, <3>2, <3>3, <2>6 DEF Reached
      <4>2. CASE k \notin 1..Len(q)
        BY <4>2, <3>3, <2>5, <2>7, <2>10
      <4> QED
        BY <4>1, <4>2
    <3>4. ASSUME Plan!Waits(g, i) \subseteq PlanQueued(q, n) PROVE \E k \in 1..Len(r) : r[k] = i
      <4>1. CASE q[n] \in Plan!Waits(g, i)
        <5>1. i \in S
          BY <4>1, <3>4, <2>8 DEF S, Plan!Freed, Plan!Waits
        <5>2. PICK k \in 1..Len(f) : f[k] = i
          BY <5>1, <2>4
        <5>3. Len(q) + k \in 1..Len(r) /\ r[Len(q) + k] = i
          BY <5>2, <2>5, <2>6, <1>0
        <5> QED
          BY <5>3
      <4>2. CASE q[n] \notin Plan!Waits(g, i)
        <5>1. Plan!Waits(g, i) \subseteq PlanQueued(q, n - 1)
          BY <4>2, <3>2, <3>4
        <5>2. PICK k \in 1..Len(q) : q[k] = i
          BY <5>1 DEF Reached
        <5>3. k \in 1..Len(r) /\ r[k] = i
          BY <5>2, <2>5, <2>6, <1>0
        <5> QED
          BY <5>3
      <4> QED
        BY <4>1, <4>2
    <3> QED
      BY <3>3, <3>4
  <2>16. Ordered(g, r)
    BY <2>6, <2>13, <2>14 DEF Ordered
  <2> QED
    BY <2>1, <2>15, <2>16
<1> QED
  BY <1>0, <1>1, <1>2

(* After all turns the queue holds those that wait for its members only.    *)
LEMMA PlanLastQueue ==
  ASSUME NEW g, IsFiniteSet(DOMAIN g)
  PROVE /\ Ordered(g, Plan!topologicalOrder(g))
        /\ Reached(g, Plan!topologicalOrder(g), Cardinality(DOMAIN g))
<1> DEFINE N == Cardinality(DOMAIN g)
           q == Plan!Kahn(g)
           Good(n) == Ordered(g, q[n]) /\ Reached(g, q[n], n)
           T == {n \in 0..N : ~Good(n)}
<1>1. N \in Nat
  BY FS_CardinalityType
<1>2. q = [n \in 0..N |-> IF n = 0 THEN PlanFree(g) ELSE PlanOneTurn(g, q[n - 1], n)]
  BY PlanKahn DEF PlanTurns
<1> HIDE DEF q
<1>3. SUFFICES ASSUME T # {} PROVE FALSE
  <2>1. N \in 0..N
    BY <1>1
  <2> QED
    BY <1>3, <2>1, PlanCardinality DEF Plan!topologicalOrder, q
<1>4. PICK n \in T : \A m \in T : n <= m
  <2>1. T \subseteq Nat
    OBVIOUS
  <2> QED
    BY <1>3, <2>1, PlanLeast
<1>5. CASE n = 0
  <2>1. q[0] = PlanFree(g)
    BY <1>1, <1>2
  <2> QED
    BY <1>4, <1>5, <2>1, PlanFirstQueue
<1>6. CASE n # 0
  <2>1. n \in Nat /\ n - 1 \in 0..N /\ n - 1 \notin T
    BY <1>1, <1>4, <1>6
  <2>2. q[n] = PlanOneTurn(g, q[n - 1], n)
    BY <1>2, <1>4, <1>6
  <2>3. Good(n - 1)
    BY <2>1
  <2>4. Ordered(g, PlanOneTurn(g, q[n - 1], n)) /\ Reached(g, PlanOneTurn(g, q[n - 1], n), n)
    BY <2>1, <2>3, <1>6, PlanTurn
  <2> QED
    BY <1>4, <2>2, <2>4
<1> QED
  BY <1>5, <1>6

(* A queue without repetitions is as long as the set of its members.        *)
LEMMA PlanQueueLength ==
  ASSUME NEW S, IsFiniteSet(S), NEW q \in Seq(S),
         \A m, n \in 1..Len(q) : q[m] = q[n] => m = n
  PROVE /\ Len(q) <= Cardinality(S)
        /\ Len(q) = Cardinality(S) <=> \A i \in S : \E n \in 1..Len(q) : q[n] = i
<1>1. Len(q) \in Nat /\ q \in [1..Len(q) -> S]
  OBVIOUS
<1>2. q \in Injection(1..Len(q), S)
  BY <1>1 DEF Injection, IsInjective, Plan!IsInjective
<1>3. Cardinality(1..Len(q)) = Len(q)
  BY <1>1, FS_Interval
<1>4. q \in Surjection(1..Len(q), S) <=> \A i \in S : \E n \in 1..Len(q) : q[n] = i
  BY <1>1 DEF Surjection
<1> QED
  BY <1>2, <1>3, <1>4, FS_Injection

(* The order of the tasks, for every list of tasks.                         *)
LEMMA PlanOrder ==
  ASSUME NEW g, IsFiniteSet(DOMAIN g)
  PROVE LET order == Plan!topologicalOrder(g)
        IN /\ \A m, n \in 1..Len(order) : order[m] = order[n] => m = n
           /\ \A n \in 1..Len(order) : Plan!Waits(g, order[n]) \subseteq {order[k] : k \in 1..n-1}
           /\ Len(order) = Cardinality(DOMAIN g) <=> Plan!Acyclic(g, DOMAIN g)
<1> DEFINE q == Plan!topologicalOrder(g)
           N == Cardinality(DOMAIN g)
           Full == \A i \in DOMAIN g : \E n \in 1..Len(q) : q[n] = i
<1>1. Ordered(g, q) /\ Reached(g, q, N)
  BY PlanLastQueue
<1> HIDE DEF q
<1>2. /\ Len(q) \in Nat /\ N \in Nat /\ Len(q) <= N
      /\ Len(q) = N <=> Full
  BY <1>1, PlanQueueLength, FS_CardinalityType DEF Ordered
<1>3. PlanQueued(q, N) = {q[k] : k \in 1..Len(q)}
  <2>1. (1..N) \cap (1..Len(q)) = 1..Len(q)
    BY <1>2
  <2> QED
    BY <2>1 DEF PlanQueued
<1>4. ASSUME Full PROVE Plan!Acyclic(g, DOMAIN g)
  <2>1. SUFFICES ASSUME NEW T \in SUBSET DOMAIN g, T # {}
                 PROVE \E i \in T : g[i].deps \cap T = {}
    BY DEF Plan!Acyclic
  <2> DEFINE P == {n \in 1..Len(q) : q[n] \in T}
  <2>2. P # {} /\ P \subseteq Nat
    BY <1>4, <2>1
  <2>3. PICK n \in P : \A m \in P : n <= m
    BY <2>2, PlanLeast
  <2>4. \A k \in 1..n-1 : q[k] \notin T
    BY <2>3, <1>2
  <2>5. g[q[n]].deps \cap T \subseteq Plan!Waits(g, q[n])
    BY <2>1 DEF Plan!Waits
  <2>6. Plan!Waits(g, q[n]) \subseteq {q[k] : k \in 1..n-1}
    BY <1>1 DEF Ordered
  <2> QED
    BY <2>3, <2>4, <2>5, <2>6
<1>5. ASSUME Plan!Acyclic(g, DOMAIN g) PROVE Full
  <2> DEFINE T == {i \in DOMAIN g : ~\E n \in 1..Len(q) : q[n] = i}
  <2>1. SUFFICES ASSUME T # {} PROVE FALSE
    OBVIOUS
  <2>2. PICK i \in T : g[i].deps \cap T = {}
    BY <1>5, <2>1 DEF Plan!Acyclic
  <2>3. Plan!Waits(g, i) \subseteq PlanQueued(q, N)
    BY <2>2, <1>3 DEF Plan!Waits
  <2> QED
    BY <2>2, <2>3, <1>1 DEF Reached
<1> QED
  BY <1>1, <1>2, <1>4, <1>5 DEF Ordered, q

(* The topological order of the tasks is right in every state.              *)
LEMMA PlanOrdered == Plan!TypeOK => Plan!OrderIsTopological
<1> SUFFICES ASSUME Plan!TypeOK PROVE Plan!OrderIsTopological
  OBVIOUS
<1>1. MaxTasks \in Nat
  BY RecordsAssumption DEF Plan!PlanAssumption
<1>2. DOMAIN tasks \subseteq 0..MaxTasks
  BY <1>1 DEF Plan!TypeOK, Plan!IsList, Plan!Ids, Plan!NewTask
<1>3. IsFiniteSet(0..MaxTasks)
  <2>1. 0 \in Int /\ MaxTasks \in Int
    BY <1>1
  <2> QED
    BY <2>1, FS_Interval
<1>4. IsFiniteSet(DOMAIN tasks)
  BY <1>2, <1>3, FS_Subset
<1> QED
  BY <1>4, PlanOrder, PlanCardinality DEF Plan!OrderIsTopological

-----------------------------------------------------------------------------
(* The invariant                                                            *)

(* At the start there is one task, and no call.                             *)
LEMMA PlanStart == Plan!Init => Plan!PlanInv
<1> SUFFICES ASSUME Plan!Init PROVE Plan!PlanInv
  OBVIOUS
<1>1. MaxTasks \in Nat /\ MaxTasks # 0 /\ MaxPlanFaults \in Nat
  BY RecordsAssumption DEF Plan!PlanAssumption
<1> DEFINE first == [status |-> "queued", deps |-> {}]
<1>2. first \in Plan!Task /\ Plan!Mission \in Plan!Ids /\ Plan!Mission # Plan!NewTask
  BY <1>1 DEF Plan!Task, Plan!Statuses, Plan!Mission, Plan!Ids, Plan!NewTask
<1>3. tasks = [i \in {Plan!Mission} |-> first]
  BY DEF Plan!Init
<1>4. DOMAIN tasks = {Plan!Mission} /\ tasks[Plan!Mission] = first /\ first.deps = {}
  BY <1>3
<1>5. TasksType
  BY <1>2, <1>3, <1>4, PlanLists DEF TasksType
<1>6. HeldType
  <2>1. Plan!NoCall \in [op : Plan!Updates \cup Plan!Batches \cup {"none", "create", "complete", "depend", "work"},
                    t : Plan!Ids \cup {0}, d : SUBSET Plan!Ids]
    BY DEF Plan!NoCall
  <2>2. seen = [c \in Plan!Callers |-> seen[c]] /\ \A c \in Plan!Callers : seen[c] = <<>>
    BY DEF Plan!Init
  <2> QED
    BY <2>1, <2>2, PlanLists DEF Plan!Init, HeldType
<1>7. ToldType /\ planFaults \in 0..MaxPlanFaults
  BY <1>1 DEF Plan!Init, ToldType, Plan!NoAnswer
<1>8. Plan!TypeOK
  BY <1>5, <1>6, <1>7, PlanTypeParts
<1>9. /\ \A c \in Plan!Callers : /\ planPc[c] = "idle" /\ call[c] = Plan!NoCall /\ left[c] = {} /\ made[c] = {}
                            /\ seen[c] = <<>> /\ DOMAIN seen[c] = {}
      /\ \A a \in Agents : a \in Plan!Callers /\ told[a] = Plan!NoAnswer
      /\ \A w \in Requests : w \in Plan!Callers
  BY DEF Plan!Init, Plan!Callers
<1>10. Plan!DependenciesExist /\ Plan!SeenExist /\ Plan!CallsInStep /\ Plan!ReadsHold /\ Plan!RequestsComplete
  BY <1>4, <1>9 DEF Plan!DependenciesExist, Plan!SeenExist, Plan!CallsInStep, Plan!ReadsHold, Plan!RequestsComplete, Plan!NoCall
<1>11. Plan!Acyclic(tasks, Plan!Open(tasks))
  BY <1>4 DEF Plan!Acyclic, Plan!Open
<1>12. \A a \in Agents : Sound(seen[a], tasks)
  BY <1>9, <1>11, PlanApart
<1>13. Plan!ViewsHold
  BY <1>12, PlanView DEF Plan!ViewsHold, Sound
<1>14. Plan!DoneIsLogged
  BY <1>9 DEF Plan!DoneIsLogged, Plan!NoAnswer
<1> QED
  BY <1>8, <1>10, <1>11, <1>13, <1>14 DEF Plan!PlanInv, Plan!NoneWaitInCircle

(* What is done is on record.                                               *)
LEMMA PlanLogged ==
  ASSUME Plan!TypeOK, Plan!DoneIsLogged, Plan!Next
  PROVE Plan!DoneIsLogged'
<1>1. \/ UNCHANGED told
      \/ \E c \in Plan!Callers : told' = [told EXCEPT ![c] = Plan!NoAnswer]
      \/ \E c \in Plan!Callers, recorded \in BOOLEAN : Plan!Audit(c, recorded)
  BY DEF Plan!Next, Plan!Ask, Plan!ReadFile, Plan!Create, Plan!Update, Plan!Complete, Plan!Depend, Plan!Save, Plan!SaveFails, Plan!ReadNote
<1>2. CASE UNCHANGED told
  BY <1>2 DEF Plan!DoneIsLogged
<1>3. ASSUME NEW c \in Plan!Callers, told' = [told EXCEPT ![c] = Plan!NoAnswer] PROVE Plan!DoneIsLogged'
  <2>1. \A a \in Agents : told'[a] = told[a] \/ told'[a] = Plan!NoAnswer
    BY <1>3 DEF Plan!TypeOK
  <2>2. ~Plan!NoAnswer.success
    BY DEF Plan!NoAnswer
  <2> HIDE DEF Plan!NoAnswer
  <2> QED
    BY <2>1, <2>2 DEF Plan!DoneIsLogged
<1>4. ASSUME NEW c \in Plan!Callers, NEW recorded \in BOOLEAN, Plan!Audit(c, recorded) PROVE Plan!DoneIsLogged'
  <2> DEFINE answer == [success |-> Plan!Success(planPc[c] = "audit", recorded), recoverable |-> ~(planPc[c] = "audit"),
                        logged |-> recorded, did |-> did[c]]
  <2>1. told' = [told EXCEPT ![c] = answer]
    BY <1>4 DEF Plan!Audit
  <2>2. answer.success => answer.logged
    BY DEF Plan!Success
  <2> HIDE DEF answer
  <2>3. \A a \in Agents : told'[a] = told[a] \/ told'[a] = answer
    BY <2>1 DEF Plan!TypeOK
  <2> QED
    BY <2>2, <2>3 DEF Plan!DoneIsLogged
<1> QED
  BY <1>1, <1>2, <1>3, <1>4

(* Each step keeps the invariant.                                            *)
LEMMA PlanStep ==
  ASSUME Plan!OneAgent, Plan!PlanInv, Plan!Next
  PROVE Plan!PlanInv'
<1>0. /\ Plan!TypeOK /\ Plan!DependenciesExist /\ Plan!SeenExist /\ Plan!CallsInStep /\ Plan!ReadsHold
      /\ Plan!RequestsComplete /\ Plan!NoneWaitInCircle /\ Plan!ViewsHold /\ Plan!DoneIsLogged
  BY DEF Plan!PlanInv
<1>1. Plan!TypeOK'
  BY <1>0, PlanSteps
<1>2. PICK c \in Plan!Callers : Does(c)
  BY <1>0, PlanSteps
<1>3. Plan!DependenciesExist' /\ Plan!SeenExist' /\ Plan!CallsInStep' /\ Plan!RequestsComplete' /\ Plan!DoneIsLogged'
  BY <1>0, <1>1, <1>2, PlanGrows, PlanSeenExist, PlanInStep, PlanRequests, PlanLogged
<1>4. \A a \in Agents : ReadsAt(a)
  BY <1>0 DEF Plan!ReadsHold, ReadsAt
<1>5. \A a \in Agents : Sound(seen[a], tasks)
  BY <1>0, PlanView DEF Plan!ViewsHold, Sound
<1>6. Plan!Acyclic(tasks, Plan!Open(tasks))
  BY <1>0 DEF Plan!NoneWaitInCircle
<1>7. Sound(<<>>, tasks)
  BY <1>6, PlanApart
<1>8. Plan!Acyclic(tasks', Plan!Open(tasks'))
  <2>1. CASE c \in Agents
    BY <1>0, <1>2, <1>4, <1>5, <1>6, <2>1, PlanCircleOwn
  <2>2. CASE c \notin Agents
    <3>1. Sound(<<>>, tasks')
      BY <1>0, <1>2, <1>7, <2>2, PlanFilesBeside
    <3>2. /\ Plan!Open(Over(<<>>, tasks')) = Plan!Open(tasks')
          /\ \A i \in Plan!Open(tasks') : Over(<<>>, tasks')[i] = tasks'[i]
      BY PlanOpen DEF Plan!Open
    <3> QED
      BY <3>1, <3>2, PlanFewer DEF Sound
  <2> QED
    BY <2>1, <2>2
<1>9. ASSUME NEW a \in Agents PROVE ReadsAt(a)' /\ Sound(seen'[a], tasks')
  <2>1. CASE c = a
    BY <1>0, <1>2, <1>4, <1>5, <1>6, <2>1, PlanReadsOwn, PlanCircleOwn
  <2>2. CASE c # a
    <3>1. c \notin Agents /\ a \in Plan!Callers \ {c}
      BY <2>2 DEF Plan!OneAgent, Plan!Callers
    <3>2. seen'[a] = seen[a]
      BY <1>2, <3>1 DEF Does, Starts, Reads, Keeps, Quits, SavesOn, Audits, Notes, Ends, Stays, Others
    <3>3. /\ DOMAIN seen[a] \subseteq DOMAIN tasks \cup {Plan!NewTask}
          /\ \A i \in DOMAIN seen[a] : seen[a][i].deps \subseteq DOMAIN tasks
      BY <1>0, <3>1 DEF Plan!SeenExist
    <3>4. ReadsAt(a)'
      BY <1>0, <1>2, <1>4, <3>1, PlanReadsBeside
    <3>5. Sound(seen[a], tasks')
      BY <1>0, <1>2, <1>5, <3>1, <3>3, PlanFilesBeside
    <3> QED
      BY <3>2, <3>4, <3>5
  <2> QED
    BY <2>1, <2>2
<1>10. Plan!ReadsHold'
  BY <1>9 DEF Plan!ReadsHold, ReadsAt
<1>11. Plan!ViewsHold'
  BY <1>9, PlanView DEF Plan!ViewsHold, Sound
<1> QED
  BY <1>1, <1>3, <1>8, <1>10, <1>11 DEF Plan!PlanInv, Plan!NoneWaitInCircle

(* A step that changes nothing keeps the invariant.                          *)
LEMMA PlanStays == Plan!PlanInv /\ UNCHANGED Plan!vars => Plan!PlanInv'
<1> SUFFICES ASSUME Plan!PlanInv, UNCHANGED Plan!vars PROVE Plan!PlanInv'
  OBVIOUS
<1>1. /\ tasks' = tasks /\ planPc' = planPc /\ call' = call /\ left' = left /\ seen' = seen
      /\ made' = made /\ did' = did /\ told' = told /\ planFaults' = planFaults
  BY DEF Plan!vars, Plan!held
<1>2. Plan!TypeOK'
  BY <1>1 DEF Plan!PlanInv, Plan!TypeOK
<1>3. Plan!DependenciesExist' /\ Plan!SeenExist'
  BY <1>1 DEF Plan!PlanInv, Plan!DependenciesExist, Plan!SeenExist
<1>4. Plan!CallsInStep'
  BY <1>1 DEF Plan!PlanInv, Plan!CallsInStep
<1>5. Plan!ReadsHold'
  BY <1>1, Zenon DEF Plan!PlanInv, Plan!ReadsHold
<1>6. Plan!RequestsComplete'
  BY <1>1 DEF Plan!PlanInv, Plan!RequestsComplete
<1>7. Plan!NoneWaitInCircle'
  BY <1>1, Zenon DEF Plan!PlanInv, Plan!NoneWaitInCircle
<1>8. \A a \in Agents : Plan!View(a)' = Plan!View(a)
  BY <1>1, Zenon DEF Plan!View
<1>9. Plan!ViewsHold'
  BY <1>1, <1>8, Zenon DEF Plan!PlanInv, Plan!ViewsHold
<1>10. Plan!DoneIsLogged'
  BY <1>1 DEF Plan!PlanInv, Plan!DoneIsLogged
<1> QED
  BY <1>2, <1>3, <1>4, <1>5, <1>6, <1>7, <1>9, <1>10 DEF Plan!PlanInv

(* The plan of a goal with one agent, whatever the window does beside it.   *)
THEOREM PlanInvariant ==
  ASSUME Plan!OneAgent
  PROVE Plan!Spec => []Plan!PlanInv
<1>1. Plan!PlanInv /\ [Plan!Next]_(Plan!vars) => Plan!PlanInv'
  BY PlanStep, PlanStays
<1> QED
  BY <1>1, PlanStart, PTL DEF Plan!Spec

(* With one agent at work, the tasks of a goal can be done in an order, each *)
(* depends on tasks there are, and each answered call is on record (task-    *)
(* plan).                                                                    *)
THEOREM PlanIsKept ==
  ASSUME Plan!OneAgent
  PROVE Plan!Spec => []Plan!PlanHolds
<1>1. Plan!PlanInv => Plan!PlanHolds
  BY PlanOrdered DEF Plan!PlanInv, Plan!PlanHolds
<1> QED
  BY <1>1, PlanInvariant, PTL

(***************************************************************************)
(* The transcripts of a conversation.                                      *)
(***************************************************************************)

-----------------------------------------------------------------------------
(* Entries and lines                                                        *)

(* A set of numbers up to n that is not empty has a greatest.                *)
LEMMA TreesGreatest ==
  ASSUME NEW n \in Nat, NEW T \in SUBSET (1 .. n), T # {}
  PROVE \E x \in T : \A y \in T : y <= x
<1> DEFINE D == {n - x : x \in T}
<1>1. \A x \in T : n - x \in Nat
  OBVIOUS
<1>2. D \in SUBSET Nat /\ D # {}
  BY <1>1
<1> HIDE DEF D
<1>4. PICK d \in D : \A e \in D : d <= e
  BY <1>2, PlanLeast
<1>5. PICK x \in T : d = n - x
  BY DEF D
<1>6. \A y \in T : n - x <= n - y
  BY <1>4, <1>5 DEF D
<1>7. \A y \in T : y <= x
  BY <1>6
<1> QED
  BY <1>7

(* The entries of a file, by their places in it.                            *)
LEMMA TreesEntries ==
  ASSUME Trees!TypeOK, NEW c \in Trees!Convs
  PROVE /\ Trees!Entries(c) = {file[c][i] : i \in 1 .. Len(file[c])}
        /\ Trees!Entries(c) \subseteq Trees!EntryRecord /\ file[c] \in Seq(Trees!EntryRecord) /\ treesLog[c] \in Seq(Trees!Lines)
        /\ Trees!ToSet(treesLog[c]) = {treesLog[c][i] : i \in 1 .. Len(treesLog[c])}
        /\ Trees!NoLeaf \in Trees!EntryRecord /\ Trees!Leaf(c) \in Trees!EntryRecord
<1>1. file[c] \in Seq(Trees!EntryRecord) /\ treesLog[c] \in Seq(Trees!Lines)
  BY DEF Trees!TypeOK
<1>2. Trees!NoLeaf \in Trees!EntryRecord
  BY DEF Trees!NoLeaf, Trees!EntryRecord, Trees!Kinds
<1>3. DOMAIN file[c] = 1 .. Len(file[c]) /\ DOMAIN treesLog[c] = 1 .. Len(treesLog[c])
  BY <1>1
<1>4. Trees!Entries(c) = {file[c][i] : i \in 1 .. Len(file[c])}
      /\ Trees!ToSet(treesLog[c]) = {treesLog[c][i] : i \in 1 .. Len(treesLog[c])}
  BY <1>3 DEF Trees!Entries, Trees!ToSet
<1>5. \A i \in 1 .. Len(file[c]) : file[c][i] \in Trees!EntryRecord
  BY <1>1
<1>6. Trees!Leaf(c) \in Trees!EntryRecord
  <2>1. CASE file[c] = <<>>
    BY <1>2, <2>1 DEF Trees!Leaf
  <2>2. CASE file[c] # <<>>
    BY <1>1, <2>2 DEF Trees!Leaf, Trees!Last
  <2> QED
    BY <2>1, <2>2
<1> QED
  BY <1>1, <1>2, <1>4, <1>5, <1>6

(* The last prompt of a message that was prompted.                          *)
LEMMA TreesLastPrompt ==
  ASSUME Trees!TypeOK, Trees!Chained, NEW r \in TreeRuns, Trees!Prompts(r) # {}
  PROVE Trees!LastOf(Trees!Prompts(r)) \in Trees!Prompts(r)
<1> DEFINE s == file["source"]
           T == {i \in 1 .. Len(s) : s[i] \in Trees!Prompts(r)}
<1>1. s \in Seq(Trees!EntryRecord) /\ Trees!Entries("source") = {s[i] : i \in 1 .. Len(s)}
  BY TreesEntries DEF Trees!Convs
<1>2. T # {} /\ T \in SUBSET (1 .. Len(s)) /\ Len(s) \in Nat
  BY <1>1 DEF Trees!Prompts
<1>3. PICK x \in T : \A y \in T : y <= x
  BY <1>2, TreesGreatest
<1>4. \A o \in Trees!Prompts(r) : \E y \in T : o = s[y]
  BY <1>1 DEF Trees!Prompts
<1>5. \A y \in T : s[y].id <= s[x].id
  <2>1. \A y \in T : y < x => s[y].id < s[x].id
    BY <1>1, <1>2 DEF Trees!Chained
  <2>2. \A y \in T : s[y].id \in Nat
    <3>1. \A y \in 1 .. Len(s) : s[y] \in Trees!EntryRecord
      BY <1>1
    <3>2. \A e \in Trees!EntryRecord : e.id \in Nat
      BY DEF Trees!EntryRecord
    <3> QED
      BY <1>2, <3>1, <3>2
  <2> HIDE DEF T
  <2>3. \A y \in T : y < x \/ y = x
    BY <1>2, <1>3
  <2> QED
    BY <2>1, <2>2, <2>3
<1>6. s[x] \in Trees!Prompts(r) /\ \A o \in Trees!Prompts(r) : o.id <= s[x].id
  BY <1>4, <1>5
<1> QED
  BY <1>6 DEF Trees!LastOf

(* The path of the leaf of the source is all of it.                         *)
LEMMA TreesLeaf ==
  ASSUME Trees!TypeOK, Trees!Chained
  PROVE Trees!Leaf("source").anc = {file["source"][j].id : j \in 1 .. Len(file["source"])}
<1> DEFINE s == file["source"]
<1>1. s \in Seq(Trees!EntryRecord)
  BY TreesEntries DEF Trees!Convs
<1>2. CASE s = <<>>
  BY <1>1, <1>2 DEF Trees!Leaf, Trees!NoLeaf
<1>3. CASE s # <<>>
  BY <1>1, <1>3 DEF Trees!Leaf, Trees!Last, Trees!Chained
<1> QED
  BY <1>2, <1>3

-----------------------------------------------------------------------------
(* What the steps change                                                    *)

Alone(r) == \A o \in TreeRuns : o # r => run'[o] = run[o] /\ handler'[o] = handler[o]

(* An entry of its run is appended to the source.                           *)
Appends(r, e, at, again) ==
  /\ e \in Trees!EntryRecord /\ e.id = ids + 1 /\ e.anc = run[r].leaf.anc \cup {ids + 1} /\ e.msg = r
  /\ file'["source"] = Append(file["source"], e) /\ file'["fork"] = file["fork"]
  /\ ids' = ids + 1 /\ treesLog' = treesLog /\ fork' = fork /\ Alone(r)
  /\ run'[r].leaf = e /\ run'[r].again = again
  /\ run'[r].at = IF handler[r] = "failed" THEN "failing" ELSE at

(* An append of a run and what it leaves of the other fields.                *)
LEMMA TreesExtend ==
  ASSUME Trees!TypeOK, NEW r \in TreeRuns, NEW kind \in Trees!Kinds, NEW of \in Nat,
         NEW at \in Trees!Inside \cup {"ended"}, NEW again \in {"no", "due", "yes"},
         Trees!Extend(r, kind, of, at, again), UNCHANGED <<torn, treesLog, fork, forks, treesCrashes>>,
         lock' \in TreeRuns \cup {"none", "fork"},
         handler' \in [TreeRuns -> {"new", "waiting", "replied", "done", "failed"}],
         \A o \in TreeRuns : o # r => handler'[o] = handler[o]
  PROVE Trees!TypeOK' /\ \E e \in Trees!EntryRecord : Appends(r, e, at, again) /\ e.kind = kind
<1> DEFINE e == Trees!Child(run[r].leaf, kind, r, of)
           next == IF handler[r] = "failed" THEN "failing" ELSE at
           R == [at : Trees!Inside \cup {"new", "wait", "ended"}, leaf : Trees!EntryRecord, again : {"no", "due", "yes"}]
           p == [at |-> next, leaf |-> e, again |-> again]
<1>1. run[r] \in R /\ run \in [TreeRuns -> R] /\ ids \in Nat /\ file \in [Trees!Convs -> Seq(Trees!EntryRecord)]
      /\ "source" \in Trees!Convs /\ "fork" \in Trees!Convs
  BY DEF Trees!TypeOK, Trees!Convs
<1>2. run[r].leaf \in Trees!EntryRecord /\ run[r].leaf.anc \in SUBSET Nat
  BY <1>1 DEF Trees!EntryRecord
<1>3. /\ e \in Trees!EntryRecord /\ e.id = ids + 1 /\ e.anc = run[r].leaf.anc \cup {ids + 1}
      /\ e.msg = r /\ e.kind = kind
  BY <1>1, <1>2 DEF Trees!Child, Trees!EntryRecord
<1>4. /\ file' = [file EXCEPT !["source"] = Append(@, e)] /\ ids' = ids + 1
      /\ run' = [run EXCEPT ![r] = p]
  BY DEF Trees!Extend
<1> HIDE DEF e
<1>5. p \in R /\ p.at = next /\ p.leaf = e /\ p.again = again
  BY <1>3 DEF Trees!Inside
<1> HIDE DEF p, R, next
<1>6. /\ run' \in [TreeRuns -> R] /\ run'[r] = p /\ \A o \in TreeRuns : o # r => run'[o] = run[o]
  BY <1>1, <1>4, <1>5
<1>7. /\ file'["source"] = Append(file["source"], e) /\ file'["fork"] = file["fork"]
      /\ file' \in [Trees!Convs -> Seq(Trees!EntryRecord)]
  BY <1>1, <1>3, <1>4
<1>8. Trees!TypeOK'
  <2>1. run' \in [TreeRuns -> [at : Trees!Inside \cup {"new", "wait", "ended"}, leaf : Trees!EntryRecord,
                       again : {"no", "due", "yes"}]]
    BY <1>6 DEF R
  <2> QED
    BY <1>1, <1>4, <1>7, <2>1 DEF Trees!TypeOK
<1>9. Appends(r, e, at, again)
  BY <1>3, <1>4, <1>5, <1>6, <1>7 DEF Appends, Alone, next
<1> QED
  BY <1>3, <1>8, <1>9

(* A step of a run or of its handler that appends no entry.                 *)
Turns(r, at, handled) ==
  /\ run'[r].at = at /\ run'[r].again = run[r].again /\ handler'[r] = handled /\ Alone(r)

(* A message is posted.                                                      *)
LEMMA TreesPost ==
  ASSUME Trees!TypeOK, NEW r \in TreeRuns, Trees!Post(r)
  PROVE /\ Trees!TypeOK' /\ Turns(r, "wait", "waiting") /\ run'[r].leaf = run[r].leaf
        /\ treesLog'["source"] = Append(treesLog["source"], Trees!Line(r, "user")) /\ treesLog'["fork"] = treesLog["fork"]
        /\ UNCHANGED <<file, torn, lock, fork, ids, forks, treesCrashes>>
<1>1. Trees!Line(r, "user") \in Trees!Lines /\ "source" \in Trees!Convs /\ "fork" \in Trees!Convs
  BY DEF Trees!Line, Trees!Lines, Trees!Convs
<1>2. treesLog' = [treesLog EXCEPT !["source"] = Append(@, Trees!Line(r, "user"))]
      /\ handler' = [handler EXCEPT ![r] = "waiting"] /\ run' = [run EXCEPT ![r].at = "wait"]
  BY DEF Trees!Post
<1>3. treesLog' \in [Trees!Convs -> Seq(Trees!Lines)] /\ treesLog'["source"] = Append(treesLog["source"], Trees!Line(r, "user"))
      /\ treesLog'["fork"] = treesLog["fork"]
  BY <1>1, <1>2 DEF Trees!TypeOK
<1>4. run' \in [TreeRuns -> [at : Trees!Inside \cup {"new", "wait", "ended"}, leaf : Trees!EntryRecord,
                       again : {"no", "due", "yes"}]]
  BY <1>2 DEF Trees!TypeOK
<1> QED
  BY <1>2, <1>3, <1>4 DEF Trees!Post, Trees!TypeOK, Turns, Alone

(* An answer is delivered.                                                   *)
LEMMA TreesAnswer ==
  ASSUME Trees!TypeOK, NEW r \in TreeRuns, Trees!Answer(r)
  PROVE /\ Trees!TypeOK' /\ handler'[r] = "done"
        /\ \A o \in TreeRuns : o # r => handler'[o] = handler[o]
        /\ treesLog'["source"] = Append(treesLog["source"], Trees!Line(r, "assistant")) /\ treesLog'["fork"] = treesLog["fork"]
        /\ UNCHANGED <<file, torn, lock, run, fork, ids, forks, treesCrashes>>
<1>1. Trees!Line(r, "assistant") \in Trees!Lines /\ "source" \in Trees!Convs /\ "fork" \in Trees!Convs
  BY DEF Trees!Line, Trees!Lines, Trees!Convs
<1>2. treesLog' = [treesLog EXCEPT !["source"] = Append(@, Trees!Line(r, "assistant"))]
      /\ handler' = [handler EXCEPT ![r] = "done"]
  BY DEF Trees!Answer
<1>3. treesLog' \in [Trees!Convs -> Seq(Trees!Lines)]
      /\ treesLog'["source"] = Append(treesLog["source"], Trees!Line(r, "assistant")) /\ treesLog'["fork"] = treesLog["fork"]
  BY <1>1, <1>2 DEF Trees!TypeOK
<1> QED
  BY <1>2, <1>3 DEF Trees!Answer, Trees!TypeOK

(* A message misses its deadline.                                            *)
LEMMA TreesDeadline ==
  ASSUME Trees!TypeOK, NEW r \in TreeRuns, Trees!Deadline(r)
  PROVE /\ Trees!TypeOK' /\ handler[r] = "waiting" /\ handler'[r] = "failed"
        /\ \A o \in TreeRuns : o # r => handler'[o] = handler[o]
        /\ UNCHANGED <<file, torn, treesLog, lock, run, fork, ids, forks, treesCrashes>>
  BY DEF Trees!Deadline, Trees!TypeOK

(* A run opens its session, or finds that it should not.                     *)
LEMMA TreesOpen ==
  ASSUME Trees!TypeOK, NEW r \in TreeRuns, Trees!Open(r)
  PROVE /\ Trees!TypeOK' /\ run[r].at = "wait" /\ lock = "none"
        /\ \/ Turns(r, "ended", "failed") /\ lock' = "none"
           \/ /\ Turns(r, "prompt", handler[r]) /\ lock' = r /\ run'[r].leaf = Trees!Leaf("source")
              /\ handler[r] # "failed"
        /\ UNCHANGED <<file, torn, treesLog, fork, ids, forks, treesCrashes>>
<1>0. run[r].at = "wait" /\ lock = "none" /\ UNCHANGED <<file, torn, treesLog, fork, ids, forks, treesCrashes>>
  BY DEF Trees!Open, Trees!Free
<1>1. CASE run' = [run EXCEPT ![r].at = "ended"] /\ handler' = [handler EXCEPT ![r] = "failed"]
           /\ UNCHANGED lock
  <2>1. run' \in [TreeRuns -> [at : Trees!Inside \cup {"new", "wait", "ended"}, leaf : Trees!EntryRecord,
                       again : {"no", "due", "yes"}]]
    BY <1>1 DEF Trees!TypeOK
  <2> QED
    BY <1>0, <1>1, <2>1 DEF Trees!TypeOK, Turns, Alone
<1>2. CASE run' = [run EXCEPT ![r].at = "prompt", ![r].leaf = Trees!Leaf("source")] /\ lock' = r
           /\ UNCHANGED handler /\ handler[r] # "failed"
  <2> DEFINE R == [at : Trees!Inside \cup {"new", "wait", "ended"}, leaf : Trees!EntryRecord, again : {"no", "due", "yes"}]
             p == [run[r] EXCEPT !.at = "prompt", !.leaf = Trees!Leaf("source")]
  <2>1. run \in [TreeRuns -> R] /\ run[r] \in R /\ Trees!Leaf("source") \in Trees!EntryRecord
    BY TreesEntries DEF Trees!TypeOK, Trees!Convs
  <2>2. p \in R /\ p.at = "prompt" /\ p.leaf = Trees!Leaf("source") /\ p.again = run[r].again
    BY <2>1 DEF Trees!Inside
  <2>3. run' = [run EXCEPT ![r] = p]
    BY <1>2
  <2> HIDE DEF p, R
  <2>4. run' \in [TreeRuns -> R] /\ run'[r] = p /\ \A o \in TreeRuns : o # r => run'[o] = run[o]
    BY <2>1, <2>2, <2>3
  <2>5. run' \in [TreeRuns -> [at : Trees!Inside \cup {"new", "wait", "ended"}, leaf : Trees!EntryRecord,
                       again : {"no", "due", "yes"}]]
    BY <2>4 DEF R
  <2> QED
    BY <1>0, <1>2, <2>2, <2>4, <2>5 DEF Trees!TypeOK, Turns, Alone
<1> QED
  BY <1>1, <1>2 DEF Trees!Open

(* A run fails and lets go of the lock.                                      *)
LEMMA TreesFails ==
  ASSUME Trees!TypeOK, NEW r \in TreeRuns, Trees!Fails(r)
  PROVE /\ Trees!TypeOK' /\ run[r].at \in Trees!Inside /\ lock' = IF lock = r THEN "none" ELSE lock
        /\ Turns(r, "ended", IF handler[r] = "waiting" THEN "failed" ELSE handler[r])
        /\ UNCHANGED <<file, torn, treesLog, fork, ids, forks, treesCrashes>>
<1>1. run' = [run EXCEPT ![r].at = "ended"] /\ run[r].at \in {"prompt", "reply", "label", "failing"}
      /\ UNCHANGED <<file, torn, treesLog, fork, ids, forks, treesCrashes>>
  BY DEF Trees!Fails
<1>2. lock' = IF lock = r THEN "none" ELSE lock
  BY DEF Trees!Fails, Trees!Release
<1>3. handler' = [handler EXCEPT ![r] = IF handler[r] = "waiting" THEN "failed" ELSE handler[r]]
  BY DEF Trees!Fails
<1>4. run' \in [TreeRuns -> [at : Trees!Inside \cup {"new", "wait", "ended"}, leaf : Trees!EntryRecord,
                       again : {"no", "due", "yes"}]]
  BY <1>1 DEF Trees!TypeOK
<1>5. handler' \in [TreeRuns -> {"new", "waiting", "replied", "done", "failed"}]
      /\ handler'[r] = (IF handler[r] = "waiting" THEN "failed" ELSE handler[r])
      /\ \A o \in TreeRuns : o # r => handler'[o] = handler[o]
  <2> DEFINE x == IF handler[r] = "waiting" THEN "failed" ELSE handler[r]
             H == {"new", "waiting", "replied", "done", "failed"}
  <2>1. handler \in [TreeRuns -> H] /\ handler[r] \in H
    BY DEF Trees!TypeOK
  <2>2. x \in H /\ handler' = [handler EXCEPT ![r] = x]
    BY <1>3, <2>1
  <2> HIDE DEF x, H
  <2>3. handler' \in [TreeRuns -> H] /\ handler'[r] = x /\ \A o \in TreeRuns : o # r => handler'[o] = handler[o]
    BY <2>1, <2>2
  <2> QED
    BY <2>3 DEF x, H
<1>6. run'[r].at = "ended" /\ run'[r].again = run[r].again
      /\ \A o \in TreeRuns : o # r => run'[o] = run[o]
  BY <1>1 DEF Trees!TypeOK
<1>7. Trees!TypeOK'
  BY <1>1, <1>2, <1>4, <1>5 DEF Trees!TypeOK
<1>8. Turns(r, "ended", IF handler[r] = "waiting" THEN "failed" ELSE handler[r])
  BY <1>5, <1>6 DEF Turns, Alone
<1>9. run[r].at \in Trees!Inside
  BY <1>1 DEF Trees!Inside
<1> QED
  BY <1>1, <1>2, <1>7, <1>8, <1>9

(* The first of some entries.                                               *)
LEMMA TreesFirst ==
  ASSUME NEW S \in SUBSET Trees!EntryRecord, S # {}
  PROVE Trees!FirstOf(S) \in S /\ \A o \in S : Trees!FirstOf(S).id <= o.id
<1> DEFINE D == {e.id : e \in S}
<1>1. \A e \in S : e.id \in Nat
  BY DEF Trees!EntryRecord
<1>2. D \subseteq Nat /\ D # {}
  BY <1>1
<1> HIDE DEF D
<1>3. PICK d \in D : \A x \in D : d <= x
  BY <1>2, PlanLeast
<1>4. PICK e \in S : d = e.id
  BY DEF D
<1>5. \A o \in S : e.id <= o.id
  BY <1>3, <1>4 DEF D
<1> QED
  BY <1>5 DEF Trees!FirstOf

(* A fork takes the lock and reads the transcript.                          *)
LEMMA TreesBeginFork ==
  ASSUME Trees!TypeOK, NEW m \in TreeRuns, NEW role \in {"user", "assistant"}, Trees!BeginFork(m, role)
  PROVE /\ Trees!TypeOK' /\ fork.at = "none" /\ lock = "none" /\ lock' = "fork"
        /\ fork'.at = "resolve" /\ fork'.message = m /\ fork'.role = role
        /\ fork'.log = treesLog["source"] /\ fork'.todo = {}
        /\ Trees!Line(m, role) \in Trees!ToSet(treesLog["source"])
        /\ UNCHANGED <<file, torn, treesLog, run, handler, ids, treesCrashes>>
<1> DEFINE x == [at |-> "resolve", message |-> m, role |-> role, log |-> treesLog["source"], todo |-> {}]
<1>1. fork' = x
  BY DEF Trees!BeginFork, Trees!NoFork
<1>2. treesLog["source"] \in Seq(Trees!Lines)
  BY DEF Trees!TypeOK, Trees!Convs
<1>3. x \in [at : {"none", "resolve", "copy", "lines", "done"}, message : TreeRuns \cup {"none"},
             role : {"user", "assistant", "none"}, log : Seq(Trees!Lines), todo : SUBSET Trees!EntryRecord]
  BY <1>2
<1>4. /\ fork.at = "none" /\ lock = "none" /\ lock' = "fork" /\ forks' = forks + 1
      /\ Trees!Line(m, role) \in Trees!ToSet(treesLog["source"])
      /\ UNCHANGED <<file, torn, treesLog, run, handler, ids, treesCrashes>>
  BY DEF Trees!BeginFork, Trees!Free
<1>5. /\ fork'.at = "resolve" /\ fork'.message = m /\ fork'.role = role
      /\ fork'.log = treesLog["source"] /\ fork'.todo = {}
  BY <1>1
<1> HIDE DEF x
<1>6. Trees!TypeOK'
  BY <1>1, <1>3, <1>4 DEF Trees!TypeOK
<1> QED
  BY <1>4, <1>5, <1>6

(* Where a fork changes what it still copies and nothing else.              *)
Forks(at, todo) ==
  /\ fork'.at = at /\ fork'.todo = todo
  /\ fork'.message = fork.message /\ fork'.role = fork.role /\ fork'.log = fork.log

(* The fields of a fork, one by one.                                        *)
LEMMA TreesFork ==
  ASSUME Trees!TypeOK, NEW at \in {"none", "resolve", "copy", "lines", "done"}, NEW todo \in SUBSET Trees!EntryRecord,
         fork' = [fork EXCEPT !.at = at, !.todo = todo]
  PROVE /\ Forks(at, todo)
        /\ fork' \in [at : {"none", "resolve", "copy", "lines", "done"}, message : TreeRuns \cup {"none"},
                      role : {"user", "assistant", "none"}, log : Seq(Trees!Lines), todo : SUBSET Trees!EntryRecord]
  BY DEF Forks, Trees!TypeOK

(* A fork finds the branch of its message, or gives up.                     *)
LEMMA TreesResolve ==
  ASSUME Trees!TypeOK, Trees!Resolve
  PROVE /\ Trees!TypeOK' /\ fork.at = "resolve"
        /\ \/ fork' = Trees!NoFork /\ lock' = IF lock = "fork" THEN "none" ELSE lock
           \/ /\ Trees!Branches # {} /\ lock' = lock
              /\ Forks("copy", {e \in Trees!Entries("source") : \E b \in Trees!Branches : e.id \in b})
        /\ UNCHANGED <<file, torn, treesLog, run, handler, ids, forks, treesCrashes>>
<1> DEFINE t == {e \in Trees!Entries("source") : \E b \in Trees!Branches : e.id \in b}
<1>1. t \in SUBSET Trees!EntryRecord
  BY TreesEntries DEF Trees!Convs
<1>2. fork.at = "resolve" /\ UNCHANGED <<file, torn, treesLog, run, handler, ids, forks, treesCrashes>>
  BY DEF Trees!Resolve
<1>3. CASE Trees!Branches = {}
  <2>1. fork' = Trees!NoFork /\ lock' = IF lock = "fork" THEN "none" ELSE lock
    BY <1>3 DEF Trees!Resolve, Trees!Release
  <2>2. Trees!NoFork \in [at : {"none", "resolve", "copy", "lines", "done"}, message : TreeRuns \cup {"none"},
             role : {"user", "assistant", "none"}, log : Seq(Trees!Lines), todo : SUBSET Trees!EntryRecord]
    BY DEF Trees!NoFork
  <2> QED
    BY <1>2, <2>1, <2>2 DEF Trees!TypeOK
<1>4. CASE Trees!Branches # {}
  <2>1. lock' = lock /\ fork' = [fork EXCEPT !.at = "copy", !.todo = t]
    BY <1>4 DEF Trees!Resolve
  <2> HIDE DEF t
  <2>2. /\ Forks("copy", t)
        /\ fork' \in [at : {"none", "resolve", "copy", "lines", "done"}, message : TreeRuns \cup {"none"},
                      role : {"user", "assistant", "none"}, log : Seq(Trees!Lines), todo : SUBSET Trees!EntryRecord]
    BY <1>1, <2>1, TreesFork
  <2>3. Trees!TypeOK'
    BY <1>2, <2>1, <2>2 DEF Trees!TypeOK
  <2> QED
    BY <1>2, <1>4, <2>1, <2>2, <2>3 DEF t
<1> QED
  BY <1>3, <1>4

(* A fork appends an entry to the new file.                                 *)
Placed(e) ==
  /\ e \in Trees!EntryRecord /\ file'["source"] = file["source"]
  /\ file'["fork"] = Append(file["fork"], e)

(* The new file after an entry was appended to it.                           *)
LEMMA TreesPuts ==
  ASSUME Trees!TypeOK, NEW e \in Trees!EntryRecord, file' = [file EXCEPT !["fork"] = Append(@, e)]
  PROVE Placed(e) /\ file' \in [Trees!Convs -> Seq(Trees!EntryRecord)]
  BY DEF Trees!TypeOK, Placed, Trees!Convs

(* One entry is copied.                                                      *)
LEMMA TreesCopy ==
  ASSUME Trees!TypeOK, Trees!Copy
  PROVE /\ Trees!TypeOK' /\ fork.at = "copy" /\ fork.todo # {} /\ Trees!FirstOf(fork.todo) \in fork.todo
        /\ Placed(Trees!FirstOf(fork.todo)) /\ Forks("copy", fork.todo \ {Trees!FirstOf(fork.todo)})
        /\ UNCHANGED <<torn, treesLog, lock, run, handler, ids, forks, treesCrashes>>
<1> DEFINE e == Trees!FirstOf(fork.todo)
           t == fork.todo \ {e}
<1>1. fork.todo \in SUBSET Trees!EntryRecord
  BY DEF Trees!TypeOK
<1>2. fork.at = "copy" /\ fork.todo # {} /\ UNCHANGED <<torn, treesLog, lock, run, handler, ids, forks, treesCrashes>>
  BY DEF Trees!Copy
<1>3. e \in fork.todo /\ e \in Trees!EntryRecord /\ t \in SUBSET Trees!EntryRecord
  BY <1>1, <1>2, TreesFirst
<1>4. file' = [file EXCEPT !["fork"] = Append(@, e)]
  BY DEF Trees!Copy
<1>5. fork' = [fork EXCEPT !.todo = t]
  BY DEF Trees!Copy
<1> HIDE DEF e, t
<1>6. fork' = [fork EXCEPT !.at = "copy", !.todo = t]
  BY <1>2, <1>5 DEF Trees!TypeOK
<1>7. /\ Forks("copy", t)
      /\ fork' \in [at : {"none", "resolve", "copy", "lines", "done"}, message : TreeRuns \cup {"none"},
                    role : {"user", "assistant", "none"}, log : Seq(Trees!Lines), todo : SUBSET Trees!EntryRecord]
  BY <1>3, <1>6, TreesFork
<1>8. Placed(e) /\ file' \in [Trees!Convs -> Seq(Trees!EntryRecord)]
  BY <1>3, <1>4, TreesPuts
<1>9. Trees!TypeOK'
  BY <1>2, <1>7, <1>8 DEF Trees!TypeOK
<1> QED
  BY <1>2, <1>3, <1>7, <1>8, <1>9 DEF t, e

(* The provenance is appended.                                               *)
LEMMA TreesProvenance ==
  ASSUME Trees!TypeOK, Trees!Provenance
  PROVE /\ Trees!TypeOK' /\ fork.at = "copy" /\ fork.todo = {} /\ Forks("lines", {})
        /\ \E e \in Trees!EntryRecord : /\ Placed(e) /\ e.id = ids + 1 /\ e.kind = "provenance"
                            /\ e.anc = Trees!Leaf("fork").anc \cup {ids + 1}
        /\ ids' = ids + 1 /\ UNCHANGED <<torn, treesLog, lock, run, handler, forks, treesCrashes>>
<1> DEFINE e == Trees!Child(Trees!Leaf("fork"), "provenance", "none", 0)
<1>1. Trees!Leaf("fork") \in Trees!EntryRecord /\ ids \in Nat
  BY TreesEntries DEF Trees!TypeOK, Trees!Convs
<1>2. Trees!Leaf("fork").anc \in SUBSET Nat
  BY <1>1 DEF Trees!EntryRecord
<1>3. /\ e \in Trees!EntryRecord /\ e.id = ids + 1 /\ e.kind = "provenance"
      /\ e.anc = Trees!Leaf("fork").anc \cup {ids + 1}
  BY <1>1, <1>2 DEF Trees!Child, Trees!EntryRecord, Trees!Kinds
<1>4. file' = [file EXCEPT !["fork"] = Append(@, e)] /\ ids' = ids + 1
      /\ UNCHANGED <<torn, treesLog, lock, run, handler, forks, treesCrashes>>
  BY DEF Trees!Provenance
<1>5. fork.at = "copy" /\ fork.todo = {} /\ fork' = [fork EXCEPT !.at = "lines"]
  BY DEF Trees!Provenance
<1> HIDE DEF e
<1>6. fork' = [fork EXCEPT !.at = "lines", !.todo = {}]
  BY <1>5 DEF Trees!TypeOK
<1>7. /\ Forks("lines", {})
      /\ fork' \in [at : {"none", "resolve", "copy", "lines", "done"}, message : TreeRuns \cup {"none"},
                    role : {"user", "assistant", "none"}, log : Seq(Trees!Lines), todo : SUBSET Trees!EntryRecord]
  BY <1>6, TreesFork, {} \in SUBSET Trees!EntryRecord
<1>8. Placed(e) /\ file' \in [Trees!Convs -> Seq(Trees!EntryRecord)]
  BY <1>3, <1>4, TreesPuts
<1>9. Trees!TypeOK'
  BY <1>1, <1>4, <1>7, <1>8 DEF Trees!TypeOK
<1> QED
  BY <1>3, <1>4, <1>5, <1>7, <1>8, <1>9

(* Up to where a fork of a message goes.                                    *)
LEMMA TreesUntil ==
  ASSUME Trees!TypeOK, Trees!ForkInStep, fork.at \in {"resolve", "copy", "lines"}
  PROVE /\ Trees!Until \in 1 .. Len(fork.log) /\ fork.log[Trees!Until] = Trees!Line(fork.message, fork.role)
        /\ fork.log \in Seq(Trees!Lines) /\ Len(fork.log) \in Nat /\ Trees!Until \in Nat
<1>1. fork.log \in Seq(Trees!Lines)
  BY DEF Trees!TypeOK
<1>2. \E i \in 1 .. Len(fork.log) : fork.log[i] = Trees!Line(fork.message, fork.role)
  BY DEF Trees!ForkInStep, Trees!ForkReads
<1> QED
  BY <1>1, <1>2 DEF Trees!Until, Trees!At

(* One line is copied, or the fork is done.                                  *)
LEMMA TreesCopyLine ==
  ASSUME Trees!TypeOK, Trees!ForkInStep, Trees!CopyLine
  PROVE /\ Trees!TypeOK' /\ fork.at = "lines"
        /\ \/ /\ Len(treesLog["fork"]) = Trees!Until /\ fork'.at = "done"
              /\ lock' = IF lock = "fork" THEN "none" ELSE lock
              /\ treesLog' = treesLog
           \/ /\ Len(treesLog["fork"]) < Trees!Until /\ treesLog'["source"] = treesLog["source"]
              /\ treesLog'["fork"] = Append(treesLog["fork"], fork.log[Len(treesLog["fork"]) + 1])
              /\ UNCHANGED <<fork, lock>>
        /\ UNCHANGED <<file, torn, run, handler, ids, forks, treesCrashes>>
<1>1. fork.at = "lines" /\ UNCHANGED <<file, torn, run, handler, ids, forks, treesCrashes>>
  BY DEF Trees!CopyLine
<1>2. Len(treesLog["fork"]) <= Trees!Until
  BY <1>1 DEF Trees!ForkInStep, Trees!ForkLines
<1>3. treesLog["fork"] \in Seq(Trees!Lines) /\ treesLog \in [Trees!Convs -> Seq(Trees!Lines)] /\ "fork" \in Trees!Convs /\ "source" \in Trees!Convs
  BY DEF Trees!TypeOK, Trees!Convs
<1>4. CASE Len(treesLog["fork"]) = Trees!Until
  <2> DEFINE x == [at |-> "done", message |-> "none", role |-> "none", log |-> <<>>, todo |-> {}]
  <2>1. fork' = x /\ lock' = (IF lock = "fork" THEN "none" ELSE lock) /\ treesLog' = treesLog
    BY <1>4 DEF Trees!CopyLine, Trees!Until, Trees!NoFork, Trees!Release
  <2>2. x \in [at : {"none", "resolve", "copy", "lines", "done"}, message : TreeRuns \cup {"none"},
               role : {"user", "assistant", "none"}, log : Seq(Trees!Lines), todo : SUBSET Trees!EntryRecord]
    OBVIOUS
  <2> QED
    BY <1>1, <1>4, <2>1, <2>2 DEF Trees!TypeOK
<1>5. CASE Len(treesLog["fork"]) # Trees!Until
  <2>1. treesLog' = [treesLog EXCEPT !["fork"] = Append(@, fork.log[Len(@) + 1])] /\ UNCHANGED <<fork, lock>>
    BY <1>5 DEF Trees!CopyLine, Trees!Until
  <2>2. Len(treesLog["fork"]) < Trees!Until /\ Len(treesLog["fork"]) + 1 \in 1 .. Len(fork.log)
    BY <1>1, <1>2, <1>3, <1>5, TreesUntil
  <2>3. fork.log[Len(treesLog["fork"]) + 1] \in Trees!Lines
    BY <2>2, <1>1, TreesUntil
  <2>4. treesLog' \in [Trees!Convs -> Seq(Trees!Lines)] /\ treesLog'["source"] = treesLog["source"]
        /\ treesLog'["fork"] = Append(treesLog["fork"], fork.log[Len(treesLog["fork"]) + 1])
    BY <1>3, <2>1, <2>3
  <2> QED
    BY <1>1, <2>1, <2>2, <2>4 DEF Trees!TypeOK
<1> QED
  BY <1>4, <1>5

(* A restart ends the runs; a finished fork stays, any other is nobody's.   *)
LEMMA TreesCrash ==
  ASSUME Trees!TypeOK, Trees!Crash
  PROVE /\ Trees!TypeOK' /\ lock' = "none"
        /\ \A r \in TreeRuns :
             /\ IF handler[r] = "new" THEN run'[r] = Trees!NewRun
                ELSE run'[r].at = "ended" /\ run'[r].again = run[r].again
             /\ handler'[r] = IF handler[r] \in {"new", "done"} THEN handler[r] ELSE "failed"
        /\ file'["source"] = file["source"] /\ treesLog'["source"] = treesLog["source"]
        /\ \/ fork.at = "done" /\ UNCHANGED <<fork, file, treesLog>>
           \/ fork.at # "done" /\ fork' = Trees!NoFork /\ file'["fork"] = <<>> /\ treesLog'["fork"] = <<>>
        /\ UNCHANGED <<ids, forks>>
<1> DEFINE R == [at : Trees!Inside \cup {"new", "wait", "ended"}, leaf : Trees!EntryRecord, again : {"no", "due", "yes"}]
<1>1. /\ lock' = "none" /\ UNCHANGED <<ids, forks>> /\ treesCrashes' = treesCrashes + 1
      /\ run' = [r \in TreeRuns |-> IF handler[r] = "new" THEN Trees!NewRun ELSE [run[r] EXCEPT !.at = "ended"]]
      /\ handler' = [r \in TreeRuns |-> IF handler[r] \in {"new", "done"} THEN handler[r] ELSE "failed"]
  BY DEF Trees!Crash
<1>2. torn' \subseteq Trees!Convs
  BY DEF Trees!Crash, Trees!TypeOK, Trees!Convs
<1>3. /\ file'["source"] = file["source"] /\ treesLog'["source"] = treesLog["source"]
      /\ file' \in [Trees!Convs -> Seq(Trees!EntryRecord)] /\ treesLog' \in [Trees!Convs -> Seq(Trees!Lines)]
      /\ \/ fork.at = "done" /\ UNCHANGED <<fork, file, treesLog>>
         \/ fork.at # "done" /\ fork' = Trees!NoFork /\ file'["fork"] = <<>> /\ treesLog'["fork"] = <<>>
  <2>1. file \in [Trees!Convs -> Seq(Trees!EntryRecord)] /\ treesLog \in [Trees!Convs -> Seq(Trees!Lines)] /\ "fork" \in Trees!Convs /\ "source" \in Trees!Convs
    BY DEF Trees!TypeOK, Trees!Convs
  <2>2. CASE fork.at = "done"
    BY <2>1, <2>2 DEF Trees!Crash
  <2>3. CASE fork.at # "done"
    <3>1. file' = [file EXCEPT !["fork"] = <<>>] /\ treesLog' = [treesLog EXCEPT !["fork"] = <<>>] /\ fork' = Trees!NoFork
      BY <2>3 DEF Trees!Crash
    <3> QED
      BY <2>1, <2>3, <3>1
  <2> QED
    BY <2>2, <2>3
<1>4. Trees!NoFork \in [at : {"none", "resolve", "copy", "lines", "done"}, message : TreeRuns \cup {"none"},
             role : {"user", "assistant", "none"}, log : Seq(Trees!Lines), todo : SUBSET Trees!EntryRecord]
  BY DEF Trees!NoFork
<1>5. fork' \in [at : {"none", "resolve", "copy", "lines", "done"}, message : TreeRuns \cup {"none"},
             role : {"user", "assistant", "none"}, log : Seq(Trees!Lines), todo : SUBSET Trees!EntryRecord]
  BY <1>3, <1>4 DEF Trees!TypeOK
<1>6. Trees!NewRun \in R
  BY DEF Trees!NewRun, Trees!NoLeaf, Trees!EntryRecord, Trees!Kinds
<1>7. \A r \in TreeRuns : LET x == [run[r] EXCEPT !.at = "ended"]
                     IN x \in R /\ x.at = "ended" /\ x.again = run[r].again
  BY DEF Trees!TypeOK
<1> HIDE DEF R
<1>8. run' \in [TreeRuns -> R] /\ handler' \in [TreeRuns -> {"new", "waiting", "replied", "done", "failed"}]
  BY <1>1, <1>6, <1>7 DEF Trees!TypeOK
<1>9. \A r \in TreeRuns :
             /\ IF handler[r] = "new" THEN run'[r] = Trees!NewRun
                ELSE run'[r].at = "ended" /\ run'[r].again = run[r].again
             /\ handler'[r] = IF handler[r] \in {"new", "done"} THEN handler[r] ELSE "failed"
  BY <1>1, <1>7
<1>10. Trees!TypeOK'
  <2>1. run' \in [TreeRuns -> [at : Trees!Inside \cup {"new", "wait", "ended"}, leaf : Trees!EntryRecord,
                       again : {"no", "due", "yes"}]]
    BY <1>8 DEF R
  <2>2. treesCrashes' \in Nat /\ ids' \in Nat /\ forks' \in Nat
    BY <1>1 DEF Trees!TypeOK
  <2>3. file' \in [Trees!Convs -> Seq(Trees!EntryRecord)] /\ treesLog' \in [Trees!Convs -> Seq(Trees!Lines)] /\ lock' = "none"
    BY <1>1, <1>3
  <2> QED
    BY <1>2, <1>5, <1>8, <2>1, <2>2, <2>3 DEF Trees!TypeOK
<1> QED
  BY <1>1, <1>3, <1>9, <1>10

(* The three appends of a run.                                              *)
LEMMA TreesPrompt ==
  ASSUME Trees!TypeOK, NEW r \in TreeRuns, Trees!Prompt(r)
  PROVE /\ Trees!TypeOK' /\ run[r].at = "prompt"
        /\ \E e \in Trees!EntryRecord : Appends(r, e, "reply", run[r].again) /\ e.kind = "user"
        /\ UNCHANGED <<lock, handler>>
<1>1. run[r].again \in {"no", "due", "yes"} /\ "reply" \in Trees!Inside /\ "user" \in Trees!Kinds /\ 0 \in Nat
  BY DEF Trees!TypeOK, Trees!Inside, Trees!Kinds
<1>2. /\ run[r].at = "prompt" /\ Trees!Extend(r, "user", 0, "reply", run[r].again)
      /\ UNCHANGED <<torn, treesLog, lock, handler, fork, forks, treesCrashes>>
  BY DEF Trees!Prompt
<1>3. lock' \in TreeRuns \cup {"none", "fork"}
      /\ handler' \in [TreeRuns -> {"new", "waiting", "replied", "done", "failed"}]
      /\ \A o \in TreeRuns : o # r => handler'[o] = handler[o]
  BY <1>2 DEF Trees!TypeOK
<1> QED
  BY <1>1, <1>2, <1>3, TreesExtend

(* A reply is appended, or the error of a first model.                       *)
LEMMA TreesReply ==
  ASSUME Trees!TypeOK, NEW r \in TreeRuns, Trees!Reply(r)
  PROVE /\ Trees!TypeOK' /\ run[r].at = "reply"
        /\ \E e \in Trees!EntryRecord :
             \/ Appends(r, e, "label", run[r].again) /\ e.kind = "reply"
             \/ Appends(r, e, "label", "due") /\ e.kind = "error" /\ run[r].again = "no"
        /\ UNCHANGED <<lock, handler>>
<1>1. run[r].again \in {"no", "due", "yes"} /\ "label" \in Trees!Inside /\ {"reply", "error"} \subseteq Trees!Kinds /\ 0 \in Nat
  BY DEF Trees!TypeOK, Trees!Inside, Trees!Kinds
<1>2. run[r].at = "reply" /\ UNCHANGED <<torn, treesLog, lock, handler, fork, forks, treesCrashes>>
  BY DEF Trees!Reply
<1>3. lock' \in TreeRuns \cup {"none", "fork"}
      /\ handler' \in [TreeRuns -> {"new", "waiting", "replied", "done", "failed"}]
      /\ \A o \in TreeRuns : o # r => handler'[o] = handler[o]
  BY <1>2 DEF Trees!TypeOK
<1>4. CASE Trees!Extend(r, "reply", 0, "label", run[r].again)
  BY <1>1, <1>2, <1>3, <1>4, TreesExtend
<1>5. CASE run[r].again = "no" /\ Trees!Extend(r, "error", 0, "label", "due")
  BY <1>1, <1>2, <1>3, <1>5, TreesExtend
<1> QED
  BY <1>4, <1>5 DEF Trees!Reply

(* A label is appended; it ends the run, or a second model is prompted.      *)
LEMMA TreesLabel ==
  ASSUME Trees!TypeOK, Trees!Chained, Trees!InStep, NEW r \in TreeRuns, Trees!Label(r)
  PROVE /\ Trees!TypeOK' /\ run[r].at = "label"
        /\ \E e \in Trees!EntryRecord :
             /\ e.kind = "label"
             /\ \/ Appends(r, e, "prompt", "yes") /\ run[r].again = "due"
                \/ Appends(r, e, "ended", run[r].again) /\ run[r].again # "due"
        /\ IF handler[r] = "waiting" /\ run[r].again # "due"
             THEN lock' = (IF lock = r THEN "none" ELSE lock) /\ handler'[r] = "replied"
             ELSE UNCHANGED <<lock, handler>>
<1> DEFINE of == Trees!LastOf(Trees!Prompts(r)).id
<1>1. run[r].again \in {"no", "due", "yes"} /\ {"prompt"} \subseteq Trees!Inside /\ "label" \in Trees!Kinds
  BY DEF Trees!TypeOK, Trees!Inside, Trees!Kinds
<1>2. run[r].at = "label" /\ UNCHANGED <<torn, treesLog, fork, forks, treesCrashes>>
  BY DEF Trees!Label
<1>3. of \in Nat
  <2>1. Trees!Prompts(r) # {}
    BY <1>2 DEF Trees!InStep, Trees!RunInStep
  <2>2. Trees!LastOf(Trees!Prompts(r)) \in Trees!Entries("source")
    BY <2>1, TreesLastPrompt DEF Trees!Prompts
  <2>3. Trees!LastOf(Trees!Prompts(r)) \in Trees!EntryRecord
    BY <2>2, TreesEntries DEF Trees!Convs
  <2> QED
    BY <2>3 DEF Trees!EntryRecord
<1>4. IF handler[r] = "waiting" /\ run[r].again # "due"
        THEN lock' = (IF lock = r THEN "none" ELSE lock) /\ handler' = [handler EXCEPT ![r] = "replied"]
        ELSE UNCHANGED <<lock, handler>>
  BY DEF Trees!Label, Trees!Release
<1>5. /\ lock' \in TreeRuns \cup {"none", "fork"}
      /\ handler' \in [TreeRuns -> {"new", "waiting", "replied", "done", "failed"}]
      /\ \A o \in TreeRuns : o # r => handler'[o] = handler[o]
      /\ handler[r] = "waiting" /\ run[r].again # "due" => handler'[r] = "replied"
  BY <1>4 DEF Trees!TypeOK
<1>6. CASE run[r].again = "due"
  <2>1. Trees!Extend(r, "label", of, "prompt", "yes")
    BY <1>6 DEF Trees!Label
  <2> HIDE DEF of
  <2>2. Trees!TypeOK' /\ \E e \in Trees!EntryRecord : Appends(r, e, "prompt", "yes") /\ e.kind = "label"
    BY <1>1, <1>2, <1>3, <1>5, <2>1, TreesExtend
  <2> QED
    BY <1>2, <1>4, <1>6, <2>2
<1>7. CASE run[r].again # "due"
  <2>1. Trees!Extend(r, "label", of, "ended", run[r].again)
    BY <1>7 DEF Trees!Label
  <2> HIDE DEF of
  <2>2. Trees!TypeOK' /\ \E e \in Trees!EntryRecord : Appends(r, e, "ended", run[r].again) /\ e.kind = "label"
    BY <1>1, <1>2, <1>3, <1>5, <2>1, TreesExtend
  <2> QED
    BY <1>2, <1>4, <1>5, <1>7, <2>2
<1> QED
  BY <1>6, <1>7

-----------------------------------------------------------------------------
(* The source                                                               *)

(* Who has the lock is a run or the fork.                                   *)
LEMMA TreesNames == \A r \in TreeRuns : r # "none" /\ r # "fork"
  BY RecordsAssumption DEF Trees!TreesAssumption

(* An entry appended to a file.                                             *)
LEMMA TreesAppend ==
  ASSUME Trees!TypeOK, NEW c \in Trees!Convs, NEW e \in Trees!EntryRecord, file'[c] = Append(file[c], e)
  PROVE /\ Len(file'[c]) = Len(file[c]) + 1 /\ Len(file[c]) \in Nat
        /\ file'[c][Len(file[c]) + 1] = e
        /\ \A i \in 1 .. Len(file[c]) : file'[c][i] = file[c][i]
        /\ 1 .. Len(file'[c]) = 1 .. Len(file[c]) \cup {Len(file[c]) + 1}
        /\ Trees!Entries(c)' = Trees!Entries(c) \cup {e} /\ Trees!Leaf(c)' = e
<1>1. file[c] \in Seq(Trees!EntryRecord)
  BY DEF Trees!TypeOK
<1>2. /\ Len(file'[c]) = Len(file[c]) + 1 /\ Len(file[c]) \in Nat
      /\ file'[c][Len(file[c]) + 1] = e
      /\ \A i \in 1 .. Len(file[c]) : file'[c][i] = file[c][i]
      /\ file'[c] # <<>>
  BY <1>1
<1>3. 1 .. Len(file'[c]) = 1 .. Len(file[c]) \cup {Len(file[c]) + 1}
  BY <1>2
<1>4. DOMAIN file'[c] = 1 .. Len(file'[c])
  BY <1>1
<1>5. Trees!Entries(c)' = {file'[c][i] : i \in 1 .. Len(file'[c])}
  BY <1>4 DEF Trees!Entries, Trees!ToSet
<1>6. Trees!Entries(c) = {file[c][i] : i \in 1 .. Len(file[c])}
  BY TreesEntries
<1>7. Trees!Entries(c)' = Trees!Entries(c) \cup {e}
  BY <1>2, <1>3, <1>5, <1>6
<1>8. Trees!Leaf(c)' = e
  BY <1>2 DEF Trees!Leaf, Trees!Last
<1> QED
  BY <1>2, <1>3, <1>7, <1>8

(* A new entry of the source hangs on its last one.                         *)
LEMMA TreesChained ==
  ASSUME Trees!TypeOK, Trees!Chained, NEW r \in TreeRuns, NEW e \in Trees!EntryRecord, e.id = ids + 1, ids' = ids + 1,
         e.anc = Trees!Leaf("source").anc \cup {ids + 1}, e.msg = r, e.kind # "provenance",
         file'["source"] = Append(file["source"], e)
  PROVE Trees!Chained'
<1> DEFINE s == file["source"]
           t == file'["source"]
           n == Len(s)
<1>1. /\ Len(t) = n + 1 /\ n \in Nat /\ t[n + 1] = e /\ \A i \in 1 .. n : t[i] = s[i]
      /\ 1 .. Len(t) = 1 .. n \cup {n + 1}
  BY TreesAppend DEF Trees!Convs
<1>2. Trees!Leaf("source").anc = {s[j].id : j \in 1 .. n}
  BY TreesLeaf
<1>3. \A i \in 1 .. n : /\ s[i].id <= ids /\ s[i].anc = {s[j].id : j \in 1 .. i}
                        /\ \A j \in 1 .. i - 1 : s[j].id < s[i].id
                        /\ s[i].kind # "provenance" /\ s[i].msg \in TreeRuns /\ s[i].id \in Nat
  <2>1. \A i \in 1 .. n : s[i] \in Trees!EntryRecord
    BY DEF Trees!TypeOK, Trees!Convs
  <2>2. \A i \in 1 .. n : s[i].id \in Nat
    BY <2>1 DEF Trees!EntryRecord
  <2> QED
    BY <2>2 DEF Trees!Chained
<1>4. ids \in Nat
  BY DEF Trees!TypeOK
<1> SUFFICES ASSUME NEW i \in 1 .. Len(t)
             PROVE /\ t[i].id <= ids' /\ t[i].anc = {t[j].id : j \in 1 .. i}
                   /\ \A j \in 1 .. i - 1 : t[j].id < t[i].id
                   /\ t[i].kind # "provenance" /\ t[i].msg \in TreeRuns
  BY DEF Trees!Chained
<1> HIDE DEF s, t, n
<1>5. CASE i \in 1 .. n
  <2>1. \A j \in 1 .. i : t[j] = s[j]
    BY <1>1, <1>5
  <2>2. {t[j].id : j \in 1 .. i} = {s[j].id : j \in 1 .. i}
    BY <2>1
  <2>3. \A j \in 1 .. i - 1 : t[j] = s[j]
    BY <1>1, <1>5
  <2>4. t[i].id <= ids'
    BY <1>1, <1>3, <1>4, <1>5
  <2> QED
    BY <1>1, <1>3, <1>5, <2>2, <2>3, <2>4
<1>6. CASE i = n + 1
  <2>1. \A j \in 1 .. n : t[j].id = s[j].id
    BY <1>1
  <2>2. {t[j].id : j \in 1 .. n + 1} = {s[j].id : j \in 1 .. n} \cup {ids + 1}
    <3>1. 1 .. n + 1 = 1 .. n \cup {n + 1}
      BY <1>1
    <3> QED
      BY <1>1, <2>1, <3>1
  <2>3. \A j \in 1 .. i - 1 : t[j].id < t[i].id
    BY <1>1, <1>3, <1>4, <1>6
  <2> QED
    BY <1>1, <1>2, <1>4, <1>6, <2>2, <2>3
<1> QED
  BY <1>1, <1>5, <1>6

(* A step that appends nothing to the source keeps its chain.               *)
LEMMA TreesChainStays ==
  ASSUME Trees!TypeOK, Trees!Chained, file'["source"] = file["source"], ids' \in {ids, ids + 1}
  PROVE Trees!Chained'
<1> DEFINE s == file["source"]
<1>1. \A i \in 1 .. Len(s) : s[i].id \in Nat
  <2>1. \A i \in 1 .. Len(s) : s[i] \in Trees!EntryRecord
    BY DEF Trees!TypeOK, Trees!Convs
  <2> QED
    BY <2>1 DEF Trees!EntryRecord
<1>2. ids \in Nat
  BY DEF Trees!TypeOK
<1>3. \A i \in 1 .. Len(s) : s[i].id <= ids'
  BY <1>1, <1>2 DEF Trees!Chained
<1> QED
  BY <1>3 DEF Trees!Chained

(* The appends of a run, together.                                          *)
LEMMA TreesWrites ==
  ASSUME Trees!TypeOK, Trees!Chained, Trees!Locked, Trees!InStep, NEW r \in TreeRuns, Trees!Prompt(r) \/ Trees!Reply(r) \/ Trees!Label(r)
  PROVE /\ Trees!TypeOK' /\ run[r].at \in Trees!Inside /\ lock = r /\ Trees!Chained' /\ Trees!Locked'
        /\ \E e \in Trees!EntryRecord, at \in {"reply", "label", "prompt", "ended"}, again \in {"no", "due", "yes"} :
             /\ Appends(r, e, at, again)
             /\ run[r].again = "yes" => again = "yes"
             /\ \/ /\ run[r].at = "prompt" /\ e.kind = "user" /\ at = "reply" /\ again = run[r].again
                \/ /\ run[r].at = "reply" /\ e.kind = "reply" /\ at = "label" /\ again = run[r].again
                \/ /\ run[r].at = "reply" /\ e.kind = "error" /\ at = "label" /\ again = "due"
                \/ /\ run[r].at = "label" /\ e.kind = "label" /\ at = "prompt" /\ again = "yes"
                   /\ run[r].again = "due"
                \/ /\ run[r].at = "label" /\ e.kind = "label" /\ at = "ended" /\ again = run[r].again
                   /\ again # "due"
             /\ \/ UNCHANGED <<lock, handler>> /\ (at = "ended" => handler[r] = "failed")
                \/ lock' = "none" /\ handler'[r] = "replied" /\ at = "ended" /\ handler[r] = "waiting"
<1>1. handler[r] \in {"waiting", "failed"} \/ run[r].at \notin Trees!Inside
  BY DEF Trees!InStep, Trees!RunInStep
<1>2. run[r].again \in {"no", "due", "yes"}
  BY DEF Trees!TypeOK
<1>3. /\ Trees!TypeOK' /\ run[r].at \in Trees!Inside
      /\ \E e \in Trees!EntryRecord, at \in {"reply", "label", "prompt", "ended"}, again \in {"no", "due", "yes"} :
             /\ Appends(r, e, at, again)
             /\ run[r].again = "yes" => again = "yes"
             /\ \/ /\ run[r].at = "prompt" /\ e.kind = "user" /\ at = "reply" /\ again = run[r].again
                \/ /\ run[r].at = "reply" /\ e.kind = "reply" /\ at = "label" /\ again = run[r].again
                \/ /\ run[r].at = "reply" /\ e.kind = "error" /\ at = "label" /\ again = "due"
                \/ /\ run[r].at = "label" /\ e.kind = "label" /\ at = "prompt" /\ again = "yes"
                   /\ run[r].again = "due"
                \/ /\ run[r].at = "label" /\ e.kind = "label" /\ at = "ended" /\ again = run[r].again
                   /\ again # "due"
             /\ \/ UNCHANGED <<lock, handler>> /\ (at = "ended" => handler[r] = "failed")
                \/ /\ lock' = (IF lock = r THEN "none" ELSE lock)
                   /\ handler'[r] = "replied" /\ at = "ended" /\ handler[r] = "waiting"
  <2>1. CASE Trees!Prompt(r)
    <3>1. PICK e \in Trees!EntryRecord : Appends(r, e, "reply", run[r].again) /\ e.kind = "user"
      BY <2>1, TreesPrompt
    <3>2. Trees!TypeOK' /\ run[r].at = "prompt" /\ UNCHANGED <<lock, handler>>
      BY <2>1, TreesPrompt
    <3> QED
      BY <1>2, <3>1, <3>2 DEF Trees!Inside
  <2>2. CASE Trees!Reply(r)
    <3>1. PICK e \in Trees!EntryRecord :
             \/ Appends(r, e, "label", run[r].again) /\ e.kind = "reply"
             \/ Appends(r, e, "label", "due") /\ e.kind = "error" /\ run[r].again = "no"
      BY <2>2, TreesReply
    <3>2. Trees!TypeOK' /\ run[r].at = "reply" /\ UNCHANGED <<lock, handler>>
      BY <2>2, TreesReply
    <3>3. CASE Appends(r, e, "label", run[r].again) /\ e.kind = "reply"
      BY <1>2, <3>2, <3>3 DEF Trees!Inside
    <3>4. CASE Appends(r, e, "label", "due") /\ e.kind = "error" /\ run[r].again = "no"
      BY <3>2, <3>4 DEF Trees!Inside
    <3> QED
      BY <3>1, <3>3, <3>4
  <2>3. CASE Trees!Label(r)
    <3>1. PICK e \in Trees!EntryRecord :
             /\ e.kind = "label"
             /\ \/ Appends(r, e, "prompt", "yes") /\ run[r].again = "due"
                \/ Appends(r, e, "ended", run[r].again) /\ run[r].again # "due"
      BY <2>3, TreesLabel
    <3>2. /\ Trees!TypeOK' /\ run[r].at = "label"
          /\ IF handler[r] = "waiting" /\ run[r].again # "due"
             THEN lock' = (IF lock = r THEN "none" ELSE lock) /\ handler'[r] = "replied"
             ELSE UNCHANGED <<lock, handler>>
      BY <2>3, TreesLabel
    <3>3. CASE Appends(r, e, "prompt", "yes") /\ run[r].again = "due"
      BY <3>1, <3>2, <3>3 DEF Trees!Inside
    <3>4. CASE Appends(r, e, "ended", run[r].again) /\ run[r].again # "due"
      <4>1. handler[r] \in {"waiting", "failed"}
        BY <1>1, <3>2 DEF Trees!Inside
      <4> QED
        BY <1>2, <3>1, <3>2, <3>4, <4>1 DEF Trees!Inside
    <3> QED
      BY <3>1, <3>3, <3>4
  <2> QED
    BY <2>1, <2>2, <2>3
<1>4. lock = r /\ run[r].leaf = Trees!Leaf("source")
  BY <1>3 DEF Trees!Locked
<1>5. PICK e \in Trees!EntryRecord, at \in {"reply", "label", "prompt", "ended"}, again \in {"no", "due", "yes"} :
             /\ Appends(r, e, at, again)
             /\ e.kind \in {"user", "reply", "error", "label"}
             /\ \/ UNCHANGED <<lock, handler>> /\ (at = "ended" => handler[r] = "failed")
                \/ lock' = "none" /\ at = "ended" /\ handler[r] = "waiting"
  BY <1>3, <1>4
<1>6. Trees!Chained'
  BY <1>4, <1>5, TreesChained DEF Appends
<1>7. Trees!Locked'
  <2>1. /\ \A o \in TreeRuns : o # r => run[o].at \notin Trees!Inside /\ run'[o] = run[o]
        /\ fork.at \notin {"resolve", "copy", "lines"} /\ fork' = fork
    BY <1>4, <1>5, TreesNames DEF Trees!Locked, Appends, Alone
  <2>2. Trees!Leaf("source")' = e /\ run'[r].leaf = e
    BY <1>5, TreesAppend DEF Appends, Trees!Convs
  <2>3. run'[r].at \in Trees!Inside => lock' = r
    BY <1>4, <1>5 DEF Appends, Trees!Inside
  <2> QED
    BY <2>1, <2>2, <2>3 DEF Trees!Locked
<1> QED
  BY <1>3, <1>4, <1>6, <1>7

(* The entries of a message.                                                *)
Mine(r) == {e \in Trees!Entries("source") : e.msg = r}

(* How far a run is, conjunct by conjunct.                                  *)
Far(r) ==
  /\ handler[r] = "new" <=> run[r].at = "new"
  /\ run[r].at \in Trees!Inside => handler[r] \in {"waiting", "failed"}
  /\ run[r].at \in {"new", "wait"} => Mine(r) = {} /\ run[r].again = "no"
  /\ run[r].at = "prompt" => run[r].again # "due" /\ (run[r].again = "no" => Mine(r) = {})
  /\ run[r].at = "reply" => run[r].again # "due"
  /\ run[r].at \in {"reply", "label"} => Trees!Prompts(r) # {}
  /\ \/ run[r].at = "label" /\ run[r].again # "due"
     \/ handler[r] \in {"replied", "done"}
     => \E e \in Mine(r) : e.kind = "reply"
Twice(r) == \A e \in Trees!Prompts(r), o \in Mine(r) : o.id < e.id => run[r].again = "yes"

(* The invariant of a run, conjunct by conjunct, now and next.               *)
LEMMA TreesFar ==
  /\ \A r \in TreeRuns : Trees!RunInStep(r) <=> Far(r) /\ Twice(r)
  /\ \A r \in TreeRuns : Trees!RunInStep(r)' <=> Far(r)' /\ Twice(r)'
<1>1. \A r \in TreeRuns : Trees!RunInStep(r) <=> Far(r) /\ Twice(r)
  BY DEF Trees!RunInStep, Far, Twice, Mine
<1>2. \A r \in TreeRuns : Trees!RunInStep(r)' <=> Far(r)' /\ Twice(r)'
  BY DEF Trees!RunInStep, Far, Twice, Mine
<1> QED
  BY <1>1, <1>2

(* A run whose entries, place and model stay is as far as it was.           *)
LEMMA TreesFarStays ==
  ASSUME Trees!InStep, NEW r \in TreeRuns, Mine(r)' = Mine(r), Trees!Prompts(r)' = Trees!Prompts(r), run'[r].at = run[r].at,
         run'[r].again = run[r].again, handler'[r] = handler[r]
  PROVE Trees!RunInStep(r)'
<1>1. Far(r) /\ Twice(r)
  BY TreesFar DEF Trees!InStep
<1>2. Far(r)'
  BY <1>1 DEF Far
<1>3. Twice(r)'
  BY <1>1 DEF Twice
<1> QED
  BY <1>2, <1>3, TreesFar

(* A run that appends is as far as the code says.                           *)
LEMMA TreesInStep ==
  ASSUME Trees!TypeOK, Trees!Chained, Trees!Locked, Trees!InStep, NEW r \in TreeRuns, Trees!Prompt(r) \/ Trees!Reply(r) \/ Trees!Label(r)
  PROVE Trees!InStep'
<1>1. run[r].at \in Trees!Inside /\ lock = r
  BY TreesWrites
<1>2. PICK e \in Trees!EntryRecord, at \in {"reply", "label", "prompt", "ended"}, again \in {"no", "due", "yes"} :
             /\ Appends(r, e, at, again)
             /\ run[r].again = "yes" => again = "yes"
             /\ \/ /\ run[r].at = "prompt" /\ e.kind = "user" /\ at = "reply" /\ again = run[r].again
                \/ /\ run[r].at = "reply" /\ e.kind = "reply" /\ at = "label" /\ again = run[r].again
                \/ /\ run[r].at = "reply" /\ e.kind = "error" /\ at = "label" /\ again = "due"
                \/ /\ run[r].at = "label" /\ e.kind = "label" /\ at = "prompt" /\ again = "yes"
                   /\ run[r].again = "due"
                \/ /\ run[r].at = "label" /\ e.kind = "label" /\ at = "ended" /\ again = run[r].again
                   /\ again # "due"
             /\ \/ UNCHANGED <<lock, handler>> /\ (at = "ended" => handler[r] = "failed")
                \/ lock' = "none" /\ handler'[r] = "replied" /\ at = "ended" /\ handler[r] = "waiting"
  BY TreesWrites
<1>3. Trees!Entries("source")' = Trees!Entries("source") \cup {e} /\ e.msg = r /\ e.id = ids + 1
  BY <1>2, TreesAppend DEF Appends, Trees!Convs
<1>4. /\ Mine(r)' = Mine(r) \cup {e}
      /\ Trees!Prompts(r)' = Trees!Prompts(r) \cup (IF e.kind = "user" THEN {e} ELSE {})
  BY <1>3 DEF Mine, Trees!Prompts
<1>5. \A o \in TreeRuns : o # r => Mine(o)' = Mine(o) /\ Trees!Prompts(o)' = Trees!Prompts(o)
  BY <1>3 DEF Mine, Trees!Prompts
<1>6. \A o \in TreeRuns : o # r => Trees!RunInStep(o)'
  BY <1>2, <1>5, TreesFarStays DEF Appends, Alone
<1>7. Far(r) /\ Twice(r)
  BY TreesFar DEF Trees!InStep
<1>8. handler[r] \in {"waiting", "failed"}
  BY <1>1, <1>7 DEF Far
<1>9. run'[r].again = again /\ run'[r].at = IF handler[r] = "failed" THEN "failing" ELSE at
  BY <1>2 DEF Appends
<1>10. e \in Mine(r)' /\ Mine(r) \subseteq Mine(r)' /\ Trees!Prompts(r) \subseteq Trees!Prompts(r)'
  BY <1>4
<1>11. Far(r)'
  <2>1. CASE run[r].at = "prompt" /\ e.kind = "user" /\ at = "reply" /\ again = run[r].again
    <3>1. e \in Trees!Prompts(r)' /\ handler' = handler
      BY <1>2, <1>4, <2>1
    <3> QED
      BY <1>7, <1>8, <1>9, <2>1, <3>1 DEF Far, Trees!Inside
  <2>2. CASE run[r].at = "reply" /\ at = "label" 
             /\ ((e.kind = "reply" /\ again = run[r].again) \/ (e.kind = "error" /\ again = "due"))
    <3>1. Trees!Prompts(r)' # {} /\ handler' = handler
      BY <1>2, <1>7, <1>10, <2>2 DEF Far
    <3> QED
      BY <1>7, <1>8, <1>9, <1>10, <2>2, <3>1 DEF Far, Trees!Inside
  <2>3. CASE run[r].at = "label" /\ at = "prompt" /\ again = "yes"
    <3>1. handler' = handler
      BY <1>2, <2>3
    <3> QED
      BY <1>7, <1>8, <1>9, <2>3, <3>1 DEF Far, Trees!Inside
  <2>4. CASE run[r].at = "label" /\ at = "ended" /\ again = run[r].again /\ again # "due"
    <3>1. \E x \in Mine(r)' : x.kind = "reply"
      BY <1>7, <1>10, <2>4 DEF Far
    <3>2. \/ handler' = handler /\ handler[r] = "failed" /\ run'[r].at = "failing"
          \/ handler'[r] = "replied" /\ run'[r].at = "ended"
      BY <1>2, <1>9, <2>4
    <3> QED
      BY <3>1, <3>2 DEF Far, Trees!Inside
  <2>5. \/ run[r].at = "prompt" /\ e.kind = "user" /\ at = "reply" /\ again = run[r].again
        \/ run[r].at = "reply" /\ e.kind = "reply" /\ at = "label" /\ again = run[r].again
        \/ run[r].at = "reply" /\ e.kind = "error" /\ at = "label" /\ again = "due"
        \/ run[r].at = "label" /\ at = "prompt" /\ again = "yes"
        \/ run[r].at = "label" /\ at = "ended" /\ again = run[r].again /\ again # "due"
    BY <1>2
  <2> QED
    BY <2>1, <2>2, <2>3, <2>4, <2>5
<1>12. Twice(r)'
  <2> SUFFICES ASSUME NEW p \in Trees!Prompts(r)', NEW o \in Mine(r)', o.id < p.id
               PROVE  run'[r].again = "yes"
    BY DEF Twice
  <2>1. \A x \in Trees!Entries("source") : x.id \in Nat /\ x.id <= ids
    <3>1. Trees!Entries("source") \subseteq Trees!EntryRecord
          /\ Trees!Entries("source") = {file["source"][i] : i \in 1 .. Len(file["source"])}
      BY TreesEntries DEF Trees!Convs
    <3> QED
      BY <3>1 DEF Trees!Chained, Trees!EntryRecord
  <2>2. ids \in Nat
    BY DEF Trees!TypeOK
  <2>3. CASE p \in Trees!Prompts(r)
    <3>1. o \in Mine(r)
      <4>1. p \in Trees!Entries("source")
        BY <2>3 DEF Trees!Prompts
      <4> QED
        BY <1>3, <1>4, <2>1, <2>2, <4>1
    <3> QED
      BY <1>2, <1>7, <1>9, <2>3, <3>1 DEF Twice
  <2>4. CASE p = e /\ e.kind = "user"
    <3>1. run[r].at = "prompt" /\ again = run[r].again
      BY <1>2, <2>4
    <3>2. o \in Mine(r)
      BY <1>3, <1>4, <2>2, <2>4
    <3>3. run[r].again # "due" /\ run[r].again # "no"
      BY <1>7, <3>1, <3>2 DEF Far
    <3> QED
      BY <1>9, <3>1, <3>3
  <2> QED
    BY <1>4, <2>3, <2>4
<1> QED
  BY <1>6, <1>11, <1>12, TreesFar DEF Trees!InStep

(* What is in the source does not change.                                   *)
LEMMA TreesMineStays ==
  ASSUME file'["source"] = file["source"]
  PROVE \A r : Mine(r)' = Mine(r) /\ Trees!Prompts(r)' = Trees!Prompts(r)
<1>1. Trees!Entries("source")' = Trees!Entries("source")
  BY DEF Trees!Entries
<1> QED
  BY <1>1 DEF Mine, Trees!Prompts

(* A step that changes no run and no handler.                               *)
LEMMA TreesStepStays ==
  ASSUME Trees!InStep, file'["source"] = file["source"], UNCHANGED <<run, handler>>
  PROVE Trees!InStep'
<1>1. \A r \in TreeRuns : Trees!RunInStep(r)'
  BY TreesMineStays, TreesFarStays
<1> QED
  BY <1>1 DEF Trees!InStep

(* The steps of a run and of a handler that append nothing to the source.   *)
LEMMA TreesStepTurns ==
  ASSUME Trees!TypeOK, Trees!Locked, Trees!InStep, NEW r \in TreeRuns,
         Trees!Post(r) \/ Trees!Answer(r) \/ Trees!Deadline(r) \/ Trees!Open(r) \/ Trees!Fails(r)
  PROVE Trees!InStep' /\ Trees!Locked'
<1>0. Far(r) /\ Twice(r)
  BY TreesFar DEF Trees!InStep
<1>1. file'["source"] = file["source"] /\ fork' = fork
      /\ \A o \in TreeRuns : o # r => run'[o] = run[o] /\ handler'[o] = handler[o]
  <2>1. CASE Trees!Post(r)
    BY <2>1, TreesPost DEF Turns, Alone
  <2>2. CASE Trees!Answer(r)
    BY <2>2, TreesAnswer
  <2>3. CASE Trees!Deadline(r)
    BY <2>3, TreesDeadline
  <2>4. CASE Trees!Open(r)
    BY <2>4, TreesOpen DEF Turns, Alone
  <2>5. CASE Trees!Fails(r)
    BY <2>5, TreesFails DEF Turns, Alone
  <2> QED
    BY <2>1, <2>2, <2>3, <2>4, <2>5
<1>2. Mine(r)' = Mine(r) /\ Trees!Prompts(r)' = Trees!Prompts(r)
  BY <1>1, TreesMineStays
<1>3. run'[r].again = run[r].again
  <2>1. CASE Trees!Post(r)
    BY <2>1, TreesPost DEF Turns
  <2>2. CASE Trees!Answer(r)
    BY <2>2, TreesAnswer
  <2>3. CASE Trees!Deadline(r)
    BY <2>3, TreesDeadline
  <2>4. CASE Trees!Open(r)
    BY <2>4, TreesOpen DEF Turns
  <2>5. CASE Trees!Fails(r)
    BY <2>5, TreesFails DEF Turns
  <2> QED
    BY <2>1, <2>2, <2>3, <2>4, <2>5
<1>4. Twice(r)'
  BY <1>0, <1>2, <1>3 DEF Twice
<1>5. Far(r)'
  <2>1. CASE Trees!Post(r)
    <3>1. handler[r] = "new" /\ run'[r].at = "wait" /\ handler'[r] = "waiting"
      BY <2>1, TreesPost DEF Turns, Trees!Post
    <3> QED
      BY <1>0, <1>2, <1>3, <3>1 DEF Far, Trees!Inside
  <2>2. CASE Trees!Answer(r)
    <3>1. handler[r] = "replied" /\ run' = run /\ handler'[r] = "done"
      BY <2>2, TreesAnswer DEF Trees!Answer
    <3> QED
      BY <1>0, <1>2, <1>3, <3>1 DEF Far, Trees!Inside
  <2>3. CASE Trees!Deadline(r)
    <3>1. handler[r] = "waiting" /\ run' = run /\ handler'[r] = "failed"
      BY <2>3, TreesDeadline
    <3> QED
      BY <1>0, <1>2, <1>3, <3>1 DEF Far, Trees!Inside
  <2>4. CASE Trees!Open(r)
    <3>1. \/ run'[r].at = "ended" /\ handler'[r] = "failed"
          \/ run'[r].at = "prompt" /\ handler'[r] = handler[r] /\ handler[r] # "failed"
      BY <2>4, TreesOpen DEF Turns
    <3>2. run[r].at = "wait"
      BY <2>4, TreesOpen
    <3>3. handler[r] \in {"new", "waiting", "replied", "done", "failed"}
      BY DEF Trees!TypeOK
    <3>4. Mine(r) = {} /\ run[r].again = "no" /\ handler[r] \in {"waiting", "failed"}
      BY <1>0, <3>2, <3>3 DEF Far
    <3> QED
      BY <1>0, <1>2, <1>3, <3>1, <3>2, <3>4 DEF Far, Trees!Inside
  <2>5. CASE Trees!Fails(r)
    <3>1. /\ run'[r].at = "ended" /\ run[r].at \in Trees!Inside
          /\ handler'[r] = IF handler[r] = "waiting" THEN "failed" ELSE handler[r]
      BY <2>5, TreesFails DEF Turns
    <3> QED
      BY <1>0, <1>2, <1>3, <3>1 DEF Far, Trees!Inside
  <2> QED
    BY <2>1, <2>2, <2>3, <2>4, <2>5
<1>6. Trees!InStep'
  <2>1. \A o \in TreeRuns : o # r => Trees!RunInStep(o)'
    BY <1>1, TreesMineStays, TreesFarStays
  <2> QED
    BY <1>4, <1>5, <2>1, TreesFar DEF Trees!InStep
<1>7. Trees!Leaf("source")' = Trees!Leaf("source")
  BY <1>1 DEF Trees!Leaf
<1>8. Trees!Locked'
  <2>1. CASE Trees!Post(r) \/ Trees!Answer(r) \/ Trees!Deadline(r)
    <3>1. lock' = lock
      BY <2>1, TreesPost, TreesAnswer, TreesDeadline
    <3>2. run' = run \/ run'[r].at = "wait"
      BY <2>1, TreesPost, TreesAnswer, TreesDeadline DEF Turns
    <3> QED
      BY <1>1, <1>7, <3>1, <3>2 DEF Trees!Locked, Trees!Inside
  <2>2. CASE Trees!Open(r)
    <3>1. /\ lock = "none"
          /\ \/ run'[r].at = "ended" /\ lock' = "none"
             \/ run'[r].at = "prompt" /\ lock' = r /\ run'[r].leaf = Trees!Leaf("source")
      BY <2>2, TreesOpen DEF Turns
    <3>2. /\ \A o \in TreeRuns : run[o].at \notin Trees!Inside
          /\ fork.at \notin {"resolve", "copy", "lines"}
      BY <3>1, TreesNames DEF Trees!Locked
    <3> QED
      BY <1>1, <1>7, <3>1, <3>2 DEF Trees!Locked, Trees!Inside
  <2>3. CASE Trees!Fails(r)
    <3>1. /\ run[r].at \in Trees!Inside /\ lock' = (IF lock = r THEN "none" ELSE lock)
          /\ run'[r].at = "ended"
      BY <2>3, TreesFails DEF Turns
    <3>2. lock = r
      BY <3>1 DEF Trees!Locked
    <3>3. /\ \A o \in TreeRuns : o # r => run[o].at \notin Trees!Inside
          /\ fork.at \notin {"resolve", "copy", "lines"}
      BY <3>2, TreesNames DEF Trees!Locked
    <3> QED
      BY <1>1, <3>1, <3>3 DEF Trees!Locked, Trees!Inside
  <2> QED
    BY <2>1, <2>2, <2>3
<1> QED
  BY <1>6, <1>8

(* A restart.                                                               *)
LEMMA TreesStepCrash ==
  ASSUME Trees!TypeOK, Trees!InStep, Trees!Crash
  PROVE Trees!InStep' /\ Trees!Locked'
<1> SUFFICES ASSUME NEW r \in TreeRuns
             PROVE  Trees!RunInStep(r)' /\ run'[r].at \notin Trees!Inside /\ fork'.at \notin {"resolve", "copy", "lines"}
  <2>1. CASE TreeRuns = {}
    <3>1. fork'.at \notin {"resolve", "copy", "lines"}
      BY TreesCrash DEF Trees!NoFork
    <3> QED
      BY <2>1, <3>1 DEF Trees!InStep, Trees!Locked
  <2> QED
    BY <2>1 DEF Trees!InStep, Trees!Locked
<1>1. Far(r) /\ Twice(r)
  BY TreesFar DEF Trees!InStep
<1>2. Mine(r)' = Mine(r) /\ Trees!Prompts(r)' = Trees!Prompts(r)
  BY TreesCrash, TreesMineStays
<1>3. /\ IF handler[r] = "new" THEN run'[r] = Trees!NewRun
         ELSE run'[r].at = "ended" /\ run'[r].again = run[r].again
      /\ handler'[r] = IF handler[r] \in {"new", "done"} THEN handler[r] ELSE "failed"
  BY TreesCrash
<1>4. CASE handler[r] = "new"
  <2>1. run'[r].at = "new" /\ run'[r].again = "no" /\ run[r].at = "new" /\ handler'[r] = "new"
        /\ Mine(r) = {} /\ run[r].again = "no"
    BY <1>1, <1>3, <1>4 DEF Trees!NewRun, Far
  <2> QED
    BY <1>1, <1>2, <2>1, TreesFar, TreesCrash DEF Far, Twice, Trees!Inside, Trees!NoFork
<1>5. CASE handler[r] # "new"
  <2>1. run'[r].at = "ended" /\ run'[r].again = run[r].again
        /\ handler'[r] = IF handler[r] = "done" THEN "done" ELSE "failed"
    BY <1>3, <1>5
  <2>2. Far(r)'
    BY <1>1, <1>2, <2>1 DEF Far, Trees!Inside
  <2>3. Twice(r)'
    BY <1>1, <1>2, <2>1 DEF Twice
  <2>4. fork'.at \notin {"resolve", "copy", "lines"}
    BY TreesCrash DEF Trees!NoFork
  <2> QED
    BY <2>1, <2>2, <2>3, <2>4, TreesFar DEF Trees!Inside
<1> QED
  BY <1>4, <1>5

-----------------------------------------------------------------------------
(* The transcript and the source                                            *)

(* A message is a message, an answer an answer.                             *)
LEMMA TreesLines ==
  \A m, o : /\ Trees!Line(m, "user") # Trees!Line(o, "assistant")
            /\ Trees!Line(m, "user") = Trees!Line(o, "user") => m = o
            /\ Trees!Line(m, "assistant") = Trees!Line(o, "assistant") => m = o
            /\ Trees!Line(m, "user").role = "user" /\ Trees!Line(m, "assistant").role = "assistant"
            /\ Trees!Line(m, "user").msg = m /\ Trees!Line(m, "assistant").msg = m
  BY DEF Trees!Line

(* The order of a run that neither moves nor answers.                       *)
LEMMA TreesOrderStays ==
  ASSUME NEW r \in TreeRuns, NEW l, NEW s, Trees!RunInOrder(r, l, s),
         handler'[r] = handler[r] \/ (handler'[r] \notin {"new", "done", "waiting", "replied"}
                                      /\ handler[r] \notin {"new", "done"})
           \/ (handler[r] = "waiting" /\ handler'[r] = "replied"),
         run'[r].at \in Trees!Inside => run[r].at \in Trees!Inside
  PROVE Trees!RunInOrder(r, l, s)'
  BY DEF Trees!RunInOrder

(* An entry appended by the run that has the lock.                          *)
LEMMA TreesOrderWrites ==
  ASSUME Trees!TypeOK, Trees!Chained, Trees!Locked, Trees!InStep, Trees!InOrder, NEW r \in TreeRuns, Trees!Prompt(r) \/ Trees!Reply(r) \/ Trees!Label(r)
  PROVE Trees!InOrder'
<1> DEFINE l == treesLog["source"]
           s == file["source"]
           t == file'["source"]
           n == Len(s)
<1>1. run[r].at \in Trees!Inside /\ lock = r
  BY TreesWrites
<1>2. PICK e \in Trees!EntryRecord, at \in {"reply", "label", "prompt", "ended"}, again \in {"no", "due", "yes"} :
             /\ Appends(r, e, at, again)
             /\ \/ UNCHANGED <<lock, handler>>
                \/ handler'[r] = "replied" /\ handler[r] = "waiting"
  BY TreesWrites
<1>3. /\ Len(t) = n + 1 /\ n \in Nat /\ t[n + 1] = e /\ \A i \in 1 .. n : t[i] = s[i]
      /\ 1 .. Len(t) = 1 .. n \cup {n + 1} /\ e.msg = r /\ treesLog' = treesLog
  BY <1>2, TreesAppend DEF Appends, Trees!Convs
<1>4. Trees!Agree(l, s) /\ \A o \in TreeRuns : Trees!RunInOrder(o, l, s)
  BY DEF Trees!InOrder
<1>5. handler[r] \in {"waiting", "failed"}
  BY <1>1 DEF Trees!InStep, Trees!RunInStep
<1>6. \A o \in TreeRuns : o # r => /\ run'[o] = run[o] /\ handler'[o] = handler[o]
                               /\ run[o].at \notin Trees!Inside
  BY <1>1, <1>2 DEF Appends, Alone, Trees!Locked
<1>7. Trees!Line(r, "user") \in Trees!ToSet(l)
  BY <1>4, <1>5 DEF Trees!RunInOrder
<1>8. l \in Seq(Trees!Lines) /\ Trees!ToSet(l) = {l[i] : i \in 1 .. Len(l)}
  BY TreesEntries DEF Trees!Convs
<1> HIDE DEF l, s, t, n
<1>9. PICK u \in 1 .. Len(l) : l[u] = Trees!Line(r, "user")
  BY <1>7, <1>8
<1>10. \A j \in 1 .. Len(l), k \in 1 .. n : l[j] = Trees!Line(s[k].msg, "user") => j <= u
  BY <1>1, <1>4, <1>9 DEF Trees!RunInOrder, n
<1>11. \A i \in 1 .. Len(l) : l[i] = Trees!Line(r, "user") => i = u
  BY <1>4, <1>9 DEF Trees!Agree
<1>12. Len(l) \in Nat
  BY <1>8
<1>13. Trees!Agree(l, t)
  <2>1. \A i \in 1 .. Len(l) : l[i].role = "assistant" =>
       /\ \E j \in 1 .. i - 1 : l[j] = Trees!Line(l[i].msg, "user")
       /\ \E k \in 1 .. Len(t) : t[k].kind = "reply" /\ t[k].msg = l[i].msg
    <3>1. \A k \in 1 .. Len(s) : k \in 1 .. Len(t) /\ t[k] = s[k]
      BY <1>3 DEF n
    <3> QED
      BY <1>4, <3>1 DEF Trees!Agree
  <2>2. \A k \in 1 .. Len(t) : \E i \in 1 .. Len(l) : l[i] = Trees!Line(t[k].msg, "user")
    BY <1>3, <1>4, <1>9 DEF Trees!Agree, n
  <2>3. \A h, k \in 1 .. Len(t) : \A i, j \in 1 .. Len(l) :
       h < k /\ l[i] = Trees!Line(t[h].msg, "user") /\ l[j] = Trees!Line(t[k].msg, "user") => i <= j
    <3> SUFFICES ASSUME NEW h \in 1 .. Len(t), NEW k \in 1 .. Len(t), NEW i \in 1 .. Len(l),
                        NEW j \in 1 .. Len(l), h < k, l[i] = Trees!Line(t[h].msg, "user"),
                        l[j] = Trees!Line(t[k].msg, "user")
                 PROVE  i <= j
      OBVIOUS
    <3>1. h \in 1 .. n /\ t[h] = s[h]
      BY <1>3
    <3>2. CASE k \in 1 .. n
      <4>1. t[k] = s[k]
        BY <1>3, <3>2
      <4> QED
        BY <1>4, <3>1, <3>2, <4>1 DEF Trees!Agree, n
    <3>3. CASE k = n + 1
      <4>1. j = u
        BY <1>3, <1>11, <3>3
      <4> QED
        BY <1>10, <3>1, <4>1
    <3> QED
      BY <1>3, <3>2, <3>3
  <2>4. \A i, j \in 1 .. Len(l) : l[i] = l[j] => i = j
    BY <1>4 DEF Trees!Agree
  <2> QED
    BY <2>1, <2>2, <2>3, <2>4 DEF Trees!Agree
<1>14. \A o \in TreeRuns : Trees!RunInOrder(o, treesLog["source"], file["source"])'
  <2> SUFFICES ASSUME NEW o \in TreeRuns
               PROVE  /\ Trees!Line(o, "user") \in Trees!ToSet(l) <=> handler'[o] # "new"
                      /\ Trees!Line(o, "assistant") \in Trees!ToSet(l) <=> handler'[o] = "done"
                      /\ handler'[o] \in {"waiting", "replied"} =>
                           \A i, j \in 1 .. Len(l) : l[i] = Trees!Line(o, "user") /\ l[j].role = "user" => j <= i
                      /\ run'[o].at \in Trees!Inside =>
                           \A i, j \in 1 .. Len(l) : \A k \in 1 .. Len(t) :
                             l[i] = Trees!Line(o, "user") /\ l[j] = Trees!Line(t[k].msg, "user") => j <= i
    BY <1>3 DEF Trees!RunInOrder, l, t
  <2>0. /\ Trees!Line(o, "user") \in Trees!ToSet(l) <=> handler[o] # "new"
        /\ Trees!Line(o, "assistant") \in Trees!ToSet(l) <=> handler[o] = "done"
        /\ handler[o] \in {"waiting", "replied"} =>
             \A i, j \in 1 .. Len(l) : l[i] = Trees!Line(o, "user") /\ l[j].role = "user" => j <= i
    BY <1>4 DEF Trees!RunInOrder
  <2>1. CASE o = r
    <3>1. \A i, j \in 1 .. Len(l) : \A k \in 1 .. Len(t) :
            l[i] = Trees!Line(o, "user") /\ l[j] = Trees!Line(t[k].msg, "user") => j <= i
      BY <1>3, <1>10, <1>11, <1>12, <2>1
    <3>2. handler'[o] = handler[o] \/ (handler'[o] = "replied" /\ handler[o] = "waiting")
      BY <1>2, <2>1
    <3> QED
      BY <1>5, <2>0, <2>1, <3>1, <3>2
  <2>2. CASE o # r
    BY <1>6, <2>0, <2>2
  <2> QED
    BY <2>1, <2>2
<1> QED
  BY <1>3, <1>13, <1>14 DEF Trees!InOrder, l, t

(* A line appended to the transcript.                                       *)
LEMMA TreesAppendLine ==
  ASSUME Trees!TypeOK, NEW x \in Trees!Lines, treesLog'["source"] = Append(treesLog["source"], x)
  PROVE LET l == treesLog["source"]
            m == treesLog'["source"]
        IN /\ Len(m) = Len(l) + 1 /\ Len(l) \in Nat /\ m[Len(l) + 1] = x
           /\ \A i \in 1 .. Len(l) : m[i] = l[i]
           /\ 1 .. Len(m) = 1 .. Len(l) \cup {Len(l) + 1}
           /\ Trees!ToSet(m) = Trees!ToSet(l) \cup {x} /\ Trees!ToSet(l) = {l[i] : i \in 1 .. Len(l)}
<1> DEFINE l == treesLog["source"]
           m == treesLog'["source"]
<1>1. l \in Seq(Trees!Lines) /\ Trees!ToSet(l) = {l[i] : i \in 1 .. Len(l)}
  BY TreesEntries DEF Trees!Convs
<1>2. m = Append(l, x)
  OBVIOUS
<1> HIDE DEF l, m
<1>3. /\ Len(m) = Len(l) + 1 /\ Len(l) \in Nat /\ m[Len(l) + 1] = x
      /\ \A i \in 1 .. Len(l) : m[i] = l[i]
      /\ DOMAIN m = 1 .. Len(m)
  BY <1>1, <1>2
<1>4. 1 .. Len(m) = 1 .. Len(l) \cup {Len(l) + 1}
  BY <1>3
<1>5. Trees!ToSet(m) = {m[i] : i \in 1 .. Len(m)}
  BY <1>3 DEF Trees!ToSet
<1>6. Trees!ToSet(m) = Trees!ToSet(l) \cup {x}
  BY <1>1, <1>3, <1>4, <1>5
<1> QED
  BY <1>1, <1>3, <1>4, <1>6 DEF l, m

(* A message is posted: it is the last of the transcript.                   *)
LEMMA TreesOrderPost ==
  ASSUME Trees!TypeOK, Trees!Locked, Trees!InStep, Trees!InOrder, NEW r \in TreeRuns, Trees!Post(r)
  PROVE Trees!InOrder'
<1> DEFINE l == treesLog["source"]
           m == treesLog'["source"]
           s == file["source"]
           x == Trees!Line(r, "user")
<1>1. x \in Trees!Lines
  BY DEF Trees!Line, Trees!Lines
<1>2. /\ Len(m) = Len(l) + 1 /\ Len(l) \in Nat /\ m[Len(l) + 1] = x
      /\ \A i \in 1 .. Len(l) : m[i] = l[i]
      /\ 1 .. Len(m) = 1 .. Len(l) \cup {Len(l) + 1}
      /\ Trees!ToSet(m) = Trees!ToSet(l) \cup {x} /\ Trees!ToSet(l) = {l[i] : i \in 1 .. Len(l)}
  BY <1>1, TreesPost, TreesAppendLine
<1>3. Trees!Agree(l, s) /\ \A o \in TreeRuns : Trees!RunInOrder(o, l, s)
  BY DEF Trees!InOrder
<1>4. /\ handler[r] = "new" /\ \A o \in TreeRuns : handler[o] # "waiting" /\ handler[o] # "replied"
      /\ handler'[r] = "waiting" /\ run'[r].at = "wait" /\ file' = file
      /\ \A o \in TreeRuns : o # r => run'[o] = run[o] /\ handler'[o] = handler[o]
  BY TreesPost DEF Trees!Post, Turns, Alone
<1>5. \A i \in 1 .. Len(l) : l[i] # x
  BY <1>2, <1>3, <1>4 DEF Trees!RunInOrder
<1>6. x.role = "user" /\ x.msg = r /\ \A o : Trees!Line(o, "user") = x => o = r
  BY TreesLines
<1>7. \A o : Trees!Line(o, "assistant") # x
  BY TreesLines
<1>8. x = Trees!Line(r, "user")
  OBVIOUS
<1>9. \A i \in 1 .. Len(m) : i \notin 1 .. Len(l) => i = Len(l) + 1 /\ m[i] = x
  BY <1>2
<1> HIDE DEF l, m, s, x
<1>10. Trees!Agree(m, s)
  <2>1. \A i, j \in 1 .. Len(m) : m[i] = m[j] => i = j
    BY <1>2, <1>3, <1>5, <1>9 DEF Trees!Agree
  <2>2. \A i \in 1 .. Len(m) : m[i].role = "assistant" =>
       /\ \E j \in 1 .. i - 1 : m[j] = Trees!Line(m[i].msg, "user")
       /\ \E k \in 1 .. Len(s) : s[k].kind = "reply" /\ s[k].msg = m[i].msg
    <3> SUFFICES ASSUME NEW i \in 1 .. Len(m), m[i].role = "assistant"
                 PROVE  /\ \E j \in 1 .. i - 1 : m[j] = Trees!Line(m[i].msg, "user")
                        /\ \E k \in 1 .. Len(s) : s[k].kind = "reply" /\ s[k].msg = m[i].msg
      OBVIOUS
    <3>1. i \in 1 .. Len(l) /\ m[i] = l[i]
      BY <1>2, <1>6, <1>9
    <3>2. PICK j \in 1 .. i - 1 : l[j] = Trees!Line(l[i].msg, "user")
      BY <1>3, <3>1 DEF Trees!Agree
    <3>3. j \in 1 .. Len(l)
      BY <1>2, <3>1
    <3> QED
      BY <1>2, <1>3, <3>1, <3>2, <3>3 DEF Trees!Agree
  <2>3. \A k \in 1 .. Len(s) : \E i \in 1 .. Len(m) : m[i] = Trees!Line(s[k].msg, "user")
    BY <1>2, <1>3 DEF Trees!Agree
  <2>4. \A k \in 1 .. Len(s) : Trees!Line(s[k].msg, "user") # x
    BY <1>2, <1>3, <1>5 DEF Trees!Agree
  <2>5. \A h, k \in 1 .. Len(s) : \A i, j \in 1 .. Len(m) :
       h < k /\ m[i] = Trees!Line(s[h].msg, "user") /\ m[j] = Trees!Line(s[k].msg, "user") => i <= j
    <3> SUFFICES ASSUME NEW h \in 1 .. Len(s), NEW k \in 1 .. Len(s), NEW i \in 1 .. Len(m),
                        NEW j \in 1 .. Len(m), h < k, m[i] = Trees!Line(s[h].msg, "user"),
                        m[j] = Trees!Line(s[k].msg, "user")
                 PROVE  i <= j
      OBVIOUS
    <3>1. i \in 1 .. Len(l) /\ j \in 1 .. Len(l) /\ m[i] = l[i] /\ m[j] = l[j]
      BY <1>2, <1>9, <2>4
    <3> QED
      BY <1>3, <3>1 DEF Trees!Agree
  <2> QED
    BY <2>1, <2>2, <2>3, <2>5 DEF Trees!Agree
<1>11. \A o \in TreeRuns : Trees!RunInOrder(o, treesLog["source"], file["source"])'
  <2> SUFFICES ASSUME NEW o \in TreeRuns
               PROVE  /\ Trees!Line(o, "user") \in Trees!ToSet(m) <=> handler'[o] # "new"
                      /\ Trees!Line(o, "assistant") \in Trees!ToSet(m) <=> handler'[o] = "done"
                      /\ handler'[o] \in {"waiting", "replied"} =>
                           \A i, j \in 1 .. Len(m) : m[i] = Trees!Line(o, "user") /\ m[j].role = "user" => j <= i
                      /\ run'[o].at \in Trees!Inside =>
                           \A i, j \in 1 .. Len(m) : \A k \in 1 .. Len(s) :
                             m[i] = Trees!Line(o, "user") /\ m[j] = Trees!Line(s[k].msg, "user") => j <= i
    BY <1>4 DEF Trees!RunInOrder, m, s
  <2>0. Trees!RunInOrder(o, l, s)
    BY <1>3
  <2>1. CASE o = r
    <3>1. \A i \in 1 .. Len(m) : m[i] = Trees!Line(o, "user") => i = Len(l) + 1
      BY <1>2, <1>5, <1>8, <1>9, <2>1
    <3>2. \A i, j \in 1 .. Len(m) : m[i] = Trees!Line(o, "user") => j <= i
      BY <1>2, <3>1
    <3>3. run'[o].at \notin Trees!Inside /\ handler'[o] = "waiting" /\ handler[o] = "new"
      BY <1>4, <2>1 DEF Trees!Inside
    <3>4. Trees!Line(o, "user") \in Trees!ToSet(m) /\ Trees!Line(o, "assistant") \notin Trees!ToSet(m)
      BY <1>2, <1>7, <1>8, <2>0, <2>1, <3>3 DEF Trees!RunInOrder
    <3> QED
      BY <3>2, <3>3, <3>4
  <2>2. CASE o # r
    <3>1. Trees!Line(o, "user") # x /\ Trees!Line(o, "assistant") # x
      BY <1>6, <1>7, <2>2
    <3>2. handler'[o] = handler[o] /\ handler[o] \notin {"waiting", "replied"} /\ run'[o] = run[o]
      BY <1>4, <2>2
    <3>3. \A k \in 1 .. Len(s) : Trees!Line(s[k].msg, "user") # x
      BY <1>2, <1>3, <1>5 DEF Trees!Agree
    <3>4. run[o].at \in Trees!Inside =>
            \A i, j \in 1 .. Len(m) : \A k \in 1 .. Len(s) :
              m[i] = Trees!Line(o, "user") /\ m[j] = Trees!Line(s[k].msg, "user") => j <= i
      BY <1>2, <1>9, <2>0, <3>1, <3>3 DEF Trees!RunInOrder
    <3> QED
      BY <1>2, <2>0, <3>1, <3>2, <3>4 DEF Trees!RunInOrder
  <2> QED
    BY <2>1, <2>2
<1> QED
  BY <1>4, <1>10, <1>11 DEF Trees!InOrder, m, s

(* An answer is delivered: its message and its reply are there.             *)
LEMMA TreesOrderAnswer ==
  ASSUME Trees!TypeOK, Trees!InStep, Trees!InOrder, NEW r \in TreeRuns, Trees!Answer(r)
  PROVE Trees!InOrder'
<1> DEFINE l == treesLog["source"]
           m == treesLog'["source"]
           s == file["source"]
           x == Trees!Line(r, "assistant")
<1>1. x \in Trees!Lines
  BY DEF Trees!Line, Trees!Lines
<1>2. /\ Len(m) = Len(l) + 1 /\ Len(l) \in Nat /\ m[Len(l) + 1] = x
      /\ \A i \in 1 .. Len(l) : m[i] = l[i]
      /\ 1 .. Len(m) = 1 .. Len(l) \cup {Len(l) + 1}
      /\ Trees!ToSet(m) = Trees!ToSet(l) \cup {x} /\ Trees!ToSet(l) = {l[i] : i \in 1 .. Len(l)}
  BY <1>1, TreesAnswer, TreesAppendLine
<1>3. Trees!Agree(l, s) /\ \A o \in TreeRuns : Trees!RunInOrder(o, l, s)
  BY DEF Trees!InOrder
<1>4. /\ handler[r] = "replied" /\ handler'[r] = "done" /\ file' = file /\ run' = run
      /\ \A o \in TreeRuns : o # r => handler'[o] = handler[o]
  BY TreesAnswer DEF Trees!Answer
<1>5. \A i \in 1 .. Len(l) : l[i] # x
  BY <1>2, <1>3, <1>4 DEF Trees!RunInOrder
<1>6. x.role = "assistant" /\ x.msg = r /\ \A o : Trees!Line(o, "assistant") = x => o = r
  BY TreesLines
<1>7. \A o : Trees!Line(o, "user") # x
  BY TreesLines
<1>8. x = Trees!Line(r, "assistant")
  OBVIOUS
<1>9. \A i \in 1 .. Len(m) : i \notin 1 .. Len(l) => i = Len(l) + 1 /\ m[i] = x
  BY <1>2
<1>10. PICK u \in 1 .. Len(l) : l[u] = Trees!Line(r, "user")
  <2>1. Trees!Line(r, "user") \in Trees!ToSet(l)
    BY <1>3, <1>4 DEF Trees!RunInOrder
  <2> QED
    BY <1>2, <2>1
<1>11. PICK v \in 1 .. Len(s) : s[v].kind = "reply" /\ s[v].msg = r
  <2>1. \E e \in Mine(r) : e.kind = "reply"
    BY <1>4, TreesFar DEF Trees!InStep, Far
  <2>2. Trees!Entries("source") = {s[i] : i \in 1 .. Len(s)}
    BY TreesEntries DEF Trees!Convs
  <2> QED
    BY <2>1, <2>2 DEF Mine
<1> HIDE DEF l, m, s, x
<1>12. Trees!Agree(m, s)
  <2>1. \A i, j \in 1 .. Len(m) : m[i] = m[j] => i = j
    <3>1. \A i, j \in 1 .. Len(l) : l[i] = l[j] => i = j
      BY <1>3 DEF Trees!Agree
    <3>2. \A i \in 1 .. Len(m) : \/ i \in 1 .. Len(l) /\ m[i] = l[i] /\ m[i] # x
                                 \/ i = Len(l) + 1 /\ m[i] = x
      BY <1>2, <1>5, <1>9
    <3> QED
      BY <3>1, <3>2
  <2>2. \A i \in 1 .. Len(m) : m[i].role = "assistant" =>
       /\ \E j \in 1 .. i - 1 : m[j] = Trees!Line(m[i].msg, "user")
       /\ \E k \in 1 .. Len(s) : s[k].kind = "reply" /\ s[k].msg = m[i].msg
    <3> SUFFICES ASSUME NEW i \in 1 .. Len(m), m[i].role = "assistant"
                 PROVE  /\ \E j \in 1 .. i - 1 : m[j] = Trees!Line(m[i].msg, "user")
                        /\ \E k \in 1 .. Len(s) : s[k].kind = "reply" /\ s[k].msg = m[i].msg
      OBVIOUS
    <3>1. CASE i \in 1 .. Len(l)
      <4>1. m[i] = l[i]
        BY <1>2, <3>1
      <4>2. PICK j \in 1 .. i - 1 : l[j] = Trees!Line(l[i].msg, "user")
        BY <1>3, <3>1, <4>1 DEF Trees!Agree
      <4>3. j \in 1 .. Len(l)
        BY <1>2, <3>1
      <4> QED
        BY <1>2, <1>3, <3>1, <4>1, <4>2, <4>3 DEF Trees!Agree
    <3>2. CASE i \notin 1 .. Len(l)
      <4>1. i = Len(l) + 1 /\ m[i].msg = r
        BY <1>6, <1>9, <3>2
      <4>2. u \in 1 .. i - 1 /\ m[u] = Trees!Line(r, "user")
        BY <1>2, <1>10, <4>1
      <4> QED
        BY <1>11, <4>1, <4>2
    <3> QED
      BY <3>1, <3>2
  <2>3. \A k \in 1 .. Len(s) : \E i \in 1 .. Len(m) : m[i] = Trees!Line(s[k].msg, "user")
    BY <1>2, <1>3 DEF Trees!Agree
  <2>5. \A h, k \in 1 .. Len(s) : \A i, j \in 1 .. Len(m) :
       h < k /\ m[i] = Trees!Line(s[h].msg, "user") /\ m[j] = Trees!Line(s[k].msg, "user") => i <= j
    <3> SUFFICES ASSUME NEW h \in 1 .. Len(s), NEW k \in 1 .. Len(s), NEW i \in 1 .. Len(m),
                        NEW j \in 1 .. Len(m), h < k, m[i] = Trees!Line(s[h].msg, "user"),
                        m[j] = Trees!Line(s[k].msg, "user")
                 PROVE  i <= j
      OBVIOUS
    <3>1. i \in 1 .. Len(l) /\ j \in 1 .. Len(l) /\ m[i] = l[i] /\ m[j] = l[j]
      BY <1>2, <1>7, <1>9
    <3>2. l[i] = Trees!Line(s[h].msg, "user") /\ l[j] = Trees!Line(s[k].msg, "user")
      BY <3>1
    <3>3. \A a, b \in 1 .. Len(s) : \A c, d \in 1 .. Len(l) :
            a < b /\ l[c] = Trees!Line(s[a].msg, "user") /\ l[d] = Trees!Line(s[b].msg, "user") => c <= d
      BY <1>3 DEF Trees!Agree
    <3> QED
      BY <3>1, <3>2, <3>3
  <2> QED
    BY <2>1, <2>2, <2>3, <2>5 DEF Trees!Agree
<1>13. \A o \in TreeRuns : Trees!RunInOrder(o, treesLog["source"], file["source"])'
  <2> SUFFICES ASSUME NEW o \in TreeRuns
               PROVE  /\ Trees!Line(o, "user") \in Trees!ToSet(m) <=> handler'[o] # "new"
                      /\ Trees!Line(o, "assistant") \in Trees!ToSet(m) <=> handler'[o] = "done"
                      /\ handler'[o] \in {"waiting", "replied"} =>
                           \A i, j \in 1 .. Len(m) : m[i] = Trees!Line(o, "user") /\ m[j].role = "user" => j <= i
                      /\ run'[o].at \in Trees!Inside =>
                           \A i, j \in 1 .. Len(m) : \A k \in 1 .. Len(s) :
                             m[i] = Trees!Line(o, "user") /\ m[j] = Trees!Line(s[k].msg, "user") => j <= i
    BY <1>4 DEF Trees!RunInOrder, m, s
  <2>0. Trees!RunInOrder(o, l, s)
    BY <1>3
  <2>1. Trees!Line(o, "user") # x /\ (Trees!Line(o, "assistant") = x => o = r)
    BY <1>6, <1>7
  <2>2. run[o].at \in Trees!Inside =>
            \A i, j \in 1 .. Len(m) : \A k \in 1 .. Len(s) :
              m[i] = Trees!Line(o, "user") /\ m[j] = Trees!Line(s[k].msg, "user") => j <= i
    BY <1>2, <1>7, <1>9, <2>0 DEF Trees!RunInOrder
  <2>3. handler[o] \in {"waiting", "replied"} =>
          \A i, j \in 1 .. Len(m) : m[i] = Trees!Line(o, "user") /\ m[j].role = "user" => j <= i
    BY <1>2, <1>6, <1>7, <1>9, <2>0 DEF Trees!RunInOrder
  <2>4. /\ Trees!Line(o, "user") \in Trees!ToSet(m) <=> handler'[o] # "new"
        /\ Trees!Line(o, "assistant") \in Trees!ToSet(m) <=> handler'[o] = "done"
    BY <1>2, <1>4, <1>8, <2>0, <2>1 DEF Trees!RunInOrder
  <2>5. handler'[o] \in {"waiting", "replied"} => handler[o] \in {"waiting", "replied"}
    BY <1>4
  <2> QED
    BY <1>4, <2>2, <2>3, <2>4, <2>5
<1> QED
  BY <1>4, <1>12, <1>13 DEF Trees!InOrder, m, s

(* The other steps: a run that opens is the last, a restart ends them all.  *)
LEMMA TreesOrderTurns ==
  ASSUME Trees!TypeOK, Trees!Locked, Trees!InStep, Trees!InOrder, NEW r \in TreeRuns, Trees!Deadline(r) \/ Trees!Open(r) \/ Trees!Fails(r)
  PROVE Trees!InOrder'
<1> DEFINE l == treesLog["source"]
           s == file["source"]
<1>1. Trees!Agree(l, s) /\ \A o \in TreeRuns : Trees!RunInOrder(o, l, s)
  BY DEF Trees!InOrder
<1>2. UNCHANGED <<file, treesLog>> /\ \A o \in TreeRuns : o # r => run'[o] = run[o] /\ handler'[o] = handler[o]
  BY TreesDeadline, TreesOpen, TreesFails DEF Turns, Alone
<1>3. (handler[r] # "new" /\ handler[r] # "done") \/ Trees!Fails(r) \/ Trees!Open(r)
  BY TreesDeadline
<1>4. /\ handler[r] \in {"waiting", "failed"} /\ handler'[r] \in {"waiting", "failed"}
      /\ handler[r] = "failed" => handler'[r] = "failed"
      /\ run'[r].at \in Trees!Inside => handler[r] = "waiting" \/ run[r].at \in Trees!Inside
  <2>1. CASE Trees!Deadline(r)
    BY <2>1, TreesDeadline
  <2>2. CASE Trees!Open(r)
    <3>1. Far(r)
      BY TreesFar DEF Trees!InStep
    <3>2. run[r].at = "wait" /\ handler[r] \in {"new", "waiting", "replied", "done", "failed"}
      BY <2>2, TreesOpen DEF Trees!TypeOK
    <3>3. handler[r] \in {"waiting", "failed"}
      BY <3>1, <3>2 DEF Far
    <3>4. \/ run'[r].at = "ended" /\ handler'[r] = "failed"
          \/ handler'[r] = handler[r] /\ handler[r] # "failed"
      BY <2>2, TreesOpen DEF Turns
    <3> QED
      BY <3>3, <3>4 DEF Trees!Inside
  <2>3. CASE Trees!Fails(r)
    <3>1. Far(r) /\ run[r].at \in Trees!Inside
      BY <2>3, TreesFar, TreesFails DEF Trees!InStep
    <3>2. handler'[r] = IF handler[r] = "waiting" THEN "failed" ELSE handler[r]
      BY <2>3, TreesFails DEF Turns
    <3> QED
      BY <3>1, <3>2 DEF Far
  <2> QED
    BY <2>1, <2>2, <2>3
<1>5. l \in Seq(Trees!Lines)
  BY TreesEntries DEF Trees!Convs
<1> HIDE DEF l, s
<1>6. \A o \in TreeRuns : Trees!RunInOrder(o, treesLog["source"], file["source"])'
  <2> SUFFICES ASSUME NEW o \in TreeRuns
               PROVE  /\ Trees!Line(o, "user") \in Trees!ToSet(l) <=> handler'[o] # "new"
                      /\ Trees!Line(o, "assistant") \in Trees!ToSet(l) <=> handler'[o] = "done"
                      /\ handler'[o] \in {"waiting", "replied"} =>
                           \A i, j \in 1 .. Len(l) : l[i] = Trees!Line(o, "user") /\ l[j].role = "user" => j <= i
                      /\ run'[o].at \in Trees!Inside =>
                           \A i, j \in 1 .. Len(l) : \A k \in 1 .. Len(s) :
                             l[i] = Trees!Line(o, "user") /\ l[j] = Trees!Line(s[k].msg, "user") => j <= i
    BY <1>2 DEF Trees!RunInOrder, l, s
  <2>1. Trees!RunInOrder(o, l, s)
    BY <1>1
  <2>2. CASE o # r
    BY <1>2, <2>1, <2>2 DEF Trees!RunInOrder
  <2>3. CASE o = r
    <3>1. \A k : Trees!Line(k, "user").role = "user"
      BY TreesLines
    <3>2. handler[r] = "waiting" =>
            \A i, j \in 1 .. Len(l) : l[i] = Trees!Line(o, "user") /\ l[j].role = "user" => j <= i
      BY <2>1, <2>3 DEF Trees!RunInOrder
    <3>3. run'[o].at \in Trees!Inside =>
            \A i, j \in 1 .. Len(l) : \A k \in 1 .. Len(s) :
              l[i] = Trees!Line(o, "user") /\ l[j] = Trees!Line(s[k].msg, "user") => j <= i
      BY <1>4, <2>1, <2>3, <3>1, <3>2 DEF Trees!RunInOrder
    <3>4. /\ Trees!Line(o, "user") \in Trees!ToSet(l) <=> handler[o] # "new"
          /\ Trees!Line(o, "assistant") \in Trees!ToSet(l) <=> handler[o] = "done"
      BY <2>1 DEF Trees!RunInOrder
    <3> QED
      BY <1>4, <2>3, <3>2, <3>3, <3>4
  <2> QED
    BY <2>2, <2>3
<1> QED
  BY <1>1, <1>2, <1>6 DEF Trees!InOrder, l, s

(* A restart leaves the order of both files alone.                           *)
LEMMA TreesOrderCrash ==
  ASSUME Trees!TypeOK, Trees!InOrder, Trees!Crash
  PROVE Trees!InOrder'
<1>1. \A r \in TreeRuns : /\ handler'[r] = (IF handler[r] \in {"new", "done"} THEN handler[r] ELSE "failed")
                      /\ run'[r].at \notin Trees!Inside
  BY TreesCrash DEF Trees!NewRun, Trees!Inside
<1>2. file'["source"] = file["source"] /\ treesLog'["source"] = treesLog["source"]
  BY TreesCrash
<1>3. \A r \in TreeRuns : Trees!RunInOrder(r, treesLog["source"], file["source"])'
  BY <1>1, <1>2 DEF Trees!InOrder, Trees!RunInOrder
<1> QED
  BY <1>2, <1>3 DEF Trees!InOrder

(* A fork leaves the order of both files alone.                              *)
LEMMA TreesOrderFork ==
  ASSUME Trees!InOrder, file'["source"] = file["source"], treesLog'["source"] = treesLog["source"],
         UNCHANGED <<run, handler>>
  PROVE Trees!InOrder'
<1>1. \A r \in TreeRuns : Trees!RunInOrder(r, treesLog["source"], file["source"])'
  BY DEF Trees!InOrder, Trees!RunInOrder
<1> QED
  BY <1>1 DEF Trees!InOrder

-----------------------------------------------------------------------------
(* The fork                                                                 *)

(* A fork that neither copies nor is read from keeps what it is.            *)
LEMMA TreesForkBeside ==
  ASSUME Trees!TypeOK, Trees!Chained, Trees!ForkInStep, Trees!ForkOpens, Trees!ForkAgrees, fork' = fork,
         file'["fork"] = file["fork"], treesLog'["fork"] = treesLog["fork"],
         file'["source"] = file["source"] \/ fork.at \notin {"resolve", "copy", "lines"},
         ids' \in {ids, ids + 1},
         \A r \in TreeRuns : run[r].again = "yes" => run'[r].again = "yes"
  PROVE Trees!ForkInStep' /\ Trees!ForkOpens' /\ Trees!ForkAgrees'
<1>1. Trees!Entries("fork")' = Trees!Entries("fork") /\ Trees!Leaf("fork")' = Trees!Leaf("fork") /\ Trees!Until' = Trees!Until
  BY DEF Trees!Entries, Trees!Leaf, Trees!Until, Trees!At
<1>2. \A e \in Trees!Entries("fork") : e.kind # "provenance" => e.msg \in TreeRuns
  <2>1. Trees!Entries("fork") = {file["fork"][i] : i \in 1 .. Len(file["fork"])}
    BY TreesEntries DEF Trees!Convs
  <2> QED
    BY <2>1 DEF Trees!ForkOpens
<1>3. Trees!ForkIdle'
  BY DEF Trees!ForkIdle, Trees!ForkInStep
<1>4. Trees!ForkReads'
  BY DEF Trees!ForkReads, Trees!ForkInStep
<1>5. Trees!ForkCopies'
  BY DEF Trees!ForkCopies, Trees!ForkInStep
<1>6. Trees!ForkLines'
  BY <1>1 DEF Trees!ForkLines, Trees!ForkInStep
<1>7. Trees!ForkCut'
  <2>1. CASE fork.at = "copy"
    <3>1. \A e \in fork.todo : e.msg \in TreeRuns
      <4>1. \A i \in 1 .. Len(file["source"]) : file["source"][i].msg \in TreeRuns
        BY DEF Trees!Chained
      <4>2. PICK n \in Len(file["fork"]) .. Len(file["source"]) :
               fork.todo = {file["source"][i] : i \in Len(file["fork"]) + 1 .. n}
        BY <2>1 DEF Trees!ForkInStep, Trees!ForkCopies
      <4>3. Len(file["fork"]) \in Nat /\ Len(file["source"]) \in Nat
        BY DEF Trees!TypeOK, Trees!Convs
      <4> QED
        BY <4>1, <4>2, <4>3
    <3>2. \A e \in Trees!Whole : e.kind # "provenance" => e.msg \in TreeRuns
      BY <1>2, <3>1 DEF Trees!Whole
    <3>3. Trees!Whole' = Trees!Whole
      BY <1>1 DEF Trees!Whole
    <3> QED
      BY <1>1, <2>1, <3>2, <3>3 DEF Trees!ForkCut, Trees!ForkInStep
  <2>2. CASE fork.at = "lines"
    <3>1. Trees!Whole' = Trees!Whole /\ Trees!Whole = Trees!Entries("fork")
      BY <1>1, <2>2 DEF Trees!Whole, Trees!ForkInStep, Trees!ForkLines
    <3> QED
      BY <1>1, <1>2, <2>2, <3>1 DEF Trees!ForkCut, Trees!ForkInStep
  <2> QED
    BY <2>1, <2>2 DEF Trees!ForkCut
<1>8. Trees!ForkOpens'
  <2>1. \A i \in 1 .. Len(file["fork"]) : file["fork"][i].id <= ids'
    <3>1. \A i \in 1 .. Len(file["fork"]) : file["fork"][i].id \in Nat
      <4>1. \A i \in 1 .. Len(file["fork"]) : file["fork"][i] \in Trees!EntryRecord
        BY DEF Trees!TypeOK, Trees!Convs
      <4> QED
        BY <4>1 DEF Trees!EntryRecord
    <3>2. ids \in Nat
      BY DEF Trees!TypeOK
    <3> QED
      BY <3>1, <3>2 DEF Trees!ForkOpens
  <2> QED
    BY <2>1 DEF Trees!ForkOpens
<1>9. Trees!ForkAgrees'
  BY <1>1, <1>2 DEF Trees!ForkAgrees
<1> QED
  BY <1>3, <1>4, <1>5, <1>6, <1>7, <1>8, <1>9 DEF Trees!ForkInStep

(* No fork, or one that begins.                                             *)
LEMMA TreesForkNone ==
  ASSUME fork'.at = "none", file'["fork"] = <<>>, treesLog'["fork"] = <<>>
  PROVE Trees!ForkInStep' /\ Trees!ForkOpens' /\ Trees!ForkAgrees'
  BY DEF Trees!ForkInStep, Trees!ForkIdle, Trees!ForkReads, Trees!ForkCopies, Trees!ForkLines, Trees!ForkCut, Trees!ForkOpens, Trees!ForkAgrees

(* A fork begins with a transcript that agrees with the source.              *)
LEMMA TreesForkBegins ==
  ASSUME Trees!TypeOK, Trees!InOrder, Trees!ForkInStep, NEW m \in TreeRuns, NEW role \in {"user", "assistant"},
         Trees!BeginFork(m, role)
  PROVE Trees!ForkInStep' /\ Trees!ForkOpens' /\ Trees!ForkAgrees'
<1>1. /\ fork.at = "none" /\ fork'.at = "resolve" /\ fork'.message = m /\ fork'.role = role
      /\ fork'.log = treesLog["source"] /\ Trees!Line(m, role) \in Trees!ToSet(treesLog["source"])
      /\ UNCHANGED <<file, treesLog>>
  BY TreesBeginFork
<1>2. file["fork"] = <<>> /\ treesLog["fork"] = <<>>
  BY <1>1 DEF Trees!ForkInStep, Trees!ForkIdle
<1>3. Trees!Agree(treesLog["source"], file["source"])
  BY DEF Trees!InOrder
<1>4. \E i \in 1 .. Len(treesLog["source"]) : treesLog["source"][i] = Trees!Line(m, role)
  BY <1>1, TreesEntries DEF Trees!Convs
<1>5. Trees!ForkReads'
  BY <1>1, <1>3, <1>4 DEF Trees!ForkReads
<1> QED
  BY <1>1, <1>2, <1>5 DEF Trees!ForkInStep, Trees!ForkIdle, Trees!ForkCopies, Trees!ForkLines, Trees!ForkCut, Trees!ForkOpens, Trees!ForkAgrees

(* The entries of the source have their own ids, in order.                  *)
LEMMA TreesDistinct ==
  ASSUME Trees!TypeOK, Trees!Chained
  PROVE \A i, j \in 1 .. Len(file["source"]) :
          /\ i < j => file["source"][i].id < file["source"][j].id
          /\ file["source"][i].id = file["source"][j].id => i = j
          /\ file["source"][i].id \in Nat
<1> DEFINE s == file["source"]
<1>1. \A i \in 1 .. Len(s) : s[i].id \in Nat
  <2>1. \A i \in 1 .. Len(s) : s[i] \in Trees!EntryRecord
    BY DEF Trees!TypeOK, Trees!Convs
  <2> QED
    BY <2>1 DEF Trees!EntryRecord
<1>2. Len(s) \in Nat
  BY DEF Trees!TypeOK, Trees!Convs
<1>3. \A j \in 1 .. Len(s) : \A i \in 1 .. j - 1 : s[i].id < s[j].id
  BY DEF Trees!Chained
<1> HIDE DEF s
<1>4. \A i, j \in 1 .. Len(s) : i < j => s[i].id < s[j].id
  BY <1>2, <1>3
<1>5. \A i, j \in 1 .. Len(s) : s[i].id = s[j].id => i = j
  <2> SUFFICES ASSUME NEW i \in 1 .. Len(s), NEW j \in 1 .. Len(s), i # j
               PROVE  s[i].id # s[j].id
    OBVIOUS
  <2>1. i < j \/ j < i
    BY <1>2
  <2>2. s[i].id \in Nat /\ s[j].id \in Nat
    BY <1>1
  <2> QED
    BY <1>4, <2>1, <2>2
<1> QED
  BY <1>1, <1>4, <1>5 DEF s

(* A path of the source is its entries up to one of them.                   *)
LEMMA TreesPrefix ==
  ASSUME Trees!TypeOK, Trees!Chained, NEW n \in 0 .. Len(file["source"])
  PROVE {e \in Trees!Entries("source") : e.id \in {file["source"][j].id : j \in 1 .. n}}
          = {file["source"][i] : i \in 1 .. n}
<1> DEFINE s == file["source"]
<1>1. Len(s) \in Nat
  BY DEF Trees!TypeOK, Trees!Convs
<1>2. Trees!Entries("source") = {s[i] : i \in 1 .. Len(s)}
  BY TreesEntries DEF Trees!Convs
<1>3. \A i, j \in 1 .. Len(s) : s[i].id = s[j].id => i = j
  BY TreesDistinct
<1> HIDE DEF s
<1>4. 1 .. n \subseteq 1 .. Len(s)
  BY <1>1 DEF s
<1> QED
  BY <1>2, <1>3, <1>4 DEF s

(* The anchor of a message is one entry of the source.                      *)
LEMMA TreesAnchor ==
  ASSUME Trees!TypeOK, Trees!Chained, NEW m, Trees!Anchored(m) # {}
  PROVE \E k \in 1 .. Len(file["source"]) :
          /\ file["source"][k].kind = "user" /\ file["source"][k].msg = m
          /\ file["source"][k] \in Trees!Prompts(m) /\ Trees!Anchored(m) = {file["source"][k]}
<1> DEFINE s == file["source"]
<1>1. Trees!Entries("source") = {s[i] : i \in 1 .. Len(s)}
  BY TreesEntries DEF Trees!Convs
<1>2. \A i, j \in 1 .. Len(s) : s[i].id = s[j].id => i = j
  BY TreesDistinct
<1>3. PICK k \in 1 .. Len(s) : s[k] \in Trees!Anchored(m)
  BY <1>1 DEF Trees!Anchored, Trees!Prompts
<1>4. s[k] \in Trees!Prompts(m) /\ s[k].id = Trees!LastOf(Trees!Labels(m)).of
  BY <1>3 DEF Trees!Anchored
<1>5. \A e \in Trees!Anchored(m) : e.id = s[k].id /\ \E i \in 1 .. Len(s) : e = s[i]
  BY <1>1, <1>4 DEF Trees!Anchored, Trees!Prompts
<1>6. \A e \in Trees!Anchored(m) : e = s[k]
  BY <1>2, <1>5
<1> QED
  BY <1>3, <1>4, <1>6 DEF Trees!Prompts

(* What the fork takes of the two files agrees.                             *)
Cuts(n) ==
  /\ \A i \in 1 .. Trees!Until : fork.log[i].role = "assistant" =>
       \E k \in 1 .. n : file["source"][k].kind = "reply" /\ file["source"][k].msg = fork.log[i].msg
  /\ \A k \in 1 .. n :
       \/ run[file["source"][k].msg].again = "yes"
       \/ \E i \in 1 .. Trees!Until : fork.log[i] = Trees!Line(file["source"][k].msg, "user")

(* A branch that ends with the turn before message u, or with the first     *)
(* entry of it when it is the message of the fork.                          *)
LEMMA TreesCut ==
  ASSUME Trees!TypeOK, Trees!Chained, Trees!InStep, Trees!ForkInStep, fork.at = "resolve", Trees!Branches # {}
  PROVE \E n \in 0 .. Len(file["source"]) :
          /\ {e \in Trees!Entries("source") : \E b \in Trees!Branches : e.id \in b}
               = {file["source"][i] : i \in 1 .. n}
          /\ Cuts(n)
<1> DEFINE s == file["source"]
           l == fork.log
<1>1. /\ Trees!Until \in 1 .. Len(l) /\ l[Trees!Until] = Trees!Line(fork.message, fork.role)
      /\ l \in Seq(Trees!Lines) /\ Len(l) \in Nat /\ Trees!Until \in Nat
  BY TreesUntil
<1>2. Trees!Agree(l, s) /\ fork.role # "none"
  BY DEF Trees!ForkInStep, Trees!ForkReads
<1>3. Len(s) \in Nat
  BY DEF Trees!TypeOK, Trees!Convs
<1>4. \A i, j \in 1 .. Len(l) : l[i] = l[j] => i = j
  BY <1>2 DEF Trees!Agree
<1>5. \A i \in 1 .. Len(l) : l[i].role = "assistant" =>
        /\ \E j \in 1 .. i - 1 : l[j] = Trees!Line(l[i].msg, "user")
        /\ \E k \in 1 .. Len(s) : s[k].kind = "reply" /\ s[k].msg = l[i].msg
  BY <1>2 DEF Trees!Agree
<1>6. \A k \in 1 .. Len(s) : \E i \in 1 .. Len(l) : l[i] = Trees!Line(s[k].msg, "user")
  BY <1>2 DEF Trees!Agree
<1>7. \A h, k \in 1 .. Len(s) : \A i, j \in 1 .. Len(l) :
       h < k /\ l[i] = Trees!Line(s[h].msg, "user") /\ l[j] = Trees!Line(s[k].msg, "user") => i <= j
  BY <1>2 DEF Trees!Agree
<1>8. \A k \in 1 .. Len(s) : s[k].anc = {s[j].id : j \in 1 .. k}
  BY DEF Trees!Chained
<1>9. \A n \in 0 .. Len(s) :
        {e \in Trees!Entries("source") : e.id \in {s[j].id : j \in 1 .. n}} = {s[i] : i \in 1 .. n}
  BY TreesPrefix
<1>10. \A k \in 1 .. Len(s) : s[k].msg \in TreeRuns
  BY DEF Trees!Chained
<1> HIDE DEF s, l
<1>11. CASE fork.role = "user"
  <2>1. Trees!Branches = {e.anc : e \in Trees!Anchored(fork.message)}
    BY <1>11 DEF Trees!Branches
  <2>2. PICK n \in 1 .. Len(s) : s[n].msg = fork.message /\ Trees!Anchored(fork.message) = {s[n]}
    <3>1. Trees!Anchored(fork.message) # {}
      BY <2>1
    <3> QED
      BY <3>1, TreesAnchor DEF s
  <2>3. Trees!Branches = {{s[j].id : j \in 1 .. n}}
    BY <1>8, <2>1, <2>2
  <2>4. l[Trees!Until] = Trees!Line(s[n].msg, "user") /\ l[Trees!Until].role = "user"
    BY <1>1, <1>11, <2>2, TreesLines
  <2>5. \A i \in 1 .. Trees!Until : l[i].role = "assistant" =>
          \E k \in 1 .. n : s[k].kind = "reply" /\ s[k].msg = l[i].msg
    <3> SUFFICES ASSUME NEW i \in 1 .. Trees!Until, l[i].role = "assistant"
                 PROVE  \E k \in 1 .. n : s[k].kind = "reply" /\ s[k].msg = l[i].msg
      OBVIOUS
    <3>0. i \in 1 .. Len(l)
      BY <1>1
    <3>1. PICK j \in 1 .. i - 1 : l[j] = Trees!Line(l[i].msg, "user")
      BY <1>5, <3>0
    <3>2. PICK k \in 1 .. Len(s) : s[k].kind = "reply" /\ s[k].msg = l[i].msg
      BY <1>5, <3>0
    <3>3. j \in 1 .. Len(l) /\ j < Trees!Until
      BY <1>1
    <3>4. l[j] = Trees!Line(s[k].msg, "user")
      BY <3>1, <3>2
    <3>5. ~(n < k)
      BY <1>1, <1>7, <2>4, <3>3, <3>4
    <3> QED
      BY <1>3, <3>2, <3>5
  <2>6. \A k \in 1 .. n : \E i \in 1 .. Trees!Until : l[i] = Trees!Line(s[k].msg, "user")
    <3> SUFFICES ASSUME NEW k \in 1 .. n
                 PROVE  \E i \in 1 .. Trees!Until : l[i] = Trees!Line(s[k].msg, "user")
      OBVIOUS
    <3>1. CASE k = n
      BY <1>1, <2>4, <3>1
    <3>2. CASE k < n
      <4>1. k \in 1 .. Len(s)
        BY <1>3
      <4>2. PICK i \in 1 .. Len(l) : l[i] = Trees!Line(s[k].msg, "user")
        BY <1>6, <4>1
      <4>3. i <= Trees!Until
        BY <1>1, <1>7, <2>4, <3>2, <4>1, <4>2
      <4> QED
        BY <1>1, <4>2, <4>3
    <3> QED
      BY <1>3, <3>1, <3>2
  <2>7. {e \in Trees!Entries("source") : \E b \in Trees!Branches : e.id \in b} = {s[i] : i \in 1 .. n}
    <3>1. n \in 0 .. Len(s)
      BY <1>3
    <3>2. {e \in Trees!Entries("source") : e.id \in {s[j].id : j \in 1 .. n}} = {s[i] : i \in 1 .. n}
      BY <1>9, <3>1
    <3> QED
      BY <2>3, <3>2
  <2> QED
    <3>1. Cuts(n)
      BY <2>5, <2>6 DEF Cuts, s, l
    <3>2. n \in 0 .. Len(s)
      BY <1>3
    <3> QED
      BY <2>7, <3>1, <3>2 DEF s
<1>12. CASE fork.role # "user" /\ Trees!NextUsers = {}
  <2>1. Trees!Branches = {{s[j].id : j \in 1 .. Len(s)}}
    BY <1>12, TreesLeaf DEF Trees!Branches, s
  <2>2. \A i \in 1 .. Trees!Until : l[i].role = "assistant" =>
          \E k \in 1 .. Len(s) : s[k].kind = "reply" /\ s[k].msg = l[i].msg
    BY <1>1, <1>5
  <2>3. \A k \in 1 .. Len(s) : \E i \in 1 .. Trees!Until : l[i] = Trees!Line(s[k].msg, "user")
    <3> SUFFICES ASSUME NEW k \in 1 .. Len(s)
                 PROVE  \E i \in 1 .. Trees!Until : l[i] = Trees!Line(s[k].msg, "user")
      OBVIOUS
    <3>1. PICK i \in 1 .. Len(l) : l[i] = Trees!Line(s[k].msg, "user")
      BY <1>6
    <3>2. ~(i \in Trees!Until + 1 .. Len(l))
      BY <1>12, <3>1, TreesLines DEF Trees!NextUsers, Trees!Until, l
    <3> QED
      BY <1>1, <3>1, <3>2
  <2>4. {e \in Trees!Entries("source") : \E b \in Trees!Branches : e.id \in b} = {s[i] : i \in 1 .. Len(s)}
    <3>1. {e \in Trees!Entries("source") : e.id \in {s[j].id : j \in 1 .. Len(s)}} = {s[i] : i \in 1 .. Len(s)}
      BY <1>3, <1>9
    <3> QED
      BY <2>1, <3>1
  <2> QED
    <3>1. Cuts(Len(s))
      BY <2>2, <2>3 DEF Cuts, s, l
    <3>2. Len(s) \in 0 .. Len(s)
      BY <1>3
    <3> QED
      BY <2>4, <3>1, <3>2 DEF s
<1>13. CASE fork.role # "user" /\ Trees!NextUsers # {}
  <2>1. Trees!NextUsers = {i \in Trees!Until + 1 .. Len(l) : l[i].role = "user"}
    BY DEF Trees!NextUsers, Trees!Until, l
  <2>2. PICK q \in Trees!NextUsers : \A j \in Trees!NextUsers : q <= j
    <3>1. Trees!NextUsers \subseteq Nat
      BY <1>1, <2>1
    <3> QED
      BY <1>13, <3>1, PlanLeast
  <2>3. q \in Trees!Until + 1 .. Len(l) /\ l[q].role = "user" /\ q \in 1 .. Len(l)
    BY <1>1, <2>1, <2>2
  <2>4. Trees!NextUser = l[q].msg
    <3>1. \A p \in Trees!NextUsers : (\A j \in Trees!NextUsers : p <= j) => p = q
      <4>1. Trees!NextUsers \subseteq Nat
        BY <1>1, <2>1
      <4> QED
        BY <2>2, <4>1
    <3>2. (CHOOSE i \in Trees!NextUsers : \A j \in Trees!NextUsers : i <= j) = q
      BY <2>2, <3>1
    <3> QED
      BY <3>2 DEF Trees!NextUser, l
  <2>5. l[q] = Trees!Line(Trees!NextUser, "user")
    <3>1. l[q] \in Trees!Lines
      BY <1>1, <2>3
    <3> QED
      BY <2>3, <2>4, <3>1 DEF Trees!Line, Trees!Lines
  <2>6. Trees!Branches = {Trees!Before(e) : e \in Trees!Anchored(Trees!NextUser)}
    BY <1>13 DEF Trees!Branches
  <2>7. PICK m \in 1 .. Len(s) : s[m].msg = Trees!NextUser /\ s[m] \in Trees!Prompts(Trees!NextUser)
                                 /\ Trees!Anchored(Trees!NextUser) = {s[m]}
    <3>1. Trees!Anchored(Trees!NextUser) # {}
      BY <2>6
    <3> QED
      BY <3>1, TreesAnchor DEF s
  <2> DEFINE n == m - 1
  <2>8. n \in 0 .. Len(s) /\ 1 .. n \subseteq 1 .. Len(s)
    BY <1>3
  <2>9. Trees!Branches = {{s[j].id : j \in 1 .. n}}
    <3>1. Trees!Before(s[m]) = {s[j].id : j \in 1 .. m} \ {s[m].id}
      BY <1>8 DEF Trees!Before
    <3>2. \A i, j \in 1 .. Len(s) : s[i].id = s[j].id => i = j
      BY TreesDistinct DEF s
    <3>3. 1 .. m = 1 .. n \cup {m} /\ m \notin 1 .. n
      BY <1>3
    <3>4. {s[j].id : j \in 1 .. m} \ {s[m].id} = {s[j].id : j \in 1 .. n}
      BY <2>8, <3>2, <3>3
    <3> QED
      <4>1. Trees!Branches = {Trees!Before(s[m])}
        BY <2>6, <2>7
      <4> QED
        BY <3>1, <3>4, <4>1
  <2>10. \A i \in 1 .. Trees!Until : l[i].role = "assistant" =>
          \E k \in 1 .. n : s[k].kind = "reply" /\ s[k].msg = l[i].msg
    <3> SUFFICES ASSUME NEW i \in 1 .. Trees!Until, l[i].role = "assistant"
                 PROVE  \E k \in 1 .. n : s[k].kind = "reply" /\ s[k].msg = l[i].msg
      OBVIOUS
    <3>0. i \in 1 .. Len(l)
      BY <1>1
    <3>1. PICK j \in 1 .. i - 1 : l[j] = Trees!Line(l[i].msg, "user")
      BY <1>5, <3>0
    <3>2. PICK k \in 1 .. Len(s) : s[k].kind = "reply" /\ s[k].msg = l[i].msg
      BY <1>5, <3>0
    <3>3. j \in 1 .. Len(l) /\ j < q
      BY <1>1, <2>3
    <3>4. l[j] = Trees!Line(s[k].msg, "user")
      BY <3>1, <3>2
    <3>5. l[q] = Trees!Line(s[m].msg, "user")
      BY <2>5, <2>7
    <3>6. ~(m < k)
      BY <1>7, <2>3, <3>3, <3>4, <3>5
    <3>7. k # m
      BY <1>4, <2>3, <3>3, <3>4, <3>5
    <3> QED
      BY <1>3, <3>2, <3>6, <3>7
  <2>11. \A k \in 1 .. n : run[s[k].msg].again = "yes" \/ \E i \in 1 .. Trees!Until : l[i] = Trees!Line(s[k].msg, "user")
    <3> SUFFICES ASSUME NEW k \in 1 .. n, ~(\E i \in 1 .. Trees!Until : l[i] = Trees!Line(s[k].msg, "user"))
                 PROVE  run[s[k].msg].again = "yes"
      OBVIOUS
    <3>1. k \in 1 .. Len(s) /\ k < m
      BY <1>3
    <3>2. PICK i \in 1 .. Len(l) : l[i] = Trees!Line(s[k].msg, "user")
      BY <1>6, <3>1
    <3>3. i <= q
      BY <1>7, <2>3, <2>5, <2>7, <3>1, <3>2
    <3>4. i \in Trees!NextUsers
      BY <1>1, <2>1, <3>2, TreesLines
    <3>5. i = q
      <4>1. q <= i
        BY <2>2, <3>4
      <4> QED
        BY <1>1, <2>3, <3>3, <4>1
    <3>6. s[k].msg = Trees!NextUser
      BY <2>5, <3>2, <3>5, TreesLines
    <3>7. s[k] \in Mine(Trees!NextUser) /\ s[k].id < s[m].id
      <4>1. Trees!Entries("source") = {s[i_1] : i_1 \in 1 .. Len(s)}
        BY TreesEntries DEF Trees!Convs, s
      <4>2. s[k].id < s[m].id
        BY <3>1, TreesDistinct DEF s
      <4> QED
        BY <3>1, <3>6, <4>1, <4>2 DEF Mine
    <3>8. Trees!NextUser \in TreeRuns
      BY <1>10, <3>1, <3>6
    <3>9. Twice(Trees!NextUser)
      BY <3>8, TreesFar DEF Trees!InStep
    <3> QED
      BY <2>7, <3>6, <3>7, <3>9 DEF Twice
  <2>12. {e \in Trees!Entries("source") : \E b \in Trees!Branches : e.id \in b} = {s[i] : i \in 1 .. n}
    <3>2. {e \in Trees!Entries("source") : e.id \in {s[j].id : j \in 1 .. n}} = {s[i] : i \in 1 .. n}
      BY <1>9, <2>8
    <3> QED
      BY <2>9, <3>2
  <2> QED
    BY <2>8, <2>10, <2>11, <2>12 DEF Cuts, s, l
<1> QED
  BY <1>11, <1>12, <1>13

(* The branch is found, or the fork ends.                                   *)
LEMMA TreesForkResolves ==
  ASSUME Trees!TypeOK, Trees!Chained, Trees!InStep, Trees!ForkInStep, Trees!Resolve
  PROVE Trees!ForkInStep' /\ Trees!ForkOpens' /\ Trees!ForkAgrees'
<1> DEFINE s == file["source"]
           todo == {e \in Trees!Entries("source") : \E b \in Trees!Branches : e.id \in b}
<1>1. /\ fork.at = "resolve" /\ UNCHANGED <<file, treesLog, run>>
      /\ fork' = Trees!NoFork \/ (Trees!Branches # {} /\ Forks("copy", todo))
  BY TreesResolve
<1>2. file["fork"] = <<>> /\ treesLog["fork"] = <<>>
  BY <1>1 DEF Trees!ForkInStep, Trees!ForkIdle
<1>3. CASE fork' = Trees!NoFork
  BY <1>1, <1>2, <1>3, TreesForkNone DEF Trees!NoFork
<1>4. CASE Trees!Branches # {} /\ Forks("copy", todo)
  <2>1. PICK n \in 0 .. Len(s) : todo = {s[i] : i \in 1 .. n} /\ Cuts(n)
    BY <1>1, <1>4, TreesCut
  <2> HIDE DEF todo, s
  <2>2. /\ fork'.at = "copy" /\ fork'.todo = {s[i] : i \in 1 .. n} /\ fork'.message = fork.message
        /\ fork'.role = fork.role /\ fork'.log = fork.log
    BY <1>4, <2>1 DEF Forks
  <2>3. Len(s) \in Nat
    BY DEF Trees!TypeOK, Trees!Convs, s
  <2>4. Trees!Until' = Trees!Until
    BY <2>2 DEF Trees!Until, Trees!At
  <2>5. Trees!Whole' = {s[i] : i \in 1 .. n}
    <3>1. Trees!Entries("fork")' = {}
      BY <1>1, <1>2 DEF Trees!Entries, Trees!ToSet
    <3> QED
      BY <2>2, <3>1 DEF Trees!Whole
  <2>6. Trees!ForkReads'
    BY <1>1, <2>2 DEF Trees!ForkInStep, Trees!ForkReads
  <2>7. Trees!ForkCopies'
    <3>1. /\ Len(file'["fork"]) = 0 /\ file'["source"] = s /\ treesLog'["fork"] = <<>>
      BY <1>1, <1>2 DEF s
    <3>2. n \in 0 .. Len(s) /\ fork'.todo = {s[i] : i \in 0 + 1 .. n}
      BY <2>2
    <3> QED
      BY <2>3, <3>1, <3>2 DEF Trees!ForkCopies
  <2>8. Trees!ForkCut'
    <3>1. \A i \in 1 .. Trees!Until : fork.log[i].role = "assistant" =>
            \E e \in Trees!Whole' : e.kind = "reply" /\ e.msg = fork.log[i].msg
      BY <2>1, <2>5 DEF Cuts, s
    <3>2. \A e \in Trees!Whole' : run[e.msg].again = "yes"
                            \/ \E i \in 1 .. Trees!Until : fork.log[i] = Trees!Line(e.msg, "user")
      BY <2>1, <2>5 DEF Cuts, s
    <3>3. run' = run
      BY <1>1
    <3> QED
      BY <2>2, <2>4, <3>1, <3>2, <3>3 DEF Trees!ForkCut
  <2> QED
    BY <1>1, <1>2, <2>2, <2>6, <2>7, <2>8 DEF Trees!ForkInStep, Trees!ForkIdle, Trees!ForkLines, Trees!ForkOpens, Trees!ForkAgrees
<1> QED
  BY <1>1, <1>3, <1>4

(* One more entry of the source is copied.                                  *)
LEMMA TreesForkCopies ==
  ASSUME Trees!TypeOK, Trees!Chained, Trees!ForkInStep, Trees!ForkOpens, Trees!ForkAgrees, Trees!Copy
  PROVE Trees!ForkInStep' /\ Trees!ForkOpens' /\ Trees!ForkAgrees'
<1> DEFINE s == file["source"]
           f == file["fork"]
           g == file'["fork"]
           m == Len(f)
           x == Trees!FirstOf(fork.todo)
<1>1. /\ fork.at = "copy" /\ fork.todo # {} /\ x \in fork.todo /\ file'["source"] = s
      /\ UNCHANGED <<treesLog, run, ids>> /\ x \in Trees!EntryRecord /\ g = Append(f, x)
      /\ Forks("copy", fork.todo \ {x})
  BY TreesCopy DEF Placed
<1>2. /\ Len(g) = m + 1 /\ m \in Nat /\ g[m + 1] = x /\ \A i \in 1 .. m : g[i] = f[i]
      /\ 1 .. Len(g) = 1 .. m \cup {m + 1} /\ Trees!Entries("fork")' = Trees!Entries("fork") \cup {x}
  BY <1>1, TreesAppend DEF Trees!Convs
<1>3. /\ m <= Len(s) /\ treesLog["fork"] = <<>> /\ \A i \in 1 .. m : f[i] = s[i]
  BY <1>1 DEF Trees!ForkInStep, Trees!ForkCopies
<1>4. PICK n \in m .. Len(s) : fork.todo = {s[i] : i \in m + 1 .. n}
  BY <1>1 DEF Trees!ForkInStep, Trees!ForkCopies
<1>5. Len(s) \in Nat
  BY DEF Trees!TypeOK, Trees!Convs
<1>6. \A i, j \in 1 .. Len(s) : /\ i < j => s[i].id < s[j].id
                                /\ s[i].id = s[j].id => i = j
                                /\ s[i].id \in Nat
  BY TreesDistinct
<1>7. fork.todo \in SUBSET Trees!EntryRecord /\ \A o \in fork.todo : x.id <= o.id
  <2>1. fork.todo \in SUBSET Trees!EntryRecord
    BY DEF Trees!TypeOK
  <2> QED
    BY <1>1, <2>1, TreesFirst
<1>8. \A i \in 1 .. Len(s) : /\ s[i].anc = {s[j].id : j \in 1 .. i} /\ s[i].id <= ids
                             /\ s[i].msg \in TreeRuns
  BY DEF Trees!Chained
<1> HIDE DEF s, f, g, m, x
<1>9. m + 1 <= n /\ m + 1 \in 1 .. Len(s) /\ x = s[m + 1]
  <2>1. PICK i \in m + 1 .. n : x = s[i]
    BY <1>1, <1>4
  <2>2. m + 1 <= n /\ i \in 1 .. Len(s) /\ m + 1 \in 1 .. Len(s)
    BY <1>2, <1>5, <2>1
  <2>3. s[m + 1] \in fork.todo
    BY <1>2, <1>4, <2>2
  <2>4. s[i].id <= s[m + 1].id
    BY <1>7, <2>1, <2>3
  <2>5. ~(m + 1 < i)
    BY <1>6, <2>2, <2>4
  <2>6. i = m + 1
    BY <1>2, <2>1, <2>5
  <2> QED
    BY <2>1, <2>2, <2>6
<1>10. fork.todo \ {x} = {s[i] : i \in m + 1 + 1 .. n}
  <2>1. m + 1 .. n = {m + 1} \cup (m + 1 + 1 .. n)
    BY <1>2, <1>5, <1>9
  <2>2. m + 1 .. n \subseteq 1 .. Len(s) /\ m + 1 \notin m + 1 + 1 .. n
    BY <1>2, <1>5
  <2> QED
    BY <1>4, <1>6, <1>9, <2>1, <2>2
<1>11. \A i \in 1 .. m + 1 : g[i] = s[i]
  BY <1>2, <1>3, <1>9
<1>12. /\ fork'.at = "copy" /\ fork'.todo = fork.todo \ {x} /\ fork'.message = fork.message
       /\ fork'.role = fork.role /\ fork'.log = fork.log
  BY <1>1 DEF Forks
<1>13. Trees!Until' = Trees!Until
  BY <1>12 DEF Trees!Until, Trees!At
<1>14. Trees!Whole' = Trees!Whole
  BY <1>1, <1>2, <1>12 DEF Trees!Whole
<1>15. Trees!ForkReads'
  BY <1>1, <1>12 DEF Trees!ForkInStep, Trees!ForkReads, s
<1>16. Trees!ForkCopies'
  <2>1. file'["source"] = s /\ file'["fork"] = g /\ treesLog'["fork"] = <<>>
    BY <1>1, <1>3 DEF g
  <2>2. Len(g) <= Len(s) /\ \A i \in 1 .. Len(g) : g[i] = s[i]
    BY <1>2, <1>5, <1>9, <1>11
  <2>3. n \in Len(g) .. Len(s) /\ fork'.todo = {s[i] : i \in Len(g) + 1 .. n}
    <3>1. Len(g) = m + 1
      BY <1>2
    <3>2. n \in m + 1 .. Len(s)
      BY <1>2, <1>5, <1>9
    <3>3. fork'.todo = {s[i] : i \in m + 1 + 1 .. n}
      BY <1>10, <1>12
    <3> QED
      BY <3>1, <3>2, <3>3
  <2> QED
    BY <2>1, <2>2, <2>3 DEF Trees!ForkCopies
<1>17. Trees!ForkCut'
  BY <1>1, <1>12, <1>13, <1>14 DEF Trees!ForkInStep, Trees!ForkCut
<1>18. Trees!ForkOpens'
  <2> SUFFICES ASSUME NEW i \in 1 .. Len(g)
               PROVE /\ g[i].anc \subseteq {g[j].id : j \in 1 .. i} /\ g[i].id <= ids
                     /\ g[i].msg \in TreeRuns
                     /\ \A j \in 1 .. i - 1 : g[j].id # g[i].id
    BY <1>1 DEF Trees!ForkOpens, g
  <2>1. i \in 1 .. m + 1 /\ i \in 1 .. Len(s) /\ g[i] = s[i]
    BY <1>2, <1>5, <1>9, <1>11
  <2>2. \A j \in 1 .. i : g[j] = s[j] /\ j \in 1 .. Len(s)
    BY <1>2, <1>5, <1>11, <2>1
  <2>3. {g[j].id : j \in 1 .. i} = {s[j].id : j \in 1 .. i}
    BY <2>2
  <2>4. \A j \in 1 .. i - 1 : g[j].id # g[i].id
    BY <1>2, <1>6, <2>1, <2>2
  <2> QED
    BY <1>8, <2>1, <2>3, <2>4
<1> QED
  BY <1>12, <1>15, <1>16, <1>17, <1>18 DEF Trees!ForkInStep, Trees!ForkIdle, Trees!ForkLines, Trees!ForkAgrees

(* The provenance ends the path of the fork.                                *)
LEMMA TreesForkProvenance ==
  ASSUME Trees!TypeOK, Trees!Chained, Trees!ForkInStep, Trees!ForkOpens, Trees!ForkAgrees, Trees!Provenance
  PROVE Trees!ForkInStep' /\ Trees!ForkOpens' /\ Trees!ForkAgrees'
<1> DEFINE s == file["source"]
           f == file["fork"]
           g == file'["fork"]
           m == Len(f)
<1>1. /\ fork.at = "copy" /\ fork.todo = {} /\ Forks("lines", {})
      /\ ids' = ids + 1 /\ UNCHANGED <<treesLog, run>>
  BY TreesProvenance
<1>2. PICK x \in Trees!EntryRecord : /\ Placed(x) /\ x.id = ids + 1 /\ x.kind = "provenance"
                         /\ x.anc = Trees!Leaf("fork").anc \cup {ids + 1}
  BY TreesProvenance
<1>3. /\ Len(g) = m + 1 /\ m \in Nat /\ g[m + 1] = x /\ \A i \in 1 .. m : g[i] = f[i]
      /\ 1 .. Len(g) = 1 .. m \cup {m + 1} /\ Trees!Entries("fork")' = Trees!Entries("fork") \cup {x}
      /\ Trees!Leaf("fork")' = x
  BY <1>2, TreesAppend DEF Trees!Convs, Placed
<1>4. m <= Len(s) /\ treesLog["fork"] = <<>> /\ \A i \in 1 .. m : f[i] = s[i]
  BY <1>1 DEF Trees!ForkInStep, Trees!ForkCopies
<1>5. Len(s) \in Nat /\ ids \in Nat /\ f \in Seq(Trees!EntryRecord)
  BY DEF Trees!TypeOK, Trees!Convs
<1>6. file'["source"] = s /\ \A i \in 1 .. m : f[i].id \in Nat
  <2>1. \A i \in 1 .. m : f[i] \in Trees!EntryRecord
    BY <1>5
  <2> QED
    BY <1>2, <2>1 DEF Placed, Trees!EntryRecord
<1>7. Trees!Leaf("fork").anc = {f[i].id : i \in 1 .. m}
  <2>1. CASE m = 0
    BY <1>5, <2>1 DEF Trees!Leaf, Trees!NoLeaf
  <2>2. CASE m # 0
    <3>1. Trees!Leaf("fork") = f[m] /\ m \in 1 .. m
      BY <1>3, <1>5, <2>2 DEF Trees!Leaf, Trees!Last
    <3>2. m \in 1 .. Len(s) /\ \A i \in 1 .. m : f[i] = s[i]
      BY <1>4, <1>5, <3>1
    <3>3. s[m].anc = {s[i].id : i \in 1 .. m}
      BY <3>2 DEF Trees!Chained
    <3>4. {s[i].id : i \in 1 .. m} = {f[i].id : i \in 1 .. m}
      BY <1>4
    <3> QED
      BY <3>1, <3>2, <3>3, <3>4
  <2> QED
    BY <2>1, <2>2
<1>8. \A i \in 1 .. m : /\ f[i].anc \subseteq {f[j].id : j \in 1 .. i} /\ f[i].id <= ids
                        /\ f[i].kind # "provenance" => f[i].msg \in TreeRuns
                        /\ \A j \in 1 .. i - 1 : f[j].id # f[i].id
  BY DEF Trees!ForkOpens
<1> HIDE DEF s, f, g, m
<1>9. /\ fork'.at = "lines" /\ fork'.todo = {} /\ fork'.message = fork.message
      /\ fork'.role = fork.role /\ fork'.log = fork.log
  BY <1>1 DEF Forks
<1>10. Trees!Until' = Trees!Until
  BY <1>9 DEF Trees!Until, Trees!At
<1>11. Trees!Until \in Nat
  BY <1>1, TreesUntil
<1>12. Trees!Whole' = Trees!Whole \cup {x}
  BY <1>1, <1>3, <1>9 DEF Trees!Whole
<1>13. Trees!ForkReads'
  BY <1>1, <1>6, <1>9 DEF Trees!ForkInStep, Trees!ForkReads, s
<1>14. Trees!ForkLines'
  <2>1. \A i \in 1 .. Len(g) : g[i].id \in x.anc
    <3>1. \A i \in 1 .. m : g[i].id \in x.anc
      BY <1>2, <1>3, <1>7
    <3>2. g[m + 1].id \in x.anc
      BY <1>2, <1>3
    <3> QED
      BY <1>3, <3>1, <3>2
  <2>2. g # <<>>
    BY <1>3
  <2>3. Len(treesLog'["fork"]) = 0 /\ treesLog'["fork"] = <<>>
    BY <1>1, <1>4
  <2>4. 0 <= Trees!Until' /\ \A i \in 1 .. 0 : FALSE
    BY <1>10, <1>11
  <2> QED
    BY <1>3, <1>9, <2>1, <2>2, <2>3, <2>4 DEF Trees!ForkLines, g
<1>15. Trees!ForkCut'
  <2>1. /\ \A i \in 1 .. Trees!Until : fork.log[i].role = "assistant" =>
             \E e \in Trees!Whole : e.kind = "reply" /\ e.msg = fork.log[i].msg
        /\ \A e \in Trees!Whole : e.kind # "provenance" =>
             run[e.msg].again = "yes" \/ \E i \in 1 .. Trees!Until : fork.log[i] = Trees!Line(e.msg, "user")
    BY <1>1 DEF Trees!ForkInStep, Trees!ForkCut
  <2>2. run' = run
    BY <1>1
  <2> QED
    BY <1>2, <1>9, <1>10, <1>12, <2>1, <2>2 DEF Trees!ForkCut
<1>16. Trees!ForkOpens'
  <2> SUFFICES ASSUME NEW i \in 1 .. Len(g)
               PROVE /\ g[i].anc \subseteq {g[j].id : j \in 1 .. i} /\ g[i].id <= ids + 1
                     /\ g[i].kind # "provenance" => g[i].msg \in TreeRuns
                     /\ \A j \in 1 .. i - 1 : g[j].id # g[i].id
    BY <1>1 DEF Trees!ForkOpens, g
  <2>1. CASE i \in 1 .. m
    <3>1. \A j \in 1 .. i : g[j] = f[j]
      BY <1>3, <2>1
    <3>2. {g[j].id : j \in 1 .. i} = {f[j].id : j \in 1 .. i}
      BY <3>1
    <3>3. \A j \in 1 .. i - 1 : g[j] = f[j]
      BY <1>3, <2>1
    <3>4. g[i] = f[i] /\ f[i].id <= ids + 1
      BY <1>3, <1>5, <1>6, <1>8, <2>1
    <3> QED
      BY <1>8, <2>1, <3>2, <3>3, <3>4
  <2>2. CASE i = m + 1
    <3>1. {g[j].id : j \in 1 .. m + 1} = {f[j].id : j \in 1 .. m} \cup {ids + 1}
      <4>1. 1 .. m + 1 = 1 .. m \cup {m + 1}
        BY <1>3
      <4> QED
        BY <1>2, <1>3, <4>1
    <3>2. \A j \in 1 .. i - 1 : g[j].id # g[i].id
      BY <1>2, <1>3, <1>5, <1>6, <1>8, <2>2
    <3> QED
      BY <1>2, <1>3, <1>5, <1>7, <2>2, <3>1, <3>2
  <2> QED
    BY <1>3, <2>1, <2>2
<1> QED
  BY <1>9, <1>13, <1>14, <1>15, <1>16 DEF Trees!ForkInStep, Trees!ForkIdle, Trees!ForkCopies, Trees!ForkAgrees

(* A line is copied, or the fork is whole.                                  *)
LEMMA TreesForkLines ==
  ASSUME Trees!TypeOK, Trees!Chained, Trees!ForkInStep, Trees!ForkOpens, Trees!ForkAgrees, Trees!CopyLine
  PROVE Trees!ForkInStep' /\ Trees!ForkOpens' /\ Trees!ForkAgrees'
<1> DEFINE l == treesLog["fork"]
           k == treesLog'["fork"]
<1>1. /\ fork.at = "lines" /\ UNCHANGED <<file, run, ids>>
      /\ \/ Len(l) = Trees!Until /\ fork'.at = "done" /\ treesLog' = treesLog
         \/ /\ Len(l) < Trees!Until /\ k = Append(l, fork.log[Len(l) + 1]) /\ fork' = fork
  BY TreesCopyLine
<1>2. Trees!ForkOpens'
  BY <1>1 DEF Trees!ForkOpens
<1>3. Trees!Entries("fork")' = Trees!Entries("fork") /\ Trees!Leaf("fork")' = Trees!Leaf("fork")
  BY <1>1 DEF Trees!Entries, Trees!Leaf
<1>4. /\ fork.todo = {} /\ \A i \in 1 .. Len(file["fork"]) : file["fork"][i].id \in Trees!Leaf("fork").anc
      /\ Len(l) <= Trees!Until /\ \A i \in 1 .. Len(l) : l[i] = fork.log[i]
  BY <1>1 DEF Trees!ForkInStep, Trees!ForkLines
<1>5. /\ \A i \in 1 .. Trees!Until : fork.log[i].role = "assistant" =>
           \E e \in Trees!Entries("fork") : e.kind = "reply" /\ e.msg = fork.log[i].msg
      /\ \A e \in Trees!Entries("fork") : e.kind # "provenance" =>
           run[e.msg].again = "yes" \/ \E i \in 1 .. Trees!Until : fork.log[i] = Trees!Line(e.msg, "user")
  BY <1>1, <1>4 DEF Trees!ForkInStep, Trees!ForkCut, Trees!Whole
<1>6. l \in Seq(Trees!Lines) /\ Trees!ToSet(l) = {l[i] : i \in 1 .. Len(l)}
  BY TreesEntries DEF Trees!Convs
<1>7. /\ Trees!Until \in 1 .. Len(fork.log) /\ fork.log[Trees!Until] = Trees!Line(fork.message, fork.role)
      /\ Len(fork.log) \in Nat /\ fork.log \in Seq(Trees!Lines)
  BY <1>1, TreesUntil
<1> HIDE DEF l, k
<1>8. CASE Len(l) = Trees!Until /\ fork'.at = "done" /\ treesLog' = treesLog
  <2>1. Trees!ToSet(treesLog["fork"])' = Trees!ToSet(l)
    BY <1>8 DEF l
  <2>2. \A i \in 1 .. Trees!Until : fork.log[i] \in Trees!ToSet(l)
    BY <1>4, <1>6, <1>8
  <2>3. \A x \in Trees!ToSet(l) : \E i \in 1 .. Trees!Until : x = fork.log[i]
    BY <1>4, <1>6, <1>8
  <2>4. \A x \in Trees!ToSet(l) : x.role = "assistant" =>
          \E e \in Trees!Entries("fork") : e.kind = "reply" /\ e.msg = x.msg
    BY <1>5, <2>3
  <2>5. \A e \in Trees!Entries("fork") : e.kind # "provenance" =>
          run[e.msg].again = "yes" \/ Trees!Line(e.msg, "user") \in Trees!ToSet(l)
    BY <1>5, <2>2
  <2>6. \E x \in Trees!ToSet(l) : x.role = "user"
    <3>1. fork.log[Trees!Until].role \in {"user", "assistant"}
      <4>1. fork.log[Trees!Until] \in Trees!Lines
        BY <1>7
      <4> QED
        BY <4>1 DEF Trees!Lines
    <3>2. CASE fork.log[Trees!Until].role = "user"
      BY <1>7, <2>2, <3>2
    <3>3. CASE fork.log[Trees!Until].role = "assistant"
      <4>1. Trees!Agree(fork.log, file["source"])
        BY <1>1 DEF Trees!ForkInStep, Trees!ForkReads
      <4>2. PICK j \in 1 .. Trees!Until - 1 : fork.log[j] = Trees!Line(fork.log[Trees!Until].msg, "user")
        BY <1>7, <3>3, <4>1 DEF Trees!Agree
      <4>3. j \in 1 .. Trees!Until
        BY <1>7
      <4> QED
        BY <2>2, <4>2, <4>3, TreesLines
    <3> QED
      BY <3>1, <3>2, <3>3
  <2>7. \A e \in Trees!Entries("fork") : e.id \in Trees!Leaf("fork").anc
    <3>1. Trees!Entries("fork") = {file["fork"][i] : i \in 1 .. Len(file["fork"])}
      BY TreesEntries DEF Trees!Convs
    <3> QED
      BY <1>4, <3>1
  <2>8. Trees!ForkAgrees'
    <3>1. \A e \in Trees!Entries("fork") : e.kind = "reply" => e.kind # "provenance"
      OBVIOUS
    <3>2. run' = run
      BY <1>1
    <3> QED
      BY <1>3, <2>1, <2>4, <2>5, <2>6, <2>7, <3>1, <3>2 DEF Trees!ForkAgrees
  <2> QED
    BY <1>2, <1>8, <2>8 DEF Trees!ForkInStep, Trees!ForkIdle, Trees!ForkReads, Trees!ForkCopies, Trees!ForkLines, Trees!ForkCut
<1>9. CASE Len(l) < Trees!Until /\ k = Append(l, fork.log[Len(l) + 1]) /\ fork' = fork
  <2>1. Len(l) \in Nat /\ Trees!Until \in Nat /\ Len(l) + 1 \in 1 .. Len(fork.log)
    BY <1>6, <1>7, <1>9
  <2>2. fork.log[Len(l) + 1] \in Trees!Lines
    BY <1>7, <2>1
  <2>3. Len(k) = Len(l) + 1 /\ k[Len(l) + 1] = fork.log[Len(l) + 1]
        /\ \A i \in 1 .. Len(l) : k[i] = l[i]
    BY <1>6, <1>9, <2>2
  <2>4. Len(k) <= Trees!Until /\ \A i \in 1 .. Len(k) : k[i] = fork.log[i]
    <3>1. Len(k) <= Trees!Until
      BY <1>9, <2>1, <2>3
    <3>2. \A i \in 1 .. Len(k) : i \in 1 .. Len(l) \/ i = Len(l) + 1
      BY <2>1, <2>3
    <3> QED
      BY <1>4, <2>3, <3>1, <3>2
  <2>5. Trees!Until' = Trees!Until /\ Trees!Whole' = Trees!Whole
    BY <1>3, <1>9 DEF Trees!Until, Trees!At, Trees!Whole
  <2>6. Trees!ForkLines'
    BY <1>1, <1>3, <1>9, <2>4, <2>5 DEF Trees!ForkInStep, Trees!ForkLines, k
  <2>7. Trees!ForkCut'
    BY <1>1, <1>9, <2>5 DEF Trees!ForkInStep, Trees!ForkCut
  <2>8. Trees!ForkReads' /\ Trees!ForkIdle' /\ Trees!ForkCopies'
    BY <1>1, <1>9 DEF Trees!ForkInStep, Trees!ForkReads, Trees!ForkIdle, Trees!ForkCopies
  <2> QED
    BY <1>1, <1>2, <1>9, <2>6, <2>7, <2>8 DEF Trees!ForkInStep, Trees!ForkAgrees
<1> QED
  BY <1>1, <1>8, <1>9 DEF l, k

-----------------------------------------------------------------------------
(* The invariant                                                            *)

(* Nothing was posted: the invariant holds at the start.                     *)
LEMMA TreesInit ==
  ASSUME Trees!Init
  PROVE Trees!TreesInv
<1>1. /\ file = [c \in Trees!Convs |-> <<>>] /\ treesLog = [c \in Trees!Convs |-> <<>>] /\ torn = {} /\ lock = "none"
      /\ run = [r \in TreeRuns |-> Trees!NewRun] /\ handler = [r \in TreeRuns |-> "new"] /\ fork = Trees!NoFork
      /\ ids = 0 /\ forks = 0 /\ treesCrashes = 0
  BY DEF Trees!Init
<1>2. file["source"] = <<>> /\ file["fork"] = <<>> /\ treesLog["source"] = <<>> /\ treesLog["fork"] = <<>>
  BY <1>1 DEF Trees!Convs
<1>3. Trees!Entries("source") = {} /\ Len(file["source"]) = 0 /\ Len(treesLog["source"]) = 0
      /\ Trees!ToSet(treesLog["source"]) = {} /\ fork.at = "none"
  BY <1>1, <1>2 DEF Trees!Entries, Trees!ToSet, Trees!NoFork
<1>4. Trees!TypeOK
  <2>1. run \in [TreeRuns -> [at : Trees!Inside \cup {"new", "wait", "ended"}, leaf : Trees!EntryRecord,
                       again : {"no", "due", "yes"}]]
    <3>1. Trees!NewRun \in [at : Trees!Inside \cup {"new", "wait", "ended"}, leaf : Trees!EntryRecord, again : {"no", "due", "yes"}]
      BY DEF Trees!NewRun, Trees!NoLeaf, Trees!EntryRecord, Trees!Kinds
    <3> QED
      BY <1>1, <3>1
  <2>2. fork \in [at : {"none", "resolve", "copy", "lines", "done"}, message : TreeRuns \cup {"none"},
               role : {"user", "assistant", "none"}, log : Seq(Trees!Lines), todo : SUBSET Trees!EntryRecord]
    BY <1>1 DEF Trees!NoFork
  <2>3. file \in [Trees!Convs -> Seq(Trees!EntryRecord)] /\ treesLog \in [Trees!Convs -> Seq(Trees!Lines)]
    BY <1>1
  <2> QED
    BY <1>1, <2>1, <2>2, <2>3 DEF Trees!TypeOK
<1>5. Trees!Chained
  BY <1>2 DEF Trees!Chained
<1>6. \A r \in TreeRuns : run[r].at = "new" /\ run[r].again = "no" /\ handler[r] = "new"
                     /\ Mine(r) = {} /\ Trees!Prompts(r) = {}
  BY <1>1, <1>3 DEF Trees!NewRun, Mine, Trees!Prompts
<1>7. Trees!Locked
  BY <1>3, <1>6 DEF Trees!Locked, Trees!Inside
<1>8. Trees!InStep
  <2>1. \A r \in TreeRuns : Far(r) /\ Twice(r)
    BY <1>6 DEF Far, Twice, Trees!Inside
  <2> QED
    BY <2>1, TreesFar DEF Trees!InStep
<1>9. Trees!InOrder
  <2>1. Trees!Agree(<<>>, <<>>)
    BY DEF Trees!Agree
  <2>2. \A r \in TreeRuns : Trees!RunInOrder(r, <<>>, <<>>)
    BY <1>2, <1>3, <1>6 DEF Trees!RunInOrder, Trees!Inside
  <2> QED
    BY <1>2, <2>1, <2>2 DEF Trees!InOrder
<1>10. Trees!ForkInStep /\ Trees!ForkOpens /\ Trees!ForkAgrees
  BY <1>2, <1>3 DEF Trees!ForkInStep, Trees!ForkIdle, Trees!ForkReads, Trees!ForkCopies, Trees!ForkLines, Trees!ForkCut, Trees!ForkOpens, Trees!ForkAgrees
<1> QED
  BY <1>4, <1>5, <1>7, <1>8, <1>9, <1>10 DEF Trees!TreesInv

(* The steps of a run and of its handler.                                   *)
LEMMA TreesRunStep ==
  ASSUME Trees!TreesInv, NEW r \in TreeRuns,
         Trees!Post(r) \/ Trees!Answer(r) \/ Trees!Deadline(r) \/ Trees!Open(r) \/ Trees!Prompt(r) \/ Trees!Reply(r) \/ Trees!Label(r) \/ Trees!Fails(r)
  PROVE Trees!TreesInv'
<1> USE DEF Trees!TreesInv
<1>1. CASE Trees!Prompt(r) \/ Trees!Reply(r) \/ Trees!Label(r)
  <2>1. Trees!TypeOK' /\ Trees!Chained' /\ Trees!Locked' /\ lock = r
    BY <1>1, TreesWrites
  <2>2. Trees!InStep'
    BY <1>1, TreesInStep
  <2>3. Trees!InOrder'
    BY <1>1, TreesOrderWrites
  <2>4. PICK e \in Trees!EntryRecord, at \in {"reply", "label", "prompt", "ended"}, again \in {"no", "due", "yes"} :
          Appends(r, e, at, again) /\ (run[r].again = "yes" => again = "yes")
    BY <1>1, TreesWrites
  <2>5. /\ fork' = fork /\ file'["fork"] = file["fork"] /\ treesLog'["fork"] = treesLog["fork"] /\ ids' = ids + 1
        /\ \A o \in TreeRuns : run[o].again = "yes" => run'[o].again = "yes"
    BY <2>4 DEF Appends, Alone
  <2>6. fork.at \notin {"resolve", "copy", "lines"}
    BY <2>1, TreesNames DEF Trees!Locked
  <2>7. Trees!ForkInStep' /\ Trees!ForkOpens' /\ Trees!ForkAgrees'
    BY <2>5, <2>6, TreesForkBeside
  <2> QED
    BY <2>1, <2>2, <2>3, <2>7
<1>2. CASE Trees!Post(r) \/ Trees!Answer(r) \/ Trees!Deadline(r) \/ Trees!Open(r) \/ Trees!Fails(r)
  <2>1. Trees!TypeOK' /\ UNCHANGED <<file, fork, ids>> /\ treesLog'["fork"] = treesLog["fork"]
    BY <1>2, TreesPost, TreesAnswer, TreesDeadline, TreesOpen, TreesFails
  <2>2. \A o \in TreeRuns : run[o].again = "yes" => run'[o].again = "yes"
    BY <1>2, TreesPost, TreesAnswer, TreesDeadline, TreesOpen, TreesFails DEF Turns, Alone
  <2>3. Trees!InStep' /\ Trees!Locked'
    BY <1>2, TreesStepTurns
  <2>4. Trees!Chained'
    BY <2>1, TreesChainStays
  <2>5. Trees!InOrder'
    BY <1>2, TreesOrderPost, TreesOrderAnswer, TreesOrderTurns
  <2>6. Trees!ForkInStep' /\ Trees!ForkOpens' /\ Trees!ForkAgrees'
    BY <2>1, <2>2, TreesForkBeside
  <2> QED
    BY <2>1, <2>3, <2>4, <2>5, <2>6
<1> QED
  BY <1>1, <1>2

(* The steps of a fork.                                                     *)
LEMMA TreesForkStep ==
  ASSUME Trees!TreesInv, \/ \E r \in TreeRuns, role \in {"user", "assistant"} : Trees!BeginFork(r, role)
                   \/ Trees!Resolve \/ Trees!Copy \/ Trees!Provenance \/ Trees!CopyLine
  PROVE Trees!TreesInv'
<1> USE DEF Trees!TreesInv
<1>1. /\ Trees!TypeOK' /\ UNCHANGED <<run, handler>> /\ ids' \in {ids, ids + 1}
      /\ file'["source"] = file["source"] /\ treesLog'["source"] = treesLog["source"]
      /\ \/ fork.at = "none" /\ lock = "none" /\ lock' = "fork"
         \/ /\ fork.at \in {"resolve", "copy", "lines"}
            /\ fork'.at \in {"resolve", "copy", "lines"} => lock' = lock
            /\ lock' \in {lock, "none"}
  <2>1. CASE \E r \in TreeRuns, role \in {"user", "assistant"} : Trees!BeginFork(r, role)
    BY <2>1, TreesBeginFork
  <2>2. CASE Trees!Resolve
    BY <2>2, TreesResolve DEF Trees!NoFork
  <2>3. CASE Trees!Copy
    BY <2>3, TreesCopy DEF Placed
  <2>4. CASE Trees!Provenance
    BY <2>4, TreesProvenance DEF Placed
  <2>5. CASE Trees!CopyLine
    BY <2>5, TreesCopyLine
  <2> QED
    BY <2>1, <2>2, <2>3, <2>4, <2>5
<1>2. Trees!Chained'
  BY <1>1, TreesChainStays
<1>3. Trees!InStep' /\ Trees!InOrder'
  BY <1>1, TreesStepStays, TreesOrderFork
<1>4. Trees!Locked'
  <2>1. \A r \in TreeRuns : run[r].at \notin Trees!Inside
    BY <1>1, TreesNames DEF Trees!Locked
  <2>2. fork'.at \in {"resolve", "copy", "lines"} => lock' = "fork"
    BY <1>1 DEF Trees!Locked
  <2> QED
    BY <1>1, <2>1, <2>2 DEF Trees!Locked
<1>5. Trees!ForkInStep' /\ Trees!ForkOpens' /\ Trees!ForkAgrees'
  BY TreesForkBegins, TreesForkResolves, TreesForkCopies, TreesForkProvenance, TreesForkLines
<1> QED
  BY <1>1, <1>2, <1>3, <1>4, <1>5

(* A restart keeps the invariant.                                            *)
LEMMA TreesCrashStep ==
  ASSUME Trees!TreesInv, Trees!Crash
  PROVE Trees!TreesInv'
<1> USE DEF Trees!TreesInv
<1>1. Trees!TypeOK' /\ file'["source"] = file["source"] /\ ids' = ids
  BY TreesCrash
<1>2. Trees!Chained'
  BY <1>1, TreesChainStays
<1>3. Trees!InStep' /\ Trees!Locked' /\ Trees!InOrder'
  BY TreesStepCrash, TreesOrderCrash
<1>4. CASE fork.at = "done" /\ UNCHANGED <<fork, file, treesLog>>
  <2>1. \A r \in TreeRuns : run[r].again = "yes" => run'[r].again = "yes"
    <3> SUFFICES ASSUME NEW r \in TreeRuns, run[r].again = "yes"
                 PROVE  run'[r].again = "yes"
      OBVIOUS
    <3>1. Far(r)
      BY TreesFar DEF Trees!InStep
    <3>2. handler[r] # "new"
      BY <3>1 DEF Far
    <3> QED
      BY <3>2, TreesCrash
  <2> QED
    BY <1>1, <1>2, <1>3, <1>4, <2>1, TreesForkBeside
<1>5. CASE fork' = Trees!NoFork /\ file'["fork"] = <<>> /\ treesLog'["fork"] = <<>>
  BY <1>1, <1>2, <1>3, <1>5, TreesForkNone DEF Trees!NoFork
<1> QED
  BY <1>4, <1>5, TreesCrash

(* A step that changes nothing keeps the invariant.                          *)
LEMMA TreesStays == Trees!TreesInv /\ UNCHANGED Trees!vars => Trees!TreesInv'
<1> SUFFICES ASSUME Trees!TreesInv, UNCHANGED Trees!vars
             PROVE  Trees!TreesInv'
  OBVIOUS
<1>1. UNCHANGED <<file, torn, treesLog, lock, run, handler, fork, ids, forks, treesCrashes>>
  BY DEF Trees!vars
<1>2. Trees!TypeOK'
  BY <1>1 DEF Trees!TreesInv, Trees!TypeOK
<1>3. Trees!Chained'
  BY <1>1, TreesChainStays DEF Trees!TreesInv
<1>4. Trees!InStep' /\ Trees!InOrder'
  BY <1>1, TreesStepStays, TreesOrderFork DEF Trees!TreesInv
<1>5. Trees!Locked'
  BY <1>1 DEF Trees!TreesInv, Trees!Locked, Trees!Leaf
<1>6. Trees!ForkInStep' /\ Trees!ForkOpens' /\ Trees!ForkAgrees'
  BY <1>1, TreesForkBeside DEF Trees!TreesInv
<1> QED
  BY <1>2, <1>3, <1>4, <1>5, <1>6 DEF Trees!TreesInv

(* The inductive invariant of a conversation and its fork: the source is one *)
(* chain, who appends has the lock and the leaf, the entries are in the order*)
(* of the messages, and a fork has copied a beginning of both files that     *)
(* agree.                                                                    *)
THEOREM TreesInvariant == Trees!Spec => []Trees!TreesInv
<1>1. Trees!Init => Trees!TreesInv
  BY TreesInit
<1>2. Trees!TreesInv /\ [Trees!Next]_(Trees!vars) => Trees!TreesInv'
  BY TreesRunStep, TreesForkStep, TreesCrashStep, TreesStays DEF Trees!Next
<1> QED
  BY <1>1, <1>2, PTL DEF Trees!Spec

(* What was answered stays on the path of the model, both files can be opened*)
(* again, and in a finished fork what the model sees and what the user sees  *)
(* agree (session-storage, session-fork).                                    *)
THEOREM TranscriptsAreKept == Trees!Spec => []Trees!TranscriptsHold
<1>1. Trees!TreesInv => Trees!TranscriptsHold
  <2> SUFFICES ASSUME Trees!TreesInv
               PROVE  Trees!TranscriptsHold
    OBVIOUS
  <2>0. Trees!TypeOK /\ Trees!Chained /\ Trees!InStep /\ Trees!InOrder /\ Trees!ForkOpens /\ Trees!ForkAgrees
    BY DEF Trees!TreesInv
  <2>1. Trees!AnsweredOnPath
    <3> SUFFICES ASSUME NEW r \in TreeRuns, Trees!Line(r, "assistant") \in Trees!ToSet(treesLog["source"])
                 PROVE  \E e \in Trees!Entries("source") : e.kind = "reply" /\ e.msg = r /\ e.id \in Trees!Leaf("source").anc
      BY DEF Trees!AnsweredOnPath
    <3>1. handler[r] = "done"
      BY <2>0 DEF Trees!InOrder, Trees!RunInOrder
    <3>2. PICK e \in Mine(r) : e.kind = "reply"
      BY <2>0, <3>1, TreesFar DEF Trees!InStep, Far
    <3>3. e \in Trees!Entries("source") /\ e.msg = r
      BY DEF Mine
    <3>4. e.id \in Trees!Leaf("source").anc
      BY <2>0, <3>3, TreesEntries, TreesLeaf DEF Trees!Convs
    <3> QED
      BY <3>2, <3>3, <3>4
  <2>2. Trees!TreeOpens
    <3> SUFFICES ASSUME NEW c \in Trees!Convs, NEW i \in 1 .. Len(file[c])
                 PROVE  /\ file[c][i].anc \subseteq {file[c][j].id : j \in 1 .. i}
                        /\ \A j \in 1 .. i - 1 : file[c][j].id # file[c][i].id
      BY DEF Trees!TreeOpens
    <3>1. CASE c = "fork"
      BY <2>0, <3>1 DEF Trees!ForkOpens
    <3>2. CASE c = "source"
      <4>1. Len(file["source"]) \in Nat
        BY <2>0 DEF Trees!TypeOK, Trees!Convs
      <4>2. \A j \in 1 .. i - 1 : j \in 1 .. Len(file["source"]) /\ j # i
        BY <3>2, <4>1
      <4> QED
        BY <2>0, <3>2, <4>2, TreesDistinct DEF Trees!Chained
    <3> QED
      BY <3>1, <3>2 DEF Trees!Convs
  <2> QED
    BY <2>0, <2>1, <2>2 DEF Trees!TranscriptsHold
<1> QED
  BY <1>1, TreesInvariant, PTL

(***************************************************************************)
(* The properties of Records.                                              *)
(***************************************************************************)

(* Each part runs its own specification in the composition: when another part *)
(* is the one that moves, its own variables stay.                             *)
THEOREM RecordsRunTheirParts ==
    RecordsSpec => Spec /\ Index!Spec /\ Trees!Spec /\ Legacy!Spec /\ Plan!Spec
<1>1. RecordsSpec => Spec
  <2>1. RecordsInit => Init
    BY DEF RecordsInit
  <2>2. [RecordsNext]_RecordsVars => [Next]_vars
    BY DEF RecordsNext, RecordsVars
  <2> QED
    BY <2>1, <2>2, PTL DEF RecordsSpec, Spec
<1>2. RecordsSpec => Index!Spec
  <2>1. RecordsInit => Index!Init
    BY DEF RecordsInit
  <2>2. [RecordsNext]_RecordsVars => [Index!Next]_(Index!vars)
    BY DEF RecordsNext, RecordsVars, IndexVars, Index!vars
  <2> QED
    BY <2>1, <2>2, PTL DEF RecordsSpec, Index!Spec
<1>3. RecordsSpec => Trees!Spec
  <2>1. RecordsInit => Trees!Init
    BY DEF RecordsInit
  <2>2. [RecordsNext]_RecordsVars => [Trees!Next]_(Trees!vars)
    BY DEF RecordsNext, RecordsVars, TreesVars, Trees!vars
  <2> QED
    BY <2>1, <2>2, PTL DEF RecordsSpec, Trees!Spec
<1>4. RecordsSpec => Legacy!Spec
  <2>1. RecordsInit => Legacy!Init
    BY DEF RecordsInit
  <2>2. [RecordsNext]_RecordsVars => [Legacy!Next]_(Legacy!vars)
    BY DEF RecordsNext, RecordsVars, LegacyVars, Legacy!vars
  <2> QED
    BY <2>1, <2>2, PTL DEF RecordsSpec, Legacy!Spec
<1>5. RecordsSpec => Plan!Spec
  <2>1. RecordsInit => Plan!Init
    BY DEF RecordsInit
  <2>2. [RecordsNext]_RecordsVars => [Plan!Next]_(Plan!vars)
    BY DEF RecordsNext, RecordsVars, PlanVars, Plan!vars, Plan!held
  <2> QED
    BY <2>1, <2>2, PTL DEF RecordsSpec, Plan!Spec
<1> QED
  BY <1>1, <1>2, <1>3, <1>4, <1>5

(* Without lookups beside the queue, the legacy mapping keeps its tombstones  *)
(* and what it acknowledged; with one agent, the tasks of a goal can be done  *)
(* in an order and every answered call is on record.                          *)
THEOREM RecordsMappingAndPlanHold ==
    ASSUME NoLookups, Plan!OneAgent
    PROVE  RecordsSpec => []MappingAndPlanHold
<1>1. Index!Spec => [](Index!TombstoneKept /\ Index!AckedSurvive)
  BY MappingKept
<1>2. Plan!Spec => []Plan!PlanHolds
  BY PlanIsKept
<1>3. Index!TombstoneKept /\ Index!AckedSurvive /\ Plan!PlanHolds => MappingAndPlanHold
  BY DEF MappingAndPlanHold
<1> QED
  BY <1>1, <1>2, <1>3, RecordsRunTheirParts, PTL

(* A conversation is neither doubled by the import, brought back nor          *)
(* destroyed, and what the model sees and what the user sees of it agree.     *)
THEOREM RecordsConversationsKept == RecordsSpec => ConversationsKept
<1>1. Trees!Spec => []Trees!TranscriptsHold
  BY TranscriptsAreKept
<1>2. []Trees!TranscriptsHold => [][Trees!TranscriptsHold']_RecordsVars
  BY PTL
<1>3. [][Trees!TranscriptsHold']_RecordsVars /\ Legacy!SessionsKept => ConversationsKept
  BY DEF ConversationsKept
<1> QED
  BY <1>1, <1>2, <1>3, SessionsAreKept, RecordsRunTheirParts, PTL

=============================================================================
