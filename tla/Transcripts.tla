---------------------------- MODULE Transcripts ----------------------------
(***************************************************************************)
(* The two files of a conversation: the tree of session entries that the   *)
(* model sees (AdPilotSessionStorage, append only, its leaf in memory) and *)
(* the transcript that the user sees (conversation.jsonl). Runs append to  *)
(* both, the first under the session lock and the second outside it; a run *)
(* that missed its deadline keeps the lock; a fork copies the path of one  *)
(* message into a new conversation, whose id nobody knows before.          *)
(*                                                                         *)
(* An entry carries its ancestors instead of its parent: the walk to the   *)
(* root is the set it ends with.                                           *)
(***************************************************************************)
EXTENDS Naturals, Sequences, SequencesExt

CONSTANTS
  Runs,      \* messages posted to the source, each with its run
  MaxForks,  \* bound: forks
  MaxCrashes \* bound: restarts of the daemon

\* What the constants have to be; the module of the run assumes it.
TreesAssumption ==
  Runs \cap {"none", "fork"} = {} /\ MaxForks \in Nat /\ MaxCrashes \in Nat

Convs == {"source"} \cup {"fork"}
NoLeaf == [id |-> 0, anc |-> {}, kind |-> "root", msg |-> "none", of |-> 0]

VARIABLES
  file,    \* the entries of each conversation, in the order of their lines
  torn,    \* files whose last line a crash cut
  log,     \* the messages of each conversation in conversation.jsonl
  lock,    \* the operation that has the session lock of the source
  run,     \* each run: where it is, what its storage read, its second model
  handler, \* what the handler of its message knows
  fork,    \* the fork: where it is, its message, what it read, the entries it still copies
  ids, forks, crashes

vars == <<file, torn, log, lock, run, handler, fork, ids, forks, crashes>>

NewRun == [at |-> "new", leaf |-> NoLeaf, again |-> "no"]
NoFork == [at |-> "none", message |-> "none", role |-> "none", log |-> <<>>, todo |-> {}]

Init ==
  /\ file = [c \in Convs |-> <<>>]
  /\ log = [c \in Convs |-> <<>>]
  /\ torn = {} /\ lock = "none"
  /\ run = [r \in Runs |-> NewRun]
  /\ handler = [r \in Runs |-> "new"]
  /\ fork = NoFork
  /\ ids = 0 /\ forks = 0 /\ crashes = 0

Leaf(c) == IF file[c] = <<>> THEN NoLeaf ELSE Last(file[c])
Child(leaf, kind, msg, of) ==
  [id |-> ids + 1, anc |-> leaf.anc \cup {ids + 1}, kind |-> kind, msg |-> msg, of |-> of]
Entries(c) == ToSet(file[c])
Line(m, role) == [msg |-> m, role |-> role]

-----------------------------------------------------------------------------
(* The handler of a message: its line, the run, the line of the answer     *)

\* One response at a time: the reservation of the conversation.
Post(r) ==
  /\ handler[r] = "new" /\ \A o \in Runs : handler[o] # "waiting" /\ handler[o] # "replied"
  /\ log' = [log EXCEPT !["source"] = Append(@, Line(r, "user"))]
  /\ handler' = [handler EXCEPT ![r] = "waiting"]
  /\ run' = [run EXCEPT ![r].at = "wait"]
  /\ UNCHANGED <<file, torn, lock, fork, ids, forks, crashes>>

Answer(r) ==
  /\ handler[r] = "replied"
  /\ log' = [log EXCEPT !["source"] = Append(@, Line(r, "assistant"))]
  /\ handler' = [handler EXCEPT ![r] = "done"]
  /\ UNCHANGED <<file, torn, lock, run, fork, ids, forks, crashes>>

\* enforceDeadline answers the caller; the operation keeps the lock it has.
Deadline(r) ==
  /\ handler[r] = "waiting"
  /\ handler' = [handler EXCEPT ![r] = "failed"]
  /\ UNCHANGED <<file, torn, log, lock, run, fork, ids, forks, crashes>>

-----------------------------------------------------------------------------
(* The run under the session lock                                          *)

MutFree(who) == TRUE

Free(who) == lock = "none"

Release(r) == lock' = IF lock = r THEN "none" ELSE lock

\* openOrCreate: a file with a torn line is refused.
Open(r) ==
  /\ run[r].at = "wait" /\ Free(r)
  /\ IF "source" \in torn \/ handler[r] = "failed"
       THEN /\ run' = [run EXCEPT ![r].at = "ended"]
            /\ handler' = [handler EXCEPT ![r] = "failed"]
            /\ UNCHANGED lock
       ELSE /\ lock' = r
            /\ run' = [run EXCEPT ![r].at = "prompt", ![r].leaf = Leaf("source")]
            /\ UNCHANGED handler
  /\ UNCHANGED <<file, torn, log, fork, ids, forks, crashes>>

\* appendEntry: the line, then the leaf in memory. An append under way at the
\* deadline still lands, and then the budget ends the run.
Extend(r, kind, of, at, again) ==
  LET e    == Child(run[r].leaf, kind, r, of)
      next == IF handler[r] = "failed" THEN "failing" ELSE at
  IN
  /\ file' = [file EXCEPT !["source"] = Append(@, e)]
  /\ ids' = ids + 1
  /\ run' = [run EXCEPT ![r] = [at |-> next, leaf |-> e, again |-> again]]

Prompt(r) ==
  /\ run[r].at = "prompt"
  /\ Extend(r, "user", 0, "reply", run[r].again)
  /\ UNCHANGED <<torn, log, lock, handler, fork, forks, crashes>>

\* The answer, or the error of the provider: a stronger model will get the prompt.
Reply(r) ==
  /\ run[r].at = "reply"
  /\ \/ Extend(r, "reply", 0, "label", run[r].again)
     \/ run[r].again = "no" /\ Extend(r, "error", 0, "label", "due")
  /\ UNCHANGED <<torn, log, lock, handler, fork, forks, crashes>>

Prompts(m) == {e \in Entries("source") : e.kind = "user" /\ e.msg = m}
Labels(m)  == {e \in Entries("source") : e.kind = "label" /\ e.msg = m}
LastOf(S)  == CHOOSE e \in S : \A o \in S : o.id <= e.id
FirstOf(S) == CHOOSE e \in S : \A o \in S : e.id <= o.id

\* labelConversationMessage names the last entry with this prompt. The run returns,
\* or prompts the stronger model under the same lock.
Label(r) ==
  /\ run[r].at = "label"
  /\ LET of    == LastOf(Prompts(r)).id
         again == run[r].again
     IN  IF again = "due" THEN Extend(r, "label", of, "prompt", "yes")
         ELSE Extend(r, "label", of, "ended", again)
  /\ IF handler[r] = "waiting" /\ run[r].again # "due"
       THEN Release(r) /\ handler' = [handler EXCEPT ![r] = "replied"]
       ELSE UNCHANGED <<lock, handler>>
  /\ UNCHANGED <<torn, log, fork, forks, crashes>>

\* An error of its own, or the budget it notices between two appends.
Fails(r) ==
  /\ run[r].at \in {"prompt", "reply", "label", "failing"}
  /\ run' = [run EXCEPT ![r].at = "ended"]
  /\ Release(r)
  /\ handler' = [handler EXCEPT ![r] = IF @ = "waiting" THEN "failed" ELSE @]
  /\ UNCHANGED <<file, torn, log, fork, ids, forks, crashes>>

-----------------------------------------------------------------------------
(* forkConversation under the session lock of the source                   *)

\* The lock, then conversation.jsonl as it is now.
BeginFork(m, role) ==
  /\ fork.at = "none" /\ forks < MaxForks /\ Free("fork") /\ "source" \notin torn
  /\ Line(m, role) \in ToSet(log["source"])
  /\ lock' = "fork"
  /\ forks' = forks + 1
  /\ fork' = [NoFork EXCEPT !.at = "resolve", !.message = m, !.role = role, !.log = log["source"]]
  /\ UNCHANGED <<file, torn, log, run, handler, ids, crashes>>

\* The entry that the last label of a message names.
Anchored(m) ==
  {e \in Prompts(m) : Labels(m) # {} /\ e.id = LastOf(Labels(m)).of}

At(m, role) == CHOOSE i \in 1 .. Len(fork.log) : fork.log[i] = Line(m, role)
NextUsers == {i \in At(fork.message, fork.role) + 1 .. Len(fork.log) : fork.log[i].role = "user"}
NextUser == fork.log[CHOOSE i \in NextUsers : \A j \in NextUsers : i <= j].msg

MutBefore(e) == e.anc

\* The path of the parent of an entry.
Before(e) == e.anc \ {e.id}

\* The leaves of the branch: the anchor of a user message, the end of the turn of
\* an answer; none where an anchor is missing.
Branches ==
  IF fork.role = "user" THEN {e.anc : e \in Anchored(fork.message)}
  ELSE IF NextUsers = {} THEN {Leaf("source").anc}
  ELSE {Before(e) : e \in Anchored(NextUser)}

Resolve ==
  /\ fork.at = "resolve"
  /\ IF Branches = {}
       THEN fork' = NoFork /\ Release("fork")
       ELSE /\ UNCHANGED lock
            /\ fork' = [fork EXCEPT !.at = "copy",
                 !.todo = {e \in Entries("source") : \E b \in Branches : e.id \in b}]
  /\ UNCHANGED <<file, torn, log, run, handler, ids, forks, crashes>>

\* From the root to the leaf.
Copy ==
  /\ fork.at = "copy" /\ fork.todo # {}
  /\ file' = [file EXCEPT !["fork"] = Append(@, FirstOf(fork.todo))]
  /\ fork' = [fork EXCEPT !.todo = @ \ {FirstOf(fork.todo)}]
  /\ UNCHANGED <<torn, log, lock, run, handler, ids, forks, crashes>>

\* The provenance, then the messages up to the one of the fork.
Provenance ==
  /\ fork.at = "copy" /\ fork.todo = {}
  /\ file' = [file EXCEPT !["fork"] = Append(@, Child(Leaf("fork"), "provenance", "none", 0))]
  /\ ids' = ids + 1
  /\ fork' = [fork EXCEPT !.at = "lines"]
  /\ UNCHANGED <<torn, log, lock, run, handler, forks, crashes>>

CopyLine ==
  /\ fork.at = "lines"
  /\ IF Len(log["fork"]) = At(fork.message, fork.role)
       THEN fork' = [NoFork EXCEPT !.at = "done"] /\ Release("fork") /\ UNCHANGED log
       ELSE /\ log' = [log EXCEPT !["fork"] = Append(@, fork.log[Len(@) + 1])]
            /\ UNCHANGED <<fork, lock>>
  /\ UNCHANGED <<file, torn, run, handler, ids, forks, crashes>>

-----------------------------------------------------------------------------
\* The daemon dies; a line that was being appended may be cut. An unfinished fork
\* is nobody's conversation.
Crash ==
  /\ crashes < MaxCrashes
  /\ crashes' = crashes + 1
  /\ \/ /\ \E r \in Runs : run[r].at \in {"prompt", "reply", "label"} /\ lock = r
        /\ torn' = torn \cup {"source"}
     \/ UNCHANGED torn
  /\ lock' = "none"
  /\ run' = [r \in Runs |-> IF handler[r] = "new" THEN NewRun ELSE [run[r] EXCEPT !.at = "ended"]]
  /\ handler' = [r \in Runs |-> IF handler[r] \in {"new", "done"} THEN handler[r] ELSE "failed"]
  /\ fork' = IF fork.at = "done" THEN fork ELSE NoFork
  /\ file' = IF fork.at = "done" THEN file ELSE [file EXCEPT !["fork"] = <<>>]
  /\ log' = IF fork.at = "done" THEN log ELSE [log EXCEPT !["fork"] = <<>>]
  /\ UNCHANGED <<ids, forks>>

Next ==
  \/ \E r \in Runs : Post(r) \/ Answer(r) \/ Deadline(r) \/ Open(r) \/ Prompt(r) \/ Reply(r)
                       \/ Label(r) \/ Fails(r)
  \/ \E r \in Runs, role \in {"user", "assistant"} : BeginFork(r, role)
  \/ Resolve \/ Copy \/ Provenance \/ CopyLine \/ Crash

Spec == Init /\ [][Next]_vars

-----------------------------------------------------------------------------
(* What was answered stays in the model's context: the reply is on the path *)
(* of the current leaf, whatever late operation still held the lock.        *)
AnsweredOnPath ==
  \A r \in Runs : Line(r, "assistant") \in ToSet(log["source"]) =>
    \E e \in Entries("source") : e.kind = "reply" /\ e.msg = r /\ e.id \in Leaf("source").anc

(* A file can be opened again: ids are unique and every parent comes before *)
(* its child.                                                               *)
TreeOpens ==
  \A c \in Convs : \A i \in 1 .. Len(file[c]) :
    file[c][i].anc \subseteq {file[c][j].id : j \in 1 .. i} /\ \A j \in 1 .. i - 1 : file[c][j].id # file[c][i].id

(* A finished fork: an answer that the user sees there is in the model's    *)
(* context, and no entry of a later message is, but for one whose run was   *)
(* given its prompt twice (the label of a message names the last prompt).   *)
ForkAgrees ==
  fork.at = "done" =>
    LET path  == {e \in Entries("fork") : e.id \in Leaf("fork").anc /\ e.kind # "provenance"}
        lines == ToSet(log["fork"])
    IN  /\ \A l \in lines : l.role = "assistant" => \E e \in path : e.kind = "reply" /\ e.msg = l.msg
        /\ \A e \in path : run[e.msg].again = "yes" \/ Line(e.msg, "user") \in lines
        /\ \E l \in lines : l.role = "user"

(* Not checked, and violated: no entry of a later message at all. The label *)
(* of a message names its last prompt, and the fork keeps all before it.    *)
ForkStopsAtItsTurn ==
  fork.at = "done" =>
    \A e \in Entries("fork") : e.kind = "provenance" \/ Line(e.msg, "user") \in ToSet(log["fork"])

TranscriptsHold == AnsweredOnPath /\ TreeOpens /\ ForkAgrees

(***************************************************************************)
(* What makes them hold: the inductive invariant.                          *)
(***************************************************************************)

Kinds == {"root", "user", "reply", "error", "label", "provenance"}
EntryRecord == [id : Nat, anc : SUBSET Nat, kind : Kinds, msg : Runs \cup {"none"}, of : Nat]
Lines == [msg : Runs, role : {"user", "assistant"}]
Inside == {"prompt", "reply", "label", "failing"}

TypeOK ==
  /\ file \in [Convs -> Seq(EntryRecord)] /\ log \in [Convs -> Seq(Lines)]
  /\ torn \subseteq Convs /\ lock \in Runs \cup {"none", "fork"}
  /\ run \in [Runs -> [at : Inside \cup {"new", "wait", "ended"}, leaf : EntryRecord,
                       again : {"no", "due", "yes"}]]
  /\ handler \in [Runs -> {"new", "waiting", "replied", "done", "failed"}]
  /\ fork \in [at : {"none", "resolve", "copy", "lines", "done"}, message : Runs \cup {"none"},
               role : {"user", "assistant", "none"}, log : Seq(Lines), todo : SUBSET EntryRecord]
  /\ ids \in Nat /\ forks \in Nat /\ crashes \in Nat

\* Each entry of the source hangs on the one before it.
Chained ==
  LET s == file["source"]
  IN \A i \in 1 .. Len(s) :
       /\ s[i].id <= ids /\ s[i].anc = {s[j].id : j \in 1 .. i}
       /\ \A j \in 1 .. i - 1 : s[j].id < s[i].id
       /\ s[i].kind # "provenance" /\ s[i].msg \in Runs

\* Who is inside has the lock and the leaf; an open fork has the lock.
Locked ==
  /\ \A r \in Runs : run[r].at \in Inside => lock = r /\ run[r].leaf = Leaf("source")
  /\ fork.at \in {"resolve", "copy", "lines"} => lock = "fork"

\* How far a run is: it is prompted first, and a second time as the stronger model.
RunInStep(r) ==
  LET mine == {e \in Entries("source") : e.msg = r}
  IN /\ handler[r] = "new" <=> run[r].at = "new"
     /\ run[r].at \in Inside => handler[r] \in {"waiting", "failed"}
     /\ run[r].at \in {"new", "wait"} => mine = {} /\ run[r].again = "no"
     /\ run[r].at = "prompt" => run[r].again # "due" /\ (run[r].again = "no" => mine = {})
     /\ run[r].at = "reply" => run[r].again # "due"
     /\ run[r].at \in {"reply", "label"} => Prompts(r) # {}
     /\ \/ run[r].at = "label" /\ run[r].again # "due"
        \/ handler[r] \in {"replied", "done"}
        => \E e \in mine : e.kind = "reply"
     /\ \A e \in Prompts(r), o \in mine : o.id < e.id => run[r].again = "yes"
InStep == \A r \in Runs : RunInStep(r)

\* A transcript and a file: a message has one line and its answer comes later and is
\* in the file; the entries of the file are in the order of the messages.
Agree(l, s) ==
  /\ \A i, j \in 1 .. Len(l) : l[i] = l[j] => i = j
  /\ \A i \in 1 .. Len(l) : l[i].role = "assistant" =>
       /\ \E j \in 1 .. i - 1 : l[j] = Line(l[i].msg, "user")
       /\ \E k \in 1 .. Len(s) : s[k].kind = "reply" /\ s[k].msg = l[i].msg
  /\ \A k \in 1 .. Len(s) : \E i \in 1 .. Len(l) : l[i] = Line(s[k].msg, "user")
  /\ \A h, k \in 1 .. Len(s) : \A i, j \in 1 .. Len(l) :
       h < k /\ l[i] = Line(s[h].msg, "user") /\ l[j] = Line(s[k].msg, "user") => i <= j

\* The message of a run that may go on is not before any that is in the file; the one
\* that waits is the last.
RunInOrder(r, l, s) ==
  /\ Line(r, "user") \in ToSet(l) <=> handler[r] # "new"
  /\ Line(r, "assistant") \in ToSet(l) <=> handler[r] = "done"
  /\ handler[r] \in {"waiting", "replied"} =>
       \A i, j \in 1 .. Len(l) : l[i] = Line(r, "user") /\ l[j].role = "user" => j <= i
  /\ run[r].at \in Inside =>
       \A i, j \in 1 .. Len(l) : \A k \in 1 .. Len(s) :
         l[i] = Line(r, "user") /\ l[j] = Line(s[k].msg, "user") => j <= i
InOrder ==
  /\ Agree(log["source"], file["source"])
  /\ \A r \in Runs : RunInOrder(r, log["source"], file["source"])

\* The fork takes the first entries of the source, up to where its transcript ends:
\* the transcript it read agrees with the source, and so do the parts of both that it
\* takes.
Until == At(fork.message, fork.role)
Whole == Entries("fork") \cup fork.todo

ForkIdle == fork.at \in {"none", "resolve"} => file["fork"] = <<>> /\ log["fork"] = <<>>

ForkReads ==
  fork.at \in {"resolve", "copy", "lines"} =>
    /\ Agree(fork.log, file["source"]) /\ fork.role # "none"
    /\ \E i \in 1 .. Len(fork.log) : fork.log[i] = Line(fork.message, fork.role)

ForkCopies ==
  LET s == file["source"]
      f == file["fork"]
  IN fork.at = "copy" =>
       /\ Len(f) <= Len(s) /\ log["fork"] = <<>>
       /\ \A i \in 1 .. Len(f) : f[i] = s[i]
       /\ \E n \in Len(f) .. Len(s) : fork.todo = {s[i] : i \in Len(f) + 1 .. n}

ForkLines ==
  LET f == file["fork"]
      l == log["fork"]
  IN fork.at = "lines" =>
       /\ fork.todo = {} /\ f # <<>>
       /\ \A i \in 1 .. Len(f) : f[i].id \in Leaf("fork").anc
       /\ Len(l) <= Until /\ \A i \in 1 .. Len(l) : l[i] = fork.log[i]

ForkCut ==
  fork.at \in {"copy", "lines"} =>
    /\ \A i \in 1 .. Until : fork.log[i].role = "assistant" =>
         \E e \in Whole : e.kind = "reply" /\ e.msg = fork.log[i].msg
    /\ \A e \in Whole : e.kind # "provenance" =>
         run[e.msg].again = "yes" \/ \E i \in 1 .. Until : fork.log[i] = Line(e.msg, "user")

ForkInStep == ForkIdle /\ ForkReads /\ ForkCopies /\ ForkLines /\ ForkCut

\* The file of a fork can be opened while it is copied and ever after.
ForkOpens ==
  LET f == file["fork"]
  IN \A i \in 1 .. Len(f) :
       /\ f[i].anc \subseteq {f[j].id : j \in 1 .. i} /\ f[i].id <= ids
       /\ f[i].kind # "provenance" => f[i].msg \in Runs
       /\ \A j \in 1 .. i - 1 : f[j].id # f[i].id

TreesInv ==
  TypeOK /\ Chained /\ Locked /\ InStep /\ InOrder /\ ForkInStep /\ ForkOpens /\ ForkAgrees
=============================================================================
