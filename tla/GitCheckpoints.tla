-------------------------- MODULE GitCheckpoints --------------------------
(***************************************************************************)
(* Checkpoints of a repository: a snapshot of what is staged, unstaged and *)
(* untracked, taken by one git command after another, and the restore that *)
(* resets to HEAD and replays it. The person and the agent edit, stage and *)
(* commit before, between and during the two.                              *)
(*                                                                         *)
(* git is what it does to three trees. A patch applies to exactly the      *)
(* content it was made from (git itself tolerates some drift around a      *)
(* change of text), all of it or nothing.                                  *)
(***************************************************************************)
EXTENDS Naturals, FiniteSets

CONSTANTS
  Paths, Contents,
  Absent,      \* no file
  Unmarked,    \* contents whose creation prints no "+++ b/" line: empty, binary
  NewDirs,     \* paths whose directory git lists in place of an untracked file
  FirstTrees,   \* the trees the first commit may have
  MaxEdits,    \* bound: edits
  MaxRestores  \* bound: restores

Files == Contents \cup {Absent}

\* What the constants have to be; the module of the run assumes it.
GitAssumption ==
  /\ Absent \notin Contents /\ Unmarked \subseteq Contents /\ NewDirs \subseteq Paths
  /\ FirstTrees \subseteq [Paths -> Files]

VARIABLES
  head, base,   \* the tree of HEAD, and which commit it is
  index, work,
  making,       \* the checkpoint being created
  checkpoint,   \* the record in .adpilot/checkpoints
  restoring,    \* the restore under way
  edits, restores

vars == <<head, base, index, work, making, checkpoint, restoring, edits, restores>>

None == [p \in {} |-> Absent]

\* was and undisturbed are not in the record: the trees when its capture began, and
\* whether they stayed.
NoCapture ==
  [at |-> "idle", untracked |-> {}, files |-> None, base |-> 0, staged |-> None,
   unstaged |-> None, was |-> [head |-> None, index |-> None, work |-> None],
   undisturbed |-> TRUE]
NoRestore == [at |-> "idle", todo |-> {}, sameHead |-> TRUE, undisturbed |-> TRUE]

Init ==
  /\ head \in FirstTrees /\ base = 1
  /\ index \in [Paths -> Files] /\ work \in [Paths -> Files]
  /\ making = NoCapture /\ checkpoint = NoCapture /\ restoring = NoRestore
  /\ edits = 0 /\ restores = 0

-----------------------------------------------------------------------------
(* What git answers                                                        *)

Untracked == {p \in Paths : index[p] = Absent /\ work[p] # Absent}

\* git diff: each path that differs, with the content before and after.
Patch(P, from, to) ==
  LET changed == {p \in P : from[p] # to[p]}
  IN [p \in changed |-> [pre |-> from[p], post |-> to[p]]]

Tracked == {p \in Paths : index[p] # Absent}

DiffStaged == Patch(Paths, head, index)
\* Mutant: the diff against HEAD.
MutDiffUnstaged == Patch(Tracked, head, work)
DiffUnstaged == Patch(Tracked, index, work)

\* newFilesInDiff: the paths it finds in the headers of the patch.
\* Mutant: no leftover is looked for.
MutNewFiles(patch) == {}
NewFiles(patch) ==
  {p \in DOMAIN patch : patch[p].pre = Absent /\ patch[p].post \notin Unmarked}

-----------------------------------------------------------------------------
(* CheckpointStore.create                                                  *)

Calm == UNCHANGED <<head, base, index, work, edits, restores>>

CreateStatus ==
  /\ making.at = "idle" /\ checkpoint.at = "idle"
  /\ making' = [NoCapture EXCEPT !.at = "files", !.untracked = Untracked,
                  !.was = [head |-> head, index |-> index, work |-> work],
                  !.undisturbed = restoring.at = "idle"]
  /\ Calm /\ UNCHANGED <<checkpoint, restoring>>

\* The untracked files are read; a directory, or a file that went, is recorded as skipped.
CreateFiles ==
  LET found == {p \in making.untracked \ NewDirs : work[p] # Absent} IN
  /\ making.at = "files"
  /\ making' = [making EXCEPT !.at = "staged", !.files = [p \in found |-> work[p]], !.base = base]
  /\ Calm /\ UNCHANGED <<checkpoint, restoring>>

CreateStaged ==
  /\ making.at = "staged"
  /\ making' = [making EXCEPT !.at = "unstaged", !.staged = DiffStaged]
  /\ Calm /\ UNCHANGED <<checkpoint, restoring>>

CreateUnstaged ==
  /\ making.at = "unstaged"
  /\ making' = NoCapture
  /\ checkpoint' = [making EXCEPT !.at = "saved", !.unstaged = DiffUnstaged]
  /\ Calm /\ UNCHANGED restoring

-----------------------------------------------------------------------------
(* CheckpointStore.restore                                                 *)

Go(step) == restoring' = [restoring EXCEPT !.at = step]
Keep == UNCHANGED <<head, base, making, checkpoint, edits, restores>>

\* HEAD must be the one of the checkpoint, or the restore is forced.
RestoreBegin(force) ==
  /\ checkpoint.at = "saved" /\ restoring.at \in {"idle", "done", "failed"}
  /\ restores < MaxRestores /\ restores' = restores + 1
  /\ base = checkpoint.base \/ force
  /\ restoring' = [at |-> "reset", todo |-> DOMAIN checkpoint.files,
                   sameHead |-> base = checkpoint.base, undisturbed |-> making.at = "idle"]
  /\ UNCHANGED <<head, base, index, work, making, checkpoint, edits>>

\* git reset --hard HEAD: what is tracked becomes HEAD, what is not stays.
Reset ==
  /\ restoring.at = "reset" /\ Go("clear")
  /\ index' = head
  /\ work' = [p \in Paths |-> IF head[p] = Absent /\ index[p] = Absent THEN work[p] ELSE head[p]]
  /\ Keep

\* What the staged patch creates must not be there.
ClearRecreated ==
  LET gone == NewFiles(checkpoint.staged) IN
  /\ restoring.at = "clear" /\ Go("staged")
  /\ index' = [p \in Paths |-> IF p \in gone THEN Absent ELSE index[p]]
  /\ work' = [p \in Paths |-> IF p \in gone THEN Absent ELSE work[p]]
  /\ Keep

Fits(patch, tree) == \A p \in DOMAIN patch : tree[p] = patch[p].pre
Patched(patch, tree) == [p \in Paths |-> IF p \in DOMAIN patch THEN patch[p].post ELSE tree[p]]

\* git apply --index
ReplayStaged ==
  LET patch == checkpoint.staged IN
  /\ restoring.at = "staged"
  /\ IF Fits(patch, index) /\ Fits(patch, work)
     THEN /\ Go("unstaged")
          /\ index' = Patched(patch, index) /\ work' = Patched(patch, work)
     ELSE Go("failed") /\ UNCHANGED <<index, work>>
  /\ Keep

\* git apply
ReplayUnstaged ==
  LET patch == checkpoint.unstaged IN
  /\ restoring.at = "unstaged"
  /\ IF Fits(patch, work)
     THEN /\ Go(IF restoring.todo = {} THEN "done" ELSE "write")
          /\ work' = Patched(patch, work)
     ELSE Go("failed") /\ UNCHANGED work
  /\ Keep /\ UNCHANGED index

WriteBack(p) ==
  /\ restoring.at = "write" /\ p \in restoring.todo
  /\ restoring' = [restoring EXCEPT !.todo = @ \ {p},
                     !.at = IF restoring.todo = {p} THEN "done" ELSE "write"]
  /\ work' = [work EXCEPT ![p] = checkpoint.files[p]]
  /\ Keep /\ UNCHANGED index

RestoreStep == Reset \/ ClearRecreated \/ ReplayStaged \/ ReplayUnstaged \/ (\E p \in Paths : WriteBack(p))

-----------------------------------------------------------------------------
(* What happens to the repository meanwhile                                *)

Edit ==
  /\ edits < MaxEdits /\ edits' = edits + 1
  /\ making' = IF making.at = "idle" THEN making ELSE [making EXCEPT !.undisturbed = FALSE]
  /\ restoring' = IF restoring.at \in {"idle", "done", "failed"} THEN [restoring EXCEPT !.at = "idle"]
                  ELSE [restoring EXCEPT !.undisturbed = FALSE]
  /\ UNCHANGED <<checkpoint, restores>>

\* A file is written, or deleted.
Write(p, c) ==
  /\ Edit /\ c # work[p] /\ work' = [work EXCEPT ![p] = c]
  /\ UNCHANGED <<head, base, index>>

Stage(p) ==
  /\ Edit /\ index[p] # work[p] /\ index' = [index EXCEPT ![p] = work[p]]
  /\ UNCHANGED <<head, base, work>>

Unstage(p) ==
  /\ Edit /\ index[p] # head[p] /\ index' = [index EXCEPT ![p] = head[p]]
  /\ UNCHANGED <<head, base, work>>

\* discardChanges: index and worktree from HEAD, for a path that git knows.
Discard(p) ==
  /\ Edit /\ (index[p] # Absent \/ head[p] # Absent)
  /\ index' = [index EXCEPT ![p] = head[p]] /\ work' = [work EXCEPT ![p] = head[p]]
  /\ UNCHANGED <<head, base>>

Commit ==
  /\ Edit /\ index # head /\ head' = index /\ base' = base + 1
  /\ UNCHANGED <<index, work>>

Next ==
  \/ CreateStatus \/ CreateFiles \/ CreateStaged \/ CreateUnstaged
  \/ \E force \in BOOLEAN : RestoreBegin(force)
  \/ RestoreStep
  \/ \E p \in Paths : (\E c \in Files : Write(p, c)) \/ Stage(p) \/ Unstage(p) \/ Discard(p)
  \/ Commit

Spec == Init /\ [][Next]_vars

-----------------------------------------------------------------------------
(* Types, and what a capture and a restore have done so far                *)

Partial(S) == UNION {[P -> S] : P \in SUBSET Paths}
Patches == Partial([pre : Files, post : Files])

CaptureType ==
  [at : {"idle", "files", "staged", "unstaged", "saved"}, untracked : SUBSET Paths,
   files : Partial(Files), base : Nat, staged : Patches, unstaged : Patches,
   was : [head : Partial(Files), index : Partial(Files), work : Partial(Files)],
   undisturbed : BOOLEAN]
RestoreType ==
  [at : {"idle", "reset", "clear", "staged", "unstaged", "write", "done", "failed"},
   todo : SUBSET Paths, sameHead : BOOLEAN, undisturbed : BOOLEAN]

TypeOK ==
  /\ head \in [Paths -> Files] /\ index \in [Paths -> Files] /\ work \in [Paths -> Files]
  /\ base \in Nat /\ edits \in Nat /\ restores \in Nat
  /\ making \in CaptureType /\ checkpoint \in CaptureType /\ restoring \in RestoreType

\* What the parts of a capture c are, if all were read from the trees it began with.
FilesOf(c) ==
  [p \in {q \in Paths \ NewDirs : c.was.index[q] = Absent /\ c.was.work[q] # Absent} |->
     c.was.work[p]]
StagedOf(c) == Patch(Paths, c.was.head, c.was.index)
UnstagedOf(c) == Patch({p \in Paths : c.was.index[p] # Absent}, c.was.index, c.was.work)

\* There is one capture, and a restore only of what it saved.
OneCapture ==
  /\ making.at # "saved" /\ checkpoint.at \in {"idle", "saved"}
  /\ making.at # "idle" => checkpoint.at = "idle"
  /\ checkpoint.at = "idle" => restoring.at = "idle"

\* What a capture that nobody disturbed has read is what it will replay.
CaptureExact ==
  /\ making.at # "idle" /\ making.undisturbed =>
       /\ making.was = [head |-> head, index |-> index, work |-> work]
       /\ making.untracked = Untracked
  /\ making.at \in {"staged", "unstaged"} =>
       /\ making.base <= base
       /\ making.undisturbed => making.files = FilesOf(making) /\ making.base = base
  /\ making.at = "unstaged" /\ making.undisturbed => making.staged = StagedOf(making)
  /\ checkpoint.at = "saved" =>
       /\ checkpoint.base <= base
       /\ checkpoint.undisturbed =>
            /\ checkpoint.was \in [head : [Paths -> Files], index : [Paths -> Files],
                                   work : [Paths -> Files]]
            /\ checkpoint.files = FilesOf(checkpoint)
            /\ checkpoint.staged = StagedOf(checkpoint)
            /\ checkpoint.unstaged = UnstagedOf(checkpoint)
            /\ checkpoint.base = base => head = checkpoint.was.head

Replaying == {"reset", "clear", "staged", "unstaged", "write", "done"}

\* What a restore has yet to write, in any case.
TodoKept ==
  /\ restoring.at # "idle" => restoring.todo \subseteq DOMAIN checkpoint.files
  /\ restoring.at = "done" => restoring.todo = {}
  /\ restoring.at \in {"reset", "clear", "staged", "unstaged"} =>
       restoring.todo = DOMAIN checkpoint.files

\* How far an exact one has come: HEAD, HEAD without leftovers, the staged state, and
\* everything but the files to write.
RestoreExact ==
  LET was == checkpoint.was
  IN
  restoring.at \in Replaying /\ checkpoint.undisturbed /\ restoring.undisturbed
    /\ restoring.sameHead =>
      /\ base = checkpoint.base
      /\ restoring.at \in {"clear", "staged"} =>
           /\ index = head
           /\ \A p \in Paths : head[p] # Absent => work[p] = head[p]
      /\ restoring.at = "staged" => \A p \in NewFiles(checkpoint.staged) : work[p] = Absent
      /\ restoring.at \in {"unstaged", "write", "done"} => index = was.index
      /\ restoring.at = "unstaged" =>
           \A p \in Paths : was.head[p] # Absent \/ was.index[p] # Absent => work[p] = index[p]
      /\ restoring.at \in {"write", "done"} =>
           \A p \in Paths :
             /\ was.index[p] # Absent \/ p \in DOMAIN checkpoint.files \ restoring.todo
                  => work[p] = was.work[p]
             /\ was.head[p] # Absent /\ was.index[p] = Absent /\ was.work[p] = Absent
                  => work[p] = Absent

-----------------------------------------------------------------------------
(* Properties                                                              *)

\* A capture that mixes two moments may not be restored at all: git refuses its second
\* patch after the reset has thrown away what was there.
Undisturbed == checkpoint.undisturbed /\ restoring.undisturbed /\ restoring.sameHead

\* A restore onto the same HEAD that nobody disturbs brings back what the capture found:
\* the index, every tracked file, every removal, and the untracked files that were
\* recorded, whatever was edited in between (checkpoint.ts, "replay is exact").
RestoreIsExact ==
  restoring.at = "done" /\ Undisturbed =>
    /\ index = checkpoint.was.index
    /\ \A p \in Paths :
         (checkpoint.was.index[p] # Absent \/ p \in DOMAIN checkpoint.files
            \/ (checkpoint.was.head[p] # Absent /\ checkpoint.was.work[p] = Absent))
           => work[p] = checkpoint.was.work[p]

\* Such a restore fails only over a new file that the diff shows without a name line.
RestoreSucceeds ==
  restoring.at = "failed" /\ Undisturbed =>
    \E p \in DOMAIN checkpoint.staged :
      checkpoint.staged[p].pre = Absent /\ checkpoint.staged[p].post \in Unmarked

\* A restore, forced or not, leaves alone what neither git nor the checkpoint knows.
LeavesOthersAlone ==
  RestoreStep =>
    \A p \in Paths :
      head[p] = Absent /\ index[p] = Absent
        /\ p \notin DOMAIN checkpoint.files \cup DOMAIN checkpoint.staged
                      \cup DOMAIN checkpoint.unstaged
        => work'[p] = work[p]

\* The inductive invariant.
GitInv == TypeOK /\ OneCapture /\ CaptureExact /\ TodoKept /\ RestoreExact /\ RestoreSucceeds

\* All of it, for the run.
CheckpointsHold == [][(RestoreIsExact /\ RestoreSucceeds)' /\ LeavesOthersAlone]_vars

\* Not so: an empty or binary file that was staged as new and is untracked now makes the
\* replay fail, after the reset (checkpoint.ts, "files the staged diff creates must not
\* pre-exist").
NewFilesReplayed == ~(restoring.at = "failed" /\ Undisturbed)

\* Not so: a small file in a directory that is new to git is not recorded
\* (checkpoint.ts, "the full content of untracked files below 256KB").
SmallFilesRecorded ==
  checkpoint.at = "saved" /\ checkpoint.undisturbed =>
    \A p \in Paths :
      checkpoint.was.index[p] = Absent /\ checkpoint.was.work[p] # Absent
        => p \in DOMAIN checkpoint.files

\* Not so: such a file that HEAD has, taken from the index only, is deleted by the
\* restore, which puts it back for the staged deletion to remove (checkpoint.ts,
\* "replay is exact").
UnrecordedFilesStay ==
  restoring.at = "done" /\ Undisturbed =>
    \A p \in Paths :
      checkpoint.was.head[p] # Absent /\ checkpoint.was.work[p] # Absent => work[p] # Absent
=============================================================================
