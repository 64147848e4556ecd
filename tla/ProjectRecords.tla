--------------------------- MODULE ProjectRecords ---------------------------
(***************************************************************************)
(* One project of the workspace kernel with its goals, the chat session    *)
(* bound to it, and the artifact of one title that is rendered for it. The *)
(* kernel's stores replace whole documents, the last writer wins, and the  *)
(* services keep what they read across their awaits. Files of different    *)
(* stores are written one after the other.                                 *)
(***************************************************************************)
EXTENDS Naturals, FiniteSets

CONSTANTS
  Calls,      \* requests; the id of what a call makes is the call itself
  MaxCrashes  \* restarts of the daemon

Kinds == {"goal", "session", "archive", "render"}
None == "none"

ProjectAssumption == IsFiniteSet(Calls) /\ None \notin Calls /\ MaxCrashes \in Nat

VARIABLES
  pc, kind,   \* where each call is, and what it asks for
  held,       \* the document each call read last
  project,    \* the project document
  goals,      \* ids in the goal store
  sessions,   \* ids in the session service
  registered, \* ids in the kernel's artifact store
  artifact,   \* records of the artifact store, by id
  order,      \* their ids by time of creation
  spec,       \* whose spec.json is on disk, by artifact
  output,     \* whose files the directory of a version holds
  told,       \* the artifact and version that each render answered
  crashes

stores == <<project, goals, sessions, registered, artifact, order, spec, output>>
vars == <<pc, kind, held, stores, told, crashes>>

NoRecord == [version |-> 0, status |-> None, born |-> 0]
Versions == 1..(Cardinality(Calls) + 1)

Init ==
  /\ pc = [c \in Calls |-> "new"]
  /\ kind = [c \in Calls |-> None]
  /\ held = [c \in Calls |-> None]
  /\ project = [status |-> "active", goals |-> {}, sessions |-> {}, artifacts |-> {},
                revision |-> 1]
  /\ goals = {} /\ sessions = {} /\ registered = {}
  /\ artifact = [a \in Calls |-> NoRecord]
  /\ order = {}
  /\ spec = [a \in Calls |-> None]
  /\ output = [a \in Calls |-> [v \in Versions |-> None]]
  /\ told = [c \in Calls |-> {}]
  /\ crashes = 0

At(c, k, from) == kind[c] = k /\ pc[c] = from
Go(c, to) == pc' = [pc EXCEPT ![c] = to]
Hold(c, x) == held' = [held EXCEPT ![c] = x]

Ask(c, k) ==
  /\ pc[c] = "new" /\ Go(c, "asked")
  /\ kind' = [kind EXCEPT ![c] = k]
  /\ UNCHANGED <<held, stores, told, crashes>>

(***************************************************************************)
(* The project document.                                                   *)
(***************************************************************************)

\* requireProject, and createGoal's refusal of an archived one.
ReadProject(c, k, from, to) ==
  /\ At(c, k, from)
  /\ IF k = "goal" /\ project.status = "archived"
     THEN Go(c, "refused") /\ UNCHANGED held
     ELSE Go(c, to) /\ Hold(c, project)
  /\ UNCHANGED <<kind, stores, told, crashes>>

\* Mutant: the project is saved before the goal that it lists.
MutGoalSteps == <<"list", "create">>

\* createGoal saves the goal, then the project.
GoalSteps == <<"create", "list">>

Turn(c, what) ==
  \/ pc[c] = "read" /\ GoalSteps[1] = what /\ Go(c, "second")
  \/ pc[c] = "second" /\ GoalSteps[2] = what /\ Go(c, "done")

CreateGoal(c) ==
  /\ kind[c] = "goal" /\ Turn(c, "create")
  /\ goals' = goals \cup {c}
  /\ UNCHANGED <<kind, held, project, sessions, registered, artifact, order, spec, output,
                 told, crashes>>

\* appendProjectId: the document that was read is saved with one more id.
AppendProjectId(c, list, id) ==
  project' = IF id \in held[c][list] THEN project
             ELSE [held[c] EXCEPT ![list] = @ \cup {id}, !.revision = @ + 1]

AppendGoal(c) ==
  /\ kind[c] = "goal" /\ Turn(c, "list")
  /\ AppendProjectId(c, "goals", c)
  /\ UNCHANGED <<kind, held, goals, sessions, registered, artifact, order, spec, output,
                 told, crashes>>

\* ensureProjectSession: the most recent session, or a new one, linked after.
EnsureSession(c) ==
  /\ At(c, "session", "asked")
  /\ Go(c, IF sessions # {} THEN "done" ELSE "create")
  /\ UNCHANGED <<kind, held, stores, told, crashes>>

CreateSession(c) ==
  /\ At(c, "session", "create")
  /\ sessions' = sessions \cup {c}
  /\ Go(c, "link")
  /\ UNCHANGED <<kind, held, project, goals, registered, artifact, order, spec, output, told,
                 crashes>>

LinkSession(c) ==
  /\ At(c, "session", "append")
  /\ AppendProjectId(c, "sessions", c)
  /\ Go(c, "done")
  /\ UNCHANGED <<kind, held, goals, sessions, registered, artifact, order, spec, output, told,
                 crashes>>

\* archiveProject is shallow: only the document changes.
Archive(c) ==
  /\ At(c, "archive", "append")
  /\ project' = IF held[c].status = "archived" THEN project
                ELSE [held[c] EXCEPT !.status = "archived", !.revision = @ + 1]
  /\ Go(c, "done")
  /\ UNCHANGED <<kind, held, goals, sessions, registered, artifact, order, spec, output, told,
                 crashes>>

(***************************************************************************)
(* Rendering: createFromRenderer, then registerArtifact.                   *)
(***************************************************************************)

First == CHOOSE a \in order : \A b \in order : artifact[a].born <= artifact[b].born

\* The first record of the title is taken over, with the next version.
ListArtifacts(c) ==
  /\ At(c, "render", "asked")
  /\ Hold(c, IF order = {} THEN [id |-> c, version |-> 1, born |-> 0]
             ELSE [id |-> First, version |-> artifact[First].version + 1,
                   born |-> artifact[First].born])
  /\ Go(c, "save")
  /\ UNCHANGED <<kind, stores, told, crashes>>

\* createdAt is the time at which the record is made.
Saved(c, status) ==
  artifact' = [artifact EXCEPT ![held[c].id] =
    [version |-> held[c].version, status |-> status,
     born |-> IF held[c].id \in order THEN artifact[held[c].id].born ELSE Cardinality(order)]]

SaveRendering(c) ==
  /\ At(c, "render", "save")
  /\ Saved(c, "rendering")
  /\ order' = order \cup {held[c].id}
  /\ Go(c, "spec")
  /\ UNCHANGED <<kind, held, project, goals, sessions, registered, spec, output, told, crashes>>

\* spec.json is the same file for every version.
WriteSpec(c) ==
  /\ At(c, "render", "spec")
  /\ spec' = [spec EXCEPT ![held[c].id] = c]
  /\ Go(c, "files")
  /\ UNCHANGED <<kind, held, project, goals, sessions, registered, artifact, order, output, told,
                 crashes>>

WriteFiles(c) ==
  /\ At(c, "render", "files")
  /\ output' = [output EXCEPT ![held[c].id][held[c].version] = c]
  /\ Go(c, "ready")
  /\ UNCHANGED <<kind, held, project, goals, sessions, registered, artifact, order, spec, told,
                 crashes>>

\* The renderer throws: the record says so, and nothing is registered.
RenderFails(c) ==
  /\ At(c, "render", "files")
  /\ Saved(c, "failed")
  /\ Go(c, "refused")
  /\ UNCHANGED <<kind, held, project, goals, sessions, registered, order, spec, output, told,
                 crashes>>

SaveReady(c) ==
  /\ At(c, "render", "ready")
  /\ Saved(c, "ready")
  /\ told' = [told EXCEPT ![c] = {[id |-> held[c].id, version |-> held[c].version]}]
  /\ Go(c, "register")
  /\ UNCHANGED <<kind, held, project, goals, sessions, registered, order, spec, output, crashes>>

\* registerArtifact saves the kernel's record first; linkArtifact reads the project.
RegisterArtifact(c) ==
  /\ At(c, "render", "register")
  /\ registered' = registered \cup {held[c].id}
  /\ Hold(c, [id |-> held[c].id, doc |-> None]) /\ Go(c, "linking")
  /\ UNCHANGED <<kind, project, goals, sessions, artifact, order, spec, output, told, crashes>>

LinkReads(c) ==
  /\ At(c, "render", "linking")
  /\ Hold(c, [id |-> held[c].id, doc |-> project])
  /\ Go(c, "append")
  /\ UNCHANGED <<kind, stores, told, crashes>>

LinkArtifact(c) ==
  /\ At(c, "render", "append")
  /\ LET doc == held[c].doc
         id == held[c].id
     IN  project' = IF id \in doc.artifacts THEN project
                    ELSE [doc EXCEPT !.artifacts = @ \cup {id}, !.revision = @ + 1]
  /\ Go(c, "done")
  /\ UNCHANGED <<kind, held, goals, sessions, registered, artifact, order, spec, output, told,
                 crashes>>

Open(c) == pc[c] \notin {"new", "done", "refused", "lost"}

\* A restart forgets the calls and leaves the files.
Crash ==
  /\ crashes < MaxCrashes /\ crashes' = crashes + 1
  /\ pc' = [c \in Calls |-> IF Open(c) THEN "lost" ELSE pc[c]]
  /\ held' = [c \in Calls |-> None]
  /\ UNCHANGED <<kind, stores, told>>

Next ==
  \/ \E c \in Calls :
       \/ (\E k \in Kinds : Ask(c, k)) \/ ReadProject(c, "goal", "asked", "read") \/ CreateGoal(c) \/ AppendGoal(c)
       \/ EnsureSession(c) \/ CreateSession(c) \/ ReadProject(c, "session", "link", "append")
       \/ LinkSession(c)
       \/ ReadProject(c, "archive", "asked", "append") \/ Archive(c)
       \/ ListArtifacts(c) \/ SaveRendering(c) \/ WriteSpec(c) \/ WriteFiles(c) \/ RenderFails(c)
       \/ SaveReady(c) \/ RegisterArtifact(c) \/ LinkReads(c) \/ LinkArtifact(c)
  \/ Crash

Spec == Init /\ [][Next]_vars

-----------------------------------------------------------------------------
\* The id lists of a project never dangle, whatever is cut off between two
\* stores, and an artifact the kernel lists was rendered to its end once.
NeverDangles ==
  /\ project.goals \subseteq goals
  /\ project.sessions \subseteq sessions
  /\ project.artifacts \subseteq registered
  /\ \A a \in registered : \E v \in Versions : output[a][v] # None

\* "keeps the previous version's files on disk": no two renders answer the same
\* version of an artifact.
VersionsKept ==
  \A c, d \in Calls : c # d => told[c] \cap told[d] = {}

-----------------------------------------------------------------------------
(***************************************************************************)
(* The inductive invariant: a document that a call read lists what exists, *)
(* for nothing is ever taken out of a store, and a call adds an id only    *)
(* after it made the thing; a version is at most the number of renders     *)
(* that have looked at the list.                                           *)
(***************************************************************************)
Docs == [status : {"active", "archived"}, goals : SUBSET Calls, sessions : SUBSET Calls,
         artifacts : SUBSET Calls, revision : Nat]
Lists(doc) ==
  doc.goals \subseteq goals /\ doc.sessions \subseteq sessions /\ doc.artifacts \subseteq registered

Rendered(a) == \E v \in Versions : output[a][v] # None
Listed == {c \in Calls : kind[c] = "render" /\ pc[c] # "asked"}

\* What a call holds at each of its awaits.
Reading(c) == pc[c] \in {"read", "second"} \/ (pc[c] = "append" /\ kind[c] # "render")
Rendering(c) == pc[c] \in {"save", "spec", "files", "ready", "register"}
Holds(c) ==
  /\ pc[c] \in {"read", "second"} => kind[c] = "goal"
  /\ pc[c] = "second" => c \in goals
  /\ (pc[c] \in {"link", "append"} /\ kind[c] = "session") => c \in sessions
  /\ Reading(c) => (held[c] \in Docs /\ Lists(held[c]))
  /\ Rendering(c) => (kind[c] = "render" /\ held[c].id \in Calls
                      /\ held[c].version \in 1..Cardinality(Listed))
  /\ pc[c] \in {"ready", "register"} => output[held[c].id][held[c].version] # None
  /\ pc[c] = "linking" => kind[c] = "render"
  /\ (kind[c] = "render" /\ pc[c] \in {"linking", "append"}) => held[c].id \in registered
  /\ (kind[c] = "render" /\ pc[c] = "append") => (held[c].doc \in Docs /\ Lists(held[c].doc))

ProjectsInv ==
  /\ pc \in [Calls -> {"new", "asked", "read", "second", "create", "link", "append", "save", "spec",
                       "files", "ready", "register", "linking", "done", "refused", "lost"}]
  /\ kind \in [Calls -> Kinds \cup {None}]
  /\ \A c \in Calls : pc[c] = "new" => kind[c] = None
  /\ DOMAIN held = Calls
  /\ project \in Docs /\ Lists(project)
  /\ goals \subseteq Calls /\ sessions \subseteq Calls /\ registered \subseteq Calls
  /\ order \subseteq Calls
  /\ artifact \in [Calls -> [version : Nat, status : {None, "rendering", "failed", "ready"}, born : Nat]]
  /\ output \in [Calls -> [Versions -> Calls \cup {None}]]
  /\ \A a \in order : artifact[a].version \in 1..Cardinality(Listed)
  /\ order # {} => \E a \in order : artifact[a].born = 0
  /\ \A a \in registered : Rendered(a)
  /\ \A c \in Calls : Holds(c)
=============================================================================
