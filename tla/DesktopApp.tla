---------------------------- MODULE DesktopApp ----------------------------
(***************************************************************************)
(* The window of the desktop app: which workspace and conversation it has  *)
(* selected, what it shows of them, and the requests under way whose       *)
(* answers come back in any order while the person moves on. The server's  *)
(* part is what it stores and when it answers; events reach the window     *)
(* through the connection of the selected workspace.                       *)
(*                                                                         *)
(* React renders are immediate here, except that the event connection of   *)
(* a workspace is replaced in a step of its own.                           *)
(***************************************************************************)
EXTENDS Naturals, Sequences, FiniteSets

CONSTANTS
  Clients, Planned, \* the workspaces, and those not made yet at the start
  First,          \* of some workspaces, the one their directory lists first
  Sessions, ClientOf, \* product sessions and their workspace
  Old,            \* the sessions that exist at the start
  Nobody,         \* no workspace yet, no session
  MaxClicks,      \* bound: what the person does
  MaxWrites,      \* bound: messages that are stored
  MaxRev          \* bound: revisions of a session

\* What the constants have to be; the module of the run assumes it.
DesktopAssumption ==
  First \in [SUBSET Clients -> Clients] /\ Planned \subseteq Clients
    /\ Nobody \notin Clients \cup Sessions /\ "primary" \notin Sessions
    /\ Old \subseteq Sessions /\ ClientOf \in [Sessions -> Clients]

VARIABLES
  selected,       \* StateLoadGuard.selected: workspace and conversation
  session,        \* selectedSessionId
  bootstrapped,   \* sessionBootstrap
  loading,        \* the window is not drawn before a first answer
  loads,          \* /api/state requests, and the answers not read yet: a newest one is
                  \* in StateLoadGuard.latestByScope, the run waits for its own
  asks,           \* requests that change a session, or the plan mode
  shown,          \* the conversations whose messages are on the screen, how new, and the
                  \* workspace they were asked from: nobody's was selected, or one since
  plan,           \* the conversation whose plan mode is on the screen
  sidebar,        \* the sessions listed
  source, queue,  \* the event connection and what waits in it
  timer,          \* the debounced refresh
  run,            \* the message being sent: submitLock and activeRunTarget
  posts,          \* /api/messages requests
  opening,        \* the workspace being created
  settings,       \* the settings are read and not applied yet
  hosted,         \* server: the planned workspaces that exist by now
  store, written, \* server: the sessions, and the messages of each conversation
  clicks

vars == <<selected, session, bootstrapped, loading, loads, asks, shown, plan,
          sidebar, source, queue, timer, run, posts, opening, settings, hosted, store, written,
          clicks>>

Primary == "primary"
Scopes == [client : Clients \cup {Nobody}, conv : Sessions \cup {Primary}]
Home(c) == [client |-> c, conv |-> Primary]
ScopeOf(s) == [client |-> ClientOf[s], conv |-> s]

Missing == [rev |-> 0, as |-> "none"]
Listed(list, c) == {s \in Sessions : ClientOf[s] = c /\ list[s].as \in {"active", "archived"}}
Blank == [of |-> {}, at |-> 0, from |-> Nobody]
NoSessions == [s \in Sessions |-> Missing]
Unlaunched == [at |-> "idle", launch |-> Home(Nobody), target |-> Home(Nobody)]

Ticket(scope, mine) ==
  [scope |-> scope, newest |-> TRUE, mine |-> mine, answered |-> FALSE,
   client |-> scope.client, at |-> 0, list |-> NoSessions]

Init ==
  /\ selected = Home(Nobody) /\ session = Nobody /\ bootstrapped = FALSE /\ loading = TRUE
  /\ loads = {Ticket(Home(Nobody), FALSE)} /\ asks = {}
  /\ shown = Blank /\ plan = {} /\ sidebar = NoSessions
  /\ source = Nobody /\ queue = <<>> /\ timer = FALSE
  /\ run = Unlaunched /\ posts = {} /\ opening = Nobody /\ settings = TRUE /\ hosted = {}
  /\ store = [s \in Sessions |-> IF s \in Old THEN [rev |-> 1, as |-> "active"] ELSE Missing]
  /\ written = [s \in Scopes |-> 0]
  /\ clicks = 0

-----------------------------------------------------------------------------
(* The guard of the state requests                                         *)

SameScope(a, b) == a.client = b.client /\ a.conv = b.conv
\* Mutant: a late answer moves the window.
MutStillSelected(scope) == selected.client = scope.client
StillSelected(scope) == SameScope(selected, scope)

\* Mutants: an older answer of the same scope; the conversation is not compared.
MutCanCommitOlder(t) ==
  /\ selected.conv = t.scope.conv
  /\ IF selected.client = Nobody THEN t.scope.client = Nobody ELSE selected.client = t.client
MutCanCommitAnywhere(t) ==
  /\ t.newest
  /\ IF selected.client = Nobody THEN t.scope.client = Nobody ELSE selected.client = t.client

CanCommit(t) ==
  /\ t.newest
  /\ selected.conv = t.scope.conv
  /\ IF selected.client = Nobody THEN t.scope.client = Nobody ELSE selected.client = t.client

\* begin: from now on this is the newest request of its scope.
Begin(scope, mine, others) ==
  loads' = {[t EXCEPT !.newest = @ /\ t.scope # scope] : t \in others} \cup {Ticket(scope, mine)}

\* selectStateScope clears what the screen showed of the scope it leaves.
\* Mutant: the messages of the scope that is left stay.
MutSelect(scope) == selected' = scope /\ plan' = {} /\ UNCHANGED shown
Select(scope) == selected' = scope /\ shown' = Blank /\ plan' = {}
Stay == UNCHANGED <<selected, shown, plan>>

Upsert(s, as) == [sidebar EXCEPT ![s] = as]

-----------------------------------------------------------------------------
(* The server                                                              *)

Publish(c, e) == queue' = IF source = c THEN Append(queue, e) ELSE queue

Workspaces == Clients \ (Planned \ hosted)

\* GET /api/state. One that names no workspace is answered for the first of the list.
AnswerLoad(t) ==
  LET c == IF t.scope.client = Nobody THEN First[Workspaces] ELSE t.scope.client
      list == [s \in Sessions |-> IF s \in Listed(store, c) THEN store[s] ELSE Missing]
  IN /\ t \in loads /\ ~t.answered
     /\ loads' = (loads \ {t}) \cup
          {[t EXCEPT !.answered = TRUE, !.client = c, !.list = list,
                     !.at = written[[client |-> c, conv |-> t.scope.conv]]]}
     /\ UNCHANGED <<selected, session, bootstrapped, loading, asks, shown, plan,
                    sidebar, source, queue, timer, run, posts, store, written, clicks,
                    opening, settings, hosted>>

\* POST /api/clients.
MakeWorkspace ==
  /\ opening \in Planned \ hosted /\ hosted' = hosted \cup {opening}
  /\ UNCHANGED <<selected, session, bootstrapped, loading, loads, asks, shown, plan, sidebar,
                 source, queue, timer, run, posts, store, written, clicks, opening, settings>>

MayWrite == \A s \in Scopes : written[s] < MaxWrites

\* Someone else writes into a conversation.
Write(s) ==
  /\ store[s].as = "active" /\ MayWrite
  /\ written' = [written EXCEPT ![ScopeOf(s)] = @ + 1]
  /\ Publish(ClientOf[s], [type |-> "conversation", of |-> s, as |-> Missing])
  /\ UNCHANGED <<selected, session, bootstrapped, loading, loads, asks, shown, plan,
                 sidebar, source, timer, run, posts, store, clicks,
                 opening, settings, hosted>>

Become == [create |-> "active", first |-> "active", rename |-> "active",
           archive |-> "archived", delete |-> "deleted"]
From == [create |-> "none", first |-> "none", rename |-> "active", archive |-> "active",
         delete |-> "active"]

\* The mutation is made, and announced, or refused for its revision; the request or
\* its answer may also be lost.
AnswerAsk(a) ==
  LET s == a.of
      fits == store[s].as = From[a.kind] /\ store[s].rev = a.rev /\ a.rev < MaxRev
      next == [rev |-> store[s].rev + 1, as |-> Become[a.kind]]
  IN /\ a \in asks /\ ~a.answered
     /\ \E made \in {FALSE, fits} : \E ok \in {FALSE, made} :
          /\ asks' = (asks \ {a}) \cup {[a EXCEPT !.answered = TRUE, !.ok = ok,
                                                 !.as = IF ok THEN next ELSE Missing]}
          /\ IF made
             THEN /\ store' = [store EXCEPT ![s] = next]
                  /\ Publish(ClientOf[s], [type |-> "session", of |-> s, as |-> next])
             ELSE UNCHANGED <<store, queue>>
     /\ UNCHANGED <<selected, session, bootstrapped, loading, loads, shown, plan,
                    sidebar, source, timer, run, posts, written, clicks,
                    opening, settings, hosted>>

\* POST /api/messages ends, with an answer or without.
AnswerPost(scope) ==
  /\ scope \in posts /\ posts' = posts \ {scope}
  /\ written' \in {written} \cup IF MayWrite THEN {[written EXCEPT ![scope] = @ + 1]} ELSE {}
  /\ run' = [run EXCEPT !.at = "loading"]
  /\ Begin(scope, TRUE, loads)
  /\ UNCHANGED <<selected, session, bootstrapped, loading, asks, shown, plan, sidebar, source, queue,
                 timer, store, clicks,
                 opening, settings, hosted>>

-----------------------------------------------------------------------------
(* What the window makes of the answers                                    *)

Settled(t) == IF t.mine THEN Unlaunched ELSE run

\* The session to open first: the one of this conversation, or the top of the list.
Targets(t) ==
  IF t.scope.conv \in Listed(t.list, t.client) THEN {t.scope.conv}
  ELSE LET live == {s \in Listed(t.list, t.client) : t.list[s].as = "active"}
       IN IF live = {} THEN {Nobody} ELSE live

\* The workspace an answer was asked from, if the window shows it; the first answer
\* selects its own.
Asked(t) == IF selected.client = Nobody THEN t.client ELSE t.scope.client

\* The rest of loadState; an answer that does not commit, or a failure, leaves all as is.
Load(t) ==
  LET here == [client |-> t.client, conv |-> t.scope.conv] IN
  /\ t \in loads /\ t.answered /\ run' = Settled(t)
  /\ UNCHANGED <<asks, source, queue, timer, posts, store, written, clicks,
                 opening, settings, hosted>>
  /\ \/ /\ loads' = loads \ {t} /\ Stay /\ loading' = (loading /\ ~CanCommit(t))
        /\ UNCHANGED <<session, sidebar, bootstrapped>>
     \/ /\ CanCommit(t)
        /\ sidebar' = t.list /\ bootstrapped' = TRUE
        /\ \E s \in IF bootstrapped THEN {Nobody} ELSE Targets(t) :
             /\ session' = IF s = Nobody THEN session ELSE s
             /\ IF s \notin {Nobody, t.scope.conv}
                THEN /\ Select(ScopeOf(s)) /\ Begin(ScopeOf(s), FALSE, loads \ {t})
                     /\ UNCHANGED loading
                ELSE /\ selected' = here
                     /\ shown' = [of |-> {here}, at |-> t.at, from |-> Asked(t)]
                     /\ loading' = FALSE
                     /\ plan' = {here} /\ loads' = loads \ {t}

Relisted(c) == [s \in Sessions |-> IF s \in Listed(store, c) THEN store[s] ELSE Missing]

\* sessionMutation gave nothing: the list is read again if the scope is the same
\* (deleteSession only shows the error).
Refused(a) ==
  /\ sidebar' = IF StillSelected(a.owner) /\ a.kind # "delete"
                THEN Relisted(a.owner.client) ELSE sidebar
  /\ UNCHANGED <<selected, session, shown, plan, loads>>

\* The new session is opened if the person is where they asked for it.
Opened(a) ==
  /\ sidebar' = Upsert(a.of, a.as) /\ session' = a.of
  /\ Select(ScopeOf(a.of)) /\ Begin(ScopeOf(a.of), FALSE, loads)

\* Another session, or the primary conversation, takes the place of one that left.
Replaced(a, list) ==
  \E s \in LET rest == {x \in Listed(list, a.owner.client) : list[x].as = "active" /\ x # a.of}
           IN IF rest = {} THEN {Nobody} ELSE rest :
    LET scope == IF s = Nobody THEN Home(a.owner.client) ELSE ScopeOf(s)
    IN session' = s /\ Select(scope) /\ Begin(scope, FALSE, loads)

\* deleteSession filters the list it finds and looks for the next session in the one it
\* knew; archiveSession puts the list it knew in place of the one it finds.
Removed(a) ==
  LET known == [a.known EXCEPT ![a.of] = a.as] IN
  /\ sidebar' = IF a.kind = "delete" THEN [sidebar EXCEPT ![a.of] = Missing] ELSE known
  /\ IF a.chosen = a.of THEN Replaced(a, known)
     ELSE Stay /\ UNCHANGED <<session, loads>>

Ask(a) ==
  /\ a \in asks /\ a.answered /\ a.kind \notin {"plan", "first"} /\ asks' = asks \ {a}
  /\ IF ~a.ok THEN Refused(a)
     ELSE IF ~StillSelected(a.owner)
     THEN Stay /\ UNCHANGED <<session, sidebar, loads>>
     ELSE CASE a.kind = "create" -> Opened(a)
            [] a.kind \in {"archive", "delete"} -> Removed(a)
            [] a.kind = "rename" -> /\ sidebar' = Upsert(a.of, a.as)
                                    /\ Stay /\ UNCHANGED <<session, loads>>
  /\ UNCHANGED <<bootstrapped, loading, source, queue, timer, run, posts, store, written, clicks,
                 opening, settings, hosted>>

\* togglePlanMode shows the answer whatever is selected now.
PlanMode(a) ==
  /\ a \in asks /\ a.kind = "plan" /\ asks' = asks \ {a}
  /\ plan' = {a.owner}
  /\ UNCHANGED <<selected, session, bootstrapped, loading, loads, shown, sidebar,
                 source, queue, timer, run, posts, store, written, clicks,
                 opening, settings, hosted>>

\* A workspace has one event connection; what still waits in the old one is dropped.
Connect ==
  /\ source # selected.client
  /\ source' = selected.client /\ queue' = <<>> /\ timer' = FALSE
  /\ UNCHANGED <<selected, session, bootstrapped, loading, loads, asks, shown, plan,
                 sidebar, run, posts, store, written, clicks,
                 opening, settings, hosted>>

OwnsScreen == source = selected.client

Receive ==
  LET e == Head(queue) IN
  /\ queue # <<>> /\ queue' = Tail(queue)
  /\ sidebar' = IF OwnsScreen /\ e.type = "session" THEN Upsert(e.of, e.as) ELSE sidebar
  /\ timer' = (timer \/ (OwnsScreen /\ e.type = "conversation"))
  /\ UNCHANGED <<selected, session, bootstrapped, loading, loads, asks, shown, plan,
                 source, run, posts, store, written, clicks,
                 opening, settings, hosted>>

Refresh ==
  /\ timer /\ timer' = FALSE
  /\ Begin(selected, FALSE, loads)
  /\ UNCHANGED <<selected, session, bootstrapped, loading, asks, shown, plan, sidebar, source, queue,
                 run, posts, store, written, clicks,
                 opening, settings, hosted>>

\* The settings read at the start: they are applied, and the selected scope is read
\* (again); when they fail to load nothing happens.
ApplySettings ==
  /\ settings /\ settings' = FALSE
  /\ Begin(selected, FALSE, loads)
  /\ UNCHANGED <<selected, session, bootstrapped, loading, asks, shown, plan, sidebar, source,
                 queue, timer, run, posts, store, written, clicks, opening, hosted>>

-----------------------------------------------------------------------------
(* What the person does                                                    *)

Click == ~loading /\ clicks < MaxClicks /\ clicks' = clicks + 1

SelectSession(s) ==
  /\ Click /\ s # session /\ s \in Listed(sidebar, selected.client)
  /\ session' = s /\ Select(ScopeOf(s)) /\ Begin(ScopeOf(s), FALSE, loads)
  /\ UNCHANGED <<bootstrapped, loading, asks, sidebar, source, queue, timer, run, posts, store, written,
                 opening, settings, hosted>>

OpenWorkspace(c) ==
  /\ session' = Nobody /\ bootstrapped' = FALSE /\ sidebar' = NoSessions
  /\ Select(Home(c)) /\ Begin(Home(c), FALSE, loads)

\* The workspaces are listed once an answer came.
SelectClient(c) ==
  /\ Click /\ selected.client # Nobody /\ c \in Workspaces
  /\ OpenWorkspace(c)
  /\ UNCHANGED <<loading, asks, source, queue, timer, run, posts, store, written,
                 opening, settings, hosted>>

\* "Retry", or settings that are saved: the selected scope is read again.
Reload ==
  /\ Click /\ Begin(selected, FALSE, loads)
  /\ UNCHANGED <<selected, session, bootstrapped, loading, asks, shown, plan, sidebar, source,
                 queue, timer, run, posts, store, written, opening, settings, hosted>>

\* createWorkspace: one at a time; the name may be one that is taken.
CreateWorkspace(c) ==
  /\ Click /\ opening = Nobody /\ opening' = c
  /\ UNCHANGED <<selected, session, bootstrapped, loading, loads, asks, shown, plan, sidebar,
                 source, queue, timer, run, posts, store, written, settings, hosted>>

\* The request carries the scope, the revision and the lists of the click.
Request(kind, s) ==
  [kind |-> kind, of |-> s, owner |-> selected, rev |-> sidebar[s].rev, known |-> sidebar,
   chosen |-> session, answered |-> FALSE, ok |-> FALSE, as |-> Missing]

PlanRequest ==
  [kind |-> "plan", of |-> Nobody, owner |-> selected, rev |-> 0, known |-> NoSessions,
   chosen |-> Nobody, answered |-> TRUE, ok |-> TRUE, as |-> Missing]

Free(s) == ClientOf[s] = selected.client /\ store[s].as = "none" /\ \A a \in asks : a.of # s

Mutate(kind, s) ==
  /\ Click /\ selected.client # Nobody
  /\ IF kind = "create" THEN Free(s)
     ELSE s \in Listed(sidebar, selected.client) /\ sidebar[s].as = "active"
  /\ asks' = asks \cup {Request(kind, s)}
  /\ UNCHANGED <<selected, session, bootstrapped, loading, loads, shown, plan,
                 sidebar, source, queue, timer, run, posts, store, written,
                 opening, settings, hosted>>

TogglePlan ==
  /\ Click /\ selected.client # Nobody
  /\ asks' = asks \cup {PlanRequest}
  /\ UNCHANGED <<selected, session, bootstrapped, loading, loads, shown, plan,
                 sidebar, source, queue, timer, run, posts, store, written,
                 opening, settings, hosted>>

\* Mutant: the lock goes when the answer came, before the conversation is read again.
MutMaySubmit == run.at \in {"idle", "loading"}
MaySubmit == run.at = "idle"

\* The message goes out; it is shown at once where its conversation is selected.
Post(target, from) ==
  /\ posts' = posts \cup {target}
  /\ run' = [at |-> "sent", launch |-> from, target |-> target]

\* submitGoal, with a session at hand or with one to create first.
Submit ==
  /\ Click /\ MaySubmit /\ selected.client # Nobody
  /\ IF session \in Listed(sidebar, selected.client)
     THEN LET target == ScopeOf(session) IN
          /\ Post(target, selected)
          /\ shown' = IF SameScope(selected, target)
                      THEN [shown EXCEPT !.of = @ \cup {target}] ELSE shown
          /\ UNCHANGED <<asks>>
     ELSE /\ \E s \in Sessions : Free(s) /\ asks' = asks \cup {Request("first", s)}
          /\ run' = [Unlaunched EXCEPT !.at = "creating", !.launch = selected]
          /\ UNCHANGED <<posts, shown>>
  /\ UNCHANGED <<selected, session, bootstrapped, loading, loads, plan, sidebar,
                 source, queue, timer, store, written,
                 opening, settings, hosted>>

\* The session for the first message is there, or is not: then the message goes to the
\* conversation it was written in.
FirstSession(a) ==
  LET moves == a.ok /\ SameScope(selected, run.launch)
      target == IF a.ok THEN ScopeOf(a.of) ELSE run.launch
      now == IF moves THEN target ELSE selected
  IN /\ a \in asks /\ a.kind = "first" /\ a.answered /\ asks' = asks \ {a}
     /\ Post(target, run.launch)
     /\ selected' = now
     /\ shown' = [of |-> (IF moves THEN {} ELSE shown.of)
                           \cup (IF SameScope(now, target) THEN {target} ELSE {}),
                  at |-> IF moves THEN 0 ELSE shown.at,
                  from |-> IF moves THEN Nobody ELSE shown.from]
     /\ plan' = IF moves THEN {} ELSE plan
     /\ sidebar' = CASE ~SameScope(selected, run.launch) -> sidebar
                     [] a.ok -> Upsert(a.of, a.as)
                     [] OTHER -> Relisted(run.launch.client)
     /\ session' = IF moves THEN a.of ELSE session
     /\ UNCHANGED <<bootstrapped, loading, loads, source, queue, timer, store,
                    written, clicks,
                    opening, settings, hosted>>

\* The answer to createWorkspace opens the workspace, wherever the person is by then.
WorkspaceMade ==
  /\ opening \in Workspaces /\ opening' = Nobody
  /\ OpenWorkspace(opening)
  /\ UNCHANGED <<loading, asks, source, queue, timer, run, posts, store, written, clicks,
                 settings, hosted>>

WorkspaceFailed ==
  /\ opening # Nobody /\ opening' = Nobody
  /\ UNCHANGED <<selected, session, bootstrapped, loading, loads, asks, shown, plan, sidebar,
                 source, queue, timer, run, posts, store, written, clicks, settings, hosted>>

Next ==
  \/ \E t \in loads : AnswerLoad(t) \/ Load(t)
  \/ \E a \in asks : AnswerAsk(a) \/ Ask(a) \/ PlanMode(a) \/ FirstSession(a)
  \/ \E s \in Sessions : Write(s) \/ SelectSession(s)
  \/ \E s \in Sessions, k \in {"create", "rename", "archive", "delete"} : Mutate(k, s)
  \/ \E scope \in posts : AnswerPost(scope)
  \/ \E c \in Clients : SelectClient(c) \/ CreateWorkspace(c)
  \/ TogglePlan \/ Submit \/ Reload \/ Connect \/ Receive \/ Refresh
  \/ ApplySettings \/ MakeWorkspace \/ WorkspaceMade \/ WorkspaceFailed

Spec == Init /\ [][Next]_vars

-----------------------------------------------------------------------------
(* Properties                                                              *)

\* The messages on the screen are those of the selected conversation alone: workspaces
\* share the name of the primary conversation, and answers come in any order
\* (App.tsx, selectStateScope and loadState).
ShownBelongs == shown.of \subseteq {selected}

\* A message cannot be sent while the one before is not answered and its conversation
\* not read again, whatever was selected meanwhile (App.tsx, submitLock).
OneMessage == posts # {} => posts = {run.target}

\* A message goes to the workspace it was written in.
SentWhereWritten == \A scope \in posts : scope.client = run.launch.client

\* createWorkspace opens what it made without a look at the selection (App.tsx:897).
MadeOpens == opening # Nobody /\ opening' = Nobody /\ selected' = Home(opening)

\* Only the person, a workspace they asked for, or an answer to what was asked from the
\* scope that is still selected, moves the window (App.tsx, scopeStillSelected).
OwnerMoves ==
  \/ clicks' # clicks
  \/ \E t \in loads \ loads' :
        t.scope.conv = selected.conv /\ t.scope.client \in {selected.client, Nobody}
  \/ \E a \in asks \ asks' : SameScope(a.owner, selected)
MovedByItsOwner == selected' # selected => OwnerMoves \/ MadeOpens

\* No answer takes the window from one workspace to another, but that of a workspace the
\* person creates.
NeverLeavesWorkspace ==
  selected'.client # selected.client /\ selected.client # Nobody => clicks' # clicks \/ MadeOpens

\* What is shown of a conversation never goes back to an older answer
\* (stateLoadGuard.ts, "an older response for the same scope cannot roll back a newer one"),
\* once the answers are asked from a workspace: before, requests are of a scope of their own.
NeverOlder ==
  selected' = selected /\ shown.of # {} /\ shown'.of # {}
      /\ shown.from # Nobody /\ shown'.from # Nobody
    => shown'.at >= shown.at

\* All of it, for the run.
ScreenHolds ==
  [][(ShownBelongs /\ OneMessage /\ SentWhereWritten)'
     /\ MovedByItsOwner /\ NeverLeavesWorkspace /\ NeverOlder]_vars

\* Not so: a workspace that is made late takes the window from where the person went
\* (stateLoadGuard.ts, "Exact scope equality for any async UI mutation").
MovedOnlyByItsOwner ==
  [][selected' # selected => OwnerMoves]_vars

\* Not so: an answer asked for before a workspace was selected comes after newer ones
\* (stateLoadGuard.ts, "an older response for the same scope cannot roll back a newer one":
\* its scope has another key).
AnswersNeverOlder ==
  [][selected' = selected /\ shown.of # {} /\ shown'.of # {} => shown'.at >= shown.at]_vars

\* Not so: the plan mode of another conversation is shown when its answer comes after
\* a switch (App.tsx, togglePlanMode applies it unchecked).
PlanModeBelongs == plan \subseteq {selected}

\* Not so: the sidebar goes back to an older revision when a list or a response comes
\* after a newer event (sessionList.ts, "the local list always reflects the latest
\* acknowledged revision").
RevisionsGrow ==
  [][\A s \in Sessions :
       selected'.client = selected.client /\ sidebar[s].rev > 0 /\ sidebar'[s].rev > 0
         => sidebar'[s].rev >= sidebar[s].rev]_vars
-----------------------------------------------------------------------------
(* Types, and what holds between the steps                                 *)

Stamp == [rev : Nat, as : {"none", "active", "archived", "deleted"}]
SessionList == [Sessions -> Stamp]
TicketRecord ==
  [scope : Scopes, newest : BOOLEAN, mine : BOOLEAN, answered : BOOLEAN,
   client : Clients \cup {Nobody}, at : Nat, list : SessionList]
AskRecord ==
  [kind : {"create", "first", "rename", "archive", "delete", "plan"}, of : Sessions \cup {Nobody},
   owner : Scopes, rev : Nat, known : SessionList, chosen : Sessions \cup {Nobody},
   answered : BOOLEAN, ok : BOOLEAN, as : Stamp]
EventRecord == [type : {"conversation", "session"}, of : Sessions, as : Stamp]

TypeOK ==
  /\ selected \in Scopes /\ session \in Sessions \cup {Nobody}
  /\ bootstrapped \in BOOLEAN /\ loading \in BOOLEAN /\ timer \in BOOLEAN
  /\ loads \subseteq TicketRecord /\ asks \subseteq AskRecord
  /\ shown \in [of : SUBSET Scopes, at : Nat, from : Clients \cup {Nobody}] /\ plan \subseteq Scopes
  /\ sidebar \in SessionList /\ store \in SessionList
  /\ source \in Clients \cup {Nobody} /\ queue \in Seq(EventRecord)
  /\ run \in [at : {"idle", "creating", "sent", "loading"}, launch : Scopes, target : Scopes]
  /\ posts \subseteq Scopes /\ written \in [Scopes -> Nat] /\ clicks \in Nat

\* Whatever the window knows of a session, the server has it, or had it.
Exists(s) == store[s].as # "none"
Known(list) == \A s \in Sessions : list[s].as # "none" => Exists(s)
SessionsExist ==
  /\ selected.conv \in Sessions => Exists(selected.conv)
  /\ Known(sidebar) /\ \A t \in loads : Known(t.list)
  /\ \A a \in asks : /\ Known(a.known) /\ (a.kind # "plan" => a.of \in Sessions)
                     /\ a.kind # "plan" /\ (a.ok \/ a.as.as # "none") => Exists(a.of)
  /\ \A i \in DOMAIN queue : queue[i].as.as # "none" => Exists(queue[i].of)

\* Before the first answer the only requests are for a workspace.
BeforeFirst ==
  /\ selected.client = Nobody =>
       /\ \A t \in loads : t.scope.client = Nobody
       /\ asks = {} /\ posts = {} /\ queue = <<>> /\ ~timer /\ source = Nobody /\ shown.at = 0
  /\ \A a \in asks : /\ a.owner.client # Nobody /\ (a.kind = "plan" => a.answered)
                     /\ a.kind = "create" => ClientOf[a.of] = a.owner.client

\* The newest request of the selected scope has an answer at least as new as the screen.
AnswersFit ==
  /\ \A t \in loads : t.newest /\ t.answered /\ t.scope = selected /\ shown.from # Nobody
        => t.at >= shown.at
  /\ shown.at <= written[selected]
TicketsAgree ==
  /\ \A t \in loads : /\ t.scope.client # Nobody => t.client = t.scope.client
                      /\ t.answered => /\ t.client # Nobody
                                       /\ t.at <= written[[client |-> t.client, conv |-> t.scope.conv]]
                      /\ t.mine => run.at = "loading"
  /\ \A t, u \in loads :
       (t.newest /\ u.newest /\ t.scope = u.scope) \/ (t.mine /\ u.mine) => t = u

\* The run waits for one thing: its session, its answer, or its conversation.
RunAgrees ==
  /\ posts = IF run.at = "sent" THEN {run.target} ELSE {}
  /\ run.at = "sent" => run.target.client = run.launch.client
  /\ run.at # "idle" => run.launch.client # Nobody
  /\ \A a \in asks : a.kind = "first" =>
       /\ run.at = "creating" /\ a.owner = run.launch
       /\ ClientOf[a.of] = run.launch.client /\ ScopeOf(a.of) # run.launch
  /\ \A a, b \in asks : a.kind = "first" /\ b.kind = "first" => a = b

BootOK == hosted \subseteq Planned /\ opening \in Clients \cup {Nobody} /\ settings \in BOOLEAN

\* The inductive invariant.
ScreenInv ==
  TypeOK /\ BootOK /\ SessionsExist /\ BeforeFirst /\ AnswersFit /\ TicketsAgree /\ RunAgrees /\ ShownBelongs
=============================================================================
