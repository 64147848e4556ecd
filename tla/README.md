# AdPilot: TLA+ specifications, model checks and proofs

AdPilot is a local daemon with a desktop shell. The daemon owns a workspace
directory of JSON files (sessions, approvals, automations, workflows, computer
sessions), runs a language-model agent over them, lets the agent operate a
browser or the desktop through a native helper, and makes every external change
wait for a person. The specifications here are about that control: who may
write, what was approved, what runs once, what survives a crash and who moves the
mouse. They are translated from the sources under `src`; `PROJECT.json` maps
every definition to its lines.

Contents

1. The system: components, state, interactions, what is hard
2. The modules and how they correspond to the code
3. The runs: questions, bounds, fairness
4. The proofs
5. Where the code and its documentation disagree
6. What is not modelled, and why
7. Plan


## 1. The system

All of it is one Node process per daemon: JavaScript turns are atomic and
everything interleaves at `await`. Beside it run the helper process that posts
native input, the hosts of plug-ins, shells, and the desktop window with requests
of its own under way. Persistence is one JSON file per record, written to a
temporary name and renamed, and a few append-only logs. There is no database and no
lock other than those listed here.

| component | state | operations | talks to |
|---|---|---|---|
| Writer lease (`session-service/lease.ts`) | `.adpilot/writer.lock`, the recovery guard beside it, the gate of a held lease | acquire, stale recovery, release, runWhileHeld | other daemons, through the file system only |
| Session repository (`repository.ts`) | per session: primary, `.bak`, unrecoverable marker; `legacy-mapping.json`; a write queue per path | create, update, purge, read with recovery, upsert and mark-purged of the mapping | the lease's gate around every file change |
| Session service (`service.ts`, `session-authority.ts`) | title, status, deletion; the import of legacy conversations | import, edit, soft-delete, restore, purge, duplicate, branch | repository, routes |
| Transcripts (`runtime`) | the tree of entries the model sees, the log the user sees, the session lock | append, label, fork, recover | agent runtime, forks |
| Conversation runs (message route, `agent-orchestrator`, `runtime`) | the reservation of a conversation, the budget of a run, its status | post, stop, deadline, commit, disconnect | everything an agent's turn calls |
| Shared facts, investigations, table reader (`shared`, `agent-orchestrator`, `visual-table-reader`, `tools`) | the ledger of facts, tasks, the approvals that rest on them | observe, verify, invalidate, inherit, derive, commit | visual tasks, approvals |
| Approvals (`approvals`, handlers in `server`, commit path in `tools`) | `approvals/<id>.json`, an index, the in-memory token map | propose, risk review, user approval, claim, consume, finish, cancel, recoverInterrupted | routes, commit tool, application start |
| Automations (`automations`, its routes) | `automations/<id>.json`, `automation-runs/<id>.json`, the in-flight set, a 30 s timer | tick, runNow, approveRun, pause, resume, edit, delete | approvals, agent or workflow executors |
| Computer use (`computer-use`) | the control machine and its copy in the session, observations, proposals, action records and claims, page proofs | observe, propose, execute, verify; micro-tasks; pause, takeover, resume, return, stop | native operator, verifier, stores |
| Browser sessions (`browser-session.ts`) | one record that binds a client to a process and a window | start, assertActive, recover, resume, close | native helper |
| Native helper (`native-computer-host`, the Swift helper) | the host and its helper process, the queue of requests; claims, leases, what is pressed | launch, request, cancel, restart; capture, input | the machine |
| Workflow runs and definitions (`workflows`, its routes) | the stored run with its revision, an active map per runner; the definition | create, execute, resume, cancel; edit, publish, archive | computer use, agent tool and routes |
| Project kernel and artifacts (`kernel`, `artifacts`, `agent-tools`) | projects, goals, tasks, artifacts, one file each | create, link, archive, render; plan, complete, depend | routes, registry tools |
| Plug-ins (`plugin-runtime`, `application/plugins.ts`) | the state record of a plug-in, the ledger of its mutations | install, review, update, enable, disable; invoke, settle | plug-in hosts |
| Terminals (`terminal-service.ts`) | the shells of a project, withheld input, the tracked directory | create, write, exec, kill | the classifier, the operating system |
| Alert monitor | the pending file, injections in flight, dedupe windows | submit, inject, confirm, release | runs of the client |
| Git checkpoints (`git-tools`) | a snapshot of index, work tree and untracked files | create, restore | git |
| Desktop window (`apps/desktop/App.tsx`) | the selected workspace and conversation, what is shown, requests under way | load, select, send, rename, archive, delete | routes, the event stream |

How they meet:

- Every writer of the workspace must hold the **writer lease**; the session
  repository asks its gate before each rename. The daemon requests the lease
  after it has already recovered the approvals (`application/src/index.ts`),
  so that recovery is the one writer that runs without it.
- A mutating **automation** does not execute: it parks a run as
  `waiting-approval`, and the route that approves it mints and consumes a
  central approval first.
- A **commit** of the agent passes the approval's token, a fact check, an
  identity check by two reviewers and `consume` before the browser acts.
- **Computer use** is driven by the agent, and at any time by the user through
  the same process; a workflow's steps run on it; every executed action makes
  shared facts stale.
- A **workflow run** is created by the agent tool or by a route, each with a
  runner of its own over one store.
- A **message** reserves its conversation, so that Stop and a closed socket have
  something to act on; its run holds the session lock, also after its deadline.
- The **window** learns of all this late and out of order.

What is hard, and what makes each part correct: `PROJECT.json` lists it line by
line as hazards. In a sentence each: two processes never own the workspace, and
recovery never takes a live record; a token is spent once and nothing runs that
was not approved; an effect of an automation happens once per period; a record is a
revisioned register whatever its readers repair; the import doubles, revives and
destroys no session; the transcript agrees with what the model saw; a stopped run
says nothing; a fact that was invalidated is not used for an approval; input is
posted once, under control, on the page of its screenshot, and what was pressed is
released; a browser session never changes its window; steps of a workflow run in
order and once; what a project refers to exists and its tasks can be ordered; a
mutation of a plug-in is never repeated unknowingly; a terminal is given nothing that
was not classified; an accepted alert is not lost in memory; a restore brings back what
was captured; a late answer, but that of a workspace that was just made, does not move the window.


## 2. The modules

Conventions: an action is the code between two awaits, with every change it makes
and its early returns; `pc` (in ComputerControl `op`, elsewhere `at`) names the
await a caller stands at; what a caller read earlier is in a variable of its own,
so that stale values are visible. Operators whose name or comment says *mutant* are
faulty variants of the definition below them; no specification uses them.

**WriterLease** (`lease.ts`). `files` is the record at each shared path; an actor
is one call of `acquire` and stands for the UUID it publishes. Publish / Recheck /
Confirm are the exclusive `link` and the two reads after it; Observe .. CheckMoved
the guarded recovery loop with its two comparisons; RelRead / RelMove / RelCheck
are `releaseOwnedLeaseRecord`, used for the lock and the guard. Processes crash,
pids are reused, and a person may delete a guard file, that of a dead process
(`MaxRemoved`) or that of a running recovery (`MaxForced`). After the latter the
code promises less, and `SoleWriter` and `LiveRecordStays` speak of the time before it.

**Approvals** (`approvals/src/index.ts`, handlers of `server/src/index.ts`, the
commit of `tools/src/index.ts`, start-up of `application/src/index.ts`). One
approval, any number of requests. `Update` is the decision on the record just
read, `Write` the later write of the whole record. The token map is memory:
Crash empties it and Restart runs `recoverInterrupted`. A `boot` request is a
second daemon that recovers approvals before it is refused the lease. Facts go
stale, the clock runs, verification may fail. The mutation itself is claimed twice
(`computer-use/src/index.ts`, `replay.ts`): in memory, lost by a crash, and in an
exclusive file that nothing removes, so that an approval that was consumed twice is
still executed once.

**Automations** (`scheduler.ts`, `automation-routes.ts`, the automation tools). One
automation: the timer, `dispatch` with dedupe, caps, skip, park and start,
`execute`, `saveAutomation` as ReadFresh / WriteFresh (three uses, told apart by
`mem.patch`), `approveRun`, and the routes. A cron line is a fixed period.
`admitted`, `effects`, `entered`, `reruns` (the approvals that took a run up) and `removed`
(the runs a delete took off the disk) are history.

**SessionRecords** (`repository.ts`, the callers in `service.ts`). One file with
its backup. ReadPrimary .. Condemn are `readRecoverable`; WriteBackup /
WritePrimary are both write sequences, MoveBackup / MovePrimary the purge. A file's
content is its revision and the set of changes in it. With `Mapping = TRUE` the
file is the legacy mapping with upsert and mark-purged.

**RevisionedRecord** is the abstract specification: a register created once at
revision 1, every commit of which adds one to the revision and keeps what was
there, and that never comes back after a purge. `SessionRecords!RegisterSpec`
instantiates it with `record <- primary, gone <- purged`.

**LegacySessions** (`service.ts`, the message, duplicate and branch routes): the
import as List / FindLegacyMapping / GetSession / CreateLegacySession /
UpsertLegacyMapping, with edits, deletion, purge and rolled-back copies between.
Records and the mapping are read and written whole; how they are kept in files is
SessionRecords.

**Transcripts** (`session-storage.ts`, `conversation-fork.ts`,
`message-persistence.ts`): `file` is the tree of a conversation with the leaf in each
run's memory, `log` its transcript, `lock` the session lock. An entry carries its
ancestors.
Forks copy the path of one message.

**ConversationRun** (message route, orchestrator, runtime): Reserve .. Finish is the
handler, `registry` the reservation that Stop and a closed socket act on, `queue` the
session lock, Return / ReturnLate the end of an operation and Deadline the answer that
does not wait for it.

**Evidence** (`shared`, orchestrator, `tools`): `ledger` is the file of facts in
order, `task` an investigation, `approval` what rests on it; the ledger's own
operations are atomic, what callers do between two of them is not. **TableReader**
(`visual-table-reader`): pages, merging, totals and the review by a second model.

**ComputerControl** (`control-state.ts`, `runtime.ts`, `replay.ts`). One session.
`control` is the state machine, `session` the copy the guards read, `leased`
whether the abort signal of the running operation is still unset. The four agent
operations are cut at their awaits; the five user operations are one action each,
because they change everything in the turn they arrive in. Captures are numbered,
`interrupted` remembers the number at the user's last word.

**VisualRuntime** (`computer-use/src/index.ts`, the native operator, the commit of an
approved action): micro-tasks with their claim on disk, their record, the queued
native input and what confirms it. **PageBinding** (`browser-session.ts`, the operator
bound to it): the proofs of the page around a capture and before an input. The two
share the runtime: VisualRuntime abstracts the operator as a queue, PageBinding the
claims and records. **BrowserSessions** (`browser-session.ts`): the record that binds a
client to one window, under operations that nothing orders.

**NativeHelperHost** (`native-computer-host`, the Swift application): `line` are the
requests of each host in order, `proc` the helpers, `launch` the one start under way;
requests, time-outs, aborts, exits and the single retry of what only reads. **NativeInput**
(Swift `Input.swift`, captures, leases): one request at a time, a checkpoint before
every ordinary event, and the person at the machine between any two.

**WorkflowRun** (`runner.ts`, `store.ts`, the two runners of the daemon). `run` is
the stored record, `held` what each execution last read or wrote; `Persist` is the
compare-and-swap with its conflict and its failure. `active` is the pair of active
maps. CancelRead / CancelSwap are `cancel` with its retry loop, `aborted` the
executions whose signal it set. **WorkflowDefinitions** (workflow routes, `model.ts`):
the document an edit replaces whole while runs read it again.

**ProjectRecords** (`kernel/service.ts`, session binding, `artifacts`): whole
documents, the last writer wins. **TaskGraph** (`task-graph.ts`, the task pack of the
registry, `lifecycle.ts`): a call lists the task files one by one, decides on that
list and replaces one file; cycles and the order are operators over a list of
tasks, and the order is checked against what a graph without cycles is (`Acyclic`).

**PluginMutations** (`plugin-runtime`): the supervisor, broker and ledger of mutable
tool calls. **PluginLifecycle** (`plugin-runtime`, `application/plugins.ts`): a plug-in's
state record under compare-and-swap and the requests composed of several swaps.

**Terminals** (`terminal-service.ts`: a one-shot command resolves its directory over two
awaits, Realpath and Stat, and is checked and started in the turn after them; `stale` is
history, a link changed since), **AlertMonitor** (`alert-monitor.ts` and the
hooks of the runtime), **GitCheckpoints** (`checkpoint.ts`, `repository.ts`: git is what
its commands do to HEAD, index and work tree), **DesktopApp** (`App.tsx` and its
helpers: `loads` are the state requests and `asks` the changes under way, each with the
scope it was asked for. The person can do nothing before the first answer, `loading`;
an answer may be lost although the server did what it was asked. A workspace may be
created, `opening`, and opens when its answer comes; the settings may start a second
request at the start, `settings`. The server always has a workspace, and `First` is the
one that it lists first of those there are).

**Services**, **Actions**, **Records** and **Messages** compose. A composite picks one
`part` in its first state and lets only that one move, so that one run answers the same
question of several modules: the parts do not interact in it, and a property of a part
is named at the end of the composite. They do not interact because they meet, in the
code, through answers that each module already leaves open (a verification may fail, a
run may be stopped, control may be taken at any time).

| composite | extends | instantiates |
|---|---|---|
| `Services` | ComputerControl | PluginLifecycle, AlertMonitor, ProjectRecords, WorkflowDefinitions, BrowserSessions, PluginMutations, Terminals |
| `Actions` | Automations | VisualRuntime, PageBinding, NativeInput |
| `Records` | SessionRecords | itself for the legacy mapping, Transcripts, LegacySessions, TaskGraph |
| `Messages` | ConversationRun | Evidence, TableReader, DesktopApp, GitCheckpoints |

The `MC*` modules give values to constants that a configuration cannot write down and
add the fairness of the part a liveness property is about; MCEffects composes the modules
whose liveness is checked. Composites and components keep every bound as a constant, so
that the theorems in `*_proofs` hold of all of them.


## 3. The runs

| run | question | parts and bounds |
|---|---|---|
| `lease` | Do mutual exclusion, protection of live records and progress hold on one machine? | 3 processes, one of them started without recovery; 2 crashes, 1 reused pid, 1 guard of a dead process and 1 of a running recovery removed by hand, 1 recovery per call |
| `approvals` | Are tokens single-use, restarts free of replay, executions finite? | one review, two approvals, two commits, one second boot; clock 0..1 around the plan's expiry, 1 crash |
| `approvals_once` | Is an approval executed once, even when it is consumed twice? | two reviews, two approvals, two commits; the same clock and crash |
| `automation_safety` (MCActions) | What acts on its own acts once, and where it was meant to | the timer, a manual run, an approval and a pause with 1 crash; without one the manual run, an approval, a pause and a delete, or the timer and two approvals, or the timer, the manual run and a delete: 3 clock values over 2 days and 2 periods, 5 runs; three micro-tasks, 2 changes of control, 1 crash; one page task, 3 calls, 1 navigation, 2 changes of control; three input requests, 2 captures, one touch, cancel and switch of windows |
| `records` (MCRecords) | Are the files of sessions and projects what their writers were told? Is everyone answered? | a session record: one create, three updates, a purge, a read, 2 failing file operations, 1 crash; the mapping: three upserts, two marks, 2 damaged files, 1 failing operation, 1 crash; an import over 2 sessions, 4 revisions, 1 crash; two messages, a fork, 1 crash; 3 tasks, one agent, one completing request, 1 failing save |
| `workflow` | In order, once, and does cancel win and end? | 2 steps (step 1 stops the run when it fails, step 2 pauses it), 2 resumes, 2 cancels, both runners, 1 failing write, 1 crash |
| `messages` (MCMessages) | Is a run owned, stopped and answered? Does what it found hold? | 2 messages, 1 turn, 1 deletion, 1 crash; one investigation with 5 facts; a table with 2 rows and a total over 2 pages; two workspaces, one of them made during the run and then the first of the list, three conversations, 2 clicks, 1 write by somebody else, two state requests at a time, the settings before the first answer; a repository with 2 paths and two first commits, 4 edits, 1 restore |
| `effects` (MCEffects) | Does what was started come to its end? | 2 plug-in invocations with one key, 2 requests over 2 hosts, 2 terminals, 2 micro-tasks, the due slots of an automation with 1 crash |
| `services` (MCServices) | Are the services around the conversation safe? | 5 captures, 2 failing saves, the user any number of times; 3 versions of a plug-in, 2 requests, 2 crashes; 2 alerts, 2 sessions, 3 runs; 3 calls on a project; 3 edits of a definition under a run; 2 operations on a browser session, 2 processes, 2 windows; 2 invocations with 2 calls; 2 terminals |
| `records_lookup`, `workflow_abort`, `message_disconnect` | three claims of the code's own text that it does not keep (section 5) | the smallest instance that shows each |

Why the bounds are enough to mean something: each adversary action is allowed at
least once, and every action of every module is taken in some passing run. Two
requests of a kind are the smallest number that race; the third process, update or
upsert is there because the recovery loop, the backup and the retry each need
somebody who acts between two others; the third task because two cannot wait for
each other through a third. Three recoveries per acquire in the code are
one in the runs: the counter only ends the loop. Five captures allow a proposal,
a preflight, a post-input capture and an interruption before and after. Each
property is violated when its mutant in `PROJECT.json` replaces the mapped
definition under the same configuration; a property that joins several parts has a
mutant in each.

`TaskGraph` was also run by itself with 2 tasks and every operation, with 2 completing
requests, and with 3 tasks whose status changes as well; the composite keeps the
smallest of these in which no property is idle.

`CHECK_DEADLOCK FALSE` stands where a finite set of requests is used up and the
system rests.

Fairness, weak and per caller, because a settled promise is run by the event loop:

- `WriterLease`: each step of a started `acquire` and the end of a begun write.
  Nothing obliges anyone to release.
- `Approvals`: each step of an accepted request, and the restart of a dead daemon
  (the shell starts it again).
- `Automations`: the clock, the timer, and each step after the start of a request,
  executors included. `DueSlotConsumed` depends on an executor returning, as the
  30 s tick does.
- `SessionRecords`: each step of a call; nothing makes calls, damage or crashes
  happen.
- `WorkflowRun`: only the steps of cancel requests. That suffices: the retry loop
  ends because an execution writes only finitely often between two reads.
- `ConversationRun`: the handler, the deadline's timer and the end of a run that was
  told to end; never the provider, nor an operation that hangs.
- `PluginMutations`: the timer of an invocation and the ledger's queue; never the host.
- `NativeHelperHost`: timers, exits that were forced, the launch; never an answer.
- `Terminals`: the timers of `kill` and SIGKILL. A shell need not obey SIGTERM.
- `VisualRuntime`: the time-outs of a micro-task; never the model or the helper.

`ComputerControl` states no liveness; who moves next is the agent's or the user's
choice. `AgentCanMove` is its safety counterpart.


## 4. The proofs

TLAPS checks every theorem for all values of the constants, under the named
assumption of each module: any number of requests, callers, captures, steps, hosts,
tasks, files, crashes and failures, any length of a line, a list or a clock. The eight
proof modules follow one pattern: an inductive invariant, written next to the properties
of the component (or, for the files of records, in the proof module), is shown initial,
preserved by one lemma per action or group of actions, and strong enough. A further
invariant is built on an earlier one and only its own conjuncts are shown again. TLC
checked each of them on a small instance before it was proved. A composite's proof module
first proves of each part what its own specification promises, then that every
behaviour of the composite is one of each part (`ServicesRunTheirParts`,
`ActionsRunTheirParts`, `RecordsRunTheirParts`, `MessagesRunTheirParts`), and from the
two the property that the run checks.

| module | theorem | says | hypotheses |
|---|---|---|---|
| `WriterLease_proofs` | `LeaseInvariant`, `LeaseTypeCorrect`, `LeaseMutualExclusion`, `LeaseSoleWriter` | until a live guard is deleted: one writer, and what it writes it writes as the owner | none |
| | `LeaseLiveRecordStays` | until then recovery never takes a live process's record off the lock path | none |
| | `LeaseHolderRecordSurvives` | a live holder's record is never destroyed, whatever guards a person deletes | none |
| `Approvals_proofs` | `ApprovalInvariant`, `ApprovalTokenSingleUse` (and, as a lemma, `ApprovalExecutableWasApproved`) | tokens are spent once, nothing runs without both approvals | none |
| | `ApprovalExecutesOnce` | one approval, at most one mutation | none |
| | `ApprovalNoReplay` | what was consumed before a crash is not consumed again after it | `SingleReview` |
| `Actions_proofs` | `AutomationMutex` | one caller at a time is past the in-flight guard | none |
| | `AutomationEffectOnce` | one effect per run and per period, but for runs that two approvals took up or a delete removed | none |
| | `AutomationAdmittedWithinCap` | dispatch lets no more runs of a day through than the cap, deleted ones aside | none |
| | `VisualInvariant`, `InputInvariant`, `PageInvariant`, `ActionsInputHolds` | a mutation is posted once, under its control, on the page of its capture; nothing stays pressed; records hide no input | none |
| `Records_proofs` | `RecordTypes` | types; who is past its first locked read is the head of the queue | none |
| | `RegisterRefinement` | every step is a step of `RevisionedRecord` or a stutter | `Undamaged` |
| | `RecordsKept` | no acknowledged change is lost before the purge, the backup is one commit old at most | `Undamaged` |
| | `RecordsCommitWhatTheyRead` | an update or purge replaces the revision its service call read | `Undamaged` |
| | `MappingInvariant`, `PlanInvariant`, `RecordsMappingAndPlanHold` | the damaged mapping keeps tombstones and acknowledged entries; tasks can be ordered, the order is topological, each successful call is logged | `NoLookups`, `OneAgent` |
| | `SessionsInvariant`, `TreesInvariant`, `RecordsConversationsKept` | the import doubles, revives and destroys nothing; transcript and tree agree, also in a fork | none |
| `Services_proofs` | `ControlInvariant`, `ControlFreshGrounding`, `ControlInputUnderControl` | input only under control and on fresh coordinates | none |
| | `ControlInputInvariant`, `ControlInputOnce`, `ControlHonestRecord` | one proposal is one input, whose key was reserved, and its record says so | none |
| | `ControlAgentInvariant`, `ControlAgentCanMove` | the agent is never left in a control that it cannot leave | none |
| | `LifecycleInvariant`, `ServicesDecisionsHold` | a plug-in is active only as it was switched and reviewed | none |
| | `AlertsInvariant`, `ServicesAlertsKept` | no alert twice, no accepted alert lost but by a Stop or a crash | none |
| | `ProjectsInvariant`, `BrowsersInvariant`, `ServicesReferencesHold` | references lead somewhere, a browser session keeps its window | none |
| | `ServicesMutationsAccounted`, `ServicesTerminalsContained` | the ledger keeps every mutation, edits smuggle none into a run; a terminal gets what was classified, and leaves the project only through a link that changed under it | none |
| `WorkflowRun_proofs` | `WorkflowInvariant`, `WorkflowCancelHolds` | an answered cancel is final over both runners | none |
| | `WorkflowStepsInvariant`, `WorkflowStepsInOrderOnce` | steps run in order and, but for results a failing write lost, once | none |
| `NativeHelperHost_proofs` | `HelperInvariant`, `HelperHeldUnderControl` | one helper alive, no mutation posted twice, a definite failure is one | none |
| `Messages_proofs` | `ConversationInvariant`, `ConversationRunAccountedFor` | one operation writes a session file, a session that shows a run has one | none |
| | `ConversationStopHolds` | a run that Stop ended takes no turn and stores no answer | none |
| | `EvidenceInvariant`, `ReaderInvariant`, `MessagesEvidenceHolds` | one verified answer per question, nothing dropped comes back or carries an approval further, a table is whole or not answered | none |
| | `GitInvariant`, `MessagesCheckpointsHold` | a restore that nobody disturbs brings back index and work tree exactly | none |
| | `ScreenInvariant`, `MessagesScreenHolds` | late answers, but that of a created workspace, do not move the window, and none mixes or ages its messages; one message at a time, sent where it was written | none |

The hypotheses are met by the instances TLC checks, and each excludes something that
does break the property in the code:

- `SingleReview`: one request at most reviews the risk of the approval. Of two concurrent
  `POST /api/approvals/:id/risk-review` (`server/src/index.ts:924`) the slower one writes
  `pending_user` over an approval that was consumed meanwhile; recovery leaves
  `pending_user` alone, and a later daemon may consume it again. The mutation is then
  refused: `ApprovalExecutesOnce` needs no hypothesis.
- `Undamaged`: a session record (not the mapping) whose files nobody damages. With damage
  a reader may restore an older backup, which is what recovery is for.
- `NoLookups`: nobody looks an entry of the mapping up beside the queue. Such a lookup may
  restore the backup over a commit it did not see, which is the run `records_lookup`.
- `OneAgent`: one agent changes the dependencies of a goal, beside any number of requests
  that complete tasks. Two agents that read the same plan can each save one half of a
  circle (`TaskGraph`, section 5).

In the lease no hypothesis is needed, but three properties end with the first guard that
is deleted from under a running recovery: from then on a recoverer can move the record
of the next owner away. That it still survives is `LeaseHolderRecordSurvives`.

Why the invariants are what they are:

- `LeaseInv`: mutual exclusion alone is not inductive, since a recoverer that is
  about to rename the lock could move a live record. What it needs is that such an
  actor still owns the guard, that the record it compared belongs to a dead
  process (a reused pid makes it look alive, never the reverse), and that with the
  guard in place nobody else can have changed the lock path since: whoever
  publishes must first see no guard, and withdraws if one appeared. `HolderInv` gives
  the guard up and follows the record instead: on disk, or with an actor that will put
  it back before it does anything else.
- `ApprovalInv`: a token is in the map or in one commit's hands, its minter is
  past minting, and whoever performed the mutation is past it for good. Records
  waiting to be written are as good as the stored one, which is why the late
  writes of stale decisions cannot forge an approval. `ReplayInv` adds that only the
  review makes an approval pending and that nothing prepared before a crash is written
  after it, so that a mutation of an earlier daemon leaves a record at its end.
- `EffectInv`: at most one run per period is in a blocking state, an effect shows in
  its run's status, and what a caller decided on still holds when it acts on it.
  Two approvals of one parked run, or a delete while a manual run stands between its
  load and its checks, break each of the three: `Excused` runs are those, and no other
  run is touched by it. A run has no more effects than approvals that took it up, since
  one caller at a time is past the guard. `CapInv`: the runs
  admitted on a day, deleted ones aside, are at most the cap, and strictly fewer while a caller that has
  passed the caps has not yet written its run.
- `VisualInv`, `InputInv` (NativeInput), `PageInv`: who holds the operator and under which
  claim, lease or proof it does; a claim on disk, a record and a queued input speak of the
  same attempt; what is pressed belongs to the one request being served; a proof in use
  was taken under the control and the page that its task still has.
- `RecordOK`: the files are what the history says, a
  writer is at the head of the queue and what it writes is one change on top of
  the primary as it is now, and without damage no reader ever decides to recover;
  so a commit is a step of the register and everything else a stutter. `KeptOK` adds
  that what is safe is in the primary, that the backup is the primary or its
  predecessor, and that the revision a call carries is the one it read. `MappingInv`
  does the same with damage: what the primary, the backup or a caller's copy lacks is
  at most what the file that replaces it is about to hold.
- `PlanInv`: what matters is not only the plan on disk but what each call has read of it:
  a stale copy that a completion writes may drop an edge and another bring it back, but
  only at a task that is done. That the order `topologicalOrder` gives is complete exactly
  without circles rests on a cut: the tasks it could not place each wait for another one
  of them; and the task it takes next is the oldest by the least-element principle over
  the naturals, since induction over the list is out of reach.
- `SessionsInv`, `TreesInv`: an identity of the legacy mapping is bound to one session, a
  purge leaves its mark before its file goes; the tree is a chain per run, and what a fork
  has copied agrees with its source entry by entry up to the point it has reached.
- `ControlInv` / `LeaseMeans`: for each await, what a lease that is still current
  (or a state that is unchanged) tells the operation that resumes there. `InputInv`
  adds what a reserved key and a posted input mean at each await of execute, `AgentInv`
  which operation will settle the control the agent holds.
- `LifecycleInv`, `AlertsInv`, `ProjectsInv`, `BrowsersInv`, `MutationsInv`,
  `TerminalsInv`, `DefinitionsInv`: what a request read before its await is still true, or
  its compare-and-swap will notice; an alert is in one place at a time.
- `RunInv` of WorkflowRun: over both runners one execution works at a time, because a
  run of the agent's runner is never paused while it executes, so that nobody can resume
  it on the other one; and what the execution holds is the stored run unless that was
  cancelled. `StepsInv` counts: an execution of a step is stored as a success, in flight,
  or lost by a failing write.
- `RunInv` of ConversationRun: whoever is past the session lock stands at its head, also
  after its deadline answered; the reservation of a connected client is its own and the
  route's until it is answered; a stopped run has its signal aborted and its budget
  closed. The socket matters: a closed one gives the reservation away (section 5).
- `EvidenceInv`: that an approval rests on live pages cannot be read off its facts, which
  may be copies of copies. `SeenOnPages` follows each fact to the observations it goes
  back to: one of them is of the task and page, and not current once that page changed.
  `ReaderInv`: every page that was merged showed what the cell holds, and nothing is
  recorded before the checks or verified before the review.
- `GitInv`: what the two recorded diffs say of the three trees at the capture, and, while
  a restore replays them, which of the trees are already what they were.
- `ScreenInv`: that an answer which may be shown is no older than the screen needs more
  than the guard of `stateLoadGuard.ts`: a conversation has one newest request, its answer
  is at least as new as what is shown, and a request that begins is not answered yet. That
  holds of what was asked from a workspace: until an answer names one there may be several
  requests without (at the start, from the settings, by Retry) and nothing else but a
  workspace being created. Of the run, it waits for one thing at a time, its session, its answer or
  its conversation; and a new session is never the conversation that is selected already,
  because the window knows only sessions that the server has.
- `HelperInv`: while a process is launched nobody else is alive but the one the launch
  waits for; what an open host wrote and has no answer to is the head of its line, and a
  request stands in one line once; so whatever the helper presses is a pending request
  on its first attempt, and the end of its host settles it as unknown. That a closed host
  has no line is why the late answer of its process settles nothing.

Only model-checked, and why:

- Liveness (`NothingHangs`, `ExecutionEnds`, `EveryCallAnswered`, `CancelSettles`,
  `EveryMessageAnswered`, `StartedEnds`, `DueSlotConsumed`): fairness and ENABLED are
  outside the prover.
- What the hypotheses above exclude.


## 5. Where the code and its documentation disagree

Three have a run that TLC finds violated (`findings` in `PROJECT.json`):

- `records_lookup`: an unlocked lookup of the legacy mapping can restore the
  backup over a mapping that was just written, losing an acknowledged entry.
- `workflow_abort`: a cancel through the routes does not abort the executor of a
  run that the agent tool started; each runner only looks in its own active map.
- `message_disconnect`: a socket that closes between two stages of the handler finds
  no reservation to cancel when the agent asks for it again.

The following definitions state promises of the text that the models also refute,
each by a trace TLC gave. They are kept in the modules, with the line they quote, and
are not listed as properties of a run:

- `Approvals!EndedStaysEnded`: a late write decided before a cancel, a failure or an
  execution re-opens the approval (and hands out another token). Only the claim keeps
  the mutation from happening again, and the record then reads `failed`.
- `Automations!PausedNeverFires`, `PauseKept`: a tick that listed an automation
  before a pause dispatches it (`scheduler.ts:103`); a pause that lands between the
  read and the write of `saveAutomation` is overwritten. `RunTakesEffectOnce`: two
  approvals of one parked run both pass the status check before either executes.
  `DeletedStaysDeleted`: the bookkeeping of a running action writes a deleted
  automation back, and with the timer running its period can then take effect again.
  `ExecutionsWithinDailyCap`, `RunCountExact`: the cap counts the day a run was
  admitted, and `runCount` is computed from a snapshot.
- `SessionRecords!PurgedStaysPurged` with damaged files: a reader that decided to
  restore before the purge restores after it (`repository.ts:345`). The same reader
  can quarantine a good file, which is why `RecordsSurvive` is claimed without damage.
- `LegacySessions!PurgeNotUndone`: an import that found the mapping before the purge
  creates the session again after it (`migration.test.ts`, "permanent purge is not
  undone by migration").
- `Transcripts!ForkStopsAtItsTurn`: after a retry with a stronger model the label
  names the last prompt, so a fork of the message holds more than its turn.
- `Evidence!CopiesFollow`, `FactsOfThePage`, `ExecutesOnLiveEvidence`, `NeverStranded`,
  `SpecialistsEnd`: inherited copies stay usable after the page of the original
  changed (approvals notice by the lineage, specialists do not); the lineage is
  checked before the preflight and not after it; a verification that throws leaves a
  task in intake for ever; a specialist's tool goes on after the deadline answered.
  `TableReader!BlockedLeavesNothing`: a blocked read leaves the facts of confirmed
  cells verified.
- `DesktopApp!MovedOnlyByItsOwner`: the answer to `createWorkspace` opens the workspace
  without a look at what is selected by then (`App.tsx:897`); `AnswersNeverOlder`: a
  request that was begun before a workspace was selected has another key than the ones
  after it, and its older answer can commit over a newer one (`stateLoadGuard.ts`, "an
  older response for the same scope cannot roll back a newer one").
  `RevisionsGrow`, `PlanModeBelongs`: archiving writes the list it
  captured at the click; the answer of a mode switch is shown in whatever conversation
  is selected by then.
- `VisualRuntime!FreshAfterReturn`, `PageBinding!ProofIsOfItsShot`, `NoInputUnderUser`:
  a screenshot taken before control came back can count; a capture whose caller gave
  up stores its proof over the later run's; a run that timed out took its controller
  along, so that a later take-over aborts nothing and the queued input is posted.
- `NativeHelperHost!UnknownIsReported`: the error of a failed restart takes the place
  of OUTCOME_UNKNOWN. `closeWindow` answers a definite failure although its press may
  have worked.
- `WorkflowRun!Continues`: after a crash the run is `running`, and `resume` accepts
  only `paused` (`runner.ts:123`). The comment of `model.ts:188`, that a resume keeps
  executing the revision it began with, does not hold either: a run stores the
  revision and compares it with nothing.
- `ProjectRecords!VersionsKept`: an archive that was read before a link is undone, a
  listed id lost. `TaskGraph!HistoryKept`: an update that read a task before it was
  completed writes the old status back; `RetryableMeansNothingDone`: a batch whose second
  item is refused reports a recoverable error after its first was saved; with two
  agents on one goal `NoneWaitInCircle` fails, each adding half of the circle.
- `PluginMutations!RetryableMeansNoEffect`: a time-out is marked retryable although the
  mutation was dispatched (the ledger refuses the retry). `PluginLifecycle!GrantsWereAccepted`.
- `AlertMonitor!NeverLost`: confirmation clears the file before the message is appended;
  a stop or a crash between the two loses the alert.
- `Terminals!WithinLimit`: the limit is compared before four awaits.
  `NeverStartsOutside`: the path that was resolved and checked is used by name
  (`terminal-service.ts:309-351`); a link that changes in between starts a one-shot
  command outside its project.
- `GitCheckpoints!NewFilesReplayed`, `SmallFilesRecorded`: an empty or binary new file
  has no `+++ b/` line, so the replay of the index fails after the reset; files in a new
  directory are not recorded. `UnrecordedFilesStay`: such a file that HEAD has and that
  was taken from the index only is deleted by the restore, which first puts it back and
  then replays the staged deletion.

Limits of the other properties that come from the code: `StepsInOrderOnce` allows one
more execution for each save that failed, because a success that was not stored is
executed again. `HonestRecord` holds as long as saves work. `AgentCanMove` excludes an
expired proposal, which leaves the session awaiting an approval that can no longer be
given until the user pauses and resumes, and a failed save after a transition. After a
pause and a resume that both fall into the save of the catch block (`runtime.ts:434`),
`recovering` ends without a capture; a fresh observation is still required before the
next proposal. `runtime.ts:563`: a second stop deletes the binding of whichever session
owns it now. A guard left by a process that died inside a recovery is refused for ever,
on purpose (`lease.ts:535`). The daemon recovers approvals before it is refused the
lease (`application/src/index.ts:287`); the `boot` requests of Approvals are that.

Seen while reading, and outside the models: a Stop clears the deadline timer of a run
that still hangs (`runtime-budget.ts:221`); the native operator refuses hotkeys, so the
refresh before a persisted value is read always fails with it; a torn last line of a
transcript or of the audit log makes every later open, or append, throw; plan mode that
cannot be read counts as off; the audit log's redaction rewrites six-digit words, so an
escalation for a profile whose name holds one never matches its review; a quit while
the Electron shell is still starting is not held back, and an `activate` while it closes
starts a second runtime.


## 6. What is not modelled, and why

Within modelled components: creation of approvals, automations and workflows with
their validation (the models start at the created record); parsing and paths;
the edit route of an automation (it has pause's shape); several automations in one
tick; app bindings of computer sessions; `machine.fail`, which nothing calls; the
recorder and the parameters of workflows; several goals, sessions or artifacts of one
title at a time; the data migration of a plug-in; output of terminals, and a one-shot command with a
directory of its own in place of a terminal; in the window the drafts, the requests of
reviews, approvals and tasks that reload when they are done, and a slash command without
a workspace; what a
completion reports as unlocked (two that list before either saves both report
nothing). `readFile` of a record is one step and sees one version, as a rename gives
it. Torn writes are `Damage`. `ComputerControl` takes verify to be asked about the
action just executed.

The title of a page and which window is in front are folded into "a read may fail" in
PageBinding. The provider's answers are arbitrary everywhere.

Whole components, with the reason, are in `PROJECT.json` under `components`: views and
the command line hold no state of their own; rules over advertising data, document
generation and prompts are data transformations; the catalog of plug-ins is transfer
objects; the classifier of shell commands is a lexical filter over one string, and
Terminals only models what it must tell apart; the gates of tools and modes are tables.
The mapped lines are about a seventh of the implementation: most of the rest is schemas,
labels, views, generated knowledge and evaluation code without state to interleave.


## 7. State and outlook

The safety properties of all passing runs are proved, each for every value of the
constants; liveness is model-checked. What would extend the development, in this order:
permissions as a module of its own (tool gate, plan and autonomy modes, escalation); the
Electron shell's start and quit; cron schedules against the least matching minute; file
operations of the plug-in store.
