--------------------------- MODULE Services ---------------------------
(***************************************************************************)
(* The services around the conversation, each by itself: a behaviour picks *)
(* one of them and the others stay as they start. The properties of an     *)
(* idle part hold in its first state.                                      *)
(***************************************************************************)
EXTENDS ComputerControl

CONSTANTS
  MaxVersion, Permissions, Grants, Requests,   \* of PluginLifecycle
  MaxTampers, MaxPluginCrashes,
  Submissions, DedupeKey, Conversations,       \* of AlertMonitor
  RateLimit, MaxRuns, MaxDedupeWindows, MaxStops,
  ProjectCalls,                                \* of ProjectRecords
  Edits, WorkflowRuns, Steps, MaxPauses,       \* of WorkflowDefinitions
  BrowserCalls, MaxPid, MaxWindows,            \* of BrowserSessions
  Invocations, NoInv, BaseKeys, MutationKey,   \* of PluginMutations
  MaxCalls,
  Terminal, Execs, MaxSessions,                \* of Terminals
  MaxPending, MaxWrites,
  MaxCrashes                                   \* of every part but the plug-ins

VARIABLE part \* the module under check, chosen once and for all

VARIABLES
  inst, installs, damaged, consumed, minted, req, switch, accepted, pluginsCrashes
VARIABLES
  answer, file, inflight, anchors, receipts, alertsRun, stopped, queue, appending,
  transcript, runs, windows, stops, alertsCrashes
VARIABLES
  pc, kind, held, project, goals, sessions, registered, artifact, order, spec, output,
  told, projectsCrashes
VARIABLES
  workflow, edit, definitionsRun, loop, executed, pauses
VARIABLES
  browsersRecord, browsersCall, alive, window, front, launched, bound
VARIABLES
  gate, toolsRecord, decision, toolsCall, cap, dispatched, outcome, effects,
  toolsCrashes
VARIABLES
  stage, shell, temp, pending, cwd, exec, linked, fed, ran, writes

Plugins == INSTANCE PluginLifecycle WITH
  MaxCrashes <- MaxPluginCrashes, crashes <- pluginsCrashes

Alerts == INSTANCE AlertMonitor WITH
  Alerts <- Submissions, KeyOf <- DedupeKey, Sessions <- Conversations,
  MaxWindows <- MaxDedupeWindows, run <- alertsRun, crashes <- alertsCrashes

Projects == INSTANCE ProjectRecords WITH
  Calls <- ProjectCalls, crashes <- projectsCrashes

Definitions == INSTANCE WorkflowDefinitions WITH
  Runs <- WorkflowRuns, run <- definitionsRun

Browsers == INSTANCE BrowserSessions WITH
  Calls <- BrowserCalls, record <- browsersRecord, call <- browsersCall

Tools == INSTANCE PluginMutations WITH
  KeyOf <- MutationKey, record <- toolsRecord, call <- toolsCall,
  crashes <- toolsCrashes

Shells == INSTANCE Terminals

PluginsVars == <<inst, installs, damaged, consumed, minted, req, switch, accepted, pluginsCrashes>>
AlertsVars == <<answer, file, inflight, anchors, receipts, alertsRun, stopped, queue, appending,
    transcript, runs, windows, stops, alertsCrashes>>
ProjectsVars == <<pc, kind, held, project, goals, sessions, registered, artifact, order, spec,
    output, told, projectsCrashes>>
DefinitionsVars == <<workflow, edit, definitionsRun, loop, executed, pauses>>
BrowsersVars == <<browsersRecord, browsersCall, alive, window, front, launched, bound>>
ToolsVars == <<gate, toolsRecord, decision, toolsCall, cap, dispatched, outcome, effects,
    toolsCrashes>>
ShellsVars == <<stage, shell, temp, pending, cwd, exec, linked, fed, ran, writes>>

ServicesInit ==
  /\ part \in {"computer", "plugins", "alerts", "projects", "definitions", "browsers",
               "tools", "shells"}
  /\ Init /\ Plugins!Init /\ Alerts!Init /\ Projects!Init /\ Definitions!Init
  /\ Browsers!Init /\ Tools!Init /\ Shells!Init
  /\ part # "plugins" => installs = 0

\* One part moves, the others keep their first state.
ServicesNext ==
  /\ UNCHANGED part
  /\ IF part = "computer" THEN Next ELSE UNCHANGED vars
  /\ IF part = "plugins" THEN Plugins!Next ELSE UNCHANGED PluginsVars
  /\ IF part = "alerts" THEN Alerts!Next ELSE UNCHANGED AlertsVars
  /\ IF part = "projects" THEN Projects!Next ELSE UNCHANGED ProjectsVars
  /\ IF part = "definitions" THEN Definitions!Next ELSE UNCHANGED DefinitionsVars
  /\ IF part = "browsers" THEN Browsers!Next ELSE UNCHANGED BrowsersVars
  /\ IF part = "tools" THEN Tools!Next ELSE UNCHANGED ToolsVars
  /\ IF part = "shells" THEN Shells!Next ELSE UNCHANGED ShellsVars

ServicesVars == <<part, vars, PluginsVars, AlertsVars, ProjectsVars, DefinitionsVars, BrowsersVars,
  ToolsVars, ShellsVars>>

ASSUME ServicesAssumption ==
  Plugins!LifecycleAssumption /\ Tools!MutationAssumption /\ Shells!TerminalAssumption
  /\ Browsers!BrowserAssumption /\ Projects!ProjectAssumption

ServicesSpec == ServicesInit /\ [][ServicesNext]_ServicesVars

-----------------------------------------------------------------------------
\* The properties of the parts, named where the configuration can reach them;
\* each module says what its own means.

\* A plug-in is active only if it was last switched on, and never under review; a
\* review approves the update that it read.
DecisionsHold == Plugins!DecisionsHold

\* An accepted alert is in the file, on its way or in the conversation.
AlertsKept == Alerts!AlertsKept

\* What a project, a goal or an artifact refers to exists, and a browser session never
\* comes back with another process or window.
ReferencesHold == Projects!NeverDangles /\ Browsers!NeverRebinds

\* A recorded workflow mutates nothing without an approval of that run, and the
\* ledger never forgets a mutation of a plug-in tool.
MutationsAccounted == Definitions!MutationsApproved /\ Tools!LedgerKeepsMutations

\* Terminals run what the classifier saw, and leave the project only by a changed link.
TerminalsContained == Shells!TerminalsContained
=============================================================================
