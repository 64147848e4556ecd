--------------------------- MODULE MCEffects ---------------------------
(***************************************************************************)
(* What was started must come to an end: plug-in tools, requests to the    *)
(* native helper, killed terminals, micro-tasks of a Computer Session and  *)
(* due slots of an automation. A behaviour picks one of them and the       *)
(* others stay as they start; the fairness of each is that of its module.  *)
(***************************************************************************)
EXTENDS NativeHelperHost

CONSTANTS NoRun

VARIABLE part \* the module under check, chosen once and for all

VARIABLES
  gate, toolsRecord, decision, toolsCall, cap, dispatched, outcome, toolsEffects,
  toolsCrashes
VARIABLES
  stage, shell, temp, pending, cwd, exec, linked, fed, ran, writes
VARIABLES
  control, revision, fresh, live, attempted, claims, task, visualRecord, input,
  visualPosted, approval, visualCrashes
VARIABLES
  automation, runs, mutating, inflight, pc, mem, now, slotsCrashes, admitted,
  slotsEffects, entered, reruns, removed

Tools == INSTANCE PluginMutations WITH
  Invocations <- {"i1", "i2"}, NoInv <- "none", BaseKeys <- {"k1"},
  KeyOf <- [i \in {"i1", "i2"} |-> "k1"], MaxCalls <- 1, MaxCrashes <- 1,
  record <- toolsRecord, call <- toolsCall, effects <- toolsEffects,
  crashes <- toolsCrashes

Shells == INSTANCE Terminals WITH
  Terminal <- {"t1", "t2"}, Execs <- {}, MaxSessions <- 1, MaxPending <- 2,
  MaxWrites <- 1

Visual == INSTANCE VisualRuntime WITH
  Tasks <- {"m1", "i1"}, Mutating <- {"m1"}, KeyOf <- [t \in {"m1"} |-> "k"],
  MaxAttempts <- 2, MaxCalls <- 1, MaxControls <- 1, MaxCrashes <- 0,
  record <- visualRecord, posted <- visualPosted, crashes <- visualCrashes

Slots == INSTANCE Automations WITH
  Caller <- {"tick", "pause", "resume", "approve"},
  KindOf <- [c \in {"tick", "pause", "resume", "approve"} |-> c], Run <- 1..5,
  Window <- 2, Period <- 1, DayLength <- 3, MaxRunsPerDay <- 1, Cost <- 1,
  MaxCost <- 2, MaxNow <- 1, MaxCrashes <- 1, crashes <- slotsCrashes,
  effects <- slotsEffects

ToolsVars == <<gate, toolsRecord, decision, toolsCall, cap, dispatched, outcome, toolsEffects,
    toolsCrashes>>
ShellsVars == <<stage, shell, temp, pending, cwd, exec, linked, fed, ran, writes>>
VisualVars == <<control, revision, fresh, live, attempted, claims, task, visualRecord, input,
    visualPosted, approval, visualCrashes>>
SlotsVars == <<automation, runs, mutating, inflight, pc, mem, now, slotsCrashes, admitted,
    slotsEffects, entered, reruns, removed>>

EffectsInit ==
  /\ part \in {"helper", "tools", "shells", "visual", "slots"}
  /\ Init /\ Tools!Init /\ Shells!Init /\ Visual!Init /\ Slots!Init

\* One part moves, the others keep their first state.
EffectsNext ==
  /\ UNCHANGED part
  /\ IF part = "helper" THEN Next ELSE UNCHANGED vars
  /\ IF part = "tools" THEN Tools!Next ELSE UNCHANGED ToolsVars
  /\ IF part = "shells" THEN Shells!Next ELSE UNCHANGED ShellsVars
  /\ IF part = "visual" THEN Visual!Next ELSE UNCHANGED VisualVars
  /\ IF part = "slots" THEN Slots!Next ELSE UNCHANGED SlotsVars

EffectsVars == <<part, vars, ToolsVars, ShellsVars, VisualVars, SlotsVars>>

ASSUME
  /\ Tools!MutationAssumption /\ Shells!TerminalAssumption
  /\ Visual!RuntimeAssumption

FairTools ==
  \A i \in {"i1", "i2"} :
    /\ WF_ToolsVars(part = "tools" /\ Tools!Timeout(i))
    /\ WF_ToolsVars(part = "tools" /\ Tools!Conclude(i))
    /\ WF_ToolsVars(part = "tools" /\ Tools!Begin(i, 1))

FairHelper ==
  /\ \A r \in Requests : /\ WF_vars(part = "helper" /\ EnsureHost(r))
                         /\ WF_vars(part = "helper" /\ Caught(r))
                         /\ WF_vars(part = "helper" /\ FailedExited(r))
                         /\ WF_vars(part = "helper" /\ Expire(r, FALSE))
  /\ \A h \in Hosts : WF_vars(part = "helper" /\ HelperKilled(h))
  /\ WF_vars(part = "helper" /\ LaunchSpawns)
  /\ WF_vars(part = "helper" /\ LaunchFails)
  /\ WF_vars(part = "helper" /\ LaunchFailed)

FairShells ==
  \A t \in {"t1", "t2"} :
    /\ WF_ShellsVars(part = "shells" /\ Shells!GraceOver(t))
    /\ WF_ShellsVars(part = "shells" /\ Shells!KillEnds(t))
    /\ WF_ShellsVars(part = "shells" /\ shell[t] = "doomed" /\ Shells!ShellExits(t))

FairVisual == \A t \in {"m1", "i1"} : WF_VisualVars(part = "visual" /\ Visual!Step(t))

FairSlots ==
  /\ WF_SlotsVars(part = "slots" /\ Slots!Clock)
  /\ WF_SlotsVars(part = "slots" /\ Slots!Tick("tick"))
  /\ \A c \in {"tick", "pause", "resume", "approve"} :
       WF_SlotsVars(part = "slots" /\ Slots!Continue(c))

EffectsSpec ==
  /\ EffectsInit /\ [][EffectsNext]_EffectsVars
  /\ FairTools /\ FairHelper /\ FairShells /\ FairVisual /\ FairSlots

-----------------------------------------------------------------------------
\* The properties of the parts, named where the configuration can reach them.

\* A mutable plug-in tool and a request to the helper are answered, a
\* terminal that was killed is gone and a micro-task returns, whatever the process
\* on the other side does.
StartedEnds == Tools!EveryToolAnswered /\ EveryRequestAnswered
              /\ Shells!KilledForGood /\ Visual!TasksEnd

\* A due slot of an active automation is consumed, whatever pauses, approvals and
\* crashes come between.
DueSlotConsumed == \A slot \in 0..1 : part = "slots" /\ Slots!Due(slot) ~> ~Slots!Due(slot)
=============================================================================
