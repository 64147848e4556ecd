--------------------------- MODULE Actions ---------------------------
(***************************************************************************)
(* What acts on its own and must act once: the runs of an automation, with *)
(* the timer and a few concurrent requests, the micro-tasks of a Computer  *)
(* Session, the page their input is for, and the input requests of the     *)
(* macOS helper. A behaviour picks one and the others stay as they start.  *)
(***************************************************************************)
EXTENDS Automations

CONSTANTS
  MicroTasks, Mutating, KeyOf, MaxAttempts,      \* of VisualRuntime
  MaxMicroCalls, MaxMicroControls,
  PageTasks, Pages, AllowedPages, StartPage, MaxNavs, \* of PageBinding
  MaxPageControls, MaxPageCalls, MayGiveUp,
  Inputs, ActionOf, InputKind, MaxCaptures,      \* of NativeInput
  MaxTouches, MaxCancels, MaxSwitches

VARIABLE part \* the module under check, chosen once and for all

VARIABLES
  visualControl, visualRevision, visualFresh, live, attempted, visualClaims, task,
  record, input, posted, approval, visualCrashes
VARIABLES
  page, navs, connected, pageControl, pageRevision, pageFresh, run, taken, call,
  evidence, pageLeases, inputs
VARIABLES
  touches, pressed, front, marker, late, machineLeases, machineClaims, capture,
  current, req, button, answer, events, overrun, captures, cancels, switches

Visual == INSTANCE VisualRuntime WITH
  Tasks <- MicroTasks, MaxCalls <- MaxMicroCalls, MaxControls <- MaxMicroControls,
  control <- visualControl, revision <- visualRevision, fresh <- visualFresh,
  claims <- visualClaims, crashes <- visualCrashes

Page == INSTANCE PageBinding WITH
  Tasks <- PageTasks, Allowed <- AllowedPages, MaxControls <- MaxPageControls,
  MaxCalls <- MaxPageCalls, control <- pageControl, revision <- pageRevision,
  fresh <- pageFresh, leases <- pageLeases

Machine == INSTANCE NativeInput WITH
  KindOf <- InputKind, leases <- machineLeases, claims <- machineClaims

VisualVars == <<visualControl, visualRevision, visualFresh, live, attempted, visualClaims, task,
    record, input, posted, approval, visualCrashes>>
PageVars == <<page, navs, connected, pageControl, pageRevision, pageFresh, run, taken, call,
    evidence, pageLeases, inputs>>
MachineVars == <<touches, pressed, front, marker, late, machineLeases, machineClaims, capture,
    current, req, button, answer, events, overrun, captures, cancels, switches>>

\* Any caller may never ask, and the daemon may have no crash left.
ActionsInit ==
  /\ part \in {"automation", "visual", "page", "machine"}
  /\ Fresh /\ Visual!Init /\ Page!Init /\ Machine!Init
  /\ pc \in [Caller -> {"idle", "done"}] /\ crashes \in 0..MaxCrashes

\* One part moves, the others keep their first state.
ActionsNext ==
  /\ UNCHANGED part
  /\ IF part = "automation" THEN Next ELSE UNCHANGED vars
  /\ IF part = "visual" THEN Visual!Next ELSE UNCHANGED VisualVars
  /\ IF part = "page" THEN Page!Next ELSE UNCHANGED PageVars
  /\ IF part = "machine" THEN Machine!Next ELSE UNCHANGED MachineVars

ActionsVars == <<part, vars, VisualVars, PageVars, MachineVars>>

ASSUME ActionsAssumption ==
  Visual!RuntimeAssumption /\ Page!PageAssumption /\ Machine!InputAssumption

ActionsSpec == ActionsInit /\ [][ActionsNext]_ActionsVars

-----------------------------------------------------------------------------
\* The properties of the parts, named where the configuration can reach them.

\* An approved mutation is posted once, under control, and recorded for what it was,
\* for the page of its screenshot; the helper releases what it pressed, stops for the
\* person at the machine and answers what it did.
InputHolds == Visual!InputHolds /\ Machine!InputHolds /\ Page!InputHolds
=============================================================================
