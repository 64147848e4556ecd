---------------------------- MODULE PageBinding ----------------------------
(***************************************************************************)
(* The page an input is for.  BrowserSessionBoundOperator proves, around   *)
(* every capture and before every input, that the bound browser window is  *)
(* in front and which page its address bar names; a change of control      *)
(* withdraws those proofs.  Each check is several requests to the helper,  *)
(* and nothing stops a capture whose caller gave up: it goes on and leaves *)
(* its proof behind for the next run of the same task.                     *)
(*                                                                         *)
(* The window, its pages and the helper are external.  Of the runtime      *)
(* above only what decides when the operator is called is here; the claim, *)
(* the record and the queue of the native input are VisualRuntime's.       *)
(***************************************************************************)
EXTENDS Naturals, Sequences, FiniteSets

CONSTANTS
  Tasks,       \* page evidence keys: one micro-task each
  Pages,       \* what the address bar can show
  Allowed,     \* the pages that match the surface of the tasks
  StartPage,   \* where the managed browser begins
  MaxNavs,     \* bound: navigations
  MaxControls, \* bound: changes of control
  MaxCalls,    \* bound: calls of the operator
  MayGiveUp    \* whether a step of the runtime can time out

\* What the constants have to be; the module of the run assumes it.
PageAssumption == Allowed \subseteq Pages /\ StartPage \in Pages /\ MayGiveUp \in BOOLEAN

VARIABLES
  page, navs,         \* the window: its page and how often that changed
  connected,          \* the browser session on disk is connected
  control, revision, fresh, \* VisualSessionState
  run,                \* each task: what its caller does
  taken,              \* the screenshot captureForTask returned for it
  call,               \* calls of the operator, in the order they began
  evidence,           \* capturedPages
  leases,             \* captures whose surface lease is unused
  inputs              \* history: what was posted

window == <<page, navs>>
authority == <<control, revision, fresh>>
operator == <<evidence, leases>>
vars == <<window, connected, authority, run, taken, call, operator, inputs>>

None == [call |-> 0, page |-> CHOOSE p \in Pages : TRUE, nav |-> 0, rev |-> 0]
Off == [at |-> "off", rev |-> 0, live |-> FALSE, shot |-> None, call |-> 0]

Init ==
  /\ page = StartPage /\ navs = 0
  /\ connected = TRUE
  /\ control = "running" /\ revision = 0 /\ fresh = FALSE
  /\ run = [t \in Tasks |-> Off]
  /\ taken = [t \in Tasks |-> None]
  /\ call = <<>>
  /\ evidence = [t \in Tasks |-> None]
  /\ leases = {}
  /\ inputs = <<>>

At(c, at) == call[c].at = at

\* A call that is over is forgotten.
Over(c, at) == [task |-> call[c].task, kind |-> "over", at |-> at, shot |-> None,
                page |-> None.page, nav |-> 0, proof |-> None, live |-> FALSE]
Go(c, at) == call' = IF at \in {"done", "failed"} THEN [call EXCEPT ![c] = Over(c, at)] ELSE [call EXCEPT ![c].at = at]
Calls == 1..Len(call)
Waits(c) == run[call[c].task].call = c

-----------------------------------------------------------------------------
(* The runtime                                                             *)

\* runMicroTask: a screenshot it was given counts unless control changed since
\* some run of the session last looked.
Begin(t) ==
  /\ run[t].at = "off" /\ control = "running"
  /\ run' = [run EXCEPT ![t] = [Off EXCEPT !.at = "run", !.rev = revision, !.live = TRUE,
                                           !.shot = IF fresh THEN None ELSE taken[t]]]
  /\ fresh' = FALSE
  /\ UNCHANGED <<window, connected, control, revision, taken, call, operator, inputs>>

\* captureForTask has no revision and no signal of its own.
BeginCapture(t) ==
  /\ run[t].at = "off" /\ control = "running"
  /\ run' = [run EXCEPT ![t] = [Off EXCEPT !.at = "take", !.live = TRUE]]
  /\ UNCHANGED <<window, connected, authority, taken, call, operator, inputs>>

Ask(t, kind) ==
  /\ Len(call) < MaxCalls
  /\ call' = Append(call, [task |-> t, kind |-> kind, at |-> "open", shot |-> run[t].shot,
                           page |-> page, nav |-> 0, proof |-> None, live |-> run[t].live])
  /\ run' = [run EXCEPT ![t].call = Len(call) + 1]

\* Before grounding, again before a mutation, and after the input.
AskCapture(t) ==
  /\ run[t].at \in {"run", "take"} /\ run[t].call = 0 /\ run[t].live
  /\ Ask(t, "capture")
  /\ UNCHANGED <<window, connected, authority, taken, operator, inputs>>

AskExecute(t) ==
  /\ run[t].at = "run" /\ run[t].call = 0 /\ run[t].live /\ run[t].shot # None
  /\ Ask(t, "execute")
  /\ UNCHANGED <<window, connected, authority, taken, operator, inputs>>

\* A result, an error, the deadline of a step or a change of control ends the run,
\* whatever its call still does.
End(t) ==
  /\ run[t].at # "off"
  /\ \/ MayGiveUp \/ ~run[t].live \/ run[t].call = 0
     \/ run[t].call \in Calls /\ call[run[t].call].at = "failed"
  /\ run' = [run EXCEPT ![t] = Off]
  /\ UNCHANGED <<window, connected, authority, taken, call, operator, inputs>>

-----------------------------------------------------------------------------
(* The operator: the steps every call shares                               *)

\* Mutant: any page of the window will do.
MutExpected(c) == TRUE
\* assertPageIdentityForTask: the page of the task, and for an input that of its capture.
Expected(c) ==
  /\ page \in Allowed
  /\ call[c].kind = "execute" => page = call[c].proof.page

\* assertActive: another window in front loses the session for good.
Lose(c) == connected' = FALSE /\ Go(c, "failed")

\* nativeBinding, the address bar, nativeBinding. A window that left the front or
\* has another title fails the read; both may come at any time, so every read may
\* fail, and what counts is the page when the address was read. Before a capture
\* this is also the step of assertActive.
Read(c) ==
  /\ At(c, IF call[c].kind = "capture" THEN "open" ELSE "read")
  /\ \/ connected /\ call[c].kind = "capture" /\ Lose(c)
     \/ Go(c, "failed") /\ UNCHANGED connected
     \/ /\ connected /\ Expected(c)
        /\ call' = [call EXCEPT ![c].at = IF call[c].kind = "capture" THEN "pixels" ELSE "post",
                                ![c].page = page, ![c].nav = navs]
        /\ UNCHANGED connected
  /\ UNCHANGED <<window, authority, run, taken, operator, inputs>>

-----------------------------------------------------------------------------
(* The operator: capture                                                   *)

\* The native capture, with a lease of its own for one input.
Pixels(c) ==
  /\ At(c, "pixels")
  /\ \/ /\ call' = [call EXCEPT ![c].at = "store",
                                ![c].shot = [None EXCEPT !.call = c, !.page = page]]
        /\ leases' = leases \cup {c}
     \/ Go(c, "failed") /\ UNCHANGED leases
  /\ UNCHANGED <<window, connected, authority, run, taken, evidence, inputs>>

\* capturedPages.set
EvidenceOf(c) ==
  [evidence EXCEPT ![call[c].task] = [call |-> c, page |-> call[c].page, nav |-> call[c].nav, rev |-> revision]]

\* The proof is kept whoever waits. Before a mutation the runtime captures again and
\* ends unless the pixels are those it planned on: the later screenshot stands for
\* both.
Store(c) ==
  LET t == call[c].task
      shot == call[c].shot
  IN
  /\ At(c, "store")
  /\ Go(c, IF connected THEN "done" ELSE "failed")
  /\ evidence' = IF connected THEN EvidenceOf(c) ELSE evidence
  /\ IF ~connected \/ ~Waits(c) \/ ~run[t].live THEN UNCHANGED <<run, taken>>
     ELSE IF run[t].at = "take"
       THEN /\ run' = [run EXCEPT ![t] = Off]
            /\ taken' = [taken EXCEPT ![t] = IF control = "running" THEN shot ELSE @]
     ELSE run' = [run EXCEPT ![t].shot = shot, ![t].call = 0] /\ UNCHANGED taken
  /\ UNCHANGED <<window, connected, authority, leases, inputs>>

-----------------------------------------------------------------------------
(* The operator: execute                                                   *)

\* Mutant: an input whose capture left no proof is checked against the page in front.
MutProof(c) == IF evidence[call[c].task] = None THEN [None EXCEPT !.page = page] ELSE evidence[call[c].task]
Proof(c) == evidence[call[c].task]

\* assertActive, assertCapturedSurface, then the proof of the exact capture.
Prove(c) ==
  /\ At(c, "open") /\ call[c].kind = "execute"
  /\ IF ~connected THEN Go(c, "failed") /\ UNCHANGED connected
     ELSE \/ Lose(c)
          \/ /\ IF Proof(c) # None
                  THEN call' = [call EXCEPT ![c].at = "read", ![c].proof = Proof(c)]
                  ELSE Go(c, "failed")
             /\ UNCHANGED connected
  /\ UNCHANGED <<window, authority, run, taken, operator, inputs>>

\* Mutant: a lease is looked up and stays.
MutSpent(c) == leases
\* consumeLease
Spent(c) == leases \ {call[c].shot.call}

\* The signal, the lease, and the request to the helper.
Post(c) ==
  /\ At(c, "post")
  /\ IF call[c].live /\ call[c].shot.call \in leases
       THEN /\ inputs' = Append(inputs, [task |-> call[c].task, shot |-> call[c].shot, proof |-> call[c].proof,
                                         read |-> call[c].nav, page |-> page, nav |-> navs, rev |-> revision,
                                         awaited |-> Waits(c), at |-> run[call[c].task].rev])
            /\ leases' = Spent(c)
            /\ Go(c, "done")
       ELSE Go(c, "failed") /\ UNCHANGED <<inputs, leases>>
  /\ run' = IF Waits(c) /\ call[c].live THEN [run EXCEPT ![call[c].task].call = 0] ELSE run
  /\ UNCHANGED <<window, connected, authority, taken, evidence>>

-----------------------------------------------------------------------------
(* Control and the pages                                                   *)

\* Mutant: the proofs of the session survive the user.
MutWithdrawn == evidence
\* cancelPendingInput
Withdrawn == [t \in Tasks |-> None]

\* Mutant: the signal of a run is that of its screenshot.
MutAborted == call
\* Only the runs that somebody waits for have a controller to abort.
Aborted == [c \in Calls |-> [call[c] EXCEPT !.live = @ /\ ~(Waits(c) /\ run[call[c].task].at = "run")]]

ChangeControl ==
  /\ revision < MaxControls
  /\ control' \in {"running", "user_control"} \ {control}
  /\ revision' = revision + 1 /\ fresh' = TRUE
  /\ call' = Aborted
  /\ run' = [t \in Tasks |-> [run[t] EXCEPT !.live = @ /\ run[t].at # "run"]]
  /\ evidence' = Withdrawn
  /\ UNCHANGED <<window, connected, taken, leases, inputs>>

Navigate ==
  /\ navs < MaxNavs
  /\ page' \in Pages \ {page} /\ navs' = navs + 1
  /\ UNCHANGED <<connected, authority, run, taken, call, operator, inputs>>

-----------------------------------------------------------------------------
Step(c) ==
  Read(c) \/ Pixels(c) \/ Store(c) \/ Prove(c) \/ Post(c)

Runtime(t) == Begin(t) \/ BeginCapture(t) \/ AskCapture(t) \/ AskExecute(t) \/ End(t)

World == ChangeControl \/ Navigate

Next ==
  \/ \E t \in Tasks : Runtime(t)
  \/ \E c \in Calls : Step(c)
  \/ World

Spec == Init /\ [][Next]_vars

-----------------------------------------------------------------------------
(* Properties                                                              *)

\* The proof is that of the screenshot: no abandoned capture came between.
OwnProof(i) == i.proof.call = i.shot.call

\* An input goes to the page of the screenshot it was planned on: one navigation,
\* wherever it falls between the requests of the capture and of the check, is
\* noticed, unless it comes after the last look (browser-session.ts:630-652).
PageOfItsShot(i) ==
  OwnProof(i) /\ i.read <= i.proof.nav + 1 /\ i.nav = i.read => i.page = i.shot.page

\* And to a page of the task, again unless it changed after the last look.
PageOfItsTask(i) == i.nav = i.read => i.page \in Allowed

\* While its run waits for it, an input is posted under the control the run began
\* with, on a proof that was stored under that control.
ControlOfItsRun(i) == i.awaited => i.at = i.rev /\ i.proof.rev = i.rev

\* Every lease pays for one input (native-helper-operator.ts:280-310).
LeaseOnce == \A i, j \in DOMAIN inputs : inputs[i].shot.call = inputs[j].shot.call => i = j

InputsBound ==
  /\ \A i \in DOMAIN inputs :
       PageOfItsShot(inputs[i]) /\ PageOfItsTask(inputs[i]) /\ ControlOfItsRun(inputs[i])
  /\ LeaseOnce

\* The four of them, of every step.
InputHolds == [][InputsBound']_vars

-----------------------------------------------------------------------------
(* The invariant                                                           *)

ShotType == [call : Nat, page : Pages, nav : Nat, rev : Nat]
RunType == [at : {"off", "run", "take"}, rev : Nat, live : BOOLEAN, shot : ShotType, call : Nat]
CallRecord ==
  [task : Tasks, kind : {"capture", "execute", "over"},
   at : {"open", "pixels", "store", "read", "post", "done", "failed"},
   shot : ShotType, page : Pages, nav : Nat, proof : ShotType, live : BOOLEAN]
\* A capture and an input have steps of their own.
Stage(x) ==
  /\ x.at \in {"pixels", "store"} => x.kind = "capture"
  /\ x.at \in {"read", "post"} => x.kind = "execute"
CallType == {x \in CallRecord : Stage(x)}
InputType ==
  [task : Tasks, shot : ShotType, proof : ShotType, read : Nat, page : Pages, nav : Nat, rev : Nat,
   awaited : BOOLEAN, at : Nat]

TypeOK ==
  /\ page \in Pages /\ navs \in Nat /\ revision \in Nat
  /\ run \in [Tasks -> RunType] /\ taken \in [Tasks -> ShotType]
  /\ call \in Seq(CallType) /\ evidence \in [Tasks -> ShotType]
  /\ leases \subseteq Calls /\ inputs \in Seq(InputType)

Shots == {run[t].shot : t \in Tasks} \cup {taken[t] : t \in Tasks} \cup {call[c].shot : c \in Calls}
Proofs == {evidence[t] : t \in Tasks} \cup {call[c].proof : c \in Calls}

\* Page p was read when the window had changed n times, and page q was seen later:
\* one navigation is between the two at most, if there was one at most since.
ReadThenSeen(n, p, q) ==
  /\ n <= navs
  /\ navs = n => page = p /\ q = p
  /\ navs = n + 1 => q \in {p, page}

Bonds ==
  /\ \A s \in Shots \cup Proofs : s.call <= Len(call)
  /\ \A p \in Proofs, s \in Shots :
       p.call # 0 /\ p.call = s.call => ReadThenSeen(p.nav, p.page, s.page)

\* A capture that has read the address, and one that has its pixels too.
CaptureHeld(c) ==
  call[c].kind = "capture" =>
    /\ call[c].at \in {"open", "pixels"} =>
         c \notin leases /\ \A s \in Shots \cup Proofs : s.call # c
    /\ call[c].at = "pixels" => ReadThenSeen(call[c].nav, call[c].page, page)
    /\ call[c].at = "store" =>
         /\ call[c].shot.call = c /\ ReadThenSeen(call[c].nav, call[c].page, call[c].shot.page)
         /\ \A p \in Proofs : p.call # c
         /\ \A s \in Shots : s.call = c => s = call[c].shot

\* An input that found its proof, and one that has read the address again.
ExecuteHeld(c) ==
  call[c].kind = "execute" =>
    /\ call[c].at \in {"read", "post"} => call[c].proof.call # 0
    /\ call[c].at = "post" =>
         /\ call[c].nav <= navs
         /\ navs = call[c].nav => page = call[c].proof.page /\ page \in Allowed
         /\ OwnProof(call[c]) /\ call[c].nav <= call[c].proof.nav + 1 =>
              call[c].shot.page = call[c].proof.page
    /\ Waits(c) /\ call[c].live =>
         /\ run[call[c].task].at = "run" /\ run[call[c].task].live
         /\ call[c].at \in {"read", "post"} => call[c].proof.rev = revision

RunHeld(t) ==
  /\ run[t].call <= Len(call)
  /\ run[t].at = "run" /\ run[t].live => run[t].rev = revision
  /\ evidence[t] # None => evidence[t].call # 0 /\ evidence[t].rev = revision

\* What was posted has no lease left, and is of a capture that is past its pixels.
Posted ==
  \A i \in DOMAIN inputs :
    /\ inputs[i].shot.call \in Calls \ leases
    /\ \A c \in Calls : call[c].kind = "capture" /\ call[c].at \in {"open", "pixels"} =>
         inputs[i].shot.call # c

PageInv ==
  /\ TypeOK /\ Bonds /\ Posted /\ InputsBound
  /\ \A c \in Calls : CaptureHeld(c) /\ ExecuteHeld(c)
  /\ \A t \in Tasks : RunHeld(t)

-----------------------------------------------------------------------------
\* Not so: a capture whose caller gave up stores its proof over that of the run
\* that came after, and one navigation is then enough.
ProofIsOfItsShot == \A i \in DOMAIN inputs : OwnProof(inputs[i])

\* Not so: a run that timed out while its input was checked took its controller
\* along; a change of control finds nothing to abort and the input is posted.
NoInputUnderUser == \A i \in DOMAIN inputs : inputs[i].rev = inputs[i].proof.rev
=============================================================================
