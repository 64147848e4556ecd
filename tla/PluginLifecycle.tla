--------------------------- MODULE PluginLifecycle ---------------------------
(***************************************************************************)
(* Installing, updating and switching one curated plug-in. The runtime     *)
(* works on its state record under runExclusive with a compare-and-swap    *)
(* on the revision, so each of its operations is one action; the product   *)
(* service composes several of them into one request and awaits between.   *)
(* Migrated data, signatures and audit records are abstracted: an update   *)
(* whose bundle does not verify or whose migration fails changes nothing.  *)
(***************************************************************************)
EXTENDS Naturals

CONSTANTS
  MaxVersion,  \* versions in the curated registry are 1..MaxVersion
  Permissions,
  Grants,      \* the permissions each version asks for
  Requests,    \* HTTP requests on the plug-in
  MaxTampers,  \* staged bundles damaged on disk
  MaxCrashes

Versions == 1..MaxVersion

LifecycleAssumption ==
  /\ MaxVersion \in Nat \ {0}
  /\ Grants \in [Versions -> SUBSET Permissions]
  /\ MaxTampers \in Nat /\ MaxCrashes \in Nat

VARIABLES
  inst,      \* the latest committed state revision, or NotInstalled
  installs,  \* installation ids handed out
  damaged,   \* versions whose staged bundle no longer verifies
  consumed,  \* approval-receipts/ on disk: requests whose receipt was consumed
  minted,    \* receipts of this process that were not verified yet
  req,       \* what each request does and has read
  switch,    \* the last on or off anyone asked for (history)
  accepted,  \* permissions someone accepted for this installation (history)
  crashes

vars == <<inst, installs, damaged, consumed, minted, req, switch, accepted, crashes>>

NotInstalled == [status |-> "none"]
NoPending == [version |-> 0, added |-> {}, previous |-> "none"]
Installed == inst # NotInstalled
Pending == Installed /\ inst.pending # NoPending

Added(from, to) == Grants[to] \ Grants[from]

NoRequest == [op |-> "none", version |-> 0, accept |-> FALSE, needs |-> FALSE,
              seen |-> NotInstalled, pc |-> "idle"]

FirstInstall(v, n) == [id |-> n, revision |-> 1, status |-> "active", active |-> v,
                       pending |-> NoPending]

\* The plug-in is absent, or was installed by an earlier process.
Init ==
  /\ \/ inst = NotInstalled /\ installs = 0 /\ switch = "off"
     \/ inst = FirstInstall(1, 1) /\ installs = 1 /\ switch = "on"
  /\ accepted = IF installs = 0 THEN {} ELSE Grants[1]
  /\ damaged = {} /\ consumed = {} /\ minted = {}
  /\ req = [r \in Requests |-> NoRequest]
  /\ crashes = 0

At(r, op, pc) == req[r].op = op /\ req[r].pc = pc
Goto(r, pc) == req' = [req EXCEPT ![r].pc = pc]
Stop(r) == Goto(r, "done")

\* version 0 stands for a request that names none: the latest.
Arrive(r) ==
  /\ req[r].pc = "idle"
  /\ \E op \in {"install", "uninstall", "enable", "disable", "update"},
        v \in Versions \cup {0}, a \in BOOLEAN :
       /\ op \notin {"install", "update"} => v = 0
       /\ op # "update" => ~a
       /\ req' = [req EXCEPT ![r] = [NoRequest EXCEPT !.op = op, !.version = v,
                                                      !.accept = a, !.pc = "begin"]]
  /\ UNCHANGED <<inst, installs, damaged, consumed, minted, switch, accepted, crashes>>

Target(r) == IF req[r].version = 0 THEN MaxVersion ELSE req[r].version

Revise(i) == inst' = [i EXCEPT !.revision = @ + 1]

(***************************************************************************)
(* Install, uninstall, disable: one runtime operation each.                *)
(***************************************************************************)

Install(r) ==
  /\ At(r, "install", "begin")
  /\ IF Installed
     THEN UNCHANGED <<inst, installs, switch, accepted>>
     ELSE /\ installs' = installs + 1
          /\ inst' = FirstInstall(Target(r), installs + 1)
          /\ switch' = "on"
          /\ accepted' = Grants[Target(r)]
  /\ Stop(r)
  /\ UNCHANGED <<damaged, consumed, minted, crashes>>

\* The whole plug-in directory goes, staged bundles included.
Uninstall(r) ==
  /\ At(r, "uninstall", "begin")
  /\ IF Installed THEN inst' = NotInstalled /\ damaged' = {}
                  ELSE UNCHANGED <<inst, damaged>>
  /\ Stop(r)
  /\ UNCHANGED <<installs, consumed, minted, switch, accepted, crashes>>

\* Mutant: the pending update keeps the status it was requested in.
MutSwitchedOff(i) == [i EXCEPT !.status = "disabled"]

\* A pending update remembers that it must come back disabled.
SwitchedOff(i) ==
  [i EXCEPT !.status = "disabled",
            !.pending = IF @ = NoPending THEN @ ELSE [@ EXCEPT !.previous = "disabled"]]

RuntimeDisable ==
  /\ switch' = "off"
  /\ IF Installed /\ inst.status # "disabled" THEN Revise(SwitchedOff(inst))
                                              ELSE UNCHANGED inst

Disable(r) ==
  /\ At(r, "disable", "begin")
  /\ RuntimeDisable
  /\ Stop(r)
  /\ UNCHANGED <<installs, damaged, consumed, minted, accepted, crashes>>

(***************************************************************************)
(* Enable: the service verifies first, the runtime switches, and the       *)
(* answer verifies again; a bundle damaged in between is switched off.     *)
(***************************************************************************)

EnableVerify(r) ==
  /\ At(r, "enable", "begin")
  /\ IF Installed /\ (inst.status = "active" \/ inst.active \notin damaged)
     THEN Goto(r, "switch") ELSE Stop(r)
  /\ UNCHANGED <<inst, installs, damaged, consumed, minted, switch, accepted, crashes>>

MayEnable == Installed /\ inst.pending = NoPending /\ inst.status # "needs_review"

EnableSwitch(r) ==
  /\ At(r, "enable", "switch")
  /\ IF MayEnable
     THEN /\ switch' = "on"
          /\ IF inst.status = "active" THEN UNCHANGED inst
                                       ELSE Revise([inst EXCEPT !.status = "active"])
          /\ Goto(r, "answer")
     ELSE Stop(r) /\ UNCHANGED <<inst, switch>>
  /\ UNCHANGED <<installs, damaged, consumed, minted, accepted, crashes>>

EnableAnswer(r) ==
  /\ At(r, "enable", "answer")
  /\ IF Installed /\ inst.active \in damaged THEN RuntimeDisable
                                             ELSE UNCHANGED <<inst, switch>>
  /\ Stop(r)
  /\ UNCHANGED <<installs, damaged, consumed, minted, accepted, crashes>>

(***************************************************************************)
(* Update: the catalogue says whether the latest version needs consent,    *)
(* then the state is read, then the runtime updates to the version asked   *)
(* for, and an update under review is approved with a receipt.             *)
(***************************************************************************)

ListedNeedsConsent ==
  Installed /\ (Pending \/ (inst.active < MaxVersion /\ Added(inst.active, MaxVersion) # {}))

UpdateList(r) ==
  /\ At(r, "update", "begin")
  /\ req' = [req EXCEPT ![r].needs = ListedNeedsConsent, ![r].pc = "listed"]
  /\ UNCHANGED <<inst, installs, damaged, consumed, minted, switch, accepted, crashes>>

UpdateRead(r) ==
  /\ At(r, "update", "listed")
  /\ Goto(r, IF (Pending \/ req[r].needs) /\ ~req[r].accept THEN "done"
             ELSE IF Pending THEN "receipt" ELSE "update")
  /\ UNCHANGED <<inst, installs, damaged, consumed, minted, switch, accepted, crashes>>

\* activateUpdate: consent is recorded by whoever gave it.
Activate(r, i, version, status) ==
  /\ Revise([i EXCEPT !.active = version, !.status = status, !.pending = NoPending])
  /\ accepted' = accepted \cup (IF req[r].accept THEN Added(i.active, version) ELSE {})

UnderReview(v) ==
  [inst EXCEPT !.status = "needs_review",
               !.pending = [version |-> v, added |-> Added(inst.active, v),
                            previous |-> IF inst.status = "disabled" THEN "disabled"
                                                                     ELSE "active"]]

\* runtime.update: a version that adds permissions goes under review; the
\* service then approves it at once.
RuntimeUpdate(r) ==
  /\ At(r, "update", "update")
  /\ LET v == Target(r) IN
     IF ~Installed \/ Pending \/ (Installed /\ v <= inst.active) \/ v \in damaged
     THEN Stop(r) /\ UNCHANGED <<inst, accepted>>
     ELSE IF Added(inst.active, v) # {}
     THEN Revise(UnderReview(v)) /\ Goto(r, "receipt") /\ UNCHANGED accepted
     ELSE Activate(r, inst, v, IF inst.status = "disabled" THEN "disabled" ELSE "active")
          /\ Stop(r)
  /\ UNCHANGED <<installs, damaged, consumed, minted, switch, crashes>>

\* approvePendingUpdate of the service: the receipt is minted for what the
\* state says now.
MintReceipt(r) ==
  /\ At(r, "update", "receipt")
  /\ IF Pending
     THEN /\ req' = [req EXCEPT ![r].seen = inst, ![r].pc = "approve"]
          /\ minted' = minted \cup {r}
     ELSE Stop(r) /\ UNCHANGED minted
  /\ UNCHANGED <<inst, installs, damaged, consumed, switch, accepted, crashes>>

\* Mutant: the receipt is compared with the version and permissions only.
MutMatches(r) ==
  /\ Pending
  /\ req[r].seen.pending.version = inst.pending.version
  /\ req[r].seen.pending.added = inst.pending.added

Matches(r) ==
  /\ Pending
  /\ req[r].seen.id = inst.id
  /\ req[r].seen.revision = inst.revision
  /\ req[r].seen.pending.version = inst.pending.version
  /\ req[r].seen.pending.added = inst.pending.added

\* approvePendingUpdate of the runtime; verify() spends the minted receipt
\* even when the bundle turns out to be damaged.
Approve(r) ==
  /\ At(r, "update", "approve")
  /\ IF Matches(r) /\ r \in minted
     THEN /\ minted' = minted \ {r}
          /\ IF inst.pending.version \in damaged \/ r \in consumed
             THEN Stop(r) /\ UNCHANGED <<inst, consumed, accepted>>
             ELSE /\ consumed' = consumed \cup {r}
                  /\ Activate(r, inst, inst.pending.version, inst.pending.previous)
                  /\ Goto(r, "approved")
     ELSE Stop(r) /\ UNCHANGED <<inst, consumed, minted, accepted>>
  /\ UNCHANGED <<installs, damaged, switch, crashes>>

(***************************************************************************)
(* The disk and the process.                                               *)
(***************************************************************************)

Tamper(v) ==
  /\ Installed /\ damaged = {} /\ MaxTampers > 0
  /\ v = inst.active \/ v = inst.pending.version
  /\ damaged' = {v}
  /\ UNCHANGED <<inst, installs, consumed, minted, req, switch, accepted, crashes>>

\* A crash forgets the requests and their receipts, perhaps after a receipt
\* was consumed and before the state was swapped; the next start switches
\* off an installed bundle that does not verify.
Restart ==
  /\ crashes < MaxCrashes /\ crashes' = crashes + 1
  /\ req' = [r \in Requests |-> IF req[r].pc \in {"idle", "done", "approved"} THEN req[r]
                                ELSE [req[r] EXCEPT !.pc = "done"]]
  /\ minted' = {}
  /\ \/ UNCHANGED consumed
     \/ \E r \in minted : req[r].pc = "approve" /\ Matches(r) /\ consumed' = consumed \cup {r}
  /\ IF Installed /\ inst.status # "disabled" /\ inst.active \in damaged
     THEN RuntimeDisable ELSE UNCHANGED <<inst, switch>>
  /\ UNCHANGED <<installs, damaged, accepted>>

Next ==
  \/ \E r \in Requests :
       \/ Arrive(r) \/ Install(r) \/ Uninstall(r) \/ Disable(r)
       \/ EnableVerify(r) \/ EnableSwitch(r) \/ EnableAnswer(r)
       \/ UpdateList(r) \/ UpdateRead(r) \/ RuntimeUpdate(r)
       \/ MintReceipt(r) \/ Approve(r)
  \/ \E v \in Versions : Tamper(v)
  \/ Restart

Spec == Init /\ [][Next]_vars

-----------------------------------------------------------------------------
(***************************************************************************)
(* Properties.                                                             *)
(***************************************************************************)

\* The plug-in is active only if the last switch anyone threw was on: an update
\* that waited for a review, was disabled meanwhile and is then approved, comes
\* back disabled.
SwitchKept == Installed /\ inst.status = "active" => switch = "on"

\* While permissions wait for review nothing of the plug-in runs, also when it
\* was disabled and enabled again under the review.
ReviewHolds == Pending => inst.status # "active"

\* Both: what the user switched off or has to review does not run.
SwitchAndReviewHold == SwitchKept /\ ReviewHolds

\* An approval activates the very update its request had read: the same pending
\* version of the same installation, never one that took its place.
ApprovesWhatItRead ==
  [][\A r \in Requests :
       req[r].pc = "approve" /\ req'[r].pc = "approved" =>
         inst.id = req[r].seen.id /\ inst.pending = req[r].seen.pending]_vars

\* What the user decided about a plug-in holds: its switch, and its review.
DecisionsHold == [][SwitchAndReviewHold']_vars /\ ApprovesWhatItRead

\* "requires acceptPermissions for updates that add permissions": a permission
\* the active version holds was accepted by an install or by a request that said
\* so.
GrantsWereAccepted == Installed => Grants[inst.active] \subseteq accepted

-----------------------------------------------------------------------------
(***************************************************************************)
(* The inductive invariant. A pending update comes back active only if the *)
(* plug-in was on when it was requested and was not switched off since;    *)
(* and a state that a request read for its receipt, of this installation   *)
(* and of this revision, is the state of now.                              *)
(***************************************************************************)
Updates == [version : Versions \cup {0}, added : SUBSET Permissions,
            previous : {"none", "active", "disabled"}]
Installations == [id : Nat, revision : Nat, status : {"active", "disabled", "needs_review"},
                  active : Versions, pending : Updates]

\* How the switch, the status and the pending update hang together.
Switched ==
  /\ inst.status = "active" => switch = "on" /\ ~Pending
  /\ inst.status = "needs_review" => Pending
  /\ Pending => inst.pending.previous # "none" /\ inst.pending.version # 0
  /\ (Pending /\ inst.pending.previous = "active") => switch = "on" /\ inst.status = "needs_review"

ReadBefore(i) ==
  /\ i \in Installations /\ i.id <= installs
  /\ (Installed /\ i.id = inst.id) =>
       i.revision <= inst.revision /\ (i.revision = inst.revision => i = inst)

IsRequest(q) ==
  /\ q = [op |-> q.op, version |-> q.version, accept |-> q.accept, needs |-> q.needs,
          seen |-> q.seen, pc |-> q.pc]
  /\ q.version \in Versions \cup {0}
  /\ q.pc = "approve" => ReadBefore(q.seen)

LifecycleInv ==
  /\ installs \in Nat /\ DOMAIN req = Requests
  /\ Installed => inst \in Installations /\ inst.id = installs /\ Switched
  /\ \A r \in Requests : IsRequest(req[r])
=============================================================================
