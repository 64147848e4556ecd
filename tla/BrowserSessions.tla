-------------------------- MODULE BrowserSessions --------------------------
(***************************************************************************)
(* The managed browser of one client and Profile: the durable record that  *)
(* binds Computer Use to one process and one window, and the operations of *)
(* BrowserSessionManager on it. Each reads the record, looks at the system *)
(* for a while, and saves the record it read with another status; nothing  *)
(* orders them, and reading the status of Computer Use recovers as well.   *)
(***************************************************************************)
EXTENDS Naturals, FiniteSets

CONSTANTS
  Calls,      \* requests served at once; a slot serves one after the other
  MaxPid,     \* browsers that are launched; the id of a process is its turn
  MaxWindows  \* windows a process shows, one at a time

BrowserAssumption == MaxPid \in Nat /\ MaxWindows \in Nat

Kinds == {"start", "assertActive", "recover", "resume", "close"}
None == "none"
NoRecord == [status |-> None, pid |-> 0, window |-> 0]
NoCall == [kind |-> None, at |-> "idle", read |-> NoRecord, seen |-> 0]

VARIABLES
  record,   \* <sessionId>.json
  call,     \* each call: its kind, where it is, the record it works on, the window it saw
  alive,    \* browser processes
  window,   \* the window each shows, 0 while it has none; moved is another window
  front,    \* the process whose window is in front
  launched, \* the last process that was spawned
  bound     \* what each start found: the window of its process

world == <<alive, window, front, launched>>
vars == <<record, call, world, bound>>

Pids == 1..MaxPid

Init ==
  /\ record = NoRecord
  /\ call = [c \in Calls |-> NoCall]
  /\ alive = {} /\ launched = 0 /\ front = 0
  /\ window = [p \in Pids |-> 0]
  /\ bound = [p \in Pids |-> 0]

At(c, at) == call[c].at = at
Go(c, at) == call' = [call EXCEPT ![c].at = at]
Leave(c) == call' = [call EXCEPT ![c] = NoCall]

(***************************************************************************)
(* The record each operation reads, and which it refuses.                  *)
(***************************************************************************)

Accepts(kind) ==
  CASE kind = "start" -> record.status # "connected"
    [] kind = "assertActive" -> record.status = "connected"
    [] kind = "recover" -> record.status \in {"connected", "starting"}
    [] kind = "resume" -> record.status = "lost"
    [] kind = "close" -> record.status # None

Begin(c, kind) ==
  /\ At(c, "idle") /\ Accepts(kind)
  /\ call' = [call EXCEPT ![c] = [kind |-> kind, at |-> "read", read |-> record, seen |-> 0]]
  /\ UNCHANGED <<record, world, bound>>

(***************************************************************************)
(* start: a session that is starting does not refuse another one.          *)
(***************************************************************************)

Launch(c) ==
  /\ call[c].kind = "start" /\ At(c, "read") /\ launched < MaxPid
  /\ launched' = launched + 1 /\ alive' = alive \cup {launched + 1}
  /\ call' = [call EXCEPT ![c] = [kind |-> "start", at |-> "spawned", seen |-> 0,
               read |-> [status |-> "starting", pid |-> launched + 1, window |-> 0]]]
  /\ UNCHANGED <<record, window, front, bound>>

SaveStarting(c) ==
  /\ At(c, "spawned")
  /\ record' = call[c].read
  /\ Go(c, "waiting")
  /\ UNCHANGED <<world, bound>>

\* waitForManagedWindow: the window of the process is the binding.
WindowAppears(c) ==
  /\ At(c, "waiting") /\ call[c].read.pid \in alive
  /\ LET p == call[c].read.pid IN
       /\ window[p] # 0
       /\ bound' = [bound EXCEPT ![p] = window[p]]
       /\ call' = [call EXCEPT ![c].at = "found", ![c].seen = window[p],
            ![c].read = [status |-> "connected", pid |-> p, window |-> window[p]]]
  /\ UNCHANGED <<record, world>>

\* The polls run out.
NoWindow(c) ==
  /\ At(c, "waiting")
  /\ Go(c, "mismatch")
  /\ UNCHANGED <<record, world, bound>>

(***************************************************************************)
(* assertActive, recover, resume.                                          *)
(***************************************************************************)

\* Mutant: a live process of the session may come back with another window.
MutIsBound(r, p) == p = r.pid /\ p \in alive /\ window[p] # 0

\* surfaceBindingMismatch: the same process with the same window.
IsBound(r, p) == p = r.pid /\ p \in alive /\ window[p] # 0 /\ window[p] = r.window

\* What the operation will save: the record it read, connected.
Seen(r) == [r EXCEPT !.status = "connected"]

\* The process is alive and its window is the bound one; assertActive and resume
\* want it in front as well.
Validates(c) ==
  /\ call[c].kind \in {"assertActive", "recover", "resume"} /\ At(c, "read")
  /\ LET r == call[c].read
         proven == IsBound(r, r.pid) /\ (call[c].kind = "recover" \/ front = r.pid)
     IN  IF proven
         THEN call' = [call EXCEPT ![c].at = "found", ![c].read = Seen(r), ![c].seen = window[r.pid]]
         ELSE IF call[c].kind = "resume" THEN Leave(c) ELSE Go(c, "mismatch")
  /\ UNCHANGED <<record, world, bound>>

SaveConnected(c) ==
  /\ At(c, "found")
  /\ record' = call[c].read
  /\ Leave(c)
  /\ UNCHANGED <<world, bound>>

MarkLost(c) ==
  /\ At(c, "mismatch")
  /\ record' = [call[c].read EXCEPT !.status = "lost"]
  /\ Leave(c)
  /\ UNCHANGED <<world, bound>>

(***************************************************************************)
(* close                                                                   *)
(***************************************************************************)

Terminate(c) ==
  /\ call[c].kind = "close" /\ At(c, "read")
  /\ alive' = alive \ {call[c].read.pid}
  /\ Go(c, "terminated")
  /\ UNCHANGED <<record, window, front, launched, bound>>

SaveClosed(c) ==
  /\ At(c, "terminated")
  /\ record' = [call[c].read EXCEPT !.status = "closed"]
  /\ Leave(c)
  /\ UNCHANGED <<world, bound>>

(***************************************************************************)
(* The user, the browser and the daemon.                                   *)
(***************************************************************************)

\* A new window, another one of the browser, or the same one moved or raised.
OpenWindow(p) ==
  /\ p \in alive
  /\ \E w \in 1..MaxWindows : window' = [window EXCEPT ![p] = w]
  /\ front' = p
  /\ UNCHANGED <<record, call, alive, launched, bound>>

Quit(p) ==
  /\ p \in alive /\ alive' = alive \ {p}
  /\ UNCHANGED <<record, call, window, front, launched, bound>>

\* The calls of a daemon that dies are gone; the next one recovers.
Restart ==
  /\ call' = [c \in Calls |-> IF At(c, "idle") \/ record.status \notin {"connected", "starting"} THEN NoCall
                              ELSE [kind |-> "recover", at |-> "read", read |-> record, seen |-> 0]]
  /\ UNCHANGED <<record, world, bound>>

Next ==
  \/ \E c \in Calls :
       \/ \E kind \in Kinds : Begin(c, kind)
       \/ Launch(c) \/ SaveStarting(c) \/ WindowAppears(c) \/ NoWindow(c)
       \/ Validates(c) \/ SaveConnected(c) \/ MarkLost(c)
       \/ Terminate(c) \/ SaveClosed(c)
  \/ \E p \in Pids : OpenWindow(p) \/ Quit(p)
  \/ Restart

Spec == Init /\ [][Next]_vars

-----------------------------------------------------------------------------
\* browser-session.ts:432: "Only the original live process and exact original
\* window/Profile may reconnect". However the operations on a session overlap, a
\* connected session names a process it launched and the window its start found,
\* and no operation is about to connect it having seen another window.
NeverRebinds ==
  /\ record.status = "connected" => record.pid > 0 /\ record.window = bound[record.pid]
  /\ \A c \in Calls : At(c, "found") => call[c].seen = bound[call[c].read.pid]

\* The inductive invariant. A start has its process to itself until it found the
\* window, which it then writes down once; and every record that names a window,
\* stored or in the hands of a call, names that one.
Records == [status : {None, "starting", "connected", "lost", "closed"},
            pid : 0..launched, window : Nat]
CallRecords == [kind : Kinds \cup {None}, read : Records, seen : Nat,
                at : {"idle", "read", "spawned", "waiting", "found", "mismatch", "terminated"}]

Faithful(r) ==
  /\ r.window # 0 => r.pid > 0 /\ r.window = bound[r.pid]
  /\ r.status = "connected" => r.window # 0

Starting(k) == k.at \in {"spawned", "waiting"}
CallOK(k) ==
  /\ Faithful(k.read)
  /\ Starting(k) => k.read.pid > 0 /\ bound[k.read.pid] = 0
  /\ k.at = "found" => k.seen = k.read.window /\ k.read.window # 0

BrowsersInv ==
  /\ launched \in 0..MaxPid /\ window \in [Pids -> Nat] /\ bound \in [Pids -> Nat]
  /\ record \in Records /\ Faithful(record)
  /\ call \in [Calls -> CallRecords] /\ (\A c \in Calls : CallOK(call[c]))
  /\ \A p \in Pids : p > launched => bound[p] = 0
  /\ \A c, d \in Calls :
       Starting(call[c]) /\ Starting(call[d]) /\ call[c].read.pid = call[d].read.pid => c = d
=============================================================================
