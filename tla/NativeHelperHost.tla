-------------------------- MODULE NativeHelperHost --------------------------
(***************************************************************************)
(* The supervisor of the native helper: it owns at most one host actor,    *)
(* each host owns one helper process and writes it one request at a time.  *)
(* A time-out, an abort, a malformed answer or an exit ends the actor; the *)
(* supervisor then waits for the old process before it starts another, and *)
(* repeats at most once what only reads. The helper is modelled as far as  *)
(* its clicks and drags go: mouse-down, a checkpoint, mouse-up.            *)
(* A request leaves `line' when it settles; the head of the line is the    *)
(* active one, written to the helper. Answers are handled as they are      *)
(* written: a host that has ended ignores them.                            *)
(***************************************************************************)
EXTENDS Naturals, Sequences, FiniteSets

CONSTANTS
  Requests,  \* request() calls on the supervisor
  NoReq,
  Mutating,  \* the requests with a method of MUTATING_METHODS
  MaxQueue,  \* maxQueueDepth
  MaxHosts   \* processes that can be launched; the next launch fails

ASSUME HostAssumption ==
  /\ Mutating \subseteq Requests /\ NoReq \notin Requests
  /\ MaxQueue \in Nat \ {0} /\ MaxHosts \in Nat

VARIABLES
  open,    \* the supervisor is not closed
  host,    \* #host, 0 for undefined
  launch,  \* #launching: what it waits for, and the process concerned
  spawned, \* processes started so far
  actor,   \* "none", "open" or "closed" for each NativeComputerHost
  line,    \* its pending requests in order
  proc,    \* its helper process
  call,    \* the requests
  posted   \* times native events of a request were posted (history)

supervisor == <<open, host, launch, spawned>>
vars == <<open, host, launch, spawned, actor, line, proc, call, posted>>

Hosts == 1..MaxHosts
NoLaunch == [stage |-> "none", h |-> 0]
NoProcess == [alive |-> FALSE, inbox |-> NoReq, run |-> NoReq, stage |-> "idle",
              term |-> FALSE, kill |-> FALSE]

Init ==
  /\ open = TRUE /\ host = 0 /\ launch = NoLaunch /\ spawned = 0
  /\ actor = [h \in Hosts |-> "none"]
  /\ line = [h \in Hosts |-> <<>>]
  /\ proc = [h \in Hosts |-> NoProcess]
  /\ call = [r \in Requests |-> [pc |-> "idle", h |-> 0, retry |-> FALSE,
                                 aborted |-> FALSE, error |-> "none"]]
  /\ posted = [r \in Requests |-> 0]

(***************************************************************************)
(* One host actor.                                                         *)
(***************************************************************************)

\* The host settles a request: request() of the supervisor catches the error
\* of its first attempt; the second attempt's outcome is the caller's.
Settle(c, e) ==
  [c EXCEPT !.error = e, !.pc = IF e = "ok" \/ c.retry THEN "answered" ELSE "caught"]

\* #removePending of the n-th in line, and #pump: the next in line is written.
Without(h, n) == [m \in 1 .. Len(line[h]) - 1 |-> line[h][IF m < n THEN m ELSE m + 1]]
Pump(p, q) == IF q # <<>> /\ Head(q) # p.run THEN [p EXCEPT !.inbox = Head(q)] ELSE p

\* #rejectForDisconnect: only a written mutation may have had an effect.
Disconnected(h) ==
  [r \in Requests |->
     IF \A n \in DOMAIN line[h] : line[h][n] # r THEN call[r]
     ELSE Settle(call[r], IF r = Head(line[h]) /\ r \in Mutating THEN "unknown"
                                                                 ELSE "definite")]

\* #terminate and close(): the process gets SIGTERM and the end of its input.
Terminate(h) ==
  /\ actor' = [actor EXCEPT ![h] = "closed"]
  /\ line' = [line EXCEPT ![h] = <<>>]

Submit(r, h, c) ==
  IF actor[h] = "closed"
  THEN call' = [call EXCEPT ![r] = Settle(c, "definite")] /\ UNCHANGED <<line, proc>>
  ELSE IF c.aborted \/ Len(line[h]) >= MaxQueue
  THEN call' = [call EXCEPT ![r] = Settle(c, "definite")] /\ UNCHANGED <<line, proc>>
  ELSE /\ call' = [call EXCEPT ![r] = [c EXCEPT !.pc = "pending"]]
       /\ line' = [line EXCEPT ![h] = Append(@, r)]
       /\ proc' = [proc EXCEPT ![h] = IF line[h] = <<>> THEN [@ EXCEPT !.inbox = r] ELSE @]

\* #expire: the timer of a request, or its abort signal. The first in line is
\* the one that was written.
Expire(r, abort) ==
  LET h == call[r].h IN
  /\ call[r].pc = "pending"
  /\ \E n \in DOMAIN line[h] :
       /\ line[h][n] = r
       /\ IF n = 1
          THEN /\ Terminate(h)
               /\ call' = [Disconnected(h) EXCEPT ![r].aborted = abort]
               /\ proc' = [proc EXCEPT ![h].term = TRUE]
          ELSE /\ line' = [line EXCEPT ![h] = Without(h, n)]
               /\ call' = [call EXCEPT ![r] = Settle([@ EXCEPT !.aborted = abort], "definite")]
               /\ UNCHANGED <<actor, proc>>
  /\ UNCHANGED <<supervisor, posted>>

(***************************************************************************)
(* The helper process.                                                     *)
(***************************************************************************)

HelperReads(h) ==
  /\ proc[h].alive /\ proc[h].run = NoReq /\ proc[h].inbox # NoReq
  /\ proc' = [proc EXCEPT ![h].run = proc[h].inbox, ![h].inbox = NoReq, ![h].stage = "read"]
  /\ UNCHANGED <<supervisor, actor, line, call, posted>>

\* The helper answers; the marker of a SIGTERM is consumed by its checkpoint.
Reply(h, e) ==
  LET r == proc[h].run
      p == [proc[h] EXCEPT !.run = NoReq, !.stage = "idle"]
  IN IF actor[h] = "open"
     THEN /\ line' = [line EXCEPT ![h] = Tail(@)]
          /\ call' = [call EXCEPT ![r] = Settle(@, e)]
          /\ proc' = [proc EXCEPT ![h] = Pump(p, Tail(line[h]))]
     ELSE /\ proc' = [proc EXCEPT ![h] = p]
          /\ UNCHANGED <<line, call>>

\* A read answers; any request may be refused before an event is posted.
HelperAnswers(h) ==
  /\ proc[h].alive /\ proc[h].stage = "read"
  /\ \/ proc[h].run \notin Mutating /\ Reply(h, "ok")
     \/ Reply(h, "definite")
  /\ UNCHANGED <<supervisor, actor, posted>>

\* The checkpoint before mouse-down passes and the event is posted.
HelperPosts(h) ==
  /\ proc[h].alive /\ proc[h].stage = "read" /\ proc[h].run \in Mutating
  /\ ~proc[h].term
  /\ posted' = [posted EXCEPT ![proc[h].run] = @ + 1]
  /\ proc' = [proc EXCEPT ![h].stage = "down"]
  /\ UNCHANGED <<supervisor, actor, line, call>>

\* Mouse-up after the last checkpoint, or as the clean-up of a failed one: then
\* the outcome is unknown whatever the failure was.
HelperReleases(h) ==
  /\ proc[h].alive /\ proc[h].stage = "down"
  /\ \/ ~proc[h].term /\ Reply(h, "ok")
     \/ Reply(h, "unknown")
  /\ UNCHANGED <<supervisor, actor, posted>>

\* An answer that does not parse or does not match the active request.
BadReply(h) ==
  /\ proc[h].alive /\ proc[h].run # NoReq /\ actor[h] = "open"
  /\ Terminate(h)
  /\ call' = Disconnected(h)
  /\ proc' = [proc EXCEPT ![h].run = NoReq, ![h].stage = "idle", ![h].term = TRUE]
  /\ UNCHANGED <<supervisor, posted>>

\* The process is gone: its input ended and it has nothing to do, SIGKILL one
\* second after close(), or a crash.
Gone(h) ==
  /\ proc' = [proc EXCEPT ![h] = NoProcess]
  /\ IF actor[h] = "open"
     THEN Terminate(h) /\ call' = Disconnected(h)
     ELSE UNCHANGED <<actor, line, call>>
  /\ UNCHANGED <<supervisor, posted>>

HelperExits(h) ==
  /\ proc[h].alive /\ actor[h] = "closed"
  /\ proc[h].run = NoReq /\ proc[h].inbox = NoReq
  /\ Gone(h)
HelperKilled(h) == proc[h].alive /\ proc[h].kill /\ Gone(h)
HelperCrashes(h) == proc[h].alive /\ actor[h] = "open" /\ Gone(h)

(***************************************************************************)
(* The supervisor.                                                         *)
(***************************************************************************)

Request(r) ==
  /\ call[r].pc = "idle"
  /\ call' = [call EXCEPT ![r].pc = "ensure"]
  /\ UNCHANGED <<supervisor, actor, line, proc, posted>>

\* #ensureHost. Whoever finds the host closed retires it and launches another,
\* once its process is gone; the others wait for the same launch.
EnsureHost(r) ==
  /\ call[r].pc = "ensure"
  /\ IF ~open
     THEN call' = [call EXCEPT ![r] = Settle([@ EXCEPT !.retry = TRUE], "definite")]
          /\ UNCHANGED <<host, launch, line, proc>>
     ELSE IF host # 0 /\ actor[host] = "open"
     THEN IF call[r].retry /\ (r \in Mutating \/ call[r].aborted)
          THEN call' = [call EXCEPT ![r].pc = "answered"] /\ UNCHANGED <<host, launch, line, proc>>
          ELSE Submit(r, host, [call[r] EXCEPT !.h = host]) /\ UNCHANGED <<host, launch>>
     ELSE /\ call' = [call EXCEPT ![r].pc = "waiting"]
          /\ host' = 0
          /\ launch' = IF launch = NoLaunch THEN [stage |-> "exit", h |-> host] ELSE launch
          /\ proc' = IF host = 0 THEN proc ELSE [proc EXCEPT ![host].kill = TRUE]
          /\ UNCHANGED line
  /\ UNCHANGED <<open, spawned, actor, posted>>

\* The catch block of request(): with its host gone the request goes on to
\* #replaceHost, which awaits the exit of that host's process.
Caught(r) ==
  /\ call[r].pc = "caught"
  /\ IF actor[call[r].h] # "closed" \/ ~open
     THEN call' = [call EXCEPT ![r].pc = "answered"] /\ UNCHANGED proc
     ELSE /\ call' = [call EXCEPT ![r].pc = IF host = call[r].h THEN "ensure" ELSE "exit",
                                  ![r].retry = TRUE]
          /\ proc' = [proc EXCEPT ![call[r].h].kill = @ \/ host # call[r].h]
  /\ UNCHANGED <<supervisor, actor, line, posted>>

FailedExited(r) ==
  /\ call[r].pc = "exit" /\ ~proc[call[r].h].alive
  /\ call' = [call EXCEPT ![r].pc = "ensure"]
  /\ UNCHANGED <<supervisor, actor, line, proc, posted>>

\* Mutant: a failed launch is logged and forgotten.
MutRejectWaiting == call' = call

\* A launch that fails is the error of everyone who waits for it; it takes the
\* place of the error a waiting retry had caught.
RejectWaiting ==
  call' = [r \in Requests |-> IF call[r].pc = "waiting"
                              THEN [call[r] EXCEPT !.pc = "answered", !.error = "definite"]
                              ELSE call[r]]

\* Mutant: the new process does not wait for the exit of the old one.
MutMayLaunch == TRUE

MayLaunch == \A h \in Hosts : h = launch.h => ~proc[h].alive

LaunchSpawns ==
  /\ launch.stage = "exit" /\ MayLaunch
  /\ IF open /\ spawned < MaxHosts
     THEN /\ spawned' = spawned + 1
          /\ launch' = [stage |-> "hello", h |-> spawned + 1]
          /\ actor' = [actor EXCEPT ![spawned + 1] = "open"]
          /\ proc' = [proc EXCEPT ![spawned + 1].alive = TRUE]
          /\ UNCHANGED call
     ELSE launch' = NoLaunch /\ RejectWaiting /\ UNCHANGED <<spawned, actor, proc>>
  /\ UNCHANGED <<open, host, line, posted>>

\* The handshake of the new process; a supervisor closed meanwhile ends it.
LaunchReady ==
  /\ launch.stage = "hello" /\ open /\ actor[launch.h] = "open"
  /\ host' = launch.h /\ launch' = NoLaunch
  /\ call' = [r \in Requests |-> IF call[r].pc = "waiting" THEN [call[r] EXCEPT !.pc = "ensure"]
                                                           ELSE call[r]]
  /\ UNCHANGED <<open, spawned, actor, line, proc, posted>>

LaunchFails ==
  /\ launch.stage = "hello"
  /\ actor' = [actor EXCEPT ![launch.h] = "closed"]
  /\ proc' = [proc EXCEPT ![launch.h].kill = TRUE, ![launch.h].term = TRUE]
  /\ launch' = [launch EXCEPT !.stage = "failed"]
  /\ UNCHANGED <<open, host, spawned, line, call, posted>>

LaunchFailed ==
  /\ launch.stage = "failed" /\ ~proc[launch.h].alive
  /\ launch' = NoLaunch /\ RejectWaiting
  /\ UNCHANGED <<open, host, spawned, actor, line, proc, posted>>

Close ==
  /\ open /\ open' = FALSE /\ host' = 0
  /\ IF host = 0 THEN UNCHANGED <<actor, line, proc, call>>
     ELSE /\ Terminate(host)
          /\ call' = Disconnected(host)
          /\ proc' = [proc EXCEPT ![host].kill = TRUE, ![host].term = TRUE]
  /\ UNCHANGED <<launch, spawned, posted>>

Next ==
  \/ \E r \in Requests :
       \/ Request(r) \/ EnsureHost(r) \/ Caught(r) \/ FailedExited(r)
       \/ \E abort \in BOOLEAN : Expire(r, abort)
  \/ \E h \in Hosts :
       \/ HelperReads(h) \/ HelperAnswers(h) \/ HelperPosts(h) \/ HelperReleases(h)
       \/ BadReply(h) \/ HelperExits(h) \/ HelperKilled(h) \/ HelperCrashes(h)
  \/ LaunchSpawns \/ LaunchReady \/ LaunchFails \/ LaunchFailed \/ Close

\* Timers fire (a request's, the handshake's, SIGKILL's) and promises settle;
\* the helper itself need not do anything.
Fairness ==
  /\ \A r \in Requests : /\ WF_vars(EnsureHost(r)) /\ WF_vars(Caught(r))
                         /\ WF_vars(FailedExited(r)) /\ WF_vars(Expire(r, FALSE))
  /\ \A h \in Hosts : WF_vars(HelperKilled(h))
  /\ WF_vars(LaunchSpawns) /\ WF_vars(LaunchFails) /\ WF_vars(LaunchFailed)

Spec == Init /\ [][Next]_vars /\ Fairness

-----------------------------------------------------------------------------
(***************************************************************************)
(* Properties.                                                             *)
(***************************************************************************)

\* "Do not overlap two Accessibility-capable actors": whoever restarts, times
\* out or closes at the same time, at most one helper process is alive.
OneHelper == \A g, h \in Hosts : proc[g].alive /\ proc[h].alive => g = h

\* A mutation is posted once at most: it never crosses a restart.
PostedOnce == \A r \in Requests : posted[r] <= 1

\* A host that reports a definite failure of a mutation is right: no event of it
\* was posted, and none will be.
DefiniteIsDefinite ==
  \A r \in Mutating : call[r].pc = "caught" /\ call[r].error = "definite" => posted[r] = 0

\* Together: one helper posts a mutation once, and says so truly.
HelperUnderControl == OneHelper /\ PostedOnce /\ DefiniteIsDefinite

\* Every request is answered although the helper hangs, and a closed supervisor
\* leaves no process behind.
EveryRequestAnswered ==
  /\ \A r \in Requests : call[r].pc = "ensure" ~> call[r].pc = "answered"
  /\ ~open ~> \A h \in Hosts : ~proc[h].alive

\* "An input request whose outcome cannot be authenticated is OUTCOME_UNKNOWN":
\* the caller hears of a definite failure only if no event was posted.
UnknownIsReported ==
  \A r \in Mutating : call[r].pc = "answered" /\ call[r].error = "definite" => posted[r] = 0

-----------------------------------------------------------------------------
(***************************************************************************)
(* The inductive invariant behind HelperUnderControl.                      *)
(***************************************************************************)
Process ==
  [alive : BOOLEAN, inbox : Requests \cup {NoReq}, run : Requests \cup {NoReq},
   stage : {"idle", "read", "down"}, term : BOOLEAN, kill : BOOLEAN]

Call ==
  [pc : {"idle", "ensure", "waiting", "pending", "caught", "exit", "answered"},
   h : 0..MaxHosts, retry : BOOLEAN, aborted : BOOLEAN,
   error : {"none", "ok", "definite", "unknown"}]

TypeOK ==
  /\ open \in BOOLEAN /\ host \in 0..spawned /\ spawned \in 0..MaxHosts
  /\ launch \in [stage : {"none", "exit", "hello", "failed"}, h : 0..spawned]
  /\ actor \in [Hosts -> {"none", "open", "closed"}]
  /\ line \in [Hosts -> Seq(Requests)]
  /\ proc \in [Hosts -> Process] /\ call \in [Requests -> Call]
  /\ posted \in [Requests -> Nat]

\* While a process is launched no other is alive but the one it waits for, and
\* between launches none but that of the supervisor's host.
LaunchAlone ==
  /\ launch.stage # "none" => host = 0 /\ \A h \in Hosts : proc[h].alive => h = launch.h
  /\ launch.stage = "none" /\ open => \A h \in Hosts : proc[h].alive => h = host
  /\ launch.stage = "none" => launch = NoLaunch
  /\ launch.stage \in {"hello", "failed"} => launch.h # 0
  /\ \A h \in Hosts : h > spawned => actor[h] = "none" /\ proc[h] = NoProcess

\* A host whose process has not said hello is given no request.
NewHostIdle == launch.stage = "hello" => line[launch.h] = <<>>

\* What an open host wrote and the helper has not answered is the head of its
\* line; a closed one has no line and its process was told to stop.
HeadWritten(h) ==
  LET p == proc[h] IN
  /\ p.run = NoReq <=> p.stage = "idle"
  /\ actor[h] # "open" => line[h] = <<>>
  /\ actor[h] = "open" => /\ p.inbox = NoReq \/ p.run = NoReq
                         /\ \A r \in {p.inbox, p.run} \ {NoReq} :
                              line[h] # <<>> /\ Head(line[h]) = r
  /\ actor[h] # "open" /\ p.alive => p.term

\* A request stands in one line once, while it is pending there.
InLineOnce ==
  /\ \A r \in Requests : call[r].pc = "pending" => call[r].h # 0
  /\ \A h \in Hosts : \A n \in DOMAIN line[h] :
       /\ call[line[h][n]].pc = "pending" /\ call[line[h][n]].h = h
       /\ \A m \in DOMAIN line[h] : line[h][m] = line[h][n] => m = n

\* A mutation was posted at most once; while it is pending it was only if the
\* helper holds its button down.
Pressed(r) ==
  \E h \in Hosts : actor[h] = "open" /\ proc[h].run = r /\ proc[h].stage = "down"

PostingKnown(r) ==
  /\ posted[r] <= 1
  /\ call[r].pc \in {"idle", "ensure", "waiting"} /\ ~call[r].retry => posted[r] = 0
  /\ call[r].pc = "pending" => ~call[r].retry /\ (posted[r] = 0 \/ Pressed(r))
  /\ call[r].pc = "exit" => call[r].retry
  /\ call[r].pc = "caught" => ~call[r].retry /\ (call[r].error = "definite" => posted[r] = 0)

HelperInv ==
  /\ TypeOK /\ LaunchAlone /\ OneHelper /\ NewHostIdle /\ InLineOnce
  /\ \A h \in Hosts : HeadWritten(h)
  /\ \A r \in Requests \ Mutating : posted[r] = 0
  /\ \A r \in Mutating : PostingKnown(r)
=============================================================================
