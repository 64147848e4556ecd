---------------------------- MODULE AlertMonitor ----------------------------
(***************************************************************************)
(* Monitoring alerts of one client on their way into a conversation: the   *)
(* pending file, the injections that are in flight, the follow-up queue of *)
(* an agent, and the transcript of the session. The runtime awaits each    *)
(* hook of the monitor; what runs under the client lock is one step.       *)
(***************************************************************************)
EXTENDS Naturals, FiniteSets

CONSTANTS
  Alerts,     \* submissions, each with an alertId of its own
  KeyOf,      \* the dedupeKey of an alert
  Sessions,   \* conversations of the client
  RateLimit,  \* receipts accepted for injection in a minute
  MaxRuns,    \* agent runs
  MaxWindows, \* dedupe windows that pass
  MaxStops,   \* Stop requests
  MaxCrashes  \* restarts of the daemon

VARIABLES
  answer,     \* what submit() answered for each alert
  file,       \* alerts/pending.json: "none", "pending", "delivering"
  inflight,   \* injections that are not confirmed: session, alerts, fromPending
  anchors,    \* dedupe keys inside their window: in memory, and in the audit log
  receipts,   \* receipts of this minute
  run,        \* "idle", "active", "running", "ended" (not yet removed)
  stopped,    \* sessions whose run is stopped
  queue,      \* injections each agent still has to drain
  appending,  \* the injection an agent confirmed and has not appended
  transcript, \* how often an alert was appended to a session
  runs, windows, stops, crashes

store == <<answer, file, anchors, receipts>>
agent == <<run, stopped, queue, appending, transcript>>
bounds == <<runs, windows, stops, crashes>>
vars == <<store, inflight, agent, bounds>>

NoAlerts == {}
Keys == {KeyOf[a] : a \in Alerts}

Init ==
  /\ answer = [a \in Alerts |-> "none"]
  /\ file = [a \in Alerts |-> "none"]
  /\ inflight = {}
  /\ anchors = [memory |-> {}, audit |-> {}]
  /\ receipts = 0
  /\ run = [s \in Sessions |-> "idle"]
  /\ stopped = {}
  /\ queue = [s \in Sessions |-> {}]
  /\ appending = [s \in Sessions |-> NoAlerts]
  /\ transcript = [a \in Alerts |-> 0]
  /\ runs = 0 /\ windows = 0 /\ stops = 0 /\ crashes = 0

Injection(s, A, fromPending) == [session |-> s, alerts |-> A, fromPending |-> fromPending]

(***************************************************************************)
(* submit                                                                  *)
(***************************************************************************)

Answer(a, as) == answer[a] = "none" /\ answer' = [answer EXCEPT ![a] = as]

\* Only an accepted submission opens a window, in memory and in the audit log.
Anchored(keys) == [memory |-> anchors.memory \cup keys, audit |-> anchors.audit \cup keys]

Deduplicate(a) ==
  /\ KeyOf[a] \in anchors.memory
  /\ Answer(a, "deduplicated")
  /\ UNCHANGED <<file, inflight, anchors, receipts, agent, bounds>>

\* persistPending: at the limit, or with no conversation to inject into.
Persist(a) ==
  /\ KeyOf[a] \notin anchors.memory
  /\ receipts >= RateLimit \/ \A s \in Sessions : run[s] = "idle"
  /\ Answer(a, IF receipts >= RateLimit THEN "rate_limited" ELSE "pending")
  /\ file' = [file EXCEPT ![a] = "pending"]
  /\ anchors' = Anchored({KeyOf[a]})
  /\ receipts' = IF receipts >= RateLimit THEN receipts ELSE receipts + 1
  /\ UNCHANGED <<inflight, agent, bounds>>

\* A session is active until the runtime removes it, after its agent ended.
Inject(a, s) ==
  /\ KeyOf[a] \notin anchors.memory /\ receipts < RateLimit /\ run[s] # "idle"
  /\ Answer(a, "injected")
  /\ anchors' = Anchored({KeyOf[a]})
  /\ receipts' = receipts + 1
  /\ queue' = [queue EXCEPT ![s] = @ \cup {Injection(s, {a}, FALSE)}]
  /\ inflight' = inflight \cup {Injection(s, {a}, FALSE)}
  /\ UNCHANGED <<file, run, stopped, appending, transcript, bounds>>

(***************************************************************************)
(* The hooks of a run.                                                     *)
(***************************************************************************)

Activate(s) ==
  /\ run[s] = "idle" /\ runs < MaxRuns
  /\ run' = [run EXCEPT ![s] = "active"] /\ runs' = runs + 1
  /\ UNCHANGED <<store, inflight, stopped, queue, appending, transcript, windows, stops, crashes>>

\* Mutant: records that another run is delivering are flushed again.
MutDeliverable == {a \in Alerts : file[a] # "none"}

Deliverable == {a \in Alerts : file[a] = "pending"}

\* agent_start: the pending alerts ride one injected message.
FlushPending(s) ==
  /\ run[s] = "active" /\ s \notin stopped
  /\ run' = [run EXCEPT ![s] = "running"]
  /\ LET A == Deliverable
         batch == IF A = {} THEN {} ELSE {Injection(s, A, TRUE)}
     IN  /\ queue' = [queue EXCEPT ![s] = @ \cup batch]
         /\ inflight' = inflight \cup batch
         /\ file' = [a \in Alerts |-> IF a \in A THEN "delivering" ELSE file[a]]
         /\ anchors' = [anchors EXCEPT !.audit = @ \cup {KeyOf[a] : a \in A}]
  /\ UNCHANGED <<answer, receipts, stopped, appending, transcript, bounds>>

\* message_end of an injected message: it is confirmed, then appended.
ConfirmDelivery(s, d) ==
  /\ run[s] = "running" /\ s \notin stopped /\ appending[s] = NoAlerts
  /\ d \in queue[s]
  /\ queue' = [queue EXCEPT ![s] = @ \ {d}]
  /\ appending' = [appending EXCEPT ![s] = d.alerts]
  /\ IF d \in inflight
     THEN /\ inflight' = inflight \ {d}
          /\ file' = IF d.fromPending
                     THEN [a \in Alerts |-> IF a \in d.alerts THEN "none" ELSE file[a]]
                     ELSE file
          /\ anchors' = [anchors EXCEPT !.audit = @ \cup {KeyOf[a] : a \in d.alerts}]
     ELSE UNCHANGED <<inflight, file, anchors>>
  /\ UNCHANGED <<answer, receipts, run, stopped, transcript, bounds>>

\* session.appendMessage, behind a look at the budget.
Append(s) ==
  /\ appending[s] # NoAlerts /\ s \notin stopped
  /\ transcript' = [a \in Alerts |-> transcript[a] + (IF a \in appending[s] THEN 1 ELSE 0)]
  /\ appending' = [appending EXCEPT ![s] = NoAlerts]
  /\ UNCHANGED <<store, inflight, run, stopped, queue, bounds>>

\* The alerts whose injections the session did not drain.
Requeued(s) == UNION {d.alerts : d \in {x \in inflight : x.session = s}}

\* agent_end, with or without an error: injections that were not drained go back.
ReleaseUndelivered(s) ==
  /\ run[s] = "running" /\ s \notin stopped /\ appending[s] = NoAlerts
  /\ run' = [run EXCEPT ![s] = "ended"]
  /\ file' = [a \in Alerts |-> IF a \in Requeued(s) THEN "pending" ELSE file[a]]
  /\ inflight' = {d \in inflight : d.session # s}
  /\ UNCHANGED <<answer, anchors, receipts, stopped, queue, appending, transcript, bounds>>

\* The runtime forgets the agent, its queue with it. The listener of a stopped
\* run throws before it calls the hooks.
Remove(s) ==
  /\ run[s] = "ended" \/ s \in stopped
  /\ run' = [run EXCEPT ![s] = "idle"]
  /\ stopped' = stopped \ {s}
  /\ queue' = [queue EXCEPT ![s] = {}]
  /\ appending' = [appending EXCEPT ![s] = NoAlerts]
  /\ UNCHANGED <<store, inflight, transcript, bounds>>

\* stopConversation, the only latch of the budget considered: clearAllQueues.
Stop(s) ==
  /\ run[s] # "idle" /\ s \notin stopped /\ stops < MaxStops /\ stops' = stops + 1
  /\ stopped' = stopped \cup {s}
  /\ queue' = [queue EXCEPT ![s] = {}]
  /\ UNCHANGED <<store, inflight, run, appending, transcript, runs, windows, crashes>>

(***************************************************************************)
(* Time and restarts.                                                      *)
(***************************************************************************)

MinutePasses ==
  /\ receipts > 0 /\ receipts' = 0
  /\ UNCHANGED <<answer, file, anchors, inflight, agent, bounds>>

WindowPasses ==
  /\ windows < MaxWindows /\ windows' = windows + 1
  /\ anchors' = [memory |-> {}, audit |-> {}]
  /\ receipts' = 0
  /\ UNCHANGED <<answer, file, inflight, agent, runs, stops, crashes>>

\* The anchors are rebuilt from the audit log, the flushed and the delivered
\* alerts among them.
Crash ==
  /\ crashes < MaxCrashes /\ crashes' = crashes + 1
  /\ inflight' = {} /\ receipts' = 0
  /\ anchors' = [anchors EXCEPT !.memory = anchors.audit]
  /\ run' = [s \in Sessions |-> "idle"] /\ stopped' = {}
  /\ queue' = [s \in Sessions |-> {}]
  /\ appending' = [s \in Sessions |-> NoAlerts]
  /\ UNCHANGED <<answer, file, transcript, runs, windows, stops>>

Next ==
  \/ \E a \in Alerts : Deduplicate(a) \/ Persist(a) \/ \E s \in Sessions : Inject(a, s)
  \/ \E s \in Sessions : \/ Activate(s) \/ FlushPending(s) \/ Append(s) \/ ReleaseUndelivered(s)
                         \/ Remove(s) \/ Stop(s)
                         \/ \E d \in queue[s] : ConfirmDelivery(s, d)
  \/ MinutePasses \/ WindowPasses \/ Crash

Spec == Init /\ [][Next]_vars

-----------------------------------------------------------------------------
Accepted(a) == answer[a] \in {"pending", "rate_limited", "injected"}

\* In the transcript, on its way there, or written down.
Tracked(a) ==
  \/ transcript[a] > 0 \/ file[a] # "none"
  \/ \E d \in inflight : a \in d.alerts
  \/ \E s \in Sessions : a \in appending[s]

\* An alert enters the conversations of its client once, however runs overlap,
\* end early, are stopped or restarted.
DeliveredOnce == \A a \in Alerts : transcript[a] <= 1

\* Two alerts of one key are both accepted only when their window passed between
\* them, also over a restart.
OncePerWindow ==
  windows = 0 => \A a, b \in Alerts :
    a # b /\ KeyOf[a] = KeyOf[b] => ~(Accepted(a) /\ Accepted(b))

\* An accepted alert that no Stop and no crash touched is delivered or tracked.
AlertsKept ==
  /\ DeliveredOnce
  /\ OncePerWindow
  /\ stops + crashes = 0 => \A a \in Alerts : Accepted(a) => Tracked(a)

\* "Durability contract: an accepted alert is never lost."
NeverLost == \A a \in Alerts : Accepted(a) => Tracked(a)

-----------------------------------------------------------------------------
(***************************************************************************)
(* The inductive invariant. An alert is in one place at a time: written    *)
(* down, in one injection in flight, confirmed by one agent, or in the     *)
(* transcript. What a live agent has queued is in flight, so what was      *)
(* taken back from an agent that ended is never drained; and every         *)
(* accepted key of the window is in memory and in the log it is rebuilt    *)
(* from.                                                                   *)
(***************************************************************************)
Injections == [session : Sessions, alerts : SUBSET Alerts, fromPending : BOOLEAN]

Waits(a) == answer[a] # "none" /\ file[a] # "pending" /\ transcript[a] = 0

InOnePlace ==
  /\ \A d, e \in inflight : \A a \in d.alerts \cap e.alerts : d = e
  /\ \A d \in inflight : \A a \in d.alerts : Waits(a) /\ \A s \in Sessions : a \notin appending[s]
  /\ \A s \in Sessions : \A a \in appending[s] : Waits(a) /\ \A t \in Sessions \ {s} : a \notin appending[t]
  /\ \A a \in Alerts : transcript[a] = 1 \/ file[a] = "pending" => answer[a] # "none"
  /\ \A a \in Alerts : transcript[a] = 1 => file[a] # "pending"

Queued ==
  \A s \in Sessions :
    /\ \A d \in queue[s] : d.session = s
    /\ run[s] # "ended" => queue[s] \subseteq inflight
    /\ run[s] # "running" => appending[s] = NoAlerts

KeysHeld ==
  windows = 0 => \A a \in Alerts : Accepted(a) => KeyOf[a] \in anchors.memory /\ KeyOf[a] \in anchors.audit

AlertsInv ==
  /\ answer \in [Alerts -> {"none", "deduplicated", "pending", "rate_limited", "injected"}]
  /\ file \in [Alerts -> {"none", "pending", "delivering"}] /\ transcript \in [Alerts -> 0..1]
  /\ inflight \subseteq Injections /\ queue \in [Sessions -> SUBSET Injections]
  /\ appending \in [Sessions -> SUBSET Alerts]
  /\ run \in [Sessions -> {"idle", "active", "running", "ended"}]
  /\ anchors = [memory |-> anchors.memory, audit |-> anchors.audit]
  /\ windows \in Nat /\ stops \in Nat /\ crashes \in Nat
  /\ stops = 0 => stopped = {}
  /\ InOnePlace /\ Queued /\ KeysHeld /\ AlertsKept
=============================================================================
