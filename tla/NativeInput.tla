----------------------------- MODULE NativeInput -----------------------------
(***************************************************************************)
(* The macOS helper between a request and the events it posts: one request *)
(* at a time, each action claimed once, each capture a lease that one      *)
(* request may use, and every ordinary event preceded by a checkpoint.     *)
(* The person at the machine moves, presses and releases, windows come to  *)
(* the front, the host asks for cancellation and deadlines pass between    *)
(* any two steps. The death of the helper is NativeHelperHost's.           *)
(***************************************************************************)
EXTENDS Naturals, Sequences, FiniteSets

CONSTANTS
  Inputs,      \* input requests of the host
  ActionOf,    \* the action id of each
  KindOf,      \* "move", "type", "click2" (a double click) or "drag"
  MaxCaptures, \* bound: captures
  MaxTouches,  \* bound: physical events of the person
  MaxCancels,  \* bound: requests for cancellation
  MaxSwitches  \* bound: changes of the front window

None == "none"

\* What the constants have to be; the module of the run assumes it.
InputAssumption ==
  None \notin Inputs /\ KindOf \in [Inputs -> {"move", "type", "click2", "drag"}]

\* The events that a request posts when nothing stops it.
Script ==
  [k \in {"move", "type", "click2", "drag"} |->
     IF k = "click2" THEN <<"down", "up", "down", "up">>
     ELSE IF k = "drag" THEN <<"down", "drag", "drag", "up">>
     ELSE <<k>>]

VARIABLES
  touches,  \* the counter of physical events
  pressed,  \* the person holds a button or a key
  front,    \* the captured window is the front window, where it was
  marker,   \* the cancellation pipe holds a marker
  late,     \* requests that are past their deadline
  leases,   \* leases that were issued and neither consumed nor expired
  claims,   \* action ids that were claimed
  capture,  \* the capture in progress
  current,  \* the request in progress
  req,      \* each request: where it stands, its lease, its next event
  button,   \* the request whose mouse button the target sees as pressed
  answer,   \* what the host was told
  events,   \* history: events posted
  overrun,  \* history: ordinary events posted after a touch or a cancellation
  captures, cancels, switches

machine == <<touches, pressed, front, marker, cancels, switches>>
store == <<leases, capture, captures>>
told == <<answer, events, overrun>>
vars == <<machine, store, told, late, claims, current, req, button>>

NoCapture == [on |-> FALSE, seen |-> 0]
NoLease == [gen |-> 0, base |-> 0, seen |-> 0]

Init ==
  /\ touches = 0 /\ pressed = FALSE /\ front = TRUE /\ marker = FALSE
  /\ late = {} /\ leases = {} /\ claims = {}
  /\ capture = NoCapture /\ current = None
  /\ req = [r \in Inputs |-> [at |-> "sent", lease |-> NoLease, next |-> 1]]
  /\ button = None
  /\ answer = [r \in Inputs |-> None]
  /\ events = [r \in Inputs |-> 0]
  /\ overrun = [r \in Inputs |-> 0]
  /\ captures = 0 /\ cancels = 0 /\ switches = 0

Free == current = None /\ ~capture.on

-----------------------------------------------------------------------------
(* The machine                                                             *)

Touch ==
  /\ touches < MaxTouches
  /\ touches' = touches + 1
  /\ pressed' \in BOOLEAN
  /\ UNCHANGED <<front, marker, cancels, switches, store, told, late, claims, current, req, button>>

SwitchWindow ==
  /\ switches < MaxSwitches
  /\ switches' = switches + 1
  /\ front' = ~front
  /\ UNCHANGED <<touches, pressed, marker, cancels, store, told, late, claims, current, req, button>>

\* SIGTERM does not end the helper: its handler writes one marker.
Cancel ==
  /\ cancels < MaxCancels
  /\ cancels' = cancels + 1
  /\ marker' = TRUE
  /\ UNCHANGED <<touches, pressed, front, switches, store, told, late, claims, current, req, button>>

Expire(r) ==
  /\ r \notin late /\ answer[r] = None
  /\ late' = late \cup {r}
  /\ UNCHANGED <<machine, store, told, claims, current, req, button>>

LeaseExpires(l) ==
  /\ l \in leases
  /\ leases' = leases \ {l}
  /\ UNCHANGED <<machine, capture, captures, told, late, claims, current, req, button>>

-----------------------------------------------------------------------------
(* capture                                                                 *)

\* Mutant: the counter is read when the lease is issued.
MutBaseline == touches

\* The counter as it was before the pixels were read.
Baseline == capture.seen

BeginCapture ==
  /\ Free /\ captures < MaxCaptures
  /\ captures' = captures + 1
  /\ capture' = [on |-> TRUE, seen |-> touches]
  /\ UNCHANGED <<machine, leases, told, late, claims, current, req, button>>

\* The window must still be the one that was captured; other errors end it too.
EndCapture ==
  /\ capture.on
  /\ capture' = NoCapture
  /\ \/ front /\ leases' = leases \cup {[gen |-> captures, base |-> Baseline, seen |-> capture.seen]}
     \/ UNCHANGED leases
  /\ UNCHANGED <<machine, captures, told, late, claims, current, req, button>>

-----------------------------------------------------------------------------
(* One input request                                                       *)

Go(r, at) == req' = [req EXCEPT ![r].at = at]

Answer(r, what) ==
  /\ answer' = [answer EXCEPT ![r] = what]
  /\ Go(r, "answered")
  /\ current' = None

\* Mutant: only the events of the last pair count.
MutOutcome(r, n) ==
  IF n = 0 \/ (KindOf[r] = "click2" /\ req[r].next = 3) THEN "refused" ELSE "unknown"

\* inputOutcomeFailure: definite only if no event may have been posted.
Outcome(r, n) == IF n = 0 THEN "refused" ELSE "unknown"

\* Mutant: the claim is kept per request.
MutClaimed(r) == FALSE

Claimed(r) == ActionOf[r] \in claims

\* The action is claimed before its deadline is looked at, and stays so.
Receive(r) ==
  /\ Free /\ req[r].at = "sent"
  /\ claims' = claims \cup {ActionOf[r]}
  /\ IF Claimed(r) \/ r \in late
       THEN Answer(r, "refused")
       ELSE current' = r /\ Go(r, "resolve") /\ UNCHANGED answer
  /\ UNCHANGED <<machine, store, events, overrun, late, button>>

Refused(r) ==
  /\ Answer(r, "refused")
  /\ UNCHANGED <<machine, store, events, overrun, late, claims, button>>

\* requireMayContinue takes the marker away.
CancelledEarly(r) ==
  /\ current = r /\ req[r].at = "resolve" /\ marker
  /\ marker' = FALSE
  /\ Answer(r, "refused")
  /\ UNCHANGED <<touches, pressed, front, cancels, switches, store, events, overrun, late, claims, button>>

\* The host sends the lease of a capture that it was given.
Resolve(r, l) ==
  /\ current = r /\ req[r].at = "resolve" /\ ~marker /\ r \notin late
  /\ l \in leases
  /\ req' = [req EXCEPT ![r].at = "consume", ![r].lease = l]
  /\ UNCHANGED <<machine, store, told, late, claims, current, button>>

\* Late, a lease that is unknown, consumed or expired, or one of another window.
ResolveFails(r) == current = r /\ req[r].at = "resolve" /\ ~marker /\ Refused(r)

\* The lease is gone whether or not the window is still the captured one.
Consume(r) ==
  /\ current = r /\ req[r].at = "consume"
  /\ leases' = IF r \in late THEN leases ELSE leases \ {req[r].lease}
  /\ IF req[r].lease \in leases /\ front /\ r \notin late
       THEN Go(r, "check") /\ UNCHANGED <<answer, current>>
       ELSE Answer(r, "refused")
  /\ UNCHANGED <<machine, capture, captures, events, overrun, late, claims, button>>

\* Mutant: a sequence that has begun is not checked again.
MutWatched(r) == req[r].next = 1

\* Every event has its own checkpoint.
Watched(r) == TRUE

Untouched(r) == touches = req[r].lease.base /\ ~pressed

\* Surface, deadline, cancellation and physical input allow the next event.
Allowed(r) == ~Watched(r) \/ (front /\ r \notin late /\ ~marker /\ Untouched(r))

Pass(r) ==
  /\ current = r /\ req[r].at = "check" /\ Allowed(r)
  /\ Go(r, "post")
  /\ UNCHANGED <<machine, store, told, late, claims, current, button>>

\* Mutant: a cancelled sequence is left as it is.
MutMustRelease(r) == button = r /\ ~marker

MustRelease(r) == button = r

\* The checkpoint gets to the marker, which reading takes away.
ReadsMarker(r) == front /\ (KindOf[r] = "move" \/ r \notin late)

\* A failed checkpoint ends the sequence; a pressed button is released without one.
Stop(r) ==
  /\ current = r /\ req[r].at = "check" /\ ~Allowed(r)
  /\ marker' = (marker /\ ~ReadsMarker(r))
  /\ LET n == events[r] + IF MustRelease(r) THEN 1 ELSE 0 IN
       /\ events' = [events EXCEPT ![r] = n]
       /\ Answer(r, Outcome(r, n))
  /\ button' = IF MustRelease(r) THEN None ELSE button
  /\ UNCHANGED <<touches, pressed, front, cancels, switches, store, overrun, late, claims>>

Event(r) == Script[KindOf[r]][req[r].next]

\* postToPid cannot fail; the write of a text can, after the target took it.
Post(r) ==
  /\ current = r /\ req[r].at = "post"
  /\ events' = [events EXCEPT ![r] = @ + 1]
  /\ overrun' = [overrun EXCEPT ![r] =
       IF Event(r) # "up" /\ (marker \/ touches # req[r].lease.seen) THEN @ + 1 ELSE @]
  /\ button' = IF Event(r) = "down" THEN r ELSE IF Event(r) = "up" THEN None ELSE button
  /\ IF req[r].next < Len(Script[KindOf[r]])
       THEN /\ req' = [req EXCEPT ![r].at = "check", ![r].next = @ + 1]
            /\ UNCHANGED <<answer, current>>
       ELSE \/ Answer(r, "posted")
            \/ KindOf[r] = "type" /\ Answer(r, "unknown")
  /\ UNCHANGED <<machine, store, late, claims>>

Next ==
  \/ Touch \/ SwitchWindow \/ Cancel \/ BeginCapture \/ EndCapture
  \/ \E l \in leases : LeaseExpires(l)
  \/ \E r \in Inputs :
       \/ Expire(r) \/ Receive(r) \/ CancelledEarly(r) \/ ResolveFails(r)
       \/ Consume(r) \/ Pass(r) \/ Stop(r) \/ Post(r)
       \/ \E l \in leases : Resolve(r, l)

Spec == Init /\ [][Next]_vars

-----------------------------------------------------------------------------
(* The invariant                                                           *)

LeaseType == [gen : Nat, base : Nat, seen : Nat]
Waiting == {"sent", "resolve", "consume"}
Posting == {"check", "post"}

TypeOK ==
  /\ touches \in Nat /\ marker \in BOOLEAN /\ captures \in Nat
  /\ leases \subseteq LeaseType /\ capture \in [on : BOOLEAN, seen : Nat]
  /\ current \in Inputs \cup {None} /\ button \in Inputs \cup {None}
  /\ req \in [Inputs -> [at : Waiting \cup Posting \cup {"answered"}, lease : LeaseType, next : 1..4]]
  /\ answer \in [Inputs -> {None, "refused", "unknown", "posted"}]
  /\ events \in [Inputs -> Nat] /\ overrun \in [Inputs -> Nat]

\* The button of the target is down between these two events of a sequence.
Down(k, next) == (k = "click2" /\ next \in {2, 4}) \/ (k = "drag" /\ next \in 2..4)

ButtonHeld ==
  button # None =>
    /\ button = current
    /\ req[button].at \in Posting /\ Down(KindOf[button], req[button].next)

\* A lease is older than the capture in progress, and the person was at rest then.
Fair(l) ==
  /\ l.base = l.seen /\ l.seen <= touches
  /\ l.gen <= captures /\ (capture.on => l.gen # captures)

LeasesHeld ==
  /\ capture.on => capture.seen <= touches
  /\ \A l \in leases : Fair(l) /\ \A m \in leases : l.gen = m.gen => l = m

\* The request was let in, or more: it used its lease.
Admitted(r) == req[r].at \in {"resolve", "consume"} \cup Posting \/ events[r] > 0
Spent(r) == req[r].at \in Posting \/ events[r] > 0

Stage(r) ==
  /\ current = r <=> req[r].at \in {"resolve", "consume"} \cup Posting
  /\ answer[r] = None <=> req[r].at # "answered"
  /\ req[r].at \in Waiting => events[r] = 0 /\ req[r].next = 1
  /\ req[r].at \in Posting =>
       events[r] + 1 = req[r].next /\ req[r].next <= Len(Script[KindOf[r]])
  /\ answer[r] = "refused" => events[r] = 0
  /\ answer[r] = "posted" => events[r] = Len(Script[KindOf[r]])

\* An event that overran the person is the last one.
Overrun(r) ==
  /\ overrun[r] <= 1
  /\ req[r].at \in Waiting \cup {"post"} => overrun[r] = 0
  /\ req[r].at = "check" /\ overrun[r] = 1 => marker \/ touches # req[r].lease.seen

Owned(r) ==
  /\ Admitted(r) => ActionOf[r] \in claims
  /\ Spent(r) => Fair(req[r].lease) /\ \A l \in leases : l.gen # req[r].lease.gen

OneEach ==
  \A r, s \in Inputs : r # s =>
    /\ Admitted(r) /\ Admitted(s) => ActionOf[r] # ActionOf[s]
    /\ Spent(r) /\ Spent(s) => req[r].lease.gen # req[s].lease.gen

InputInv ==
  /\ TypeOK /\ ButtonHeld /\ LeasesHeld /\ OneEach
  /\ \A r \in Inputs : Stage(r) /\ Overrun(r) /\ Owned(r)

-----------------------------------------------------------------------------
(* A takeover cannot strand the mouse button of the target: between two     *)
(* requests nothing is held, and what is held belongs to the one that runs. *)
ButtonReleased == button # None => button = current

(* A definite refusal means that no event was posted, and success that all  *)
(* were.                                                                    *)
AnswerHonest ==
  \A r \in Inputs :
    /\ answer[r] = "refused" => events[r] = 0
    /\ answer[r] = "posted" => events[r] = Len(Script[KindOf[r]])

(* "Any hardware input during capture or grounding invalidates the          *)
(* resulting one-shot lease": one event may be on its way when the person   *)
(* touches the machine or the host cancels, and no second one follows.      *)
TakeoverStops == \A r \in Inputs : overrun[r] <= 1

(* One lease and one action id serve one request.                           *)
UsedOnce ==
  \A r, s \in Inputs :
    r # s /\ events[r] > 0 /\ events[s] > 0 =>
      req[r].lease.gen # req[s].lease.gen /\ ActionOf[r] # ActionOf[s]

InputHolds == [][(ButtonReleased /\ AnswerHonest /\ TakeoverStops /\ UsedOnce)']_vars
=============================================================================
