---------------------- MODULE NativeHelperHost_proofs ----------------------
(* Safety of the native helper's supervision, for every set of requests,    *)
(* every queue bound and any number of processes.                           *)
EXTENDS NativeHelperHost, SequenceTheorems, TLAPS

Outcome == {"ok", "definite", "unknown"}
Settled == {"answered", "caught"}

InLine(r, h) == \E n \in DOMAIN line[h] : line[h][n] = r

-----------------------------------------------------------------------------
(* What the operators of a host return                                      *)

LEMMA SettleResult ==
    ASSUME NEW c \in Call, NEW e \in Outcome
    PROVE  /\ Settle(c, e) \in Call /\ Settle(c, e).h = c.h
           /\ Settle(c, e).retry = c.retry /\ Settle(c, e).error = e
           /\ Settle(c, e).pc \in Settled
           /\ Settle(c, e).pc = "caught" => ~c.retry /\ e # "ok"
<1>1. Settle(c, e).pc = IF e = "ok" \/ c.retry THEN "answered" ELSE "caught"
  BY DEF Settle, Call
<1>2. /\ Settle(c, e).h = c.h /\ Settle(c, e).retry = c.retry /\ Settle(c, e).error = e
      /\ Settle(c, e).aborted = c.aborted
  BY DEF Settle, Call
<1>3. Settle(c, e) \in Call
  BY DEF Settle, Call, Outcome
<1> QED
  BY <1>1, <1>2, <1>3 DEF Settled, Call

LEMMA DisconnectedResult ==
    ASSUME TypeOK, NEW h \in Hosts
    PROVE  /\ Disconnected(h) \in [Requests -> Call]
           /\ \A r \in Requests : ~InLine(r, h) => Disconnected(h)[r] = call[r]
           /\ \A r \in Requests : InLine(r, h) =>
                Disconnected(h)[r] = Settle(call[r], IF r = Head(line[h]) /\ r \in Mutating
                                                     THEN "unknown" ELSE "definite")
<1>1. \A r \in Requests : ~InLine(r, h) => Disconnected(h)[r] = call[r]
  BY DEF Disconnected, InLine
<1>2. \A r \in Requests : InLine(r, h) =>
        Disconnected(h)[r] = Settle(call[r], IF r = Head(line[h]) /\ r \in Mutating
                                             THEN "unknown" ELSE "definite")
  BY DEF Disconnected, InLine
<1>3. ASSUME NEW r \in Requests PROVE Disconnected(h)[r] \in Call
  <2>1. call[r] \in Call
    BY DEF TypeOK
  <2>2. \A e \in Outcome : Settle(call[r], e) \in Call
    BY <2>1, SettleResult
  <2> QED
    BY <1>1, <1>2, <2>1, <2>2 DEF Outcome
<1>4. Disconnected(h) = [r \in Requests |-> Disconnected(h)[r]]
  BY DEF Disconnected
<1> QED
  BY <1>1, <1>2, <1>3, <1>4

LEMMA WithoutResult ==
    ASSUME TypeOK, NEW h \in Hosts, NEW n \in 2 .. Len(line[h])
    PROVE  /\ Without(h, n) \in Seq(Requests)
           /\ Len(Without(h, n)) = Len(line[h]) - 1
           /\ DOMAIN Without(h, n) = 1 .. Len(line[h]) - 1
           /\ \A m \in DOMAIN Without(h, n) :
                /\ m < n => m \in DOMAIN line[h] /\ Without(h, n)[m] = line[h][m]
                /\ m >= n => m + 1 \in DOMAIN line[h] /\ Without(h, n)[m] = line[h][m + 1]
           /\ Without(h, n) # <<>> /\ Head(Without(h, n)) = Head(line[h])
<1>1. line[h] \in Seq(Requests) /\ Len(line[h]) \in Nat /\ DOMAIN line[h] = 1 .. Len(line[h])
  BY DEF TypeOK
<1>2. DOMAIN Without(h, n) = 1 .. Len(line[h]) - 1
  BY DEF Without
<1>3. \A m \in DOMAIN Without(h, n) :
        /\ m < n => m \in DOMAIN line[h] /\ Without(h, n)[m] = line[h][m]
        /\ m >= n => m + 1 \in DOMAIN line[h] /\ Without(h, n)[m] = line[h][m + 1]
  BY <1>1, <1>2 DEF Without
<1>4. \A m \in DOMAIN Without(h, n) : Without(h, n)[m] \in Requests
  BY <1>1, <1>2, <1>3
<1>5. Without(h, n) \in Seq(Requests) /\ Len(Without(h, n)) = Len(line[h]) - 1
  BY <1>1, <1>2, <1>4 DEF Without
<1>6. Without(h, n) # <<>>
  BY <1>1, <1>5
<1>7. Head(Without(h, n)) = Without(h, n)[1] /\ Head(line[h]) = line[h][1]
  BY <1>1, <1>5, <1>6
<1> QED
  BY <1>1, <1>2, <1>3, <1>5, <1>6, <1>7

LEMMA HostTypes ==
    ASSUME TypeOK, NEW h \in Hosts
    PROVE  /\ line[h] \in Seq(Requests) /\ proc[h] \in Process
           /\ actor[h] \in {"none", "open", "closed"} /\ h \in Nat /\ h # 0
           /\ proc[h].alive \in BOOLEAN /\ proc[h].term \in BOOLEAN
           /\ proc[h].inbox \in Requests \cup {NoReq} /\ proc[h].run \in Requests \cup {NoReq}
           /\ proc[h].stage \in {"idle", "read", "down"} /\ proc[h].kill \in BOOLEAN
<1>1. h \in Nat /\ h # 0
  BY HostAssumption DEF Hosts
<1>2. proc[h] \in Process
  BY DEF TypeOK
<1> QED
  BY <1>1, <1>2 DEF TypeOK, Process

LEMMA RequestTypes ==
    ASSUME TypeOK, NEW r \in Requests
    PROVE  /\ call[r] \in Call /\ posted[r] \in Nat
           /\ call[r].retry \in BOOLEAN /\ call[r].aborted \in BOOLEAN
           /\ call[r].h \in 0..MaxHosts /\ call[r].error \in {"none", "ok", "definite", "unknown"}
           /\ call[r].pc \in {"idle", "ensure", "waiting", "pending", "caught", "exit", "answered"}
<1>1. call[r] \in Call
  BY DEF TypeOK
<1> QED
  BY <1>1 DEF TypeOK, Call

LEMMA InLineMeans ==
    ASSUME TypeOK, InLineOnce, NEW h \in Hosts, NEW r \in Requests, InLine(r, h)
    PROVE  call[r].pc = "pending" /\ call[r].h = h
  BY DEF InLine, InLineOnce

LEMMA HeadInLine ==
    ASSUME TypeOK, NEW h \in Hosts, line[h] # <<>>
    PROVE  InLine(Head(line[h]), h) /\ Head(line[h]) = line[h][1] /\ 1 \in DOMAIN line[h]
           /\ Head(line[h]) \in Requests
<1>1. line[h] \in Seq(Requests)
  BY DEF TypeOK
<1>2. 1 \in DOMAIN line[h] /\ Head(line[h]) = line[h][1] /\ line[h][1] \in Requests
  BY <1>1
<1> QED
  BY <1>2 DEF InLine

-----------------------------------------------------------------------------
(* Type correctness                                                         *)

Steering(r) == Request(r) \/ EnsureHost(r) \/ Caught(r) \/ FailedExited(r)
Answering(h) == HelperAnswers(h) \/ HelperReleases(h)
Exiting(h) == HelperExits(h) \/ HelperKilled(h) \/ HelperCrashes(h)
Launching == LaunchSpawns \/ LaunchReady \/ LaunchFails \/ LaunchFailed

LEMMA NextCases ==
    ASSUME Next
    PROVE  \/ \E r \in Requests : Steering(r) \/ \E abort \in BOOLEAN : Expire(r, abort)
           \/ \E h \in Hosts : \/ HelperReads(h) \/ Answering(h) \/ HelperPosts(h)
                             \/ BadReply(h) \/ Exiting(h)
           \/ Launching \/ Close
  BY DEF Next, Steering, Answering, Exiting, Launching

LEMMA InitType == Init => TypeOK
<1> SUFFICES ASSUME Init PROVE TypeOK
  OBVIOUS
<1>1. NoProcess \in Process
  BY DEF NoProcess, Process
<1>2. [pc |-> "idle", h |-> 0, retry |-> FALSE, aborted |-> FALSE, error |-> "none"] \in Call
  BY HostAssumption DEF Call
<1>3. \A h \in Hosts : <<>> \in Seq(Requests)
  OBVIOUS
<1> QED
  BY <1>1, <1>2, <1>3, HostAssumption DEF Init, TypeOK, NoLaunch

LEMMA SubmitType ==
    ASSUME TypeOK, NEW r \in Requests, NEW h \in Hosts, NEW c \in Call, Submit(r, h, c)
    PROVE  /\ call' \in [Requests -> Call] /\ line' \in [Hosts -> Seq(Requests)]
           /\ proc' \in [Hosts -> Process]
<1>1. Settle(c, "definite") \in Call /\ [c EXCEPT !.pc = "pending"] \in Call
  BY SettleResult DEF Outcome, Call
<1>2. proc[h] \in Process /\ [proc[h] EXCEPT !.inbox = r] \in Process
  BY DEF TypeOK, Process
<1>3. Append(line[h], r) \in Seq(Requests)
  BY DEF TypeOK
<1> QED
  BY <1>1, <1>2, <1>3 DEF Submit, TypeOK

LEMMA SteeringType ==
    ASSUME TypeOK, NEW r \in Requests, Steering(r)
    PROVE  TypeOK'
<1>0. call[r] \in Call
  BY DEF TypeOK
<1>1. CASE Request(r)
  <2>1. [call[r] EXCEPT !.pc = "ensure"] \in Call
    BY <1>0 DEF Call
  <2> QED
    BY <1>1, <2>1 DEF Request, TypeOK, supervisor
<1>2. CASE EnsureHost(r)
  <2>1. CASE ~open
    <3>0. [call[r] EXCEPT !.retry = TRUE] \in Call /\ "definite" \in Outcome
      BY <1>0 DEF Call, Outcome
    <3>1. Settle([call[r] EXCEPT !.retry = TRUE], "definite") \in Call
      BY <3>0, SettleResult
    <3> QED
      BY <1>2, <2>1, <3>1 DEF EnsureHost, TypeOK
  <2>2. CASE open /\ host # 0 /\ actor[host] = "open"
    <3>1. host \in Hosts /\ host \in 0..MaxHosts
      BY <2>2, HostAssumption DEF TypeOK, Hosts
    <3>2. [call[r] EXCEPT !.pc = "answered"] \in Call /\ [call[r] EXCEPT !.h = host] \in Call
      BY <1>0, <3>1 DEF Call
    <3>3. CASE call[r].retry /\ (r \in Mutating \/ call[r].aborted)
      BY <1>2, <2>2, <3>2, <3>3 DEF EnsureHost, TypeOK
    <3>4. CASE ~(call[r].retry /\ (r \in Mutating \/ call[r].aborted))
      BY <1>2, <2>2, <3>1, <3>2, <3>4, SubmitType DEF EnsureHost, TypeOK
    <3> QED
      BY <3>3, <3>4
  <2>3. CASE open /\ ~(host # 0 /\ actor[host] = "open")
    <3>1. [call[r] EXCEPT !.pc = "waiting"] \in Call
      BY <1>0 DEF Call
    <3>2. \A h \in Hosts : [proc[h] EXCEPT !.kill = TRUE] \in Process
      BY DEF TypeOK, Process
    <3>3. proc' \in [Hosts -> Process]
      <4>1. proc' = proc \/ proc' = [proc EXCEPT ![host].kill = TRUE]
        BY <1>2, <2>3 DEF EnsureHost
      <4>2. proc \in [Hosts -> Process]
        BY DEF TypeOK
      <4> QED
        BY <3>2, <4>1, <4>2
    <3>4. launch' \in [stage : {"none", "exit", "hello", "failed"}, h : 0..spawned]
      BY <1>2, <2>3 DEF EnsureHost, TypeOK
    <3>5. call' = [call EXCEPT ![r].pc = "waiting"] /\ host' = 0
      BY <1>2, <2>3 DEF EnsureHost
    <3>6. call' \in [Requests -> Call] /\ host' \in 0..spawned
      BY <3>1, <3>5 DEF TypeOK
    <3> QED
      BY <1>2, <2>3, <3>3, <3>4, <3>6 DEF EnsureHost, TypeOK
  <2> QED
    BY <2>1, <2>2, <2>3
<1>3. CASE Caught(r)
  <2>1. \A p \in {"answered", "ensure", "exit"} : [call[r] EXCEPT !.pc = p] \in Call
                                              /\ [call[r] EXCEPT !.pc = p, !.retry = TRUE] \in Call
    BY <1>0 DEF Call
  <2>2. \A h \in Hosts : \A b \in BOOLEAN : [proc[h] EXCEPT !.kill = b] \in Process
    BY DEF TypeOK, Process
  <2>3. \A h \in Hosts : (proc[h].kill \/ host # h) \in BOOLEAN
    BY DEF TypeOK, Process
  <2>4. CASE actor[call[r].h] # "closed" \/ ~open
    BY <1>3, <2>1, <2>4 DEF Caught, TypeOK, supervisor
  <2>5. CASE ~(actor[call[r].h] # "closed" \/ ~open)
    <3>1. call' \in [Requests -> Call]
      BY <1>3, <2>1, <2>5 DEF Caught, TypeOK
    <3>2. proc' = [proc EXCEPT ![call[r].h].kill = @ \/ host # call[r].h]
      BY <1>3, <2>5 DEF Caught
    <3>3. proc' \in [Hosts -> Process]
      BY <2>2, <2>3, <3>2 DEF TypeOK
    <3> QED
      BY <1>3, <3>1, <3>3 DEF Caught, TypeOK, supervisor
  <2> QED
    BY <2>4, <2>5
<1>4. CASE FailedExited(r)
  <2>1. [call[r] EXCEPT !.pc = "ensure"] \in Call
    BY <1>0 DEF Call
  <2> QED
    BY <1>4, <2>1 DEF FailedExited, TypeOK, supervisor
<1> QED
  BY <1>1, <1>2, <1>3, <1>4 DEF Steering

LEMMA TerminateType ==
    ASSUME TypeOK, NEW h \in Hosts, Terminate(h)
    PROVE  /\ actor' \in [Hosts -> {"none", "open", "closed"}]
           /\ line' \in [Hosts -> Seq(Requests)]
<1>1. <<>> \in Seq(Requests)
  OBVIOUS
<1> QED
  BY <1>1 DEF TypeOK, Terminate

(* The n-th in line expires.                                                *)
Expires(r, h, n, abort) ==
    /\ line[h][n] = r
    /\ n = 1 => /\ Terminate(h)
                /\ call' = [Disconnected(h) EXCEPT ![r].aborted = abort]
                /\ proc' = [proc EXCEPT ![h].term = TRUE]
    /\ n # 1 => /\ line' = [line EXCEPT ![h] = Without(h, n)]
                /\ call' = [call EXCEPT ![r] = Settle([@ EXCEPT !.aborted = abort], "definite")]
                /\ UNCHANGED <<actor, proc>>

LEMMA ExpireCases ==
    ASSUME NEW r \in Requests, NEW abort \in BOOLEAN, Expire(r, abort)
    PROVE  \E n \in DOMAIN line[call[r].h] : Expires(r, call[r].h, n, abort)
  BY DEF Expire, Expires

LEMMA ExpireType ==
    ASSUME HelperInv, NEW r \in Requests, NEW abort \in BOOLEAN, Expire(r, abort)
    PROVE  TypeOK'
<1> DEFINE h == call[r].h
<1>0. TypeOK /\ call[r] \in Call /\ h \in Hosts
  BY HostAssumption DEF HelperInv, TypeOK, Call, Expire, InLineOnce, Hosts
<1>1. UNCHANGED <<supervisor, posted>>
  BY DEF Expire
<1>2. PICK n \in DOMAIN line[h] : Expires(r, h, n, abort)
  BY ExpireCases
<1> HIDE DEF h
<1>3. CASE n = 1
  <2>1. [Disconnected(h)[r] EXCEPT !.aborted = abort] \in Call
    BY <1>0, DisconnectedResult DEF Call
  <2>2. call' \in [Requests -> Call]
    BY <1>0, <1>2, <1>3, <2>1, DisconnectedResult DEF Expires
  <2>3. [proc[h] EXCEPT !.term = TRUE] \in Process
    BY <1>0, HostTypes DEF Process
  <2>4. proc' \in [Hosts -> Process]
    BY <1>0, <1>2, <1>3, <2>3 DEF Expires, TypeOK
  <2>5. Terminate(h)
    BY <1>2, <1>3 DEF Expires
  <2> QED
    BY <1>0, <1>1, <2>2, <2>4, <2>5, TerminateType DEF TypeOK, supervisor
<1>4. CASE n # 1
  <2>1. [call[r] EXCEPT !.aborted = abort] \in Call /\ "definite" \in Outcome
    BY <1>0 DEF Call, Outcome
  <2>2. Settle([call[r] EXCEPT !.aborted = abort], "definite") \in Call
    BY <2>1, SettleResult
  <2>3. /\ call' = [call EXCEPT ![r] = Settle([@ EXCEPT !.aborted = abort], "definite")]
        /\ line' = [line EXCEPT ![h] = Without(h, n)]
        /\ UNCHANGED <<actor, proc>>
    BY <1>2, <1>4 DEF Expires
  <2>4. n \in 2 .. Len(line[h])
    BY <1>0, <1>4 DEF TypeOK
  <2>5. line' \in [Hosts -> Seq(Requests)]
    BY <1>0, <2>3, <2>4, WithoutResult DEF TypeOK
  <2> QED
    BY <1>0, <1>1, <2>2, <2>3, <2>5 DEF TypeOK, supervisor
<1> QED
  BY <1>3, <1>4

(* A request that the helper works on is the head of its open host's line.  *)
LEMMA RunsHead ==
    ASSUME HelperInv, NEW h \in Hosts, proc[h].stage # "idle"
    PROVE  /\ proc[h].run \in Requests /\ proc[h].run # NoReq
           /\ actor[h] = "open" => /\ line[h] # <<>> /\ Head(line[h]) = proc[h].run
                                  /\ proc[h].inbox = NoReq
<1>1. HeadWritten(h) /\ proc[h].run \in Requests \cup {NoReq}
  BY HostTypes DEF HelperInv
<1> QED
  BY <1>1 DEF HeadWritten

LEMMA ReplyType ==
    ASSUME HelperInv, NEW h \in Hosts, proc[h].stage # "idle", NEW e \in Outcome, Reply(h, e)
    PROVE  /\ call' \in [Requests -> Call] /\ line' \in [Hosts -> Seq(Requests)]
           /\ proc' \in [Hosts -> Process]
<1> DEFINE p == [proc[h] EXCEPT !.run = NoReq, !.stage = "idle"]
<1>0. TypeOK /\ proc[h] \in Process
  BY HostTypes DEF HelperInv
<1>1. p \in Process
  BY <1>0 DEF Process
<1>2. proc[h].run \in Requests
  BY RunsHead
<1>3. CASE actor[h] = "open"
  <2>1. line[h] # <<>> /\ line[h] \in Seq(Requests)
    BY <1>0, <1>3, RunsHead, HostTypes
  <2>2. Tail(line[h]) \in Seq(Requests)
    BY <2>1, HeadTailProperties
  <2>3. Settle(call[proc[h].run], e) \in Call
    BY <1>0, <1>2, SettleResult, RequestTypes
  <2>4. Pump(p, Tail(line[h])) \in Process
    <3>1. CASE Tail(line[h]) # <<>> /\ Head(Tail(line[h])) # p.run
      <4>1. Head(Tail(line[h])) \in Requests
        BY <2>2, <3>1, HeadTailProperties
      <4> QED
        BY <1>1, <3>1, <4>1 DEF Pump, Process
    <3>2. CASE ~(Tail(line[h]) # <<>> /\ Head(Tail(line[h])) # p.run)
      BY <1>1, <3>2 DEF Pump
    <3> QED
      BY <3>1, <3>2
  <2> QED
    <3>1. line' = [line EXCEPT ![h] = Tail(@)]
      BY <1>3 DEF Reply
    <3>2. call' = [call EXCEPT ![proc[h].run] = Settle(@, e)]
      BY <1>3 DEF Reply
    <3>3. proc' = [proc EXCEPT ![h] = Pump(p, Tail(line[h]))]
      BY <1>3 DEF Reply
    <3> HIDE DEF p
    <3> QED
      BY <1>0, <1>2, <2>2, <2>3, <2>4, <3>1, <3>2, <3>3 DEF TypeOK
<1>4. CASE actor[h] # "open"
  BY <1>0, <1>1, <1>4 DEF Reply, TypeOK
<1> QED
  BY <1>3, <1>4

LEMMA AnswerCases ==
    ASSUME HelperInv, NEW h \in Hosts, Answering(h)
    PROVE  /\ proc[h].alive /\ proc[h].stage # "idle"
           /\ \/ Reply(h, "ok") \/ Reply(h, "unknown")
              \/ Reply(h, "definite") /\ proc[h].stage = "read"
           /\ UNCHANGED <<supervisor, actor, posted>>
<1>1. CASE HelperAnswers(h)
  BY <1>1 DEF HelperAnswers
<1>2. CASE HelperReleases(h)
  BY <1>2 DEF HelperReleases
<1> QED
  BY <1>1, <1>2 DEF Answering

LEMMA HelperType ==
    ASSUME HelperInv, NEW h \in Hosts,
           HelperReads(h) \/ Answering(h) \/ HelperPosts(h) \/ BadReply(h) \/ Exiting(h)
    PROVE  TypeOK'
<1>0. TypeOK /\ proc[h] \in Process
  BY HostTypes DEF HelperInv
<1>1. CASE HelperReads(h)
  <2>1. [proc[h] EXCEPT !.run = proc[h].inbox, !.inbox = NoReq, !.stage = "read"] \in Process
    BY <1>0 DEF Process
  <2>2. proc' = [proc EXCEPT ![h] = [proc[h] EXCEPT !.run = proc[h].inbox, !.inbox = NoReq,
                                                    !.stage = "read"]]
    BY <1>0, <1>1 DEF HelperReads, TypeOK
  <2>3. proc' \in [Hosts -> Process]
    BY <1>0, <2>1, <2>2 DEF TypeOK
  <2> QED
    BY <1>0, <1>1, <2>3 DEF HelperReads, TypeOK, supervisor
<1>2. CASE Answering(h)
  <2>1. Reply(h, "ok") \/ Reply(h, "unknown") \/ Reply(h, "definite")
    BY <1>2, AnswerCases
  <2>2. proc[h].stage # "idle" /\ UNCHANGED <<supervisor, actor, posted>>
    BY <1>2, AnswerCases
  <2> QED
    BY <1>0, <2>1, <2>2, ReplyType DEF TypeOK, supervisor, Outcome
<1>3. CASE HelperPosts(h)
  <2>1. [proc[h] EXCEPT !.stage = "down"] \in Process
    BY <1>0 DEF Process
  <2>2. proc[h].run \in Requests
    BY <1>3, RunsHead DEF HelperPosts
  <2>3. posted' \in [Requests -> Nat]
    BY <1>0, <1>3, <2>2 DEF HelperPosts, TypeOK
  <2>4. proc' \in [Hosts -> Process]
    BY <1>0, <1>3, <2>1 DEF HelperPosts, TypeOK
  <2> QED
    BY <1>0, <1>3, <2>3, <2>4 DEF HelperPosts, TypeOK, supervisor
<1>4. CASE BadReply(h)
  <2>1. [proc[h] EXCEPT !.run = NoReq, !.stage = "idle", !.term = TRUE] \in Process
    BY <1>0 DEF Process
  <2>2. proc' = [proc EXCEPT ![h] = [proc[h] EXCEPT !.run = NoReq, !.stage = "idle",
                                                    !.term = TRUE]]
    BY <1>0, <1>4 DEF BadReply, TypeOK
  <2>3. proc' \in [Hosts -> Process]
    BY <1>0, <2>1, <2>2 DEF TypeOK
  <2> QED
    BY <1>0, <1>4, <2>3, TerminateType, DisconnectedResult DEF BadReply, TypeOK, supervisor
<1>5. CASE Exiting(h)
  <2>1. Gone(h)
    BY <1>5 DEF Exiting, HelperExits, HelperKilled, HelperCrashes
  <2>2. proc' \in [Hosts -> Process]
    BY <1>0, <2>1 DEF Gone, NoProcess, Process, TypeOK
  <2>3. CASE actor[h] = "open"
    BY <1>0, <2>1, <2>2, <2>3, TerminateType, DisconnectedResult DEF Gone, TypeOK, supervisor
  <2>4. CASE actor[h] # "open"
    BY <1>0, <2>1, <2>2, <2>4 DEF Gone, TypeOK, supervisor
  <2> QED
    BY <2>3, <2>4
<1> QED
  BY <1>1, <1>2, <1>3, <1>4, <1>5

LEMMA RejectType ==
    ASSUME TypeOK, RejectWaiting
    PROVE  call' \in [Requests -> Call]
<1>1. ASSUME NEW r \in Requests
      PROVE  [call[r] EXCEPT !.pc = "answered", !.error = "definite"] \in Call
  BY RequestTypes DEF Call
<1> QED
  BY <1>1 DEF RejectWaiting, TypeOK

(* A launch that is past the exit of the old process has a process.         *)
LEMMA LaunchHost ==
    ASSUME HelperInv, launch.stage \in {"hello", "failed"}
    PROVE  launch.h \in Hosts
  BY HostAssumption DEF HelperInv, TypeOK, LaunchAlone, Hosts

LEMMA LaunchingType ==
    ASSUME HelperInv, Launching
    PROVE  TypeOK'
<1>0. TypeOK
  BY DEF HelperInv
<1>1. CASE LaunchSpawns /\ open /\ spawned < MaxHosts
  <2>1. spawned + 1 \in Hosts /\ spawned + 1 \in 0..MaxHosts
    BY <1>0, <1>1, HostAssumption DEF TypeOK, Hosts
  <2>2. [proc[spawned + 1] EXCEPT !.alive = TRUE] \in Process
    BY <1>0, <2>1, HostTypes DEF Process
  <2>3. proc' \in [Hosts -> Process]
    BY <1>0, <1>1, <2>1, <2>2 DEF LaunchSpawns, TypeOK
  <2>4. /\ launch' \in [stage : {"none", "exit", "hello", "failed"}, h : 0..spawned']
        /\ host' \in 0..spawned'
    BY <1>0, <1>1, <2>1 DEF LaunchSpawns, TypeOK
  <2> QED
    BY <1>0, <1>1, <2>1, <2>3, <2>4 DEF LaunchSpawns, TypeOK
<1>2. CASE LaunchSpawns /\ ~(open /\ spawned < MaxHosts)
  BY <1>0, <1>2, RejectType DEF LaunchSpawns, TypeOK, NoLaunch
<1>3. CASE LaunchReady
  <2>1. \A r \in Requests : [call[r] EXCEPT !.pc = "ensure"] \in Call
    BY <1>0, RequestTypes DEF Call
  <2>2. call' \in [Requests -> Call]
    BY <1>0, <1>3, <2>1 DEF LaunchReady, TypeOK
  <2> QED
    BY <1>0, <1>3, <2>2 DEF LaunchReady, TypeOK, NoLaunch
<1>4. CASE LaunchFails
  <2>1. launch.h \in Hosts
    BY <1>4, LaunchHost DEF LaunchFails
  <2>2. [proc[launch.h] EXCEPT !.kill = TRUE, !.term = TRUE] \in Process
    BY <1>0, <2>1, HostTypes DEF Process
  <2>3. proc' = [proc EXCEPT ![launch.h] = [proc[launch.h] EXCEPT !.kill = TRUE, !.term = TRUE]]
    BY <1>0, <1>4, <2>1 DEF LaunchFails, TypeOK
  <2>4. proc' \in [Hosts -> Process]
    BY <1>0, <2>2, <2>3 DEF TypeOK
  <2>5. launch' \in [stage : {"none", "exit", "hello", "failed"}, h : 0..spawned]
    BY <1>0, <1>4 DEF LaunchFails, TypeOK
  <2> QED
    BY <1>0, <1>4, <2>4, <2>5 DEF LaunchFails, TypeOK
<1>5. CASE LaunchFailed
  BY <1>0, <1>5, RejectType DEF LaunchFailed, TypeOK, NoLaunch
<1> QED
  BY <1>1, <1>2, <1>3, <1>4, <1>5 DEF Launching

LEMMA CloseType ==
    ASSUME HelperInv, Close
    PROVE  TypeOK'
<1>0. TypeOK
  BY DEF HelperInv
<1>1. CASE host = 0
  BY <1>0, <1>1 DEF Close, TypeOK
<1>2. CASE host # 0
  <2>1. host \in Hosts
    BY <1>0, <1>2, HostAssumption DEF TypeOK, Hosts
  <2>2. [proc[host] EXCEPT !.kill = TRUE, !.term = TRUE] \in Process
    BY <1>0, <2>1, HostTypes DEF Process
  <2>3. proc' = [proc EXCEPT ![host] = [proc[host] EXCEPT !.kill = TRUE, !.term = TRUE]]
    BY <1>0, <1>2, <2>1 DEF Close, TypeOK
  <2>4. proc' \in [Hosts -> Process]
    BY <1>0, <2>2, <2>3 DEF TypeOK
  <2> QED
    <3>1. Terminate(host) /\ call' = Disconnected(host)
      BY <1>2 DEF Close
    <3>2. /\ call' \in [Requests -> Call] /\ line' \in [Hosts -> Seq(Requests)]
          /\ actor' \in [Hosts -> {"none", "open", "closed"}]
      BY <1>0, <2>1, <3>1, TerminateType, DisconnectedResult
    <3>3. /\ open' = FALSE /\ host' = 0 /\ launch' = launch /\ spawned' = spawned
          /\ posted' = posted
      BY DEF Close
    <3> QED
      BY <1>0, <2>4, <3>2, <3>3, 0 \in 0..spawned DEF TypeOK
<1> QED
  BY <1>1, <1>2

-----------------------------------------------------------------------------
(* One helper                                                               *)

(* A step that starts no process and moves no launch.                       *)
StartsNone ==
    /\ UNCHANGED <<launch, spawned>>
    /\ open' => open
    /\ launch.stage = "none" /\ open' => host' = host
    /\ launch.stage # "none" => host' = 0
    /\ \A h \in Hosts : proc'[h].alive => proc[h].alive
    /\ \A h \in Hosts : h > spawned => actor'[h] = actor[h] /\ proc'[h] = proc[h]

LEMMA AliveKept ==
    ASSUME HelperInv, StartsNone
    PROVE  LaunchAlone' /\ OneHelper'
<1>1. LaunchAlone /\ OneHelper
  BY DEF HelperInv
<1>2. OneHelper'
  BY <1>1 DEF StartsNone, OneHelper
<1>3. launch.stage # "none" => host' = 0 /\ \A h \in Hosts : proc'[h].alive => h = launch.h
  BY <1>1 DEF StartsNone, LaunchAlone
<1>4. launch.stage = "none" /\ open' => \A h \in Hosts : proc'[h].alive => h = host'
  BY <1>1 DEF StartsNone, LaunchAlone
<1>5. \A h \in Hosts : h > spawned' => actor'[h] = "none" /\ proc'[h] = NoProcess
  BY <1>1 DEF StartsNone, LaunchAlone
<1>6. /\ launch.stage \in {"hello", "failed"} => launch.h # 0
      /\ launch.stage = "none" => launch = NoLaunch
  BY <1>1 DEF LaunchAlone
<1>7. NoLaunch' = NoLaunch
  BY DEF NoLaunch
<1> QED
  BY <1>2, <1>3, <1>4, <1>5, <1>6, <1>7 DEF StartsNone, LaunchAlone

(* A host that is open, or whose process is alive or busy, was spawned.     *)
LEMMA Spawned ==
    ASSUME HelperInv, NEW h \in Hosts,
           actor[h] # "none" \/ proc[h].alive \/ proc[h].stage # "idle" \/ line[h] # <<>>
    PROVE  h <= spawned
<1>1. h > spawned => actor[h] = "none" /\ proc[h] = NoProcess
  BY DEF HelperInv, LaunchAlone
<1>2. h > spawned => ~proc[h].alive /\ proc[h].stage = "idle"
  BY <1>1 DEF NoProcess
<1>3. actor[h] # "open" => line[h] = <<>>
  BY DEF HelperInv, HeadWritten
<1>4. h \in Nat /\ spawned \in Nat
  BY HostAssumption DEF HelperInv, TypeOK, Hosts
<1> QED
  BY <1>1, <1>2, <1>3, <1>4

LEMMA SteeringAlone ==
    ASSUME HelperInv, NEW r \in Requests, Steering(r)
    PROVE  LaunchAlone' /\ OneHelper'
<1>0. TypeOK /\ LaunchAlone /\ OneHelper
  BY DEF HelperInv
<1>1. CASE Request(r) \/ FailedExited(r)
  BY <1>0, <1>1, AliveKept DEF Request, FailedExited, supervisor, StartsNone, LaunchAlone
<1>2. CASE EnsureHost(r)
  <2>1. CASE ~open
    BY <1>0, <1>2, <2>1, AliveKept DEF EnsureHost, StartsNone, LaunchAlone
  <2>2. CASE open /\ host # 0 /\ actor[host] = "open"
    <3>0. host \in Hosts /\ spawned \in Nat /\ \A h \in Hosts : h \in Nat
      BY <1>0, <2>2, HostAssumption DEF TypeOK, Hosts
    <3>1. UNCHANGED <<open, host, launch, spawned, actor>>
      BY <1>2, <2>2 DEF EnsureHost
    <3>2. \A h \in Hosts : proc'[h] = proc[h] \/ (h = host /\ proc'[h] = [proc[h] EXCEPT !.inbox = r])
      BY <1>0, <1>2, <2>2, <3>0 DEF EnsureHost, Submit, TypeOK
    <3>3. \A h \in Hosts : proc'[h].alive => proc[h].alive
      BY <1>0, <3>2, HostTypes DEF Process
    <3>4. \A h \in Hosts : h > spawned => proc'[h] = proc[h]
      <4>1. \A h \in Hosts : h > spawned => h # host
        BY <1>0, <3>0 DEF TypeOK
      <4> QED
        BY <3>2, <4>1
    <3>5. StartsNone
      BY <1>0, <3>1, <3>3, <3>4 DEF StartsNone, LaunchAlone
    <3> QED
      BY <3>5, AliveKept
  <2>3. CASE open /\ ~(host # 0 /\ actor[host] = "open")
    <3>0. host # 0 => host \in Hosts
      BY <1>0, HostAssumption DEF TypeOK, Hosts
    <3>1. /\ UNCHANGED <<open, spawned, actor>> /\ host' = 0
          /\ launch' = IF launch = NoLaunch THEN [stage |-> "exit", h |-> host] ELSE launch
          /\ proc' = IF host = 0 THEN proc ELSE [proc EXCEPT ![host].kill = TRUE]
      BY <1>2, <2>3 DEF EnsureHost
    <3>2. \A h \in Hosts : proc'[h] = proc[h] \/ (h = host /\ proc'[h] = [proc[h] EXCEPT !.kill = TRUE])
      BY <1>0, <3>0, <3>1 DEF TypeOK
    <3>3. \A h \in Hosts : proc'[h].alive = proc[h].alive
      BY <1>0, <3>2, HostTypes DEF Process
    <3>4. \A h \in Hosts : h > spawned => actor'[h] = "none" /\ proc'[h] = NoProcess
      <4>1. spawned \in Nat /\ host <= spawned /\ \A h \in Hosts : h \in Nat
        BY <1>0, HostAssumption DEF TypeOK, Hosts
      <4>2. \A h \in Hosts : h > spawned => h # host
        BY <1>0, <4>1 DEF TypeOK
      <4> QED
        BY <1>0, <3>1, <3>2, <4>2 DEF LaunchAlone
    <3>5. CASE launch.stage = "none"
      <4>1. \A h \in Hosts : proc[h].alive => h = host
        BY <1>0, <2>3, <3>5 DEF LaunchAlone
      <4>2. CASE launch = NoLaunch
        <5>1. launch'.stage = "exit" /\ launch'.h = host
          BY <3>1, <4>2
        <5> QED
          BY <1>0, <3>1, <3>3, <3>4, <4>1, <5>1 DEF LaunchAlone, OneHelper
      <4>3. launch = NoLaunch
        BY <1>0, <3>5 DEF LaunchAlone
      <4> QED
        BY <4>2, <4>3
    <3>6. CASE launch.stage # "none"
      <4>1. launch' = launch
        BY <3>1, <3>6 DEF NoLaunch
      <4> QED
        BY <1>0, <3>1, <3>3, <3>4, <3>6, <4>1 DEF LaunchAlone, OneHelper
    <3> QED
      BY <3>5, <3>6
  <2> QED
    BY <2>1, <2>2, <2>3
<1>3. CASE Caught(r)
  <2>1. UNCHANGED <<open, host, launch, spawned, actor>>
    BY <1>3 DEF Caught, supervisor
  <2>2. proc' = proc \/ (/\ actor[call[r].h] = "closed"
                         /\ proc' = [proc EXCEPT ![call[r].h].kill = @ \/ host # call[r].h])
    BY <1>3 DEF Caught
  <2>3. \A h \in Hosts : proc'[h].alive => proc[h].alive
    <3> SUFFICES ASSUME NEW h \in Hosts PROVE proc'[h].alive => proc[h].alive
      OBVIOUS
    <3> DEFINE b == proc[h].kill \/ host # h
    <3>1. proc'[h] = proc[h] \/ proc'[h] = [proc[h] EXCEPT !.kill = b]
      BY <1>0, <2>2 DEF TypeOK
    <3> HIDE DEF b
    <3>2. proc[h] \in Process
      BY <1>0, HostTypes
    <3> QED
      BY <3>1, <3>2 DEF Process
  <2>4. \A h \in Hosts : actor[h] = "none" => proc'[h] = proc[h]
    BY <1>0, <2>2 DEF TypeOK
  <2> QED
    <3>1. \A h \in Hosts : h > spawned => actor[h] = "none"
      BY <1>0 DEF LaunchAlone
    <3>2. \A h \in Hosts : h > spawned => actor'[h] = actor[h] /\ proc'[h] = proc[h]
      BY <2>1, <2>4, <3>1
    <3>3. launch.stage # "none" => host = 0
      BY <1>0 DEF LaunchAlone
    <3>4. StartsNone
      BY <2>1, <2>3, <3>2, <3>3 DEF StartsNone
    <3> QED
      BY <3>4, AliveKept
<1> QED
  BY <1>1, <1>2, <1>3 DEF Steering

LEMMA HelperAlone ==
    ASSUME HelperInv, NEW h \in Hosts,
           /\ UNCHANGED supervisor
           /\ \A g \in Hosts : g # h => actor'[g] = actor[g] /\ proc'[g] = proc[g]
           /\ proc'[h].alive => proc[h].alive
           /\ h <= spawned
    PROVE  LaunchAlone' /\ OneHelper'
<1>1. \A g \in Hosts : g > spawned => g # h
  BY HostAssumption DEF HelperInv, TypeOK, Hosts
<1> QED
  BY <1>1, AliveKept DEF HelperInv, LaunchAlone, StartsNone, supervisor

LEMMA LaunchingAlone ==
    ASSUME HelperInv, Launching
    PROVE  LaunchAlone' /\ OneHelper'
<1>0. /\ TypeOK /\ LaunchAlone /\ OneHelper /\ NoLaunch' = NoLaunch
      /\ spawned \in Nat /\ \A h \in Hosts : h \in Nat
  BY HostAssumption DEF HelperInv, NoLaunch, TypeOK, Hosts
<1>1. CASE LaunchSpawns
  <2>1. \A h \in Hosts : ~proc[h].alive
    BY <1>0, <1>1 DEF LaunchSpawns, MayLaunch, LaunchAlone
  <2>2. CASE open /\ spawned < MaxHosts
    <3>1. spawned + 1 \in Hosts
      BY <1>0, <2>2, HostAssumption DEF TypeOK, Hosts
    <3>2. proc' = [proc EXCEPT ![spawned + 1].alive = TRUE]
          /\ actor' = [actor EXCEPT ![spawned + 1] = "open"]
      BY <1>1, <2>2 DEF LaunchSpawns
    <3>3. /\ launch' = [stage |-> "hello", h |-> spawned + 1] /\ spawned' = spawned + 1
          /\ host' = host /\ launch.stage = "exit"
      BY <1>1, <2>2 DEF LaunchSpawns
    <3>4. \A h \in Hosts : h # spawned + 1 => proc'[h] = proc[h] /\ actor'[h] = actor[h]
      BY <1>0, <3>2 DEF TypeOK
    <3>5. \A h \in Hosts : proc'[h].alive => h = spawned + 1
      BY <2>1, <3>4
    <3>6. \A h \in Hosts : h > spawned + 1 => actor'[h] = "none" /\ proc'[h] = NoProcess
      <4>1. \A h \in Hosts : h > spawned + 1 => h > spawned /\ h # spawned + 1
        BY <1>0
      <4>2. \A h \in Hosts : h > spawned => actor[h] = "none" /\ proc[h] = NoProcess
        BY <1>0 DEF LaunchAlone
      <4> QED
        BY <3>4, <4>1, <4>2
    <3>7. OneHelper'
      BY <3>5 DEF OneHelper
    <3>8. launch'.stage = "hello" /\ launch'.h = spawned + 1 /\ spawned + 1 # 0 /\ host' = 0
      BY <1>0, <3>3 DEF LaunchAlone
    <3> QED
      BY <3>3, <3>5, <3>6, <3>7, <3>8 DEF LaunchAlone
  <2>3. CASE ~(open /\ spawned < MaxHosts)
    <3>1. UNCHANGED <<open, host, actor, proc, spawned>> /\ launch' = NoLaunch
      BY <1>1, <2>3 DEF LaunchSpawns
    <3> QED
      BY <1>0, <2>1, <3>1 DEF LaunchAlone, OneHelper, NoLaunch
  <2> QED
    BY <2>2, <2>3
<1>2. CASE LaunchReady
  <2>1. UNCHANGED <<open, actor, proc, spawned>> /\ launch' = NoLaunch /\ host' = launch.h
    BY <1>2 DEF LaunchReady
  <2>2. \A h \in Hosts : proc[h].alive => h = launch.h
    BY <1>0, <1>2 DEF LaunchReady, LaunchAlone
  <2>3. \A h \in Hosts : h > spawned => actor[h] = "none" /\ proc[h] = NoProcess
    BY <1>0 DEF LaunchAlone
  <2>4. NoLaunch.stage = "none" /\ OneHelper'
    BY <1>0, <2>1 DEF NoLaunch, OneHelper
  <2> QED
    BY <1>0, <2>1, <2>2, <2>3, <2>4 DEF LaunchAlone
<1>3. CASE LaunchFails
  <2>1. launch.h \in Hosts /\ launch.h \in 0..spawned
    BY <1>0, <1>3, LaunchHost DEF LaunchFails, TypeOK
  <2>2. \A h \in Hosts : h # launch.h => actor'[h] = actor[h] /\ proc'[h] = proc[h]
    BY <1>0, <1>3, <2>1 DEF LaunchFails, TypeOK
  <2>3. proc'[launch.h].alive = proc[launch.h].alive
    BY <1>0, <1>3, <2>1, HostTypes DEF LaunchFails, TypeOK, Process
  <2>4. launch' = [launch EXCEPT !.stage = "failed"] /\ UNCHANGED <<open, host, spawned>>
    BY <1>3 DEF LaunchFails
  <2>5. launch'.stage = "failed" /\ launch'.h = launch.h
    BY <1>0, <2>4 DEF TypeOK
  <2>6. \A h \in Hosts : proc'[h].alive = proc[h].alive
    BY <2>2, <2>3
  <2>7. \A h \in Hosts : h > spawned => actor'[h] = "none" /\ proc'[h] = NoProcess
    <3>1. \A h \in Hosts : h > spawned => h # launch.h
      BY <1>0, <2>1
    <3>2. \A h \in Hosts : h > spawned => actor[h] = "none" /\ proc[h] = NoProcess
      BY <1>0 DEF LaunchAlone
    <3> QED
      BY <2>2, <3>1, <3>2
  <2>8. launch.h # 0 /\ host = 0 /\ \A h \in Hosts : proc[h].alive => h = launch.h
    BY <1>0, <1>3 DEF LaunchFails, LaunchAlone
  <2>9. OneHelper'
    BY <1>0, <2>6 DEF OneHelper
  <2> QED
    BY <2>4, <2>5, <2>6, <2>7, <2>8, <2>9 DEF LaunchAlone
<1>4. CASE LaunchFailed
  <2>1. UNCHANGED <<open, host, actor, proc, spawned>> /\ launch' = NoLaunch
    BY <1>4 DEF LaunchFailed
  <2>2. \A h \in Hosts : ~proc[h].alive
    BY <1>0, <1>4 DEF LaunchFailed, LaunchAlone
  <2> QED
    BY <1>0, <2>1, <2>2 DEF LaunchAlone, OneHelper, NoLaunch
<1> QED
  BY <1>1, <1>2, <1>3, <1>4 DEF Launching

LEMMA CloseAlone ==
    ASSUME HelperInv, Close
    PROVE  LaunchAlone' /\ OneHelper'
<1>0. TypeOK /\ LaunchAlone
  BY DEF HelperInv
<1>1. open' = FALSE /\ host' = 0 /\ UNCHANGED <<launch, spawned>> /\ open
  BY DEF Close
<1>2. \A h \in Hosts : h # host => actor'[h] = actor[h] /\ proc'[h] = proc[h]
  BY <1>0 DEF Close, Terminate, TypeOK
<1>3. \A h \in Hosts : proc'[h].alive => proc[h].alive
  <2>1. CASE host = 0
    BY <2>1 DEF Close
  <2>2. CASE host # 0
    <3>1. proc' = [proc EXCEPT ![host].kill = TRUE, ![host].term = TRUE]
      BY <2>2 DEF Close
    <3> QED
      BY <1>0, <3>1, HostTypes DEF TypeOK, Process
  <2> QED
    BY <2>1, <2>2
<1>4. \A h \in Hosts : h > spawned => h # host
  BY <1>0, HostAssumption DEF TypeOK, Hosts
<1>5. StartsNone
  BY <1>1, <1>2, <1>3, <1>4 DEF StartsNone
<1> QED
  BY <1>5, AliveKept

-----------------------------------------------------------------------------
(* The lines of the hosts and what was posted                               *)

LinesHold ==
    /\ InLineOnce
    /\ \A h \in Hosts : HeadWritten(h)
    /\ \A r \in Requests \ Mutating : posted[r] = 0
    /\ \A r \in Mutating : PostingKnown(r)

(* A host and its process stay as they are, but for the order to kill it.   *)
Stays(h) ==
    /\ actor'[h] = actor[h] /\ line'[h] = line[h]
    /\ proc'[h].run = proc[h].run /\ proc'[h].inbox = proc[h].inbox
    /\ proc'[h].stage = proc[h].stage /\ proc'[h].term = proc[h].term
    /\ proc'[h].alive = proc[h].alive

SameCall(r) ==
    /\ call'[r].pc = call[r].pc /\ call'[r].h = call[r].h
    /\ call'[r].retry = call[r].retry /\ call'[r].error = call[r].error

LEMMA HeadStays ==
    ASSUME NEW h \in Hosts, HeadWritten(h), Stays(h)
    PROVE  HeadWritten(h)'
  BY DEF HeadWritten, Stays

LEMMA PostingStays ==
    ASSUME NEW r, PostingKnown(r), posted'[r] = posted[r], SameCall(r),
           call[r].pc = "pending" /\ Pressed(r) => Pressed(r)'
    PROVE  PostingKnown(r)'
  BY DEF PostingKnown, SameCall

(* A request that settles: its error tells of what was posted.              *)
Settles(r) ==
    /\ call'[r].pc \in Settled /\ call'[r].retry = call[r].retry
    /\ call'[r].pc = "caught" => ~call[r].retry
    /\ call'[r].pc = "caught" /\ call'[r].error = "definite" => posted[r] = 0

LEMMA PostingSettles ==
    ASSUME NEW r, PostingKnown(r), posted'[r] = posted[r], Settles(r)
    PROVE  PostingKnown(r)'
  BY DEF PostingKnown, Settles, Settled

(* A request that is pressed is the head of its line.                       *)
LEMMA PressedHead ==
    ASSUME HelperInv, NEW r \in Requests, NEW h \in Hosts,
           actor[h] = "open", proc[h].run = r, proc[h].stage # "idle"
    PROVE  line[h] # <<>> /\ Head(line[h]) = r /\ InLine(r, h) /\ call[r].h = h
           /\ call[r].pc = "pending"
<1>1. line[h] # <<>> /\ Head(line[h]) = r
  BY RunsHead
<1>2. TypeOK /\ InLineOnce
  BY DEF HelperInv
<1>3. InLine(r, h)
  BY <1>1, <1>2, HeadInLine
<1> QED
  BY <1>1, <1>2, <1>3, InLineMeans

(* A host ends: its requests are settled, and its process, if it is still   *)
(* there, is told to stop.                                                  *)
Disconnects(h) ==
    \A r \in Requests :
        /\ call'[r].pc = Disconnected(h)[r].pc /\ call'[r].h = Disconnected(h)[r].h
        /\ call'[r].retry = Disconnected(h)[r].retry
        /\ call'[r].error = Disconnected(h)[r].error

Ends(h) ==
    /\ Terminate(h) /\ Disconnects(h) /\ posted' = posted
    /\ \A g \in Hosts : g # h => proc'[g] = proc[g]
    /\ proc'[h].run = NoReq <=> proc'[h].stage = "idle"
    /\ proc'[h].alive => proc'[h].term

LEMMA EndSettles ==
    ASSUME HelperInv, NEW h \in Hosts, Ends(h), NEW r \in Requests
    PROVE  /\ ~InLine(r, h) => SameCall(r)
           /\ InLine(r, h) =>
                /\ call'[r].pc \in Settled /\ call'[r].retry = call[r].retry
                /\ call'[r].pc = "caught" => ~call[r].retry
                /\ call'[r].error = IF r = Head(line[h]) /\ r \in Mutating
                                    THEN "unknown" ELSE "definite"
<1>0. TypeOK /\ call[r] \in Call
  BY RequestTypes DEF HelperInv
<1>1. CASE ~InLine(r, h)
  <2>1. Disconnected(h)[r] = call[r]
    BY <1>0, <1>1, DisconnectedResult
  <2> QED
    BY <1>1, <2>1 DEF Ends, Disconnects, SameCall
<1>2. CASE InLine(r, h)
  <2> DEFINE e == IF r = Head(line[h]) /\ r \in Mutating THEN "unknown" ELSE "definite"
  <2>1. e \in Outcome
    BY DEF Outcome
  <2>2. Disconnected(h)[r] = Settle(call[r], e)
    BY <1>0, <1>2, DisconnectedResult
  <2> HIDE DEF e
  <2>3. /\ Settle(call[r], e).retry = call[r].retry /\ Settle(call[r], e).error = e
        /\ Settle(call[r], e).pc \in Settled
        /\ Settle(call[r], e).pc = "caught" => ~call[r].retry
    BY <1>0, <2>1, SettleResult
  <2> QED
    BY <1>2, <2>2, <2>3 DEF Ends, Disconnects, e
<1> QED
  BY <1>1, <1>2

LEMMA Ending ==
    ASSUME HelperInv, NEW h \in Hosts, Ends(h)
    PROVE  LinesHold'
<1>0. /\ TypeOK /\ InLineOnce /\ \A g \in Hosts : HeadWritten(g)
      /\ \A r \in Mutating : PostingKnown(r)
  BY DEF HelperInv
<1>1. /\ actor'[h] = "closed" /\ line'[h] = <<>>
      /\ \A g \in Hosts : g # h => actor'[g] = actor[g] /\ line'[g] = line[g]
  BY <1>0 DEF Ends, Terminate, TypeOK
<1>2. \A g \in Hosts : g # h => Stays(g)
  BY <1>1 DEF Ends, Stays
<1>3. HeadWritten(h)'
  BY <1>1 DEF Ends, HeadWritten
<1>4. \A g \in Hosts : HeadWritten(g)'
  BY <1>0, <1>2, <1>3, HeadStays
<1>5. InLineOnce'
  <2>1. ASSUME NEW r \in Requests, call'[r].pc = "pending" PROVE call'[r].h # 0
    <3>1. ~InLine(r, h)
      BY <2>1, EndSettles DEF Settled
    <3>2. SameCall(r)
      BY <3>1, EndSettles
    <3> QED
      BY <1>0, <2>1, <3>2 DEF SameCall, InLineOnce
  <2>2. ASSUME NEW g \in Hosts, NEW n \in DOMAIN line'[g]
        PROVE  /\ call'[line'[g][n]].pc = "pending" /\ call'[line'[g][n]].h = g
               /\ \A m \in DOMAIN line'[g] : line'[g][m] = line'[g][n] => m = n
    <3>1. g # h
      BY <1>1, <2>2
    <3>2. line'[g] = line[g] /\ n \in DOMAIN line[g] /\ line[g][n] \in Requests
      BY <1>0, <1>1, <2>2, <3>1 DEF TypeOK
    <3>3. call[line[g][n]].h = g /\ call[line[g][n]].pc = "pending"
      BY <1>0, <3>2 DEF InLineOnce
    <3>4. ~InLine(line[g][n], h)
      BY <1>0, <3>1, <3>2, <3>3, InLineMeans
    <3>5. SameCall(line[g][n])
      BY <3>2, <3>4, EndSettles
    <3>6. \A m \in DOMAIN line[g] : line[g][m] = line[g][n] => m = n
      BY <1>0, <3>2 DEF InLineOnce
    <3> QED
      BY <3>2, <3>3, <3>5, <3>6 DEF SameCall
  <2> QED
    BY <2>1, <2>2 DEF InLineOnce
<1>6. \A r \in Requests \ Mutating : posted'[r] = 0
  BY DEF HelperInv, Ends
<1>7. ASSUME NEW r \in Mutating PROVE PostingKnown(r)'
  <2>0. r \in Requests /\ PostingKnown(r) /\ posted'[r] = posted[r]
    BY <1>0, HostAssumption DEF Ends
  <2>1. CASE InLine(r, h)
    <3>1. call[r].pc = "pending" /\ call[r].h = h
      BY <1>0, <2>0, <2>1, InLineMeans
    <3>2. r # Head(line[h]) => posted[r] = 0
      <4>1. SUFFICES ASSUME r # Head(line[h]), Pressed(r) PROVE FALSE
        BY <2>0, <3>1 DEF PostingKnown
      <4>2. PICK g \in Hosts : actor[g] = "open" /\ proc[g].run = r /\ proc[g].stage = "down"
        BY <4>1 DEF Pressed
      <4>3. Head(line[g]) = r /\ call[r].h = g
        BY <2>0, <4>2, PressedHead
      <4> QED
        BY <3>1, <4>1, <4>3
    <3>3. Settles(r)
      BY <2>0, <2>1, <3>2, EndSettles DEF Settles
    <3> QED
      BY <2>0, <3>3, PostingSettles
  <2>2. CASE ~InLine(r, h)
    <3>1. SameCall(r)
      BY <2>0, <2>2, EndSettles
    <3>2. ASSUME call[r].pc = "pending", Pressed(r) PROVE Pressed(r)'
      <4>1. PICK g \in Hosts : actor[g] = "open" /\ proc[g].run = r /\ proc[g].stage = "down"
        BY <3>2 DEF Pressed
      <4>2. InLine(r, g)
        BY <2>0, <4>1, PressedHead
      <4>3. Stays(g)
        BY <1>2, <2>2, <4>2
      <4> QED
        BY <4>1, <4>3 DEF Pressed, Stays
    <3> QED
      BY <2>0, <3>1, <3>2, PostingStays
  <2> QED
    BY <2>1, <2>2
<1> QED
  BY <1>4, <1>5, <1>6, <1>7 DEF LinesHold

-----------------------------------------------------------------------------
(* Each step keeps the lines                                                *)

LEMMA SteadyLines ==
    ASSUME HelperInv, posted' = posted, \A h \in Hosts : Stays(h),
           \A r \in Requests : call[r].pc = "pending" => SameCall(r),
           \A r \in Requests : call'[r].pc = "pending" => call[r].pc = "pending",
           \A r \in Mutating : PostingKnown(r)'
    PROVE  LinesHold'
<1>0. TypeOK /\ InLineOnce /\ \A h \in Hosts : HeadWritten(h)
  BY DEF HelperInv
<1>1. \A h \in Hosts : HeadWritten(h)'
  BY <1>0, HeadStays
<1>2. \A r \in Requests : call'[r].pc = "pending" => call'[r].h # 0
  BY <1>0 DEF InLineOnce, SameCall
<1>3. \A h \in Hosts : line'[h] = line[h]
  BY DEF Stays
<1>4. ASSUME NEW h \in Hosts, NEW n \in DOMAIN line[h]
      PROVE  /\ call'[line[h][n]].pc = "pending" /\ call'[line[h][n]].h = h
             /\ \A m \in DOMAIN line[h] : line[h][m] = line[h][n] => m = n
  <2>1. line[h][n] \in Requests
    BY <1>0, <1>4 DEF TypeOK
  <2>2. /\ call[line[h][n]].pc = "pending" /\ call[line[h][n]].h = h
        /\ \A m \in DOMAIN line[h] : line[h][m] = line[h][n] => m = n
    BY <1>0, <1>4 DEF InLineOnce
  <2> QED
    BY <2>1, <2>2 DEF SameCall
<1>5. InLineOnce'
  BY <1>2, <1>3, <1>4 DEF InLineOnce
<1>6. \A r \in Requests \ Mutating : posted'[r] = 0
  BY DEF HelperInv
<1> QED
  BY <1>1, <1>5, <1>6 DEF LinesHold

(* A pressed request stays pressed where the hosts stay.                    *)
LEMMA PressedStays ==
    ASSUME NEW r, \A h \in Hosts : Stays(h), Pressed(r)
    PROVE  Pressed(r)'
  BY DEF Pressed, Stays

LEMMA RequestLines ==
    ASSUME HelperInv, NEW r \in Requests, Request(r) \/ FailedExited(r) \/ Caught(r)
    PROVE  LinesHold'
<1>0. /\ TypeOK /\ \A q \in Mutating : PostingKnown(q)
      /\ Mutating \subseteq Requests
  BY HostAssumption DEF HelperInv
<1>1. UNCHANGED <<actor, line, posted>>
  BY DEF Request, FailedExited, Caught
<1>2. \A h \in Hosts : Stays(h)
  <2> SUFFICES ASSUME NEW h \in Hosts PROVE Stays(h)
    OBVIOUS
  <2> DEFINE b == proc[h].kill \/ host # h
  <2>1. proc'[h] = proc[h] \/ proc'[h] = [proc[h] EXCEPT !.kill = b]
    BY <1>0 DEF Request, FailedExited, Caught, TypeOK
  <2> HIDE DEF b
  <2>2. proc[h] \in Process
    BY <1>0, HostTypes
  <2> QED
    BY <1>1, <2>1, <2>2 DEF Stays, Process
<1>3. \A q \in Requests : q # r => call'[q] = call[q]
  BY <1>0 DEF Request, FailedExited, Caught, TypeOK
<1>4. /\ call[r].pc \in {"idle", "exit", "caught"}
      /\ call'[r].pc \in {"ensure", "exit", "answered"}
      /\ call[r].pc = "idle" => call'[r].pc = "ensure" /\ call'[r].retry = call[r].retry
      /\ call[r].pc = "exit" => call'[r].retry = call[r].retry
      /\ call[r].pc = "caught" => call'[r].pc = "answered" \/ call'[r].retry
  <2>1. call[r] \in Call
    BY <1>0, RequestTypes
  <2>2. CASE Request(r) \/ FailedExited(r)
    BY <1>0, <2>1, <2>2 DEF Request, FailedExited, TypeOK, Call
  <2>3. CASE Caught(r)
    BY <1>0, <2>1, <2>3 DEF Caught, TypeOK, Call
  <2> QED
    BY <2>2, <2>3
<1>5. ASSUME NEW q \in Mutating PROVE PostingKnown(q)'
  <2>1. q \in Requests /\ PostingKnown(q) /\ posted'[q] = posted[q]
    BY <1>0, <1>1
  <2>2. CASE q = r
    BY <1>4, <2>1, <2>2 DEF PostingKnown
  <2>3. CASE q # r
    <3>1. SameCall(q)
      BY <1>3, <2>1, <2>3 DEF SameCall
    <3> QED
      BY <1>2, <2>1, <3>1, PostingStays, PressedStays
  <2> QED
    BY <2>2, <2>3
<1>6. \A q \in Requests : call[q].pc = "pending" => SameCall(q)
  BY <1>3, <1>4 DEF SameCall
<1>7. \A q \in Requests : call'[q].pc = "pending" => call[q].pc = "pending"
  BY <1>3, <1>4
<1> QED
  BY <1>1, <1>2, <1>5, <1>6, <1>7, SteadyLines

LEMMA EnsureLines ==
    ASSUME HelperInv, NEW r \in Requests, EnsureHost(r), ~(open /\ host # 0 /\ actor[host] = "open")
    PROVE  LinesHold'
<1>0. /\ TypeOK /\ posted' = posted
      /\ \A q \in Mutating : PostingKnown(q)
      /\ Mutating \subseteq Requests /\ call[r] \in Call /\ call[r].pc = "ensure"
      /\ UNCHANGED <<actor, line>>
  BY HostAssumption, RequestTypes DEF HelperInv, EnsureHost, Submit
<1>1. \A h \in Hosts : Stays(h)
  <2> SUFFICES ASSUME NEW h \in Hosts PROVE Stays(h)
    OBVIOUS
  <2>1. proc'[h] = proc[h] \/ proc'[h] = [proc[h] EXCEPT !.kill = TRUE]
    BY <1>0 DEF EnsureHost, TypeOK
  <2>2. proc[h] \in Process
    BY <1>0, HostTypes
  <2> QED
    BY <1>0, <2>1, <2>2 DEF Stays, Process
<1>2. \A q \in Requests : q # r => call'[q] = call[q]
  BY <1>0 DEF EnsureHost, TypeOK
<1>3. call'[r].pc = "answered" \/ (call'[r].pc = "waiting" /\ call'[r].retry = call[r].retry)
  <2>1. CASE ~open
    <3> DEFINE c == [call[r] EXCEPT !.retry = TRUE]
    <3>1. c \in Call /\ c.retry
      BY <1>0 DEF Call
    <3>2. call'[r] = Settle(c, "definite")
      BY <1>0, <2>1 DEF EnsureHost, TypeOK
    <3> HIDE DEF c
    <3>3. call'[r].pc = "answered"
      BY <3>1, <3>2, SettleResult DEF Outcome, Settled
    <3> QED
      BY <3>3
  <2>2. CASE open
    BY <1>0, <2>2 DEF EnsureHost, TypeOK, Call
  <2> QED
    BY <2>1, <2>2
<1>4. ASSUME NEW q \in Mutating PROVE PostingKnown(q)'
  <2>1. q \in Requests /\ PostingKnown(q) /\ posted'[q] = posted[q]
    BY <1>0
  <2>2. CASE q = r
    BY <1>0, <1>3, <2>1, <2>2 DEF PostingKnown
  <2>3. CASE q # r
    <3>1. SameCall(q)
      BY <1>2, <2>1, <2>3 DEF SameCall
    <3> QED
      BY <1>1, <2>1, <3>1, PostingStays, PressedStays
  <2> QED
    BY <2>2, <2>3
<1>5. \A q \in Requests : call[q].pc = "pending" => SameCall(q)
  BY <1>0, <1>2 DEF SameCall
<1>6. \A q \in Requests : call'[q].pc = "pending" => call[q].pc = "pending"
  BY <1>2, <1>3
<1>7. posted' = posted
  BY <1>0
<1> QED
  BY <1>1, <1>4, <1>5, <1>6, <1>7, SteadyLines

LEMMA SubmitLines ==
    ASSUME HelperInv, NEW r \in Requests, EnsureHost(r), open, host # 0, actor[host] = "open"
    PROVE  LinesHold'
<1>0. /\ TypeOK /\ InLineOnce /\ \A q \in Mutating : PostingKnown(q)
      /\ posted' = posted /\ actor' = actor /\ host \in Hosts
      /\ Mutating \subseteq Requests /\ call[r] \in Call /\ call[r].pc = "ensure"
      /\ \A h \in Hosts : HeadWritten(h)
  BY HostAssumption, RequestTypes DEF HelperInv, EnsureHost, TypeOK, Hosts
<1> DEFINE c == [call[r] EXCEPT !.h = host]
<1>1. c \in Call /\ c.pc = "ensure" /\ c.retry = call[r].retry /\ c.h = host
  BY <1>0, HostAssumption DEF Call, Hosts
<1>2. \A q \in Requests : q # r => call'[q] = call[q]
  BY <1>0 DEF EnsureHost, Submit, TypeOK
<1>3. PostingKnown(r) \/ r \notin Mutating
  BY <1>0
<1>4. CASE call'[r].pc # "pending"
  <2>1. UNCHANGED <<line, proc>>
    <3>1. SUFFICES ASSUME Submit(r, host, c), ~UNCHANGED <<line, proc>> PROVE FALSE
      BY <1>0 DEF EnsureHost
    <3>2. call' = [call EXCEPT ![r] = [c EXCEPT !.pc = "pending"]]
      BY <1>0, <3>1 DEF Submit
    <3> HIDE DEF c
    <3> QED
      BY <1>0, <1>1, <1>4, <3>2 DEF TypeOK, Call
  <2>2. \A h \in Hosts : Stays(h)
    BY <1>0, <2>1 DEF Stays
  <2>3. r \in Mutating => PostingKnown(r)'
    <3>1. CASE call[r].retry /\ (r \in Mutating \/ call[r].aborted)
      <4>1. call'[r].pc = "answered"
        BY <1>0, <3>1 DEF EnsureHost, TypeOK, Call
      <4> QED
        BY <1>0, <1>3, <4>1 DEF PostingKnown
    <3>2. CASE ~(call[r].retry /\ (r \in Mutating \/ call[r].aborted))
      <4>1. Submit(r, host, c)
        BY <1>0, <3>2 DEF EnsureHost
      <4>2. call'[r] = Settle(c, "definite")
        <5>1. \/ call' = [call EXCEPT ![r] = Settle(c, "definite")]
              \/ call' = [call EXCEPT ![r] = [c EXCEPT !.pc = "pending"]]
          BY <4>1 DEF Submit
        <5> HIDE DEF c
        <5> QED
          BY <1>0, <1>1, <1>4, <5>1 DEF TypeOK, Call
      <4>3. /\ call'[r].retry = call[r].retry /\ call'[r].pc \in Settled
            /\ call'[r].pc = "caught" => ~call[r].retry
        <5> HIDE DEF c
        <5>1. "definite" \in Outcome
          BY DEF Outcome
        <5> QED
          BY <1>1, <4>2, <5>1, SettleResult
      <4>4. r \in Mutating => Settles(r)
        BY <1>0, <1>3, <4>3 DEF Settles, PostingKnown
      <4> QED
        BY <1>0, <4>4, PostingSettles
    <3> QED
      BY <3>1, <3>2
  <2>4. ASSUME NEW q \in Mutating PROVE PostingKnown(q)'
    <3>1. CASE q = r
      BY <2>3, <3>1
    <3>2. CASE q # r
      <4>1. SameCall(q) /\ q \in Requests /\ PostingKnown(q) /\ posted'[q] = posted[q]
        BY <1>0, <1>2, <3>2 DEF SameCall
      <4> QED
        BY <2>2, <4>1, PostingStays, PressedStays
    <3> QED
      BY <3>1, <3>2
  <2>5. \A q \in Requests : call[q].pc = "pending" => SameCall(q)
    BY <1>0, <1>2 DEF SameCall
  <2>6. \A q \in Requests : call'[q].pc = "pending" => call[q].pc = "pending"
    BY <1>2, <1>4
  <2> QED
    BY <1>0, <2>2, <2>4, <2>5, <2>6, SteadyLines
<1>5. CASE call'[r].pc = "pending"
  <2>0. ~(call[r].retry /\ (r \in Mutating \/ call[r].aborted))
    BY <1>0, <1>5 DEF EnsureHost, TypeOK, Call
  <2>1. Submit(r, host, c)
    BY <1>0, <2>0 DEF EnsureHost
  <2>2. ~(c.aborted \/ Len(line[host]) >= MaxQueue)
    <3>1. Settle(c, "definite").pc # "pending"
      BY <1>1, SettleResult DEF Outcome, Settled
    <3> QED
      BY <1>0, <1>5, <2>1, <3>1 DEF Submit, TypeOK
  <2>3. /\ call' = [call EXCEPT ![r] = [c EXCEPT !.pc = "pending"]]
        /\ line' = [line EXCEPT ![host] = Append(@, r)]
        /\ proc' = [proc EXCEPT ![host] = IF line[host] = <<>> THEN [@ EXCEPT !.inbox = r] ELSE @]
    BY <1>0, <2>1, <2>2 DEF Submit
  <2>4. call'[r].h = host /\ call'[r].retry = call[r].retry
    BY <1>0, <1>1, <2>3 DEF TypeOK, Call
  <2>5. \A h \in Hosts : h # host => Stays(h) /\ line'[h] = line[h]
    BY <1>0, <2>3 DEF TypeOK, Stays
  <2>6. /\ line[host] \in Seq(Requests) /\ line'[host] = Append(line[host], r)
        /\ Len(line[host]) \in Nat /\ DOMAIN line[host] = 1 .. Len(line[host])
        /\ DOMAIN line'[host] = 1 .. Len(line[host]) + 1
        /\ line'[host][Len(line[host]) + 1] = r
        /\ \A n \in DOMAIN line[host] : line'[host][n] = line[host][n]
    BY <1>0, <2>3 DEF TypeOK
  <2>7. \A h \in Hosts : \A n \in DOMAIN line[h] : line[h][n] # r
    BY <1>0 DEF InLineOnce
  <2>8. InLineOnce'
    <3>1. \A q \in Requests : call'[q].pc = "pending" => call'[q].h # 0
      BY <1>0, <1>2, <2>4 DEF InLineOnce
    <3>2. ASSUME NEW h \in Hosts, NEW n \in DOMAIN line'[h]
          PROVE  /\ call'[line'[h][n]].pc = "pending" /\ call'[line'[h][n]].h = h
                 /\ \A m \in DOMAIN line'[h] : line'[h][m] = line'[h][n] => m = n
      <4>1. CASE h # host
        <5>1. n \in DOMAIN line[h] /\ line'[h] = line[h] /\ line[h][n] \in Requests
          BY <1>0, <2>5, <3>2, <4>1 DEF TypeOK
        <5>2. line[h][n] # r
          BY <2>7, <5>1
        <5> QED
          BY <1>0, <1>2, <5>1, <5>2 DEF InLineOnce
      <4>2. CASE h = host /\ n = Len(line[host]) + 1
        <5>1. line'[h][n] = r
          BY <2>6, <4>2
        <5>2. \A m \in DOMAIN line'[h] : m # n => m \in DOMAIN line[host]
          BY <2>6, <4>2
        <5>3. \A m \in DOMAIN line'[h] : m # n => line'[h][m] # r
          BY <2>6, <2>7, <1>0, <4>2, <5>2
        <5> QED
          BY <1>5, <2>4, <4>2, <5>1, <5>3
      <4>3. CASE h = host /\ n # Len(line[host]) + 1
        <5>1. n \in DOMAIN line[host] /\ line'[h][n] = line[host][n]
          BY <2>6, <3>2, <4>3
        <5>2. line[host][n] \in Requests /\ line[host][n] # r
          BY <1>0, <2>6, <2>7, <5>1
        <5>3. call'[line'[h][n]].pc = "pending" /\ call'[line'[h][n]].h = h
          BY <1>0, <1>2, <4>3, <5>1, <5>2 DEF InLineOnce
        <5>4. ASSUME NEW m \in DOMAIN line'[h], line'[h][m] = line'[h][n] PROVE m = n
          <6>1. m # Len(line[host]) + 1
            BY <2>6, <4>3, <5>1, <5>2, <5>4
          <6>2. m \in DOMAIN line[host] /\ line[host][m] = line[host][n]
            BY <2>6, <4>3, <5>1, <5>4, <6>1
          <6> QED
            BY <1>0, <5>1, <6>2 DEF InLineOnce
        <5> QED
          BY <5>3, <5>4
      <4> QED
        BY <4>1, <4>2, <4>3
    <3> QED
      BY <3>1, <3>2 DEF InLineOnce
  <2>9. ASSUME NEW h \in Hosts, h = host PROVE HeadWritten(h)'
    <3>0. actor[h] = "open" /\ actor'[h] = "open"
      BY <1>0, <2>9
    <3>1. HeadWritten(host) /\ proc[host] \in Process
      BY <1>0, HostTypes
    <3>2. line'[host] # <<>> /\ line'[host] \in Seq(Requests)
      BY <1>0, <2>6
    <3>3. CASE line[host] = <<>>
      <4>1. proc'[host] = [proc[host] EXCEPT !.inbox = r]
        BY <1>0, <2>3, <3>3 DEF TypeOK
      <4>2. proc[host].run = NoReq
        BY <1>0, <3>1, <3>3 DEF HeadWritten, Process
      <4>3. Head(line'[host]) = r
        BY <2>6, <3>2, <3>3
      <4>4. /\ proc'[host].run = NoReq /\ proc'[host].stage = "idle" /\ proc'[host].inbox = r
            /\ proc'[host].alive = proc[host].alive
        BY <3>1, <4>1, <4>2 DEF HeadWritten, Process
      <4> QED
        BY <2>9, <3>0, <3>2, <4>3, <4>4 DEF HeadWritten
    <3>4. CASE line[host] # <<>>
      <4>1. proc'[host] = proc[host]
        BY <1>0, <2>3, <3>4 DEF TypeOK
      <4>2. Head(line'[host]) = Head(line[host])
        BY <2>6, <3>2, <3>4
      <4> QED
        BY <2>9, <3>0, <3>1, <3>2, <3>4, <4>1, <4>2 DEF HeadWritten
    <3> QED
      BY <3>3, <3>4
  <2>10. ASSUME NEW h \in Hosts PROVE HeadWritten(h)'
    <3>1. CASE h = host
      BY <2>9, <3>1
    <3>2. CASE h # host
      BY <1>0, <2>5, <3>2, HeadStays
    <3> QED
      BY <3>1, <3>2
  <2>11. ASSUME NEW q \in Mutating PROVE PostingKnown(q)'
    <3>1. q \in Requests /\ PostingKnown(q) /\ posted'[q] = posted[q]
      BY <1>0
    <3>2. CASE q = r
      <4>1. posted[r] = 0 /\ ~call[r].retry
        BY <1>0, <2>0, <3>1, <3>2 DEF PostingKnown
      <4> QED
        BY <1>5, <2>4, <3>1, <3>2, <4>1 DEF PostingKnown
    <3>3. CASE q # r
      <4>1. SameCall(q)
        BY <1>2, <3>1, <3>3 DEF SameCall
      <4>2. \A h \in Hosts : proc'[h].run = proc[h].run /\ proc'[h].stage = proc[h].stage
        <5>1. \A h \in Hosts : proc'[h] = proc[h] \/ proc'[h] = [proc[h] EXCEPT !.inbox = r]
          BY <1>0, <2>3 DEF TypeOK
        <5> QED
          BY <1>0, <5>1, HostTypes DEF Process
      <4>3. Pressed(q) => Pressed(q)'
        BY <1>0, <4>2 DEF Pressed
      <4> QED
        BY <3>1, <4>1, <4>3, PostingStays
    <3> QED
      BY <3>2, <3>3
  <2> QED
    BY <1>0, <2>8, <2>10, <2>11 DEF LinesHold, HelperInv
<1> QED
  BY <1>4, <1>5

(* The k-th in line leaves and the others move up.                          *)
MovesUp(h, k) ==
    /\ DOMAIN line'[h] = 1 .. Len(line[h]) - 1
    /\ \A m \in 1 .. Len(line[h]) - 1 : line'[h][m] = line[h][IF m < k THEN m ELSE m + 1]

LEMMA OneLeaves ==
    ASSUME HelperInv, NEW h \in Hosts, NEW k \in 1 .. Len(line[h]), MovesUp(h, k),
           \A g \in Hosts : g # h => line'[g] = line[g],
           \A q \in Requests : q # line[h][k] => call'[q] = call[q],
           call'[line[h][k]].pc # "pending"
    PROVE  InLineOnce'
<1>0. /\ TypeOK /\ InLineOnce /\ Len(line[h]) \in Nat /\ DOMAIN line[h] = 1 .. Len(line[h])
      /\ line[h] \in Seq(Requests)
  BY DEF HelperInv, TypeOK
<1>1. \A q \in Requests : call'[q].pc = "pending" => call'[q].h # 0
  BY <1>0 DEF InLineOnce
<1>2. ASSUME NEW g \in Hosts, g # h, NEW n \in DOMAIN line'[g]
      PROVE  /\ call'[line'[g][n]].pc = "pending" /\ call'[line'[g][n]].h = g
             /\ \A m \in DOMAIN line'[g] : line'[g][m] = line'[g][n] => m = n
  <2>1. n \in DOMAIN line[g] /\ line'[g] = line[g] /\ line[g][n] \in Requests
    BY <1>0, <1>2 DEF TypeOK
  <2>2. /\ call[line[g][n]].pc = "pending" /\ call[line[g][n]].h = g
        /\ \A m \in DOMAIN line[g] : line[g][m] = line[g][n] => m = n
    BY <1>0, <2>1 DEF InLineOnce
  <2>3. k \in DOMAIN line[h] /\ call[line[h][k]].h = h
    BY <1>0 DEF InLineOnce
  <2>4. line[g][n] # line[h][k]
    BY <1>2, <2>2, <2>3
  <2> QED
    BY <2>1, <2>2, <2>4
<1>3. ASSUME NEW n \in DOMAIN line'[h]
      PROVE  /\ call'[line'[h][n]].pc = "pending" /\ call'[line'[h][n]].h = h
             /\ \A m \in DOMAIN line'[h] : line'[h][m] = line'[h][n] => m = n
  <2> DEFINE old(m) == IF m < k THEN m ELSE m + 1
  <2>1. \A m \in DOMAIN line'[h] : m \in Nat /\ old(m) \in DOMAIN line[h] /\ old(m) # k
                               /\ line'[h][m] = line[h][old(m)]
    BY <1>0 DEF MovesUp
  <2>2. \A m \in DOMAIN line'[h] : old(m) = old(n) => m = n
    BY <2>1
  <2> HIDE DEF old
  <2>3. old(n) \in DOMAIN line[h] /\ line'[h][n] = line[h][old(n)] /\ old(n) # k
        /\ line[h][old(n)] \in Requests
    BY <1>0, <2>1
  <2>4. /\ call[line[h][old(n)]].pc = "pending" /\ call[line[h][old(n)]].h = h
        /\ \A m \in DOMAIN line[h] : line[h][m] = line[h][old(n)] => m = old(n)
    BY <1>0, <2>3 DEF InLineOnce
  <2>5. line[h][old(n)] # line[h][k]
    BY <1>0, <2>3, <2>4
  <2> QED
    BY <2>1, <2>2, <2>3, <2>4, <2>5
<1> QED
  BY <1>1, <1>2, <1>3 DEF InLineOnce

LEMMA ExpireLines ==
    ASSUME HelperInv, NEW r \in Requests, NEW abort \in BOOLEAN, Expire(r, abort)
    PROVE  LinesHold'
<1> DEFINE h == call[r].h
<1>0. /\ TypeOK /\ InLineOnce /\ call[r] \in Call /\ h \in Hosts /\ posted' = posted
      /\ Mutating \subseteq Requests /\ call[r].pc = "pending"
  BY HostAssumption DEF HelperInv, TypeOK, Call, Expire, InLineOnce, Hosts
<1>1. PICK n \in DOMAIN line[h] : Expires(r, h, n, abort)
  BY ExpireCases
<1>2. /\ line[h] \in Seq(Requests) /\ DOMAIN line[h] = 1 .. Len(line[h]) /\ line[h][n] = r
      /\ Head(line[h]) = line[h][1] /\ 1 \in DOMAIN line[h] /\ Len(line[h]) \in Nat
  <2>1. line[h] \in Seq(Requests) /\ line[h] # <<>>
    BY <1>0, <1>1 DEF TypeOK
  <2> QED
    BY <1>1, <2>1 DEF Expires
<1>3. CASE n = 1
  <2>1. /\ Terminate(h) /\ call' = [Disconnected(h) EXCEPT ![r].aborted = abort]
        /\ proc' = [proc EXCEPT ![h].term = TRUE]
    BY <1>1, <1>3 DEF Expires
  <2> HIDE DEF h
  <2>2. Disconnected(h) \in [Requests -> Call]
    BY <1>0, DisconnectedResult
  <2>3. Disconnects(h)
    BY <2>1, <2>2 DEF Disconnects, Call
  <2>4. proc[h] \in Process /\ proc'[h] = [proc[h] EXCEPT !.term = TRUE]
        /\ \A g \in Hosts : g # h => proc'[g] = proc[g]
    BY <1>0, <2>1, HostTypes DEF TypeOK
  <2>5. HeadWritten(h)
    BY <1>0 DEF HelperInv
  <2>6. /\ proc'[h].run = NoReq <=> proc'[h].stage = "idle"
        /\ proc'[h].term
    BY <2>4, <2>5 DEF HeadWritten, Process
  <2>7. Ends(h)
    BY <1>0, <2>1, <2>3, <2>4, <2>6 DEF Ends
  <2> QED
    BY <1>0, <2>7, Ending
<1>4. CASE n # 1
  <2>1. line' = [line EXCEPT ![h] = Without(h, n)] /\ n \in 2 .. Len(line[h]) /\ line[h][n] = r
    BY <1>1, <1>2, <1>4 DEF Expires
  <2>2. /\ call' = [call EXCEPT ![r] = Settle([@ EXCEPT !.aborted = abort], "definite")]
        /\ UNCHANGED <<actor, proc>>
    BY <1>1, <1>4 DEF Expires
  <2>head. r # Head(line[h])
    BY <1>0, <1>2, <1>4 DEF InLineOnce
  <2> DEFINE c == [call[r] EXCEPT !.aborted = abort]
  <2>3. c \in Call /\ c.retry = call[r].retry /\ "definite" \in Outcome
    BY <1>0 DEF Call, Outcome
  <2>4. call'[r] = Settle(c, "definite") /\ \A q \in Requests : q # r => call'[q] = call[q]
    BY <1>0, <2>2 DEF TypeOK
  <2> HIDE DEF c, h
  <2>5. /\ call'[r].pc \in Settled /\ call'[r].retry = call[r].retry
        /\ call'[r].pc = "caught" => ~call[r].retry
    BY <2>3, <2>4, SettleResult
  <2>6. /\ \A g \in Hosts : g # h => line'[g] = line[g]
        /\ line'[h] = Without(h, n)
    BY <1>0, <2>1 DEF TypeOK
  <2>7. n \in 1 .. Len(line[h]) /\ DOMAIN line[h] = 1 .. Len(line[h])
    BY <1>0, <2>1 DEF TypeOK
  <2>8. MovesUp(h, n)
    BY <2>6 DEF MovesUp, Without
  <2>9. InLineOnce'
    BY <1>0, <2>1, <2>4, <2>5, <2>6, <2>7, <2>8, OneLeaves DEF Settled
  <2>10. line'[h] # <<>> /\ Head(line'[h]) = Head(line[h]) /\ line[h] # <<>>
    <3>1. Without(h, n) # <<>> /\ Head(Without(h, n)) = Head(line[h])
      BY <1>0, <2>1, WithoutResult
    <3>2. line[h] # <<>>
      BY <1>0, <2>7
    <3> QED
      BY <2>6, <3>1, <3>2
  <2>11. ASSUME NEW g \in Hosts PROVE HeadWritten(g)'
    <3>1. HeadWritten(g)
      BY DEF HelperInv
    <3>2. CASE g = h
      BY <2>2, <2>10, <3>1, <3>2 DEF HeadWritten
    <3>3. CASE g # h
      BY <2>2, <2>6, <3>1, <3>3 DEF HeadWritten
    <3> QED
      BY <3>2, <3>3
  <2>12. ASSUME NEW q \in Mutating PROVE PostingKnown(q)'
    <3>1. q \in Requests /\ PostingKnown(q) /\ posted'[q] = posted[q]
      BY <1>0 DEF HelperInv
    <3>2. CASE q = r
      <4>1. ~Pressed(r)
        <5>1. SUFFICES ASSUME NEW g \in Hosts, actor[g] = "open", proc[g].run = r,
                              proc[g].stage = "down"
                       PROVE FALSE
          BY DEF Pressed
        <5>2. Head(line[g]) = r /\ call[r].h = g
          BY <5>1, PressedHead
        <5> QED
          BY <2>head, <5>2 DEF h
      <4>2. posted[r] = 0
        BY <1>0, <3>1, <3>2, <4>1 DEF PostingKnown
      <4>3. Settles(r)
        BY <2>5, <4>2 DEF Settles
      <4> QED
        BY <3>1, <3>2, <4>3, PostingSettles
    <3>3. CASE q # r
      <4>1. SameCall(q)
        BY <2>4, <3>1, <3>3 DEF SameCall
      <4>2. Pressed(q) => Pressed(q)'
        BY <2>2 DEF Pressed
      <4> QED
        BY <3>1, <4>1, <4>2, PostingStays
    <3> QED
      BY <3>2, <3>3
  <2> QED
    BY <1>0, <2>9, <2>11, <2>12 DEF LinesHold, HelperInv
<1> QED
  BY <1>3, <1>4

LEMMA ReadLines ==
    ASSUME HelperInv, NEW h \in Hosts, HelperReads(h)
    PROVE  LinesHold'
<1>0. /\ TypeOK /\ proc[h] \in Process /\ HeadWritten(h) /\ InLineOnce
      /\ Mutating \subseteq Requests
  BY HostTypes, HostAssumption DEF HelperInv
<1>1. /\ proc'[h] = [proc[h] EXCEPT !.run = proc[h].inbox, !.inbox = NoReq, !.stage = "read"]
      /\ \A g \in Hosts : g # h => proc'[g] = proc[g]
  BY <1>0 DEF HelperReads, TypeOK
<1>2. /\ UNCHANGED <<actor, line, call, posted>>
      /\ proc[h].run = NoReq /\ proc[h].inbox # NoReq
  BY DEF HelperReads
<1>3. /\ proc'[h].run = proc[h].inbox /\ proc'[h].inbox = NoReq /\ proc'[h].stage = "read"
      /\ proc'[h].alive = proc[h].alive /\ proc'[h].term = proc[h].term
  BY <1>0, <1>1 DEF Process
<1>4. ASSUME NEW g \in Hosts PROVE HeadWritten(g)'
  <2>1. CASE g = h
    BY <1>0, <1>2, <1>3, <2>1 DEF HeadWritten
  <2>2. CASE g # h
    BY <1>1, <1>2, <2>2, HeadStays DEF HelperInv, Stays
  <2> QED
    BY <2>1, <2>2
<1>5. InLineOnce'
  BY <1>0, <1>2 DEF InLineOnce
<1>6. ASSUME NEW q \in Mutating PROVE PostingKnown(q)'
  <2>1. SameCall(q) /\ PostingKnown(q) /\ posted'[q] = posted[q]
    BY <1>2 DEF SameCall, HelperInv
  <2>2. proc[h].stage = "idle"
    BY <1>0, <1>2 DEF HeadWritten
  <2>3. Pressed(q) => Pressed(q)'
    BY <1>1, <1>2, <2>2 DEF Pressed
  <2> QED
    BY <2>1, <2>3, PostingStays
<1> QED
  BY <1>2, <1>4, <1>5, <1>6 DEF LinesHold, HelperInv

LEMMA PostLines ==
    ASSUME HelperInv, NEW h \in Hosts, HelperPosts(h)
    PROVE  LinesHold'
<1> DEFINE r == proc[h].run
<1>0. /\ TypeOK /\ proc[h] \in Process /\ HeadWritten(h) /\ InLineOnce
      /\ Mutating \subseteq Requests /\ r \in Mutating /\ proc[h].stage = "read"
  BY HostTypes, HostAssumption DEF HelperInv, HelperPosts
<1>1. actor[h] = "open"
  BY <1>0 DEF HelperPosts, HeadWritten
<1>2. /\ UNCHANGED <<actor, line, call>>
      /\ proc'[h] = [proc[h] EXCEPT !.stage = "down"]
      /\ \A g \in Hosts : g # h => proc'[g] = proc[g]
      /\ posted'[r] = posted[r] + 1 /\ \A q \in Requests : q # r => posted'[q] = posted[q]
  BY <1>0 DEF HelperPosts, TypeOK
<1>3. /\ proc'[h].run = r /\ proc'[h].inbox = proc[h].inbox /\ proc'[h].stage = "down"
      /\ proc'[h].alive = proc[h].alive /\ proc'[h].term = proc[h].term
  BY <1>0, <1>2 DEF Process
<1>4. ASSUME NEW g \in Hosts PROVE HeadWritten(g)'
  <2>1. CASE g = h
    BY <1>0, <1>2, <1>3, <2>1 DEF HeadWritten
  <2>2. CASE g # h
    BY <1>2, <2>2, HeadStays DEF HelperInv, Stays
  <2> QED
    BY <2>1, <2>2
<1>5. InLineOnce'
  BY <1>0, <1>2 DEF InLineOnce
<1>6. call[r].pc = "pending" /\ call[r].h = h
  BY <1>0, <1>1, PressedHead
<1>7. posted[r] = 0
  <2>1. SUFFICES ASSUME Pressed(r) PROVE FALSE
    BY <1>0, <1>6 DEF HelperInv, PostingKnown
  <2>2. PICK g \in Hosts : actor[g] = "open" /\ proc[g].run = r /\ proc[g].stage = "down"
    BY <2>1 DEF Pressed
  <2>3. call[r].h = g
    BY <1>0, <2>2, PressedHead
  <2> QED
    BY <1>0, <1>6, <2>2, <2>3
<1>8. ASSUME NEW q \in Mutating PROVE PostingKnown(q)'
  <2>1. PostingKnown(q) /\ SameCall(q) /\ q \in Requests
    BY <1>0, <1>2 DEF HelperInv, SameCall
  <2>2. CASE q = r
    <3>1. Pressed(q)'
      BY <1>1, <1>2, <1>3, <2>2 DEF Pressed
    <3> QED
      BY <1>2, <1>6, <1>7, <2>1, <2>2, <3>1 DEF PostingKnown
  <2>3. CASE q # r
    <3>1. Pressed(q) => Pressed(q)'
      BY <1>0, <1>2, <2>3 DEF Pressed
    <3> QED
      BY <1>2, <2>1, <2>3, <3>1, PostingStays
  <2> QED
    BY <2>2, <2>3
<1> QED
  BY <1>0, <1>2, <1>4, <1>5, <1>8 DEF LinesHold, HelperInv

LEMMA ReplyLines ==
    ASSUME HelperInv, NEW h \in Hosts, proc[h].stage # "idle", posted' = posted, actor' = actor,
           NEW e \in Outcome, Reply(h, e), e = "definite" => proc[h].stage = "read"
    PROVE  LinesHold'
<1> DEFINE r == proc[h].run
           p == [proc[h] EXCEPT !.run = NoReq, !.stage = "idle"]
<1>0. /\ TypeOK /\ proc[h] \in Process /\ HeadWritten(h) /\ InLineOnce
      /\ Mutating \subseteq Requests /\ r \in Requests
      /\ \A q \in Mutating : PostingKnown(q)
  BY HostTypes, HostAssumption, RunsHead DEF HelperInv
<1>1. /\ p \in Process /\ p.run = NoReq /\ p.inbox = proc[h].inbox /\ p.stage = "idle"
      /\ p.alive = proc[h].alive /\ p.term = proc[h].term
  BY <1>0 DEF Process
<1>2. CASE actor[h] # "open"
  <2>1. proc' = [proc EXCEPT ![h] = p] /\ UNCHANGED <<line, call>>
    BY <1>2 DEF Reply
  <2> HIDE DEF p
  <2>2. proc'[h] = p /\ \A g \in Hosts : g # h => proc'[g] = proc[g]
    BY <1>0, <2>1 DEF TypeOK
  <2>3. ASSUME NEW g \in Hosts PROVE HeadWritten(g)'
    <3>1. CASE g = h
      BY <1>0, <1>1, <1>2, <2>1, <2>2, <3>1 DEF HeadWritten
    <3>2. CASE g # h
      BY <2>1, <2>2, <3>2, HeadStays DEF HelperInv, Stays
    <3> QED
      BY <3>1, <3>2
  <2>4. InLineOnce'
    BY <1>0, <2>1 DEF InLineOnce
  <2>5. ASSUME NEW q \in Mutating PROVE PostingKnown(q)'
    <3>1. SameCall(q) /\ PostingKnown(q) /\ posted'[q] = posted[q]
      BY <1>0, <2>1 DEF SameCall
    <3>2. Pressed(q) => Pressed(q)'
      BY <1>2, <2>2 DEF Pressed
    <3> QED
      BY <3>1, <3>2, PostingStays
  <2> QED
    BY <2>3, <2>4, <2>5 DEF LinesHold, HelperInv
<1>3. CASE actor[h] = "open"
  <2>1. /\ line[h] # <<>> /\ Head(line[h]) = r /\ proc[h].inbox = NoReq
        /\ line[h] \in Seq(Requests)
    BY <1>0, <1>3, RunsHead, HostTypes
  <2>2. /\ line' = [line EXCEPT ![h] = Tail(@)] /\ call' = [call EXCEPT ![r] = Settle(@, e)]
        /\ proc' = [proc EXCEPT ![h] = Pump(p, Tail(line[h]))]
    BY <1>3 DEF Reply
  <2>3. call[r] \in Call /\ call'[r] = Settle(call[r], e)
        /\ \A q \in Requests : q # r => call'[q] = call[q]
    BY <1>0, <2>2, RequestTypes DEF TypeOK
  <2>4. /\ call'[r].pc \in Settled /\ call'[r].retry = call[r].retry /\ call'[r].error = e
        /\ call'[r].pc = "caught" => ~call[r].retry
    BY <2>3, SettleResult
  <2> HIDE DEF p
  <2>5. proc'[h] = Pump(p, Tail(line[h])) /\ \A g \in Hosts : g # h => proc'[g] = proc[g]
    BY <1>0, <2>2 DEF TypeOK
  <2>6. line'[h] = Tail(line[h]) /\ \A g \in Hosts : g # h => line'[g] = line[g]
    BY <1>0, <2>2 DEF TypeOK
  <2>7. InLineOnce'
    <3>1. MovesUp(h, 1)
      BY <2>1, <2>6 DEF MovesUp
    <3>2. 1 \in 1 .. Len(line[h]) /\ line[h][1] = r
      BY <2>1
    <3> QED
      BY <2>3, <2>4, <2>6, <3>1, <3>2, OneLeaves DEF Settled
  <2>8. HeadWritten(h)'
    <3>1. Pump(p, Tail(line[h])) = IF Tail(line[h]) # <<>> /\ Head(Tail(line[h])) # p.run
                                  THEN [p EXCEPT !.inbox = Head(Tail(line[h]))] ELSE p
      BY DEF Pump
    <3>2. /\ proc'[h].run = NoReq /\ proc'[h].stage = "idle"
          /\ proc'[h].inbox # NoReq => line'[h] # <<>> /\ Head(line'[h]) = proc'[h].inbox
      BY <1>1, <2>1, <2>5, <2>6, <3>1 DEF Process
    <3> QED
      BY <1>3, <3>2 DEF HeadWritten
  <2>9. \A g \in Hosts : HeadWritten(g)'
    <3>1. ASSUME NEW g \in Hosts, g # h PROVE HeadWritten(g)'
      BY <2>5, <2>6, <3>1, HeadStays DEF HelperInv, Stays
    <3> QED
      BY <2>8, <3>1
  <2>10. ASSUME NEW q \in Mutating PROVE PostingKnown(q)'
    <3>1. q \in Requests /\ PostingKnown(q) /\ posted'[q] = posted[q]
      BY <1>0
    <3>2. CASE q = r
      <4>1. call[r].pc = "pending" /\ call[r].h = h
        BY <1>0, <1>3, PressedHead
      <4>2. e = "definite" => posted[r] = 0
        <5>1. SUFFICES ASSUME proc[h].stage = "read", Pressed(r) PROVE FALSE
          BY <3>1, <3>2, <4>1 DEF PostingKnown
        <5>2. PICK g \in Hosts : actor[g] = "open" /\ proc[g].run = r /\ proc[g].stage = "down"
          BY <5>1 DEF Pressed
        <5>3. call[r].h = g
          BY <1>0, <5>2, PressedHead
        <5> QED
          BY <4>1, <5>1, <5>2, <5>3
      <4>3. Settles(r)
        BY <2>4, <4>2 DEF Settles
      <4> QED
        BY <3>1, <3>2, <4>3, PostingSettles
    <3>3. CASE q # r
      <4>1. SameCall(q)
        BY <2>3, <3>1, <3>3 DEF SameCall
      <4>2. Pressed(q) => Pressed(q)'
        BY <2>5, <3>3 DEF Pressed
      <4> QED
        BY <3>1, <4>1, <4>2, PostingStays
    <3> QED
      BY <3>2, <3>3
  <2> QED
    BY <2>7, <2>9, <2>10 DEF LinesHold, HelperInv
<1> QED
  BY <1>2, <1>3

LEMMA BadReplyLines ==
    ASSUME HelperInv, NEW h \in Hosts, BadReply(h)
    PROVE  LinesHold'
<1>0. TypeOK /\ proc[h] \in Process
  BY HostTypes DEF HelperInv
<1>1. /\ Terminate(h) /\ call' = Disconnected(h) /\ posted' = posted
      /\ proc'[h] = [proc[h] EXCEPT !.run = NoReq, !.stage = "idle", !.term = TRUE]
      /\ \A g \in Hosts : g # h => proc'[g] = proc[g]
  BY <1>0 DEF BadReply, TypeOK
<1>2. proc'[h].run = NoReq /\ proc'[h].stage = "idle" /\ proc'[h].term
  BY <1>0, <1>1 DEF Process
<1>3. Ends(h)
  BY <1>1, <1>2 DEF Ends, Disconnects
<1> QED
  BY <1>3, Ending

LEMMA ExitLines ==
    ASSUME HelperInv, NEW h \in Hosts, Exiting(h)
    PROVE  LinesHold'
<1>0. /\ TypeOK /\ HeadWritten(h) /\ InLineOnce /\ Gone(h) /\ Mutating \subseteq Requests
      /\ \A q \in Mutating : PostingKnown(q)
  BY HostAssumption DEF HelperInv, Exiting, HelperExits, HelperKilled, HelperCrashes
<1>1. /\ proc'[h] = NoProcess /\ posted' = posted
      /\ \A g \in Hosts : g # h => proc'[g] = proc[g]
  BY <1>0 DEF Gone, TypeOK
<1>2. proc'[h].run = NoReq /\ proc'[h].stage = "idle" /\ ~proc'[h].alive
  BY <1>1 DEF NoProcess
<1>3. CASE actor[h] = "open"
  <2>1. Terminate(h) /\ call' = Disconnected(h)
    BY <1>0, <1>3 DEF Gone
  <2>2. Ends(h)
    BY <1>1, <1>2, <2>1 DEF Ends, Disconnects
  <2> QED
    BY <2>2, Ending
<1>4. CASE actor[h] # "open"
  <2>1. UNCHANGED <<actor, line, call>>
    BY <1>0, <1>4 DEF Gone
  <2>2. ASSUME NEW g \in Hosts PROVE HeadWritten(g)'
    <3>1. CASE g = h
      BY <1>0, <1>2, <1>4, <2>1, <3>1 DEF HeadWritten
    <3>2. CASE g # h
      BY <1>1, <2>1, <3>2, HeadStays DEF HelperInv, Stays
    <3> QED
      BY <3>1, <3>2
  <2>3. InLineOnce'
    BY <1>0, <2>1 DEF InLineOnce
  <2>4. ASSUME NEW q \in Mutating PROVE PostingKnown(q)'
    <3>1. SameCall(q) /\ PostingKnown(q) /\ posted'[q] = posted[q]
      BY <1>0, <1>1, <2>1 DEF SameCall
    <3>2. Pressed(q) => Pressed(q)'
      BY <1>1, <1>4, <2>1 DEF Pressed
    <3> QED
      BY <3>1, <3>2, PostingStays
  <2> QED
    BY <1>1, <2>2, <2>3, <2>4 DEF LinesHold, HelperInv
<1> QED
  BY <1>3, <1>4

(* Requests that wait for a launch are told of it.                          *)
Told(r) ==
    SameCall(r) \/ (/\ call[r].pc = "waiting" /\ call'[r].pc \in {"ensure", "answered"}
                    /\ call'[r].retry = call[r].retry)

LEMMA RejectTells ==
    ASSUME TypeOK, RejectWaiting, NEW r \in Requests
    PROVE  Told(r)
<1>1. call[r] \in Call
  BY RequestTypes
<1> QED
  BY <1>1 DEF RejectWaiting, Told, SameCall, Call

LEMMA ToldLines ==
    ASSUME HelperInv, posted' = posted, \A h \in Hosts : Stays(h), \A r \in Requests : Told(r)
    PROVE  LinesHold'
<1>1. ASSUME NEW q \in Mutating PROVE PostingKnown(q)'
  <2>1. PostingKnown(q) /\ posted'[q] = posted[q] /\ Told(q)
    BY HostAssumption DEF HelperInv
  <2>2. CASE SameCall(q)
    BY <2>1, <2>2, PostingStays, PressedStays
  <2>3. CASE ~SameCall(q)
    BY <2>1, <2>3 DEF Told, PostingKnown
  <2> QED
    BY <2>2, <2>3
<1>2. \A r \in Requests : call[r].pc = "pending" => SameCall(r)
  BY DEF Told
<1>3. \A r \in Requests : call'[r].pc = "pending" => call[r].pc = "pending"
  BY DEF Told, SameCall
<1> QED
  BY <1>1, <1>2, <1>3, SteadyLines

(* A host that has no line starts or fails to start.                        *)
LEMMA NewHostLines ==
    ASSUME HelperInv, UNCHANGED <<posted, line, call>>, NEW x \in Hosts, line[x] = <<>>,
           HeadWritten(x)', \A h \in Hosts : h # x => Stays(h)
    PROVE  LinesHold'
<1>0. /\ TypeOK /\ InLineOnce /\ Mutating \subseteq Requests
      /\ \A q \in Mutating : PostingKnown(q)
  BY HostAssumption DEF HelperInv
<1>1. ASSUME NEW h \in Hosts PROVE HeadWritten(h)'
  <2>1. CASE h # x
    BY <2>1, HeadStays DEF HelperInv
  <2> QED
    BY <2>1
<1>2. InLineOnce'
  BY <1>0 DEF InLineOnce
<1>3. ASSUME NEW q \in Mutating PROVE PostingKnown(q)'
  <2>1. SameCall(q) /\ PostingKnown(q) /\ posted'[q] = posted[q] /\ q \in Requests
    BY <1>0 DEF SameCall
  <2>2. ASSUME Pressed(q) PROVE Pressed(q)'
    <3>1. PICK g \in Hosts : actor[g] = "open" /\ proc[g].run = q /\ proc[g].stage = "down"
      BY <2>2 DEF Pressed
    <3>2. g # x
      BY <2>1, <3>1, PressedHead
    <3> QED
      BY <3>1, <3>2 DEF Pressed, Stays
  <2> QED
    BY <2>1, <2>2, PostingStays
<1> QED
  BY <1>1, <1>2, <1>3 DEF LinesHold, HelperInv

LEMMA LaunchingLines ==
    ASSUME HelperInv, Launching
    PROVE  LinesHold'
<1>0. TypeOK /\ LaunchAlone /\ \A h \in Hosts : HeadWritten(h)
  BY DEF HelperInv
<1>1. CASE LaunchSpawns /\ open /\ spawned < MaxHosts
  <2>1. PICK x \in Hosts : x = spawned + 1
    BY <1>0, <1>1, HostAssumption DEF TypeOK, Hosts
  <2>2. actor[x] = "none" /\ proc[x] = NoProcess
    BY <1>0, <2>1, HostAssumption DEF LaunchAlone, TypeOK
  <2>3. /\ actor'[x] = "open" /\ proc'[x] = [proc[x] EXCEPT !.alive = TRUE]
        /\ \A h \in Hosts : h # x => actor'[h] = actor[h] /\ proc'[h] = proc[h]
        /\ UNCHANGED <<posted, line, call>>
    BY <1>0, <1>1, <2>1 DEF LaunchSpawns, TypeOK
  <2>4. line[x] = <<>>
    BY <1>0, <2>2 DEF HeadWritten
  <2>5. proc'[x].run = NoReq /\ proc'[x].inbox = NoReq /\ proc'[x].stage = "idle"
    BY <2>2, <2>3 DEF NoProcess
  <2>6. HeadWritten(x)'
    BY <2>3, <2>5 DEF HeadWritten
  <2>7. \A h \in Hosts : h # x => Stays(h)
    BY <2>3 DEF Stays
  <2> QED
    BY <2>3, <2>4, <2>6, <2>7, NewHostLines
<1>2. CASE LaunchSpawns /\ ~(open /\ spawned < MaxHosts)
  <2>1. RejectWaiting /\ UNCHANGED <<actor, line, proc, posted>>
    BY <1>2 DEF LaunchSpawns
  <2>2. \A h \in Hosts : Stays(h)
    BY <2>1 DEF Stays
  <2> QED
    BY <1>0, <2>1, <2>2, ToldLines, RejectTells
<1>3. CASE LaunchReady
  <2>1. UNCHANGED <<actor, line, proc, posted>>
    BY <1>3 DEF LaunchReady
  <2>2. ASSUME NEW r \in Requests PROVE Told(r)
    <3>1. call[r] \in Call
      BY <1>0, RequestTypes
    <3>2. call'[r] = IF call[r].pc = "waiting" THEN [call[r] EXCEPT !.pc = "ensure"] ELSE call[r]
      BY <1>3 DEF LaunchReady
    <3> QED
      BY <3>1, <3>2 DEF Told, SameCall, Call
  <2>3. \A h \in Hosts : Stays(h)
    BY <2>1 DEF Stays
  <2> QED
    BY <2>1, <2>2, <2>3, ToldLines
<1>4. CASE LaunchFails
  <2>1. PICK x \in Hosts : x = launch.h
    BY <1>4, LaunchHost DEF LaunchFails
  <2>2. line[x] = <<>>
    BY <1>4, <2>1 DEF HelperInv, NewHostIdle, LaunchFails
  <2>3. /\ actor'[x] = "closed"
        /\ proc'[x] = [proc[x] EXCEPT !.kill = TRUE, !.term = TRUE]
        /\ \A h \in Hosts : h # x => actor'[h] = actor[h] /\ proc'[h] = proc[h]
        /\ UNCHANGED <<posted, line, call>>
    BY <1>0, <1>4, <2>1 DEF LaunchFails, TypeOK
  <2>4. proc[x] \in Process /\ HeadWritten(x)
    BY <1>0, HostTypes
  <2>5. proc'[x].run = proc[x].run /\ proc'[x].stage = proc[x].stage /\ proc'[x].term
    BY <2>3, <2>4 DEF Process
  <2>6. HeadWritten(x)'
    BY <2>2, <2>3, <2>4, <2>5 DEF HeadWritten
  <2>7. \A h \in Hosts : h # x => Stays(h)
    BY <2>3 DEF Stays
  <2> QED
    BY <2>2, <2>3, <2>6, <2>7, NewHostLines
<1>5. CASE LaunchFailed
  <2>1. RejectWaiting /\ UNCHANGED <<actor, line, proc, posted>>
    BY <1>5 DEF LaunchFailed
  <2>2. \A h \in Hosts : Stays(h)
    BY <2>1 DEF Stays
  <2> QED
    BY <1>0, <2>1, <2>2, ToldLines, RejectTells
<1> QED
  BY <1>1, <1>2, <1>3, <1>4, <1>5 DEF Launching

LEMMA CloseLines ==
    ASSUME HelperInv, Close
    PROVE  LinesHold'
<1>0. TypeOK /\ posted' = posted
  BY DEF HelperInv, Close
<1>1. CASE host = 0
  <2>1. UNCHANGED <<actor, line, proc, call>>
    BY <1>1 DEF Close
  <2>2. (\A h \in Hosts : Stays(h)) /\ \A r \in Requests : Told(r)
    BY <2>1 DEF Stays, Told, SameCall
  <2> QED
    BY <1>0, <2>2, ToldLines
<1>2. CASE host # 0
  <2>1. PICK h \in Hosts : h = host
    BY <1>0, <1>2, HostAssumption DEF TypeOK, Hosts
  <2>2. /\ Terminate(h) /\ call' = Disconnected(h)
        /\ proc'[h] = [proc[h] EXCEPT !.kill = TRUE, !.term = TRUE]
        /\ \A g \in Hosts : g # h => proc'[g] = proc[g]
    BY <1>0, <1>2, <2>1 DEF Close, TypeOK
  <2>3. proc[h] \in Process /\ HeadWritten(h)
    BY <1>0, HostTypes DEF HelperInv
  <2>4. /\ proc'[h].run = NoReq <=> proc'[h].stage = "idle"
        /\ proc'[h].term
    BY <2>2, <2>3 DEF HeadWritten, Process
  <2>5. Ends(h)
    BY <1>0, <2>2, <2>4 DEF Ends, Disconnects
  <2> QED
    BY <2>5, Ending
<1> QED
  BY <1>1, <1>2

-----------------------------------------------------------------------------
(* What remains of a step: no second helper, and a new host without a line  *)

LEMMA ExpireAlone ==
    ASSUME HelperInv, NEW r \in Requests, NEW abort \in BOOLEAN, Expire(r, abort)
    PROVE  LaunchAlone' /\ OneHelper'
<1> DEFINE h == call[r].h
<1>0. TypeOK /\ call[r] \in Call /\ h \in Hosts
  BY HostAssumption DEF HelperInv, TypeOK, Call, Expire, InLineOnce, Hosts
<1>1. UNCHANGED supervisor
  BY DEF Expire
<1>2. PICK n \in DOMAIN line[h] : Expires(r, h, n, abort)
  BY ExpireCases
<1> HIDE DEF h
<1>3. h <= spawned
  <2>1. line[h] # <<>>
    BY <1>0, <1>2, HostTypes
  <2> QED
    BY <1>0, <2>1, Spawned
<1>4. \A g \in Hosts : g # h => actor'[g] = actor[g] /\ proc'[g] = proc[g]
  BY <1>0, <1>2 DEF Expires, Terminate, TypeOK
<1>5. proc'[h].alive => proc[h].alive
  <2>1. proc'[h] = proc[h] \/ proc'[h] = [proc[h] EXCEPT !.term = TRUE]
    BY <1>0, <1>2 DEF Expires, TypeOK
  <2>2. proc[h] \in Process
    BY <1>0, HostTypes
  <2> QED
    BY <2>1, <2>2 DEF Process
<1> QED
  BY <1>0, <1>1, <1>3, <1>4, <1>5, HelperAlone

(* A step of one helper process.                                            *)
Helping(h) ==
    HelperReads(h) \/ Answering(h) \/ HelperPosts(h) \/ BadReply(h) \/ Exiting(h)

LEMMA ReplyKeeps ==
    ASSUME TypeOK, NEW h \in Hosts, NEW e \in Outcome, Reply(h, e)
    PROVE  \A g \in Hosts : g # h => proc'[g] = proc[g] /\ line'[g] = line[g]
  BY DEF Reply, TypeOK

LEMMA HelpingAlone ==
    ASSUME HelperInv, NEW h \in Hosts, Helping(h)
    PROVE  LaunchAlone' /\ OneHelper'
<1>0. TypeOK
  BY DEF HelperInv
<1>1. proc[h].alive
  BY AnswerCases DEF Helping, HelperReads, HelperPosts, BadReply, Exiting, HelperExits,
                     HelperKilled, HelperCrashes
<1>2. CASE Answering(h)
  <2>1. UNCHANGED <<supervisor, actor>> /\ \E e \in Outcome : Reply(h, e)
    BY <1>2, AnswerCases DEF Outcome
  <2> QED
    BY <1>0, <1>1, <2>1, ReplyKeeps, Spawned, HelperAlone
<1>3. CASE ~Answering(h)
  <2>1. UNCHANGED supervisor
    BY <1>3 DEF Helping, HelperReads, HelperPosts, BadReply, Exiting, HelperExits,
                HelperKilled, HelperCrashes, Gone
  <2>2. \A g \in Hosts : g # h => proc'[g] = proc[g]
    BY <1>0, <1>3 DEF Helping, HelperReads, HelperPosts, BadReply, Exiting, HelperExits,
                      HelperKilled, HelperCrashes, Gone, TypeOK
  <2>3. \A g \in Hosts : g # h => actor'[g] = actor[g]
    BY <1>0, <1>3 DEF Helping, HelperReads, HelperPosts, BadReply, Exiting, HelperExits,
                      HelperKilled, HelperCrashes, Gone, Terminate, TypeOK
  <2> QED
    BY <1>1, <2>1, <2>2, <2>3, Spawned, HelperAlone
<1> QED
  BY <1>2, <1>3

NoneJoins == \A h \in Hosts : line[h] = <<>> => line'[h] = <<>>

LEMMA IdleKept ==
    ASSUME HelperInv, NoneJoins, launch' = launch \/ launch'.stage # "hello"
    PROVE  NewHostIdle'
<1>1. CASE launch'.stage # "hello"
  BY <1>1 DEF NewHostIdle
<1>2. CASE launch'.stage = "hello"
  <2>1. launch' = launch /\ launch.stage = "hello"
    BY <1>2
  <2>2. PICK x \in Hosts : x = launch.h
    BY <2>1, LaunchHost
  <2>3. line'[x] = <<>>
    BY <2>1, <2>2 DEF HelperInv, NewHostIdle, NoneJoins
  <2> QED
    BY <2>1, <2>2, <2>3 DEF NewHostIdle
<1> QED
  BY <1>1, <1>2

LEMMA SteeringIdle ==
    ASSUME HelperInv, NEW r \in Requests, Steering(r)
    PROVE  NewHostIdle'
<1>0. TypeOK /\ LaunchAlone
  BY DEF HelperInv
<1>1. CASE EnsureHost(r) /\ open /\ host # 0 /\ actor[host] = "open"
  <2>1. launch.stage = "none" /\ launch' = launch
    BY <1>0, <1>1 DEF LaunchAlone, EnsureHost
  <2> QED
    BY <2>1 DEF NewHostIdle
<1>2. CASE EnsureHost(r) /\ ~(open /\ host # 0 /\ actor[host] = "open")
  <2>1. line' = line
    BY <1>2 DEF EnsureHost
  <2>2. launch' = launch \/ launch'.stage = "exit"
    BY <1>2 DEF EnsureHost
  <2> QED
    BY <2>1, <2>2, IdleKept DEF NoneJoins
<1>3. CASE ~EnsureHost(r)
  <2>1. UNCHANGED <<line, launch>>
    BY <1>3 DEF Steering, Request, Caught, FailedExited, supervisor
  <2> QED
    BY <2>1, IdleKept DEF NoneJoins
<1> QED
  BY <1>1, <1>2, <1>3

LEMMA ExpireIdle ==
    ASSUME HelperInv, NEW r \in Requests, NEW abort \in BOOLEAN, Expire(r, abort)
    PROVE  NewHostIdle'
<1> DEFINE h == call[r].h
<1>0. TypeOK /\ launch' = launch
  BY DEF HelperInv, Expire, supervisor
<1>1. PICK n \in DOMAIN line[h] : Expires(r, h, n, abort)
  BY ExpireCases
<1> HIDE DEF h
<1>2. NoneJoins
  <2> SUFFICES ASSUME NEW g \in Hosts, line[g] = <<>> PROVE line'[g] = <<>>
    BY DEF NoneJoins
  <2>1. CASE g = h
    BY <1>1, <2>1
  <2>2. CASE g # h
    BY <1>0, <1>1, <2>2 DEF Expires, Terminate, TypeOK
  <2> QED
    BY <2>1, <2>2
<1> QED
  BY <1>0, <1>2, IdleKept

LEMMA HelpingIdle ==
    ASSUME HelperInv, NEW h \in Hosts, Helping(h)
    PROVE  NewHostIdle'
<1>0. TypeOK
  BY DEF HelperInv
<1>1. CASE Answering(h)
  <2>1. /\ launch' = launch /\ proc[h].stage # "idle"
    BY <1>1, AnswerCases DEF supervisor
  <2>2. PICK e \in Outcome : Reply(h, e)
    BY <1>1, AnswerCases DEF Outcome
  <2>3. line[h] = <<>> => line'[h] = <<>>
    <3>1. CASE actor[h] = "open"
      BY <2>1, <3>1, RunsHead
    <3>2. CASE actor[h] # "open"
      BY <2>2, <3>2 DEF Reply
    <3> QED
      BY <3>1, <3>2
  <2>4. NoneJoins
    BY <1>0, <2>2, <2>3, ReplyKeeps DEF NoneJoins
  <2> QED
    BY <2>1, <2>4, IdleKept
<1>2. CASE ~Answering(h)
  <2>1. launch' = launch
    BY <1>2 DEF Helping, HelperReads, HelperPosts, BadReply, Exiting, HelperExits,
                HelperKilled, HelperCrashes, Gone, supervisor
  <2>2. line' = line \/ line' = [line EXCEPT ![h] = <<>>]
    BY <1>2 DEF Helping, HelperReads, HelperPosts, BadReply, Exiting, HelperExits,
                HelperKilled, HelperCrashes, Gone, Terminate
  <2>3. NoneJoins
    BY <1>0, <2>2 DEF NoneJoins, TypeOK
  <2> QED
    BY <2>1, <2>3, IdleKept
<1> QED
  BY <1>1, <1>2

LEMMA LaunchingIdle ==
    ASSUME HelperInv, Launching
    PROVE  NewHostIdle'
<1>0. TypeOK /\ LaunchAlone /\ \A h \in Hosts : HeadWritten(h)
  BY DEF HelperInv
<1>1. line' = line
  BY DEF Launching, LaunchSpawns, LaunchReady, LaunchFails, LaunchFailed
<1>2. CASE LaunchSpawns /\ open /\ spawned < MaxHosts
  <2>1. PICK x \in Hosts : x = spawned + 1
    BY <1>0, <1>2, HostAssumption DEF TypeOK, Hosts
  <2>2. actor[x] = "none"
    BY <1>0, <2>1, HostAssumption DEF LaunchAlone, TypeOK
  <2>3. line[x] = <<>> /\ launch'.h = x
    BY <1>0, <1>2, <2>1, <2>2 DEF HeadWritten, LaunchSpawns
  <2> QED
    BY <1>1, <2>3 DEF NewHostIdle
<1>3. CASE ~(LaunchSpawns /\ open /\ spawned < MaxHosts)
  <2>1. launch'.stage # "hello"
    BY <1>0, <1>3 DEF Launching, LaunchSpawns, LaunchReady, LaunchFails, LaunchFailed, NoLaunch,
                      TypeOK
  <2> QED
    BY <2>1 DEF NewHostIdle
<1> QED
  BY <1>2, <1>3

LEMMA CloseIdle ==
    ASSUME HelperInv, Close
    PROVE  NewHostIdle'
<1>1. launch' = launch /\ (line' = line \/ line' = [line EXCEPT ![host] = <<>>])
  BY DEF Close, Terminate
<1>2. NoneJoins
  BY <1>1 DEF NoneJoins, HelperInv, TypeOK
<1> QED
  BY <1>1, <1>2, IdleKept

-----------------------------------------------------------------------------
(* The invariant                                                            *)

LEMMA InitHelper == Init => HelperInv
<1> SUFFICES ASSUME Init PROVE HelperInv
  OBVIOUS
<1>1. TypeOK
  BY InitType
<1>2. LaunchAlone /\ OneHelper /\ NewHostIdle /\ InLineOnce
  BY DEF Init, LaunchAlone, OneHelper, NewHostIdle, InLineOnce, NoLaunch, NoProcess
<1>3. \A h \in Hosts : HeadWritten(h)
  BY DEF Init, HeadWritten, NoProcess
<1>4. \A r \in Requests \ Mutating : posted[r] = 0
  BY DEF Init
<1>5. \A r \in Mutating : PostingKnown(r)
  BY HostAssumption DEF Init, PostingKnown
<1> QED
  BY <1>1, <1>2, <1>3, <1>4, <1>5 DEF HelperInv

LEMMA SteeringLines ==
    ASSUME HelperInv, NEW r \in Requests, Steering(r)
    PROVE  LinesHold'
<1>1. CASE EnsureHost(r)
  BY <1>1, EnsureLines, SubmitLines
<1>2. CASE ~EnsureHost(r)
  BY <1>2, RequestLines DEF Steering
<1> QED
  BY <1>1, <1>2

LEMMA HelpingLines ==
    ASSUME HelperInv, NEW h \in Hosts, Helping(h)
    PROVE  LinesHold'
<1>1. CASE Answering(h)
  <2>1. /\ proc[h].stage # "idle" /\ posted' = posted /\ actor' = actor
        /\ \/ Reply(h, "ok") \/ Reply(h, "unknown")
           \/ Reply(h, "definite") /\ proc[h].stage = "read"
    BY <1>1, AnswerCases
  <2>2. "ok" \in Outcome /\ "unknown" \in Outcome /\ "definite" \in Outcome
    BY DEF Outcome
  <2>3. CASE Reply(h, "ok")
    BY <2>1, <2>2, <2>3, ReplyLines
  <2>4. CASE Reply(h, "unknown")
    BY <2>1, <2>2, <2>4, ReplyLines
  <2>5. CASE Reply(h, "definite") /\ proc[h].stage = "read"
    BY <2>1, <2>2, <2>5, ReplyLines
  <2> QED
    BY <2>1, <2>3, <2>4, <2>5
<1>2. CASE ~Answering(h)
  BY <1>2, ReadLines, PostLines, BadReplyLines, ExitLines DEF Helping
<1> QED
  BY <1>1, <1>2

LEMMA NextHelper == HelperInv /\ [Next]_vars => HelperInv'
<1> SUFFICES ASSUME HelperInv, [Next]_vars PROVE HelperInv'
  OBVIOUS
<1>0. TypeOK' /\ LaunchAlone' /\ OneHelper' /\ NewHostIdle' /\ LinesHold' => HelperInv'
  BY DEF HelperInv, LinesHold
<1>1. ASSUME NEW r \in Requests, Steering(r) PROVE HelperInv'
  BY <1>0, <1>1, SteeringType, SteeringAlone, SteeringIdle, SteeringLines DEF HelperInv
<1>2. ASSUME NEW r \in Requests, NEW abort \in BOOLEAN, Expire(r, abort) PROVE HelperInv'
  BY <1>0, <1>2, ExpireType, ExpireAlone, ExpireIdle, ExpireLines
<1>3. ASSUME NEW h \in Hosts, Helping(h) PROVE HelperInv'
  BY <1>0, <1>3, HelperType, HelpingAlone, HelpingIdle, HelpingLines DEF Helping
<1>4. CASE Launching
  BY <1>0, <1>4, LaunchingType, LaunchingAlone, LaunchingIdle, LaunchingLines
<1>5. CASE Close
  BY <1>0, <1>5, CloseType, CloseAlone, CloseIdle, CloseLines
<1>6. CASE UNCHANGED vars
  <2>1. TypeOK' /\ LaunchAlone' /\ OneHelper' /\ NewHostIdle'
    BY <1>6 DEF HelperInv, TypeOK, LaunchAlone, OneHelper, NewHostIdle, NoLaunch, NoProcess,
                vars, Process, Call, Hosts
  <2>2. LinesHold'
    <3>1. (\A h \in Hosts : Stays(h)) /\ (\A r \in Requests : Told(r)) /\ posted' = posted
      BY <1>6 DEF vars, Stays, Told, SameCall
    <3> QED
      BY <3>1, ToldLines
  <2> QED
    BY <1>0, <2>1, <2>2
<1>7. CASE Next
  BY <1>1, <1>2, <1>3, <1>4, <1>5, <1>7, NextCases DEF Helping
<1> QED
  BY <1>6, <1>7

(* The invariant of the supervision holds in every reachable state: types,  *)
(* who may be alive while a process is launched, retired or closed, what    *)
(* the pipe of a host holds, and which mutations were posted.               *)
THEOREM HelperInvariant == Spec => []HelperInv
<1> QED
  BY InitHelper, NextHelper, PTL DEF Spec

(* Whoever restarts, times out, aborts or closes: at most one helper        *)
(* process is alive, no mutation is posted twice, and a definite failure    *)
(* that a host reports means that no event was posted.                      *)
THEOREM HelperHeldUnderControl == Spec => []HelperUnderControl
<1>1. HelperInv => HelperUnderControl
  <2> SUFFICES ASSUME HelperInv PROVE HelperUnderControl
    OBVIOUS
  <2>1. \A r \in Requests : posted[r] <= 1
    BY DEF HelperInv, PostingKnown
  <2>2. DefiniteIsDefinite
    BY DEF HelperInv, PostingKnown, DefiniteIsDefinite
  <2> QED
    BY <2>1, <2>2 DEF HelperInv, HelperUnderControl, PostedOnce
<1> QED
  BY <1>1, HelperInvariant, PTL
=============================================================================
