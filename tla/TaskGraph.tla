------------------------------ MODULE TaskGraph ------------------------------
(***************************************************************************)
(* The plan of one goal: tasks that wait for other tasks, one file each.   *)
(* The agents of the goal's conversations change it through the registry's *)
(* tools, one call at a time; requests of the window create and complete   *)
(* tasks beside them. A call lists or reads the files, decides on what it  *)
(* read and replaces one file; the last writer wins. No task is ever       *)
(* deleted. Left out: evidence and revisions of a task, and what a         *)
(* completion answers about the tasks it unlocked.                         *)
(***************************************************************************)
EXTENDS Naturals, Sequences, FiniteSets, SequencesExt

CONSTANTS
  Agents,   \* conversations whose agent works on the goal
  Requests, \* requests of the window, each made once
  OpsOf,    \* what each of them may ask for
  MaxTasks,
  MaxFaults \* saves that fail

Callers == Agents \cup Requests
Ids == 1..MaxTasks
Mission == 1 \* the planning task made with the goal; the agents' current task
Updates == {"start", "block", "fail", "attach"}
Batches == {"many", "badMany"}

\* What the constants have to be; the module of the run assumes it.
PlanAssumption ==
  /\ MaxTasks \in Nat \ {0} /\ MaxFaults \in Nat /\ Agents \cap Requests = {}
  /\ \A a \in Agents : OpsOf[a] \subseteq Updates \cup Batches
                                     \cup {"create", "complete", "depend", "work"}
  /\ \A w \in Requests : OpsOf[w] \subseteq {"create", "complete"}

VARIABLES
  tasks,     \* the files: status and dependencies by task id
  pc, call,  \* where each caller is, and what it asked for
  left,      \* files of its listing it has yet to read
  seen,      \* what it read, then what it saves; a new task has no id yet
  made,      \* tasks that its batch has saved so far
  did,       \* its call changed the files or the repository
  told,      \* an agent's last answer
  faults

Statuses == {"queued", "running", "blocked", "failed", "completed"}
Task == [status : Statuses, deps : SUBSET Ids]

held == <<pc, call, left, seen, made, did>>
vars == <<tasks, held, told, faults>>

NoCall == [op |-> "none", t |-> 0, d |-> {}]
NoAnswer == [success |-> FALSE, recoverable |-> FALSE, logged |-> FALSE, did |-> FALSE]
NewTask == 0

IsList(g) == DOMAIN g \subseteq Ids \cup {NewTask} /\ g \in [DOMAIN g -> Task]

TypeOK ==
  /\ IsList(tasks) /\ Mission \in DOMAIN tasks /\ NewTask \notin DOMAIN tasks
  /\ pc \in [Callers -> {"idle", "read", "save", "audit", "failed", "noting", "note", "over"}]
  /\ call \in [Callers -> [op : Updates \cup Batches
                                \cup {"none", "create", "complete", "depend", "work"},
                           t : Ids \cup {0}, d : SUBSET Ids]]
  /\ left \in [Callers -> SUBSET Ids]
  /\ seen = [c \in Callers |-> seen[c]] /\ \A c \in Callers : IsList(seen[c])
  /\ made \in [Callers -> SUBSET Ids] /\ did \in [Callers -> BOOLEAN]
  /\ told \in [Agents -> [success : BOOLEAN, recoverable : BOOLEAN, logged : BOOLEAN,
                          did : BOOLEAN]]
  /\ faults \in 0..MaxFaults

Init ==
  /\ tasks = [i \in {Mission} |-> [status |-> "queued", deps |-> {}]]
  /\ pc = [c \in Callers |-> "idle"]
  /\ call = [c \in Callers |-> NoCall]
  /\ left = [c \in Callers |-> {}]
  /\ seen = [c \in Callers |-> <<>>]
  /\ made = [c \in Callers |-> {}]
  /\ did = [c \in Callers |-> FALSE]
  /\ told = [a \in Agents |-> NoAnswer]
  /\ faults = 0

(***************************************************************************)
(* The pure functions over a list of tasks, given by id; ids are in order  *)
(* of creation.                                                            *)
(***************************************************************************)

\* What a task of the list waits for in it.
Waits(g, i) == g[i].deps \cap DOMAIN g

\* To is in every set that has from and all that its members wait for. A task that is
\* not in the list leads to itself only.
reaches(g, from, to) ==
  \/ from = to
  \/ /\ from \in DOMAIN g
     /\ \A S \in SUBSET DOMAIN g :
          from \in S /\ (\A i \in S : Waits(g, i) \subseteq S) => to \in S

Terminal(status) == status \in {"completed", "failed"}

\* Mutant: a task follows as soon as one of its dependencies is ordered.
MutFreed(g, queue, n) == {i \in (DOMAIN g) \ Range(queue) : queue[n] \in g[i].deps}

\* Those whose last open dependency is the nth of the queue.
Freed(g, queue, n) ==
  {i \in DOMAIN g : /\ queue[n] \in g[i].deps
                    /\ Waits(g, i) \subseteq {queue[k] : k \in 1..n}}

\* Kahn's algorithm: the queue is the order. A shorter one means a cycle. What is
\* freed at once is queued in any order.
Kahn(g) ==
  LET queue[n \in 0..Cardinality(DOMAIN g)] ==
        IF n = 0 THEN SetToSeq({i \in DOMAIN g : Waits(g, i) = {}})
        ELSE IF n > Len(queue[n - 1]) THEN queue[n - 1]
        ELSE queue[n - 1] \o SetToSeq(Freed(g, queue[n - 1], n))
  IN queue

topologicalOrder(g) == Kahn(g)[Cardinality(DOMAIN g)]

(***************************************************************************)
(* A call: it lists the files, or reads one.                               *)
(***************************************************************************)

\* A list with one task set.
With(g, i, task) == [j \in DOMAIN g \cup {i} |-> IF j = i THEN task ELSE g[j]]

Go(c, to) == pc' = [pc EXCEPT ![c] = to]

\* The call is over; what it held goes with it.
Finish(c) ==
  /\ Go(c, IF c \in Agents THEN "idle" ELSE "over")
  /\ call' = [call EXCEPT ![c] = NoCall]
  /\ left' = [left EXCEPT ![c] = {}]
  /\ seen' = [seen EXCEPT ![c] = <<>>]
  /\ made' = [made EXCEPT ![c] = {}]
  /\ did' = [did EXCEPT ![c] = FALSE]

\* requireOwnedTask wants the task to exist; an unknown dependency is looked for by
\* the operation itself.
Ask(c, op, t, d) ==
  /\ pc[c] = "idle" /\ op \in OpsOf[c]
  /\ op \in Updates \cup {"complete", "depend"} => t \in DOMAIN tasks
  /\ op \in {"create", "work"} \cup Batches => t = Mission
  /\ op = "depend" => \E x \in Ids : d = {x}
  /\ op \notin {"create", "depend"} => d = {}
  /\ call' = [call EXCEPT ![c] = [op |-> op, t |-> t, d |-> d]]
  /\ did' = [did EXCEPT ![c] = op = "work"]
  /\ told' = IF c \in Agents THEN [told EXCEPT ![c] = NoAnswer] ELSE told
  /\ Go(c, IF op = "work" THEN "audit" ELSE "read")
  /\ left' = [left EXCEPT ![c] = IF op = "work" THEN {} ELSE IF op \in Updates THEN {t}
                                 ELSE DOMAIN tasks]
  /\ UNCHANGED <<tasks, seen, made, faults>>

\* One file after the other, in the order of the directory.
ReadFile(c, i) ==
  /\ pc[c] = "read" /\ i \in left[c]
  /\ left' = [left EXCEPT ![c] = @ \ {i}]
  /\ seen' = [seen EXCEPT ![c] = With(@, i, tasks[i])]
  /\ UNCHANGED <<tasks, pc, call, made, did, told, faults>>

HasRead(c, ops) == pc[c] = "read" /\ left[c] = {} /\ call[c].op \in ops

(***************************************************************************)
(* What it decides.                                                        *)
(***************************************************************************)

\* A thrown error: an agent's call is still audited, a request is answered.
Throw(c) ==
  IF c \in Agents THEN Go(c, "failed") /\ UNCHANGED <<call, left, seen, made, did>>
  ELSE Finish(c)

\* What is to be saved.
Keep(c, i, task) ==
  /\ seen' = [seen EXCEPT ![c] = [j \in {i} |-> task]]
  /\ Go(c, "save")
  /\ UNCHANGED <<call, left, made, did>>

\* The dependencies of a new task: those asked for, or the batch's first item. The
\* second item of a bad batch names one that is not an earlier item.
Wanted(c) == IF call[c].op = "many" THEN made[c] ELSE call[c].d
BadItem(c) == call[c].op = "badMany" /\ made[c] # {}

\* Mutant: the references are taken as given.
MutKnown(c, d) == TRUE

\* createTask and addDependency: what is referred to was in the listing.
Known(c, d) == d \subseteq DOMAIN seen[c]

Create(c) ==
  /\ HasRead(c, {"create"} \cup Batches)
  /\ IF Known(c, Wanted(c)) /\ ~BadItem(c)
     THEN Keep(c, NewTask, [status |-> "queued", deps |-> Wanted(c)])
     ELSE Throw(c)
  /\ UNCHANGED <<tasks, told, faults>>

\* start wants a queued task, block and fail one that is not terminal.
Allowed(op, status) ==
  (op = "start" => status = "queued") /\ (op \in {"block", "fail"} => ~Terminal(status))

Patched(op, status) ==
  IF op = "start" THEN "running" ELSE IF op = "block" THEN "blocked"
  ELSE IF op = "fail" THEN "failed" ELSE status

Update(c) ==
  LET t == call[c].t
      op == call[c].op
  IN /\ HasRead(c, Updates)
     /\ IF Allowed(op, seen[c][t].status)
        THEN Keep(c, t, [seen[c][t] EXCEPT !.status = Patched(op, @)])
        ELSE Throw(c)
     /\ UNCHANGED <<tasks, told, faults>>

\* completeTask refuses a terminal task.
Complete(c) ==
  LET was == seen[c][call[c].t]
  IN /\ HasRead(c, {"complete"})
     /\ IF Terminal(was.status) THEN Throw(c)
        ELSE Keep(c, call[c].t, [was EXCEPT !.status = "completed"])
     /\ UNCHANGED <<tasks, told, faults>>

\* Mutant: only a direct loop is refused.
MutCloses(g, t, d) == t = d \/ t \in g[d].deps

\* addDependency: the dependency already reaches the task.
Closes(g, t, d) == t = d \/ reaches(g, d, t)

\* An edge that is there is no error: the document is saved as it was read.
Depend(c) ==
  LET t == call[c].t
      d == CHOOSE x \in call[c].d : TRUE
      g == seen[c]
  IN /\ HasRead(c, {"depend"})
     /\ IF Known(c, {d}) /\ (d \in g[t].deps \/ ~Closes(g, t, d))
        THEN Keep(c, t, [g[t] EXCEPT !.deps = @ \cup {d}])
        ELSE Throw(c)
     /\ UNCHANGED <<tasks, told, faults>>

(***************************************************************************)
(* The save, the audit entry and the answer.                               *)
(***************************************************************************)

Target(c) == CHOOSE i \in DOMAIN seen[c] : TRUE

\* The file is replaced; a new task gets the next id.
Replace(c, i) ==
  /\ i \in Ids /\ (Target(c) = NewTask => i \notin DOMAIN tasks)
  /\ Target(c) # NewTask => i = Target(c)
  /\ Target(c) = NewTask => \A j \in Ids \ DOMAIN tasks : i <= j
  /\ tasks' = With(tasks, i, seen[c][Target(c)])

\* The first item of a batch is followed by the second's listing; a request is
\* answered; an agent's call is audited first, unless it was only the note.
Save(c) ==
  /\ pc[c] \in {"save", "note"}
  /\ \E i \in Ids :
       /\ Replace(c, i)
       /\ IF call[c].op \in Batches /\ made[c] = {}
          THEN /\ Go(c, "read")
               /\ left' = [left EXCEPT ![c] = DOMAIN tasks']
               /\ seen' = [seen EXCEPT ![c] = <<>>]
               /\ made' = [made EXCEPT ![c] = {i}]
               /\ did' = [did EXCEPT ![c] = TRUE]
               /\ UNCHANGED call
          ELSE IF c \in Agents /\ pc[c] = "save"
          THEN /\ Go(c, "audit")
               /\ did' = [did EXCEPT ![c] = TRUE]
               /\ UNCHANGED <<call, left, seen, made>>
          ELSE Finish(c)
  /\ UNCHANGED <<told, faults>>

\* The temporary file fails, or the permissions of the file that replaced the old one.
SaveFails(c, landed) ==
  /\ pc[c] \in {"save", "note"} /\ faults < MaxFaults
  /\ IF landed THEN \E i \in Ids : Replace(c, i) ELSE UNCHANGED tasks
  /\ IF c \in Agents /\ pc[c] = "save"
     THEN /\ Go(c, "failed")
          /\ did' = [did EXCEPT ![c] = @ \/ landed]
          /\ UNCHANGED <<call, left, seen, made>>
     ELSE Finish(c)
  /\ faults' = faults + 1
  /\ UNCHANGED told

\* Mutant: a call that could not be recorded is answered like any other.
MutSuccess(success, recorded) == success

\* A write that succeeded without a record has an unknown outcome, and must not be
\* retried.
Success(success, recorded) == success /\ recorded

\* The codes of the kernel's errors all count as recoverable. Work in the repository
\* that succeeded is noted on the current task once the answer is decided.
Audit(c, recorded) ==
  LET done == pc[c] = "audit"
  IN /\ pc[c] \in {"audit", "failed"}
     /\ told' = [told EXCEPT ![c] = [success |-> Success(done, recorded), recoverable |-> ~done,
                                     logged |-> recorded, did |-> did[c]]]
     /\ IF call[c].op = "work" /\ Success(done, recorded)
        THEN Go(c, "noting") /\ UNCHANGED <<call, left, seen, made, did>>
        ELSE Finish(c)
     /\ UNCHANGED <<tasks, faults>>

ReadNote(c) ==
  /\ pc[c] = "noting"
  /\ seen' = [seen EXCEPT ![c] = [j \in {Mission} |-> tasks[Mission]]]
  /\ Go(c, "note")
  /\ UNCHANGED <<tasks, call, left, made, did, told, faults>>

Next ==
  \E c \in Callers :
    \/ \E op \in OpsOf[c], t \in Ids, d \in SUBSET Ids : Ask(c, op, t, d)
    \/ \E i \in Ids : ReadFile(c, i)
    \/ Create(c) \/ Update(c) \/ Complete(c) \/ Depend(c)
    \/ Save(c) \/ \E landed \in BOOLEAN : SaveFails(c, landed)
    \/ \E recorded \in BOOLEAN : Audit(c, recorded)
    \/ ReadNote(c)

Spec == Init /\ [][Next]_vars

-----------------------------------------------------------------------------
\* What a task waits for exists.
DependenciesExist == \A i \in DOMAIN tasks : tasks[i].deps \subseteq DOMAIN tasks

\* No tasks wait for each other in a circle: one of any that are taken waits for
\* none of the others.
Acyclic(g, S) == \A T \in SUBSET S : T # {} => \E i \in T : g[i].deps \cap T = {}

Open(g) == {i \in DOMAIN g : ~Terminal(g[i].status)}

\* Two agents that read the same plan can each save one half of a circle.
OneAgent == \A a, b \in Agents : a = b

\* Tasks that are not done never wait for each other in a circle, whatever stale
\* copy a completion writes beside the one agent of the goal: an edge a completion
\* forgets and another brings back belongs to a task that is done.
NoneWaitInCircle == Acyclic(tasks, Open(tasks))

\* The order has each task once, after all that it waits for, and is complete for a
\* graph without cycles and for no other.
OrderIsTopological ==
  LET order == topologicalOrder(tasks)
  IN /\ \A m, n \in 1..Len(order) : order[m] = order[n] => m = n
     /\ \A n \in 1..Len(order) : Waits(tasks, order[n]) \subseteq {order[k] : k \in 1..n-1}
     /\ Len(order) = Cardinality(DOMAIN tasks) <=> Acyclic(tasks, DOMAIN tasks)

\* A tool call of an agent that is answered as done is in the audit log.
DoneIsLogged == \A a \in Agents : told[a].success => told[a].logged

(***************************************************************************)
(* What makes them hold: the inductive invariant.                          *)
(***************************************************************************)

\* What a caller read or will save refers to tasks that exist.
SeenExist ==
  \A c \in Callers :
    /\ left[c] \cup made[c] \subseteq DOMAIN tasks
    /\ DOMAIN seen[c] \subseteq DOMAIN tasks \cup {NewTask}
    /\ \A i \in DOMAIN seen[c] : seen[c][i].deps \subseteq DOMAIN tasks

\* Where a call stands: what it reads is there, what it saves is one task.
CallsInStep ==
  \A c \in Callers :
    /\ pc[c] = "idle" => seen[c] = <<>>
    /\ pc[c] \notin {"idle", "over"} => call[c].op \in OpsOf[c]
    /\ call[c].op = "depend" => \E x \in Ids : call[c].d = {x}
    /\ pc[c] = "read" =>
         /\ NewTask \notin DOMAIN seen[c] /\ left[c] \cap DOMAIN seen[c] = {}
         /\ call[c].op \in Updates \cup {"complete", "depend"} =>
              call[c].t \in left[c] \cup DOMAIN seen[c]
    /\ pc[c] \in {"save", "note"} => \E i \in Ids \cup {NewTask} : DOMAIN seen[c] = {i}
    /\ pc[c] \in {"noting", "note"} => c \in Agents

\* While the agent reads, a task it has read is as it read it, or done; what an open
\* task waits for belongs to the same listing.
ReadsHold ==
  \A a \in Agents : pc[a] = "read" =>
    LET listed == left[a] \cup DOMAIN seen[a]
    IN /\ \A i \in DOMAIN seen[a] : i \in Open(tasks) => seen[a][i] = tasks[i]
       /\ call[a].op = "depend" =>
            /\ \A i \in left[a] \cap Open(tasks) : tasks[i].deps \subseteq listed
            /\ \A i \in Open(seen[a]) : seen[a][i].deps \subseteq listed

\* A request of the window saves a new task or a completed one.
RequestsComplete ==
  \A w \in Requests : pc[w] \in {"save", "note"} =>
    \A i \in DOMAIN seen[w] : i = NewTask \/ Terminal(seen[w][i].status)

\* The plan as the agent has it: what it read and may save as open, over the files.
View(a) ==
  [i \in DOMAIN tasks |-> IF i \in Open(seen[a]) THEN seen[a][i] ELSE tasks[i]]

ViewsHold == \A a \in Agents : Acyclic(View(a), Open(View(a)))

PlanInv ==
  /\ TypeOK /\ DependenciesExist /\ SeenExist /\ CallsInStep /\ ReadsHold
  /\ RequestsComplete /\ NoneWaitInCircle /\ ViewsHold /\ DoneIsLogged

PlanHolds == DependenciesExist /\ NoneWaitInCircle /\ OrderIsTopological /\ DoneIsLogged

\* completeTask: "rejected with TASK_INVALID_TRANSITION so stale workers cannot
\* rewrite history" (task-graph.ts:141). Not so: an update that read the task
\* before its completion writes the old status back.
HistoryKept ==
  [][\A i \in DOMAIN tasks : Terminal(tasks[i].status) =>
                               tasks'[i].status = tasks[i].status]_tasks

\* A failure the agent may retry changed nothing. Not so for a batch whose second
\* item is refused, and for a save that fails after the file was replaced.
RetryableMeansNothingDone ==
  \A a \in Agents : told[a].recoverable => ~told[a].did
=============================================================================
