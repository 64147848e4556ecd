------------------------------ MODULE Terminals ------------------------------
(***************************************************************************)
(* Interactive terminals of one project: creation with its limit, input    *)
(* that is withheld until it forms a whole command, one-shot commands that  *)
(* share the terminal's directory, exit and kill. A shell is one process   *)
(* group. What a client types is a sequence of pieces; the classifier is   *)
(* modelled by what it must tell apart. Output is left out.                *)
(***************************************************************************)
EXTENDS Naturals, FiniteSets, Sequences, SequencesExt

CONSTANTS
  Terminal,    \* create() calls; each names the terminal it may make
  Execs,       \* exec() calls
  MaxSessions, \* MAX_SESSIONS
  MaxPending,  \* MAX_PENDING_INPUT_BYTES, in pieces
  MaxWrites    \* writes explored

TerminalAssumption ==
  MaxSessions \in Nat \ {0} /\ MaxPending \in Nat \ {0} /\ MaxWrites \in Nat

VARIABLES
  stage,   \* a terminal: create() in flight, in the map, being killed, gone
  shell,   \* its process: "none", "running", "exited"; after SIGKILL "doomed"
  temp,    \* its private HOME
  pending, \* input withheld
  cwd,     \* the directory it tracks
  exec,    \* the one-shot commands
  linked,  \* the subdirectory leads out of the project
  fed,     \* whole commands a shell was given (history)
  ran,     \* where one-shot commands were started (history)
  writes

vars == <<stage, shell, temp, pending, cwd, exec, linked, fed, ran, writes>>

\* "half" has no newline; after it any line completes a command that the policy
\* denies. "open" ends inside a quote, which the next line closes.
Pieces == {"half", "line", "change", "open"}
Whole(s) == Last(s) # "half" /\ Last(s) # "open"
Verdict(s) == IF "half" \in Range(s) THEN "deny"
              ELSE IF "change" \in Range(s) THEN "write" ELSE "read"

\* A one-shot command: its await, its terminal, whether the directory is the one
\* to start in or the one it came back with, that directory, and (history) whether
\* a link changed since it was resolved.
NoExec == [pc |-> "idle", t |-> "none", phase |-> "start", at |-> "root", stale |-> FALSE]

Init ==
  /\ stage = [t \in Terminal |-> "none"]
  /\ shell = [t \in Terminal |-> "none"]
  /\ temp = [t \in Terminal |-> "none"]
  /\ pending = [t \in Terminal |-> <<>>]
  /\ cwd = [t \in Terminal |-> "root"]
  /\ exec = [e \in Execs |-> NoExec]
  /\ linked = FALSE
  /\ fed = {} /\ ran = {} /\ writes = 0

Sessions == {t \in Terminal : stage[t] = "listed"}

(***************************************************************************)
(* Life of a terminal.                                                     *)
(***************************************************************************)

\* create() compares the map with the limit, then awaits four file operations.
Create(t) ==
  /\ stage[t] = "none"
  /\ stage' = [stage EXCEPT ![t] = IF Cardinality(Sessions) >= MaxSessions
                                   THEN "refused" ELSE "creating"]
  /\ UNCHANGED <<shell, temp, pending, cwd, exec, linked, fed, ran, writes>>

\* The shell starts and joins the map in one go; without a sandbox or a process
\* the private directory is removed again.
Spawn(t) ==
  /\ stage[t] = "creating"
  /\ \/ /\ stage' = [stage EXCEPT ![t] = "listed"]
        /\ shell' = [shell EXCEPT ![t] = "running"]
        /\ temp' = [temp EXCEPT ![t] = "present"]
     \/ /\ stage' = [stage EXCEPT ![t] = "refused"]
        /\ temp' = [temp EXCEPT ![t] = "removed"]
        /\ UNCHANGED shell
  /\ UNCHANGED <<pending, cwd, exec, linked, fed, ran, writes>>

\* markExited: the entry stays in the map, its private directory goes.
ShellExits(t) ==
  /\ shell[t] \in {"running", "doomed"}
  /\ shell' = [shell EXCEPT ![t] = "exited"]
  /\ temp' = [temp EXCEPT ![t] = "removed"]
  /\ UNCHANGED <<stage, pending, cwd, exec, linked, fed, ran, writes>>

\* kill() takes the terminal off the map first; SIGTERM may be ignored.
Kill(t) ==
  /\ stage[t] = "listed"
  /\ stage' = [stage EXCEPT ![t] = "killing"]
  /\ UNCHANGED <<shell, temp, pending, cwd, exec, linked, fed, ran, writes>>

GraceOver(t) ==
  /\ stage[t] = "killing" /\ shell[t] = "running"
  /\ shell' = [shell EXCEPT ![t] = "doomed"]
  /\ UNCHANGED <<stage, temp, pending, cwd, exec, linked, fed, ran, writes>>

\* cleanupTemp, once the shell is gone or one second after SIGKILL.
KillEnds(t) ==
  /\ stage[t] = "killing" /\ shell[t] # "running"
  /\ stage' = [stage EXCEPT ![t] = "gone"]
  /\ temp' = [temp EXCEPT ![t] = "removed"]
  /\ UNCHANGED <<shell, pending, cwd, exec, linked, fed, ran, writes>>

(***************************************************************************)
(* Input.                                                                  *)
(***************************************************************************)

\* Mutant: each write is classified on its own.
MutClassified(t, p) == <<p>>

\* What the classifier is shown.
Classified(t, p) == Append(pending[t], p)

\* Held back, thrown away as too long, refused, or given to the shell whole.
Write(t, p, approved) ==
  LET input == Append(pending[t], p) IN
  /\ stage[t] = "listed" /\ shell[t] = "running"
  /\ writes < MaxWrites /\ writes' = writes + 1
  /\ IF Len(input) > MaxPending
     THEN pending' = [pending EXCEPT ![t] = <<>>] /\ UNCHANGED fed
     ELSE IF ~Whole(input)
     THEN pending' = [pending EXCEPT ![t] = input] /\ UNCHANGED fed
     ELSE /\ pending' = [pending EXCEPT ![t] = <<>>]
          /\ fed' = IF \/ Verdict(Classified(t, p)) = "deny"
                       \/ Verdict(Classified(t, p)) = "write" /\ ~approved
                    THEN fed
                    ELSE fed \cup {[input |-> input, approved |-> approved]}
  /\ UNCHANGED <<stage, shell, temp, cwd, exec, linked, ran>>

(***************************************************************************)
(* One-shot commands. normalizeCwd awaits realpath, then stat; the path it  *)
(* returns is compared with the root and used, and what it leads to can     *)
(* change before each of these.                                            *)
(***************************************************************************)

Real(d) == IF d = "sub" /\ linked THEN "outside" ELSE d

Relink ==
  /\ linked' = ~linked
  /\ exec' = [e \in Execs |-> IF exec[e].pc \in {"stat", "check"}
                              THEN [exec[e] EXCEPT !.stale = TRUE] ELSE exec[e]]
  /\ UNCHANGED <<stage, shell, temp, pending, cwd, fed, ran, writes>>

Exec(e, t) ==
  /\ exec[e].pc = "idle"
  /\ stage[t] = "listed" /\ shell[t] = "running"
  /\ exec' = [exec EXCEPT ![e] = [NoExec EXCEPT !.pc = "realpath", !.t = t, !.at = cwd[t]]]
  /\ UNCHANGED <<stage, shell, temp, pending, cwd, linked, fed, ran, writes>>

\* The directory may also be gone, or no directory any more.
Realpath(e) ==
  /\ exec[e].pc = "realpath"
  /\ \/ exec' = [exec EXCEPT ![e].pc = "stat", ![e].at = Real(exec[e].at), ![e].stale = FALSE]
     \/ exec' = [exec EXCEPT ![e].pc = "done"]
  /\ UNCHANGED <<stage, shell, temp, pending, cwd, linked, fed, ran, writes>>

Stat(e) ==
  /\ exec[e].pc = "stat"
  /\ \E pc \in {"check", "done"} : exec' = [exec EXCEPT ![e].pc = pc]
  /\ UNCHANGED <<stage, shell, temp, pending, cwd, linked, fed, ran, writes>>

\* isWithinRoot compares paths.
Inside(d) == d # "outside"

\* The check, the verdict on the command and the spawn are one turn; the process
\* starts where the path leads by then.
Start(e) ==
  /\ exec[e].pc = "check" /\ exec[e].phase = "start"
  /\ \/ /\ ~Inside(exec[e].at)
        /\ cwd' = [cwd EXCEPT ![exec[e].t] = "root"]
        /\ exec' = [exec EXCEPT ![e].pc = "done"]
        /\ UNCHANGED ran
     \/ /\ Inside(exec[e].at)
        /\ exec' = [exec EXCEPT ![e].pc = "done"]
        /\ UNCHANGED <<cwd, ran>>
     \/ /\ Inside(exec[e].at)
        /\ exec' = [exec EXCEPT ![e].pc = "running"]
        /\ ran' = ran \cup {[dir |-> Real(exec[e].at), stale |-> exec[e].stale]}
        /\ UNCHANGED cwd
  /\ UNCHANGED <<stage, shell, temp, pending, linked, fed, writes>>

\* The command reports where it ended; after a time-out it reports nothing.
ExecEnds(e) ==
  /\ exec[e].pc = "running"
  /\ \/ exec' = [exec EXCEPT ![e].pc = "done"]
     \/ \E d \in {"root", "sub", "outside"} :
          exec' = [exec EXCEPT ![e].pc = "realpath", ![e].phase = "end", ![e].at = d]
  /\ UNCHANGED <<stage, shell, temp, pending, cwd, linked, fed, ran, writes>>

\* The directory kept is the resolved one.
Moved(e) ==
  /\ exec[e].pc = "check" /\ exec[e].phase = "end"
  /\ cwd' = IF Inside(exec[e].at) THEN [cwd EXCEPT ![exec[e].t] = exec[e].at] ELSE cwd
  /\ exec' = [exec EXCEPT ![e].pc = "done"]
  /\ UNCHANGED <<stage, shell, temp, pending, linked, fed, ran, writes>>

Next ==
  \/ \E t \in Terminal :
       \/ Create(t) \/ Spawn(t) \/ ShellExits(t) \/ Kill(t) \/ GraceOver(t) \/ KillEnds(t)
       \/ \E p \in Pieces, approved \in BOOLEAN : Write(t, p, approved)
       \/ \E e \in Execs : Exec(e, t)
  \/ \E e \in Execs : Realpath(e) \/ Stat(e) \/ Start(e) \/ ExecEnds(e) \/ Moved(e)
  \/ Relink

\* The timers of kill() fire and SIGKILL ends a process; a shell need not obey
\* SIGTERM.
Fairness == \A t \in Terminal : WF_vars(GraceOver(t)) /\ WF_vars(KillEnds(t))
                                /\ WF_vars(shell[t] = "doomed" /\ ShellExits(t))

Spec == Init /\ [][Next]_vars /\ Fairness

-----------------------------------------------------------------------------
(***************************************************************************)
(* Properties.                                                             *)
(***************************************************************************)

\* However the requests cut it up, no shell is given a denied command, nor one
\* that writes without approval.
CommandsChecked ==
  \A c \in fed : Verdict(c.input) # "deny" /\ (Verdict(c.input) = "write" => c.approved)

\* A one-shot command starts outside the project only when a link changed after its
\* own directory was resolved: what happened to the tracked directory before that,
\* also by earlier commands, never leads it out.
StaysInside ==
  /\ \A r \in ran : r.dir = "outside" => r.stale
  /\ \A t \in Terminal : cwd[t] # "outside"

\* "terminal cwd escaped its project root" (exec): that none ever starts outside is
\* not true of the code; nothing holds the directory between the check and the spawn.
NeverStartsOutside == \A r \in ran : r.dir # "outside"

\* A shell in the map keeps its private directory, and a terminal that is gone
\* left none behind.
TempFollowsShell ==
  \A t \in Terminal : /\ stage[t] = "listed" /\ shell[t] = "running" => temp[t] = "present"
                      /\ stage[t] \in {"gone", "refused"} => temp[t] # "present"

\* Together: what runs, where it runs and what it leaves behind.
TerminalsContained == CommandsChecked /\ StaysInside /\ TempFollowsShell

Command == [pc : {"idle", "realpath", "stat", "check", "running", "done"},
            t : Terminal \cup {"none"}, phase : {"start", "end"},
            at : {"root", "sub", "outside"}, stale : BOOLEAN]
StillReal(x) == x.pc \in {"stat", "check"} /\ ~x.stale => Real(x.at) = x.at

\* The inductive invariant: a terminal that has no shell yet has no directory
\* either, one that was refused never gets a shell, and a resolved directory is
\* still real unless a link changed since.
TerminalsInv ==
  /\ stage \in [Terminal -> {"none", "creating", "listed", "killing", "gone", "refused"}]
  /\ shell \in [Terminal -> {"none", "running", "doomed", "exited"}]
  /\ temp \in [Terminal -> {"none", "present", "removed"}]
  /\ DOMAIN cwd = Terminal /\ DOMAIN exec = Execs
  /\ \A e \in Execs : exec[e] \in Command /\ StillReal(exec[e])
  /\ \A t \in Terminal : cwd[t] \in {"root", "sub"}
  /\ linked \in BOOLEAN
  /\ \A t \in Terminal : /\ stage[t] \in {"none", "creating"} => shell[t] = "none" /\ temp[t] = "none"
                         /\ stage[t] = "refused" => shell[t] = "none"
  /\ TerminalsContained

\* kill() ends the shell and its directory, also of a shell that ignores SIGTERM.
KilledForGood ==
  \A t \in Terminal : stage[t] = "killing" ~> (shell[t] = "exited" /\ temp[t] = "removed")

\* "terminal session limit reached": never more than the limit are listed.
WithinLimit == Cardinality(Sessions) <= MaxSessions
=============================================================================
