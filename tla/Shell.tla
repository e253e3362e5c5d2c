------------------------------- MODULE Shell -------------------------------
(***************************************************************************)
(* shell/shell.c: the loop that reaps children, reads a line and runs it,  *)
(* the history, the list of processes, and the handler of SIGINT.          *)
(*                                                                         *)
(* A line is a record [kind, ...] with its words already split.  Of a      *)
(* child only what signals and waitpid() tell apart is kept: it inherits   *)
(* the handler of SIGINT and a copy of `child`, until it executes its      *)
(* command.  signal() keeps a handler installed, blocks the signal while   *)
(* the handler runs and restarts waitpid().  Redirections, the working     *)
(* directory, the history file and /proc are left out.  The vectors        *)
(* are the course library's, whose erase does not free.  Once the shell    *)
(* has used a freed entry or a line that is not there, it is "undefined".  *)
(***************************************************************************)
EXTENDS Integers, Sequences, SequencesExt

CONSTANTS Pids,                    \* what fork() returns
          SHELL, NONE,             \* the shell's own pid, and child = -1
          Lines,                   \* the lines a user types
          MaxForks, MaxLines       \* bounds

\* What the constants must satisfy (assumed by the module that gives them values).
PidsOK == SHELL \notin Pids /\ NONE \notin Pids

VARIABLES
  pc,          \* reap, prompt, dispatch, setpgid, run, assign, wait, waited, exited, undefined
  line,        \* the line being run
  todo,        \* the commands of it still to run
  result,      \* of the last one
  commands,    \* the history
  processes,   \* the list: [pid, freed] (a freed entry keeps its pid as a ghost)
  child,       \* the foreground child, for the handler
  child_pid,   \* the local of external() and background()
  kid,         \* pid -> one of Alive or Ended, or none
  group,       \* the children in the shell's process group
  stopped,     \* the children that SIGSTOP holds
  forks, lines,
  reaped       \* a background child was reaped

vars == <<pc, line, todo, result, commands, processes, child, child_pid, kid, group, stopped,
          forks, lines, reaped>>
job == <<line, todo, result>>
bounds == <<forks, lines>>
kids == <<child_pid, kid, group, stopped>>

Ended == {"exited0", "exited1", "killed"}

\* forked: in the foreground, before line 227, its copy of child is -1; zeroed: after
\* it, the copy is 0; looping: its handler signals its own group, itself included, for
\* ever; ready: in the background, before execvp(); running: after execvp().
Alive == {"forked", "zeroed", "looping", "ready", "running"}

\* shell() and execute() up to the loop.
Init == /\ pc = "reap" /\ line = NONE /\ todo = <<>> /\ result = 0
        /\ commands = <<>>
        /\ processes = <<[pid |-> SHELL, freed |-> FALSE]>>
        /\ child = NONE /\ child_pid = NONE
        /\ kid = [p \in Pids |-> "none"] /\ group = {} /\ stopped = {}
        /\ forks = 0 /\ lines = 0 /\ reaped = FALSE

-----------------------------------------------------------------------------
(* reapchildren(), lines 52-69.                                            *)

\* Entries it passes on its way to the i-th are freed and stay in the list.
\* MUTANT: the entry of the reaped child stays in it as well.
ListAfterKeeps(i) == [j \in DOMAIN processes |->
                        IF j < i THEN [processes[j] EXCEPT !.freed = TRUE] ELSE processes[j]]
ListAfter(i) == RemoveAt([j \in DOMAIN processes |->
                            IF j < i THEN [processes[j] EXCEPT !.freed = TRUE] ELSE processes[j]], i)

\* waitpid() returns p.
Collected(p) == /\ kid' = [kid EXCEPT ![p] = "none"]
                /\ group' = group \ {p} /\ stopped' = stopped \ {p}

Reap ==
  /\ pc = "reap"
  /\ \E p \in Pids, i \in DOMAIN processes :
       /\ kid[p] \in Ended
       /\ processes[i].pid = p
       /\ Collected(p)
       /\ reaped' = TRUE
       /\ IF \E j \in 1 .. i : processes[j].freed
          THEN pc' = "undefined" /\ UNCHANGED processes
          ELSE processes' = ListAfter(i) /\ UNCHANGED pc
  /\ UNCHANGED <<job, commands, child, child_pid, bounds>>

\* Line 169 then prints the pid of the shell's entry, freed or not; nothing but the
\* prompt depends on what it reads.
Reaped == /\ pc = "reap" /\ \A p \in Pids : kid[p] \notin Ended
          /\ pc' = "prompt"
          /\ UNCHANGED <<job, commands, processes, child, kids, bounds, reaped>>

-----------------------------------------------------------------------------
(* execute(), lines 166-194.                                               *)

ReadLine == /\ pc = "prompt" /\ lines < MaxLines
            /\ line' \in Lines
            /\ lines' = lines + 1 /\ pc' = "dispatch"
            /\ UNCHANGED <<todo, result, commands, processes, child, kids, forks, reaped>>

\* Line 183 frees the shell's own entry.
EndOfInput == /\ pc = "prompt"
              /\ pc' = IF processes[1].freed THEN "undefined" ELSE "exited"
              /\ UNCHANGED <<job, commands, processes, child, kids, bounds, reaped>>

-----------------------------------------------------------------------------
(* runcommand(), lines 425-676.                                            *)

ToRun(cond, cmd) == [cond |-> cond, cmd |-> cmd]

\* Lines 465, 490-513, 657 and 664: what is recorded.
Recorded(l) == l.kind \in {"ps", "list", "background", "command"}

\* The history after a line was dispatched.
History(l) == IF Recorded(l) THEN Append(commands, l) ELSE commands

\* Reading the list up to an entry; a freed one may hold anything.
Dangling(n) == \E j \in 1 .. n : processes[j].freed

Simple == /\ line.kind \in {"empty", "!history"} /\ pc' = "reap"
          /\ UNCHANGED <<job, kids, processes, forks>>

Exit == /\ line.kind = "exit" /\ pc' = "exited"
        /\ UNCHANGED <<job, kids, processes, forks>>

Ps == /\ line.kind = "ps"
      /\ pc' = IF Dangling(Len(processes)) THEN "undefined" ELSE "reap"
      /\ UNCHANGED <<job, kids, processes, forks>>

\* firstn(), lines 715-726: the test lets the index after the last one pass.
FirstN ==
  /\ line.kind = "#n"
  /\ pc' = CASE line.n > Len(commands) -> "reap"
             [] line.n = Len(commands) -> "undefined"
             [] OTHER -> "dispatch"
  /\ line' = IF line.n < Len(commands) THEN commands[line.n + 1] ELSE line
  /\ UNCHANGED <<todo, result, kids, processes, forks>>

\* prefix(), lines 727-764: the last line with the prefix; with none, the last.
Matches(l) == {i \in DOMAIN commands : l.name \in {"", commands[i].name}}
Prefix ==
  /\ line.kind = "!prefix"
  /\ pc' = CASE Matches(line) # {} -> "dispatch"
             [] Matches(line) = {} /\ line.name = "" -> "undefined"
             [] OTHER -> "reap"
  /\ line' = IF Matches(line) = {} THEN line ELSE commands[Max(Matches(line))]
  /\ UNCHANGED <<todo, result, kids, processes, forks>>

\* kill, stop and cont, lines 590-655: a pid in the list gets the signal.
Listed == {processes[i].pid : i \in DOMAIN processes}
Target == IF processes[1].freed THEN {}
          ELSE {p \in Pids \cap Listed : p = line.pid /\ kid[p] \in Alive}
Signal ==
  /\ line.kind = "signal"
  /\ pc' = CASE processes[1].freed -> "undefined"
             [] ~processes[1].freed /\ line.pid = SHELL /\ line.signal = "kill" -> "exited"
             [] OTHER -> "reap"
  /\ kid' = [p \in Pids |-> IF p \in Target /\ line.signal = "kill" THEN "killed" ELSE kid[p]]
  /\ stopped' = IF line.signal = "stop" THEN stopped \cup Target ELSE stopped \ Target
  /\ UNCHANGED <<job, processes, child_pid, group, forks>>

\* fork(): a child in the shell's group.
Born(p, s) == /\ kid[p] = "none"
              /\ kid' = [kid EXCEPT ![p] = s]
              /\ group' = group \cup {p}
              /\ child_pid' = p /\ forks' = forks + 1 /\ UNCHANGED stopped

\* background(), lines 319-402.
Background ==
  /\ line.kind = "background" /\ forks < MaxForks
  /\ \/ \E p \in Pids : /\ Born(p, "ready")
                        /\ processes' = Append(processes, [pid |-> p, freed |-> FALSE])
                        /\ pc' = "setpgid"
     \/ pc' = "exited" /\ UNCHANGED <<kids, processes, forks>>     \* fork() failed
  /\ UNCHANGED job

\* One command, or two with ; && or || between them.
Commands ==
  /\ line.kind \in {"command", "list"}
  /\ todo' = IF line.kind = "command" THEN <<ToRun(";", line.cmd)>>
             ELSE <<ToRun(";", line.first), ToRun(line.op, line.second)>>
  /\ pc' = "run"
  /\ UNCHANGED <<line, result, kids, processes, forks>>

runcommand == /\ pc = "dispatch"
              /\ commands' = History(line)
              /\ \/ Simple \/ Exit \/ Ps \/ FirstN \/ Prefix \/ Signal \/ Background \/ Commands
              /\ UNCHANGED <<child, lines, reaped>>

\* Lines 404-407: a child that has executed its command is not moved any more.
Setpgid == /\ pc = "setpgid" /\ pc' = "reap"
           /\ group' = IF kid[child_pid] = "ready" THEN group \ {child_pid} ELSE group
           /\ child_pid' = NONE
           /\ UNCHANGED <<job, commands, processes, child, kid, stopped, bounds, reaped>>

-----------------------------------------------------------------------------
(* run(), cd() and external(), lines 224-318 and 678-709.                  *)

Wanted(t) == t.cond = ";" \/ (t.cond = "&&" /\ result = 0) \/ (t.cond = "||" /\ result # 0)

run ==
  /\ pc = "run" /\ todo # <<>>
  /\ todo' = Tail(todo)
  /\ \/ /\ ~Wanted(Head(todo)) /\ UNCHANGED <<pc, result, kids, forks>>
     \/ /\ Wanted(Head(todo)) /\ Head(todo).cmd = "cd"
        /\ result' \in {0, 1} /\ UNCHANGED <<pc, kids, forks>>
     \/ /\ Wanted(Head(todo)) /\ Head(todo).cmd = "external" /\ forks < MaxForks
        /\ \/ pc' = "assign" /\ \E p \in Pids : Born(p, "forked")
           \/ pc' = "exited" /\ UNCHANGED <<kids, forks>>          \* fork() failed
        /\ UNCHANGED result
  /\ UNCHANGED <<line, commands, processes, child, lines, reaped>>

\* Line 227 in the shell.
AssignChild == /\ pc = "assign" /\ pc' = "wait" /\ child' = child_pid
               /\ UNCHANGED <<job, commands, processes, kids, bounds, reaped>>

RunDone == /\ pc = "run" /\ todo = <<>> /\ pc' = "reap"
           /\ UNCHANGED <<job, commands, processes, child, kids, bounds, reaped>>

\* waitpid() returns: a child that a signal ended counts as a success, line 317.
Waited == /\ pc = "wait" /\ kid[child_pid] \in Ended
          /\ result' = IF kid[child_pid] = "exited1" THEN 1 ELSE 0
          /\ Collected(child_pid)
          /\ pc' = "waited"
          /\ UNCHANGED <<line, todo, commands, processes, child, child_pid, bounds, reaped>>

\* Lines 241 and 245.
\* MUTANT: child is not reset.
ForgottenNot == child
Forgotten == NONE
ForgetChild == /\ pc = "waited" /\ pc' = "run"
               /\ child' = Forgotten /\ child_pid' = NONE
               /\ UNCHANGED <<job, commands, processes, kid, group, stopped, bounds, reaped>>

-----------------------------------------------------------------------------
(* The children, lines 247-315 and 330-398, and SIGINT.                    *)

KidGoes(p, s) == /\ kid' = [kid EXCEPT ![p] = s]
                 /\ UNCHANGED <<pc, job, commands, processes, child, child_pid, group, stopped,
                                bounds, reaped>>

\* Line 227 in the child, where fork() returned 0.
ChildAssigns(p) == kid[p] = "forked" /\ KidGoes(p, "zeroed")

\* Lines 312 and 395: the handler is gone.
Exec(p) == kid[p] \in {"zeroed", "ready"} /\ p \notin stopped /\ KidGoes(p, "running")

\* Any signal from elsewhere may end a child; without one, a failed redirection or
\* execvp(), or the command.
ChildEnds(p) ==
  /\ kid[p] \in Alive
  /\ \E s \in Ended : /\ s = "exited1" => kid[p] \in {"zeroed", "ready", "running"} /\ p \notin stopped
                      /\ s = "exited0" => kid[p] = "running" /\ p \notin stopped
                      /\ KidGoes(p, s)

\* handler(), lines 47-51, when SIGINT is sent to R: the shell's passes it on to child;
\* a child's that has 0 there calls kill(0, SIGINT), which is the whole group.
handler(R) ==
  LET sent == IF SHELL \in R /\ child # NONE THEN R \cup {child} ELSE R
  IN  IF \E p \in sent \cap Pids : kid[p] \in {"zeroed", "looping"}
      THEN sent \cup group ELSE sent

\* What it does to a process: a command dies (one that is stopped, when it goes on); a
\* child that sent it to its own group has it pending again when its handler returns.
Struck(p) == CASE kid[p] = "running" /\ p \notin stopped -> "killed"
               [] kid[p] = "zeroed" -> "looping"
               [] OTHER -> kid[p]

\* The terminal sends it to the group, another process to the shell alone.
Interrupt ==
  /\ pc \notin {"exited", "undefined"}
  /\ \E R \in {{SHELL}, {SHELL} \cup group} :
       kid' = [p \in Pids |-> IF p \in handler(R) THEN Struck(p) ELSE kid[p]]
  /\ UNCHANGED <<pc, job, commands, processes, child, child_pid, group, stopped, bounds, reaped>>

Next == \/ Reap \/ Reaped \/ ReadLine \/ EndOfInput \/ runcommand \/ Setpgid
        \/ run \/ AssignChild \/ RunDone \/ Waited \/ ForgetChild \/ Interrupt
        \/ \E p \in Pids : ChildAssigns(p) \/ Exec(p) \/ ChildEnds(p)

Spec == Init /\ [][Next]_vars

-----------------------------------------------------------------------------
\* Whatever children end, are stopped, killed or reaped in between, the list
\* has the shell and each background child it has not reaped, once; no entry is
\* freed, and the shell does not stumble over one, before a background child was
\* reaped.  (Line 66 then frees the shell's own entry.)
Mine == {p \in Pids : kid[p] # "none"} \ (IF pc \in {"assign", "wait"} THEN {child_pid} ELSE {})
ShellListExact ==
  /\ pc # "undefined" => /\ Listed = {SHELL} \cup Mine
                       /\ Len(processes) = 1 + Cardinality(Mine)
  /\ (\E i \in DOMAIN processes : processes[i].freed) => reaped

\* Whom a handler of SIGINT (lines 47-51) can signal.  The shell's: the child in the
\* foreground, which is in nobody's list, until waitpid() has returned, and a pid that
\* is free for another process exactly from there to the reset of child (lines 241
\* and 245).  The one a child inherits: nobody, but in the foreground from line 227 to
\* execvp(); it then signals the group, where a background child is only until
\* setpgid() or if its own execvp() came first.
InterruptsForeground ==
  /\ child # NONE => /\ pc \in {"wait", "waited"} /\ child \notin Listed
                     /\ kid[child] = "none" <=> pc = "waited"
  /\ \A p \in Pids : kid[p] \in {"zeroed", "looping"} =>
                       /\ pc \in {"assign", "wait"} /\ p = child_pid
                       /\ \A q \in group \cap Listed : kid[q] # "ready"
=============================================================================
