----------------------------- MODULE MCLibraries -----------------------------
(***************************************************************************)
(* The single-threaded programs for TLC: minixfs, the scheduler, the       *)
(* vector and the shell.  One of them is used; the others stay in their    *)
(* initial state.                                                          *)
(*                                                                         *)
(* The scheduler gets short jobs of low priority and long ones of high     *)
(* priority; jobs are interchangeable, and all properties are safety       *)
(* properties.                                                             *)
(***************************************************************************)
EXTENDS Minixfs, TLC

CONSTANTS Jobs, NONE, FREED, Units, Kinds, MaxTime, MaxSeq, MaxCalls,
          Values, Default, INITIAL_CAPACITY, GROWTH_FACTOR, NULL, JUNK, Address, MaxSize,
          Pids, SHELL, Lines, MaxForks, MaxLines

VARIABLES part,
          scheme, prempt, currenttime, seq, numfin, totalturnaround, totalwait, totalresponse,
          pqueue, info, unit, now, calls, running, ran, waited, first,
          array, size, capacity, objects, expected,
          pc, line, todo, result, commands, processes, child, child_pid, kid,
          group, stopped, forks, lines, reaped

MCKinds == {[runningtime |-> 1, priority |-> 2], [runningtime |-> 3, priority |-> 1]}
Symmetry == Permutations(Jobs)

\* A line of each kind; recalls, signals and lists in their variants.
ShellLines ==
  {[kind |-> k] : k \in {"empty", "!history", "exit"}}
    \cup {[kind |-> "ps", name |-> "ps"]}
    \cup {[kind |-> "#n", n |-> i] : i \in {0, 1}}
    \cup {[kind |-> "!prefix", name |-> n] : n \in {"", "ps"}}
    \cup {[kind |-> "signal", signal |-> s, pid |-> 1] : s \in {"kill", "stop", "cont"}}
    \cup {[kind |-> "signal", signal |-> "kill", pid |-> SHELL]}
    \cup {[kind |-> "background", name |-> "a"]}
    \cup {[kind |-> "command", name |-> c, cmd |-> c] : c \in {"cd", "external"}}
    \cup {[kind |-> "list", name |-> "b", op |-> op, first |-> "external", second |-> "external"] :
            op \in {";", "&&", "||"}}

S == INSTANCE Scheduler
V == INSTANCE Vector
H == INSTANCE Shell

ASSUME PidsAssumption == H!PidsOK
ASSUME GrowthAssumption == V!GrowthOK
ASSUME JobsAssumption == S!JobsOK

schedulerVars == <<scheme, prempt, currenttime, seq, numfin, totalturnaround, totalwait,
                   totalresponse, pqueue, info, unit, now, calls, running, ran, waited, first>>
vectorVars == <<array, size, capacity, objects, expected>>
shellVars == <<pc, line, todo, result, commands, processes, child, child_pid, kid, group, stopped,
               forks, lines, reaped>>
all == <<part, vars, schedulerVars, vectorVars, shellVars>>

\* Of a program that is not used, one initial state will do.
OneStart == part # "scheduler" => scheme = "FCFS" /\ unit = 1

SuiteInit == /\ part \in {"minixfs", "scheduler", "vector", "shell"}
             /\ Init /\ S!Init /\ V!Init /\ H!Init
             /\ OneStart

MinixfsNext == part = "minixfs" /\ Next /\ UNCHANGED <<part, schedulerVars, vectorVars, shellVars>>
SchedulerNext == part = "scheduler" /\ S!Next /\ UNCHANGED <<part, vars, vectorVars, shellVars>>
VectorNext == part = "vector" /\ V!Next /\ UNCHANGED <<part, vars, schedulerVars, shellVars>>
ShellNext == part = "shell" /\ H!Next /\ UNCHANGED <<part, vars, schedulerVars, vectorVars>>

SuiteNext == MinixfsNext \/ SchedulerNext \/ VectorNext \/ ShellNext

SuiteSpec == SuiteInit /\ [][SuiteNext]_all

-----------------------------------------------------------------------------
\* libscheduler.c: the remaining times are exact over any number of evictions.
RemainingExact == S!RemainingExact

\* libscheduler.c: the totals are the times the caller measured, and a preemptive
\* scheme chooses by the times jobs really ran.
MeasuredAndChosen == S!TotalsMeasured /\ S!ChoiceRight

\* vector.c: the vector holds what the calls should have left, and owns it.
VectorMatches == V!VectorMatches

\* shell.c: the list of processes is exact until an entry is used after free.
ShellListExact == H!ShellListExact

\* shell.c: whom the handler of SIGINT can signal, in the shell and in its children.
InterruptsForeground == H!InterruptsForeground
=============================================================================
