------------------------------ MODULE MCWorkers ------------------------------
(***************************************************************************)
(* The programs that hand work to workers and wait for them, for TLC: the  *)
(* two password crackers and mapreduce.  One of the three runs; the others *)
(* stay in their initial state.                                            *)
(*                                                                         *)
(* The crackers: two letters; one or two of them unknown; the password     *)
(* among the candidates (first, middle, last) or not.                      *)
(***************************************************************************)
EXTENDS Cracker2

CONSTANTS LineTasks, MaxLines, NumMap, Lines, Capacity, Failing

VARIABLES part,
          q, success, total, text, stage, at, command, guess, live, printed,
          step, state, holds, pipe, written, line, received, failed

MCTasks == {[unknown |-> 1, answer |-> 0], [unknown |-> 2, answer |-> 3],
            [unknown |-> 2, answer |-> -1]}
Cracker1Tasks == {[unknown |-> 2, answer |-> 2], [unknown |-> 2, answer |-> -1]}

C1 == INSTANCE Cracker1 WITH Tasks <- LineTasks, MaxTasks <- MaxLines, found <- guess
MR == INSTANCE Mapreduce

ASSUME LinesAssumption == \A k \in LineTasks : k.unknown \in Nat /\ k.answer \in Int
ASSUME PipesAssumption == MR!PipesOK

vars1 == <<q, success, total, text, stage, at, command, guess, live, printed>>
varsMR == <<step, state, holds, pipe, written, line, received, failed>>
all == <<part, vars, vars1, varsMR>>

SuiteInit == /\ part \in {"cracker2", "cracker1", "mapreduce"}
             /\ Init /\ C1!Init /\ MR!Init

InCracker2(A) == part = "cracker2" /\ A /\ UNCHANGED <<part, vars1, varsMR>>
InCracker1(A) == part = "cracker1" /\ A /\ UNCHANGED <<part, vars, varsMR>>
InMapreduce(A) == part = "mapreduce" /\ A /\ UNCHANGED <<part, vars, vars1>>

Cracker2Next == InCracker2(Next)
Cracker1Next == InCracker1(C1!Next)
MapreduceNext == InMapreduce(MR!Next)

SuiteNext == Cracker2Next \/ Cracker1Next \/ MapreduceNext

\* Every thread and every process that can run does; nothing is assumed of
\* spurious wakeups and of failures.
SuiteSpec ==
    /\ SuiteInit /\ [][SuiteNext]_all
    /\ WF_all(InCracker2(MainStep))
    /\ \A w \in Workers : WF_all(InCracker2(WorkerStep(w)))
    /\ WF_all(InCracker1(C1!MainStep))
    /\ \A w \in Workers : WF_all(InCracker1(C1!WorkerStep(w)))
    /\ WF_all(InMapreduce(MR!ParentStep))
    /\ \A p \in MR!Children : WF_all(InMapreduce(MR!ChildStep(p)))

-----------------------------------------------------------------------------
\* cracker1.c: the one "end" comes after every password and is queued last or in
\* one worker's hand until main pulls it back; so that the summary and the result
\* lines are right, and every string has been freed once.
Cracker1Summary == C1!SentinelLast /\ C1!SummaryRight

\* mapreduce.c: no line is lost between splitters, mappers and reducer.
OutputComplete == MR!OutputComplete

\* All three programs end: no wakeup is lost, the sentinel reaches every worker,
\* and no pipe end is held for ever by a process that waits.  mapreduce may hang
\* when a mapper or the reducer fails: the parent still holds the read ends, so
\* that whoever writes to it waits for ever.
EveryProgramEnds == /\ part = "cracker2" ~> main = "done"
                    /\ part = "cracker1" ~> stage = "done"
                    /\ part = "mapreduce" ~> MR!Done \/ MR!Broken
=============================================================================
