------------------------------- MODULE Parmake -------------------------------
(***************************************************************************)
(* parallel_make/parmake.c: worker threads pull rules that are ready from  *)
(* a queue, run their commands, mark them failed or satisfied, and push    *)
(* the dependents that became ready.  Main waits until every goal has been *)
(* counted, then queues "EOF", which each worker passes on as it exits.    *)
(*                                                                         *)
(* One action per critical section, per queue operation and per stretch of *)
(* unlocked code that reads shared state.  The queue is the thread-safe    *)
(* FIFO of includes/queue.h; its initial order is that of dfs over the     *)
(* parser's vectors, which is any order.                                   *)
(***************************************************************************)
EXTENDS Integers, Sequences, FiniteSets, SequencesExt, FiniteSetsExt

CONSTANTS Rules,          \* the rules' targets
          Makefiles,      \* the inputs: [goals : Seq(Rules), deps : [Rules -> SUBSET Rules]]
          MaxThreads,
          EOF, NONE

ASSUME NamesAssumption == {EOF, NONE} \cap Rules = {} /\ EOF # NONE
ASSUME ThreadsAssumption == MaxThreads \in Nat \ {0}
ASSUME RulesAssumption == IsFiniteSet(Rules)
ASSUME MakefilesAssumption ==
  \A m \in Makefiles : m.deps \in [Rules -> SUBSET Rules] /\ m.goals \in Seq(Rules)

VARIABLES
  deps,         \* the dependency graph, as parsed
  num_threads,
  state,        \* rule->state: 0 not wanted, 1 wanted, 2 failed, 4 satisfied
  q,            \* the queue
  goal,         \* the vector of goals not yet finished
  numgoals, numgoalfin,
  main,         \* where main is: "wait" (lines 211-215), "join", "done"
  pc, vertex,   \* each worker's place in thread() and its rule
  todo,         \* the dependents its loop at line 110 has still to look at
  next,         \* the one it is looking at
  verdict,      \* fail at lines 58 and 90; shouldfail at line 131
  idx,          \* i of the loop at line 161
  aborted,      \* an assert has failed
  satisfied,    \* history: rules that have been satisfied
  runs          \* history: how often each rule's commands were started (at most 2)

shared == <<state, q, goal, numgoals, numgoalfin>>
worker == <<pc, vertex, todo, next, verdict, idx>>
vars == <<deps, num_threads, shared, main, worker, aborted, satisfied, runs>>

Threads == 1 .. num_threads

-----------------------------------------------------------------------------
(* What parmake() does before it starts the threads.                       *)

\* isCyclic: depth first search that remembers the path it is on (recurv).
IsCyclic(D, root) ==
  LET dfs[v \in Rules, visit \in SUBSET Rules, recurv \in SUBSET Rules] ==
        LET look(u, acc) ==
              IF acc.found THEN acc
              ELSE LET sub == IF u \in acc.visit THEN acc
                              ELSE dfs[u, acc.visit, acc.recurv]
                   IN [sub EXCEPT !.found = @ \/ u \in sub.recurv]
            res == FoldSet(look, [found |-> FALSE, visit |-> visit \cup {v},
                                  recurv |-> recurv \cup {v}], D[v])
        IN IF res.found THEN res ELSE [res EXCEPT !.recurv = @ \ {v}]
  IN dfs[root, {}, {}].found

\* The goals are erased by the index they had before any was erased.
ToErase(D, goals) == SelectSeq([i \in 1 .. Len(goals) |-> i], LAMBDA i : IsCyclic(D, goals[i]))
EraseAt(s, i) == IF i \in 1 .. Len(s) THEN RemoveAt(s, i) ELSE s
KeptGoals(D, goals) == FoldLeft(EraseAt, goals, ToErase(D, goals))

\* Erasing from a vector of rules leaves a vector of rules.
ASSUME KeptGoalsAssumption == \A m \in Makefiles : KeptGoals(m.deps, m.goals) \in Seq(Rules)

\* The rules dfs visits: those the kept goals depend on, themselves included.
Wanted(D, goals) == {r \in Rules : \A S \in SUBSET Rules :
                       (Range(goals) \subseteq S /\ \A v \in S : D[v] \subseteq S) => r \in S}

Init == \E m \in Makefiles : LET kept == KeptGoals(m.deps, m.goals)
                                 wanted == Wanted(m.deps, kept)
                                 leaves == {r \in wanted : m.deps[r] = {}} IN
  /\ deps = m.deps
  /\ num_threads \in 1 .. MaxThreads
  /\ state = [r \in Rules |-> IF r \in wanted THEN 1 ELSE 0]
  /\ q \in SetToSeqs(leaves)
  /\ goal = kept /\ numgoals = Len(kept) /\ numgoalfin = 0
  /\ main = "wait"
  /\ pc = [t \in Threads |-> "pull"]
  /\ vertex = [t \in Threads |-> NONE]
  /\ todo = [t \in Threads |-> {}]
  /\ next = [t \in Threads |-> NONE]
  /\ verdict = [t \in Threads |-> FALSE]
  /\ idx = [t \in Threads |-> 0]
  /\ aborted = FALSE
  /\ satisfied = {}
  /\ runs = [r \in Rules |-> 0]

-----------------------------------------------------------------------------
At(t, l) == pc[t] = l /\ ~aborted
Goto(t, l) == pc' = [pc EXCEPT ![t] = l]
Dependents(r) == {d \in Rules : r \in deps[d]}

\* Lines 46-50.
Pull(t) == /\ At(t, "pull") /\ q # << >>
           /\ IF Head(q) = EOF
              THEN /\ q' = Append(Tail(q), EOF)
                   /\ Goto(t, "exited") /\ UNCHANGED vertex
              ELSE /\ q' = Tail(q)
                   /\ Goto(t, "check") /\ vertex' = [vertex EXCEPT ![t] = Head(q)]
           /\ UNCHANGED <<deps, num_threads, state, goal, numgoals, numgoalfin, main, todo,
                          next, verdict, idx, aborted, satisfied, runs>>

StartScan(t) == /\ Goto(t, "scan")
                /\ todo' = [todo EXCEPT ![t] = Dependents(vertex[t])]

\* Lines 51-55 and 106: a rule already marked failed is not run.
Check(t) == /\ At(t, "check")
            /\ IF state[vertex[t]] # 2 THEN Goto(t, "stat") /\ UNCHANGED todo
                                       ELSE StartScan(t)
            /\ UNCHANGED <<deps, num_threads, shared, main, vertex, next, verdict, idx,
                           aborted, satisfied, runs>>

\* Lines 57 and 67-89, on the file system: is the target missing, or a
\* dependency missing or newer?  If so its commands start.
Stat(t) == /\ At(t, "stat")
           /\ \E modify \in BOOLEAN :
                IF modify
                THEN /\ Goto(t, "run")
                     /\ runs' = [runs EXCEPT ![vertex[t]] = IF @ = 2 THEN 2 ELSE @ + 1]
                     /\ UNCHANGED verdict
                ELSE /\ Goto(t, "set")
                     /\ verdict' = [verdict EXCEPT ![t] = FALSE]
                     /\ UNCHANGED runs
           /\ UNCHANGED <<deps, num_threads, shared, main, vertex, todo, next, idx, aborted,
                          satisfied>>

\* Lines 58, 90 and run(): the commands end, well or not.
Run(t) == /\ At(t, "run")
          /\ Goto(t, "set")
          /\ \E fail \in BOOLEAN : verdict' = [verdict EXCEPT ![t] = fail]
          /\ UNCHANGED <<deps, num_threads, shared, main, vertex, todo, next, idx, aborted,
                         satisfied, runs>>

\* Lines 59-65, 91-97 and 99-101.
SetState(t) == /\ At(t, "set")
               /\ state' = [state EXCEPT ![vertex[t]] = IF verdict[t] THEN 2 ELSE 4]
               /\ satisfied' = IF verdict[t] THEN satisfied ELSE satisfied \cup {vertex[t]}
               /\ StartScan(t)
               /\ UNCHANGED <<deps, num_threads, q, goal, numgoals, numgoalfin, main, vertex,
                              next, verdict, idx, aborted, runs>>

\* Lines 110-127: the next dependent, skipped unless it is wanted and open.
Scan(t) == /\ At(t, "scan")
           /\ \E n \in todo[t] :
                /\ todo' = [todo EXCEPT ![t] = @ \ {n}]
                /\ next' = [next EXCEPT ![t] = n]
                /\ aborted' = (state[n] = 4)
                /\ IF state[n] \in {0, 2} THEN UNCHANGED pc ELSE Goto(t, "deps")
           /\ UNCHANGED <<deps, num_threads, shared, main, vertex, verdict, idx, satisfied, runs>>

ScanDone(t) == /\ At(t, "scan") /\ todo[t] = {}
               /\ Goto(t, "goal")
               /\ idx' = [idx EXCEPT ![t] = 1]
               /\ UNCHANGED <<deps, num_threads, shared, main, vertex, todo, next, verdict,
                              aborted, satisfied, runs>>

\* MUTANT: a dependency that failed counts as one still open.
ReadyUnlessFailed(n) == \A d \in deps[n] : state[d] \notin {1, 2}
\* MUTANT: a dependent is ready as soon as one dependency is done.
ReadyAnyDone(n) == \E d \in deps[n] : state[d] # 1

\* The loop at line 133: no dependency is open.
Ready(n) == \A d \in deps[n] : state[d] # 1

\* MUTANT: a failed dependency goes unnoticed.
ShouldFailNever(n) == FALSE
\* Line 135.
ShouldFail(n) == \E d \in deps[n] : state[d] = 2

\* Lines 132-149, with the assertion at line 142.
LookAtDeps(t) == /\ At(t, "deps")
                 /\ verdict' = [verdict EXCEPT ![t] = ShouldFail(next[t])]
                 /\ Goto(t, IF ~Ready(next[t]) THEN "scan"
                            ELSE IF ShouldFail(next[t]) THEN "fail" ELSE "push")
                 /\ aborted' = (Ready(next[t]) /\ \E d \in deps[next[t]] : state[d] = 0)
                 /\ UNCHANGED <<deps, num_threads, shared, main, vertex, todo, next, idx,
                                satisfied, runs>>

\* Lines 150-154.
FailDependent(t) == /\ At(t, "fail")
                    /\ state' = [state EXCEPT ![next[t]] = 2]
                    /\ Goto(t, "push")
                    /\ UNCHANGED <<deps, num_threads, q, goal, numgoals, numgoalfin, main,
                                   vertex, todo, next, verdict, idx, aborted, satisfied, runs>>

\* Line 155.
PushDependent(t) == /\ At(t, "push")
                    /\ q' = Append(q, next[t])
                    /\ Goto(t, "scan")
                    /\ UNCHANGED <<deps, num_threads, state, goal, numgoals, numgoalfin, main,
                                   vertex, todo, next, verdict, idx, aborted, satisfied, runs>>

\* Lines 161-162: an unlocked walk over a vector other threads erase from.
FindGoal(t) == /\ At(t, "goal")
               /\ IF idx[t] > Len(goal) THEN Goto(t, "pull") /\ UNCHANGED idx
                  ELSE IF goal[idx[t]] = vertex[t] THEN Goto(t, "erase") /\ UNCHANGED idx
                  ELSE idx' = [idx EXCEPT ![t] = @ + 1] /\ UNCHANGED pc
               /\ UNCHANGED <<deps, num_threads, shared, main, vertex, todo, next, verdict,
                              aborted, satisfied, runs>>

\* Lines 163-172; main, if it was waiting, is woken when all are counted.
EraseGoal(t) == /\ At(t, "erase")
                /\ numgoalfin' = numgoalfin + 1
                /\ goal' = EraseAt(goal, idx[t])
                /\ Goto(t, "pull")
                /\ UNCHANGED <<deps, num_threads, state, q, numgoals, main, vertex, todo, next,
                               verdict, idx, aborted, satisfied, runs>>

\* Lines 211-216.
MainQueuesEOF == /\ main = "wait" /\ ~aborted /\ numgoalfin >= numgoals
                 /\ q' = Append(q, EOF)
                 /\ main' = "join"
                 /\ UNCHANGED <<deps, num_threads, state, goal, numgoals, numgoalfin, worker,
                                aborted, satisfied, runs>>

\* Lines 217-226.
MainReturns == /\ main = "join" /\ ~aborted
               /\ \A t \in Threads : pc[t] = "exited"
               /\ main' = "done"
               /\ UNCHANGED <<deps, num_threads, shared, worker, aborted, satisfied, runs>>

Step(t) == \/ Pull(t) \/ Check(t) \/ Stat(t) \/ Run(t) \/ SetState(t) \/ Scan(t) \/ ScanDone(t)
           \/ LookAtDeps(t) \/ FailDependent(t) \/ PushDependent(t) \/ FindGoal(t) \/ EraseGoal(t)

Next == MainQueuesEOF \/ MainReturns \/ \E t \in Threads : Step(t)

Spec == Init /\ [][Next]_vars

\* Every thread that can run does; commands end.
FairSpec == /\ Spec /\ WF_vars(MainQueuesEOF) /\ WF_vars(MainReturns)
            /\ \A t \in 1 .. MaxThreads : WF_vars(t \in Threads /\ Step(t))

-----------------------------------------------------------------------------
\* However many threads there are, a rule's commands start only after every
\* rule it depends on has been satisfied.
DepsBuiltFirst == \A t \in Threads : pc[t] = "run" => deps[vertex[t]] \subseteq satisfied

\* With one worker thread no rule's commands are run twice (no rule is queued by
\* two of its dependencies), no assertion fails, and when parmake returns a
\* failure has reached every dependent and nothing else.
OneThreadBuilds ==
    num_threads = 1 =>
      /\ ~aborted /\ \A r \in Rules : runs[r] < 2
      /\ main = "done" =>
           \A r \in Rules : /\ state[r] # 1
                            /\ state[r] = 4 => \A d \in deps[r] : state[d] = 4
                            /\ state[r] = 2 => \/ runs[r] = 1
                                               \/ \E d \in deps[r] : state[d] = 2

\* With one worker thread parmake returns: every goal is reached, failed or
\* not, and counted, and EOF reaches the worker after it.
OneThreadReturns == [](num_threads = 1) => <>(main = "done")

\* parmake.c:126: "assert(deprule->state != 4)", and with it no other
\* assertion, fails.
AssertionsHold == ~aborted
=============================================================================
