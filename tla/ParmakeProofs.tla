---------------------------- MODULE ParmakeProofs ----------------------------
(***************************************************************************)
(* Proofs about parallel_make/parmake.c, for every finite set of rules,    *)
(* every set of makefiles and every number of threads: what is run has its *)
(* dependencies built, and with one worker thread the build is correct.    *)
(***************************************************************************)
EXTENDS Parmake, FiniteSetTheorems, SequenceTheorems, TLAPS

USE NamesAssumption, ThreadsAssumption

Scanning == {"scan", "deps", "fail", "push"}
Looking == {"deps", "fail", "push"}
Building == {"stat", "run", "set"}
Counting == {"goal", "erase"}
HasRule == {"check"} \cup Building \cup Scanning \cup Counting

TypeInv ==
  /\ num_threads \in 1 .. MaxThreads
  /\ deps \in [Rules -> SUBSET Rules]
  /\ state \in [Rules -> {0, 1, 2, 4}]
  /\ q \in Seq(Rules \cup {EOF})
  /\ goal \in Seq(Rules) /\ numgoals \in Nat /\ numgoalfin \in Nat
  /\ pc \in [Threads -> HasRule \cup {"pull", "exited"}]
  /\ vertex \in [Threads -> Rules \cup {NONE}]
  /\ next \in [Threads -> Rules \cup {NONE}]
  /\ todo \in [Threads -> SUBSET Rules]
  /\ verdict \in [Threads -> BOOLEAN]
  /\ idx \in [Threads -> Nat]
  /\ satisfied \in SUBSET Rules
  /\ runs \in [Rules -> 0 .. 2]
  /\ \A t \in Threads : /\ pc[t] \in HasRule => vertex[t] \in Rules
                        /\ pc[t] \in Looking => next[t] \in Rules

\* A rule may be handed to a worker: it has failed, or what it depends on is
\* satisfied.
Admitted(r) == state[r] = 2 \/ deps[r] \subseteq satisfied

SatisfiedMarked == \A r \in Rules : state[r] = 4 => r \in satisfied
QueueAdmitted == \A i \in 1 .. Len(q) : q[i] # EOF => Admitted(q[i])
WorkerAdmitted(t) ==
  /\ pc[t] = "check" => Admitted(vertex[t])
  /\ pc[t] \in Building => deps[vertex[t]] \subseteq satisfied
  /\ (pc[t] = "push" /\ ~aborted) => Admitted(next[t])

\* The inductive invariant for any number of threads.
DepsInv == SatisfiedMarked /\ QueueAdmitted /\ \A t \in Threads : WorkerAdmitted(t)

\* The leaves, in any order, are a queue of rules.
LEMMA LeavesQueued ==
    ASSUME NEW S \in SUBSET Rules, NEW s \in SetToSeqs(S)
    PROVE  /\ s \in Seq(S)
           /\ \A i, j \in 1 .. Len(s) : s[i] = s[j] => i = j
  <1>1. IsFiniteSet(S)
    BY RulesAssumption, FS_Subset
  <1>2. Cardinality(S) \in Nat
    BY <1>1, FS_CardinalityType
  <1>3. s \in [1 .. Cardinality(S) -> S]
        /\ \A i, j \in 1 .. Cardinality(S) : i # j => s[i] # s[j]
    BY DEF SetToSeqs
  <1> QED BY <1>2, <1>3

\* What Init says of the rules, the queue and the goals.
LEMMA InitFacts ==
    ASSUME Init
    PROVE  /\ TypeInv
           /\ \E kept \in Seq(Rules) :
                /\ goal = kept /\ numgoals = Len(kept) /\ numgoalfin = 0
                /\ state = [r \in Rules |-> IF r \in Wanted(deps, kept) THEN 1 ELSE 0]
                /\ q \in SetToSeqs({r \in Wanted(deps, kept) : deps[r] = {}})
  <1>1. PICK m \in Makefiles : LET kept == KeptGoals(m.deps, m.goals)
                                   wanted == Wanted(m.deps, kept)
                                   leaves == {r \in wanted : m.deps[r] = {}} IN
          /\ deps = m.deps
          /\ num_threads \in 1 .. MaxThreads
          /\ state = [r \in Rules |-> IF r \in wanted THEN 1 ELSE 0]
          /\ q \in SetToSeqs(leaves)
          /\ goal = kept /\ numgoals = Len(kept) /\ numgoalfin = 0
          /\ pc = [t \in Threads |-> "pull"]
          /\ vertex = [t \in Threads |-> NONE]
          /\ todo = [t \in Threads |-> {}]
          /\ next = [t \in Threads |-> NONE]
          /\ verdict = [t \in Threads |-> FALSE]
          /\ idx = [t \in Threads |-> 0]
          /\ satisfied = {}
          /\ runs = [r \in Rules |-> 0]
    BY DEF Init
  <1> DEFINE kept == KeptGoals(m.deps, m.goals)
             leaves == {r \in Wanted(deps, kept) : deps[r] = {}}
  <1>2. kept \in Seq(Rules) /\ deps \in [Rules -> SUBSET Rules]
    BY <1>1, KeptGoalsAssumption, MakefilesAssumption
  <1>3. /\ state = [r \in Rules |-> IF r \in Wanted(deps, kept) THEN 1 ELSE 0]
        /\ q \in SetToSeqs(leaves)
        /\ goal = kept /\ numgoals = Len(kept) /\ numgoalfin = 0
    BY <1>1
  <1>4. leaves \in SUBSET Rules
    BY DEF Wanted
  <1> HIDE DEF kept, leaves
  <1>5. q \in Seq(Rules \cup {EOF})
    BY <1>3, <1>4, LeavesQueued
  <1>6. TypeInv
    BY <1>1, <1>2, <1>3, <1>5 DEF TypeInv, HasRule, Looking, Building, Scanning, Counting
  <1> QED BY <1>2, <1>3, <1>6 DEF leaves

LEMMA InitDeps == Init => DepsInv
  <1> SUFFICES ASSUME Init PROVE DepsInv
    OBVIOUS
  <1>1. PICK kept \in Seq(Rules) :
                /\ state = [r \in Rules |-> IF r \in Wanted(deps, kept) THEN 1 ELSE 0]
                /\ q \in SetToSeqs({r \in Wanted(deps, kept) : deps[r] = {}})
    BY InitFacts
  <1> DEFINE leaves == {r \in Wanted(deps, kept) : deps[r] = {}}
  <1>2. leaves \in SUBSET Rules
    BY DEF Wanted
  <1>3. q \in Seq(leaves)
    BY <1>1, <1>2, LeavesQueued
  <1>4. \A i \in 1 .. Len(q) : deps[q[i]] = {}
    BY <1>3
  <1>5. \A i \in 1 .. Len(q) : Admitted(q[i])
    BY <1>4 DEF Admitted
  <1>6. pc = [t \in Threads |-> "pull"]
    BY DEF Init
  <1>7. \A r \in Rules : state[r] # 4
    BY <1>1
  <1> HIDE DEF leaves
  <1> QED BY <1>5, <1>6, <1>7 DEF DepsInv, SatisfiedMarked, QueueAdmitted, WorkerAdmitted, Building

-----------------------------------------------------------------------------
(* Types.                                                                  *)

\* What is left of a vector when one element is erased.
LEMMA Erased ==
    ASSUME NEW s \in Seq(Rules), NEW i \in Nat
    PROVE  /\ EraseAt(s, i) \in Seq(Rules)
           /\ i \in 1 .. Len(s) =>
                /\ Len(EraseAt(s, i)) = Len(s) - 1
                /\ \A j \in 1 .. Len(s) : j # i => \E k \in 1 .. Len(EraseAt(s, i)) :
                                                         EraseAt(s, i)[k] = s[j]
  <1>1. CASE i \notin 1 .. Len(s)
    BY <1>1 DEF EraseAt
  <1>2. CASE i \in 1 .. Len(s)
    <2> DEFINE a == SubSeq(s, 1, i - 1)
               b == SubSeq(s, i + 1, Len(s))
    <2>1. EraseAt(s, i) = a \o b
      BY <1>2 DEF EraseAt, RemoveAt
    <2>2. /\ a \in Seq(Rules) /\ Len(a) = i - 1
          /\ \A j \in 1 .. i - 1 : a[j] = s[j]
      BY <1>2
    <2>3. /\ b \in Seq(Rules) /\ Len(b) = Len(s) - i
          /\ \A j \in 1 .. Len(s) - i : b[j] = s[j + i]
      BY <1>2
    <2> HIDE DEF a, b
    <2>4. /\ a \o b \in Seq(Rules) /\ Len(a \o b) = Len(s) - 1
          /\ \A j \in 1 .. i - 1 : (a \o b)[j] = a[j]
          /\ \A j \in 1 .. Len(s) - i : (a \o b)[i - 1 + j] = b[j]
      BY <1>2, <2>2, <2>3
    <2>5. ASSUME NEW j \in 1 .. Len(s), j # i
          PROVE  \E k \in 1 .. Len(a \o b) : (a \o b)[k] = s[j]
      <3>1. CASE j < i
        BY <1>2, <2>2, <2>4, <3>1
      <3>2. CASE j > i
        <4>1. j - i \in 1 .. Len(s) - i /\ j - 1 \in 1 .. Len(s) - 1
              /\ i - 1 + (j - i) = j - 1 /\ (j - i) + i = j
          BY <1>2, <3>2
        <4>2. b[j - i] = s[j]
          BY <2>3, <4>1
        <4>3. (a \o b)[j - 1] = b[j - i]
          BY <2>4, <4>1
        <4> QED BY <2>4, <4>1, <4>2, <4>3
      <3> QED BY <1>2, <2>5, <3>1, <3>2
    <2> QED BY <1>2, <2>1, <2>4, <2>5
  <1> QED BY <1>1, <1>2

LEMMA MainType == ASSUME TypeInv, MainQueuesEOF \/ MainReturns PROVE TypeInv'
  <1>1. CASE MainQueuesEOF
    BY <1>1 DEF TypeInv, MainQueuesEOF, worker, Threads
  <1>2. CASE MainReturns
    BY <1>2 DEF TypeInv, MainReturns, worker, shared, Threads
  <1> QED BY <1>1, <1>2

LEMMA StepType == ASSUME TypeInv, NEW t \in Threads, Step(t) PROVE TypeInv'
  <1> USE DEF HasRule, Looking, Building, Scanning, Counting, At, Goto, Threads
  <1>0. /\ pc \in [Threads -> HasRule \cup {"pull", "exited"}]
        /\ vertex \in [Threads -> Rules \cup {NONE}]
        /\ todo \in [Threads -> SUBSET Rules]
        /\ \A s \in Threads : /\ pc[s] \in HasRule => vertex[s] \in Rules
                              /\ pc[s] \in Looking => next[s] \in Rules
    BY DEF TypeInv
  <1>1. CASE Pull(t)
    <2>1. q \in Seq(Rules \cup {EOF}) /\ q # << >>
      BY <1>1 DEF TypeInv, Pull
    <2>2. Head(q) \in Rules \cup {EOF} /\ Tail(q) \in Seq(Rules \cup {EOF})
      BY <2>1
    <2>3. q' \in Seq(Rules \cup {EOF})
      <3>1. q' = Append(Tail(q), EOF) \/ q' = Tail(q)
        BY <1>1 DEF Pull
      <3>2. Append(Tail(q), EOF) \in Seq(Rules \cup {EOF})
        BY <2>2
      <3> QED BY <2>2, <3>1, <3>2
    <2>4. CASE Head(q) = EOF
      <3>1. pc' = [pc EXCEPT ![t] = "exited"] /\ vertex' = vertex /\ next' = next
        BY <1>1, <2>4 DEF Pull
      <3>2. /\ pc' \in [Threads -> HasRule \cup {"pull", "exited"}]
            /\ \A s \in Threads : /\ pc'[s] \in HasRule => vertex'[s] \in Rules
                                  /\ pc'[s] \in Looking => next'[s] \in Rules
        BY <1>0, <3>1
      <3> QED BY <1>1, <2>3, <2>4, <3>1, <3>2 DEF Pull, TypeInv
    <2>5. CASE Head(q) # EOF
      <3>1. Head(q) \in Rules
        BY <2>2, <2>5
      <3>2. pc' = [pc EXCEPT ![t] = "check"] /\ vertex' = [vertex EXCEPT ![t] = Head(q)]
            /\ next' = next
        BY <1>1, <2>5 DEF Pull
      <3>3. /\ pc' \in [Threads -> HasRule \cup {"pull", "exited"}]
            /\ vertex' \in [Threads -> Rules \cup {NONE}]
            /\ \A s \in Threads : /\ pc'[s] \in HasRule => vertex'[s] \in Rules
                                  /\ pc'[s] \in Looking => next'[s] \in Rules
        BY <1>0, <3>1, <3>2
      <3> QED BY <1>1, <2>3, <3>3 DEF Pull, TypeInv
    <2> QED BY <2>4, <2>5
  <1>2. CASE Check(t)
    <2>1. CASE state[vertex[t]] # 2
      <3>1. pc[t] = "check" /\ vertex' = vertex /\ next' = next /\ todo' = todo
            /\ pc' = [pc EXCEPT ![t] = "stat"]
        BY <1>2, <2>1 DEF Check
      <3>2. /\ pc' \in [Threads -> HasRule \cup {"pull", "exited"}]
            /\ \A s \in Threads : /\ pc'[s] \in HasRule => vertex'[s] \in Rules
                                  /\ pc'[s] \in Looking => next'[s] \in Rules
        BY <1>0, <3>1
      <3> QED BY <1>2, <3>1, <3>2 DEF Check, shared, TypeInv
    <2>2. CASE state[vertex[t]] = 2
      <3>1. pc' = [pc EXCEPT ![t] = "scan"] /\ todo' = [todo EXCEPT ![t] = Dependents(vertex[t])]
        BY <1>2, <2>2 DEF Check, StartScan
      <3>2. todo' \in [Threads -> SUBSET Rules]
        BY <1>0, <3>1 DEF Dependents
      <3> QED BY <1>2, <3>1, <3>2 DEF Check, shared, TypeInv
    <2> QED BY <2>1, <2>2
  <1>3. CASE Stat(t)
    <2>1. PICK modify \in BOOLEAN :
                IF modify
                THEN /\ Goto(t, "run")
                     /\ runs' = [runs EXCEPT ![vertex[t]] = IF @ = 2 THEN 2 ELSE @ + 1]
                     /\ UNCHANGED verdict
                ELSE /\ Goto(t, "set")
                     /\ verdict' = [verdict EXCEPT ![t] = FALSE]
                     /\ UNCHANGED runs
      BY <1>3 DEF Stat
    <2>2. vertex[t] \in Rules /\ runs \in [Rules -> 0 .. 2]
      BY <1>0, <1>3 DEF Stat, TypeInv
    <2>3. CASE modify
      <3>1. runs' \in [Rules -> 0 .. 2]
        BY <2>1, <2>2, <2>3
      <3>2. pc' = [pc EXCEPT ![t] = "run"] /\ verdict' = verdict
        BY <2>1, <2>3
      <3> QED BY <1>3, <2>2, <3>1, <3>2 DEF Stat, shared, TypeInv
    <2>4. CASE ~modify
      <3>1. pc[t] = "stat" /\ vertex' = vertex /\ next' = next /\ runs' = runs
            /\ pc' = [pc EXCEPT ![t] = "set"] /\ verdict' = [verdict EXCEPT ![t] = FALSE]
        BY <1>3, <2>1, <2>4 DEF Stat
      <3>2. /\ pc' \in [Threads -> HasRule \cup {"pull", "exited"}]
            /\ \A s \in Threads : /\ pc'[s] \in HasRule => vertex'[s] \in Rules
                                  /\ pc'[s] \in Looking => next'[s] \in Rules
        BY <1>0, <3>1
      <3>3. verdict' \in [Threads -> BOOLEAN]
        BY <3>1 DEF TypeInv
      <3> QED BY <1>3, <3>1, <3>2, <3>3 DEF Stat, shared, TypeInv
    <2> QED BY <2>3, <2>4
  <1>4. CASE Run(t)
    BY <1>4 DEF TypeInv, Run, shared
  <1>5. CASE SetState(t)
    BY <1>5 DEF TypeInv, SetState, StartScan, Dependents
  <1>6. CASE Scan(t)
    BY <1>6 DEF TypeInv, Scan, shared
  <1>7. CASE ScanDone(t)
    BY <1>7 DEF TypeInv, ScanDone, shared
  <1>8. CASE LookAtDeps(t)
    BY <1>8 DEF TypeInv, LookAtDeps, shared, ShouldFail
  <1>9. CASE FailDependent(t)
    BY <1>9 DEF TypeInv, FailDependent
  <1>10. CASE PushDependent(t)
    BY <1>10 DEF TypeInv, PushDependent
  <1>11. CASE FindGoal(t)
    <2>1. CASE idx[t] > Len(goal)
      BY <1>11, <2>1 DEF TypeInv, FindGoal, shared
    <2>2. CASE ~(idx[t] > Len(goal)) /\ goal[idx[t]] = vertex[t]
      BY <1>11, <2>2 DEF TypeInv, FindGoal, shared
    <2>3. CASE ~(idx[t] > Len(goal)) /\ goal[idx[t]] # vertex[t]
      BY <1>11, <2>3 DEF TypeInv, FindGoal, shared
    <2> QED BY <2>1, <2>2, <2>3
  <1>12. CASE EraseGoal(t)
    BY <1>12, Erased DEF TypeInv, EraseGoal
  <1> QED BY <1>1, <1>2, <1>3, <1>4, <1>5, <1>6, <1>7, <1>8, <1>9, <1>10, <1>11, <1>12 DEF Step

LEMMA NextType == ASSUME TypeInv, [Next]_vars PROVE TypeInv'
  <1>1. CASE UNCHANGED vars
    BY <1>1 DEF TypeInv, vars, shared, worker, Threads
  <1> QED BY <1>1, MainType, StepType DEF Next

-----------------------------------------------------------------------------
(* Dependencies first, with any number of threads.                         *)

\* What a step of worker t leaves to check: the states and the queue, and what
\* t itself holds; what was admitted stays admitted for the others.
LEMMA OthersAdmitted ==
    ASSUME TypeInv, DepsInv, NEW t \in Threads, ~aborted,
           deps' = deps, num_threads' = num_threads, satisfied \subseteq satisfied',
           \A r \in Rules : Admitted(r) => Admitted(r)',
           \A s \in Threads \ {t} : pc'[s] = pc[s] /\ vertex'[s] = vertex[s] /\ next'[s] = next[s],
           SatisfiedMarked', QueueAdmitted', WorkerAdmitted(t)'
    PROVE  DepsInv'
  <1>1. Threads' = Threads
    BY DEF Threads
  <1>2. ASSUME NEW s \in Threads, s # t PROVE WorkerAdmitted(s)'
    <2>1. /\ WorkerAdmitted(s)
          /\ pc[s] \in HasRule => vertex[s] \in Rules
          /\ pc[s] \in Looking => next[s] \in Rules
      BY DEF DepsInv, TypeInv
    <2>2. pc'[s] = pc[s] /\ vertex'[s] = vertex[s] /\ next'[s] = next[s]
      BY <1>2
    <2>3. pc'[s] = "check" => Admitted(vertex[s])'
      BY <2>1, <2>2 DEF WorkerAdmitted, HasRule
    <2>4. pc'[s] \in Building => deps[vertex[s]] \subseteq satisfied'
      BY <2>1, <2>2 DEF WorkerAdmitted
    <2>5. pc'[s] = "push" => (Admitted(next[s]))'
      BY <2>1, <2>2 DEF WorkerAdmitted, Looking
    <2> QED BY <2>2, <2>3, <2>4, <2>5 DEF WorkerAdmitted, Admitted
  <1> QED BY <1>1, <1>2 DEF DepsInv

LEMMA MainDeps == ASSUME TypeInv, DepsInv, MainQueuesEOF \/ MainReturns PROVE DepsInv'
  <1> USE DEF DepsInv, SatisfiedMarked, QueueAdmitted, WorkerAdmitted, Admitted
  <1>1. CASE MainQueuesEOF
    <2>1. q \in Seq(Rules \cup {EOF}) /\ q' = Append(q, EOF)
      BY <1>1 DEF MainQueuesEOF, TypeInv
    <2>2. \A i \in 1 .. Len(q') : q'[i] # EOF => (i \in 1 .. Len(q) /\ q'[i] = q[i])
      BY <2>1
    <2> QED BY <1>1, <2>2 DEF MainQueuesEOF, worker, Threads
  <1>2. CASE MainReturns
    BY <1>2 DEF MainReturns, worker, shared, Threads
  <1> QED BY <1>1, <1>2

LEMMA StepDeps == ASSUME TypeInv, DepsInv, NEW t \in Threads, Step(t) PROVE DepsInv'
  <1>0. /\ pc \in [Threads -> HasRule \cup {"pull", "exited"}]
        /\ vertex \in [Threads -> Rules \cup {NONE}]
        /\ next \in [Threads -> Rules \cup {NONE}]
        /\ deps \in [Rules -> SUBSET Rules]
        /\ state \in [Rules -> {0, 1, 2, 4}]
        /\ q \in Seq(Rules \cup {EOF})
        /\ pc[t] \in HasRule => vertex[t] \in Rules
        /\ pc[t] \in Looking => next[t] \in Rules
    BY DEF TypeInv
  <1>a. SatisfiedMarked /\ QueueAdmitted /\ WorkerAdmitted(t)
    BY DEF DepsInv
  <1>b. /\ ~aborted /\ deps' = deps /\ num_threads' = num_threads
        /\ \A s \in Threads \ {t} : pc'[s] = pc[s] /\ vertex'[s] = vertex[s] /\ next'[s] = next[s]
    BY <1>0 DEF Step, Pull, Check, Stat, Run, SetState, Scan, ScanDone, LookAtDeps, FailDependent,
                PushDependent, FindGoal, EraseGoal, At, Goto, StartScan
  <1>c. SUFFICES /\ satisfied \subseteq satisfied'
                 /\ \A r \in Rules : Admitted(r) => Admitted(r)'
                 /\ SatisfiedMarked' /\ QueueAdmitted' /\ WorkerAdmitted(t)'
    BY <1>b, OthersAdmitted
  <1>d. ASSUME UNCHANGED <<deps, state, satisfied>>
        PROVE  /\ satisfied \subseteq satisfied'
               /\ \A r \in Rules : Admitted(r) => Admitted(r)'
               /\ SatisfiedMarked' /\ (UNCHANGED q => QueueAdmitted')
    BY <1>a, <1>d DEF Admitted, SatisfiedMarked, QueueAdmitted
  <1> USE DEF At, Goto, Building
  <1>1. CASE Pull(t)
    <2>1. Head(q) = q[1] /\ 1 \in 1 .. Len(q) /\ Tail(q) \in Seq(Rules \cup {EOF})
      BY <1>0, <1>1 DEF Pull
    <2>2. \A i \in 1 .. Len(q') : q'[i] # EOF => (i + 1 \in 1 .. Len(q) /\ q'[i] = q[i + 1])
      BY <1>0, <1>1, <2>1 DEF Pull
    <2>3. QueueAdmitted'
      BY <1>a, <1>1, <2>2 DEF Pull, QueueAdmitted, Admitted
    <2>4. Head(q) # EOF => Admitted(Head(q))
      BY <1>a, <2>1 DEF QueueAdmitted
    <2>5. WorkerAdmitted(t)'
      BY <1>0, <1>1, <2>4 DEF Pull, WorkerAdmitted, Admitted
    <2> QED BY <1>1, <1>d, <2>3, <2>5 DEF Pull
  <1>2. CASE Check(t)
    <2>1. WorkerAdmitted(t)'
      BY <1>0, <1>a, <1>2 DEF Check, shared, StartScan, WorkerAdmitted, Admitted
    <2> QED BY <1>2, <1>d, <2>1 DEF Check, shared
  <1>3. CASE Stat(t)
    <2>1. WorkerAdmitted(t)'
      BY <1>0, <1>a, <1>3 DEF Stat, shared, WorkerAdmitted
    <2> QED BY <1>3, <1>d, <2>1 DEF Stat, shared
  <1>4. CASE Run(t)
    <2>1. WorkerAdmitted(t)'
      BY <1>0, <1>a, <1>4 DEF Run, shared, WorkerAdmitted
    <2> QED BY <1>4, <1>d, <2>1 DEF Run, shared
  <1>5. CASE SetState(t)
    <2>1. vertex[t] \in Rules /\ deps[vertex[t]] \subseteq satisfied
      BY <1>0, <1>a, <1>5 DEF SetState, WorkerAdmitted, HasRule
    <2>2. satisfied \subseteq satisfied' /\ SatisfiedMarked'
      BY <1>0, <1>a, <1>5, <2>1 DEF SetState, SatisfiedMarked
    <2>3. ASSUME NEW r \in Rules, Admitted(r) PROVE Admitted(r)'
      BY <1>0, <1>b, <1>5, <2>1, <2>2, <2>3 DEF SetState, Admitted
    <2>4. QueueAdmitted'
      BY <1>0, <1>a, <1>5, <2>3 DEF SetState, QueueAdmitted
    <2>5. WorkerAdmitted(t)'
      BY <1>0, <1>5 DEF SetState, StartScan, WorkerAdmitted
    <2> QED BY <2>2, <2>3, <2>4, <2>5
  <1>6. CASE Scan(t)
    <2>1. WorkerAdmitted(t)'
      BY <1>0, <1>6 DEF Scan, WorkerAdmitted
    <2> QED BY <1>6, <1>d, <2>1 DEF Scan, shared
  <1>7. CASE ScanDone(t)
    <2>1. WorkerAdmitted(t)'
      BY <1>0, <1>7 DEF ScanDone, WorkerAdmitted
    <2> QED BY <1>7, <1>d, <2>1 DEF ScanDone, shared
  <1>8. CASE LookAtDeps(t)
    <2>1. next[t] \in Rules /\ deps[next[t]] \subseteq Rules
      BY <1>0, <1>8 DEF LookAtDeps, Looking
    <2>2. (pc'[t] = "push" /\ ~aborted') => \A d \in deps[next[t]] : state[d] = 4
      BY <1>0, <1>8, <2>1 DEF LookAtDeps, Ready, ShouldFail
    <2>3. (pc'[t] = "push" /\ ~aborted') => deps[next[t]] \subseteq satisfied
      BY <1>a, <2>1, <2>2 DEF SatisfiedMarked
    <2>4. pc'[t] \in {"scan", "fail", "push"}
      BY <1>0, <1>8 DEF LookAtDeps
    <2>5. WorkerAdmitted(t)'
      BY <1>8, <2>3, <2>4 DEF LookAtDeps, shared, WorkerAdmitted, Admitted
    <2> QED BY <1>8, <1>d, <2>5 DEF LookAtDeps, shared
  <1>9. CASE FailDependent(t)
    <2>1. next[t] \in Rules /\ state' = [state EXCEPT ![next[t]] = 2]
          /\ satisfied' = satisfied /\ q' = q
      BY <1>0, <1>9 DEF FailDependent, Looking
    <2>2. SatisfiedMarked' /\ \A r \in Rules : Admitted(r) => Admitted(r)'
      BY <1>0, <1>a, <1>b, <2>1 DEF SatisfiedMarked, Admitted
    <2>3. QueueAdmitted'
      BY <1>0, <1>a, <2>1, <2>2 DEF QueueAdmitted
    <2>4. WorkerAdmitted(t)'
      BY <1>0, <1>9, <2>1 DEF FailDependent, WorkerAdmitted, Admitted
    <2> QED BY <2>1, <2>2, <2>3, <2>4
  <1>10. CASE PushDependent(t)
    <2>1. Len(q') = Len(q) + 1 /\ q'[Len(q) + 1] = next[t] /\ \A i \in 1 .. Len(q) : q'[i] = q[i]
      BY <1>0, <1>10 DEF PushDependent, Looking
    <2>2. \A i \in 1 .. Len(q') : i \in 1 .. Len(q) \/ i = Len(q) + 1
      BY <1>0, <2>1
    <2>3. QueueAdmitted'
      BY <1>a, <1>10, <2>1, <2>2 DEF PushDependent, QueueAdmitted, WorkerAdmitted, Admitted
    <2>4. WorkerAdmitted(t)'
      BY <1>0, <1>10 DEF PushDependent, WorkerAdmitted
    <2> QED BY <1>10, <1>d, <2>3, <2>4 DEF PushDependent
  <1>11. CASE FindGoal(t)
    <2>1. WorkerAdmitted(t)'
      BY <1>0, <1>11 DEF FindGoal, WorkerAdmitted
    <2> QED BY <1>11, <1>d, <2>1 DEF FindGoal, shared
  <1>12. CASE EraseGoal(t)
    <2>1. WorkerAdmitted(t)'
      BY <1>0, <1>12 DEF EraseGoal, WorkerAdmitted
    <2> QED BY <1>12, <1>d, <2>1 DEF EraseGoal
  <1> QED BY <1>1, <1>2, <1>3, <1>4, <1>5, <1>6, <1>7, <1>8, <1>9, <1>10, <1>11, <1>12 DEF Step

LEMMA NextDeps == ASSUME TypeInv, DepsInv, [Next]_vars PROVE DepsInv'
  <1>1. CASE UNCHANGED vars
    BY <1>1 DEF DepsInv, SatisfiedMarked, QueueAdmitted, WorkerAdmitted, Admitted,
                vars, shared, worker, Threads
  <1> QED BY <1>1, MainDeps, StepDeps DEF Next

\* However many workers pull from the queue, and however their reads of each
\* other's rule->state interleave, a rule's commands start only when every rule
\* it depends on has been satisfied (lines 132-155 decide what is queued).
THEOREM DependenciesFirst == Spec => []DepsBuiltFirst
  <1>1. Init => TypeInv /\ DepsInv
    BY InitFacts, InitDeps
  <1>2. TypeInv /\ DepsInv /\ [Next]_vars => (TypeInv /\ DepsInv)'
    BY NextType, NextDeps
  <1>3. TypeInv /\ DepsInv => DepsBuiltFirst
    BY DEF DepsInv, WorkerAdmitted, DepsBuiltFirst, Building
  <1> QED BY <1>1, <1>2, <1>3, PTL DEF Spec

-----------------------------------------------------------------------------
(* One worker thread, thread 1.                                            *)

Finished(r) == state[r] \in {2, 4}
Absent(r) == \A i \in 1 .. Len(q) : q[i] # r

\* A rule on its way to the worker: not yet satisfied, and if it has not failed
\* then all it depends on is.
Buildable(r) == /\ state[r] \in {1, 2}
                /\ state[r] = 1 => \A d \in deps[r] : state[d] = 4

\* The states along the dependency graph.
GraphSound ==
  \A r \in Rules :
    /\ state[r] # 0 => \A d \in deps[r] : state[d] # 0
    /\ state[r] = 4 => \A d \in deps[r] : state[d] = 4
    /\ state[r] = 2 => /\ \A d \in deps[r] : Finished(d)
                       /\ runs[r] = 1 \/ \E d \in deps[r] : state[d] = 2

\* No rule is queued twice.
QueueOnce ==
  /\ \A i, j \in 1 .. Len(q) : q[i] = q[j] /\ q[i] # EOF => i = j
  /\ \A i \in 1 .. Len(q) : q[i] # EOF => Buildable(q[i])

\* What the worker holds, and what it has still to look at.  A dependent that is
\* open is not in the queue: only the last of its dependencies queues it.
Holds ==
  /\ pc[1] = "check" => Buildable(vertex[1]) /\ Absent(vertex[1])
  /\ pc[1] \in Building => /\ state[vertex[1]] = 1 /\ Buildable(vertex[1])
                           /\ Absent(vertex[1])
  /\ pc[1] \in Scanning \cup Counting => Finished(vertex[1])
  /\ pc[1] \in Scanning =>
       \A n \in todo[1] : state[n] # 4 /\ (state[n] = 1 => Absent(n))
  /\ pc[1] \in Looking => next[1] \notin todo[1] /\ Absent(next[1])
  /\ pc[1] \in {"deps", "fail"} => state[next[1]] = 1
  /\ pc[1] = "fail" => /\ \A d \in deps[next[1]] : Finished(d)
                       /\ \E d \in deps[next[1]] : state[d] = 2
  /\ pc[1] = "push" => Buildable(next[1])

\* A rule's commands are started at most once, and not before its turn.
RunOnce ==
  /\ \A r \in Rules :
       /\ runs[r] < 2
       /\ (state[r] = 1 /\ ~(pc[1] \in {"run", "set"} /\ r = vertex[1])) => runs[r] = 0
  /\ (pc[1] = "run" \/ (pc[1] = "set" /\ verdict[1])) => runs[vertex[1]] = 1

\* Goals are counted as they are erased, and what is wanted is what the goals
\* that are left, or that have been finished, depend on.
GoalsCounted ==
  /\ Len(goal) + numgoalfin = numgoals
  /\ pc[1] = "goal" => idx[1] >= 1
  /\ pc[1] = "erase" => idx[1] \in 1 .. Len(goal) /\ goal[idx[1]] = vertex[1]
  /\ main # "wait" => numgoalfin >= numgoals
Covers(S) == /\ \A i \in 1 .. Len(goal) : goal[i] \in S
             /\ \A r \in Rules : Finished(r) => r \in S
             /\ \A r \in S : deps[r] \subseteq S
GoalsCover == \A S \in SUBSET Rules : Covers(S) => \A r \in Rules : state[r] # 0 => r \in S

\* The inductive invariant for one worker thread.
Orderly == ~aborted /\ GraphSound /\ QueueOnce /\ Holds /\ RunOnce /\ GoalsCounted /\ GoalsCover
OneInv == num_threads = 1 => Orderly

\* What the types say of the one worker.
Typed ==
  /\ num_threads = 1
  /\ deps \in [Rules -> SUBSET Rules]
  /\ state \in [Rules -> {0, 1, 2, 4}]
  /\ runs \in [Rules -> 0 .. 2]
  /\ q \in Seq(Rules \cup {EOF})
  /\ pc[1] \in HasRule \cup {"pull", "exited"}
  /\ todo[1] \in SUBSET Rules
  /\ pc[1] \in HasRule => vertex[1] \in Rules
  /\ pc[1] \in Looking => next[1] \in Rules
Updates ==
  /\ \A l : pc' = [pc EXCEPT ![1] = l] => pc'[1] = l
  /\ \A r : vertex' = [vertex EXCEPT ![1] = r] => vertex'[1] = r
  /\ \A r : next' = [next EXCEPT ![1] = r] => next'[1] = r
  /\ \A S : todo' = [todo EXCEPT ![1] = S] => todo'[1] = S
  /\ \A b : verdict' = [verdict EXCEPT ![1] = b] => verdict'[1] = b
  /\ \A i : idx' = [idx EXCEPT ![1] = i] => idx'[1] = i

LEMMA OneTyped == ASSUME TypeInv, num_threads = 1 PROVE Typed /\ Updates
  <1>1. 1 \in Threads
    BY DEF Threads
  <1> QED BY <1>1 DEF TypeInv, Typed, Updates

\* Parts that depend on a few variables only.
LEMMA SameGraph == ASSUME GraphSound, UNCHANGED <<deps, state, runs>> PROVE GraphSound'
  BY DEF GraphSound, Finished
LEMMA SameQueue == ASSUME QueueOnce, UNCHANGED <<deps, state, q>> PROVE QueueOnce'
  BY DEF QueueOnce, Buildable
LEMMA SameCover == ASSUME GoalsCover, UNCHANGED <<deps, state, goal>> PROVE GoalsCover'
  BY DEF GoalsCover, Covers, Finished

LEMMA OnePull == ASSUME Typed, Updates, Orderly, Pull(1) PROVE Orderly'
  <1> USE DEF Orderly
  <1>0. /\ q # << >> /\ pc[1] = "pull"
        /\ UNCHANGED <<deps, state, runs, goal, numgoalfin, numgoals, main, aborted, next, todo,
                       verdict, idx>>
    BY DEF Pull, At
  <1>1. Head(q) = q[1] /\ 1 \in 1 .. Len(q) /\ Tail(q) \in Seq(Rules \cup {EOF})
        /\ Len(Tail(q)) = Len(q) - 1 /\ \A i \in 1 .. Len(q) - 1 : Tail(q)[i] = q[i + 1]
    BY <1>0 DEF Typed
  <1>2. \A i \in 1 .. Len(q') : q'[i] # EOF => (i + 1 \in 1 .. Len(q) /\ q'[i] = q[i + 1])
    BY <1>1 DEF Pull
  <1>3. QueueOnce'
    <2>1. (\A i \in 1 .. Len(q) : q[i] # EOF => Buildable(q[i]))'
      BY <1>0, <1>2 DEF QueueOnce, Buildable
    <2>2. Len(q') \in Nat
      BY <1>1 DEF Pull
    <2>3. ASSUME NEW i \in 1 .. Len(q'), NEW j \in 1 .. Len(q'), q'[i] = q'[j], q'[i] # EOF
          PROVE  i = j
      <3>1. i + 1 \in 1 .. Len(q) /\ j + 1 \in 1 .. Len(q) /\ q[i + 1] = q[j + 1] /\ q[i + 1] # EOF
        BY <1>2, <2>3
      <3>2. i + 1 = j + 1
        BY <3>1 DEF QueueOnce
      <3> QED BY <2>2, <3>2
    <2> QED BY <2>1, <2>3 DEF QueueOnce
  <1>4. Holds' /\ pc'[1] \in {"check", "exited"}
    <2>1. CASE Head(q) = EOF
      <3>1. pc'[1] = "exited"
        BY <2>1 DEF Pull, Goto, Updates
      <3> QED BY <3>1 DEF Holds, Building, Scanning, Counting, Looking
    <2>2. CASE Head(q) # EOF
      <3>1. pc'[1] = "check" /\ vertex'[1] = q[1] /\ q' = Tail(q)
        BY <1>1, <2>2 DEF Pull, Goto, Updates
      <3>2. Buildable(vertex[1])'
        <4>1. Buildable(q[1])
          BY <1>1, <2>2 DEF QueueOnce
        <4> QED BY <1>0, <3>1, <4>1 DEF Buildable
      <3>3. \A i \in 1 .. Len(q') : q'[i] # q[1]
        <4> SUFFICES ASSUME NEW i \in 1 .. Len(q'), q'[i] = q[1] PROVE FALSE
          OBVIOUS
        <4>1. q[1] # EOF /\ i + 1 \in 1 .. Len(q) /\ q[i + 1] = q[1] /\ i \in Nat /\ i >= 1
          BY <1>1, <1>2, <2>2, <3>1
        <4>2. i + 1 = 1
          BY <1>1, <4>1 DEF QueueOnce
        <4> QED BY <4>1, <4>2
      <3> QED BY <3>1, <3>2, <3>3 DEF Holds, Buildable, Absent, Building, Scanning, Counting,
                 Looking
    <2> QED BY <2>1, <2>2
  <1>5. RunOnce'
    BY <1>0, <1>4 DEF RunOnce
  <1>6. GoalsCounted'
    BY <1>0, <1>4 DEF GoalsCounted
  <1> QED BY <1>0, <1>3, <1>4, <1>5, <1>6, SameGraph, SameCover

\* The worker starts to look at the dependents of a rule it has finished.
LEMMA ScanStarts ==
    ASSUME Typed, GraphSound, QueueOnce, vertex[1] \in Rules, state'[vertex[1]] \in {2, 4},
           state[vertex[1]] \in {1, 2}, q' = q, deps' = deps,
           state'[vertex[1]] = 4 => vertex[1] \notin deps[vertex[1]],
           \A r \in Rules : r # vertex[1] => state'[r] = state[r]
    PROVE  \A n \in Dependents(vertex[1]) : state'[n] # 4 /\ (state'[n] = 1 => Absent(n)')
  <1> SUFFICES ASSUME NEW n \in Rules, vertex[1] \in deps[n]
               PROVE  state'[n] # 4 /\ (state'[n] = 1 => Absent(n)')
    BY DEF Dependents
  <1>1. state[n] # 4
    BY DEF GraphSound
  <1>2. state'[n] # 4
    BY <1>1
  <1>3. ASSUME state'[n] = 1 PROVE Absent(n)'
    <2>1. state[n] = 1 /\ ~ Buildable(n)
      BY <1>3 DEF Buildable
    <2>2. n # EOF
      OBVIOUS
    <2>3. \A i \in 1 .. Len(q) : q[i] # n
      BY <2>1, <2>2 DEF QueueOnce
    <2> QED BY <2>3 DEF Absent
  <1> QED BY <1>2, <1>3

LEMMA OneCheck == ASSUME Typed, Updates, Orderly, Check(1) PROVE Orderly'
  <1> USE DEF Orderly
  <1>0. pc[1] = "check" /\ UNCHANGED <<deps, state, runs, q, goal, numgoalfin, numgoals, main,
                                       aborted, vertex, next, verdict, idx>>
    BY DEF Check, At, shared
  <1>1. vertex[1] \in Rules /\ Buildable(vertex[1]) /\ Absent(vertex[1])
    BY <1>0 DEF Holds, Typed, HasRule
  <1>2. Holds' /\ pc'[1] \in {"stat", "scan"}
    <2>1. CASE state[vertex[1]] # 2
      <3>1. pc'[1] = "stat"
        BY <2>1 DEF Check, Goto, Updates
      <3> QED BY <1>0, <1>1, <2>1, <3>1 DEF Holds, Buildable, Absent, Building, Scanning,
                 Counting, Looking
    <2>2. CASE state[vertex[1]] = 2
      <3>1. pc'[1] = "scan" /\ todo'[1] = Dependents(vertex[1])
        BY <2>2 DEF Check, StartScan, Goto, Updates
      <3>2. \A n \in Dependents(vertex[1]) : state'[n] # 4 /\ (state'[n] = 1 => Absent(n)')
        BY <1>0, <1>1, <2>2, ScanStarts DEF Finished
      <3> QED BY <1>0, <2>2, <3>1, <3>2 DEF Holds, Finished, Building, Scanning, Counting, Looking
    <2> QED BY <2>1, <2>2
  <1>3. RunOnce'
    BY <1>0, <1>2 DEF RunOnce
  <1>4. GoalsCounted'
    BY <1>0, <1>2 DEF GoalsCounted
  <1> QED BY <1>0, <1>2, <1>3, <1>4, SameGraph, SameQueue, SameCover

LEMMA OneStat == ASSUME Typed, Updates, Orderly, Stat(1) PROVE Orderly'
  <1> USE DEF Orderly
  <1>0. pc[1] = "stat" /\ UNCHANGED <<deps, state, q, goal, numgoalfin, numgoals, main, aborted,
                                      vertex, next, todo, idx>>
    BY DEF Stat, At, shared
  <1>1. vertex[1] \in Rules /\ state[vertex[1]] = 1 /\ runs[vertex[1]] = 0
    BY <1>0 DEF Holds, RunOnce, Typed, HasRule, Building
  <1>2. \/ pc'[1] = "run" /\ runs' = [runs EXCEPT ![vertex[1]] = 1]
        \/ pc'[1] = "set" /\ runs' = runs /\ ~verdict'[1]
    BY <1>1 DEF Stat, Goto, Updates
  <1>3. /\ \A r \in Rules : r # vertex[1] => runs'[r] = runs[r]
        /\ runs'[vertex[1]] \in {0, 1} /\ (pc'[1] = "run" => runs'[vertex[1]] = 1)
    BY <1>1, <1>2 DEF Typed
  <1>4. RunOnce'
    BY <1>0, <1>2, <1>3 DEF RunOnce
  <1>5. GraphSound'
    BY <1>0, <1>1, <1>3 DEF GraphSound, Finished
  <1>6. Holds'
    BY <1>0, <1>2 DEF Holds, Buildable, Absent, Building, Scanning, Counting, Looking
  <1>7. GoalsCounted'
    BY <1>0, <1>2 DEF GoalsCounted
  <1> QED BY <1>0, <1>4, <1>5, <1>6, <1>7, SameQueue, SameCover

LEMMA OneRun == ASSUME Typed, Updates, Orderly, Run(1) PROVE Orderly'
  <1> USE DEF Orderly
  <1>0. pc[1] = "run" /\ UNCHANGED <<deps, state, runs, q, goal, numgoalfin, numgoals, main,
                                     aborted, vertex, next, todo, idx>>
    BY DEF Run, At, shared
  <1>1. pc'[1] = "set"
    BY DEF Run, Goto, Updates
  <1>2. RunOnce'
    BY <1>0, <1>1 DEF RunOnce
  <1>3. Holds'
    BY <1>0, <1>1 DEF Holds, Buildable, Absent, Building, Scanning, Counting, Looking
  <1>4. GoalsCounted'
    BY <1>0, <1>1 DEF GoalsCounted
  <1> QED BY <1>0, <1>2, <1>3, <1>4, SameGraph, SameQueue, SameCover

\* A rule that was open and is neither queued as open nor a dependency of one
\* is marked: the graph, the queue and the cover stay in order.
LEMMA Marked ==
    ASSUME Typed, GraphSound, QueueOnce, GoalsCover, NEW v \in Rules, NEW m \in {2, 4},
           state[v] = 1, Absent(v), state' = [state EXCEPT ![v] = m],
           UNCHANGED <<deps, runs, q, goal>>,
           m = 4 => \A d \in deps[v] : state[d] = 4,
           m = 2 => /\ \A d \in deps[v] : Finished(d)
                    /\ runs[v] = 1 \/ \E d \in deps[v] : state[d] = 2
    PROVE  GraphSound' /\ QueueOnce' /\ GoalsCover'
  <1>1. state'[v] = m /\ \A r \in Rules : r # v => state'[r] = state[r]
    BY DEF Typed
  <1>2. \A r \in Rules : deps[r] \subseteq Rules
    BY DEF Typed
  <1>3. \A r \in Rules : Finished(r) => Finished(r)'
    BY <1>1 DEF Finished
  <1>4. v \notin deps[v]
    BY DEF Finished
  <1>5. GraphSound'
    <2> SUFFICES ASSUME NEW r \in Rules
                 PROVE  /\ state'[r] # 0 => \A d \in deps[r] : state'[d] # 0
                        /\ state'[r] = 4 => \A d \in deps[r] : state'[d] = 4
                        /\ state'[r] = 2 => /\ \A d \in deps[r] : Finished(d)'
                                            /\ runs[r] = 1 \/ \E d \in deps[r] : state'[d] = 2
      BY DEF GraphSound
    <2>1. CASE r = v
      BY <1>1, <1>2, <1>3, <1>4, <2>1 DEF GraphSound
    <2>2. CASE r # v
      <3>1. state'[r] = 4 => \A d \in deps[r] : d # v
        BY <1>1, <2>2 DEF GraphSound
      <3>2. state'[r] = 4 => \A d \in deps[r] : state'[d] = 4
        BY <1>1, <1>2, <2>2, <3>1 DEF GraphSound
      <3>3. state'[r] # 0 => \A d \in deps[r] : state'[d] # 0
        BY <1>1, <1>2, <2>2 DEF GraphSound
      <3>4. state'[r] = 2 => \A d \in deps[r] : Finished(d)'
        BY <1>1, <1>2, <1>3, <2>2 DEF GraphSound
      <3>5. state'[r] = 2 => (runs[r] = 1 \/ \E d \in deps[r] : state'[d] = 2)
        BY <1>1, <1>2, <2>2 DEF GraphSound
      <3> QED BY <3>2, <3>3, <3>4, <3>5
    <2> QED BY <2>1, <2>2
  <1>6. QueueOnce'
    <2>1. \A r \in Rules : (r # v /\ Buildable(r)) => Buildable(r)'
      BY <1>1, <1>2 DEF Buildable
    <2>2. \A i \in 1 .. Len(q) : q[i] # EOF => (q[i] \in Rules /\ q[i] # v /\ Buildable(q[i]))
      BY DEF Typed, Absent, QueueOnce
    <2> QED BY <2>1, <2>2 DEF QueueOnce
  <1>7. GoalsCover'
    <2>1. \A S \in SUBSET Rules : Covers(S)' => Covers(S)
      BY <1>3 DEF Covers
    <2>2. \A r \in Rules : state'[r] # 0 => state[r] # 0
      BY <1>1
    <2> QED BY <2>1, <2>2 DEF GoalsCover
  <1> QED BY <1>5, <1>6, <1>7

LEMMA OneSetState == ASSUME Typed, Updates, Orderly, SetState(1) PROVE Orderly'
  <1> USE DEF Orderly
  <1>0. pc[1] = "set" /\ UNCHANGED <<deps, runs, q, goal, numgoalfin, numgoals, main, aborted,
                                     vertex, next, idx>>
    BY DEF SetState, At
  <1>1. /\ vertex[1] \in Rules /\ state[vertex[1]] = 1 /\ Absent(vertex[1])
        /\ \A d \in deps[vertex[1]] : state[d] = 4
        /\ verdict[1] => runs[vertex[1]] = 1
    BY <1>0 DEF Holds, Buildable, RunOnce, Typed, HasRule, Building
  <1>2. pc'[1] = "scan" /\ todo'[1] = Dependents(vertex[1])
    BY DEF SetState, StartScan, Goto, Updates
  <1>3. PICK m \in {2, 4} : state' = [state EXCEPT ![vertex[1]] = m] /\ (m = 2 => verdict[1])
    <2>1. CASE verdict[1]
      BY <2>1 DEF SetState
    <2>2. CASE ~verdict[1]
      <3>1. state' = [state EXCEPT ![vertex[1]] = 4]
        BY <2>2 DEF SetState
      <3> QED BY <3>1
    <2> QED BY <2>1, <2>2
  <1>4. GraphSound' /\ QueueOnce' /\ GoalsCover'
    <2>1. m = 2 => /\ \A d \in deps[vertex[1]] : Finished(d)
                   /\ runs[vertex[1]] = 1 \/ \E d \in deps[vertex[1]] : state[d] = 2
      BY <1>1, <1>3 DEF Finished
    <2> QED BY <1>0, <1>1, <1>3, <2>1, Marked
  <1>5. state'[vertex[1]] = m /\ \A r \in Rules : r # vertex[1] => state'[r] = state[r]
    BY <1>1, <1>3 DEF Typed
  <1>6. \A n \in Dependents(vertex[1]) : state'[n] # 4 /\ (state'[n] = 1 => Absent(n)')
    BY <1>0, <1>1, <1>5, ScanStarts
  <1>7. Holds'
    BY <1>0, <1>2, <1>5, <1>6 DEF Holds, Finished, Building, Scanning, Counting, Looking
  <1>8. RunOnce'
    BY <1>0, <1>2, <1>5 DEF RunOnce
  <1>9. GoalsCounted'
    BY <1>0, <1>2 DEF GoalsCounted
  <1> QED BY <1>0, <1>4, <1>7, <1>8, <1>9

LEMMA OneScan == ASSUME Typed, Updates, Orderly, Scan(1) PROVE Orderly'
  <1> USE DEF Orderly
  <1>0. pc[1] = "scan" /\ UNCHANGED <<deps, state, runs, q, goal, numgoalfin, numgoals, main,
                                      vertex, verdict, idx>>
    BY DEF Scan, At, shared
  <1>1. PICK n \in todo[1] :
                /\ todo' = [todo EXCEPT ![1] = @ \ {n}]
                /\ next' = [next EXCEPT ![1] = n]
                /\ aborted' = (state[n] = 4)
                /\ IF state[n] \in {0, 2} THEN UNCHANGED pc ELSE Goto(1, "deps")
    BY DEF Scan
  <1>2. todo'[1] = todo[1] \ {n} /\ next'[1] = n
    BY <1>1 DEF Updates
  <1>3. n \in Rules /\ state[n] # 4 /\ (state[n] = 1 => Absent(n))
    BY <1>0 DEF Holds, Scanning, Typed
  <1>4. ~aborted'
    BY <1>1, <1>3
  <1>5. pc'[1] = "scan" \/ (pc'[1] = "deps" /\ state[n] = 1)
    <2>1. CASE state[n] \in {0, 2}
      BY <1>0, <1>1, <2>1
    <2>2. CASE state[n] \notin {0, 2}
      <3>1. pc' = [pc EXCEPT ![1] = "deps"]
        BY <1>1, <2>2 DEF Goto
      <3>2. state[n] = 1
        BY <1>3, <2>2 DEF Typed
      <3> QED BY <3>1, <3>2 DEF Updates
    <2> QED BY <2>1, <2>2
  <1>6. Holds'
    <2>1. /\ Finished(vertex[1])
          /\ \A k \in todo[1] : state[k] # 4 /\ (state[k] = 1 => Absent(k))
      BY <1>0 DEF Holds, Scanning
    <2>2. /\ Finished(vertex[1])'
          /\ (\A k \in todo[1] : state[k] # 4 /\ (state[k] = 1 => Absent(k)))'
      BY <1>0, <1>2, <2>1 DEF Absent, Finished
    <2>3. (next[1] \notin todo[1])' /\ (state[n] = 1 => Absent(next[1])')
      BY <1>0, <1>2, <1>3 DEF Absent
    <2> QED BY <1>0, <1>2, <1>5, <2>2, <2>3 DEF Holds, Building, Scanning, Counting, Looking
  <1>7. RunOnce'
    BY <1>0, <1>5 DEF RunOnce
  <1>8. GoalsCounted'
    BY <1>0, <1>5 DEF GoalsCounted
  <1> QED BY <1>0, <1>4, <1>6, <1>7, <1>8, SameGraph, SameQueue, SameCover

LEMMA OneScanDone == ASSUME Typed, Updates, Orderly, ScanDone(1) PROVE Orderly'
  <1> USE DEF Orderly
  <1>0. pc[1] = "scan" /\ UNCHANGED <<deps, state, runs, q, goal, numgoalfin, numgoals, main,
                                      aborted, vertex, next, todo, verdict>>
    BY DEF ScanDone, At, shared
  <1>1. pc'[1] = "goal" /\ idx'[1] = 1
    BY DEF ScanDone, Goto, Updates
  <1>2. RunOnce'
    BY <1>0, <1>1 DEF RunOnce
  <1>3. Holds'
    BY <1>0, <1>1 DEF Holds, Finished, Building, Scanning, Counting, Looking
  <1>4. GoalsCounted'
    BY <1>0, <1>1 DEF GoalsCounted
  <1> QED BY <1>0, <1>2, <1>3, <1>4, SameGraph, SameQueue, SameCover

LEMMA OneLookAtDeps == ASSUME Typed, Updates, Orderly, LookAtDeps(1) PROVE Orderly'
  <1> USE DEF Orderly
  <1>0. pc[1] = "deps" /\ UNCHANGED <<deps, state, runs, q, goal, numgoalfin, numgoals, main,
                                      vertex, next, todo, idx>>
    BY DEF LookAtDeps, At, shared
  <1>1. /\ next[1] \in Rules /\ state[next[1]] = 1 /\ next[1] \notin todo[1] /\ Absent(next[1])
        /\ deps[next[1]] \subseteq Rules
    BY <1>0 DEF Holds, Looking, Typed
  <1>2. \A d \in deps[next[1]] : state[d] # 0
    BY <1>1 DEF GraphSound
  <1>3. ~aborted'
    BY <1>2 DEF LookAtDeps
  <1>4. pc'[1] = (IF ~Ready(next[1]) THEN "scan"
                  ELSE IF ShouldFail(next[1]) THEN "fail" ELSE "push")
    BY DEF LookAtDeps, Goto, Updates
  <1>5. /\ pc'[1] = "fail" => /\ \A d \in deps[next[1]] : Finished(d)
                              /\ \E d \in deps[next[1]] : state[d] = 2
        /\ pc'[1] = "push" => Buildable(next[1])
        /\ pc'[1] \in {"scan", "fail", "push"}
    BY <1>1, <1>2, <1>4 DEF Ready, ShouldFail, Finished, Buildable, Typed
  <1>6. /\ Finished(vertex[1])
        /\ \A k \in todo[1] : state[k] # 4 /\ (state[k] = 1 => Absent(k))
    BY <1>0 DEF Holds, Scanning
  <1>7. Holds'
    BY <1>0, <1>1, <1>5, <1>6 DEF Holds, Absent, Finished, Buildable, Building, Scanning,
       Counting, Looking
  <1>8. RunOnce'
    BY <1>0, <1>5 DEF RunOnce
  <1>9. GoalsCounted'
    BY <1>0, <1>5 DEF GoalsCounted
  <1> QED BY <1>0, <1>3, <1>7, <1>8, <1>9, SameGraph, SameQueue, SameCover

LEMMA OneFail == ASSUME Typed, Updates, Orderly, FailDependent(1) PROVE Orderly'
  <1> USE DEF Orderly
  <1>0. pc[1] = "fail" /\ UNCHANGED <<deps, runs, q, goal, numgoalfin, numgoals, main, aborted,
                                      vertex, next, todo, verdict, idx>>
    BY DEF FailDependent, At
  <1>1. /\ next[1] \in Rules /\ state[next[1]] = 1 /\ next[1] \notin todo[1] /\ Absent(next[1])
        /\ \A d \in deps[next[1]] : Finished(d)
        /\ \E d \in deps[next[1]] : state[d] = 2
    BY <1>0 DEF Holds, Looking, Typed
  <1>2. pc'[1] = "push" /\ state' = [state EXCEPT ![next[1]] = 2]
    BY DEF FailDependent, Goto, Updates
  <1>3. GraphSound' /\ QueueOnce' /\ GoalsCover'
    <2>1. ASSUME NEW m \in {2, 4}, m = 2 PROVE GraphSound' /\ QueueOnce' /\ GoalsCover'
      <3>1. state' = [state EXCEPT ![next[1]] = m]
        BY <1>2, <2>1
      <3>2. /\ m = 4 => \A d \in deps[next[1]] : state[d] = 4
            /\ m = 2 => /\ \A d \in deps[next[1]] : Finished(d)
                        /\ runs[next[1]] = 1 \/ \E d \in deps[next[1]] : state[d] = 2
        BY <1>1, <2>1
      <3>3. /\ next[1] \in Rules /\ state[next[1]] = 1 /\ Absent(next[1])
            /\ UNCHANGED <<deps, runs, q, goal>>
        BY <1>0, <1>1
      <3> QED BY <3>1, <3>2, <3>3, Marked
    <2> QED BY <2>1
  <1>4. state'[next[1]] = 2 /\ \A r \in Rules : r # next[1] => state'[r] = state[r]
    BY <1>1, <1>2 DEF Typed
  <1>5. /\ Finished(vertex[1]) /\ vertex[1] \in Rules
        /\ \A k \in todo[1] : /\ k \in Rules /\ k # next[1] /\ state[k] # 4
                             /\ state[k] = 1 => Absent(k)
    BY <1>0, <1>1 DEF Holds, Scanning, Typed, HasRule
  <1>6. Holds'
    BY <1>0, <1>1, <1>2, <1>4, <1>5 DEF Holds, Absent, Finished, Buildable, Building, Scanning,
       Counting, Looking
  <1>7. RunOnce'
    BY <1>0, <1>2, <1>4 DEF RunOnce
  <1>8. GoalsCounted'
    BY <1>0, <1>2 DEF GoalsCounted
  <1> QED BY <1>0, <1>3, <1>6, <1>7, <1>8

LEMMA OnePush == ASSUME Typed, Updates, Orderly, PushDependent(1) PROVE Orderly'
  <1> USE DEF Orderly
  <1>0. pc[1] = "push" /\ UNCHANGED <<deps, state, runs, goal, numgoalfin, numgoals, main,
                                      aborted, vertex, next, todo, verdict, idx>>
    BY DEF PushDependent, At
  <1>1. next[1] \in Rules /\ next[1] \notin todo[1] /\ Absent(next[1]) /\ Buildable(next[1])
    BY <1>0 DEF Holds, Looking, Typed
  <1>2. pc'[1] = "scan"
    BY DEF PushDependent, Goto, Updates
  <1>3. Len(q') = Len(q) + 1 /\ q'[Len(q) + 1] = next[1] /\ \A i \in 1 .. Len(q) : q'[i] = q[i]
    BY <1>1 DEF PushDependent, Typed
  <1>4. Len(q) \in Nat /\ \A i \in 1 .. Len(q') : i \in 1 .. Len(q) \/ i = Len(q) + 1
    BY <1>3 DEF Typed
  <1>5. QueueOnce'
    <2>1. (\A i \in 1 .. Len(q) : q[i] # EOF => Buildable(q[i]))'
      BY <1>0, <1>1, <1>3, <1>4 DEF QueueOnce, Buildable
    <2>2. (\A i, j \in 1 .. Len(q) : q[i] = q[j] /\ q[i] # EOF => i = j)'
      BY <1>1, <1>3, <1>4 DEF QueueOnce, Absent
    <2> QED BY <2>1, <2>2 DEF QueueOnce
  <1>6. /\ Finished(vertex[1])
        /\ \A k \in todo[1] : state[k] # 4 /\ (state[k] = 1 => Absent(k))
    BY <1>0 DEF Holds, Scanning
  <1>7. \A k \in todo[1] : Absent(k) => Absent(k)'
    BY <1>1, <1>3, <1>4 DEF Absent
  <1>8. Holds'
    BY <1>0, <1>2, <1>6, <1>7 DEF Holds, Finished, Building, Scanning, Counting, Looking
  <1>9. RunOnce'
    BY <1>0, <1>2 DEF RunOnce
  <1>10. GoalsCounted'
    BY <1>0, <1>2 DEF GoalsCounted
  <1> QED BY <1>0, <1>5, <1>8, <1>9, <1>10, SameGraph, SameCover

LEMMA OneFindGoal == ASSUME Typed, Updates, goal \in Seq(Rules), idx[1] \in Nat, Orderly,
                            FindGoal(1)
                     PROVE  Orderly'
  <1> USE DEF Orderly
  <1>0. pc[1] = "goal" /\ UNCHANGED <<deps, state, runs, q, goal, numgoalfin, numgoals, main,
                                      aborted, vertex, next, todo, verdict>>
    BY DEF FindGoal, At, shared
  <1>1. \/ pc'[1] = "pull"
        \/ pc'[1] = "erase" /\ idx' = idx /\ idx[1] \in 1 .. Len(goal) /\ goal[idx[1]] = vertex[1]
        \/ pc'[1] = "goal" /\ idx'[1] = idx[1] + 1
    <2>1. idx[1] >= 1 /\ Len(goal) \in Nat
      BY <1>0 DEF GoalsCounted
    <2>2. CASE idx[1] > Len(goal)
      BY <2>2 DEF FindGoal, Goto, Updates
    <2>3. CASE ~(idx[1] > Len(goal)) /\ goal[idx[1]] = vertex[1]
      <3>1. pc' = [pc EXCEPT ![1] = "erase"] /\ idx' = idx
        BY <2>3 DEF FindGoal, Goto
      <3>2. pc'[1] = "erase"
        BY <3>1 DEF Updates
      <3>3. idx[1] \in 1 .. Len(goal)
        BY <2>1, <2>3
      <3> QED BY <2>3, <3>1, <3>2, <3>3
    <2>4. CASE ~(idx[1] > Len(goal)) /\ goal[idx[1]] # vertex[1]
      <3>1. idx' = [idx EXCEPT ![1] = idx[1] + 1] /\ pc' = pc
        BY <2>4 DEF FindGoal
      <3>2. idx'[1] = idx[1] + 1
        BY <3>1 DEF Updates
      <3> QED BY <1>0, <3>1, <3>2
    <2> QED BY <2>2, <2>3, <2>4
  <1>2. RunOnce'
    BY <1>0, <1>1 DEF RunOnce
  <1>3. Holds'
    BY <1>0, <1>1 DEF Holds, Finished, Building, Scanning, Counting, Looking
  <1>4. GoalsCounted'
    BY <1>0, <1>1 DEF GoalsCounted
  <1> QED BY <1>0, <1>2, <1>3, <1>4, SameGraph, SameQueue, SameCover

LEMMA OneEraseGoal == ASSUME Typed, Updates, goal \in Seq(Rules), idx[1] \in Nat,
                             numgoalfin \in Nat, numgoals \in Nat, Orderly, EraseGoal(1)
                      PROVE  Orderly'
  <1> USE DEF Orderly
  <1>0. pc[1] = "erase" /\ UNCHANGED <<deps, state, runs, q, numgoals, main, aborted, vertex,
                                       next, todo, verdict, idx>>
    BY DEF EraseGoal, At
  <1>1. pc'[1] = "pull" /\ numgoalfin' = numgoalfin + 1 /\ goal' = EraseAt(goal, idx[1])
    BY DEF EraseGoal, Goto, Updates
  <1>2. RunOnce'
    BY <1>0, <1>1 DEF RunOnce
  <1>3. Holds'
    BY <1>0, <1>1 DEF Holds, Building, Scanning, Counting, Looking
  <1>4. idx[1] \in 1 .. Len(goal) /\ goal[idx[1]] = vertex[1] /\ Finished(vertex[1])
        /\ vertex[1] \in Rules
    BY <1>0 DEF GoalsCounted, Holds, Counting, Typed, HasRule
  <1>5. /\ Len(goal') = Len(goal) - 1 /\ Len(goal) \in Nat
        /\ \A j \in 1 .. Len(goal) : j # idx[1] => \E k \in 1 .. Len(goal') : goal'[k] = goal[j]
    BY <1>1, <1>4, Erased
  <1>6. GoalsCounted'
    BY <1>0, <1>1, <1>5 DEF GoalsCounted
  <1>7. GoalsCover'
    <2>1. ASSUME NEW S \in SUBSET Rules, Covers(S)' PROVE Covers(S)
      <3>1. \A r \in Rules : Finished(r) => r \in S
        BY <1>0, <2>1 DEF Covers, Finished
      <3>2. \A r \in S : deps[r] \subseteq S
        BY <1>0, <2>1 DEF Covers
      <3>3. ASSUME NEW j \in 1 .. Len(goal) PROVE goal[j] \in S
        <4>1. CASE j = idx[1]
          BY <1>4, <3>1, <4>1
        <4>2. CASE j # idx[1]
          <5>1. PICK k \in 1 .. Len(goal') : goal'[k] = goal[j]
            BY <1>5, <4>2
          <5> QED BY <2>1, <5>1 DEF Covers
        <4> QED BY <4>1, <4>2
      <3> QED BY <3>1, <3>2, <3>3 DEF Covers
    <2> QED BY <1>0, <2>1 DEF GoalsCover
  <1> QED BY <1>0, <1>2, <1>3, <1>6, <1>7, SameGraph, SameQueue

LEMMA OneMain == ASSUME Typed, Orderly, numgoalfin \in Nat, numgoals \in Nat,
                        MainQueuesEOF \/ MainReturns
                 PROVE  Orderly'
  <1> USE DEF Orderly
  <1>0. UNCHANGED <<deps, state, runs, goal, numgoalfin, numgoals, aborted, pc, vertex, next,
                    todo, verdict, idx>>
    BY DEF MainQueuesEOF, MainReturns, worker, shared
  <1>1. q' = q \/ q' = Append(q, EOF)
    BY DEF MainQueuesEOF, MainReturns, shared
  <1>2. /\ Len(q') \in Nat
        /\ \A i \in 1 .. Len(q') : q'[i] # EOF => (i \in 1 .. Len(q) /\ q'[i] = q[i])
    BY <1>1 DEF Typed
  <1>3. QueueOnce'
    BY <1>0, <1>2 DEF QueueOnce, Buildable
  <1>4. \A r \in Rules : Absent(r) => Absent(r)'
    BY <1>2 DEF Absent
  <1>5. Holds'
    <2>1. \A r : Buildable(r) => Buildable(r)'
      BY <1>0 DEF Buildable
    <2>2. \A r : Finished(r) <=> Finished(r)'
      BY <1>0 DEF Finished
    <2>3. /\ pc[1] = "check" => Buildable(vertex[1]) /\ Absent(vertex[1])'
          /\ pc[1] \in Building => /\ state[vertex[1]] = 1 /\ Buildable(vertex[1])
                                   /\ Absent(vertex[1])'
          /\ pc[1] \in Scanning =>
               \A n \in todo[1] : state[n] # 4 /\ (state[n] = 1 => Absent(n)')
          /\ pc[1] \in Looking => next[1] \notin todo[1] /\ Absent(next[1])'
      BY <1>0, <1>4 DEF Holds, Typed, HasRule, Building, Scanning, Looking
    <2> QED BY <1>0, <2>1, <2>2, <2>3 DEF Holds
  <1>6. RunOnce'
    BY <1>0 DEF RunOnce
  <1>7. GoalsCounted'
    BY <1>0 DEF GoalsCounted, MainQueuesEOF, MainReturns
  <1> QED BY <1>0, <1>3, <1>5, <1>6, <1>7, SameGraph, SameCover

LEMMA InitOne == Init => OneInv
  <1> SUFFICES ASSUME Init, num_threads = 1 PROVE Orderly
    BY DEF OneInv
  <1> USE DEF Orderly
  <1>1. PICK kept \in Seq(Rules) :
                /\ goal = kept /\ numgoals = Len(kept) /\ numgoalfin = 0
                /\ state = [r \in Rules |-> IF r \in Wanted(deps, kept) THEN 1 ELSE 0]
                /\ q \in SetToSeqs({r \in Wanted(deps, kept) : deps[r] = {}})
    BY InitFacts
  <1> DEFINE leaves == {r \in Wanted(deps, kept) : deps[r] = {}}
  <1>2. leaves \in SUBSET Rules /\ Wanted(deps, kept) \in SUBSET Rules
    BY DEF Wanted
  <1>3. q \in Seq(leaves) /\ \A i, j \in 1 .. Len(q) : q[i] = q[j] => i = j
    BY <1>1, <1>2, LeavesQueued
  <1>4. \A i \in 1 .. Len(q) : q[i] \in Wanted(deps, kept) /\ deps[q[i]] = {}
    BY <1>3
  <1>5. pc[1] = "pull" /\ main = "wait" /\ ~aborted /\ runs = [r \in Rules |-> 0]
    BY DEF Init, Threads
  <1>6. deps \in [Rules -> SUBSET Rules]
    BY InitFacts DEF TypeInv
  <1>7. \A r \in Wanted(deps, kept) : deps[r] \subseteq Wanted(deps, kept)
    BY <1>6 DEF Wanted
  <1>8. \A r \in Rules : state[r] \in {0, 1} /\ (state[r] # 0 <=> r \in Wanted(deps, kept))
    BY <1>1
  <1> HIDE DEF leaves
  <1>9. GraphSound
    BY <1>2, <1>7, <1>8 DEF GraphSound
  <1>10. QueueOnce
    BY <1>2, <1>3, <1>4, <1>8 DEF QueueOnce, Buildable
  <1>11. Holds
    BY <1>5 DEF Holds, Building, Scanning, Counting, Looking
  <1>12. RunOnce
    BY <1>5 DEF RunOnce
  <1>13. GoalsCounted
    BY <1>1, <1>5 DEF GoalsCounted
  <1>14. GoalsCover
    <2>1. ASSUME NEW S \in SUBSET Rules, Covers(S), NEW r \in Wanted(deps, kept) PROVE r \in S
      <3>1. Range(kept) \subseteq S
        BY <1>1, <2>1 DEF Covers, Range
      <3> QED BY <2>1, <3>1 DEF Covers, Wanted
    <2> QED BY <1>8, <2>1 DEF GoalsCover
  <1> QED BY <1>5, <1>9, <1>10, <1>11, <1>12, <1>13, <1>14

LEMMA NextOne == ASSUME TypeInv, OneInv, [Next]_vars PROVE OneInv'
  <1>1. CASE UNCHANGED vars
    BY <1>1 DEF OneInv, Orderly, GraphSound, QueueOnce, Holds, RunOnce, GoalsCounted, GoalsCover,
                Covers, Buildable, Finished, Absent, vars, shared, worker
  <1>2. CASE Next
    <2> SUFFICES ASSUME num_threads' = 1 PROVE Orderly'
      BY DEF OneInv
    <2>1. num_threads = 1
      BY <1>2 DEF Next, MainQueuesEOF, MainReturns, Step, Pull, Check, Stat, Run, SetState, Scan,
                  ScanDone, LookAtDeps, FailDependent, PushDependent, FindGoal, EraseGoal
    <2>2. Orderly /\ Typed /\ Updates
      BY <2>1, OneTyped DEF OneInv
    <2>3. goal \in Seq(Rules) /\ idx[1] \in Nat /\ numgoalfin \in Nat /\ numgoals \in Nat
      BY <2>1 DEF TypeInv, Threads
    <2>4. CASE MainQueuesEOF \/ MainReturns
      BY <2>2, <2>3, <2>4, OneMain
    <2>5. CASE Step(1)
      BY <2>2, <2>3, <2>5, OnePull, OneCheck, OneStat, OneRun, OneSetState, OneScan, OneScanDone,
         OneLookAtDeps, OneFail, OnePush, OneFindGoal, OneEraseGoal DEF Step
    <2>6. \A t \in Threads : t = 1
      BY <2>1 DEF Threads
    <2> QED BY <1>2, <2>4, <2>5, <2>6 DEF Next
  <1> QED BY <1>1, <1>2

\* When main has been woken every goal has been counted, and so everything that
\* was wanted is finished.
LEMMA AllFinished == ASSUME TypeInv, OneInv, num_threads = 1, main # "wait"
                     PROVE  \A r \in Rules : state[r] # 1
  <1>1. Orderly /\ Typed
    BY OneTyped DEF OneInv
  <1>2. Len(goal) = 0
    BY <1>1 DEF Orderly, GoalsCounted, TypeInv
  <1> DEFINE S == {r \in Rules : Finished(r)}
  <1>3. \A r \in S : deps[r] \subseteq S
    BY <1>1 DEF Orderly, GraphSound, Finished, Typed
  <1>4. Covers(S)
    BY <1>2, <1>3 DEF Covers
  <1>5. \A r \in Rules : state[r] # 0 => Finished(r)
    BY <1>1, <1>4 DEF Orderly, GoalsCover
  <1> QED BY <1>5 DEF Finished

\* With one worker thread, and whatever makefile was parsed, no assertion of
\* parmake.c fails, no rule's commands are started twice, and when parmake
\* returns every wanted rule was built or has failed, the failures being those
\* of commands and those of dependents of a failure.
THEOREM OneWorkerBuilds == Spec => []OneThreadBuilds
  <1>1. Init => TypeInv /\ OneInv
    BY InitFacts, InitOne
  <1>2. TypeInv /\ OneInv /\ [Next]_vars => (TypeInv /\ OneInv)'
    BY NextType, NextOne
  <1>3. TypeInv /\ OneInv => OneThreadBuilds
    BY AllFinished DEF OneInv, Orderly, GraphSound, RunOnce, OneThreadBuilds
  <1> QED BY <1>1, <1>2, <1>3, PTL DEF Spec
=============================================================================
