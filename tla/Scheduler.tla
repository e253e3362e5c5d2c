------------------------------ MODULE Scheduler ------------------------------
(***************************************************************************)
(* savvy_scheduler/libscheduler.c: the six schemes, called by a thread     *)
(* library that reports arrivals, expired quanta and finished jobs.  Times *)
(* are counted in ticks, "unit" of them to a second: with one, every call  *)
(* comes at a whole second, as in scheduler_test.c; with more, calls fall  *)
(* between seconds, where the int currenttime cannot follow.               *)
(***************************************************************************)
EXTENDS Integers, FiniteSets

CONSTANTS Jobs, NONE, FREED,
          Units,                  \* ticks per second, one value per behaviour
          Kinds,                  \* what a job may ask for: running time and priority
          MaxTime, MaxSeq,        \* bounds: the clock, calls that number a job,
          MaxCalls                \* expired quanta at one moment

\* A job's job_info, and what a job may ask for: it runs for some time.
JobInfo == [runningtime : Nat \ {0}, priority : Int, arrivetime : Nat,
            timeremaining : Int, starttime : Nat, sequence : Nat]
JobsOK == /\ Units \subseteq Nat \ {0}
          /\ Kinds \subseteq [runningtime : Nat \ {0}, priority : Int]
          /\ NONE \notin Jobs /\ NONE \notin Int
          /\ NONE \notin JobInfo /\ FREED \notin JobInfo

Schemes == {"FCFS", "SJF", "PRI", "PPRI", "PSRTF", "RR"}

VARIABLES
  scheme, prempt, currenttime, seq, numfin,
  totalturnaround, totalwait, totalresponse,
  pqueue,          \* the jobs in the priority queue
  info,            \* job -> its job_info, NONE before and FREED after
  unit, now,       \* the caller's clock
  calls,           \* quanta that expired at this moment
  running,         \* the job the caller runs, or NONE
  ran,             \* for how long each job has run
  waited,          \* for how long it has been in the queue
  first            \* when it first ran, or NONE

vars == <<scheme, prempt, currenttime, seq, numfin, totalturnaround, totalwait, totalresponse,
          pqueue, info, unit, now, calls, running, ran, waited, first>>
totals == <<numfin, totalturnaround, totalwait, totalresponse>>
clock == <<unit, now, ran, waited, first>>   \* all but the calls

\* scheduler_start_up()
Init == /\ scheme \in Schemes
        /\ prempt = (scheme \in {"PPRI", "PSRTF", "RR"})
        /\ currenttime = NONE /\ seq = 0 /\ numfin = 0
        /\ totalturnaround = 0 /\ totalwait = 0 /\ totalresponse = 0
        /\ pqueue = {} /\ info = [j \in Jobs |-> NONE]
        /\ unit \in Units /\ now = 0 /\ calls = 0 /\ running = NONE
        /\ ran = [j \in Jobs |-> 0] /\ waited = [j \in Jobs |-> 0]
        /\ first = [j \in Jobs |-> NONE]

-----------------------------------------------------------------------------
(* The comparers: a key per scheme, the time of arrival to break ties.     *)

Key(i) == CASE scheme = "FCFS" -> 0
            [] scheme = "SJF" -> i.runningtime
            [] scheme \in {"PRI", "PPRI"} -> i.priority
            [] scheme = "PSRTF" -> i.timeremaining
            [] scheme = "RR" -> i.sequence

Before(a, b) == \/ Key(a) < Key(b)
                \/ Key(a) = Key(b) /\ a.arrivetime < b.arrivetime

\* priqueue_poll(): a job that none comes before.
Polled(queue, infos) == {j \in queue : \A k \in queue : ~Before(infos[k], infos[j])}

\* A double assigned to an int.
Truncated(t) == (t \div unit) * unit

-----------------------------------------------------------------------------
scheduler_new_job(j) ==
  /\ info[j] = NONE /\ seq < MaxSeq
  /\ \E k \in Kinds :
       info' = [info EXCEPT ![j] = [runningtime |-> k.runningtime, priority |-> k.priority,
                                    arrivetime |-> now, timeremaining |-> k.runningtime,
                                    starttime |-> 0, sequence |-> seq]]
  /\ seq' = seq + 1
  /\ pqueue' = pqueue \cup {j}
  /\ UNCHANGED <<scheme, prempt, currenttime, calls, running>> /\ UNCHANGED totals /\ UNCHANGED clock

\* Lines 160-162: what the evicted job still has to run.
\* MUTANT: the time since the last call is not subtracted.
NotCharged(i) == i
Charged(i) == IF currenttime = NONE THEN i
              ELSE [i EXCEPT !.timeremaining = @ - (now - currenttime)]

\* Lines 173-175: a job that has not run starts now.
\* MUTANT: any job does.
StartedAgain(i) == [i EXCEPT !.starttime = now]
Started(i) == IF i.timeremaining = i.runningtime THEN [i EXCEPT !.starttime = now] ELSE i

\* Lines 164-166, without preemption.
KeepRunning ==
  /\ running # NONE /\ ~prempt
  /\ info' = [info EXCEPT ![running] = Charged(@)]
  /\ currenttime' = Truncated(now)
  /\ UNCHANGED <<scheme, prempt, seq, pqueue, running>> /\ UNCHANGED totals /\ UNCHANGED clock

\* Lines 167-176.
Switch ==
  /\ running = NONE => pqueue # {}
  /\ running # NONE => prempt /\ seq < MaxSeq
  /\ LET queue == IF running = NONE THEN pqueue ELSE pqueue \cup {running}
         infos == IF running = NONE THEN info
                  ELSE [info EXCEPT ![running] = [Charged(@) EXCEPT !.sequence = seq]]
     IN  \E j \in Polled(queue, infos) :
           /\ info' = [infos EXCEPT ![j] = Started(@)]
           /\ pqueue' = queue \ {j}
           /\ running' = j
  /\ seq' = IF running = NONE THEN seq ELSE seq + 1
  /\ currenttime' = Truncated(now)
  /\ UNCHANGED <<scheme, prempt>> /\ UNCHANGED totals /\ UNCHANGED clock

scheduler_quantum_expired == /\ calls < MaxCalls /\ calls' = calls + 1
                             /\ KeepRunning \/ Switch

\* The caller reports the end of the running job.
scheduler_job_finished ==
  /\ running # NONE /\ ran[running] = info[running].runningtime
  /\ numfin' = numfin + 1
  /\ totalturnaround' = totalturnaround + now - info[running].arrivetime
  /\ totalwait' = totalwait + now - info[running].arrivetime - info[running].runningtime
  /\ totalresponse' = totalresponse + info[running].starttime - info[running].arrivetime
  /\ info' = [info EXCEPT ![running] = FREED]
  /\ running' = NONE
  /\ ran' = [ran EXCEPT ![running] = 0] /\ waited' = [waited EXCEPT ![running] = 0]
  /\ first' = [first EXCEPT ![running] = NONE]
  /\ UNCHANGED <<scheme, prempt, currenttime, seq, pqueue, unit, now, calls>>

\* The caller's clock.
Tick == /\ now < MaxTime /\ now' = now + 1 /\ calls' = 0
        /\ running # NONE => ran[running] < info[running].runningtime
        /\ ran' = [j \in Jobs |-> IF j = running THEN ran[j] + 1 ELSE ran[j]]
        /\ waited' = [j \in Jobs |-> IF j \in pqueue THEN waited[j] + 1 ELSE waited[j]]
        /\ first' = [j \in Jobs |-> IF j = running /\ first[j] = NONE THEN now ELSE first[j]]
        /\ UNCHANGED <<scheme, prempt, currenttime, seq, pqueue, info, unit, running>>
        /\ UNCHANGED totals

Next == \/ \E j \in Jobs : scheduler_new_job(j)
        \/ scheduler_quantum_expired \/ scheduler_job_finished \/ Tick

Spec == Init /\ [][Next]_vars

-----------------------------------------------------------------------------
WholeSeconds == unit = 1

\* When every call comes at a whole second, the time a job in the queue has
\* left is its running time less the time it has run, over any number of
\* evictions; calls between seconds only ever charge it too much, which
\* line 163 makes possible by storing a double in an int.
RemainingExact ==
  \A j \in pqueue :
    LET left == info[j].runningtime - ran[j]
    IN  /\ info[j].timeremaining <= left
        /\ WholeSeconds => info[j].timeremaining = left

\* What a job adds to the totals when it finishes is what the caller measured:
\* the time it was in the queue, and (calls at whole seconds) the time from its
\* arrival to its first run, however often it was evicted in between.
FinishMeasured ==
  scheduler_job_finished =>
    /\ totalwait' - totalwait = waited[running]
    /\ WholeSeconds => totalresponse' - totalresponse = first[running] - info[running].arrivetime
TotalsMeasured == [][FinishMeasured]_vars

\* Right after a preemptive scheme has chosen, no waiting job should have been
\* chosen instead, going by the time jobs have really run and not by the
\* scheduler's books.
TrueInfo(j) == [info[j] EXCEPT !.timeremaining = info[j].runningtime - ran[j]]
SwitchRight == Switch /\ prempt /\ WholeSeconds =>
                 \A j \in pqueue' : ~Before(TrueInfo(j)', TrueInfo(running)')
ChoiceRight == [][SwitchRight]_vars
=============================================================================
