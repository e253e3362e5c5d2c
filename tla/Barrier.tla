------------------------------- MODULE Barrier --------------------------------
(***************************************************************************)
(* critical_concurrency/barrier.c: a reusable barrier of two counters and  *)
(* one condition variable.  count is the number of arrivals of the current *)
(* round, times_used the number of threads that have left the last one.  A *)
(* thread waits either for the last round to drain (line 34) or for its    *)
(* own to be complete (line 43).                                           *)
(*                                                                         *)
(* A critical section, from the lock or the return of pthread_cond_wait to *)
(* the unlock or the next pthread_cond_wait, is one action.                *)
(***************************************************************************)
EXTENDS Naturals, FiniteSets

CONSTANTS Threads,    \* the threads that meet at the barrier
          MaxRounds   \* bound: how often a thread calls barrier_wait

VARIABLES count, times_used,  \* the fields of barrier_t
          at,        \* where a thread is: "out", "drain" (34), "gather" (43)
          asleep,    \* the threads blocked in pthread_cond_wait
          entered,   \* history: each thread's calls of barrier_wait
          passed,    \* history: each thread's returns from barrier_wait
          overrun    \* history: a thread left line 34 before count was reset

vars == <<count, times_used, at, asleep, entered, passed, overrun>>

n_threads == Cardinality(Threads)

\* barrier_init, before any thread calls barrier_wait.
Init == /\ count = 0 /\ times_used = 0
        /\ at = [t \in Threads |-> "out"]
        /\ asleep = {}
        /\ entered = [t \in Threads |-> 0]
        /\ passed = [t \in Threads |-> 0]
        /\ overrun = FALSE

\* Lines 46-48.
Leave(t, used) == /\ times_used' = used + 1
                  /\ at' = [at EXCEPT ![t] = "out"]
                  /\ passed' = [passed EXCEPT ![t] = @ + 1]

\* Line 41.
UsedAtStart == 0

\* Lines 38-48, with c arrivals before this one and the threads in sleepers
\* asleep.  The last to arrive wakes the others and goes on.
Gather(t, c, sleepers) ==
    /\ count' = c + 1
    /\ \/ /\ c + 1 = n_threads
          /\ asleep' = {}
          /\ Leave(t, UsedAtStart)
       \/ /\ c + 1 < n_threads
          /\ asleep' = sleepers \cup {t}
          /\ at' = [at EXCEPT ![t] = "gather"]
          /\ UNCHANGED <<times_used, passed>>
       \/ /\ c + 1 > n_threads
          /\ asleep' = sleepers
          /\ Leave(t, times_used)

\* MUTANT: who comes back early does not wait for the last round to drain.
DrainingNever == FALSE

\* Line 29 with line 34: the last round is complete but not everyone has left.
Draining == count = n_threads /\ times_used < n_threads

\* MUTANT: the thread that resets count wakes nobody.
WakeSleepersNot == asleep

\* Line 32.
WakeSleepers == {}

\* barrier_wait is called: the first of a new round resets count, line 31.
Arrive(t) ==
    /\ at[t] = "out" /\ entered[t] < MaxRounds
    /\ entered' = [entered EXCEPT ![t] = @ + 1]
    /\ \/ /\ Draining
          /\ at' = [at EXCEPT ![t] = "drain"]
          /\ asleep' = asleep \cup {t}
          /\ UNCHANGED <<count, times_used, passed>>
       \/ /\ ~Draining /\ count = n_threads /\ times_used = n_threads
          /\ Gather(t, 0, WakeSleepers)
       \/ /\ ~Draining /\ ~(count = n_threads /\ times_used = n_threads)
          /\ Gather(t, count, asleep)
    /\ UNCHANGED overrun

SleepAgain(t) == /\ asleep' = asleep \cup {t}
                 /\ UNCHANGED <<count, times_used, at, entered, passed, overrun>>

\* Awake at line 34.
Drained(t) == /\ at[t] = "drain" /\ t \notin asleep
              /\ \/ times_used < n_threads /\ SleepAgain(t)
                 \/ /\ times_used >= n_threads
                    /\ overrun' = (overrun \/ count = n_threads)
                    /\ Gather(t, count, asleep)
                    /\ UNCHANGED entered

\* Awake at line 43.
Gathered(t) == /\ at[t] = "gather" /\ t \notin asleep
               /\ \/ count < n_threads /\ SleepAgain(t)
                  \/ /\ count >= n_threads
                     /\ Leave(t, times_used)
                     /\ UNCHANGED <<count, asleep, entered, overrun>>

\* pthread_cond_wait may return without a signal.
SpuriousWakeup(t) == /\ t \in asleep
                     /\ asleep' = asleep \ {t}
                     /\ UNCHANGED <<count, times_used, at, entered, passed, overrun>>

Step(t) == Drained(t) \/ Gathered(t)

Next == \E t \in Threads : Arrive(t) \/ Step(t) \/ SpuriousWakeup(t)

Spec == Init /\ [][Next]_vars

-----------------------------------------------------------------------------
\* Nobody leaves the barrier before everybody has reached it, round after
\* round, although fast threads are back before slow ones have left: unless a
\* spurious wakeup hits a thread at line 34 in the moment when the last round
\* has drained and nobody has reset count yet.  That thread walks through.
BarrierHolds ==
    ~overrun => /\ \A t, u \in Threads : passed[t] <= entered[u]
                /\ count <= n_threads /\ times_used <= n_threads

\* Once everybody has reached the barrier for the r-th time everybody leaves
\* it: no thread sleeps through the opening, at line 34 or at line 43.
Opens == \A r \in 1 .. MaxRounds :
           (\A t \in Threads : entered[t] >= r)
             ~> (overrun \/ \A t \in Threads : passed[t] >= r)
=============================================================================
