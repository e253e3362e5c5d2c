----------------------------- MODULE MCCritical ------------------------------
(***************************************************************************)
(* critical_concurrency for TLC: either the queue is used, created with    *)
(* each of the sizes -1, 1 and 2, or the barrier.  The two share nothing;  *)
(* the part that is not used stays as it was created.                      *)
(***************************************************************************)
EXTENDS Queue

CONSTANT MaxRounds

VARIABLES part, count, times_used, at, asleep, entered, passed, overrun

B == INSTANCE Barrier
barrierVars == <<count, times_used, at, asleep, entered, passed, overrun>>
all == <<part, vars, barrierVars>>

MCMaxSizes == {-1, 1, 2}

SuiteInit == /\ Init /\ B!Init
             /\ part \in {"queue", "barrier"}
             /\ part = "barrier" => max_size = 1 /\ head = NULL /\ tail = NULL

QueueNext == part = "queue" /\ Next /\ UNCHANGED <<part, barrierVars>>
BarrierNext == part = "barrier" /\ B!Next /\ UNCHANGED <<part, vars>>

SuiteNext == QueueNext \/ BarrierNext

\* A runnable thread is eventually scheduled and gets the mutex; nothing is
\* assumed of callers, of destroy or of spurious wakeups.
SuiteSpec == /\ SuiteInit /\ [][SuiteNext]_all
             /\ \A t \in Threads : /\ WF_all(part = "queue" /\ Step(t) /\ UNCHANGED <<part, barrierVars>>)
                                   /\ WF_all(part = "barrier" /\ B!Step(t) /\ UNCHANGED <<part, vars>>)

-----------------------------------------------------------------------------
\* barrier.c: nobody leaves the barrier before everybody has reached it, unless
\* a spurious wakeup lets a thread out of line 34 before count is reset.
BarrierHolds == B!BarrierHolds

\* barrier.c: once everybody has reached it, everybody leaves.
BarrierOpens == B!Opens
=============================================================================
