------------------------------ MODULE Semamore -------------------------------
(***************************************************************************)
(* critical_concurrency/semamore.c: a semaphore with a maximum, whose wait *)
(* blocks at 0 and whose post blocks at max_val.  Both use one condition   *)
(* variable, and wake ONE waiter with pthread_cond_signal.  A critical     *)
(* section is one action, as in module Queue.  The file is committed with  *)
(* the markers of a merge conflict; this is the side of HEAD.              *)
(***************************************************************************)
EXTENDS Integers

CONSTANTS Threads,
          InitialValue, MaxVal   \* naturals, InitialValue <= MaxVal

VARIABLES value, max_val,  \* the fields of the Semamore
          op,              \* the call each thread is in, or "none"
          waiting          \* the threads blocked in pthread_cond_wait

vars == <<value, max_val, op, waiting>>

\* semm_init(s, InitialValue, MaxVal)
Init == /\ value = InitialValue /\ max_val = MaxVal
        /\ op = [t \in Threads |-> "none"]
        /\ waiting = {}

Call(t) == /\ op[t] = "none"
           /\ \E f \in {"semm_wait", "semm_post"} : op' = [op EXCEPT ![t] = f]
           /\ UNCHANGED <<value, max_val, waiting>>

\* The loop conditions of semm_wait and semm_post.
MustBlock(t) == \/ op[t] = "semm_wait" /\ value = 0
                \/ op[t] = "semm_post" /\ value = max_val

Block(t) == /\ op[t] # "none" /\ t \notin waiting
            /\ MustBlock(t)
            /\ waiting' = waiting \cup {t}
            /\ UNCHANGED <<value, max_val, op>>

\* pthread_cond_signal: one waiter, whichever, contends for the mutex again.
Signal == IF waiting = {} THEN UNCHANGED waiting
                          ELSE \E w \in waiting : waiting' = waiting \ {w}

Complete(t) == /\ op[t] # "none" /\ t \notin waiting
               /\ ~MustBlock(t)
               /\ value' = IF op[t] = "semm_wait" THEN value - 1 ELSE value + 1
               /\ op' = [op EXCEPT ![t] = "none"]
               /\ Signal
               /\ UNCHANGED max_val

Next == \E t \in Threads : Call(t) \/ Block(t) \/ Complete(t)

\* A runnable thread runs; nothing is assumed of callers, and no spurious
\* wakeup, which POSIX allows and never promises, comes to the rescue.
FairSpec == /\ Init /\ [][Next]_vars
            /\ \A t \in Threads : WF_vars(Block(t) \/ Complete(t))

-----------------------------------------------------------------------------
\* "Should block when the value in the Semamore struct is at 0.  Otherwise,
\* should decrement the value" and "at max_value.  Otherwise, should increment"
\* (semamore.c:27-29, 45-48): a call does not stay blocked while the value
\* permits it.
OtherwiseCompletes ==
    \A t \in Threads : (op[t] # "none" /\ ~MustBlock(t)) ~> (op[t] = "none" \/ MustBlock(t))
=============================================================================
