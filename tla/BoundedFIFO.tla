----------------------------- MODULE BoundedFIFO -----------------------------
(***************************************************************************)
(* What queue.c promises its callers: a first-in first-out buffer of at    *)
(* most max_size elements (any number when max_size is not positive), each *)
(* operation of which takes effect at one instant between its call and     *)
(* its return.  No nodes, no mutex, no condition variable.                 *)
(***************************************************************************)
EXTENDS Integers, Sequences

CONSTANTS Threads,   \* the calling threads
          Data,      \* the values queued
          NoData     \* what a thread holds when it neither pushes nor has pulled

VARIABLES items,     \* the queued values, oldest first
          max_size,  \* the capacity queue_create was given
          op,        \* the operation each thread is in, or "none"
          val        \* its argument while it pushes, its result after a pull

vars == <<items, max_size, op, val>>

Room == max_size > 0 => Len(items) < max_size

Init == /\ items = <<>>
        /\ max_size \in Int
        /\ op = [t \in Threads |-> "none"]
        /\ val = [t \in Threads |-> NoData]

Call(t) == /\ op[t] = "none"
           /\ \/ \E d \in Data : /\ op' = [op EXCEPT ![t] = "push"]
                                 /\ val' = [val EXCEPT ![t] = d]
              \/ /\ op' = [op EXCEPT ![t] = "pull"]
                 /\ val' = [val EXCEPT ![t] = NoData]
           /\ UNCHANGED <<items, max_size>>

Enqueue(t) == /\ op[t] = "push"
              /\ Room
              /\ items' = Append(items, val[t])
              /\ op' = [op EXCEPT ![t] = "none"]
              /\ val' = [val EXCEPT ![t] = NoData]
              /\ UNCHANGED max_size

Dequeue(t) == /\ op[t] = "pull"
              /\ items # <<>>
              /\ items' = Tail(items)
              /\ op' = [op EXCEPT ![t] = "none"]
              /\ val' = [val EXCEPT ![t] = Head(items)]
              /\ UNCHANGED max_size

\* queue_destroy drops whatever is left, once no operation is in progress.
Discard == /\ op = [t \in Threads |-> "none"]
           /\ items' = <<>>
           /\ UNCHANGED <<max_size, op, val>>

Next == Discard \/ \E t \in Threads : Call(t) \/ Enqueue(t) \/ Dequeue(t)

Spec == Init /\ [][Next]_vars
=============================================================================
