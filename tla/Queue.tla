-------------------------------- MODULE Queue --------------------------------
(***************************************************************************)
(* critical_concurrency/queue.c: a linked list of queue_nodes guarded by   *)
(* one mutex and one condition variable, shared by any number of threads.  *)
(*                                                                         *)
(* A critical section (from pthread_mutex_lock, or the return of           *)
(* pthread_cond_wait, to the unlock or to the next pthread_cond_wait) is   *)
(* one action: the mutex hides everything in between.  A thread that is in *)
(* an operation and not in `waiting' is contending for the mutex.          *)
(***************************************************************************)
EXTENDS Integers, Sequences

CONSTANTS Threads,     \* the calling threads
          Data,        \* the void* values pushed
          Node,        \* the addresses malloc can return for a queue_node
          NULL,
          MaxSizes     \* the arguments queue_create is called with

ASSUME NullAssumption == NULL \notin Node /\ NULL \notin Data
ASSUME MaxSizesAssumption == MaxSizes \subseteq Int

VARIABLES head, tail, size, max_size,  \* the fields of struct queue
          mem,       \* the live queue_nodes: address |-> [data, next]
          alive,     \* FALSE once queue_destroy has run
          op,        \* the operation each thread is in, or "none"
          val,       \* its argument while it pushes, its result after a pull
          waiting,   \* the threads blocked in pthread_cond_wait(&cv, &m)
          list,      \* history: the nodes linked in, oldest first
          ends       \* history: head and tail are "unset" until the first
                     \* push, then "set"; "corrupt" once one was followed
                     \* to memory that is no node

vars == <<head, tail, size, max_size, mem, alive, op, val, waiting, list, ends>>

Pointer == Node \cup {NULL}

-----------------------------------------------------------------------------
(* queue_create sets max_size and size and leaves head and tail as malloc  *)
(* left them: NULL or anything else.                                       *)
Create == /\ size = 0
          /\ max_size \in MaxSizes
          /\ head \in Pointer /\ tail \in Pointer
          /\ ends = "unset"

Init == /\ Create
        /\ mem = << >>
        /\ alive = TRUE
        /\ op = [t \in Threads |-> "none"]
        /\ val = [t \in Threads |-> NULL]
        /\ waiting = {}
        /\ list = << >>

\* A client starts an operation.
CallPush(t, d) == /\ alive /\ op[t] = "none"
                  /\ op' = [op EXCEPT ![t] = "push"]
                  /\ val' = [val EXCEPT ![t] = d]
                  /\ UNCHANGED <<head, tail, size, max_size, mem, alive, waiting, list, ends>>

CallPull(t) == /\ alive /\ op[t] = "none"
               /\ op' = [op EXCEPT ![t] = "pull"]
               /\ val' = [val EXCEPT ![t] = NULL]
               /\ UNCHANGED <<head, tail, size, max_size, mem, alive, waiting, list, ends>>

\* The loop conditions of queue_push and queue_pull.
Full == max_size > 0 /\ size = max_size
Empty == size = 0

Block(t) == /\ waiting' = waiting \cup {t}
            /\ UNCHANGED <<head, tail, size, max_size, mem, alive, op, val, list, ends>>

\* MUTANT: pthread_cond_signal in place of the broadcast.
SignalOne == IF waiting = {} THEN waiting' = {}
                             ELSE \E w \in waiting : waiting' = waiting \ {w}

\* pthread_cond_broadcast: every waiter contends for the mutex again.
Broadcast == waiting' = {}

Return(t, v) == /\ op' = [op EXCEPT ![t] = "none"]
                /\ val' = [val EXCEPT ![t] = v]

\* MUTANT: the new node is linked in at the front.
LinkInFront(node, d) ==
    /\ mem' = [n \in DOMAIN mem \cup {node} |->
                 IF n = node THEN [data |-> d, next |-> head] ELSE mem[n]]
    /\ tail' = IF tail = NULL THEN node ELSE tail
    /\ head' = node
    /\ list' = <<node>> \o list

\* The linking part of queue_push, for the node malloc returned.
Link(node, d) ==
    /\ mem' = [n \in DOMAIN mem \cup {node} |->
                 IF n = node THEN [data |-> d, next |-> NULL]
                 ELSE IF n = tail THEN [mem[n] EXCEPT !.next = node]
                 ELSE mem[n]]
    /\ tail' = node
    /\ head' = IF tail = NULL THEN node ELSE head
    /\ list' = Append(list, node)

PushBlocks(t) == op[t] = "push" /\ t \notin waiting /\ Full /\ Block(t)

\* Where `tail->next = node' is defined: tail is NULL or a live node.
TailSound == tail \in DOMAIN mem \cup {NULL}

PushDone(t) == /\ op[t] = "push" /\ t \notin waiting /\ ~Full
               /\ TailSound
               /\ size' = size + 1
               /\ \E node \in Node \ DOMAIN mem : Link(node, val[t])
               /\ Broadcast
               /\ Return(t, NULL)
               /\ ends' = "set"
               /\ UNCHANGED <<max_size, alive>>

\* tail is not NULL and no node either: the write through it is undefined
\* behaviour, which the model does not follow.
Corrupts == /\ ends' = "corrupt"
            /\ UNCHANGED <<head, tail, size, max_size, mem, alive, op, val,
                           waiting, list>>

PushCorrupts(t) == /\ op[t] = "push" /\ t \notin waiting /\ ~Full
                   /\ ~TailSound
                   /\ Corrupts

\* MUTANT: emptying the list does not reset tail.
UnlinkKeepsTail ==
    /\ head' = mem[head].next
    /\ tail' = tail
    /\ mem' = [n \in DOMAIN mem \ {head} |-> mem[n]]
    /\ list' = Tail(list)

\* The unlinking part of queue_pull: the head node is freed.
Unlink ==
    /\ IF head = tail THEN head' = NULL /\ tail' = NULL
                      ELSE head' = mem[head].next /\ tail' = tail
    /\ mem' = [n \in DOMAIN mem \ {head} |-> mem[n]]
    /\ list' = Tail(list)

PullBlocks(t) == op[t] = "pull" /\ t \notin waiting /\ Empty /\ Block(t)

\* ptr->data is defined where head is a live node.  ListIntact says it is.
PullDone(t) == /\ op[t] = "pull" /\ t \notin waiting /\ ~Empty
               /\ head \in DOMAIN mem
               /\ size' = size - 1
               /\ Unlink
               /\ Broadcast
               /\ Return(t, mem[head].data)
               /\ UNCHANGED <<max_size, alive, ends>>

\* pthread_cond_wait may return without a signal.
SpuriousWakeup(t) ==
    /\ t \in waiting
    /\ waiting' = waiting \ {t}
    /\ UNCHANGED <<head, tail, size, max_size, mem, alive, op, val, list, ends>>

\* The nodes queue_destroy's loop visits: those next links lead to from head.
Reachable == {n \in DOMAIN mem :
                \A S \in SUBSET DOMAIN mem :
                   /\ head \in S
                   /\ \A m \in S : mem[m].next \in DOMAIN mem => mem[m].next \in S
                   => n \in S}

\* queue_destroy, called when no thread uses the queue any more.
Destroy == /\ alive
           /\ op = [t \in Threads |-> "none"]
           /\ head \in DOMAIN mem \cup {NULL}
           /\ alive' = FALSE
           /\ mem' = [n \in DOMAIN mem \ Reachable |-> mem[n]]
           /\ list' = << >>
           /\ head' = NULL /\ tail' = NULL /\ size' = 0
           /\ UNCHANGED <<max_size, op, val, waiting, ends>>

\* It frees what head points at, a node or not.
DestroyCorrupts == /\ alive
                   /\ op = [t \in Threads |-> "none"]
                   /\ head \notin DOMAIN mem \cup {NULL}
                   /\ Corrupts

-----------------------------------------------------------------------------
Step(t) == /\ ends # "corrupt"
           /\ PushBlocks(t) \/ PushDone(t) \/ PushCorrupts(t)
                \/ PullBlocks(t) \/ PullDone(t)

Next == /\ ends # "corrupt"
        /\ \/ Destroy \/ DestroyCorrupts
           \/ \E t \in Threads : \/ \E d \in Data : CallPush(t, d)
                                 \/ CallPull(t)
                                 \/ Step(t)
                                 \/ SpuriousWakeup(t)

Spec == Init /\ [][Next]_vars

\* A runnable thread is eventually scheduled and gets the mutex; nothing is
\* assumed of callers, of destroy or of spurious wakeups.
FairSpec == Spec /\ \A t \in Threads : WF_vars(Step(t))

-----------------------------------------------------------------------------
\* The fields of the queue and the state of its callers have their types, and
\* only a thread inside an operation can be blocked on the condition variable.
TypeOK == /\ head \in Pointer /\ tail \in Pointer
          /\ size \in Nat /\ max_size \in Int
          /\ alive \in BOOLEAN
          /\ DOMAIN mem \subseteq Node
          /\ mem \in [DOMAIN mem -> [data : Data, next : Pointer]]
          /\ op \in [Threads -> {"none", "push", "pull"}]
          /\ val \in [Threads -> Data \cup {NULL}]
          /\ \A t \in Threads : op[t] = "push" => val[t] \in Data
          /\ waiting \in SUBSET {t \in Threads : op[t] # "none"}
          /\ list \in Seq(Node)
          /\ ends \in {"unset", "set", "corrupt"}

\* From the first push on, head, tail and the next links of the live nodes are
\* one list: it has size nodes, no node twice, no dangling pointer, and no live
\* node outside it.  Every push and every pull relinks it, at the ends and at
\* size 0 and 1.  (A first push through an unset tail ends the model, with the
\* list empty as it was.)
ListIntact ==
    alive =>
      /\ size = Len(list)
      /\ max_size > 0 => size <= max_size
      /\ IF ends = "set" /\ list # << >>
           THEN head = list[1] /\ tail = list[Len(list)]
           ELSE list = << >> /\ (ends = "set" => head = NULL /\ tail = NULL)
      /\ DOMAIN mem = {list[i] : i \in 1 .. Len(list)}
      /\ \A i \in 1 .. Len(list) :
           mem[list[i]].next = IF i = Len(list) THEN NULL ELSE list[i + 1]
      /\ \A i, j \in 1 .. Len(list) : list[i] = list[j] => i = j

\* No wakeup is lost although pushers and pullers wait on one condition
\* variable: whoever is blocked in pthread_cond_wait is right to be.
NoLostWakeup == \A t \in waiting : \/ op[t] = "push" /\ Full
                                   \/ op[t] = "pull" /\ Empty

\* An operation that can complete does, or another thread's makes it
\* impossible again, or a push corrupts memory.  (A push also needs an address
\* from malloc.)
Progress ==
    \A t \in Threads :
       /\ (op[t] = "pull" /\ ~Empty) ~> (op[t] # "pull" \/ Empty)
       /\ (op[t] = "push" /\ ~Full /\ DOMAIN mem # Node)
              ~> (\/ op[t] # "push" \/ Full \/ DOMAIN mem = Node
                  \/ ends = "corrupt")

\* Only the very first push, or the destruction of a queue nothing was ever
\* pushed into, can go astray: the pointers every later operation follows lead
\* to nodes.
OnlyUnsetCorrupts == [][ends' = "corrupt" => ends = "unset"]_vars

\* The linked list implements the bounded FIFO: the queued values are the data
\* fields along the list, and every step of the code is one of the buffer's.
Items == [i \in 1 .. Len(list) |-> mem[list[i]].data]
FIFO == INSTANCE BoundedFIFO WITH items <- Items, NoData <- NULL
ImplementsFIFO == FIFO!Spec
=============================================================================
