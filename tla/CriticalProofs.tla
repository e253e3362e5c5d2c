---------------------------- MODULE CriticalProofs ----------------------------
(***************************************************************************)
(* Proofs about critical_concurrency: queue.c, for every set of threads,   *)
(* values and node addresses, every max_size and whatever malloc leaves in *)
(* head and tail; and barrier.c, for every finite set of threads and every *)
(* number of rounds, with spurious wakeups, where B is the barrier as      *)
(* MCCritical has it.                                                      *)
(***************************************************************************)
EXTENDS MCCritical, SequenceTheorems, FiniteSetTheorems, TLAPS

-----------------------------------------------------------------------------
(* The queue.                                                              *)

\* Once queue_destroy has run no thread is in an operation.
Quiescent == ~alive => \A t \in Threads : op[t] = "none"

\* The inductive invariant.
QueueInv == TypeOK /\ ListIntact /\ NoLostWakeup /\ Quiescent

LEMMA QueueInit == Init => QueueInv
  <1> SUFFICES ASSUME Init PROVE QueueInv
    OBVIOUS
  <1> USE NullAssumption, MaxSizesAssumption
  <1>1. TypeOK
    BY DEF Init, Create, TypeOK, Pointer
  <1>2. ListIntact
    BY DEF Init, Create, ListIntact
  <1>3. NoLostWakeup /\ Quiescent
    BY DEF Init, NoLostWakeup, Quiescent
  <1> QED BY <1>1, <1>2, <1>3 DEF QueueInv

\* What leaves the fields and the nodes alone leaves the list intact.
LEMMA ListFrame ==
    ASSUME ListIntact, UNCHANGED <<head, tail, size, max_size, mem, alive, list, ends>>
    PROVE  ListIntact'
  <1>1. /\ head' = head /\ tail' = tail /\ size' = size /\ max_size' = max_size
        /\ mem' = mem /\ alive' = alive /\ list' = list /\ ends' = ends
    OBVIOUS
  <1>2. SUFFICES ASSUME alive' PROVE ListIntact!2'
    BY DEF ListIntact
  <1>3. alive
    BY <1>1, <1>2
  <1>4. (size = Len(list) /\ (max_size > 0 => size <= max_size))'
    BY <1>1, <1>3 DEF ListIntact
  <1>5. (IF ends = "set" /\ list # << >>
           THEN head = list[1] /\ tail = list[Len(list)]
           ELSE list = << >> /\ (ends = "set" => head = NULL /\ tail = NULL))'
    BY <1>1, <1>3 DEF ListIntact
  <1>6. (DOMAIN mem = {list[i] : i \in 1 .. Len(list)})'
    BY <1>1, <1>3 DEF ListIntact
  <1>7. (\A i \in 1 .. Len(list) :
           mem[list[i]].next = IF i = Len(list) THEN NULL ELSE list[i + 1])'
    BY <1>1, <1>3 DEF ListIntact
  <1>8. (\A i, j \in 1 .. Len(list) : list[i] = list[j] => i = j)'
    BY <1>1, <1>3 DEF ListIntact
  <1> QED BY <1>4, <1>5, <1>6, <1>7, <1>8

LEMMA CallInv ==
    ASSUME QueueInv, NEW t \in Threads,
           (\E d \in Data : CallPush(t, d)) \/ CallPull(t)
    PROVE  QueueInv'
  <1> USE NullAssumption
  <1>1. TypeOK'
    BY DEF QueueInv, TypeOK, CallPush, CallPull, Pointer
  <1>2. ListIntact'
    BY ListFrame DEF QueueInv, CallPush, CallPull
  <1>3. NoLostWakeup'
    BY DEF QueueInv, TypeOK, NoLostWakeup, CallPush, CallPull, Full, Empty
  <1>4. Quiescent'
    BY DEF QueueInv, Quiescent, CallPush, CallPull
  <1> QED BY <1>1, <1>2, <1>3, <1>4 DEF QueueInv

\* Blocking and waking leave the list alone.
LEMMA BlockInv ==
    ASSUME QueueInv, NEW t \in Threads,
           PushBlocks(t) \/ PullBlocks(t) \/ SpuriousWakeup(t)
    PROVE  QueueInv'
  <1>1. TypeOK'
    BY DEF QueueInv, TypeOK, PushBlocks, PullBlocks, SpuriousWakeup, Block, Pointer
  <1>2. ListIntact'
    BY ListFrame DEF QueueInv, PushBlocks, PullBlocks, SpuriousWakeup, Block
  <1>3. NoLostWakeup'
    BY DEF QueueInv, TypeOK, NoLostWakeup, PushBlocks, PullBlocks, SpuriousWakeup,
           Block, Full, Empty
  <1>4. Quiescent'
    BY DEF QueueInv, Quiescent, PushBlocks, PullBlocks, SpuriousWakeup, Block
  <1> QED BY <1>1, <1>2, <1>3, <1>4 DEF QueueInv

LEMMA PushDoneInv ==
    ASSUME QueueInv, NEW t \in Threads, PushDone(t)
    PROVE  QueueInv'
  <1> USE NullAssumption
  <1>a. alive /\ op[t] = "push" /\ val[t] \in Data /\ ~Full
    BY DEF QueueInv, TypeOK, Quiescent, PushDone
  <1> PICK node \in Node \ DOMAIN mem : Link(node, val[t])
    BY DEF PushDone
  <1>1. TypeOK'
    <2>1. DOMAIN mem' \subseteq Node /\ mem' \in [DOMAIN mem' -> [data : Data, next : Pointer]]
      BY <1>a DEF QueueInv, TypeOK, Link, Pointer
    <2>2. list' \in Seq(Node) /\ head' \in Pointer /\ tail' \in Pointer
      BY DEF QueueInv, TypeOK, Link, Pointer
    <2>3. op' \in [Threads -> {"none", "push", "pull"}] /\ val' \in [Threads -> Data \cup {NULL}]
          /\ \A u \in Threads : op'[u] = "push" => val'[u] \in Data
      BY DEF QueueInv, TypeOK, PushDone, Return
    <2>4. waiting' = {} /\ size' \in Nat /\ max_size' \in Int /\ alive' \in BOOLEAN
          /\ ends' = "set"
      BY DEF QueueInv, TypeOK, PushDone, Broadcast
    <2> QED BY <2>1, <2>2, <2>3, <2>4 DEF TypeOK
  <1>2. ListIntact'
    <2>0. ListIntact /\ list \in Seq(Node) /\ alive /\ alive'
      BY <1>a DEF QueueInv, TypeOK, PushDone
    <2>1. /\ list' \in Seq(Node) /\ Len(list) \in Nat /\ Len(list') = Len(list) + 1
          /\ \A i \in 1 .. Len(list) : list'[i] = list[i]
          /\ list'[Len(list) + 1] = node
      BY <2>0 DEF Link
    <2>2. size' = Len(list') /\ (max_size' > 0 => size' <= max_size')
      BY <1>a, <2>0, <2>1 DEF QueueInv, TypeOK, ListIntact, PushDone, Full
    <2>3. ends' = "set" /\ list' # << >> /\ head' = list'[1] /\ tail' = list'[Len(list')]
      <3>1. ends' = "set" /\ list' # << >> /\ tail' = list'[Len(list')]
        BY <2>0, <2>1 DEF PushDone, Link
      <3>2. CASE list = << >>
        <4>1. DOMAIN mem = {} /\ tail = NULL
          BY <2>0, <3>2 DEF ListIntact, PushDone, TailSound
        <4> QED BY <3>1, <3>2, <4>1, <2>1 DEF Link
      <3>3. CASE list # << >>
        <4>1. head = list[1] /\ tail = list[Len(list)] /\ 1 \in 1 .. Len(list)
              /\ Len(list) \in 1 .. Len(list)
          BY <2>0, <3>3 DEF ListIntact
        <4>2. tail # NULL
          BY <4>1, <2>0 DEF ListIntact, QueueInv, TypeOK
        <4> QED BY <3>1, <4>1, <4>2, <2>1 DEF Link
      <3> QED BY <3>1, <3>2, <3>3
    <2>4. DOMAIN mem' = {list'[i] : i \in 1 .. Len(list')}
      BY <2>0, <2>1 DEF ListIntact, Link
    <2>5. ASSUME NEW i \in 1 .. Len(list'), NEW j \in 1 .. Len(list'), list'[i] = list'[j]
          PROVE  i = j
      <3>1. \A k \in 1 .. Len(list) : list[k] # node
        BY <2>0 DEF ListIntact
      <3>2. \A k, l \in 1 .. Len(list) : list[k] = list[l] => k = l
        BY <2>0 DEF ListIntact
      <3>3. CASE i = Len(list) + 1 \/ j = Len(list) + 1
        BY <2>1, <2>5, <3>1, <3>3
      <3>4. CASE i \in 1 .. Len(list) /\ j \in 1 .. Len(list)
        BY <2>1, <2>5, <3>2, <3>4
      <3> QED BY <2>1, <3>3, <3>4
    <2>6. ASSUME NEW i \in 1 .. Len(list')
          PROVE  mem'[list'[i]].next = IF i = Len(list') THEN NULL ELSE list'[i + 1]
      <3>1. CASE i = Len(list')
        BY <3>1, <2>1, <2>0 DEF Link
      <3>2. CASE i = Len(list)
        <4>1. list'[i] = tail /\ tail \in DOMAIN mem /\ tail # node
          BY <3>2, <2>0, <2>1 DEF ListIntact
        <4>2. mem'[tail].next = node
          BY <4>1, <2>0 DEF Link, QueueInv, TypeOK
        <4> QED BY <4>1, <4>2, <3>2, <2>1
      <3>3. CASE i \in 1 .. Len(list) /\ i # Len(list)
        <4>1. list'[i] = list[i] /\ list[i] \in DOMAIN mem /\ list[i] # node /\ list[i] # tail
          BY <3>3, <2>0, <2>1 DEF ListIntact
        <4>2. mem'[list[i]] = mem[list[i]]
          BY <4>1 DEF Link
        <4> QED BY <4>1, <4>2, <3>3, <2>0, <2>1 DEF ListIntact
      <3> QED BY <3>1, <3>2, <3>3, <2>1
    <2> QED BY <2>2, <2>3, <2>4, <2>5, <2>6 DEF ListIntact
  <1>3. NoLostWakeup' /\ Quiescent'
    BY <1>a DEF NoLostWakeup, Quiescent, PushDone, Broadcast
  <1> QED BY <1>1, <1>2, <1>3 DEF QueueInv

LEMMA PullDoneInv ==
    ASSUME QueueInv, NEW t \in Threads, PullDone(t)
    PROVE  QueueInv'
  <1> USE NullAssumption
  <1>a. alive /\ ListIntact /\ TypeOK /\ size > 0 /\ Len(list) > 0 /\ Len(list) \in Nat
    BY DEF QueueInv, TypeOK, ListIntact, Quiescent, PullDone, Empty
  <1>b. /\ list' = Tail(list) /\ Len(list') = Len(list) - 1 /\ Len(list') \in Nat
        /\ \A i \in 1 .. Len(list') : list'[i] = list[i + 1]
        /\ list' \in Seq(Node)
    BY <1>a DEF TypeOK, PullDone, Unlink
  <1>c. /\ head = list[1] /\ tail = list[Len(list)] /\ head \in DOMAIN mem
        /\ ends = "set" /\ ends' = "set"
    BY <1>a DEF ListIntact, PullDone
  <1>d. head = tail <=> Len(list) = 1
    BY <1>a, <1>c DEF ListIntact
  <1>1. TypeOK'
    <2>1. DOMAIN mem' \subseteq Node /\ mem' \in [DOMAIN mem' -> [data : Data, next : Pointer]]
      BY <1>a DEF TypeOK, PullDone, Unlink
    <2>2. head' \in Pointer /\ tail' \in Pointer
      BY <1>a, <1>c DEF TypeOK, PullDone, Unlink, Pointer
    <2>3. op' \in [Threads -> {"none", "push", "pull"}] /\ val' \in [Threads -> Data \cup {NULL}]
          /\ \A u \in Threads : op'[u] = "push" => val'[u] \in Data
      BY <1>a, <1>c DEF TypeOK, PullDone, Return
    <2>4. waiting' = {} /\ size' \in Nat /\ max_size' \in Int /\ alive' \in BOOLEAN
          /\ ends' = "set"
      BY <1>a, <1>c DEF TypeOK, PullDone, Broadcast
    <2> QED BY <1>b, <2>1, <2>2, <2>3, <2>4 DEF TypeOK
  <1>2. ListIntact'
    <2>1. size' = Len(list') /\ (max_size' > 0 => size' <= max_size')
      BY <1>a, <1>b DEF TypeOK, ListIntact, PullDone
    <2>2. IF ends' = "set" /\ list' # << >>
            THEN head' = list'[1] /\ tail' = list'[Len(list')]
            ELSE list' = << >> /\ (ends' = "set" => head' = NULL /\ tail' = NULL)
      <3>1. CASE Len(list) = 1
        BY <3>1, <1>b, <1>c, <1>d DEF PullDone, Unlink
      <3>2. CASE Len(list) > 1
        <4>1. mem[list[1]].next = list[2]
          BY <3>2, <1>a DEF ListIntact
        <4>2. head' = list[2] /\ tail' = list[Len(list)]
          BY <4>1, <3>2, <1>a, <1>c, <1>d DEF PullDone, Unlink
        <4>3. list'[1] = list[2] /\ list'[Len(list')] = list[Len(list)] /\ Len(list') > 0
          BY <3>2, <1>a, <1>b
        <4>4. list' # << >>
          BY <4>3
        <4> QED BY <4>2, <4>3, <4>4, <1>c
      <3>3. Len(list) = 1 \/ Len(list) > 1
        <4>1. Len(list) \in Nat /\ Len(list) > 0
          BY <1>a
        <4>2. ASSUME NEW n \in Nat, n > 0 PROVE n = 1 \/ n > 1
          BY ONLY n \in Nat, n > 0
        <4> QED BY ONLY <4>1, <4>2
      <3> QED BY ONLY <3>1, <3>2, <3>3
    <2>3. DOMAIN mem' = {list'[i] : i \in 1 .. Len(list')}
      <3>1. DOMAIN mem' = {list[i] : i \in 1 .. Len(list)} \ {list[1]}
        BY <1>a, <1>c DEF ListIntact, PullDone, Unlink
      <3>2. {list[i] : i \in 1 .. Len(list)} \ {list[1]} = {list[i] : i \in 2 .. Len(list)}
        BY <1>a DEF ListIntact
      <3>3. {list[i] : i \in 2 .. Len(list)} \subseteq {list'[i] : i \in 1 .. Len(list')}
        <4> SUFFICES ASSUME NEW i \in 2 .. Len(list)
                     PROVE  \E j \in 1 .. Len(list') : list[i] = list'[j]
          OBVIOUS
        <4>1. i - 1 \in 1 .. Len(list') /\ list'[i - 1] = list[(i - 1) + 1]
          BY <1>a, <1>b
        <4> QED BY <4>1, <1>a
      <3>4. {list'[i] : i \in 1 .. Len(list')} \subseteq {list[i] : i \in 2 .. Len(list)}
        BY <1>a, <1>b
      <3> QED BY <3>1, <3>2, <3>3, <3>4
    <2>4. \A i, j \in 1 .. Len(list') : list'[i] = list'[j] => i = j
      BY <1>a, <1>b DEF ListIntact
    <2>5. ASSUME NEW i \in 1 .. Len(list')
          PROVE  mem'[list'[i]].next = IF i = Len(list') THEN NULL ELSE list'[i + 1]
      <3>1. i + 1 \in 1 .. Len(list) /\ list'[i] = list[i + 1] /\ list[i + 1] # list[1]
        BY <1>a, <1>b DEF ListIntact
      <3>2. list[i + 1] \in DOMAIN mem \ {head}
        BY <3>1, <1>a, <1>c DEF ListIntact
      <3>3. mem'[list[i + 1]] = mem[list[i + 1]]
        BY <3>2 DEF PullDone, Unlink
      <3>4. mem[list[i + 1]].next = IF i + 1 = Len(list) THEN NULL ELSE list[(i + 1) + 1]
        BY <3>1, <1>a DEF ListIntact
      <3>5. i = Len(list') <=> i + 1 = Len(list)
        BY <1>a, <1>b
      <3>6. ASSUME i # Len(list') PROVE list'[i + 1] = list[(i + 1) + 1]
        <4>1. Len(list') \in Nat
          BY <1>b
        <4>2. i + 1 \in 1 .. Len(list')
          BY <3>6, <4>1
        <4> QED BY <4>2, <1>b
      <3> QED BY <3>1, <3>3, <3>4, <3>5, <3>6
    <2> QED BY <2>1, <2>2, <2>3, <2>4, <2>5 DEF ListIntact
  <1>3. NoLostWakeup' /\ Quiescent'
    BY <1>a DEF NoLostWakeup, Quiescent, PullDone, Broadcast
  <1> QED BY <1>1, <1>2, <1>3 DEF QueueInv

LEMMA DestroyInv ==
    ASSUME QueueInv, Destroy
    PROVE  QueueInv'
  <1> USE NullAssumption
  <1>1. TypeOK'
    <2>1. DOMAIN mem' \subseteq Node /\ mem' \in [DOMAIN mem' -> [data : Data, next : Pointer]]
      BY DEF QueueInv, TypeOK, Destroy
    <2>2. /\ head' \in Pointer /\ tail' \in Pointer /\ size' \in Nat
          /\ alive' \in BOOLEAN
      BY DEF Destroy, Pointer
    <2>3. list' \in Seq(Node)
      BY DEF Destroy
    <2> QED BY <2>1, <2>2, <2>3 DEF QueueInv, TypeOK, Destroy
  <1>2. ListIntact' /\ Quiescent'
    BY DEF ListIntact, Quiescent, Destroy
  <1>3. NoLostWakeup'
    BY DEF QueueInv, TypeOK, NoLostWakeup, Destroy
  <1> QED BY <1>1, <1>2, <1>3 DEF QueueInv

LEMMA CorruptsInv ==
    ASSUME QueueInv, ends # "corrupt",
           DestroyCorrupts \/ \E t \in Threads : PushCorrupts(t)
    PROVE  QueueInv' /\ ends = "unset"
  <1>1. Corrupts /\ alive
    BY DEF QueueInv, Quiescent, PushCorrupts, DestroyCorrupts
  <1>2. head \notin DOMAIN mem \cup {NULL} \/ tail \notin DOMAIN mem \cup {NULL}
    BY DEF PushCorrupts, DestroyCorrupts, TailSound
  <1>3. ends = "unset"
    <2>1. SUFFICES ASSUME ends = "set" PROVE FALSE
      BY DEF QueueInv, TypeOK
    <2>2. list # << >>
      BY <1>1, <1>2, <2>1 DEF QueueInv, ListIntact
    <2>3. /\ head = list[1] /\ tail = list[Len(list)]
          /\ 1 \in 1 .. Len(list) /\ Len(list) \in 1 .. Len(list)
      BY <1>1, <2>1, <2>2 DEF QueueInv, TypeOK, ListIntact
    <2> QED BY <1>1, <1>2, <2>3 DEF QueueInv, ListIntact
  <1>4. list = << >> /\ list' = << >>
    BY <1>1, <1>3 DEF QueueInv, ListIntact, Corrupts
  <1>5. TypeOK' /\ NoLostWakeup' /\ Quiescent'
    BY <1>1 DEF QueueInv, TypeOK, NoLostWakeup, Quiescent, Full, Empty, Corrupts, Pointer
  <1>6. ListIntact'
    BY <1>1, <1>4 DEF QueueInv, ListIntact, Corrupts
  <1> QED BY <1>3, <1>5, <1>6 DEF QueueInv

LEMMA QueueStep == QueueInv /\ [Next]_vars => QueueInv'
  <1> SUFFICES ASSUME QueueInv, [Next]_vars PROVE QueueInv'
    OBVIOUS
  <1>1. CASE Destroy
    BY <1>1, DestroyInv
  <1>2. CASE \E t \in Threads : \/ \E d \in Data : CallPush(t, d)
                                \/ CallPull(t)
                                \/ Step(t)
                                \/ SpuriousWakeup(t)
    BY <1>2, CallInv, BlockInv, PushDoneInv, PullDoneInv, CorruptsInv DEF Step
  <1>3. CASE UNCHANGED vars
    <2>1. TypeOK'
      BY <1>3 DEF QueueInv, TypeOK, vars, Pointer
    <2>2. ListIntact'
      BY <1>3, ListFrame DEF QueueInv, vars
    <2>3. NoLostWakeup' /\ Quiescent'
      BY <1>3 DEF QueueInv, TypeOK, NoLostWakeup, Quiescent, Full, Empty, vars
    <2> QED BY <2>1, <2>2, <2>3 DEF QueueInv
  <1>4. CASE ends # "corrupt" /\ DestroyCorrupts
    BY <1>4, CorruptsInv
  <1> QED BY <1>1, <1>2, <1>3, <1>4 DEF Next

\* The list is intact at every moment, and every thread blocked on the one
\* condition variable is blocked for a reason that still holds.
THEOREM QueueSafe == Spec => [](TypeOK /\ ListIntact /\ NoLostWakeup)
  <1>1. Init => QueueInv
    BY QueueInit
  <1>2. QueueInv => TypeOK /\ ListIntact /\ NoLostWakeup
    BY DEF QueueInv
  <1> QED BY <1>1, <1>2, QueueStep, PTL DEF Spec

\* Pushers and pullers share one condition variable, and still none of them sleeps
\* through the signal that was meant for it.
COROLLARY QueueWakesWhoCanGo == Spec => []NoLostWakeup
  BY QueueSafe, PTL

\* Only the first push through the tail that queue_create did not set, or a
\* destruction before any push, follows a pointer to memory that is no node.
THEOREM QueueGoesAstrayAtFirst == Spec => OnlyUnsetCorrupts
  <1>1. Init => QueueInv
    BY QueueInit
  <1>2. QueueInv /\ [Next]_vars => [ends' = "corrupt" => ends = "unset"]_vars
    <2> SUFFICES ASSUME QueueInv, Next, ends' = "corrupt" PROVE ends = "unset"
      OBVIOUS
    <2>1. ends # "corrupt"
      BY DEF Next
    <2>2. CASE DestroyCorrupts \/ \E t \in Threads : PushCorrupts(t)
      BY <2>1, <2>2, CorruptsInv
    <2>3. CASE Destroy \/ \E t \in Threads : \/ \E d \in Data : CallPush(t, d)
                                           \/ CallPull(t) \/ PushBlocks(t)
                                           \/ PullBlocks(t) \/ PullDone(t)
                                           \/ SpuriousWakeup(t)
      BY <2>1, <2>3 DEF Destroy, CallPush, CallPull, PushBlocks, PullBlocks, PullDone,
                        SpuriousWakeup, Block
    <2>4. CASE \E t \in Threads : PushDone(t)
      BY <2>4 DEF PushDone
    <2> QED BY <2>2, <2>3, <2>4 DEF Next, Step
  <1> QED BY <1>1, <1>2, QueueStep, PTL DEF Spec, OnlyUnsetCorrupts

-----------------------------------------------------------------------------
\* What a completed push and a completed pull do to the queued values.
LEMMA PushItems ==
    ASSUME QueueInv, NEW t \in Threads, PushDone(t)
    PROVE  Items' = Append(Items, val[t]) /\ FIFO!Room
  <1> USE NullAssumption
  <1>1. alive /\ ListIntact /\ list \in Seq(Node) /\ Len(list) \in Nat
    BY DEF QueueInv, TypeOK, Quiescent, PushDone
  <1> PICK node \in Node \ DOMAIN mem : Link(node, val[t])
    BY DEF PushDone
  <1>2. /\ Len(list') = Len(list) + 1 /\ list'[Len(list) + 1] = node
        /\ \A i \in 1 .. Len(list) : list'[i] = list[i]
    BY <1>1 DEF Link
  <1>3. mem'[node].data = val[t]
    BY DEF Link
  <1>4. ASSUME NEW i \in 1 .. Len(list)
        PROVE  mem'[list[i]].data = mem[list[i]].data
    <2>1. list[i] \in DOMAIN mem /\ list[i] # node
      BY <1>1 DEF ListIntact
    <2>2. mem[list[i]] \in [data : Data, next : Pointer]
      BY <2>1 DEF QueueInv, TypeOK
    <2> QED BY <2>1, <2>2 DEF Link
  <1>5. Items \in Seq({mem[n].data : n \in DOMAIN mem}) /\ Len(Items) = Len(list)
    BY <1>1 DEF Items, ListIntact
  <1>6. Items' = [i \in 1 .. Len(list) + 1 |-> mem'[list'[i]].data]
    BY <1>2 DEF Items
  <1>7. Append(Items, val[t]) = [i \in 1 .. Len(list) + 1 |->
                                  IF i = Len(list) + 1 THEN val[t] ELSE Items[i]]
    BY <1>1, <1>5
  <1>8. \A i \in 1 .. Len(list) + 1 :
           mem'[list'[i]].data = IF i = Len(list) + 1 THEN val[t] ELSE Items[i]
    BY <1>1, <1>2, <1>3, <1>4 DEF Items
  <1>9. FIFO!Room
    BY <1>1, <1>5 DEF FIFO!Room, PushDone, Full, ListIntact, QueueInv, TypeOK
  <1> QED BY <1>6, <1>7, <1>8, <1>9

LEMMA PullItems ==
    ASSUME QueueInv, NEW t \in Threads, PullDone(t)
    PROVE  Items # << >> /\ Items' = Tail(Items) /\ Head(Items) = mem[head].data
  <1>1. /\ alive /\ ListIntact /\ list \in Seq(Node)
        /\ Len(list) \in Nat /\ Len(list) > 0
    BY DEF QueueInv, TypeOK, ListIntact, Quiescent, PullDone, Empty
  <1>2. /\ Len(list') = Len(list) - 1
        /\ \A i \in 1 .. Len(list') : list'[i] = list[i + 1]
    BY <1>1 DEF PullDone, Unlink
  <1>3. ASSUME NEW i \in 1 .. Len(list')
        PROVE  mem'[list'[i]].data = mem[list[i + 1]].data
    <2>1. i + 1 \in 1 .. Len(list) /\ list'[i] = list[i + 1]
      BY <1>1, <1>2
    <2>2. list[i + 1] \in DOMAIN mem \ {head}
      BY <2>1, <1>1 DEF ListIntact
    <2> QED BY <2>1, <2>2 DEF PullDone, Unlink
  <1>5. Items \in Seq({mem[n].data : n \in DOMAIN mem}) /\ Len(Items) = Len(list)
    BY <1>1 DEF Items, ListIntact
  <1>6. Items' = [i \in 1 .. Len(list) - 1 |-> mem'[list'[i]].data]
    BY <1>2 DEF Items
  <1>7. Tail(Items) = [i \in 1 .. Len(list) - 1 |-> Items[i + 1]]
    <2> DEFINE S == {mem[n].data : n \in DOMAIN mem}
    <2>1. Items # << >>
      BY <1>1, <1>5
    <2>2. /\ Tail(Items) \in Seq(S) /\ Len(Tail(Items)) = Len(list) - 1
          /\ \A i \in 1 .. Len(Tail(Items)) : Tail(Items)[i] = Items[i + 1]
      BY <1>5, <2>1, HeadTailProperties
    <2>3. Tail(Items) \in [1 .. Len(list) - 1 -> S]
      BY <2>2, LenProperties
    <2> QED BY <2>2, <2>3
  <1>8. \A i \in 1 .. Len(list) - 1 : mem'[list'[i]].data = Items[i + 1]
    BY <1>1, <1>2, <1>3 DEF Items
  <1>9. Items # << >> /\ Head(Items) = mem[head].data
    BY <1>1, <1>5 DEF Items, ListIntact
  <1> QED BY <1>6, <1>7, <1>8, <1>9

\* A step that leaves nodes and list alone leaves the values alone.
LEMMA ItemsFrame ==
    ASSUME UNCHANGED <<mem, list>> PROVE Items' = Items
  BY DEF Items

\* Every step of queue.c is a step of the bounded FIFO or invisible to it.
LEMMA StepRefines == QueueInv /\ [Next]_vars => [FIFO!Next]_FIFO!vars
  <1> SUFFICES ASSUME QueueInv, [Next]_vars PROVE [FIFO!Next]_FIFO!vars
    OBVIOUS
  <1>1. CASE Destroy
    <2>1. Items' = << >>
      BY <1>1 DEF Destroy, Items
    <2>2. FIFO!Discard
      BY <1>1, <2>1 DEF Destroy, FIFO!Discard
    <2> QED BY <2>2 DEF FIFO!Next
  <1>2. ASSUME NEW t \in Threads, (\E d \in Data : CallPush(t, d)) \/ CallPull(t)
        PROVE  FIFO!Next
    <2>1. Items' = Items
      BY <1>2, ItemsFrame DEF CallPush, CallPull
    <2>2. FIFO!Call(t)
      BY <1>2, <2>1 DEF CallPush, CallPull, FIFO!Call
    <2> QED BY <2>2 DEF FIFO!Next
  <1>3. ASSUME NEW t \in Threads, PushDone(t)
        PROVE  FIFO!Next
    <2>1. FIFO!Enqueue(t)
      BY <1>3, PushItems DEF PushDone, Return, FIFO!Enqueue
    <2> QED BY <2>1 DEF FIFO!Next
  <1>4. ASSUME NEW t \in Threads, PullDone(t)
        PROVE  FIFO!Next
    <2>1. FIFO!Dequeue(t)
      BY <1>4, PullItems DEF PullDone, Return, FIFO!Dequeue
    <2> QED BY <2>1 DEF FIFO!Next
  <1>5. ASSUME NEW t \in Threads, PushBlocks(t) \/ PullBlocks(t) \/ SpuriousWakeup(t)
        PROVE  UNCHANGED FIFO!vars
    BY <1>5, ItemsFrame DEF PushBlocks, PullBlocks, SpuriousWakeup, Block, FIFO!vars
  <1>7. CASE DestroyCorrupts \/ \E t \in Threads : PushCorrupts(t)
    <2>1. Corrupts
      BY <1>7 DEF DestroyCorrupts, PushCorrupts
    <2> QED BY <2>1, ItemsFrame DEF Corrupts, FIFO!vars
  <1>6. CASE UNCHANGED vars
    BY <1>6, ItemsFrame DEF vars, FIFO!vars
  <1> QED BY <1>1, <1>2, <1>3, <1>4, <1>5, <1>6, <1>7 DEF Next, Step

\* The linked list under the mutex is a bounded FIFO: a push adds its value
\* last, a pull returns the oldest value, none is lost, repeated or reordered.
THEOREM QueueImplementsFIFO == Spec => ImplementsFIFO
  <1>1. Init => QueueInv
    BY QueueInit
  <1>2. Init => FIFO!Init
    BY MaxSizesAssumption DEF Init, Create, Items, FIFO!Init
  <1> QED BY <1>1, <1>2, QueueStep, StepRefines, PTL DEF Spec, ImplementsFIFO, FIFO!Spec
-----------------------------------------------------------------------------
(* The barrier.                                                            *)

BarrierTypes ==
    /\ count \in Nat /\ times_used \in Nat
    /\ at \in [Threads -> {"out", "drain", "gather"}]
    /\ entered \in [Threads -> Nat] /\ passed \in [Threads -> Nat]
    /\ overrun \in BOOLEAN

\* The threads at line 43.
Gathering == {t \in Threads : at[t] = "gather"}

\* r rounds are over and the next one is filling: count tells how many have
\* arrived, and who waits at line 34 is free to go.
Filling(r) ==
    /\ count < B!n_threads /\ count = Cardinality(Gathering)
    /\ times_used = B!n_threads \/ times_used = 0
    /\ \A t \in Threads : /\ passed[t] = r
                          /\ at[t] = "out" => entered[t] = r
                          /\ at[t] # "out" => entered[t] = r + 1

\* Round r + 1 is full and its threads are leaving, or have all left and nobody
\* has come back to reset count: whoever has come back waits at line 34.
Open(r) ==
    /\ count = B!n_threads
    /\ times_used + Cardinality(Gathering) = B!n_threads
    /\ \A t \in Threads :
         /\ at[t] = "gather" => passed[t] = r /\ entered[t] = r + 1
         /\ at[t] = "out" => passed[t] = r + 1 /\ entered[t] = r + 1
         /\ at[t] = "drain" => passed[t] = r + 1 /\ entered[t] = r + 2

BarrierInv == BarrierTypes /\ (~overrun => \E r \in Nat : Filling(r) \/ Open(r))
-----------------------------------------------------------------------------
\* n_threads, with the cardinality of which the library's theorems speak.
LEMMA ThreadsCounted == B!n_threads = Cardinality(Threads)
  <1>1. B!Cardinality(Threads) = Cardinality(Threads)
    BY DEF B!Cardinality, B!IsFiniteSet, Cardinality, IsFiniteSet
  <1> QED BY <1>1 DEF B!n_threads

LEMMA FiniteThreads ==
    ASSUME IsFiniteSet(Threads)
    PROVE  /\ B!n_threads \in Nat
           /\ IsFiniteSet(Gathering) /\ Cardinality(Gathering) \in Nat
           /\ Cardinality(Gathering) <= B!n_threads
           /\ \A t \in Threads : B!n_threads > 0
           /\ Cardinality(Gathering) = 0 => Gathering = {}
  <1>1. Gathering \in SUBSET Threads
    BY DEF Gathering
  <1>2. B!n_threads \in Nat /\ \A t \in Threads : B!n_threads > 0
    BY FS_CardinalityType, FS_EmptySet, ThreadsCounted
  <1>3. IsFiniteSet(Gathering) /\ Cardinality(Gathering) \in Nat
    BY <1>1, FS_Subset, FS_CardinalityType
  <1> QED BY <1>1, <1>2, <1>3, FS_Subset, FS_EmptySet, ThreadsCounted

\* A thread that reaches line 43, and one that leaves it.
LEMMA OneMore ==
    ASSUME BarrierTypes, IsFiniteSet(Threads), NEW t \in Threads, at[t] # "gather",
           at' = [at EXCEPT ![t] = "gather"]
    PROVE  Cardinality(Gathering)' = Cardinality(Gathering) + 1
  <1>1. Gathering' = Gathering \cup {t} /\ t \notin Gathering
    BY DEF BarrierTypes, Gathering
  <1> QED BY <1>1, FiniteThreads, FS_AddElement

LEMMA OneLess ==
    ASSUME BarrierTypes, IsFiniteSet(Threads), NEW t \in Threads, at[t] = "gather",
           at' = [at EXCEPT ![t] = "out"]
    PROVE  Cardinality(Gathering)' = Cardinality(Gathering) - 1
  <1>1. Gathering' = Gathering \ {t} /\ t \in Gathering
    BY DEF BarrierTypes, Gathering
  <1> QED BY <1>1, FiniteThreads, FS_RemoveElement

LEMMA OneAside ==
    ASSUME BarrierTypes, NEW t \in Threads, at[t] # "gather", NEW l, l # "gather",
           at' = [at EXCEPT ![t] = l]
    PROVE  Gathering' = Gathering
  BY DEF BarrierTypes, Gathering

\* An arrival in a round that is filling, from outside or from line 34.
LEMMA GatherInv ==
    ASSUME BarrierTypes, IsFiniteSet(Threads), NEW t \in Threads, NEW c \in Nat, NEW S, NEW r \in Nat,
           at[t] # "gather", B!Gather(t, c, S),
           c < B!n_threads, c = Cardinality(Gathering), 
           times_used = B!n_threads \/ times_used = 0,
           \A u \in Threads : passed[u] = r /\ entered'[u] \in Nat,
           entered' \in [Threads -> Nat], entered'[t] = r + 1,
           \A u \in Threads \ {t} : /\ at[u] = "out" => entered'[u] = r
                                    /\ at[u] # "out" => entered'[u] = r + 1,
           overrun' \in BOOLEAN
    PROVE  BarrierTypes' /\ (Filling(r)' \/ Open(r)')
  <1>1. B!n_threads \in Nat /\ B!n_threads > 0
    BY FiniteThreads
  <1>2. CASE c + 1 = B!n_threads
    <2>1. /\ count' = B!n_threads /\ times_used' = 1
          /\ at' = [at EXCEPT ![t] = "out"] /\ passed' = [passed EXCEPT ![t] = @ + 1]
      BY <1>1, <1>2 DEF B!Gather, B!Leave, B!UsedAtStart
    <2>2. BarrierTypes'
      BY <1>1, <2>1 DEF BarrierTypes
    <2>3. Gathering' = Gathering
      BY <2>1, OneAside
    <2>4. Gathering = Threads \ {t}
      <3>1. IsFiniteSet(Threads \ {t}) /\ Cardinality(Threads \ {t}) = B!n_threads - 1
        BY FS_RemoveElement, ThreadsCounted
      <3>2. Gathering \in SUBSET (Threads \ {t})
        BY DEF Gathering
      <3> QED BY <1>1, <1>2, <3>1, <3>2, FS_Subset
    <2>5. \A u \in Threads \ {t} : at'[u] = "gather" /\ passed'[u] = r /\ entered'[u] = r + 1
      BY <2>1, <2>4 DEF BarrierTypes, Gathering
    <2>6. at'[t] = "out" /\ passed'[t] = r + 1 /\ entered'[t] = r + 1
      BY <2>1 DEF BarrierTypes
    <2>7. Open(r)'
      BY <1>1, <1>2, <2>1, <2>3, <2>5, <2>6 DEF Open, B!n_threads
    <2> QED BY <2>2, <2>7
  <1>3. CASE c + 1 < B!n_threads
    <2>1. /\ count' = c + 1 /\ at' = [at EXCEPT ![t] = "gather"]
          /\ UNCHANGED <<times_used, passed>>
      BY <1>1, <1>3 DEF B!Gather
    <2>2. BarrierTypes'
      BY <2>1 DEF BarrierTypes
    <2>3. Cardinality(Gathering)' = c + 1
      BY <2>1, OneMore
    <2>4. Filling(r)'
      BY <1>3, <2>1, <2>3 DEF Filling, BarrierTypes, B!n_threads
    <2> QED BY <2>2, <2>4
  <1> QED BY <1>1, <1>2, <1>3 DEF B!Gather

LEMMA GatherType ==
    ASSUME BarrierTypes, NEW t \in Threads, NEW c \in Nat, NEW S, B!Gather(t, c, S)
    PROVE  /\ count' \in Nat /\ times_used' \in Nat
           /\ at' \in [Threads -> {"out", "drain", "gather"}] /\ passed' \in [Threads -> Nat]
  BY DEF BarrierTypes, B!Gather, B!Leave, B!UsedAtStart

\* A step that touches none of the counters and moves nobody.
LEMMA SleepInv ==
    ASSUME BarrierInv, UNCHANGED <<count, times_used, at, entered, passed, overrun>>
    PROVE  BarrierInv'
  <1>1. Gathering' = Gathering
    BY DEF Gathering
  <1>2. BarrierTypes'
    BY DEF BarrierInv, BarrierTypes
  <1>3. \A r \in Nat : (Filling(r) => Filling(r)') /\ (Open(r) => Open(r)')
    BY <1>1 DEF Filling, Open, B!n_threads
  <1> QED BY <1>2, <1>3 DEF BarrierInv

LEMMA ArriveInv ==
    ASSUME BarrierInv, IsFiniteSet(Threads), NEW t \in Threads, B!Arrive(t)
    PROVE  BarrierInv'
  <1> USE DEF BarrierInv
  <1>0. B!n_threads \in Nat /\ B!n_threads > 0 /\ Cardinality(Gathering) \in Nat
    BY FiniteThreads
  <1>1. /\ at[t] = "out" /\ entered' = [entered EXCEPT ![t] = @ + 1]
        /\ entered' \in [Threads -> Nat] /\ entered'[t] = entered[t] + 1
        /\ \A u \in Threads \ {t} : entered'[u] = entered[u]
        /\ overrun' = overrun /\ overrun' \in BOOLEAN
    BY DEF BarrierTypes, B!Arrive
  <1>2. CASE /\ B!Draining /\ at' = [at EXCEPT ![t] = "drain"]
             /\ UNCHANGED <<count, times_used, passed>>
    <2>1. BarrierTypes'
      BY <1>1, <1>2 DEF BarrierTypes
    <2>2. Gathering' = Gathering
      BY <1>1, <1>2, OneAside
    <2>3. ASSUME NEW r \in Nat, Open(r) PROVE Open(r)'
      BY <1>1, <1>2, <2>2, <2>3 DEF Open, BarrierTypes, B!n_threads
    <2>4. \A r \in Nat : ~Filling(r)
      BY <1>0, <1>2 DEF Filling, B!Draining
    <2> QED BY <1>1, <2>1, <2>3, <2>4
  <1>3. CASE ~B!Draining /\ count = B!n_threads /\ times_used = B!n_threads /\ B!Gather(t, 0, B!WakeSleepers)
    <2>1. BarrierTypes'
      BY <1>1, <1>3, GatherType DEF BarrierTypes
    <2>2. ASSUME NEW r \in Nat, Open(r)
          PROVE  Filling(r + 1)' \/ Open(r + 1)'
      <3>1. Cardinality(Gathering) = 0 /\ Gathering = {}
        BY <1>0, <1>3, <2>2, FiniteThreads DEF Open
      <3>2. \A u \in Threads : at[u] # "gather"
        BY <3>1 DEF Gathering
      <3>3. \A u \in Threads : passed[u] = r + 1 /\ (at[u] = "out" => entered[u] = r + 1)
                                                 /\ (at[u] = "drain" => entered[u] = r + 2)
        BY <2>2, <3>2 DEF Open, BarrierTypes
      <3>4. \A u \in Threads \ {t} : /\ at[u] = "out" => entered'[u] = r + 1
                                     /\ at[u] # "out" => entered'[u] = (r + 1) + 1
        BY <1>1, <3>2, <3>3 DEF BarrierTypes
      <3>5. entered'[t] = (r + 1) + 1 /\ r + 1 \in Nat
        BY <1>1, <3>3
      <3>6. \A u \in Threads : passed[u] = r + 1 /\ entered'[u] \in Nat
        BY <1>1, <3>3
      <3> QED BY <1>0, <1>1, <1>3, <3>1, <3>4, <3>5, <3>6, GatherInv
    <2>3. \A r \in Nat : ~Filling(r)
      BY <1>0, <1>3 DEF Filling
    <2>4. \A r \in Nat : r + 1 \in Nat
      OBVIOUS
    <2> QED BY <1>1, <2>1, <2>2, <2>3, <2>4
  <1>4. CASE ~B!Draining /\ ~(count = B!n_threads /\ times_used = B!n_threads) /\ B!Gather(t, count, asleep)
    <2>1. BarrierTypes'
      BY <1>1, <1>4, GatherType DEF BarrierTypes
    <2>2. ASSUME NEW r \in Nat, Filling(r)
          PROVE  Filling(r)' \/ Open(r)'
      <3>1. \A u \in Threads : passed[u] = r /\ entered'[u] \in Nat
        BY <1>1, <2>2 DEF Filling
      <3>2. \A u \in Threads \ {t} : /\ at[u] = "out" => entered'[u] = r
                                     /\ at[u] # "out" => entered'[u] = r + 1
        BY <1>1, <2>2 DEF Filling
      <3>3. entered'[t] = r + 1 /\ count \in Nat
        BY <1>1, <2>2 DEF Filling, BarrierTypes
      <3>4. /\ count < B!n_threads /\ count = Cardinality(Gathering)
            /\ times_used = B!n_threads \/ times_used = 0
        BY <2>2 DEF Filling
      <3> QED BY <1>1, <1>4, <3>1, <3>2, <3>3, <3>4, GatherInv
    <2>3. \A r \in Nat : ~Open(r)
      BY <1>0, <1>4 DEF Open, B!Draining, BarrierTypes
    <2> QED BY <1>1, <2>1, <2>2, <2>3
  <1> QED BY <1>2, <1>3, <1>4 DEF B!Arrive

LEMMA DrainedInv ==
    ASSUME BarrierInv, IsFiniteSet(Threads), NEW t \in Threads, B!Drained(t)
    PROVE  BarrierInv'
  <1> USE DEF BarrierInv
  <1>0. B!n_threads \in Nat /\ B!n_threads > 0 /\ Cardinality(Gathering) \in Nat
    BY FiniteThreads
  <1>1. CASE times_used < B!n_threads /\ B!SleepAgain(t)
    BY <1>1, SleepInv DEF B!SleepAgain
  <1>2. CASE /\ times_used >= B!n_threads /\ overrun' = (overrun \/ count = B!n_threads)
             /\ B!Gather(t, count, asleep) /\ UNCHANGED entered
    <2>1. BarrierTypes'
      BY <1>2, GatherType DEF BarrierTypes
    <2>2. ASSUME NEW r \in Nat, Filling(r)
          PROVE  Filling(r)' \/ Open(r)'
      <3>1. at[t] = "drain"
        BY DEF B!Drained
      <3>2. entered' = entered /\ entered' \in [Threads -> Nat] /\ overrun' \in BOOLEAN
        BY <1>2, <2>1 DEF BarrierTypes
      <3>3. \A u \in Threads : passed[u] = r /\ entered'[u] \in Nat
        BY <2>2, <3>2 DEF Filling
      <3>4. \A u \in Threads \ {t} : /\ at[u] = "out" => entered'[u] = r
                                     /\ at[u] # "out" => entered'[u] = r + 1
        BY <2>2, <3>2 DEF Filling
      <3>5. entered'[t] = r + 1 /\ count \in Nat
        BY <2>2, <3>1, <3>2 DEF Filling, BarrierTypes
      <3>6. /\ count < B!n_threads /\ count = Cardinality(Gathering)
            /\ times_used = B!n_threads \/ times_used = 0
        BY <2>2 DEF Filling
      <3> QED BY <1>2, <3>1, <3>2, <3>3, <3>4, <3>5, <3>6, GatherInv
    <2>3. ~overrun' => ~overrun /\ \A r \in Nat : ~Open(r)
      BY <1>2 DEF Open, BarrierTypes
    <2> QED BY <2>1, <2>2, <2>3
  <1> QED BY <1>1, <1>2 DEF B!Drained

LEMMA GatheredInv ==
    ASSUME BarrierInv, IsFiniteSet(Threads), NEW t \in Threads, B!Gathered(t)
    PROVE  BarrierInv'
  <1> USE DEF BarrierInv
  <1>0. B!n_threads \in Nat /\ B!n_threads > 0 /\ Cardinality(Gathering) \in Nat
    BY FiniteThreads
  <1>1. CASE count < B!n_threads /\ B!SleepAgain(t)
    BY <1>1, SleepInv DEF B!SleepAgain
  <1>2. CASE /\ count >= B!n_threads /\ B!Leave(t, times_used)
             /\ UNCHANGED <<count, asleep, entered, overrun>>
    <2>1. /\ at[t] = "gather" /\ at' = [at EXCEPT ![t] = "out"]
          /\ times_used' = times_used + 1 /\ passed' = [passed EXCEPT ![t] = @ + 1]
      BY <1>2 DEF B!Gathered, B!Leave
    <2>2. BarrierTypes'
      BY <1>2, <2>1 DEF BarrierTypes
    <2>3. Cardinality(Gathering)' = Cardinality(Gathering) - 1
      BY <2>1, OneLess
    <2>4. ASSUME NEW r \in Nat, Open(r) PROVE Open(r)'
      <3>1. times_used' + Cardinality(Gathering)' = B!n_threads
        BY <1>0, <2>1, <2>3, <2>4 DEF Open, BarrierTypes
      <3> QED BY <1>2, <2>1, <2>4, <3>1 DEF Open, BarrierTypes, B!n_threads
    <2>5. \A r \in Nat : ~Filling(r)
      BY <1>0, <1>2 DEF Filling, BarrierTypes
    <2> QED BY <1>2, <2>2, <2>4, <2>5
  <1> QED BY <1>1, <1>2 DEF B!Gathered

LEMMA BarrierInit == ASSUME IsFiniteSet(Threads) PROVE B!Init => BarrierInv
  <1> SUFFICES ASSUME B!Init PROVE BarrierInv
    OBVIOUS
  <1>1. BarrierTypes
    BY DEF B!Init, BarrierTypes
  <1>2. Gathering = {}
    BY DEF B!Init, Gathering
  <1>3. Cardinality(Gathering) = 0
    BY <1>2, FS_EmptySet
  <1>4. CASE Threads = {}
    <2>1. B!n_threads = 0
      BY <1>4, FS_EmptySet, ThreadsCounted
    <2> QED BY <1>1, <1>3, <1>4, <2>1 DEF B!Init, Open, BarrierInv
  <1>5. CASE Threads # {}
    <2>1. B!n_threads \in Nat /\ B!n_threads > 0
      BY <1>5, FiniteThreads
    <2> QED BY <1>1, <1>3, <2>1 DEF B!Init, Filling, BarrierInv
  <1> QED BY <1>4, <1>5

LEMMA BarrierStep == ASSUME IsFiniteSet(Threads) PROVE BarrierInv /\ [B!Next]_(B!vars) => BarrierInv'
  <1> SUFFICES ASSUME BarrierInv, [B!Next]_(B!vars) PROVE BarrierInv'
    OBVIOUS
  <1>1. CASE UNCHANGED B!vars
    BY <1>1, SleepInv DEF B!vars
  <1>2. ASSUME NEW t \in Threads, B!SpuriousWakeup(t) PROVE BarrierInv'
    BY <1>2, SleepInv DEF B!SpuriousWakeup
  <1> QED BY <1>1, <1>2, ArriveInv, DrainedInv, GatheredInv DEF B!Next, B!Step
-----------------------------------------------------------------------------
\* The reusable barrier of barrier.c holds, for any number of threads and of
\* rounds: nobody leaves it before everybody has come, and its counters stay
\* within the number of threads, unless a spurious wakeup let a thread out of
\* line 34 before count was reset.
THEOREM BarrierSafe ==
    ASSUME IsFiniteSet(Threads)
    PROVE  B!Spec => []BarrierHolds
  <1>1. BarrierInv => BarrierHolds
    <2> SUFFICES ASSUME BarrierInv, ~overrun, NEW r \in Nat, Filling(r) \/ Open(r)
                 PROVE  /\ \A t, u \in Threads : passed[t] <= entered[u]
                        /\ count <= B!n_threads /\ times_used <= B!n_threads
      BY DEF BarrierInv, BarrierHolds, B!BarrierHolds
    <2>0. B!n_threads \in Nat /\ Cardinality(Gathering) \in Nat
      BY FiniteThreads
    <2>1. CASE Filling(r)
      BY <2>0, <2>1 DEF BarrierInv, BarrierTypes, Filling
    <2>2. CASE Open(r)
      <3>1. \A t \in Threads : passed[t] <= r + 1 /\ entered[t] >= r + 1
        <4> TAKE t \in Threads
        <4>1. at[t] \in {"out", "drain", "gather"}
          BY DEF BarrierInv, BarrierTypes
        <4> QED BY <2>2, <4>1 DEF Open
      <3>2. count <= B!n_threads /\ times_used <= B!n_threads
        BY <2>0, <2>2 DEF BarrierInv, BarrierTypes, Open
      <3> QED BY <3>1, <3>2 DEF BarrierInv, BarrierTypes
    <2> QED BY <2>1, <2>2
  <1>2. B!Init => BarrierInv
    BY BarrierInit
  <1>3. BarrierInv /\ [B!Next]_(B!vars) => BarrierInv'
    BY BarrierStep
  <1> QED BY <1>1, <1>2, <1>3, PTL DEF B!Spec
=============================================================================
