--------------------------- MODULE ChatServerProofs ---------------------------
(***************************************************************************)
(* Proofs about charming_chatroom/server.c, for every number of slots and  *)
(* every finite set of connections: the slots, their count and their       *)
(* owners.                                                                 *)
(***************************************************************************)
EXTENDS ChatServer, FiniteSetTheorems, FunctionTheorems, WellFoundedInduction, TLAPS

MainPlaces == {"accept", "lock", "locked", "create", "join", "exited", "killed"}
ServingPlaces == {"loop", "read", "broadcast", "write", "close"}
LivePlaces == ServingPlaces \cup {"closed", "clear"}

\* The clients' threads there are, and those that have not closed their client's
\* connection; the one about to be created is of both.
Live == {c \in Conns : worker[c] \in LivePlaces \/ c \in Coming}
Served == {c \in Conns : worker[c] \in ServingPlaces \/ c \in Coming}

TypeOK ==
    /\ endSession \in BOOLEAN /\ clientsCount \in Int
    /\ clients \in [Slots -> Descriptors \cup {NONE}]
    /\ accepted \in Conns \cup {NONE}
    /\ worker \in [Conns -> LivePlaces \cup {"none", "gone"}]
    /\ slot \in [Conns -> Slots]
    /\ fd \in [Conns -> Descriptors \cup {NONE}]
    /\ peer \in [Conns -> {"backlog", "here", "stalled", "left"}]

\* A client that has not been accepted has neither a thread nor a descriptor; the
\* one that has just been has a descriptor and no thread.  Only the handler of
\* SIGINT makes accept() return without a client.
NotYetServed ==
    /\ \A c \in Conns : peer[c] = "backlog" => worker[c] = "none" /\ fd[c] = NONE
    /\ main \in {"lock", "locked", "create"} =>
         IF accepted = NONE THEN endSession /\ main # "create"
         ELSE worker[accepted] = "none" /\ fd[accepted] # NONE /\ peer[accepted] # "backlog"

\* No two connections share a descriptor.
DescriptorsApart == \A c, d \in Conns : fd[c] = fd[d] /\ fd[c] # NONE => c = d

\* The slots in use are the live threads', one each.
SlotsOwned ==
    /\ \A w \in Live : clients[slot[w]] # NONE
    /\ \A v, w \in Live : slot[v] = slot[w] => v = w
    /\ \A s \in Slots : clients[s] # NONE => \E w \in Live : slot[w] = s

Counted == clientsCount = Cardinality(Live)

ServedFromOwnSlot ==
    \A w \in Served : fd[w] # NONE /\ clients[slot[w]] = fd[w]

\* What holds as long as no accept() has failed and the server runs.
OrderlyInv == /\ TypeOK /\ NotYetServed /\ DescriptorsApart
              /\ SlotsOwned /\ Counted /\ ServedFromOwnSlot

IInv == errors \in Nat /\ main \in MainPlaces /\ (Orderly => OrderlyInv)
-----------------------------------------------------------------------------
(* The least element of a set of numbers: Min, which is a CHOOSE. *)

LEMMA LessThan ==
    \E less : /\ IsWellFoundedOn(less, Nat)
              /\ \A x \in Nat : \A y \in Nat : x < y => <<x, y>> \in less
  <1> DEFINE less == OpToRel(<, Nat)
  <1>1. IsWellFoundedOn(less, Nat)
    BY NatLessThanWellFounded, Zenon
  <1>2. \A x \in Nat : \A y \in Nat : x < y => <<x, y>> \in less
    BY DEF OpToRel
  <1> HIDE DEF less
  <1> QED BY <1>1, <1>2, Zenon

LEMMA MinimalElement ==
    ASSUME NEW Q \in SUBSET Nat, Q # {}, NEW less, IsWellFoundedOn(less, Nat)
    PROVE  \E x \in Q : \A y \in Q : ~(<<y, x>> \in less)
  BY WFMin, Zenon

LEMMA MinIsMember ==
    ASSUME NEW Q \in SUBSET Nat, Q # {}
    PROVE  Min(Q) \in Q
  <1>1. PICK less : /\ IsWellFoundedOn(less, Nat)
                    /\ \A x \in Nat : \A y \in Nat : x < y => <<x, y>> \in less
    BY LessThan
  <1>2. PICK x \in Q : \A y \in Q : ~(<<y, x>> \in less)
    BY <1>1, MinimalElement
  <1>3. \A y \in Q : x <= y
    <2> TAKE y \in Q
    <2>1. ~(y < x)
      BY <1>1, <1>2
    <2> QED BY <2>1
  <1> QED BY <1>3 DEF Min

(* Counting slots and descriptors. *)

LEMMA FiniteLive == IsFiniteSet(Live) /\ Cardinality(Live) \in Nat
  <1>1. Live \in SUBSET Conns
    BY DEF Live
  <1> QED BY <1>1, ConnsAssumption, FS_Subset, FS_CardinalityType

LEMMA SlotsUsed ==
    ASSUME TypeOK, SlotsOwned, Counted
    PROVE  clientsCount = Cardinality(Slots \ FreeSlots)
  <1> DEFINE used == Slots \ FreeSlots
             owned == [w \in Live |-> slot[w]]
  <1>1. \A w \in Live : w \in Conns /\ slot[w] \in used
    BY DEF Live, TypeOK, SlotsOwned, FreeSlots
  <1>2. owned \in [Live -> used]
    BY <1>1
  <1>3. \A v, w \in Live : owned[v] = owned[w] => v = w
    BY DEF SlotsOwned
  <1>4. \A s \in used : \E w \in Live : owned[w] = s
    BY DEF SlotsOwned, FreeSlots
  <1>5. owned \in Bijection(Live, used)
    BY <1>2, <1>3, <1>4, Fun_IsBij
  <1>6. ExistsBijection(Live, used)
    BY <1>5 DEF ExistsBijection
  <1> QED BY <1>6, FiniteLive, FS_Bijection DEF Counted

\* Line 153 finds a slot when the server is not full.
LEMMA RoomUnlessFull ==
    ASSUME TypeOK, SlotsOwned, Counted, ~Full
    PROVE  Min(FreeSlots) \in Slots /\ clients[Min(FreeSlots)] = NONE
  <1>1. Cardinality(Slots) = MAX_CLIENTS
    BY MaxAssumption, FS_Interval DEF Slots
  <1>2. FreeSlots # {}
    <2> SUFFICES ASSUME FreeSlots = {} PROVE FALSE
      OBVIOUS
    <2>1. Slots \ FreeSlots = Slots
      OBVIOUS
    <2> QED BY <1>1, <2>1, SlotsUsed DEF Full
  <1>3. FreeSlots \in SUBSET Nat
    BY MaxAssumption DEF FreeSlots, Slots
  <1>4. Min(FreeSlots) \in FreeSlots
    BY <1>2, <1>3, MinIsMember
  <1> QED BY <1>4 DEF FreeSlots

\* accept() finds a descriptor: there are as many as connections.
LEMMA DescriptorFree ==
    ASSUME TypeOK, NEW c \in Conns, fd[c] = NONE
    PROVE  /\ Min(FreeDescriptors) \in Descriptors
           /\ \A d \in Conns : fd[d] # Min(FreeDescriptors)
  <1> DEFINE others == Conns \ {c}
             n == Cardinality(Conns)
  <1>1. /\ n \in Nat /\ IsFiniteSet(others) /\ Cardinality(others) = n - 1
    BY ConnsAssumption, FS_CardinalityType, FS_RemoveElement
  <1>2. IsFiniteSet(Descriptors) /\ Cardinality(Descriptors) = n /\ n > 0
    <2>1. n > 0
      BY <1>1, ConnsAssumption, FS_EmptySet
    <2> QED BY <1>1, <2>1, FS_Interval DEF Descriptors
  <1>3. FreeDescriptors # {}
    <2> SUFFICES ASSUME FreeDescriptors = {} PROVE FALSE
      OBVIOUS
    <2>1. \A d \in Descriptors : d # NONE /\ \E x \in Conns : fd[x] = d
      BY <1>1, NoneAssumption DEF FreeDescriptors, TypeOK, Range, Descriptors
    <2>2. \A d \in Descriptors : \E x \in others : fd[x] = d
      BY <2>1
    <2> DEFINE who == [d \in Descriptors |-> CHOOSE x \in others : fd[x] = d]
    <2>3. \A d \in Descriptors : who[d] \in others /\ fd[who[d]] = d
      BY <2>2
    <2>4. who \in [Descriptors -> others]
      BY <2>3
    <2>5. \A d, e \in Descriptors : who[d] = who[e] => d = e
      BY <2>3
    <2> HIDE DEF who
    <2> QED BY <1>1, <1>2, <2>4, <2>5, FS_PigeonHole
  <1>4. FreeDescriptors \in SUBSET Nat
    BY <1>1 DEF FreeDescriptors, Descriptors
  <1>5. Min(FreeDescriptors) \in FreeDescriptors
    BY <1>3, <1>4, MinIsMember
  <1> QED BY <1>5 DEF FreeDescriptors, Range, TypeOK
-----------------------------------------------------------------------------
\* A step that moves no client's thread and touches neither slots nor
\* descriptors.
LEMMA NobodyMoves ==
    ASSUME OrderlyInv, UNCHANGED <<clientsCount, clients, worker, slot, fd>>,
           Coming' = Coming, TypeOK', NotYetServed'
    PROVE  OrderlyInv'
  <1> USE DEF OrderlyInv
  <1>1. Live' = Live /\ Served' = Served
    BY DEF Live, Served
  <1>2. SlotsOwned' /\ Counted'
    BY <1>1 DEF SlotsOwned, Counted
  <1>3. DescriptorsApart' /\ ServedFromOwnSlot'
    BY <1>1 DEF DescriptorsApart, ServedFromOwnSlot
  <1> QED BY <1>2, <1>3

\* A step of a client's thread in the middle of its life.
LEMMA WorkerMoves ==
    ASSUME OrderlyInv, NEW w \in Conns, NEW to \in LivePlaces, worker[w] \in LivePlaces,
           to \in ServingPlaces => worker[w] \in ServingPlaces,
           worker' = [worker EXCEPT ![w] = to],
           UNCHANGED <<endSession, clientsCount, clients, main, accepted, slot, fd, peer>>
    PROVE  OrderlyInv'
  <1> USE DEF OrderlyInv
  <1>1. TypeOK'
    BY DEF TypeOK
  <1>2. Live' = Live /\ Served' \subseteq Served
    BY DEF Live, Served, Coming, TypeOK
  <1>3. SlotsOwned' /\ Counted'
    BY <1>2 DEF SlotsOwned, Counted
  <1>4. NotYetServed'
    <2>1. worker[w] # "none"
      BY DEF LivePlaces, ServingPlaces
    <2> QED BY <2>1 DEF NotYetServed, TypeOK
  <1>5. DescriptorsApart' /\ ServedFromOwnSlot'
    BY <1>2 DEF DescriptorsApart, ServedFromOwnSlot
  <1> QED BY <1>1, <1>3, <1>4, <1>5

\* The clients arrive one after the other, in the order of a sequence.
LEMMA ArrivalsNumbered == Arrivals \in [1 .. Cardinality(Conns) -> Conns]
  <1>1. Bijection(1 .. Cardinality(Conns), Conns) # {}
    BY ConnsAssumption, FS_CardinalityType DEF ExistsBijection
  <1>2. \E f \in [1 .. Cardinality(Conns) -> Conns] : IsInjective(f)
    BY <1>1 DEF Bijection, Injection
  <1> QED BY <1>2 DEF Arrivals, SetToSeq

\* Both ends of the queue of connections: accept(), and a connection turned away.
LEMMA AcceptInv ==
    ASSUME OrderlyInv, NEW c \in Conns, Accept(c)
    PROVE  OrderlyInv'
  <1> USE DEF OrderlyInv
  <1> DEFINE new == Min(FreeDescriptors)
  <1>1. peer[c] = "backlog"
    <2>1. PICK i \in DOMAIN Arrivals :
            /\ Arrivals[i] = c
            /\ \A j \in DOMAIN Arrivals : peer[Arrivals[j]] = "backlog" <=> j >= i
      BY DEF Accept, FirstInLine
    <2>2. i \in Int
      BY ArrivalsNumbered, ConnsAssumption, FS_CardinalityType
    <2> QED BY <2>1, <2>2
  <1>2. worker[c] = "none" /\ fd[c] = NONE
    BY <1>1 DEF NotYetServed
  <1>3. new \in Descriptors /\ \A d \in Conns : fd[d] # new
    BY <1>2, DescriptorFree
  <1> HIDE DEF new
  <1>4. /\ fd' = [fd EXCEPT ![c] = new] /\ peer' = [peer EXCEPT ![c] = "here"]
        /\ accepted' = c /\ main = "accept" /\ main' = "lock"
        /\ UNCHANGED <<endSession, clientsCount, clients, worker, slot>>
    BY DEF Accept, new
  <1>5. TypeOK'
    BY <1>3, <1>4 DEF TypeOK
  <1>6. Live' = Live /\ Served' = Served
    BY <1>4 DEF Live, Served, Coming
  <1>7. SlotsOwned' /\ Counted'
    BY <1>4, <1>6 DEF SlotsOwned, Counted
  <1>8. new # NONE /\ c # NONE
    BY <1>3, ConnsAssumption, FS_CardinalityType, NoneAssumption DEF Descriptors
  <1>9. NotYetServed'
    BY <1>2, <1>4, <1>8 DEF NotYetServed, TypeOK
  <1>10. DescriptorsApart'
    BY <1>3, <1>4 DEF DescriptorsApart, TypeOK
  <1>11. ServedFromOwnSlot'
    <2>1. c \notin Served
      BY <1>2, <1>4 DEF Served, Coming, ServingPlaces
    <2> QED BY <1>4, <1>6, <2>1 DEF ServedFromOwnSlot, Served, TypeOK
  <1> QED BY <1>5, <1>7, <1>9, <1>10, <1>11

LEMMA TurnAwayInv ==
    ASSUME OrderlyInv, main = "locked", TurnAway, accepted' = NONE,
           main' \notin {"lock", "locked", "create"}, UNCHANGED endSession
    PROVE  OrderlyInv'
  <1> USE DEF OrderlyInv
  <1>1. /\ fd' = [c \in Conns |-> IF c = accepted THEN NONE ELSE fd[c]]
        /\ peer' = [c \in Conns |-> IF c = accepted THEN "left" ELSE peer[c]]
        /\ UNCHANGED <<clients, clientsCount, worker, slot>>
    BY DEF TurnAway
  <1>2. TypeOK'
    BY <1>1 DEF TypeOK
  <1>3. Live' = Live /\ Served' = Served
    BY <1>1 DEF Live, Served, Coming
  <1>4. SlotsOwned' /\ Counted'
    BY <1>1, <1>3 DEF SlotsOwned, Counted
  <1>5. NotYetServed'
    BY <1>1 DEF NotYetServed, TypeOK
  <1>6. DescriptorsApart'
    BY <1>1 DEF DescriptorsApart
  <1>7. accepted # NONE => worker[accepted] = "none"
    BY DEF NotYetServed
  <1>8. ServedFromOwnSlot'
    <2> SUFFICES ASSUME NEW w \in Served
                 PROVE  fd'[w] # NONE /\ clients'[slot'[w]] = fd'[w]
      BY <1>3 DEF ServedFromOwnSlot
    <2>1. w \in Conns /\ w # accepted
      BY <1>7, NoneAssumption DEF ServingPlaces, Served, Coming
    <2> QED BY <1>1, <2>1 DEF ServedFromOwnSlot
  <1> QED BY <1>2, <1>4, <1>5, <1>6, <1>8

\* Line 153: the client gets a free slot, and is to get a thread.
LEMMA AdmitInv ==
    ASSUME OrderlyInv, main = "locked", ~endSession, ~Full, Admit, main' = "create",
           UNCHANGED <<endSession, accepted>>
    PROVE  OrderlyInv'
  <1> USE DEF OrderlyInv
  <1> DEFINE s == Min(FreeSlots)
             c == accepted
  <1>1. /\ c \in Conns /\ worker[c] = "none" /\ fd[c] # NONE /\ peer[c] # "backlog"
    BY DEF NotYetServed, TypeOK
  <1>2. s \in Slots /\ clients[s] = NONE
    BY RoomUnlessFull
  <1> HIDE DEF s
  <1>3. /\ slot' = [slot EXCEPT ![c] = s]
        /\ clients' = [clients EXCEPT ![s] = fd[c]]
        /\ clientsCount' = clientsCount + 1
        /\ worker' = worker /\ fd' = fd /\ peer' = peer
    BY DEF Admit, network, s
  <1>a. Coming = {} /\ Coming' = {c}
    BY DEF Coming
  <1> HIDE DEF c
  <1>4. TypeOK'
    BY <1>1, <1>2, <1>3 DEF TypeOK, LivePlaces, ServingPlaces
  <1>5. /\ Live' = Live \cup {c} /\ c \notin Live
        /\ Served' = Served \cup {c} /\ Served \subseteq Live
    BY <1>1, <1>3, <1>a DEF Live, Served, TypeOK, LivePlaces, ServingPlaces
  <1>6. Counted'
    BY <1>3, <1>5, FiniteLive, FS_AddElement DEF Counted
  <1>7. \A w \in Live : w \in Conns /\ slot'[w] = slot[w] /\ slot[w] # s /\ w # c
    BY <1>1, <1>2, <1>3, <1>5 DEF SlotsOwned, TypeOK, Live
  <1>8. SlotsOwned'
    <2>1. \A w \in Live' : clients'[slot'[w]] # NONE
      BY <1>1, <1>2, <1>3, <1>5, <1>7 DEF SlotsOwned, TypeOK
    <2>2. slot'[c] = s
      BY <1>1, <1>3 DEF TypeOK
    <2>3. \A v, w \in Live' : slot'[v] = slot'[w] => v = w
      BY <1>5, <1>7, <2>2 DEF SlotsOwned
    <2>4. ASSUME NEW t \in Slots, clients'[t] # NONE
          PROVE  \E w \in Live' : slot'[w] = t
      <3>1. CASE t = s
        BY <1>5, <2>2, <3>1
      <3>2. CASE t # s
        <4>1. clients[t] # NONE
          BY <1>3, <2>4, <3>2 DEF TypeOK
        <4> QED BY <1>5, <1>7, <4>1 DEF SlotsOwned
      <3> QED BY <3>1, <3>2
    <2> QED BY <2>1, <2>3, <2>4 DEF SlotsOwned
  <1>9. NotYetServed' /\ DescriptorsApart'
    BY <1>1, <1>3, NoneAssumption DEF NotYetServed, DescriptorsApart, TypeOK, c
  <1>10. ServedFromOwnSlot'
    <2> SUFFICES ASSUME NEW w \in Served'
                 PROVE  fd[w] # NONE /\ clients'[slot'[w]] = fd[w]
      BY <1>3 DEF ServedFromOwnSlot
    <2>1. CASE w = c
      BY <1>1, <1>2, <1>3, <2>1 DEF TypeOK
    <2>2. CASE w # c
      <3>1. w \in Served /\ w \in Live
        BY <1>5, <2>2
      <3>2. slot'[w] = slot[w] /\ slot[w] # s /\ slot[w] \in Slots
        BY <1>7, <3>1 DEF TypeOK
      <3>3. clients'[slot[w]] = clients[slot[w]]
        BY <1>3, <3>2 DEF TypeOK
      <3> QED BY <3>1, <3>2, <3>3 DEF ServedFromOwnSlot
    <2> QED BY <2>1, <2>2
  <1> QED BY <1>4, <1>6, <1>8, <1>9, <1>10

\* Line 156: the thread starts with its client in its slot.
LEMMA CreateInv ==
    ASSUME OrderlyInv, CreateThread
    PROVE  OrderlyInv'
  <1> USE DEF OrderlyInv
  <1> DEFINE c == accepted
  <1>1. /\ main = "create" /\ main' = "accept" /\ accepted' = NONE
        /\ worker' = [worker EXCEPT ![c] = "loop"]
        /\ UNCHANGED <<endSession, clientsCount, clients, slot, fd, peer>>
    BY DEF CreateThread, network
  <1>2. c \in Conns /\ worker[c] = "none" /\ fd[c] # NONE /\ peer[c] # "backlog"
    BY <1>1 DEF NotYetServed, TypeOK
  <1>3. Coming = {c} /\ Coming' = {}
    BY <1>1 DEF Coming
  <1> HIDE DEF c
  <1>4. TypeOK'
    BY <1>1, <1>2 DEF TypeOK, LivePlaces, ServingPlaces
  <1>5. Live' = Live /\ Served' = Served
    BY <1>1, <1>2, <1>3 DEF Live, Served, TypeOK, LivePlaces, ServingPlaces
  <1>6. SlotsOwned' /\ Counted'
    BY <1>1, <1>5 DEF SlotsOwned, Counted
  <1>7. NotYetServed' /\ DescriptorsApart'
    BY <1>1, <1>2 DEF NotYetServed, DescriptorsApart, TypeOK
  <1>8. ServedFromOwnSlot'
    BY <1>1, <1>5 DEF ServedFromOwnSlot
  <1> QED BY <1>4, <1>6, <1>7, <1>8

\* Line 218: the descriptor behind a serving thread's slot is its own, and no
\* other thread's.
LEMMA CloseOwnInv ==
    ASSUME OrderlyInv, NEW w \in Conns, CloseOwn(w)
    PROVE  OrderlyInv'
  <1> USE DEF OrderlyInv
  <1>1. /\ worker[w] = "close" /\ worker' = [worker EXCEPT ![w] = "closed"]
        /\ UNCHANGED <<endSession, clientsCount, clients, main, accepted, slot, peer>>
    BY DEF CloseOwn, Step
  <1>2. fd[w] # NONE /\ clients[slot[w]] = fd[w]
    BY <1>1 DEF ServedFromOwnSlot, Served, ServingPlaces
  <1>3. Behind(clients[slot[w]]) = {w}
    BY <1>2 DEF Behind, DescriptorsApart
  <1>4. fd' = [c \in Conns |-> IF c = w THEN NONE ELSE fd[c]]
    BY <1>3 DEF CloseOwn
  <1>5. TypeOK'
    BY <1>1, <1>4 DEF TypeOK, LivePlaces
  <1>6. /\ Live' = Live
        /\ \A v \in Served' : v \in Served /\ v \in Conns /\ v # w
    <2>1. w \notin Coming /\ Coming' = Coming
      BY <1>1 DEF Coming, NotYetServed, TypeOK
    <2> QED BY <1>1, <2>1 DEF Live, Served, TypeOK, LivePlaces, ServingPlaces
  <1>7. SlotsOwned' /\ Counted'
    BY <1>1, <1>6 DEF SlotsOwned, Counted
  <1>8. NotYetServed'
    BY <1>1, <1>4 DEF NotYetServed, TypeOK
  <1>9. DescriptorsApart'
    BY <1>4 DEF DescriptorsApart
  <1>10. ServedFromOwnSlot'
    BY <1>1, <1>4, <1>6 DEF ServedFromOwnSlot
  <1> QED BY <1>5, <1>7, <1>8, <1>9, <1>10

\* Lines 221-225: the slot is given back, and only the thread's own.
LEMMA ClearInv ==
    ASSUME OrderlyInv, NEW w \in Conns, Clear(w)
    PROVE  OrderlyInv'
  <1> USE DEF OrderlyInv
  <1>1. /\ worker[w] = "clear" /\ worker' = [worker EXCEPT ![w] = "gone"]
        /\ clients' = [clients EXCEPT ![slot[w]] = NONE]
        /\ clientsCount' = clientsCount - 1
        /\ UNCHANGED <<endSession, main, accepted, slot, fd, peer>>
    BY DEF Clear, Step, EmptySlot, CountDown, network
  <1>2. TypeOK'
    BY <1>1 DEF TypeOK
  <1>3. Live' = Live \ {w} /\ w \in Live /\ Served' \subseteq Served /\ Served' \subseteq Live'
    <2>1. w \notin Coming /\ Coming' = Coming
      BY <1>1 DEF Coming, NotYetServed, TypeOK
    <2> QED BY <1>1, <2>1 DEF Live, Served, TypeOK, LivePlaces, ServingPlaces
  <1>4. Counted'
    BY <1>1, <1>3, FiniteLive, FS_RemoveElement DEF Counted
  <1>5. \A v \in Live' : v \in Live /\ v \in Conns /\ slot[v] # slot[w]
    BY <1>3 DEF SlotsOwned, Live
  <1>6. \A s \in Slots : clients'[s] = IF s = slot[w] THEN NONE ELSE clients[s]
    BY <1>1 DEF TypeOK
  <1>7. \A v \in Conns : slot[v] \in Slots
    BY DEF TypeOK
  <1>8. SlotsOwned'
    <2>1. \A v \in Live' : clients'[slot'[v]] # NONE
      BY <1>1, <1>5, <1>6, <1>7 DEF SlotsOwned
    <2>2. \A u, v \in Live' : slot'[u] = slot'[v] => u = v
      BY <1>1, <1>5 DEF SlotsOwned
    <2>3. \A s \in Slots : clients'[s] # NONE => \E v \in Live' : slot'[v] = s
      BY <1>1, <1>3, <1>6 DEF SlotsOwned
    <2> QED BY <2>1, <2>2, <2>3 DEF SlotsOwned
  <1>9. NotYetServed' /\ DescriptorsApart'
    BY <1>1 DEF NotYetServed, DescriptorsApart, TypeOK
  <1>10. ServedFromOwnSlot'
    <2> SUFFICES ASSUME NEW v \in Served'
                 PROVE  fd[v] # NONE /\ clients'[slot[v]] = fd[v]
      BY <1>1 DEF ServedFromOwnSlot
    <2>1. v \in Served /\ v \in Live'
      BY <1>3
    <2> QED BY <1>5, <1>6, <1>7, <2>1 DEF ServedFromOwnSlot
  <1> QED BY <1>2, <1>4, <1>8, <1>9, <1>10
-----------------------------------------------------------------------------
LEMMA InitInv == Init => IInv
  <1> SUFFICES ASSUME Init PROVE IInv
    OBVIOUS
  <1>0. 0 \in Slots
    BY MaxAssumption DEF Slots
  <1>a. endSession \in BOOLEAN /\ accepted \in Conns \cup {NONE}
    BY Zenon DEF Init
  <1>d. clientsCount \in Int
    BY DEF Init
  <1>b. clients \in [Slots -> Descriptors \cup {NONE}] /\ slot \in [Conns -> Slots]
    BY <1>0 DEF Init
  <1>c. /\ worker \in [Conns -> LivePlaces \cup {"none", "gone"}]
        /\ fd \in [Conns -> Descriptors \cup {NONE}]
        /\ peer \in [Conns -> {"backlog", "here", "stalled", "left"}]
    BY DEF Init
  <1>1. TypeOK
    BY <1>a, <1>b, <1>c, <1>d DEF TypeOK
  <1>2. Live = {} /\ Served = {}
    BY DEF Init, Live, Served, Coming, LivePlaces, ServingPlaces
  <1>3. SlotsOwned /\ Counted
    BY <1>2, FS_EmptySet DEF Init, SlotsOwned, Counted
  <1>4. NotYetServed /\ DescriptorsApart /\ ServedFromOwnSlot
    BY <1>2 DEF Init, NotYetServed, DescriptorsApart, ServedFromOwnSlot
  <1> QED BY <1>1, <1>3, <1>4 DEF Init, IInv, OrderlyInv, MainPlaces

\* Once disorderly, always disorderly: errors are not forgotten, and a server
\* that has stopped does not start again.
LEMMA OrderOnlyLost ==
    ASSUME errors \in Nat, main \in MainPlaces, [Next]_vars
    PROVE  errors' \in Nat /\ main' \in MainPlaces /\ (Orderly' => Orderly)
  <1>1. CASE errors' = errors + 1 /\ main' = "lock"
    BY <1>1 DEF Orderly, MainPlaces
  <1>2. CASE errors' = errors /\ main' = main
    BY <1>2 DEF Orderly
  <1>3. CASE errors' = errors /\ main \in {"accept", "lock", "locked", "create", "join"} /\ main' \in MainPlaces
    BY <1>3 DEF Orderly
  <1>4. CASE errors' = errors /\ main' = "killed"
    BY <1>4 DEF Orderly, MainPlaces
  <1>5. CASE MainStep \/ CloseServer
    BY <1>2, <1>3, <1>5
    DEF MainStep, CloseServer, Accept, MainLocks, MainUnlocks, CreateThread, Cleanup, MainPlaces
  <1>6. CASE Environment
    BY <1>1, <1>2, <1>6 DEF Environment, Say, Stall, Resume, Depart, AcceptFails, Interrupt, server_vars
  <1>7. CASE \E w \in Conns : WorkerStep(w)
    BY <1>2, <1>4, <1>7
    DEF WorkerStep, TestSession, ReadMessage, ReadEnds, LockToBroadcast, Write, EndBroadcast, CloseOwn,
        LockToClear, Clear
  <1>8. CASE UNCHANGED vars
    BY <1>2, <1>8 DEF vars
  <1> QED BY <1>5, <1>6, <1>7, <1>8 DEF Next

LEMMA MainInv ==
    ASSUME OrderlyInv, MainStep \/ CloseServer, Orderly'
    PROVE  OrderlyInv'
  <1>1. CASE MainLocks
    <2>1. /\ main = "lock" /\ main' = "locked"
          /\ UNCHANGED <<endSession, clientsCount, clients, accepted, worker, slot, fd, peer>>
      BY <1>1 DEF MainLocks, network
    <2>2. TypeOK' /\ NotYetServed' /\ Coming' = Coming
      BY <2>1 DEF OrderlyInv, TypeOK, NotYetServed, Coming
    <2> QED BY <2>1, <2>2, NobodyMoves
  <1>2. CASE MainUnlocks
    <2>1. main = "locked" /\ UNCHANGED endSession
      BY <1>2 DEF MainUnlocks
    <2>2. \/ TurnAway /\ main' \in {"join", "accept"} /\ accepted' = NONE
          \/ ~endSession /\ ~Full /\ Admit /\ main' = "create" /\ UNCHANGED accepted
      BY <1>2 DEF MainUnlocks
    <2> QED BY <2>1, <2>2, TurnAwayInv, AdmitInv
  <1>3. CASE Cleanup
    BY <1>3 DEF Cleanup, Orderly
  <1>4. CASE CloseServer
    <2>1. /\ endSession' = TRUE
          /\ UNCHANGED <<clientsCount, clients, worker, slot, fd, peer>>
          /\ \/ main = "accept" /\ main' = "lock" /\ accepted' = NONE
             \/ UNCHANGED <<main, accepted>>
      BY <1>4 DEF CloseServer, network
    <2>2. TypeOK' /\ NotYetServed' /\ Coming' = Coming
      BY <2>1 DEF OrderlyInv, TypeOK, NotYetServed, Coming
    <2> QED BY <2>1, <2>2, NobodyMoves
  <1> QED BY <1>1, <1>2, <1>3, <1>4, AcceptInv, CreateInv DEF MainStep

LEMMA EnvironmentInv ==
    ASSUME OrderlyInv, errors \in Nat, Environment, Orderly, Orderly'
    PROVE  OrderlyInv'
  <1>1. ASSUME NEW c \in Conns, AcceptFails(c) PROVE FALSE
    BY <1>1 DEF AcceptFails, Orderly
  <1>2. ASSUME NEW c \in Conns, Say(c) \/ Stall(c) \/ Resume(c) \/ Depart(c) PROVE OrderlyInv'
    <2>1. /\ UNCHANGED <<endSession, clientsCount, clients, main, accepted, worker, slot, fd>>
          /\ \/ peer' = peer
             \/ /\ peer[c] # "backlog"
                /\ \E p \in {"here", "stalled", "left"} : peer' = [peer EXCEPT ![c] = p]
      BY <1>2 DEF Say, Stall, Resume, Depart, Connected, server_vars
    <2>2. TypeOK' /\ NotYetServed' /\ Coming' = Coming
      BY <2>1 DEF OrderlyInv, TypeOK, NotYetServed, Coming
    <2> QED BY <2>1, <2>2, NobodyMoves
  <1>3. ASSUME NEW t \in Threads, Interrupt(t) PROVE OrderlyInv'
    <2>1. UNCHANGED <<endSession, clientsCount, clients, main, accepted, worker, slot, fd, peer>>
      BY <1>3 DEF Interrupt, server_vars, network
    <2>2. TypeOK' /\ NotYetServed' /\ Coming' = Coming
      BY <2>1 DEF OrderlyInv, TypeOK, NotYetServed, Coming
    <2> QED BY <2>1, <2>2, NobodyMoves
  <1> QED BY <1>1, <1>2, <1>3 DEF Environment

LEMMA WorkerInv ==
    ASSUME OrderlyInv, NEW w \in Conns, WorkerStep(w), Orderly'
    PROVE  OrderlyInv'
  <1>1. CASE CloseOwn(w) \/ Clear(w)
    BY <1>1, CloseOwnInv, ClearInv
  <1>2. CASE ~(CloseOwn(w) \/ Clear(w))
    <2>1. /\ UNCHANGED <<endSession, clientsCount, clients, accepted, slot, fd, peer>>
          /\ main' = main
      BY <1>2 DEF WorkerStep, TestSession, ReadMessage, ReadEnds, LockToBroadcast, Write, EndBroadcast,
                  LockToClear, Orderly, network
    <2>2. PICK from \in LivePlaces, to \in LivePlaces :
            Step(w, from, to) /\ (to \in ServingPlaces => from \in ServingPlaces)
      BY <1>2 DEF WorkerStep, TestSession, ReadMessage, ReadEnds, LockToBroadcast, Write, EndBroadcast,
                  LockToClear, LivePlaces, ServingPlaces
    <2>3. worker[w] = from /\ worker' = [worker EXCEPT ![w] = to]
      BY <2>2 DEF Step
    <2> QED BY <2>1, <2>2, <2>3, WorkerMoves
  <1> QED BY <1>1, <1>2

LEMMA NextInv == IInv /\ [Next]_vars => IInv'
  <1> SUFFICES ASSUME IInv, [Next]_vars PROVE IInv'
    OBVIOUS
  <1>1. errors' \in Nat /\ main' \in MainPlaces /\ (Orderly' => Orderly)
    BY OrderOnlyLost DEF IInv
  <1> SUFFICES ASSUME Orderly', Orderly, OrderlyInv PROVE OrderlyInv'
    BY <1>1 DEF IInv
  <1>2. CASE UNCHANGED vars
    <2>1. UNCHANGED <<endSession, clientsCount, clients, main, accepted, worker, slot, fd, peer>>
      BY <1>2 DEF vars
    <2>2. TypeOK' /\ NotYetServed' /\ Coming' = Coming
      BY <2>1 DEF OrderlyInv, TypeOK, NotYetServed, Coming
    <2> QED BY <2>1, <2>2, NobodyMoves
  <1> QED BY <1>2, MainInv, EnvironmentInv, WorkerInv DEF Next, IInv
-----------------------------------------------------------------------------
\* The chat server never loses or leaks a slot, for any MAX_CLIENTS and any
\* clients, however long one of them does not read: clientsCount counts the slots
\* in use and the threads alive or about to be created.
THEOREM SlotsExact == Spec => []SlotsCounted
  <1>1. IInv => SlotsCounted
    <2> SUFFICES ASSUME OrderlyInv
                 PROVE  /\ clientsCount = Cardinality(Slots \ FreeSlots)
                        /\ clientsCount = Cardinality((Threads \ {"main"}) \cup Coming)
                        /\ \A c \in Coming : worker[c] = "none"
      BY DEF IInv, SlotsCounted
    <2>1. clientsCount = Cardinality(Slots \ FreeSlots)
      BY SlotsUsed DEF OrderlyInv
    <2>2. \A c \in Coming : c \in Conns /\ worker[c] = "none"
      BY DEF OrderlyInv, TypeOK, NotYetServed, Coming
    <2>3. (Threads \ {"main"}) \cup Coming = Live
      BY <2>2, ConnsAssumption DEF Threads, Live, OrderlyInv, TypeOK, LivePlaces, ServingPlaces
    <2> QED BY <2>1, <2>2, <2>3 DEF OrderlyInv, Counted
  <1> QED BY <1>1, InitInv, NextInv, PTL DEF Spec

\* A client's thread reads its slot without the mutex and yet never reads from
\* another client's connection; a descriptor is in two slots only while a thread
\* is between line 218 and line 221.
THEOREM SlotsOwn == Spec => []OwnSlot
  <1>1. IInv => OwnSlot
    <2> SUFFICES ASSUME OrderlyInv
                 PROVE  /\ \A w \in Conns : Serving(w) => fd[w] # NONE /\ clients[slot[w]] = fd[w]
                        /\ \A s, t \in Slots :
                             (s # t /\ clients[s] # NONE /\ clients[s] = clients[t]) =>
                               \E w \in Conns : slot[w] \in {s, t} /\ worker[w] \in {"closed", "clear"}
      BY DEF IInv, OwnSlot
    <2>1. \A w \in Conns : Serving(w) => fd[w] # NONE /\ clients[slot[w]] = fd[w]
      BY DEF OrderlyInv, ServedFromOwnSlot, Served, Serving, ServingPlaces
    <2>2. ASSUME NEW s \in Slots, NEW t \in Slots,
                 s # t, clients[s] # NONE, clients[s] = clients[t]
          PROVE  \E w \in Conns : slot[w] \in {s, t} /\ worker[w] \in {"closed", "clear"}
      <3>1. PICK v \in Live, w \in Live : slot[v] = s /\ slot[w] = t
        BY <2>2 DEF OrderlyInv, SlotsOwned
      <3>2. v \in Conns /\ w \in Conns /\ v # w
        BY <2>2, <3>1 DEF Live
      <3>3. ~(v \in Served /\ w \in Served)
        BY <2>2, <3>1, <3>2 DEF OrderlyInv, ServedFromOwnSlot, DescriptorsApart
      <3>4. worker[v] \in {"closed", "clear"} \/ worker[w] \in {"closed", "clear"}
        BY <3>1, <3>2, <3>3 DEF Live, Served, LivePlaces
      <3> QED BY <3>1, <3>2, <3>4
    <2> QED BY <2>1, <2>2
  <1> QED BY <1>1, InitInv, NextInv, PTL DEF Spec
=============================================================================
