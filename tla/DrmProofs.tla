------------------------------ MODULE DrmProofs ------------------------------
(***************************************************************************)
(* Proofs about deadlock_demolition/libdrm.c for every set of threads and  *)
(* drms.  The first part leaves the cycle test uninterpreted: what it      *)
(* proves holds whatever isCyclic answers.  The second part, from LessThan *)
(* on, is about what isCyclic answers.                                     *)
(***************************************************************************)
EXTENDS Drm, FiniteSetTheorems, WellFoundedInduction, TLAPS

\* The inductive invariant.
IInv == TypeOK /\ MutualExclusion /\ GraphMatchesLocks /\ NoSelfDeadlock

LEMMA InitInv == Init => IInv
  BY DistinctAssumption
  DEF Init, IInv, TypeOK, MutualExclusion, GraphMatchesLocks, NoSelfDeadlock

LEMMA DrmInitInv ==
    ASSUME IInv, NEW d \in Drms, DrmInit(d)
    PROVE  IInv'
  <1> USE DistinctAssumption DEF IInv
  <1>1. TypeOK'
    BY DEF TypeOK, DrmInit
  <1>2. \A t \in Threads : <<d, t>> \notin holds
    BY DEF TypeOK, GraphMatchesLocks, DrmInit
  <1>3. MutualExclusion'
    BY <1>2 DEF TypeOK, MutualExclusion, DrmInit
  <1>4. GraphMatchesLocks' /\ NoSelfDeadlock'
    BY DEF GraphMatchesLocks, NoSelfDeadlock, DrmInit
  <1> QED BY <1>1, <1>3, <1>4

LEMMA DrmDestroyInv ==
    ASSUME IInv, NEW d \in Drms, DrmDestroy(d)
    PROVE  IInv'
  <1> USE DistinctAssumption DEF IInv
  <1>1. mutex = NONE /\ target = NONE /\ edges = holds
    BY DEF TypeOK, GraphMatchesLocks, DrmDestroy
  <1>2. edges' = edges
    BY <1>1 DEF TypeOK, DrmDestroy
  <1>3. TypeOK'
    BY <1>1, <1>2 DEF TypeOK, DrmDestroy
  <1>4. MutualExclusion' /\ GraphMatchesLocks' /\ NoSelfDeadlock'
    BY <1>1, <1>2 DEF MutualExclusion, GraphMatchesLocks, NoSelfDeadlock, DrmDestroy
  <1> QED BY <1>3, <1>4

LEMMA WaitEnterInv ==
    ASSUME IInv, NEW t \in Threads, NEW d \in Drms, WaitEnter(t, d)
    PROVE  IInv'
  <1> USE DistinctAssumption DEF IInv
  <1>1. mutex = NONE /\ target = NONE /\ edges = holds
    BY DEF TypeOK, GraphMatchesLocks, WaitEnter
  <1>2. CASE UNCHANGED <<edges, mutex, target>>
    <2>1. TypeOK'
      BY <1>2 DEF TypeOK, WaitEnter
    <2>2. MutualExclusion' /\ GraphMatchesLocks' /\ NoSelfDeadlock'
      BY <1>2 DEF MutualExclusion, GraphMatchesLocks, NoSelfDeadlock, WaitEnter
    <2> QED BY <2>1, <2>2
  <1>3. CASE /\ <<d, t>> \notin edges /\ edges' = edges \cup {<<d, t>>}
             /\ mutex' = t /\ target' = d
    <2>1. TypeOK'
      BY <1>3 DEF TypeOK, WaitEnter
    <2>2. MutualExclusion'
      BY DEF MutualExclusion, WaitEnter
    <2>3. GraphMatchesLocks'
      BY <1>1, <1>3 DEF GraphMatchesLocks, WaitEnter
    <2>4. NoSelfDeadlock'
      BY <1>1, <1>3 DEF MutualExclusion, NoSelfDeadlock, WaitEnter
    <2> QED BY <2>1, <2>2, <2>3, <2>4
  <1> QED BY <1>2, <1>3 DEF WaitEnter, HasEdge

LEMMA WaitLockInv ==
    ASSUME IInv, NEW t \in Threads, WaitLock(t)
    PROVE  IInv'
  <1> USE DistinctAssumption DEF IInv
  <1>1. target \in verts \cap Drms /\ mutex = t /\ owner[target] = NONE
    BY DEF TypeOK, WaitLock
  <1>2. TypeOK'
    BY <1>1 DEF TypeOK, WaitLock
  <1>3. MutualExclusion'
    <2> SUFFICES ASSUME NEW e \in Drms, NEW u \in Threads
                 PROVE  <<e, u>> \in holds' <=> owner'[e] = u
      BY DEF MutualExclusion
    <2>1. /\ holds' = holds \cup {<<target, t>>}
          /\ owner' = [owner EXCEPT ![target] = t]
          /\ owner \in [Drms -> Threads \cup {NONE}]
      BY DEF TypeOK, WaitLock
    <2>2. <<e, u>> \in holds <=> owner[e] = u
      BY DEF MutualExclusion
    <2>3. CASE e = target
      BY <1>1, <2>1, <2>2, <2>3
    <2>4. CASE e # target
      BY <1>1, <2>1, <2>2, <2>4
    <2> QED BY <2>3, <2>4
  <1>4. GraphMatchesLocks' /\ NoSelfDeadlock'
    BY <1>1 DEF GraphMatchesLocks, NoSelfDeadlock, WaitLock
  <1> QED BY <1>2, <1>3, <1>4

LEMMA PostInv ==
    ASSUME IInv, NEW t \in Threads, NEW d \in Drms, Post(t, d)
    PROVE  IInv'
  <1> USE DistinctAssumption DEF IInv
  <1>1. mutex = NONE /\ target = NONE /\ edges = holds
    BY DEF TypeOK, GraphMatchesLocks, Post
  <1>2. CASE MayPost(t, d)
    <2>1. TypeOK'
      BY <1>1, <1>2 DEF TypeOK, Post, RemoveEdge
    <2>2. owner[d] = t
      BY <1>1, <1>2 DEF MayPost, MutualExclusion
    <2>3. MutualExclusion'
      <3> SUFFICES ASSUME NEW e \in Drms, NEW u \in Threads
                   PROVE  <<e, u>> \in holds' <=> owner'[e] = u
        BY DEF MutualExclusion
      <3>1. holds' = holds \ {<<d, t>>} /\ owner' = [owner EXCEPT ![d] = NONE]
        BY <1>2 DEF Post
      <3>2. CASE e = d
        BY <3>1, <3>2, <2>2 DEF TypeOK, MutualExclusion
      <3>3. CASE e # d
        BY <3>1, <3>3 DEF TypeOK, MutualExclusion
      <3> QED BY <3>2, <3>3
    <2>4. GraphMatchesLocks' /\ NoSelfDeadlock'
      BY <1>1, <1>2 DEF GraphMatchesLocks, NoSelfDeadlock, Post, RemoveEdge
    <2> QED BY <2>1, <2>3, <2>4
  <1>3. CASE ~MayPost(t, d)
    BY <1>3 DEF TypeOK, MutualExclusion, GraphMatchesLocks, NoSelfDeadlock, Post
  <1> QED BY <1>2, <1>3

LEMMA NextInv == IInv /\ [Next]_vars => IInv'
  <1> SUFFICES ASSUME IInv, [Next]_vars PROVE IInv'
    OBVIOUS
  <1>1. CASE UNCHANGED vars
    BY <1>1 DEF IInv, TypeOK, MutualExclusion, GraphMatchesLocks, NoSelfDeadlock, vars
  <1> QED BY <1>1, DrmInitInv, DrmDestroyInv, WaitEnterInv, WaitLockInv, PostInv DEF Next

\* A drm has at most one holder, the graph has exactly the owners' edges and
\* the pending one, and no thread ever blocks on a drm it holds.
THEOREM DrmSafe ==
    Spec => [](TypeOK /\ MutualExclusion /\ GraphExact)
  <1>1. IInv => TypeOK /\ MutualExclusion /\ GraphExact
    BY DEF IInv, GraphExact
  <1> QED BY <1>1, InitInv, NextInv, PTL DEF Spec

\* The resource allocation graph is exact between any two steps of drm_wait,
\* drm_post, drm_init and drm_destroy, and no thread is let through to a drm it
\* holds.
COROLLARY DrmGraphIsExact == Spec => []GraphExact
  BY DrmSafe, PTL

-----------------------------------------------------------------------------
(* Induction over numbers, as a statement about sets of them.              *)

LEMMA LessThan ==
    \E less : /\ IsWellFoundedOn(less, Nat)
              /\ \A x \in Nat : \A y \in Nat : x < y => <<x, y>> \in less
  <1> DEFINE less == OpToRel(<, Nat)
  <1>1. IsWellFoundedOn(less, Nat)
    BY NatLessThanWellFounded, Zenon
  <1>2. \A x \in Nat : \A y \in Nat : x < y => <<x, y>> \in less
    BY DEF OpToRel
  <1> HIDE DEF less
  <1> QED BY <1>1, <1>2, Zenon

LEMMA MinimalElement ==
    ASSUME NEW Q \in SUBSET Nat, Q # {}, NEW less, IsWellFoundedOn(less, Nat)
    PROVE  \E x \in Q : \A y \in Q : ~(<<y, x>> \in less)
  BY WFMin, Zenon

LEMMA Lowest ==
    ASSUME NEW T, T \subseteq Nat, T # {}
    PROVE  \E i \in T : \A j \in T : i <= j
  <1>1. PICK less : /\ IsWellFoundedOn(less, Nat)
                    /\ \A x \in Nat : \A y \in Nat : x < y => <<x, y>> \in less
    BY LessThan
  <1>2. T \in SUBSET Nat
    OBVIOUS
  <1>3. PICK i \in T : \A j \in T : ~(<<j, i>> \in less)
    BY <1>1, <1>2, MinimalElement
  <1>4. \A j \in T : ~(j < i)
    BY <1>1, <1>2, <1>3
  <1> QED BY <1>2, <1>4

\* A set of numbers that has 0 and with each number the next.
LEMMA Climb ==
    ASSUME NEW T, T \subseteq Nat, 0 \in T, \A i \in T : i + 1 \in T
    PROVE  \A i \in Nat : i \in T
  <1> SUFFICES ASSUME NEW n \in Nat, n \notin T PROVE FALSE
    OBVIOUS
  <1> DEFINE U == Nat \ T
  <1>1. PICK i \in U : \A j \in U : i <= j
    BY Lowest
  <1>2. i # 0 /\ i - 1 \in Nat
    BY <1>1
  <1>3. i - 1 \in T
    BY <1>1, <1>2
  <1> QED BY <1>1, <1>2, <1>3

-----------------------------------------------------------------------------
(* The fold over the neighbours of v: f is the search, acc the answer so   *)
(* far, s the neighbours that have been asked.                             *)

Vertices == Threads \cup Drms
Answers == [found : BOOLEAN, visit : SUBSET Vertices]

AnyOf(s) == CHOOSE u \in s : TRUE
Call(u, v, w) == [at |-> u, prev |-> v, visit |-> w]
Visit(f, u, v, acc) == IF acc.found THEN acc ELSE f[Call(u, v, acc.visit)]
Iterates(it, f, v, base, S) ==
  it = [s \in SUBSET S |-> IF s = {} THEN base
                           ELSE Visit(f, AnyOf(s), v, it[s \ {AnyOf(s)}])]
Folded(f, v, base, S) == (CHOOSE it : Iterates(it, f, v, base, S))[S]

\* it is right about sets of fewer than n elements.
RightBelow(it, n, f, v, base, S) ==
  /\ DOMAIN it = SUBSET S
  /\ \A s \in SUBSET S : Cardinality(s) < n =>
       it[s] = IF s = {} THEN base ELSE Visit(f, AnyOf(s), v, it[s \ {AnyOf(s)}])

LEMMA OneLess ==
    ASSUME NEW S, IsFiniteSet(S), NEW s \in SUBSET S, s # {}
    PROVE  /\ AnyOf(s) \in s /\ s \ {AnyOf(s)} \in SUBSET S
           /\ Cardinality(s) \in Nat /\ Cardinality(s \ {AnyOf(s)}) = Cardinality(s) - 1
  <1>1. AnyOf(s) \in s
    BY DEF AnyOf
  <1>2. IsFiniteSet(s)
    BY FS_Subset
  <1> QED BY <1>1, <1>2, FS_RemoveElement, FS_CardinalityType

LEMMA RightAbove ==
    ASSUME NEW S, IsFiniteSet(S), NEW f, NEW v, NEW base, NEW n \in Nat,
           NEW it, RightBelow(it, n, f, v, base, S)
    PROVE  \E g : RightBelow(g, n + 1, f, v, base, S)
  <1> DEFINE Step(h, s) == IF s = {} THEN base ELSE Visit(f, AnyOf(s), v, h[s \ {AnyOf(s)}])
             g == [s \in SUBSET S |-> Step(it, s)]
  <1>1. ASSUME NEW s \in SUBSET S, Cardinality(s) < n PROVE g[s] = it[s]
    BY <1>1 DEF RightBelow
  <1>2. ASSUME NEW s \in SUBSET S, Cardinality(s) < n + 1 PROVE g[s] = Step(g, s)
    <2>1. CASE s = {}
      BY <2>1
    <2>2. CASE s # {}
      <3> DEFINE r == s \ {AnyOf(s)}
      <3>1. r \in SUBSET S /\ Cardinality(r) < n
        BY <1>2, <2>2, OneLess
      <3>2. g[r] = it[r]
        BY <1>1, <3>1
      <3> HIDE DEF g
      <3>3. g[s] = Step(it, s)
        BY DEF g
      <3> QED BY <2>2, <3>2, <3>3
    <2> QED BY <2>1, <2>2
  <1>3. DOMAIN g = SUBSET S
    OBVIOUS
  <1> HIDE DEF g
  <1> QED BY <1>2, <1>3 DEF RightBelow

LEMMA IterationExists ==
    ASSUME NEW S, IsFiniteSet(S), NEW f, NEW v, NEW base
    PROVE  \E it : Iterates(it, f, v, base, S)
  <1> DEFINE T == {n \in Nat : \E it : RightBelow(it, n, f, v, base, S)}
  <1>1. 0 \in T
    <2> DEFINE it == [s \in SUBSET S |-> base]
    <2>1. \A s \in SUBSET S : ~(Cardinality(s) < 0)
      BY FS_Subset, FS_CardinalityType
    <2>2. DOMAIN it = SUBSET S
      OBVIOUS
    <2> HIDE DEF it
    <2>3. RightBelow(it, 0, f, v, base, S)
      BY <2>1, <2>2 DEF RightBelow
    <2> QED BY <2>3
  <1>2. ASSUME NEW n \in T PROVE n + 1 \in T
    BY RightAbove
  <1> DEFINE N == Cardinality(S) + 1
  <1>3. N \in Nat /\ \A s \in SUBSET S : Cardinality(s) < N
    BY FS_Subset, FS_CardinalityType
  <1>4. N \in T
    <2> HIDE DEF N
    <2>1. T \subseteq Nat
      OBVIOUS
    <2> HIDE DEF T
    <2> QED BY <1>1, <1>2, <1>3, <2>1, Climb
  <1> HIDE DEF N
  <1>5. PICK it : RightBelow(it, N, f, v, base, S)
    BY <1>4
  <1> DEFINE g == [s \in SUBSET S |-> it[s]]
  <1>6. /\ \A s \in SUBSET S : g[s] = IF s = {} THEN base ELSE Visit(f, AnyOf(s), v, g[s \ {AnyOf(s)}])
        /\ g = [s \in SUBSET S |-> g[s]]
    BY <1>3, <1>5 DEF RightBelow
  <1> HIDE DEF g
  <1>7. Iterates(g, f, v, base, S)
    BY <1>6 DEF Iterates
  <1> QED BY <1>7

\* What holds of the start and is kept by each step holds of the result.
LEMMA FoldKeeps ==
    ASSUME NEW S, IsFiniteSet(S), NEW f, NEW v, NEW base, NEW J, <<{}, base>> \in J,
           \A s \in SUBSET S : s # {} => \A acc :
             <<s \ {AnyOf(s)}, acc>> \in J => <<s, Visit(f, AnyOf(s), v, acc)>> \in J
    PROVE  <<S, Folded(f, v, base, S)>> \in J
  <1> DEFINE it == CHOOSE it : Iterates(it, f, v, base, S)
  <1>1. Iterates(it, f, v, base, S)
    BY IterationExists
  <1> HIDE DEF it
  <1>2. \A s \in SUBSET S : it[s] = IF s = {} THEN base ELSE Visit(f, AnyOf(s), v, it[s \ {AnyOf(s)}])
    BY <1>1 DEF Iterates
  <1> DEFINE T == {n \in Nat : \E s \in SUBSET S : Cardinality(s) = n /\ <<s, it[s]>> \notin J}
  <1>3. T = {}
    <2> SUFFICES ASSUME T # {} PROVE FALSE
      OBVIOUS
    <2>1. T \subseteq Nat
      OBVIOUS
    <2>2. PICK n \in T : \A m \in T : n <= m
      <3> HIDE DEF T
      <3> QED BY <2>1, Lowest
    <2>3. PICK s \in SUBSET S : Cardinality(s) = n /\ <<s, it[s]>> \notin J
      BY <2>2
    <2>4. s # {}
      BY <1>2, <2>3
    <2> DEFINE r == s \ {AnyOf(s)}
    <2>5. r \in SUBSET S /\ Cardinality(r) = n - 1 /\ n - 1 \in Nat
      <3>1. IsFiniteSet(s \ {AnyOf(s)})
        BY FS_Subset, FS_RemoveElement
      <3> QED BY <2>3, <2>4, <3>1, OneLess, FS_CardinalityType
    <2>6. <<r, it[r]>> \in J
      <3> HIDE DEF r
      <3>1. n - 1 \notin T
        BY <2>1, <2>2, <2>5
      <3> QED BY <2>5, <3>1
    <2>7. it[s] = Visit(f, AnyOf(s), v, it[r])
      BY <1>2, <2>4
    <2> QED BY <2>3, <2>4, <2>6, <2>7
  <1>4. <<S, it[S]>> \in J
    <2>1. Cardinality(S) \in Nat /\ S \in SUBSET S
      BY FS_CardinalityType
    <2> QED BY <1>3, <2>1
  <1> QED BY <1>4 DEF Folded, it

-----------------------------------------------------------------------------
(* The search itself: a function of calls, recursive in the set visited.   *)

Left(w) == Cardinality(Vertices \ w)

Found(w) == [found |-> TRUE, visit |-> w]
NotYet(w) == [found |-> FALSE, visit |-> w]

Answer(f, E, c) ==
  IF c.at \in c.visit THEN Found(c.visit)
  ELSE Folded(f, c.at, NotYet(c.visit \cup {c.at}), Follow(E, c.at, c.prev))
Searches(f, E) == f = [c \in Calls |-> Answer(f, E, c)]

\* Functions whose answers have the type, and only add to what is visited.
Grows(f) == \A c \in Calls : f[c] \in Answers /\ c.visit \subseteq f[c].visit

LEMMA CallIs ==
    /\ \A c \in Calls : c.at \in Vertices /\ c.prev \in Vertices /\ c.visit \in SUBSET Vertices
    /\ \A u \in Vertices : \A v \in Vertices : \A w \in SUBSET Vertices :
         /\ Call(u, v, w) \in Calls
         /\ Call(u, v, w).at = u /\ Call(u, v, w).prev = v /\ Call(u, v, w).visit = w
  BY DEF Calls, Call, Vertices

LEMMA FewVertices ==
    /\ IsFiniteSet(Vertices)
    /\ \A w : Left(w) \in Nat
    /\ \A w, y : \A v \in Vertices \ w : w \cup {v} \subseteq y => Left(y) < Left(w)
    /\ \A E, v, prev : Follow(E, v, prev) \subseteq Vertices /\ IsFiniteSet(Follow(E, v, prev))
  <1>1. IsFiniteSet(Vertices)
    BY FiniteAssumption, FS_Union DEF Vertices
  <1>2. ASSUME NEW w PROVE Left(w) \in Nat /\ IsFiniteSet(Vertices \ w)
    <2>1. Vertices \ w \in SUBSET Vertices
      OBVIOUS
    <2>2. IsFiniteSet(Vertices \ w)
      BY <1>1, <2>1, FS_Subset
    <2> QED BY <2>2, FS_CardinalityType DEF Left
  <1>3. ASSUME NEW w, NEW y, NEW v \in Vertices \ w, w \cup {v} \subseteq y PROVE Left(y) < Left(w)
    <2> DEFINE A == Vertices \ y
               B == Vertices \ w
    <2>1. A \in SUBSET B /\ A # B /\ IsFiniteSet(B)
      BY <1>2, <1>3
    <2>2. Cardinality(A) <= Cardinality(B) /\ Cardinality(A) # Cardinality(B)
      <3> HIDE DEF A, B
      <3> QED BY <2>1, FS_Subset
    <2>3. Left(y) <= Left(w) /\ Left(y) # Left(w)
      BY <2>2 DEF Left
    <2>4. Left(y) \in Nat /\ Left(w) \in Nat
      BY <1>2
    <2> HIDE DEF A, B
    <2> QED BY ONLY <2>3, <2>4
  <1>4. ASSUME NEW E, NEW v, NEW prev
        PROVE  Follow(E, v, prev) \subseteq Vertices /\ IsFiniteSet(Follow(E, v, prev))
    <2>1. Follow(E, v, prev) \in SUBSET Vertices
      BY DEF Follow, Neighbors, Vertices
    <2> QED BY <1>1, <2>1, FS_Subset
  <1> QED BY <1>1, <1>2, <1>3, <1>4

LEMMA VisitGrows ==
    ASSUME NEW f, Grows(f), NEW u \in Vertices, NEW v \in Vertices, NEW acc \in Answers
    PROVE  Visit(f, u, v, acc) \in Answers /\ acc.visit \subseteq Visit(f, u, v, acc).visit
  <1> DEFINE c == Call(u, v, acc.visit)
  <1>1. acc.visit \in SUBSET Vertices
    BY DEF Answers
  <1>2. c \in Calls /\ c.visit = acc.visit
    BY <1>1, CallIs
  <1>3. Visit(f, u, v, acc) = acc \/ Visit(f, u, v, acc) = f[c]
    BY DEF Visit
  <1> HIDE DEF c
  <1>4. f[c] \in Answers /\ acc.visit \subseteq f[c].visit
    BY <1>2 DEF Grows
  <1> QED BY <1>3, <1>4

\* A fold with a function that grows, grows.
LEMMA FoldGrows ==
    ASSUME NEW g, Grows(g), NEW v \in Vertices, NEW S, S \subseteq Vertices, IsFiniteSet(S),
           NEW base \in Answers
    PROVE  Folded(g, v, base, S) \in Answers /\ base.visit \subseteq Folded(g, v, base, S).visit
  <1> DEFINE J == {j \in (SUBSET S) \X Answers : base.visit \subseteq j[2].visit}
  <1>1. <<{}, base>> \in J
    OBVIOUS
  <1>2. ASSUME NEW s \in SUBSET S, s # {}, NEW acc, <<s \ {AnyOf(s)}, acc>> \in J
        PROVE  <<s, Visit(g, AnyOf(s), v, acc)>> \in J
    <2>1. AnyOf(s) \in Vertices
      BY <1>2 DEF AnyOf
    <2>2. acc \in Answers /\ base.visit \subseteq acc.visit
      BY <1>2
    <2> QED BY <2>1, <2>2, VisitGrows
  <1> HIDE DEF J
  <1>3. <<S, Folded(g, v, base, S)>> \in J
    BY <1>1, <1>2, FoldKeeps
  <1> QED BY <1>3 DEF J

\* It asks only with sets that have the start's.
AgreeFrom(f, g, v, S, w) ==
  \A u \in S : \A y \in SUBSET Vertices : w \subseteq y => f[Call(u, v, y)] = g[Call(u, v, y)]

LEMMA FoldLocal ==
    ASSUME NEW f, NEW g, Grows(g), NEW v \in Vertices, NEW S, S \subseteq Vertices, IsFiniteSet(S),
           NEW base \in Answers, AgreeFrom(f, g, v, S, base.visit)
    PROVE  Folded(f, v, base, S) = Folded(g, v, base, S)
  <1> DEFINE it == CHOOSE it : Iterates(it, f, v, base, S)
             J == {j \in (SUBSET S) \X Answers : base.visit \subseteq j[2].visit /\ it[j[1]] = j[2]}
  <1>0. Iterates(it, f, v, base, S)
    BY IterationExists
  <1>1. it[S] = Folded(f, v, base, S)
    BY DEF Folded
  <1> HIDE DEF it
  <1>2. \A s \in SUBSET S : it[s] = IF s = {} THEN base ELSE Visit(f, AnyOf(s), v, it[s \ {AnyOf(s)}])
    BY <1>0 DEF Iterates
  <1>3. <<{}, base>> \in J
    BY <1>2
  <1>4. ASSUME NEW s \in SUBSET S, s # {}, NEW acc, <<s \ {AnyOf(s)}, acc>> \in J
        PROVE  <<s, Visit(g, AnyOf(s), v, acc)>> \in J
    <2>1. AnyOf(s) \in S /\ AnyOf(s) \in Vertices
      BY <1>4 DEF AnyOf
    <2>2. acc \in Answers /\ base.visit \subseteq acc.visit /\ it[s \ {AnyOf(s)}] = acc
      BY <1>4
    <2>3. acc.visit \in SUBSET Vertices
      BY <2>2 DEF Answers
    <2>4. Visit(f, AnyOf(s), v, acc) = Visit(g, AnyOf(s), v, acc)
      BY <2>1, <2>2, <2>3 DEF Visit, AgreeFrom
    <2>5. it[s] = Visit(g, AnyOf(s), v, acc)
      BY <1>2, <1>4, <2>2, <2>4
    <2> QED BY <2>1, <2>2, <2>5, VisitGrows
  <1> HIDE DEF J
  <1>5. <<S, Folded(g, v, base, S)>> \in J
    BY <1>3, <1>4, FoldKeeps
  <1> QED BY <1>1, <1>5 DEF J

LEMMA StartsAre ==
    ASSUME NEW w \in SUBSET Vertices
    PROVE  /\ Found(w) \in Answers /\ Found(w).visit = w /\ Found(w).found = TRUE
           /\ NotYet(w) \in Answers /\ NotYet(w).visit = w /\ NotYet(w).found = FALSE
  BY DEF Found, NotYet, Answers

LEMMA AnswerGrows ==
    ASSUME NEW g, Grows(g), NEW E, NEW c \in Calls
    PROVE  Answer(g, E, c) \in Answers /\ c.visit \subseteq Answer(g, E, c).visit
  <1> DEFINE v == c.at
             w == c.visit
             y == w \cup {v}
             S == Follow(E, v, c.prev)
             r == Folded(g, v, NotYet(y), S)
  <1>0. v \in Vertices /\ w \in SUBSET Vertices /\ y \in SUBSET Vertices
    BY CallIs
  <1>1. CASE v \in w
    BY <1>0, <1>1, StartsAre DEF Answer
  <1>2. CASE v \notin w
    <2>1. NotYet(y) \in Answers /\ NotYet(y).visit = y
      BY <1>0, StartsAre
    <2>2. S \subseteq Vertices /\ IsFiniteSet(S)
      BY FewVertices
    <2>3. Answer(g, E, c) = r
      BY <1>2 DEF Answer
    <2>4. r \in Answers /\ NotYet(y).visit \subseteq r.visit
      <3> HIDE DEF S, y, v, w
      <3> QED BY <1>0, <2>1, <2>2, FoldGrows
    <2> HIDE DEF r
    <2> QED BY <2>1, <2>3, <2>4
  <1> QED BY <1>1, <1>2

\* An answer depends on those for larger sets only.
AgreeBelow(f, g, n) == \A c \in Calls : Left(c.visit) < n => f[c] = g[c]

LEMMA AnswerLocal ==
    ASSUME NEW f, NEW g, Grows(g), NEW E, NEW c \in Calls, AgreeBelow(f, g, Left(c.visit))
    PROVE  Answer(f, E, c) = Answer(g, E, c)
  <1> DEFINE v == c.at
             w == c.visit
             y == w \cup {v}
             S == Follow(E, v, c.prev)
  <1>0. v \in Vertices /\ w \in SUBSET Vertices /\ y \in SUBSET Vertices
    BY CallIs
  <1>1. CASE v \in w
    BY <1>1 DEF Answer
  <1>2. CASE v \notin w
    <2>1. NotYet(y) \in Answers /\ NotYet(y).visit = y
      BY <1>0, StartsAre
    <2>2. S \subseteq Vertices /\ IsFiniteSet(S)
      BY FewVertices
    <2>3. \A z \in SUBSET Vertices : y \subseteq z => Left(z) < Left(w)
      BY <1>0, <1>2, FewVertices
    <2>4. /\ Answer(f, E, c) = Folded(f, v, NotYet(y), S)
          /\ Answer(g, E, c) = Folded(g, v, NotYet(y), S)
      BY <1>2 DEF Answer
    <2>5. AgreeFrom(f, g, v, S, NotYet(y).visit)
      <3> HIDE DEF v, y, S
      <3> SUFFICES ASSUME NEW u \in S, NEW z \in SUBSET Vertices, y \subseteq z
                   PROVE  f[Call(u, v, z)] = g[Call(u, v, z)]
        BY <2>1 DEF AgreeFrom
      <3>1. Call(u, v, z) \in Calls /\ Call(u, v, z).visit = z
        BY <1>0, <2>2, CallIs
      <3> QED BY <2>3, <3>1 DEF AgreeBelow
    <2>6. Folded(f, v, NotYet(y), S) = Folded(g, v, NotYet(y), S)
      <3> HIDE DEF S, y, v
      <3> QED BY ONLY <1>0, <2>1, <2>2, <2>5, Grows(g), FoldLocal
    <2> QED BY <2>4, <2>6
  <1> QED BY <1>1, <1>2

\* The search exists, grows, and is the only function with its equation.
AllAnswers(f, E) == [c \in Calls |-> Answer(f, E, c)]
SearchesBelow(f, E, n) == \A c \in Calls : Left(c.visit) < n => f[c] = Answer(f, E, c)

LEMMA SearchesAbove ==
    ASSUME NEW f, Grows(f), NEW E, NEW n \in Nat, SearchesBelow(f, E, n)
    PROVE  Grows(AllAnswers(f, E)) /\ SearchesBelow(AllAnswers(f, E), E, n + 1)
  <1> DEFINE g == AllAnswers(f, E)
  <1>1. \A c \in Calls : g[c] = Answer(f, E, c)
    BY DEF AllAnswers
  <1> HIDE DEF g
  <1>2. Grows(g)
    BY <1>1, AnswerGrows DEF Grows
  <1>3. ASSUME NEW c \in Calls, Left(c.visit) < n + 1
        PROVE  g[c] = Answer(g, E, c)
    <2>1. ASSUME NEW b \in Calls, Left(b.visit) < Left(c.visit)
          PROVE  f[b] = g[b]
      <3>1. Left(b.visit) \in Nat /\ Left(c.visit) \in Nat
        BY FewVertices
      <3>2. Left(b.visit) < n
        BY <1>3, <2>1, <3>1
      <3>3. f[b] = Answer(f, E, b)
        BY <3>2 DEF SearchesBelow
      <3> QED BY <1>1, <3>3
    <2>2. AgreeBelow(g, f, Left(c.visit))
      BY <2>1 DEF AgreeBelow
    <2>3. Answer(g, E, c) = Answer(f, E, c)
      BY <2>2, AnswerLocal
    <2> QED BY <1>1, <2>3
  <1>4. SearchesBelow(g, E, n + 1)
    BY <1>3 DEF SearchesBelow
  <1> QED BY <1>2, <1>4 DEF g

LEMMA SearchExists ==
    ASSUME NEW E
    PROVE  \E f : Grows(f) /\ Searches(f, E)
  <1> DEFINE T == {n \in Nat : \E f : Grows(f) /\ SearchesBelow(f, E, n)}
  <1>1. 0 \in T
    <2> DEFINE f == [c \in Calls |-> Found(c.visit)]
    <2>1. \A c \in Calls : f[c] = Found(c.visit)
      OBVIOUS
    <2> HIDE DEF f
    <2>2. Grows(f)
      <3> SUFFICES ASSUME NEW c \in Calls PROVE f[c] \in Answers /\ c.visit \subseteq f[c].visit
        BY DEF Grows
      <3>1. f[c] = Found(c.visit) /\ c.visit \in SUBSET Vertices
        BY <2>1, CallIs
      <3> QED BY <3>1, StartsAre
    <2>3. SearchesBelow(f, E, 0)
      <3>1. \A w : ~(Left(w) < 0)
        BY FewVertices
      <3> QED BY <3>1 DEF SearchesBelow
    <2> QED BY <2>2, <2>3
  <1>2. ASSUME NEW n \in T PROVE n + 1 \in T
    BY SearchesAbove
  <1> DEFINE N == Left({}) + 1
  <1>3. N \in Nat /\ \A w \in SUBSET Vertices : Left(w) < N
    <2>1. ASSUME NEW w \in SUBSET Vertices PROVE Left(w) <= Left({}) /\ Left(w) \in Nat /\ Left({}) \in Nat
      <3>1. Vertices \ w \in SUBSET Vertices /\ Vertices \ {} = Vertices
        OBVIOUS
      <3>2. Cardinality(Vertices \ w) <= Cardinality(Vertices)
        BY <3>1, FewVertices, FS_Subset
      <3> QED BY <3>1, <3>2, FewVertices DEF Left
    <2>2. Left({}) \in Nat
      BY FewVertices
    <2> QED BY <2>1, <2>2
  <1>4. N \in T
    <2> HIDE DEF N
    <2>1. T \subseteq Nat
      OBVIOUS
    <2> HIDE DEF T
    <2> QED BY <1>1, <1>2, <1>3, <2>1, Climb
  <1> HIDE DEF N
  <1>5. PICK f : Grows(f) /\ SearchesBelow(f, E, N)
    BY <1>4
  <1> DEFINE g == AllAnswers(f, E)
  <1>6. Grows(g) /\ SearchesBelow(g, E, N + 1)
    BY <1>3, <1>5, SearchesAbove
  <1>7. ASSUME NEW c \in Calls PROVE Answer(f, E, c) = Answer(g, E, c)
    <2>1. Left(c.visit) < N + 1
      BY <1>3, FewVertices, CallIs
    <2>2. g[c] = Answer(f, E, c)
      BY DEF AllAnswers
    <2> HIDE DEF g
    <2>3. g[c] = Answer(g, E, c)
      BY <1>6, <2>1 DEF SearchesBelow
    <2> QED BY <2>2, <2>3
  <1>8. Searches(g, E)
    <2>1. g = [c \in Calls |-> Answer(f, E, c)]
      BY DEF AllAnswers
    <2> HIDE DEF g
    <2> QED BY <1>7, <2>1 DEF Searches
  <1> QED BY <1>6, <1>8

\* Induction on the number of vertices not visited yet.
LEMMA SearchInduction ==
    ASSUME NEW K,
           ASSUME NEW c \in Calls, \A b \in Calls : Left(b.visit) < Left(c.visit) => b \in K
           PROVE  c \in K
    PROVE  \A c \in Calls : c \in K
  <1> DEFINE T == {n \in Nat : \E c \in Calls : Left(c.visit) = n /\ c \notin K}
  <1>1. T = {}
    <2> SUFFICES ASSUME T # {} PROVE FALSE
      OBVIOUS
    <2>1. T \subseteq Nat
      OBVIOUS
    <2>2. PICK n \in T : \A m \in T : n <= m
      <3> HIDE DEF T
      <3> QED BY <2>1, Lowest
    <2>3. PICK c \in Calls : Left(c.visit) = n /\ c \notin K
      BY <2>2
    <2>4. ASSUME NEW b \in Calls, Left(b.visit) < Left(c.visit)
          PROVE  b \in K
      <3>1. Left(b.visit) \in Nat /\ Left(c.visit) \in Nat
        BY FewVertices
      <3>2. b \notin K => Left(b.visit) \in T
        BY <3>1
      <3>3. Left(b.visit) \notin T
        <4> HIDE DEF T
        <4> QED BY <2>1, <2>2, <2>3, <2>4, <3>1
      <3> QED BY <3>2, <3>3
    <2> QED BY <2>3, <2>4
  <1>2. \A w : Left(w) \in Nat
    BY FewVertices
  <1> QED BY <1>1, <1>2

Search(E) == CHOOSE f : Searches(f, E)

LEMMA TheSearch ==
    ASSUME NEW E
    PROVE  Grows(Search(E)) /\ \A c \in Calls : Search(E)[c] = Answer(Search(E), E, c)
  <1> DEFINE f == Search(E)
  <1>1. PICK g : Grows(g) /\ Searches(g, E)
    BY SearchExists
  <1>2. Searches(f, E)
    BY <1>1 DEF Search
  <1> HIDE DEF f
  <1>3. \A c \in Calls : f[c] = Answer(f, E, c) /\ g[c] = Answer(g, E, c)
    BY <1>1, <1>2 DEF Searches
  <1> DEFINE K == {c \in Calls : f[c] = g[c]}
  <1>4. ASSUME NEW c \in Calls, \A b \in Calls : Left(b.visit) < Left(c.visit) => b \in K
        PROVE  c \in K
    <2>1. AgreeBelow(f, g, Left(c.visit))
      BY <1>4 DEF AgreeBelow
    <2>2. Answer(f, E, c) = Answer(g, E, c)
      BY <1>1, <2>1, AnswerLocal
    <2> QED BY <1>3, <2>2
  <1>5. \A c \in Calls : c \in K
    <2> HIDE DEF K
    <2> QED BY <1>4, SearchInduction
  <1>6. \A c \in Calls : f[c] = g[c]
    BY <1>5
  <1>7. Grows(f)
    BY <1>1, <1>6 DEF Grows
  <1> QED BY <1>3, <1>7 DEF f

LEMMA TestIsSearch ==
    ASSUME NEW E, NEW d, NEW t
    PROVE  IsCyclic(E, d, t) = Search(E)[Call(t, d, {d})].found
  BY DEF IsCyclic, Search, Searches, Answer, Found, NotYet, Folded, Iterates, Visit, AnyOf, Call,
         FoldSet, MapThenFoldSet

-----------------------------------------------------------------------------
(* The test misses no cycle: where it finds nothing, what it has visited   *)
(* is closed and was entered at one place only.                            *)

\* What the answer r to the call c tells about the vertices it has added.
Searched(E, r, v, prev, w) ==
  /\ v \notin w /\ v \in r.visit
  /\ \A x \in r.visit \ w : /\ Neighbors(E, x) \subseteq r.visit
                            /\ Neighbors(E, x) \cap w \subseteq IF x = v THEN {prev} ELSE {}

\* The answer so far, after the neighbours in s of v.
Asked(E, acc, v, w, s) ==
  /\ w \cup {v} \subseteq acc.visit /\ s \subseteq acc.visit /\ s \cap w = {}
  /\ \A x \in acc.visit \ (w \cup {v}) : /\ Neighbors(E, x) \subseteq acc.visit
                                         /\ Neighbors(E, x) \cap w = {}

LEMMA AskedOne ==
    ASSUME NEW E, NEW acc, NEW v, NEW w, NEW s, NEW u, v \notin w, Asked(E, acc, v, w, s \ {u}),
           NEW r, acc.visit \subseteq r.visit, Searched(E, r, u, v, acc.visit)
    PROVE  Asked(E, r, v, w, s)
  <1>1. w \cup {v} \subseteq acc.visit /\ s \ {u} \subseteq acc.visit /\ (s \ {u}) \cap w = {}
    BY DEF Asked
  <1>2. u \notin acc.visit /\ u \in r.visit
    BY DEF Searched
  <1>3. w \cup {v} \subseteq r.visit /\ s \subseteq r.visit /\ s \cap w = {}
    BY <1>1, <1>2
  <1>4. ASSUME NEW x \in r.visit \ (w \cup {v})
        PROVE  Neighbors(E, x) \subseteq r.visit /\ Neighbors(E, x) \cap w = {}
    <2>1. CASE x \in acc.visit
      BY <1>4, <2>1 DEF Asked
    <2>2. CASE x \notin acc.visit
      <3>1. Neighbors(E, x) \subseteq r.visit /\ Neighbors(E, x) \cap acc.visit \subseteq {v}
        BY <1>4, <2>2 DEF Searched
      <3> QED BY <1>1, <3>1
    <2> QED BY <2>1, <2>2
  <1> QED BY <1>3, <1>4 DEF Asked

LEMMA AskedAll ==
    ASSUME NEW E, NEW r, NEW v, NEW w, NEW prev \in w, v \notin w, Asked(E, r, v, w, Follow(E, v, prev))
    PROVE  Searched(E, r, v, prev, w)
  <1>1. Neighbors(E, v) \subseteq Follow(E, v, prev) \cup {prev}
    BY DEF Follow
  <1>2. v \in r.visit /\ Neighbors(E, v) \subseteq r.visit /\ Neighbors(E, v) \cap w \subseteq {prev}
    BY <1>1 DEF Asked
  <1>3. \A x \in r.visit \ w : x # v => Neighbors(E, x) \subseteq r.visit /\ Neighbors(E, x) \cap w = {}
    BY DEF Asked
  <1> QED BY <1>2, <1>3 DEF Searched

Thorough(E, c) == c.prev \in c.visit => \/ Search(E)[c].found = TRUE
                                        \/ Searched(E, Search(E)[c], c.at, c.prev, c.visit)

LEMMA SearchIsThorough ==
    ASSUME NEW E
    PROVE  \A c \in Calls : Thorough(E, c)
  <1> DEFINE K == {c \in Calls : Thorough(E, c)}
  <1>1. ASSUME NEW c \in Calls, \A b \in Calls : Left(b.visit) < Left(c.visit) => b \in K
        PROVE  Thorough(E, c)
    <2> DEFINE f == Search(E)
               v == c.at
               prev == c.prev
               w == c.visit
               base == NotYet(w \cup {v})
               S == Follow(E, v, prev)
    <2>0. Grows(f) /\ f[c] = Answer(f, E, c)
      BY TheSearch
    <2>1. v \in Vertices /\ prev \in Vertices /\ w \in SUBSET Vertices
      BY CallIs
    <2>2. CASE v \in w
      <3>1. f[c] = Found(w)
        BY <2>0, <2>2 DEF Answer
      <3> HIDE DEF f
      <3> QED BY <2>1, <3>1, StartsAre DEF Thorough, f
    <2>3. CASE v \notin w /\ prev \in w
      <3> DEFINE J == {j \in (SUBSET S) \X Answers :
                         j[2].found = TRUE \/ Asked(E, j[2], v, w, j[1])}
      <3>1. S \subseteq Vertices /\ IsFiniteSet(S)
        BY FewVertices
      <3>2. base \in Answers /\ base.visit = w \cup {v}
        BY <2>1, StartsAre
      <3>3. f[c] = Folded(f, v, base, S)
        BY <2>0, <2>3 DEF Answer
      <3> HIDE DEF S, base, f
      <3>4. <<{}, base>> \in J
        <4>1. Asked(E, base, v, w, {})
          BY <3>2 DEF Asked
        <4> QED BY <3>2, <4>1
      <3>5. ASSUME NEW s \in SUBSET S, s # {}, NEW acc, <<s \ {AnyOf(s)}, acc>> \in J
            PROVE  <<s, Visit(f, AnyOf(s), v, acc)>> \in J
        <4> DEFINE u == AnyOf(s)
                   r == Visit(f, u, v, acc)
                   b == Call(u, v, acc.visit)
        <4>1. u \in s /\ u \in Vertices
          BY <3>1, <3>5 DEF AnyOf
        <4> HIDE DEF u
        <4>2. acc \in Answers /\ (acc.found = TRUE \/ Asked(E, acc, v, w, s \ {u}))
          BY <3>5 DEF u
        <4>3. r \in Answers /\ acc.visit \subseteq r.visit
          BY <2>0, <2>1, <4>1, <4>2, VisitGrows
        <4>4. CASE acc.found = TRUE
          <5>1. r = acc
            BY <4>4 DEF Visit
          <5> HIDE DEF r
          <5> QED BY <4>2, <4>4, <5>1 DEF r, u
        <4>5. CASE acc.found # TRUE
          <5>1. r = f[b] /\ acc.visit \in SUBSET Vertices
            BY <4>2, <4>5 DEF Visit, Answers
          <5>2. b \in Calls /\ b.at = u /\ b.prev = v /\ b.visit = acc.visit
            BY <2>1, <4>1, <5>1, CallIs
          <5>3. Asked(E, acc, v, w, s \ {u})
            BY <4>2, <4>5
          <5>4. w \cup {v} \subseteq acc.visit
            BY <5>3 DEF Asked
          <5> HIDE DEF b, r
          <5>5. Left(b.visit) < Left(w)
            BY <2>1, <2>3, <5>2, <5>4, FewVertices
          <5>6. Thorough(E, b)
            BY <1>1, <5>2, <5>5
          <5>7. r.found = TRUE \/ Searched(E, r, u, v, acc.visit)
            BY <5>1, <5>2, <5>4, <5>6 DEF Thorough, f
          <5>8. r.found = TRUE \/ Asked(E, r, v, w, s)
            BY <2>3, <4>3, <5>3, <5>7, AskedOne
          <5> QED BY <4>3, <5>8 DEF r, u
        <4> QED BY <4>4, <4>5
      <3> HIDE DEF J
      <3>6. <<S, Folded(f, v, base, S)>> \in J
        BY <3>1, <3>4, <3>5, FoldKeeps
      <3>7. f[c].found = TRUE \/ Asked(E, f[c], v, w, S)
        BY <3>3, <3>6 DEF J
      <3>8. f[c].found = TRUE \/ Searched(E, f[c], v, prev, w)
        <4> HIDE DEF v, prev, w
        <4> QED BY <2>3, <3>7, AskedAll DEF S
      <3> QED BY <3>8 DEF Thorough, f
    <2>4. CASE prev \notin w
      BY <2>4 DEF Thorough
    <2> QED BY <2>2, <2>3, <2>4
  <1>2. \A c \in Calls : c \in K
    <2>1. ASSUME NEW c \in Calls, \A b \in Calls : Left(b.visit) < Left(c.visit) => b \in K
          PROVE  c \in K
      BY <1>1, <2>1
    <2> HIDE DEF K
    <2> QED BY <2>1, SearchInduction
  <1> QED BY <1>2

Closed(E, A) == \A x \in A : Neighbors(E, x) \subseteq A
Parted(E, u, v) == \E A \in SUBSET Vertices : u \in A /\ v \notin A /\ Closed(E, A)

LEMMA PartedIs ==
    ASSUME NEW E, NEW u, NEW v
    PROVE  Connected(E, u, v) <=> ~Parted(E, u, v)
  BY DEF Connected, Parted, Closed, Vertices

LEMMA BothWays ==
    ASSUME NEW E, NEW x, NEW y
    PROVE  /\ y \in Neighbors(E, x) <=> y \in Vertices /\ (<<x, y>> \in E \/ <<y, x>> \in E)
           /\ x \in Vertices /\ y \in Neighbors(E, x) => x \in Neighbors(E, y)
  BY DEF Neighbors, Vertices

LEMMA ClosedOutside ==
    ASSUME NEW E, NEW A, Closed(E, A)
    PROVE  Closed(E, Vertices \ A)
  BY BothWays DEF Closed

LEMMA MissesNone ==
    ASSUME NEW E, E \subseteq Drms \X Threads, NEW d \in Drms, NEW t \in Threads, <<d, t>> \notin E,
           Connected(E, d, t)
    PROVE  IsCyclic(E \cup {<<d, t>>}, d, t)
  <1> DEFINE F == E \cup {<<d, t>>}
             c == Call(t, d, {d})
             r == Search(F)[c]
             A == Vertices \ (r.visit \ {d})
  <1>0. d \in Vertices /\ t \in Vertices /\ d # t /\ {d} \in SUBSET Vertices /\ <<t, d>> \notin E
    BY DistinctAssumption DEF Vertices
  <1>1. c \in Calls /\ c.at = t /\ c.prev = d /\ c.visit = {d}
    BY <1>0, CallIs
  <1>2. Thorough(F, c)
    BY <1>1, SearchIsThorough
  <1> HIDE DEF c
  <1>3. ASSUME Searched(F, r, t, d, {d}) PROVE FALSE
    <2> HIDE DEF r
    <2>1. /\ t \in r.visit
          /\ \A x \in r.visit \ {d} : Neighbors(F, x) \subseteq r.visit
          /\ \A x \in r.visit \ {d} : d \in Neighbors(F, x) => x = t
      BY <1>3 DEF Searched
    <2>2. d \in A /\ t \notin A /\ A \in SUBSET Vertices
      BY <1>0, <2>1
    <2>3. \A x : Neighbors(E, x) \subseteq Neighbors(F, x)
      BY BothWays
    <2>4. t \notin Neighbors(E, d)
      BY <1>0, BothWays
    <2> HIDE DEF F
    <2>5. Closed(E, A)
      <3> SUFFICES ASSUME NEW x \in A, NEW y \in Neighbors(E, x), y \notin A PROVE FALSE
        BY DEF Closed
      <3>1. x \in Vertices /\ y \in Vertices /\ y \in r.visit \ {d}
        BY BothWays
      <3>2. x \in Neighbors(F, y) /\ x \in r.visit
        BY <2>1, <2>3, <3>1, BothWays
      <3>3. x = d
        BY <3>2
      <3>4. y = t
        BY <2>1, <3>1, <3>2, <3>3
      <3> QED BY <2>4, <3>3, <3>4
    <2>6. Parted(E, d, t)
      <3> HIDE DEF A
      <3> QED BY <2>2, <2>5 DEF Parted
    <2> QED BY <2>6, PartedIs
  <1>4. r.found = TRUE
    BY <1>1, <1>2, <1>3 DEF Thorough
  <1>5. IsCyclic(F, d, t) = r.found
    BY TestIsSearch DEF c
  <1> QED BY <1>4, <1>5

-----------------------------------------------------------------------------
(* The test finds no cycle where there is none: in a forest the search     *)
(* stays on one side of the edge it came by, and the sides of the edges    *)
(* that it follows do not meet.                                            *)

Cut(E, u, v) == E \ {<<u, v>>, <<v, u>>}
Side(E, u, v) == {x \in Vertices : ~Parted(Cut(E, u, v), u, x)}
Bridges(E) == \A v \in Vertices : \A u \in Neighbors(E, v) : v \notin Side(E, u, v)

LEMMA SideIs ==
    ASSUME NEW E, NEW u \in Vertices, NEW v
    PROVE  /\ u \in Side(E, u, v) /\ Side(E, u, v) \subseteq Vertices
           /\ Closed(Cut(E, u, v), Side(E, u, v))
           /\ \A A \in SUBSET Vertices : u \in A /\ Closed(Cut(E, u, v), A) => Side(E, u, v) \subseteq A
  <1> DEFINE C == Cut(E, u, v)
             S == Side(E, u, v)
  <1>1. u \in S /\ S \subseteq Vertices
    BY DEF Side, Parted
  <1>2. \A A \in SUBSET Vertices : u \in A /\ Closed(C, A) => S \subseteq A
    BY DEF Side, Parted
  <1>3. Closed(C, S)
    <2> SUFFICES ASSUME NEW x \in S, NEW y \in Neighbors(C, x), NEW A \in SUBSET Vertices,
                        u \in A, y \notin A, Closed(C, A)
                 PROVE  FALSE
      <3>1. \A x \in S : \A y \in Neighbors(C, x) : y \in Vertices
        BY BothWays
      <3> QED BY <3>1 DEF Closed, Side, Parted
    <2>1. x \in A
      BY <1>2
    <2> QED BY <2>1 DEF Closed
  <1> QED BY <1>1, <1>2, <1>3

\* An edge away from v is in every cut at v.
LEMMA NotCut ==
    ASSUME NEW E, NEW v, NEW x, NEW y, x # v, y # v, NEW u, NEW w,
           y \in Neighbors(Cut(E, u, v), x) \/ y \in Neighbors(Cut(E, v, u), x)
    PROVE  y \in Neighbors(Cut(E, w, v), x) /\ y \in Neighbors(Cut(E, v, w), x)
  <1>1. y \in Vertices /\ (<<x, y>> \in E \/ <<y, x>> \in E)
    BY BothWays DEF Cut
  <1>2. {<<x, y>>, <<y, x>>} \cap {<<w, v>>, <<v, w>>} = {}
    OBVIOUS
  <1>3. \/ <<x, y>> \in Cut(E, w, v) /\ <<x, y>> \in Cut(E, v, w)
        \/ <<y, x>> \in Cut(E, w, v) /\ <<y, x>> \in Cut(E, v, w)
    BY <1>1, <1>2 DEF Cut
  <1> QED BY <1>1, <1>3, BothWays

\* An edge of v is in the cut of another.
LEMMA OtherEdge ==
    ASSUME NEW E, NEW v \in Vertices, NEW u \in Neighbors(E, v), NEW w, u # w
    PROVE  /\ u \in Vertices
           /\ u \in Neighbors(Cut(E, v, w), v) /\ v \in Neighbors(Cut(E, w, v), u)
  BY BothWays DEF Cut

LEMMA SidesNest ==
    ASSUME NEW E, Bridges(E), NEW v \in Vertices, NEW prev \in Vertices, NEW u \in Follow(E, v, prev)
    PROVE  Side(E, u, v) \subseteq Side(E, v, prev)
  <1> DEFINE A == Side(E, u, v)
             B == Side(E, v, prev)
  <1>1. u \in Neighbors(E, v) /\ u # prev /\ u \in Vertices
    BY BothWays DEF Follow
  <1>2. v \notin A /\ u \in A /\ A \subseteq Vertices /\ Closed(Cut(E, u, v), A)
    BY <1>1, SideIs DEF Bridges
  <1>3. v \in B /\ Closed(Cut(E, v, prev), B)
    BY SideIs
  <1>4. u \in B
    BY <1>1, <1>3, OtherEdge DEF Closed
  <1>5. \A D \in SUBSET Vertices : u \in D /\ Closed(Cut(E, u, v), D) => A \subseteq D
    BY <1>1, SideIs
  <1> HIDE DEF A, B
  <1>6. Closed(Cut(E, u, v), A \cap B)
    <2> SUFFICES ASSUME NEW x \in A \cap B, NEW y \in Neighbors(Cut(E, u, v), x)
                 PROVE  y \in A \cap B
      BY DEF Closed
    <2>1. y \in A /\ x # v /\ y # v
      BY <1>2 DEF Closed
    <2>2. y \in Neighbors(Cut(E, v, prev), x)
      BY <2>1, NotCut
    <2> QED BY <1>3, <2>1, <2>2 DEF Closed
  <1>7. A \subseteq A \cap B
    BY <1>2, <1>4, <1>5, <1>6
  <1> QED BY <1>7 DEF A, B

LEMMA SidesApart ==
    ASSUME NEW E, Bridges(E), NEW v \in Vertices, NEW u \in Neighbors(E, v), NEW w \in Neighbors(E, v),
           u # w
    PROVE  Side(E, u, v) \cap Side(E, w, v) = {}
  <1> DEFINE A == Side(E, u, v)
             B == Side(E, w, v)
  <1>0. u \in Vertices /\ w \in Vertices
    BY BothWays
  <1>1. v \notin A /\ Closed(Cut(E, u, v), A)
    BY <1>0, SideIs DEF Bridges
  <1>2. v \notin B /\ w \in B /\ B \subseteq Vertices /\ Closed(Cut(E, w, v), B)
    BY <1>0, SideIs DEF Bridges
  <1>3. \A D \in SUBSET Vertices : w \in D /\ Closed(Cut(E, w, v), D) => B \subseteq D
    BY <1>0, SideIs
  <1> HIDE DEF A, B
  <1>4. w \notin A
    BY <1>1, OtherEdge DEF Closed
  <1>5. Closed(Cut(E, w, v), B \ A)
    <2> SUFFICES ASSUME NEW x \in B \ A, NEW y \in Neighbors(Cut(E, w, v), x)
                 PROVE  y \in B \ A
      BY DEF Closed
    <2>1. y \in B /\ x # v /\ y # v /\ x \in Vertices
      BY <1>2 DEF Closed
    <2>2. x \in Neighbors(Cut(E, w, v), y)
      BY <2>1, BothWays
    <2>3. x \in Neighbors(Cut(E, u, v), y)
      BY <2>1, <2>2, NotCut
    <2> QED BY <1>1, <2>1, <2>3 DEF Closed
  <1>6. B \subseteq B \ A
    BY <1>2, <1>3, <1>4, <1>5
  <1> QED BY <1>6 DEF A, B

\* The answer so far, after the neighbours in s of v.
Sides(E, s, v) == UNION {Side(E, u, v) : u \in s}
Within(E, acc, v, w, s) == /\ acc.found = FALSE /\ w \cup {v} \subseteq acc.visit
                           /\ acc.visit \subseteq w \cup {v} \cup Sides(E, s, v)

FindsNone(E, c) ==
  c.prev \in Neighbors(E, c.at) /\ c.visit \cap Side(E, c.at, c.prev) = {} =>
    /\ Search(E)[c].found = FALSE
    /\ Search(E)[c].visit \subseteq c.visit \cup Side(E, c.at, c.prev)

LEMMA FoundNone ==
    ASSUME NEW E, Bridges(E)
    PROVE  \A c \in Calls : FindsNone(E, c)
  <1> DEFINE K == {c \in Calls : FindsNone(E, c)}
  <1>1. ASSUME NEW c \in Calls, \A b \in Calls : Left(b.visit) < Left(c.visit) => b \in K
        PROVE  FindsNone(E, c)
    <2> DEFINE f == Search(E)
               v == c.at
               prev == c.prev
               w == c.visit
               B == Side(E, v, prev)
               base == NotYet(w \cup {v})
               S == Follow(E, v, prev)
    <2>0. Grows(f) /\ f[c] = Answer(f, E, c)
      BY TheSearch
    <2>1. v \in Vertices /\ prev \in Vertices /\ w \in SUBSET Vertices
      BY CallIs
    <2>2. SUFFICES ASSUME prev \in Neighbors(E, v), w \cap B = {}
                   PROVE  f[c].found = FALSE /\ f[c].visit \subseteq w \cup B
      BY DEF FindsNone
    <2>3. v \in B
      BY <2>1, SideIs
    <2>4. v \notin w
      BY <2>2, <2>3
    <2>5. S \subseteq Vertices /\ IsFiniteSet(S) /\ S \subseteq Neighbors(E, v)
      BY FewVertices DEF Follow
    <2>6. \A u \in S : /\ Side(E, u, v) \subseteq B /\ v \notin Side(E, u, v)
                       /\ \A x \in S : u # x => Side(E, u, v) \cap Side(E, x, v) = {}
      <3>1. ASSUME NEW u \in S PROVE Side(E, u, v) \subseteq B
        BY <2>1, <3>1, SidesNest
      <3>2. ASSUME NEW u \in S, NEW x \in S, u # x PROVE Side(E, u, v) \cap Side(E, x, v) = {}
        BY <2>1, <2>5, <3>2, SidesApart
      <3> QED BY <2>1, <2>5, <3>1, <3>2 DEF Bridges
    <2>7. base \in Answers /\ base.visit = w \cup {v} /\ base.found = FALSE
      BY <2>1, StartsAre
    <2>8. f[c] = Folded(f, v, base, S)
      BY <2>0, <2>4 DEF Answer
    <2> DEFINE J == {j \in (SUBSET S) \X Answers : Within(E, j[2], v, w, j[1])}
    <2> HIDE DEF S, base, f, B, prev
    <2>9. <<{}, base>> \in J
      BY <2>7 DEF Within
    <2>10. ASSUME NEW s \in SUBSET S, s # {}, NEW acc, <<s \ {AnyOf(s)}, acc>> \in J
           PROVE  <<s, Visit(f, AnyOf(s), v, acc)>> \in J
      <3> DEFINE u == AnyOf(s)
                 r == Visit(f, u, v, acc)
                 b == Call(u, v, acc.visit)
      <3>1. u \in s /\ u \in S /\ u \in Vertices
        BY <2>5, <2>10 DEF AnyOf
      <3> HIDE DEF u
      <3>2. acc \in Answers /\ acc.found = FALSE /\ acc.visit \subseteq w \cup {v} \cup Sides(E, s \ {u}, v)
        BY <2>10 DEF u, Within
      <3>3. r \in Answers /\ acc.visit \subseteq r.visit
        BY <2>0, <2>1, <3>1, <3>2, VisitGrows
      <3>4. r = f[b] /\ acc.visit \in SUBSET Vertices
        BY <3>2 DEF Visit, Answers
      <3>5. b \in Calls /\ b.at = u /\ b.prev = v /\ b.visit = acc.visit
        BY <2>1, <3>1, <3>4, CallIs
      <3>6. w \cup {v} \subseteq acc.visit
        BY <2>10 DEF u, Within
      <3> HIDE DEF b, r
      <3>7. acc.visit \cap Side(E, u, v) = {}
        <4>1. w \cap Side(E, u, v) = {} /\ v \notin Side(E, u, v)
          BY <2>2, <2>6, <3>1
        <4>2. Sides(E, s \ {u}, v) \cap Side(E, u, v) = {}
          BY <2>6, <3>1 DEF Sides
        <4> QED BY <3>2, <4>1, <4>2
      <3>8. Left(b.visit) < Left(w)
        BY <2>1, <2>4, <3>5, <3>6, FewVertices
      <3>9. FindsNone(E, b)
        BY <1>1, <3>5, <3>8
      <3>10. v \in Neighbors(E, u)
        BY <2>1, <2>5, <3>1, BothWays
      <3>11. r.found = FALSE /\ r.visit \subseteq acc.visit \cup Side(E, u, v)
        BY <3>4, <3>5, <3>7, <3>9, <3>10 DEF FindsNone, f
      <3>12. Sides(E, s \ {u}, v) \cup Side(E, u, v) \subseteq Sides(E, s, v)
        BY <3>1 DEF Sides
      <3>13. Within(E, r, v, w, s)
        BY <3>2, <3>3, <3>6, <3>11, <3>12 DEF Within
      <3> QED BY <3>3, <3>13 DEF r, u
    <2> HIDE DEF J
    <2>11. <<S, Folded(f, v, base, S)>> \in J
      BY <2>5, <2>9, <2>10, FoldKeeps
    <2>12. Within(E, f[c], v, w, S)
      BY <2>8, <2>11 DEF J
    <2>13. Sides(E, S, v) \subseteq B
      BY <2>6 DEF Sides
    <2> QED BY <2>3, <2>12, <2>13 DEF Within
  <1>2. ASSUME NEW c \in Calls, \A b \in Calls : Left(b.visit) < Left(c.visit) => b \in K
        PROVE  c \in K
    BY <1>1, <1>2
  <1> HIDE DEF K
  <1>3. \A c \in Calls : c \in K
    BY <1>2, SearchInduction
  <1> QED BY <1>3 DEF K

\* In a forest an edge separates its ends, which is to say that it is a bridge.
LEMMA ForestBridges ==
    ASSUME NEW E, E \subseteq Drms \X Threads, Forest(E)
    PROVE  Bridges(E)
  <1> SUFFICES ASSUME NEW v \in Vertices, NEW u \in Neighbors(E, v)
               PROVE  Parted(Cut(E, u, v), u, v)
    BY DEF Bridges, Side
  <1>0. u \in Vertices
    BY BothWays
  <1>1. ASSUME NEW x, NEW y, <<x, y>> \in E, {x, y} = {u, v} PROVE Parted(Cut(E, u, v), x, y)
    <2>1. <<y, x>> \notin E
      BY <1>1, DistinctAssumption
    <2>2. Cut(E, u, v) = E \ {<<x, y>>}
      BY <1>1, <2>1 DEF Cut
    <2>3. ~Connected(E \ {<<x, y>>}, x, y)
      BY <1>1 DEF Forest
    <2> QED BY <2>2, <2>3, PartedIs
  <1>2. CASE <<u, v>> \in E
    BY <1>1, <1>2
  <1>3. CASE <<v, u>> \in E
    <2>1. PICK A \in SUBSET Vertices : v \in A /\ u \notin A /\ Closed(Cut(E, u, v), A)
      BY <1>1, <1>3 DEF Parted
    <2>2. Vertices \ A \in SUBSET Vertices /\ u \in Vertices \ A /\ v \notin Vertices \ A
      BY <1>0, <2>1
    <2>3. Closed(Cut(E, u, v), Vertices \ A)
      BY <2>1, ClosedOutside
    <2> QED BY <2>2, <2>3 DEF Parted
  <1> QED BY <1>2, <1>3, BothWays

\* A graph stays a forest with an edge between two of its trees.
LEMMA ForestGrows ==
    ASSUME NEW E, E \subseteq Drms \X Threads, Forest(E), NEW d \in Drms, NEW t \in Threads,
           <<d, t>> \notin E, Parted(E, d, t)
    PROVE  Forest(E \cup {<<d, t>>})
  <1> DEFINE F == E \cup {<<d, t>>}
  <1> SUFFICES ASSUME NEW e \in F PROVE Parted(F \ {e}, e[1], e[2])
    BY PartedIs DEF Forest
  <1>1. CASE e = <<d, t>>
    <2>1. F \ {e} = E
      BY <1>1
    <2> QED BY <1>1, <2>1
  <1>2. CASE e \in E
    <2> DEFINE x == e[1]
               y == e[2]
               C == E \ {e}
    <2>1. e = <<x, y>> /\ x \in Vertices /\ y \in Vertices /\ F \ {e} = C \cup {<<d, t>>}
      BY <1>2 DEF Vertices
    <2>2. Parted(C, x, y)
      BY <1>2, PartedIs DEF Forest
    <2>3. PICK A \in SUBSET Vertices : x \in A /\ y \notin A /\ Closed(C, A)
      BY <2>2 DEF Parted
    <2>4. PICK B \in SUBSET Vertices : d \in B /\ t \notin B /\ Closed(E, B)
      BY DEF Parted
    <2>5. x \in B <=> y \in B
      <3>1. <<x, y>> \in E /\ x \in Vertices /\ y \in Vertices
        BY <1>2, <2>1
      <3> HIDE DEF x, y
      <3>2. y \in Neighbors(E, x) /\ x \in Neighbors(E, y)
        BY <3>1, BothWays
      <3> QED BY <2>4, <3>2 DEF Closed
    <2> DEFINE out == Vertices \ B
    <2>6. Closed(C, B) /\ Closed(C, out)
      <3>1. \A z : Neighbors(C, z) \subseteq Neighbors(E, z)
        BY BothWays
      <3>2. Closed(C, B)
        BY <2>4, <3>1 DEF Closed
      <3> QED BY <3>2, ClosedOutside
    <2> HIDE DEF x, y, C, F
    <2>7. \A X, Y : Closed(C, X) /\ Closed(C, Y) => Closed(C, X \cup Y) /\ Closed(C, X \cap Y)
      BY DEF Closed
    <2>8. \A X : Closed(C, X) /\ (d \in X <=> t \in X) => Closed(F \ {e}, X)
      <3> SUFFICES ASSUME NEW X, Closed(C, X), d \in X <=> t \in X, NEW z \in X,
                          NEW s \in Neighbors(F \ {e}, z)
                   PROVE  s \in X
        BY DEF Closed
      <3>1. s \in Vertices /\ (<<z, s>> \in F \ {e} \/ <<s, z>> \in F \ {e})
        BY BothWays
      <3>2. (<<z, s>> \in C \/ <<s, z>> \in C) => s \in Neighbors(C, z)
        BY <3>1, BothWays
      <3>3. s \in Neighbors(C, z) \/ (z = d /\ s = t) \/ (z = t /\ s = d)
        BY <2>1, <3>1, <3>2
      <3> QED BY <3>3 DEF Closed
    <2> DEFINE X == IF x \in B THEN IF d \in A THEN A \cup out ELSE A \cap B
                    ELSE IF t \in A THEN A \cup B ELSE A \cap out
    <2>9. x \in X /\ y \notin X /\ X \in SUBSET Vertices /\ (d \in X <=> t \in X)
      <3>1. d \in Vertices /\ t \in Vertices
        BY DEF Vertices
      <3> QED BY <2>1, <2>3, <2>4, <2>5, <3>1
    <2>10. Closed(C, X)
      <3>1. Closed(C, A \cup out) /\ Closed(C, A \cap B) /\ Closed(C, A \cup B) /\ Closed(C, A \cap out)
        <4> HIDE DEF out
        <4> QED BY <2>3, <2>6, <2>7
      <3> HIDE DEF out
      <3> QED BY <3>1
    <2> HIDE DEF X
    <2>11. Parted(F \ {e}, x, y)
      BY <2>8, <2>9, <2>10 DEF Parted
    <2> QED BY <2>11 DEF x, y, F
  <1> QED BY <1>1, <1>2

LEMMA FindsNoneWrongly ==
    ASSUME NEW E, E \subseteq Drms \X Threads, Forest(E), NEW d \in Drms, NEW t \in Threads,
           <<d, t>> \notin E, Parted(E, d, t)
    PROVE  IsCyclic(E \cup {<<d, t>>}, d, t) = FALSE
  <1> DEFINE F == E \cup {<<d, t>>}
             c == Call(t, d, {d})
  <1>0. d \in Vertices /\ t \in Vertices /\ d # t /\ {d} \in SUBSET Vertices /\ <<t, d>> \notin E
    BY DistinctAssumption DEF Vertices
  <1>1. c \in Calls /\ c.at = t /\ c.prev = d /\ c.visit = {d}
    BY <1>0, CallIs
  <1>2. d \in Neighbors(F, t)
    BY <1>0, BothWays
  <1>3. d \notin Side(F, t, d)
    <2>1. Cut(F, t, d) = E
      BY <1>0 DEF Cut
    <2>2. PICK A \in SUBSET Vertices : d \in A /\ t \notin A /\ Closed(E, A)
      BY DEF Parted
    <2>3. Vertices \ A \in SUBSET Vertices /\ t \in Vertices \ A /\ d \notin Vertices \ A
          /\ Closed(E, Vertices \ A)
      BY <1>0, <2>2, ClosedOutside
    <2>4. Parted(E, t, d)
      BY <2>3 DEF Parted
    <2> QED BY <2>1, <2>4 DEF Side
  <1>4. Forest(F) /\ F \subseteq Drms \X Threads
    BY ForestGrows
  <1>5. Bridges(F)
    <2> HIDE DEF F
    <2> QED BY <1>4, ForestBridges
  <1>6. FindsNone(F, c)
    <2> HIDE DEF F, c
    <2> QED BY <1>1, <1>5, FoundNone
  <1>7. Search(F)[c].found = FALSE
    <2> HIDE DEF F, c
    <2> QED BY <1>1, <1>2, <1>3, <1>6 DEF FindsNone
  <1> QED BY <1>7, TestIsSearch

\* One edge more in a forest: the search finds a cycle when there is one, and
\* only then.
LEMMA TestDecides ==
    ASSUME NEW E, E \subseteq Drms \X Threads, Forest(E), NEW d \in Drms, NEW t \in Threads,
           <<d, t>> \notin E
    PROVE  IsCyclic(E \cup {<<d, t>>}, d, t) <=> Connected(E, d, t)
  <1>1. CASE Connected(E, d, t)
    BY <1>1, MissesNone
  <1>2. CASE ~Connected(E, d, t)
    <2>1. Parted(E, d, t)
      BY <1>2, PartedIs
    <2>2. IsCyclic(E \cup {<<d, t>>}, d, t) = FALSE
      BY <2>1, FindsNoneWrongly
    <2> QED BY <1>2, <2>2
  <1> QED BY <1>1, <1>2

-----------------------------------------------------------------------------
(* The graph while no drm_wait is under way: no drm has two edges, so it   *)
(* falls apart into a star about each thread.                              *)

OneEach(E) == \A d \in Drms : \A t, u \in Threads : <<d, t>> \in E /\ <<d, u>> \in E => t = u

\* A drm is in the star of its holder, or alone.
LEMMA StarsPart ==
    ASSUME NEW E, E \subseteq Drms \X Threads, OneEach(E), NEW d \in Drms, NEW t \in Threads,
           <<d, t>> \notin E
    PROVE  Parted(E, d, t)
  <1>0. d \in Vertices /\ d # t
    BY DistinctAssumption DEF Vertices
  <1>1. ASSUME NEW z, NEW y \in Neighbors(E, z)
        PROVE  (<<z, y>> \in E /\ z \in Drms /\ y \in Threads)
               \/ (<<y, z>> \in E /\ y \in Drms /\ z \in Threads)
    <2>1. <<z, y>> \in E \/ <<y, z>> \in E
      BY <1>1, BothWays
    <2> QED BY <2>1
  <1>2. CASE \E u \in Threads : <<d, u>> \in E
    <2>1. PICK u \in Threads : <<d, u>> \in E
      BY <1>2
    <2> DEFINE A == {u} \cup {x \in Drms : <<x, u>> \in E}
    <2>2. A \in SUBSET Vertices /\ d \in A /\ t \notin A
      BY <2>1, DistinctAssumption DEF Vertices
    <2>3. \A z \in A : \A y \in Neighbors(E, z) : y \in A
      <3> SUFFICES ASSUME NEW z \in A, NEW y \in Neighbors(E, z) PROVE y \in A
        OBVIOUS
      <3>1. CASE <<z, y>> \in E /\ z \in Drms /\ y \in Threads
        <4>1. <<z, u>> \in E
          BY <3>1, DistinctAssumption
        <4> QED BY <3>1, <4>1 DEF OneEach
      <3>2. CASE <<y, z>> \in E /\ y \in Drms /\ z \in Threads
        <4>1. z = u
          BY <3>2, DistinctAssumption
        <4> QED BY <3>2, <4>1
      <3> QED BY <1>1, <3>1, <3>2
    <2> HIDE DEF A
    <2> QED BY <2>2, <2>3 DEF Parted, Closed
  <1>3. CASE \A u \in Threads : <<d, u>> \notin E
    <2>1. \A y : y \notin Neighbors(E, d)
      BY <1>1, <1>3, DistinctAssumption
    <2>2. {d} \in SUBSET Vertices /\ Closed(E, {d})
      BY <1>0, <2>1 DEF Closed
    <2> QED BY <1>0, <2>2 DEF Parted
  <1> QED BY <1>2, <1>3

LEMMA StarsAreTrees ==
    ASSUME NEW E, E \subseteq Drms \X Threads, OneEach(E)
    PROVE  Forest(E)
  <1> SUFFICES ASSUME NEW e \in E PROVE ~Connected(E \ {e}, e[1], e[2])
    BY DEF Forest
  <1> DEFINE d == e[1]
             t == e[2]
             C == E \ {e}
  <1>1. d \in Drms /\ t \in Threads /\ e = <<d, t>> /\ C \subseteq Drms \X Threads
    OBVIOUS
  <1>2. <<d, t>> \notin C /\ OneEach(C)
    BY <1>1 DEF OneEach
  <1> HIDE DEF d, t, C
  <1>3. Parted(C, d, t)
    BY <1>1, <1>2, StarsPart
  <1>4. ~Connected(C, d, t)
    BY <1>3, PartedIs
  <1> QED BY <1>4 DEF d, t, C

\* With the global mutex free the edges are those of the owners.
LEMMA OwnersOnly ==
    ASSUME IInv, mutex = NONE
    PROVE  OneEach(edges)
  <1>1. edges = holds
    BY DEF IInv, GraphMatchesLocks
  <1> QED BY <1>1 DEF IInv, MutualExclusion, OneEach

LEMMA IInvExact == IInv => CycleTestExact
  <1> SUFFICES ASSUME IInv PROVE CycleTestExact
    OBVIOUS
  <1>0. edges \subseteq Drms \X Threads
    BY DEF IInv, TypeOK
  <1>1. ASSUME NEW more \in SUBSET ((Drms \X Threads) \ edges), Forest(edges \cup more),
               NEW d \in Drms, NEW t \in Threads, <<d, t>> \notin edges \cup more
        PROVE  IsCyclic((edges \cup more) \cup {<<d, t>>}, d, t) <=> Connected(edges \cup more, d, t)
    <2> DEFINE E == edges \cup more
    <2>1. E \subseteq Drms \X Threads
      BY <1>0
    <2> HIDE DEF E
    <2>2. Forest(E) /\ <<d, t>> \notin E
      BY <1>1 DEF E
    <2>3. IsCyclic(E \cup {<<d, t>>}, d, t) <=> Connected(E, d, t)
      BY <2>1, <2>2, TestDecides
    <2> QED BY <2>3 DEF E
  <1>2. ASSUME mutex = NONE, NEW d \in Drms, NEW t \in Threads, <<d, t>> \notin edges
        PROVE  ~IsCyclic(edges \cup {<<d, t>>}, d, t)
    <2>1. OneEach(edges)
      BY <1>2, OwnersOnly
    <2>2. Forest(edges) /\ Parted(edges, d, t)
      BY <1>0, <1>2, <2>1, StarsAreTrees, StarsPart
    <2> QED BY <1>0, <1>2, <2>2, FindsNoneWrongly
  <1> HIDE DEF IInv
  <1> QED BY <1>1, <1>2, Zenon DEF CycleTestExact

\* isCyclic is right and is never needed: on any graph without a cycle that has
\* the edges of the moment, one edge more makes it answer 1 exactly when the ends
\* of that edge were connected; and whenever a thread may enter drm_wait it
\* answers 0 for every drm the thread does not have (libdrm.c, lines 87 to 90).
THEOREM CycleTestIsExact == Spec => []CycleTestExact
  <1> QED BY InitInv, NextInv, IInvExact, PTL DEF Spec
=============================================================================
