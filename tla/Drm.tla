--------------------------------- MODULE Drm ---------------------------------
(***************************************************************************)
(* deadlock_demolition/libdrm.c: mutexes that are meant to refuse a lock   *)
(* that would close a cycle of waiting threads.  One global mutex guards   *)
(* the resource allocation graph, whose only edges go from a drm to a      *)
(* thread that holds it or is about to.                                    *)
(*                                                                         *)
(* Every call runs under the global mutex and is one action, except        *)
(* drm_wait, which locks drm->m with the global mutex still held           *)
(* (libdrm.c:92): it is two, and `mutex' is its holder in between.         *)
(***************************************************************************)
EXTENDS Integers, FiniteSets, FiniteSetsExt

CONSTANTS Threads,  \* the calling threads (their thread_id pointers)
          Drms,     \* the addresses drm_init can return
          NONE

ASSUME DistinctAssumption == /\ Threads \cap Drms = {}
                             /\ NONE \notin Threads \cup Drms
ASSUME FiniteAssumption == IsFiniteSet(Threads) /\ IsFiniteSet(Drms)

VARIABLES verts,    \* the graph's vertices
          edges,    \* its edges <<drm, thread>>
          owner,    \* the thread that holds drm->m, or NONE
          mutex,    \* the thread that holds the global mutex at line 92, or NONE
          target,   \* the drm whose m that thread is locking, or NONE
          holds     \* history: <<drm, thread>>: the thread's drm_wait returned 1
                    \* and no drm_post of its own has returned 1 since

vars == <<verts, edges, owner, mutex, target, holds>>

Init == /\ verts = {} /\ edges = {} /\ holds = {}
        /\ owner = [d \in Drms |-> NONE]
        /\ mutex = NONE /\ target = NONE

-----------------------------------------------------------------------------
(* The cycle test: a depth first search from the thread, edges taken both  *)
(* ways, that starts with the drm visited and never goes straight back.    *)

Neighbors(E, v) == {u \in Threads \cup Drms : <<v, u>> \in E \/ <<u, v>> \in E}

\* MUTANT: the search may go straight back along the edge it came by.
FollowAll(E, v, prev) == Neighbors(E, v)

Follow(E, v, prev) == Neighbors(E, v) \ {prev}

\* A call of the recursive function: at a vertex, come to from prev, with the
\* vertices visited so far.
Calls == [at : Threads \cup Drms, prev : Threads \cup Drms, visit : SUBSET (Threads \cup Drms)]

IsCyclic(E, drm, thread) ==
  LET dfs[c \in Calls] ==
        IF c.at \in c.visit
        THEN [found |-> TRUE, visit |-> c.visit]
        ELSE FoldSet(LAMBDA u, acc : IF acc.found THEN acc
                                     ELSE dfs[[at |-> u, prev |-> c.at, visit |-> acc.visit]],
                     [found |-> FALSE, visit |-> c.visit \cup {c.at}],
                     Follow(E, c.at, c.prev))
  IN dfs[[at |-> thread, prev |-> drm, visit |-> {drm}]].found

-----------------------------------------------------------------------------
DrmInit(d) == /\ mutex = NONE
              /\ d \in Drms \ verts
              /\ verts' = verts \cup {d}
              /\ owner' = [owner EXCEPT ![d] = NONE]
              /\ UNCHANGED <<edges, mutex, target, holds>>

\* MUTANT: the caller's own edge is not looked for.
HasEdgeNever(t, d) == FALSE

HasEdge(t, d) == <<d, t>> \in edges

\* drm_wait up to its pthread_mutex_lock(&drm->m): it returns 0 with the graph
\* as it was, or goes on to the lock with the new edge in the graph.
WaitEnter(t, d) ==
    /\ mutex = NONE
    /\ d \in verts
    /\ verts' = verts \cup {t}
    /\ IF HasEdge(t, d) \/ IsCyclic(edges \cup {<<d, t>>}, d, t)
       THEN UNCHANGED <<edges, mutex, target>>
       ELSE /\ edges' = edges \cup {<<d, t>>}
            /\ mutex' = t
            /\ target' = d
    /\ UNCHANGED <<owner, holds>>

\* The lock is obtained, the global mutex released, and drm_wait returns 1.
WaitLock(t) ==
    /\ mutex = t
    /\ owner[target] = NONE
    /\ owner' = [owner EXCEPT ![target] = t]
    /\ holds' = holds \cup {<<target, t>>}
    /\ mutex' = NONE /\ target' = NONE
    /\ UNCHANGED <<verts, edges>>

\* MUTANT: no graph_adjacent test: any thread's drm_post unlocks.
MayPostAny(t, d) == {d, t} \subseteq verts

MayPost(t, d) == {d, t} \subseteq verts /\ <<d, t>> \in edges

RemoveEdge(t, d) == edges' = edges \ {<<d, t>>}

\* drm_post: returns 1 to a thread with an edge from the drm, 0 to any other.
Post(t, d) ==
    /\ mutex = NONE
    /\ IF MayPost(t, d)
       THEN /\ RemoveEdge(t, d)
            /\ owner' = [owner EXCEPT ![d] = NONE]
            /\ holds' = holds \ {<<d, t>>}
       ELSE UNCHANGED <<edges, owner, holds>>
    /\ UNCHANGED <<verts, mutex, target>>

\* drm_destroy, by a client that knows that no thread holds the drm (to
\* destroy a locked mutex is undefined).
DrmDestroy(d) == /\ mutex = NONE
                 /\ d \in verts \cap Drms
                 /\ \A t \in Threads : <<d, t>> \notin holds
                 /\ verts' = verts \ {d}
                 /\ edges' = {e \in edges : e[1] # d}
                 /\ UNCHANGED <<owner, mutex, target, holds>>

Next == \/ \E d \in Drms : DrmInit(d) \/ DrmDestroy(d)
        \/ \E t \in Threads : \/ WaitLock(t)
                              \/ \E d \in Drms : WaitEnter(t, d) \/ Post(t, d)

Spec == Init /\ [][Next]_vars

-----------------------------------------------------------------------------
\* The graph has only edges from drms to threads among its vertices, and the
\* global mutex is held exactly while a drm_wait is on its way to drm->m.
TypeOK == /\ verts \subseteq Threads \cup Drms
          /\ edges \subseteq (verts \cap Drms) \X (verts \cap Threads)
          /\ owner \in [Drms -> Threads \cup {NONE}]
          /\ mutex \in Threads \cup {NONE}
          /\ target \in (verts \cap Drms) \cup {NONE}
          /\ mutex = NONE <=> target = NONE
          /\ holds \subseteq Drms \X Threads

\* A drm is never held by two clients, going by what drm_wait and drm_post
\* returned to them, and the thread that holds it is the owner of drm->m.
MutualExclusion == \A d \in Drms, t \in Threads : <<d, t>> \in holds <=> owner[d] = t

\* The graph is exact: an edge for every owner, one more for the thread that is
\* locking at line 92, and none left over.
GraphMatchesLocks ==
    edges = holds \cup (IF mutex = NONE THEN {} ELSE {<<target, mutex>>})

\* No thread blocks on a drm it holds itself: pthread_mutex_lock is not
\* recursive, and the cycle test does not look at this edge.
NoSelfDeadlock == mutex # NONE => owner[target] # mutex

\* The books of libdrm agree with the locks: the graph is exact, and on its
\* evidence no thread is let through to a drm it holds.
GraphExact == GraphMatchesLocks /\ NoSelfDeadlock

Connected(E, u, v) ==
    \A S \in SUBSET (Threads \cup Drms) :
       (u \in S /\ \A x \in S : Neighbors(E, x) \subseteq S) => v \in S
Forest(E) == \A e \in E : ~Connected(E \ {e}, e[1], e[2])

\* The cycle test is right, and of no use.  Whatever edges are added to the graph
\* of the moment, as long as they close no cycle: adding one more makes isCyclic
\* answer 1 exactly when its ends were connected already.  But with the global
\* mutex free the graph holds owners only, so a thread that asks for a drm it does
\* not have is never connected to it: lines 87 to 90 of libdrm.c are not reached,
\* and what they should refuse blocks at line 92, with the global mutex held.
CycleTestExact ==
    /\ \A more \in SUBSET ((Drms \X Threads) \ edges) :
         LET E == edges \cup more
         IN  Forest(E) => \A d \in Drms, t \in Threads :
                             <<d, t>> \notin E
                               => (IsCyclic(E \cup {<<d, t>>}, d, t) <=> Connected(E, d, t))
    /\ mutex = NONE =>
         \A d \in verts \cap Drms, t \in Threads :
            <<d, t>> \notin edges => ~IsCyclic(edges \cup {<<d, t>>}, d, t)
=============================================================================
