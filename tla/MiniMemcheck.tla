---------------------------- MODULE MiniMemcheck ------------------------------
(***************************************************************************)
(* mini_memcheck/mini_memcheck.c: wrappers round malloc, calloc, realloc   *)
(* and free that keep every live block on a singly linked list, newest     *)
(* first, and the totals the leak report is made of.                       *)
(*                                                                         *)
(* Addresses are those of payloads.  The contents of blocks are left out   *)
(* (mini_realloc does not copy them).  A request is one whose size does    *)
(* not overflow size_t.                                                    *)
(***************************************************************************)
EXTENDS Naturals, FiniteSets, FiniteSetsExt

CONSTANTS Address,     \* what malloc can return
          NULL,
          Sizes,       \* the sizes clients ask for
          MaxTotal,    \* bound on total_memory_requested
          MaxInvalid   \* bound on invalid_addresses

\* malloc never returns NULL for a block; a size is a size_t.
RequestsOK == NULL \notin Address /\ Sizes \subseteq Nat

VARIABLES head, total_memory_requested, total_memory_freed, invalid_addresses,
          mem,      \* the live blocks: address |-> [request_size, next]
          owned,    \* history: the blocks clients have |-> the size they asked for
          misused,  \* history: calls with a pointer that no client has
          crashed   \* mini_realloc wrote through a NULL pointer

vars == <<head, total_memory_requested, total_memory_freed, invalid_addresses,
          mem, owned, misused, crashed>>

Init == /\ head = NULL
        /\ total_memory_requested = 0 /\ total_memory_freed = 0 /\ invalid_addresses = 0
        /\ mem = << >> /\ owned = << >> /\ misused = 0 /\ crashed = FALSE

With(f, a, v) == [x \in DOMAIN f \cup {a} |-> IF x = a THEN v ELSE f[x]]
Without(f, a) == [x \in DOMAIN f \ {a} |-> f[x]]

\* A new block goes to the front of the list (lines 27-37, 59-69, 129-139).
Linked(m, h, a, size) == With(m, a, [request_size |-> size, next |-> h])

\* MUTANT: preptr stays behind once it has been set.
FindPreStuck(p) ==
    LET at == DOMAIN mem \cup {NULL}
        walk[x \in at \X at] ==
          IF x[1] = NULL \/ x[1] = p THEN x
          ELSE walk[<<mem[x[1]].next, IF x[2] = NULL THEN head ELSE x[2]>>]
    IN walk[<<head, NULL>>]

\* The loops at lines 87-102 and 148-164: <<ptr, preptr>> where they stop.
Find(p) == LET at == DOMAIN mem \cup {NULL}
               walk[x \in at \X at] ==
                 IF x[1] = NULL \/ x[1] = p THEN x
                 ELSE walk[<<mem[x[1]].next, IF x[2] = NULL THEN head ELSE mem[x[2]].next>>]
           IN walk[<<head, NULL>>]

\* Lines 115-121 and 169-177: the block leaves the list and is freed.
UnlinkedHead(found) == IF found[1] = head THEN mem[head].next ELSE head
Unlinked(found) ==
    Without(IF found[1] = head THEN mem
            ELSE [mem EXCEPT ![found[2]].next = mem[found[1]].next], found[1])

Counted(size) == total_memory_requested + size <= MaxTotal

mini_malloc(size) ==
    /\ Counted(size)
    /\ \/ /\ size > 0
          /\ \E a \in Address \ DOMAIN mem :
               /\ mem' = Linked(mem, head, a, size)
               /\ head' = a
               /\ owned' = With(owned, a, size)
          /\ total_memory_requested' = total_memory_requested + size
       \/ UNCHANGED <<mem, head, owned, total_memory_requested>>  \* size 0, or no memory
    /\ UNCHANGED <<total_memory_freed, invalid_addresses, misused, crashed>>

\* num_elements * element_size bytes, nothing if either is 0.
mini_calloc(num_elements, element_size) == mini_malloc(num_elements * element_size)

Invalid(p) == /\ invalid_addresses < MaxInvalid
              /\ invalid_addresses' = invalid_addresses + 1
              /\ misused' = IF p \in DOMAIN owned THEN misused ELSE misused + 1
              /\ UNCHANGED <<head, total_memory_requested, total_memory_freed, mem, owned, crashed>>

mini_free(p) ==
    LET found == Find(p)
    IN \/ found[1] = NULL /\ Invalid(p)
       \/ /\ found[1] # NULL
          /\ head' = UnlinkedHead(found)
          /\ mem' = Unlinked(found)
          /\ total_memory_freed' = total_memory_freed + mem[p].request_size
          /\ owned' = Without(owned, p)
          /\ UNCHANGED <<total_memory_requested, invalid_addresses, misused, crashed>>

\* Lines 110-140: the old block is freed, a new one allocated.  When malloc
\* fails, line 124 tests the wrong pointer and line 130 writes through NULL.
Resize(found, size) ==
    /\ total_memory_requested' = total_memory_requested +
         (IF mem[found[1]].request_size < size THEN size - mem[found[1]].request_size ELSE 0)
    /\ total_memory_freed' = total_memory_freed +
         (IF mem[found[1]].request_size > size THEN mem[found[1]].request_size - size ELSE 0)
    /\ \/ \E a \in Address \ DOMAIN Unlinked(found) :
            /\ mem' = Linked(Unlinked(found), UnlinkedHead(found), a, size)
            /\ head' = a
            /\ owned' = With(Without(owned, found[1]), a, size)
            /\ UNCHANGED crashed
       \/ /\ crashed' = TRUE
          /\ UNCHANGED <<mem, head, owned>>
    /\ UNCHANGED <<invalid_addresses, misused>>

\* mini_realloc with a payload and a size; without one of them it is
\* mini_malloc or mini_free.
mini_realloc(p, size) ==
    LET found == Find(p)
    IN /\ size > 0 /\ Counted(size)
       /\ \/ found[1] = NULL /\ Invalid(p)
          \/ /\ found[1] # NULL /\ mem[p].request_size = size
             /\ UNCHANGED vars
          \/ /\ found[1] # NULL /\ mem[p].request_size # size
             /\ Resize(found, size)

Next == /\ ~crashed
        /\ \/ \E size \in Sizes : mini_malloc(size)
           \/ \E num, size \in Sizes : mini_calloc(num, size)
           \/ \E p \in Address : mini_free(p)
           \/ \E p \in Address, size \in Sizes : mini_realloc(p, size)

Spec == Init /\ [][Next]_vars

-----------------------------------------------------------------------------
\* The leak report can be trusted after any sequence of calls, on valid, stale
\* and wild pointers: following next from head visits every live block once,
\* each with the size last asked for; requested minus freed is what is live,
\* whatever was grown, shrunk or moved; and exactly the calls with a pointer
\* nobody has are counted invalid.
LedgerExact ==
    LET chain[i \in 0 .. Cardinality(DOMAIN mem)] ==
          IF i = 0 THEN head
          ELSE IF chain[i - 1] = NULL THEN NULL ELSE mem[chain[i - 1]].next
        size(a) == owned[a]
    IN ~crashed =>
         /\ {chain[i] : i \in DOMAIN chain} = DOMAIN mem \cup {NULL}
         /\ chain[Cardinality(DOMAIN mem)] = NULL
         /\ owned = [a \in DOMAIN mem |-> mem[a].request_size]
         /\ total_memory_requested = total_memory_freed + MapThenSumSet(size, DOMAIN owned)
         /\ invalid_addresses = misused
=============================================================================
