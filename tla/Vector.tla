------------------------------- MODULE Vector -------------------------------
(***************************************************************************)
(* vector/vector.c: an array of pointers to copies of the elements the     *)
(* caller passes, reallocated as it grows.  The elements are of a kind     *)
(* whose copies are malloc'd (string, int, ...): the code frees them with  *)
(* free() and not with the vector's destructor, so a shallow vector would  *)
(* free its caller's objects.                                              *)
(*                                                                         *)
(* The calls are those the code permits: positions its asserts accept, no  *)
(* pop_back of an empty vector, and no vector_set of an element to itself, *)
(* which would be freed before it is copied.                               *)
(***************************************************************************)
EXTENDS Integers, Sequences, SequencesExt, Functions

CONSTANTS Values, Default,         \* elements, and the default constructor's
          INITIAL_CAPACITY, GROWTH_FACTOR,
          NULL, JUNK,              \* a cleared slot, and one malloc left as it was
          Address,                 \* where copies are allocated
          MaxSize                  \* bound: the sizes a caller asks for

VARIABLES array,       \* the slots: pointers, NULL or JUNK
          size, capacity,
          objects,     \* the live copies: pointer -> value
          expected     \* what the calls so far should have left in the vector

vars == <<array, size, capacity, objects, expected>>

\* The array grows: GROWTH_FACTOR is 2, line 17.
GrowthOK == /\ GROWTH_FACTOR \in Nat /\ GROWTH_FACTOR > 1
            /\ INITIAL_CAPACITY \in Nat /\ MaxSize \in Nat

\* Lines 82-86.
get_new_capacity(target) ==
  LET grown[c \in 1 .. target * GROWTH_FACTOR] ==
        IF c < target THEN grown[c * GROWTH_FACTOR] ELSE c
  IN  grown[1]

\* vector_create(), lines 97-104.
Init == /\ array = [i \in 1 .. INITIAL_CAPACITY |-> JUNK]
        /\ size = 0 /\ capacity = INITIAL_CAPACITY
        /\ objects = <<>> /\ expected = <<>>

-----------------------------------------------------------------------------
(* The heap of copies: malloc returns any address that is not in use.      *)

Unused(heap) == Address \ DOMAIN heap
Put(heap, p, v) == [q \in DOMAIN heap \cup {p} |-> IF q = p THEN v ELSE heap[q]]
Freed(heap, P) == [q \in DOMAIN heap \ P |-> heap[q]]

\* The pointers of a range of slots (from and to as in the code's loops).
Slots(from, to) == {array[i + 1] : i \in from .. to - 1}

\* A new array of n slots that begins with the pointers of s.
Allocated(n, s) == [i \in 1 .. n |-> IF i <= Len(s) THEN s[i] ELSE JUNK]

-----------------------------------------------------------------------------
\* vector_reserve(), lines 194-205: the array and the capacity it leaves.
\* MUTANT: a request for one slot more than there are is ignored.
ReservedShort(n) == IF n <= capacity + 1 THEN array
                    ELSE Allocated(get_new_capacity(n), SubSeq(array, 1, size))
Reserved(n) == IF n <= capacity THEN array
               ELSE Allocated(get_new_capacity(n), SubSeq(array, 1, size))

vector_reserve(n) == /\ array' = Reserved(n) /\ capacity' = Len(array')
                     /\ UNCHANGED <<size, objects, expected>>

vector_resize(n) ==
  /\ n # size
  /\ \/ /\ n < size
        /\ objects' = Freed(objects, Slots(n, size))
        /\ array' = [i \in DOMAIN array |-> IF i \in n + 1 .. size THEN NULL ELSE array[i]]
     \/ /\ n > size
        /\ \E new \in Injection(size + 1 .. n, Unused(objects)) :
             /\ array' = [i \in DOMAIN Reserved(n) |->
                            IF i \in DOMAIN new THEN new[i] ELSE Reserved(n)[i]]
             /\ objects' = [p \in DOMAIN objects \cup Range(new) |->
                              IF p \in Range(new) THEN Default ELSE objects[p]]
  /\ size' = n /\ capacity' = Len(array')
  /\ expected' = [i \in 1 .. n |-> IF i <= size THEN expected[i] ELSE Default]

vector_set(position, v) ==
  /\ position < size
  /\ LET heap == Freed(objects, {array[position + 1]})
     IN  \E p \in Unused(heap) : /\ objects' = Put(heap, p, v)
                                /\ array' = [array EXCEPT ![position + 1] = p]
  /\ expected' = [expected EXCEPT ![position + 1] = v]
  /\ UNCHANGED <<size, capacity>>

PushBack(v) ==
  /\ size < MaxSize
  /\ \E p \in Unused(objects) : /\ array' = [Reserved(size + 1) EXCEPT ![size + 1] = p]
                               /\ objects' = Put(objects, p, v)
  /\ capacity' = Len(array')
  /\ size' = size + 1

vector_push_back(v) == PushBack(v) /\ expected' = Append(expected, v)

vector_pop_back == /\ size > 0
                   /\ objects' = Freed(objects, Slots(size - 1, size))
                   /\ array' = [array EXCEPT ![size] = NULL]
                   /\ size' = size - 1
                   /\ expected' = Front(expected)
                   /\ UNCHANGED capacity

\* Lines 275-283: the pointers of the new array, the new one at its place.
Shifted(position, p) == InsertAt(SubSeq(array, 1, size), position + 1, p)

\* Behind the end it is a push_back, lines 269-270; else a new array.
vector_insert(position, v) ==
  /\ \/ position >= size /\ PushBack(v)
     \/ /\ position < size /\ size < MaxSize
        /\ \E p \in Unused(objects) :
             /\ array' = Allocated(get_new_capacity(size + 1), Shifted(position, p))
             /\ objects' = Put(objects, p, v)
        /\ capacity' = Len(array')
        /\ size' = size + 1
  /\ expected' = InsertAt(expected, (IF position < size THEN position ELSE size) + 1, v)

\* Lines 294-308: a new array, of the capacity for the size before.
vector_erase(position) ==
  /\ position < size
  /\ objects' = Freed(objects, Slots(position, position + 1))
  /\ array' = Allocated(get_new_capacity(size),
                        RemoveAt(SubSeq(array, 1, size), position + 1))
  /\ capacity' = Len(array')
  /\ size' = size - 1
  /\ expected' = RemoveAt(expected, position + 1)

vector_clear == /\ size > 0
                /\ objects' = Freed(objects, Slots(0, size))
                /\ array' = [i \in DOMAIN array |-> IF i <= size THEN NULL ELSE array[i]]
                /\ size' = 0 /\ expected' = <<>>
                /\ UNCHANGED capacity

\* vector_destroy() and, later, vector_create().
vector_destroy == /\ objects' = Freed(objects, Slots(0, size))
                  /\ array' = [i \in 1 .. INITIAL_CAPACITY |-> JUNK]
                  /\ size' = 0 /\ capacity' = INITIAL_CAPACITY /\ expected' = <<>>

Next == \/ \E n \in 0 .. MaxSize : vector_reserve(n) \/ vector_resize(n)
        \/ \E v \in Values : \/ vector_push_back(v)
                             \/ \E i \in 0 .. MaxSize : vector_set(i, v) \/ vector_insert(i, v)
        \/ \E i \in 0 .. MaxSize : vector_erase(i)
        \/ vector_pop_back \/ vector_clear \/ vector_destroy

Spec == Init /\ [][Next]_vars

-----------------------------------------------------------------------------
\* However calls that grow, shift and shrink the array follow each other, the
\* vector holds what they should have left, in slots it has allocated, each a
\* copy of its own, and every copy it ever made is in a slot or was freed once.
VectorMatches ==
  /\ size <= capacity /\ Len(array) = capacity
  /\ size = Len(expected)
  /\ \A i \in 1 .. size : array[i] \in DOMAIN objects /\ objects[array[i]] = expected[i]
  /\ \A i, j \in 1 .. size : array[i] = array[j] => i = j
  /\ DOMAIN objects = Slots(0, size)
=============================================================================
