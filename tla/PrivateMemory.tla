---------------------------- MODULE PrivateMemory -----------------------------
(***************************************************************************)
(* What the memory management unit of ideal_indirection promises: every    *)
(* process has memory of its own, zero at first, in which a page holds     *)
(* what was last written to it.  An access outside the segments or against *)
(* their permissions changes nothing.                                      *)
(***************************************************************************)
CONSTANTS Pids, Pages, Values, Zero, NoProcess,
          Readable, Writable   \* the pages that may be read, and written

VARIABLES contents,  \* each process's pages, or NoProcess
          answer     \* of the last access: <<"value", v>>, <<"done">> or <<"segfault">>

mvars == <<contents, answer>>

MemoryInit == contents = [p \in Pids |-> NoProcess] /\ answer = <<"none">>

AddProcess(p) == /\ contents[p] = NoProcess
                 /\ contents' = [contents EXCEPT ![p] = [g \in Pages |-> Zero]]
                 /\ UNCHANGED answer

RemoveProcess(p) == /\ contents' = [contents EXCEPT ![p] = NoProcess]
                    /\ UNCHANGED answer

Read(p, g) == /\ contents[p] # NoProcess
              /\ answer' = IF g \in Readable THEN <<"value", contents[p][g]>> ELSE <<"segfault">>
              /\ UNCHANGED contents

Write(p, g, v) == /\ contents[p] # NoProcess
                  /\ answer' = IF g \in Writable THEN <<"done">> ELSE <<"segfault">>
                  /\ contents' = IF g \in Writable
                                 THEN [contents EXCEPT ![p][g] = v] ELSE contents

MemoryNext == \E p \in Pids :
                 \/ AddProcess(p) \/ RemoveProcess(p)
                 \/ \E g \in Pages : Read(p, g) \/ \E v \in Values : Write(p, g, v)

MemorySpec == MemoryInit /\ [][MemoryNext]_mvars
=============================================================================
