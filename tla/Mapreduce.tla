------------------------------ MODULE Mapreduce -------------------------------
(***************************************************************************)
(* mapreduce/mapreduce.c: the parent makes one pipe per mapper and one for *)
(* the reducer, forks splitters, mappers and the reducer, and waits for    *)
(* them in a fixed order.  What matters is who holds which end of which    *)
(* pipe, and when: a reader sees the end of its input when the pipe is     *)
(* empty and nobody holds its write end any more, and every child holds    *)
(* all that the parent held at the fork until its exec closes it           *)
(* (O_CLOEXEC).                                                            *)
(*                                                                         *)
(* The programs run are given on the command line.  A splitter writes its  *)
(* lines, a mapper copies line by line, the reducer reads to the end; each *)
(* may also fail at its exec or die at any time.  fork does not fail.      *)
(***************************************************************************)
EXTENDS Naturals, Sequences, FiniteSets

CONSTANTS NumMap,    \* num_map
          Lines,     \* bound: how many lines each splitter has to write
          Capacity,  \* bound: how many lines a pipe holds
          Failing    \* the kinds of children that may fail

VARIABLES step,      \* what the parent does next: its forks, then its waits
          state,     \* each child: "none", "forked", "running", "failing", "exited"
          holds,     \* the pipe ends each process holds
          pipe,      \* the lines in each pipe; pipe 0 is repipe
          written,   \* the number of lines each splitter has written
          line,      \* the line each mapper has read and not yet written
          received,  \* the lines the reducer has read
          failed     \* history: the children that failed, and how

vars == <<step, state, holds, pipe, written, line, received, failed>>

\* Lines 20-23: no run without a mapper.
PipesOK == NumMap \in Nat \ {0}

Indices == 1 .. NumMap
Splitter(i) == <<"splitter", i>>
Mapper(i) == <<"mapper", i>>
Reducer == <<"reducer", 0>>
Parent == <<"parent", 0>>
Children == {Splitter(i) : i \in Indices} \cup {Mapper(i) : i \in Indices} \cup {Reducer}
Rd(i) == <<"read", i>>
Wr(i) == <<"write", i>>
Ends == {Rd(i) : i \in 0 .. NumMap} \cup {Wr(i) : i \in 0 .. NumMap}

\* The ends dup2 gives a child, which survive its exec (lines 47, 64-65, 77).
Kept(p) == CASE p[1] = "splitter" -> {Wr(p[2])}
             [] p[1] = "mapper"   -> {Rd(p[2]), Wr(0)}
             [] p[1] = "reducer"  -> {Rd(0)}

\* MUTANT: the parent keeps repipe's write end open.
ClosedAfterKeepsRepipe(p) == IF p[1] = "splitter" THEN {Wr(p[2])} ELSE {}

\* What the parent closes after forking p (lines 57 and 72).
ClosedAfter(p) == CASE p[1] = "splitter" -> {Wr(p[2])}
                    [] p = Mapper(NumMap) -> {Wr(0)}
                    [] OTHER -> {}

Forks == [k \in 1 .. 2 * NumMap + 1 |->
            IF k <= NumMap THEN Splitter(k)
            ELSE IF k <= 2 * NumMap THEN Mapper(k - NumMap) ELSE Reducer]

\* MUTANT: the parent does not wait for the reducer.
WaitsNoReducer == [k \in 1 .. 2 * NumMap |->
                     IF k % 2 = 1 THEN Splitter((k + 1) \div 2) ELSE Mapper(k \div 2)]

\* Lines 84-103: splitter and mapper in turn, then the reducer.
Waits == [k \in 1 .. 2 * NumMap + 1 |->
            IF k > 2 * NumMap THEN Reducer
            ELSE IF k % 2 = 1 THEN Splitter((k + 1) \div 2) ELSE Mapper(k \div 2)]

Done == step > Len(Forks) + Len(Waits)

\* The pipes are open and nothing has been forked (lines 24-37).
Init == /\ step = 1
        /\ state = [p \in Children |-> "none"]
        /\ holds = [p \in Children \cup {Parent} |-> IF p = Parent THEN Ends ELSE {}]
        /\ pipe = [i \in 0 .. NumMap |-> << >>]
        /\ written = [i \in Indices |-> 0]
        /\ line = [i \in Indices |-> << >>]
        /\ received = {} /\ failed = {}

\* Nobody but the forked child can use a pipe it shares with the parent before
\* the parent has closed its end, so fork and close are one step.
Fork == /\ step <= Len(Forks)
        /\ LET p == Forks[step]
           IN /\ state' = [state EXCEPT ![p] = "forked"]
              /\ holds' = [holds EXCEPT ![p] = holds[Parent],
                                        ![Parent] = @ \ ClosedAfter(p)]
        /\ step' = step + 1
        /\ UNCHANGED <<pipe, written, line, received, failed>>

\* waitpid returns when the child has exited.
Wait == /\ step > Len(Forks) /\ ~Done
        /\ state[Waits[step - Len(Forks)]] = "exited"
        /\ step' = step + 1
        /\ UNCHANGED <<state, holds, pipe, written, line, received, failed>>

\* dup2 and exec.
Exec(p) == /\ state[p] = "forked"
           /\ state' = [state EXCEPT ![p] = "running"]
           /\ holds' = [holds EXCEPT ![p] = Kept(p)]
           /\ UNCHANGED <<step, pipe, written, line, received, failed>>

\* execlp returns: the child goes on with every descriptor still open.
ExecFails(p) == /\ state[p] = "forked" /\ p[1] \in Failing
                /\ state' = [state EXCEPT ![p] = "failing"]
                /\ failed' = failed \cup {<<p, "exec">>}
                /\ UNCHANGED <<step, holds, pipe, written, line, received>>

Gone(p) == /\ state' = [state EXCEPT ![p] = "exited"]
           /\ holds' = [holds EXCEPT ![p] = {}]

Room(i) == Len(pipe[i]) < Capacity
Put(i, x) == pipe' = [pipe EXCEPT ![i] = Append(@, x)]
AtEnd(i) == pipe[i] = << >> /\ \A p \in DOMAIN holds : Wr(i) \notin holds[p]

\* Lines 53-54, 67-68, 80: printf's text goes down the pipe at exit.
FailingExits(p) ==
    /\ state[p] = "failing"
    /\ Gone(p)
    /\ \/ p = Reducer /\ UNCHANGED pipe
       \/ \E i \in 0 .. NumMap : p # Reducer /\ Wr(i) \in Kept(p) /\ Room(i)
                                 /\ Put(i, <<p, "execlpfail">>)
    /\ UNCHANGED <<step, written, line, received, failed>>

\* A child exits early with a nonzero status.
Dies(p) == /\ state[p] = "running" /\ p[1] \in Failing
           /\ Gone(p)
           /\ failed' = failed \cup {<<p, "died">>}
           /\ UNCHANGED <<step, pipe, written, line, received>>

Split(i) == /\ state[Splitter(i)] = "running"
            /\ \/ /\ written[i] < Lines /\ Room(i)
                  /\ Put(i, <<Splitter(i), written[i] + 1>>)
                  /\ written' = [written EXCEPT ![i] = @ + 1]
                  /\ UNCHANGED <<state, holds>>
               \/ /\ written[i] = Lines
                  /\ Gone(Splitter(i))
                  /\ UNCHANGED <<pipe, written>>
            /\ UNCHANGED <<step, line, received, failed>>

Map(i) == /\ state[Mapper(i)] = "running"
          /\ \/ /\ line[i] = << >> /\ pipe[i] # << >>
                /\ line' = [line EXCEPT ![i] = <<Head(pipe[i])>>]
                /\ pipe' = [pipe EXCEPT ![i] = Tail(@)]
                /\ UNCHANGED <<state, holds>>
             \/ /\ line[i] # << >> /\ Room(0)
                /\ Put(0, Head(line[i]))
                /\ line' = [line EXCEPT ![i] = << >>]
                /\ UNCHANGED <<state, holds>>
             \/ /\ line[i] = << >> /\ AtEnd(i)
                /\ Gone(Mapper(i))
                /\ UNCHANGED <<pipe, line>>
          /\ UNCHANGED <<step, written, received, failed>>

Reduce == /\ state[Reducer] = "running"
          /\ \/ /\ pipe[0] # << >>
                /\ received' = received \cup {Head(pipe[0])}
                /\ pipe' = [pipe EXCEPT ![0] = Tail(@)]
                /\ UNCHANGED <<state, holds>>
             \/ /\ AtEnd(0)
                /\ Gone(Reducer)
                /\ UNCHANGED <<pipe, received>>
          /\ UNCHANGED <<step, written, line, failed>>

ParentStep == Fork \/ Wait
ChildStep(p) == \/ Exec(p) \/ ExecFails(p) \/ FailingExits(p)
                \/ p = Reducer /\ Reduce
                \/ \E i \in Indices : \/ p = Splitter(i) /\ Split(i)
                                      \/ p = Mapper(i) /\ Map(i)
Over == Done /\ UNCHANGED vars

Next == ParentStep \/ (\E p \in Children : ChildStep(p) \/ Dies(p)) \/ Over

Spec == Init /\ [][Next]_vars

-----------------------------------------------------------------------------
\* A mapper or the reducer did not read its input to the end.
Broken == \E p \in Children, how \in {"exec", "died"} :
             p[1] # "splitter" /\ <<p, how>> \in failed

\* When mapreduce counts the lines of its output, every line a splitter wrote
\* has gone through its mapper to the reducer (for a splitter that could not be
\* run, the word "execlpfail"): nobody took an empty pipe for its end.
OutputComplete ==
    LET wrote(i) == IF <<Splitter(i), "exec">> \in failed
                    THEN {<<Splitter(i), "execlpfail">>}
                    ELSE {<<Splitter(i), k>> : k \in 1 .. written[i]}
    IN Done /\ ~Broken => received = UNION {wrote(i) : i \in Indices}
=============================================================================
