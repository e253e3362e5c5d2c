---------------------------- MODULE WorkersProofs ----------------------------
(***************************************************************************)
(* Proofs about password_cracker/cracker2.c, for every number of workers,  *)
(* alphabet, input and task: the round protocol of main, the tickets and   *)
(* the barrier; how getSubrange splits the candidates and the workers go   *)
(* through their parts of them; what the summary of a round says.  About   *)
(* mapreduce.c: no line of a mapper is lost on its way through the pipes,  *)
(* whichever process fails.  And about cracker1.c: what the depth first    *)
(* search answers, the way of the strings through the queue, the summary.  *)
(***************************************************************************)
EXTENDS MCWorkers, FiniteSetTheorems, SequenceTheorems, WellFoundedInduction, TLAPS

Working == {"begin", "loop", "hash", "report", "finish"}
Places == Working \cup {"ticket", "barrier", "exited"}

TypeOK ==
    /\ push \in Nat /\ finishthread \in Nat /\ threadexit \in Nat
    /\ eof \in {0, 1}
    /\ info \in Tasks \cup {NULL}
    /\ pc \in [Workers -> Places]
    /\ main \in {"read", "wait", "join", "done"}

\* The workers at a place, and how many there are.
AtPlace(l) == {w \in Workers : pc[w] = l}
Number(l) == Cardinality(AtPlace(l))

\* Between two rounds everybody is back at the top of the loop, and no ticket
\* is left over.
Idle == main = "read" => /\ push = 0 /\ eof = 0
                         /\ \A w \in Workers : pc[w] = "ticket"

\* In a round: as long as the barrier is shut, nobody has left it and there is
\* a ticket for each worker at line 40; once it is open there are no tickets, so
\* that whoever has left cannot take part twice.
InRound == main = "wait" =>
             /\ eof = 0 /\ info # NULL
             /\ finishthread <= N
             /\ finishthread = Number("barrier") + threadexit
             /\ finishthread < N => threadexit = 0 /\ push = Number("ticket")
             /\ finishthread = N => push = 0 /\ \A w \in Workers : pc[w] \in {"ticket", "barrier"}
             /\ \A w \in Workers : pc[w] # "exited"

\* After the last round nobody is in one.
Ending == main \in {"join", "done"} =>
            eof = 1 /\ \A w \in Workers : pc[w] \in {"ticket", "exited"}

\* A candidate has as many letters as are unknown.
Lengths == /\ pwd = [w \in Workers |-> pwd[w]]
           /\ \A w \in Workers : pc[w] \in {"loop", "hash", "report"} =>
                                   Len(pwd[w]) = info.unknown

IInv == TypeOK /\ Idle /\ InRound /\ Ending /\ Lengths
-----------------------------------------------------------------------------
(* The lengths of strings. *)

LEMMA StartStringLength ==
    ASSUME NEW i, NEW n \in Nat
    PROVE  Len(StartString(i, n)) = n
  <1> DEFINE s == StartString(i, n)
             S == {s[j] : j \in 1 .. n}
  <1>1. s = [j \in 1 .. n |-> s[j]]
    BY DEF StartString
  <1>2. s \in [1 .. n -> S]
    BY <1>1
  <1>3. s \in Seq(S)
    BY <1>2, SeqDef
  <1>4. DOMAIN s = 1 .. n /\ DOMAIN s = 1 .. Len(s) /\ Len(s) \in Nat
    BY <1>2, <1>3, LenProperties
  <1> QED BY <1>4

LEMMA IncrementLength ==
    ASSUME NEW p, Len(p) \in Nat
    PROVE  Len(IncrementString(p)) = Len(p)
  BY StartStringLength DEF IncrementString

(* Counting workers. *)
LEMMA FiniteWorkers ==
    /\ IsFiniteSet(Workers) /\ Cardinality(Workers) = N
    /\ \A l : IsFiniteSet(AtPlace(l)) /\ Number(l) \in Nat /\ Number(l) <= N
  <1>1. IsFiniteSet(Workers) /\ Cardinality(Workers) = N
    BY NAssumption, FS_Interval DEF Workers
  <1> SUFFICES ASSUME NEW l
               PROVE  IsFiniteSet(AtPlace(l)) /\ Number(l) \in Nat /\ Number(l) <= N
    BY <1>1
  <1>2. AtPlace(l) \in SUBSET Workers
    BY DEF AtPlace
  <1> QED BY <1>1, <1>2, FS_Subset, FS_CardinalityType DEF Number

LEMMA SomePlaces == Working \subseteq Places /\ {"ticket", "barrier", "exited", "finish"} \subseteq Places
  BY DEF Places, Working

\* A worker that goes from one place to another: what that does to the place it
\* reaches, the place it leaves, and any other.
LEMMA OneMoves ==
    ASSUME TypeOK, NEW w \in Workers, NEW to \in Places, pc' = [pc EXCEPT ![w] = to]
    PROVE  /\ pc' \in [Workers -> Places]
           /\ pc'[w] = to /\ \A v \in Workers \ {w} : pc'[v] = pc[v]
  BY DEF TypeOK

LEMMA OneArrives ==
    ASSUME TypeOK, NEW w \in Workers, NEW to, pc[w] # to, pc'[w] = to,
           \A v \in Workers \ {w} : pc'[v] = pc[v]
    PROVE  Number(to)' = Number(to) + 1
  <1>1. AtPlace(to)' = AtPlace(to) \cup {w} /\ w \notin AtPlace(to)
    BY DEF TypeOK, AtPlace
  <1> QED BY <1>1, FiniteWorkers, FS_AddElement DEF Number

LEMMA OneLeaves ==
    ASSUME TypeOK, NEW w \in Workers, NEW from, pc[w] = from, pc'[w] # from,
           \A v \in Workers \ {w} : pc'[v] = pc[v]
    PROVE  Number(from)' = Number(from) - 1
  <1>1. AtPlace(from)' = AtPlace(from) \ {w} /\ w \in AtPlace(from)
    BY DEF TypeOK, AtPlace
  <1> QED BY <1>1, FiniteWorkers, FS_RemoveElement DEF Number

LEMMA OthersStay ==
    ASSUME TypeOK, NEW w \in Workers, NEW l, pc[w] # l, pc'[w] # l,
           \A v \in Workers \ {w} : pc'[v] = pc[v]
    PROVE  Number(l)' = Number(l)
  <1>1. AtPlace(l)' = AtPlace(l)
    BY DEF TypeOK, AtPlace
  <1> QED BY <1>1 DEF Number

\* Everybody is at one place when all N are, and nobody when none is.
LEMMA AllOrNobody ==
    ASSUME NEW l
    PROVE  /\ Number(l) = N <=> \A w \in Workers : pc[w] = l
           /\ Number(l) = 0 <=> \A w \in Workers : pc[w] # l
  <1>1. Number(l) = 0 <=> AtPlace(l) = {}
    BY FiniteWorkers, FS_EmptySet DEF Number
  <1>2. AtPlace(l) \in SUBSET Workers
    BY DEF AtPlace
  <1>3. Number(l) = N <=> AtPlace(l) = Workers
    BY <1>2, FiniteWorkers, FS_Subset DEF Number
  <1> QED BY <1>1, <1>3 DEF AtPlace

\* The last to finish: all others wait at the barrier.
LEMMA AllButOne ==
    ASSUME NEW l, NEW w \in Workers, Number(l) = N - 1, pc[w] # l
    PROVE  \A v \in Workers \ {w} : pc[v] = l
  <1>1. AtPlace(l) \in SUBSET (Workers \ {w})
    BY DEF AtPlace
  <1>2. IsFiniteSet(Workers \ {w}) /\ Cardinality(Workers \ {w}) = N - 1
    BY FiniteWorkers, FS_RemoveElement
  <1>3. AtPlace(l) = Workers \ {w}
    BY <1>1, <1>2, FS_Subset DEF Number
  <1> QED BY <1>3 DEF AtPlace
-----------------------------------------------------------------------------
LEMMA InitInv == Init => IInv
  <1> SUFFICES ASSUME Init PROVE IInv
    OBVIOUS
  <1>1. TypeOK /\ Idle /\ InRound /\ Ending
    BY DEF Init, TypeOK, Idle, InRound, Ending, Places
  <1>2. Lengths
    BY DEF Init, Lengths
  <1> QED BY <1>1, <1>2 DEF IInv

\* What every step keeps that moves no worker and leaves the round alone.
LEMMA SameRound ==
    ASSUME IInv, UNCHANGED <<push, eof, finishthread, threadexit, info, pc, main, pwd>>
    PROVE  IInv'
  <1> USE DEF IInv
  <1>1. TypeOK' /\ Idle' /\ Ending'
    BY DEF TypeOK, Idle, Ending
  <1>2. \A l : Number(l)' = Number(l)
    BY DEF Number, AtPlace
  <1>3. InRound'
    BY <1>2 DEF InRound
  <1>4. Lengths'
    BY DEF Lengths
  <1> QED BY <1>1, <1>3, <1>4

\* A worker that works is in a round whose barrier is shut.
LEMMA Working1 ==
    ASSUME IInv, NEW w \in Workers, pc[w] \in Working
    PROVE  /\ main = "wait" /\ eof = 0 /\ info \in Tasks /\ finishthread < N
           /\ threadexit = 0 /\ push = Number("ticket") /\ finishthread = Number("barrier")
  <1> USE DEF IInv
  <1>1. main = "wait"
    BY DEF TypeOK, Idle, Ending, Working
  <1>2. finishthread # N
    BY <1>1 DEF InRound, Working
  <1> QED BY <1>1, <1>2, NAssumption, FiniteWorkers DEF TypeOK, InRound

\* A step inside the round of a worker that works, to work on.
LEMMA WorksOn ==
    ASSUME IInv, NEW w \in Workers, NEW to \in Working, pc[w] \in Working, pc[w] # to,
           pc' = [pc EXCEPT ![w] = to],
           UNCHANGED <<push, eof, finishthread, threadexit, info, main>>
    PROVE  TypeOK' /\ Idle' /\ InRound' /\ Ending'
  <1> USE DEF IInv
  <1>1. /\ main = "wait" /\ eof = 0 /\ info \in Tasks /\ finishthread < N
        /\ threadexit = 0 /\ push = Number("ticket") /\ finishthread = Number("barrier")
    BY Working1
  <1>2. /\ pc' \in [Workers -> Places]
        /\ pc'[w] = to /\ \A v \in Workers \ {w} : pc'[v] = pc[v]
    BY OneMoves, SomePlaces
  <1>3. Number("ticket")' = Number("ticket") /\ Number("barrier")' = Number("barrier")
    BY <1>2, OthersStay DEF Working
  <1>4. TypeOK' /\ Idle' /\ Ending'
    BY <1>1, <1>2 DEF TypeOK, Idle, Ending
  <1>5. \A v \in Workers : pc'[v] # "exited"
    BY <1>1 DEF InRound, TypeOK, Working
  <1>6. InRound'
    BY <1>1, <1>3, <1>5, NAssumption, FiniteWorkers DEF InRound, TypeOK
  <1> QED BY <1>4, <1>6

LEMMA TakeTicketInv ==
    ASSUME IInv, NEW w \in Workers, TakeTicket(w)
    PROVE  IInv'
  <1> USE DEF IInv
  <1> DEFINE to == IF eof = 1 THEN "exited" ELSE "begin"
  <1>1. /\ pc[w] = "ticket" /\ push # 0 /\ push' = push - 1
        /\ pc' = [pc EXCEPT ![w] = to]
        /\ UNCHANGED <<eof, finishthread, info, threadexit, main, pwd>>
    BY DEF TakeTicket, Runs, Goto, local, mainVars
  <1>2. main # "read"
    BY <1>1 DEF Idle
  <1>3. to \in Places /\ to \notin {"ticket", "barrier"}
    BY DEF Places, Working
  <1> HIDE DEF to
  <1>4. /\ pc' \in [Workers -> Places]
        /\ pc'[w] = to /\ \A v \in Workers \ {w} : pc'[v] = pc[v]
    BY <1>1, <1>3, OneMoves
  <1>a. Number("ticket")' = Number("ticket") - 1
    BY <1>1, <1>3, <1>4, OneLeaves
  <1>b. Number("barrier")' = Number("barrier")
    BY <1>1, <1>3, <1>4, OthersStay
  <1>5. TypeOK'
    BY <1>1, <1>4 DEF TypeOK
  <1>6. Idle'
    BY <1>1, <1>2 DEF Idle
  <1>7. InRound'
    <2>1. CASE main = "wait"
      <3>1. finishthread < N /\ push = Number("ticket") /\ to = "begin"
        BY <1>1, <2>1, NAssumption DEF InRound, TypeOK, to
      <3>2. \A v \in Workers : pc'[v] # "exited"
        BY <1>1, <2>1, <3>1 DEF InRound, TypeOK
      <3> QED BY <1>1, <1>a, <1>b, <2>1, <3>1, <3>2, NAssumption, FiniteWorkers DEF InRound, TypeOK
    <2>2. CASE main # "wait"
      BY <1>1, <2>2 DEF InRound
    <2> QED BY <2>1, <2>2
  <1>8. Ending'
    BY <1>1 DEF Ending, TypeOK, to
  <1>9. Lengths'
    BY <1>1 DEF to, Lengths, TypeOK
  <1> QED BY <1>5, <1>6, <1>7, <1>8, <1>9

LEMMA BeginInv ==
    ASSUME IInv, NEW w \in Workers, Begin(w)
    PROVE  IInv'
  <1> USE DEF IInv
  <1>1. /\ pc[w] = "begin" /\ pc' = [pc EXCEPT ![w] = "loop"] /\ info # NULL
        /\ pwd' = [pwd EXCEPT ![w] = StartString(StartIdx(info.unknown, w), info.unknown)]
        /\ UNCHANGED <<push, eof, finishthread, threadexit, info, main>>
    BY DEF Begin, Runs, Goto, shared, mainVars
  <1>2. TypeOK' /\ Idle' /\ InRound' /\ Ending'
    BY <1>1, WorksOn DEF Working
  <1>3. Len(StartString(StartIdx(info.unknown, w), info.unknown)) = info.unknown
    BY <1>1, StartStringLength, TaskAssumption DEF TypeOK
  <1>4. Lengths'
    BY <1>1, <1>3 DEF Lengths, TypeOK
  <1> QED BY <1>2, <1>4

LEMMA CheckInv ==
    ASSUME IInv, NEW w \in Workers, Check(w)
    PROVE  IInv'
  <1> USE DEF IInv
  <1>1. /\ pc[w] = "loop" /\ \E to \in {"finish", "hash"} : pc' = [pc EXCEPT ![w] = to]
        /\ UNCHANGED <<push, eof, finishthread, threadexit, info, main, pwd>>
    BY DEF Check, Runs, Goto, shared, mainVars
  <1>2. TypeOK' /\ Idle' /\ InRound' /\ Ending'
    BY <1>1, WorksOn DEF Working
  <1>3. Lengths'
    BY <1>1 DEF Lengths, TypeOK
  <1> QED BY <1>2, <1>3

LEMMA HashInv ==
    ASSUME IInv, NEW w \in Workers, Hash(w)
    PROVE  IInv'
  <1> USE DEF IInv
  <1>1. /\ pc[w] = "hash" /\ \E to \in {"report", "loop"} : pc' = [pc EXCEPT ![w] = to]
        /\ pwd' = pwd \/ pwd' = [pwd EXCEPT ![w] = IncrementString(pwd[w])]
        /\ info # NULL
        /\ UNCHANGED <<push, eof, finishthread, threadexit, info, main>>
    BY DEF Hash, Runs, Goto, shared, mainVars
  <1>2. TypeOK' /\ Idle' /\ InRound' /\ Ending'
    BY <1>1, WorksOn DEF Working
  <1>3. Len(pwd[w]) = info.unknown /\ info.unknown \in Nat
    BY <1>1, TaskAssumption DEF Lengths, TypeOK
  <1>4. Len(IncrementString(pwd[w])) = info.unknown
    BY <1>3, IncrementLength
  <1>5. Lengths'
    BY <1>1, <1>3, <1>4 DEF Lengths, TypeOK
  <1> QED BY <1>2, <1>5

LEMMA ReportInv ==
    ASSUME IInv, NEW w \in Workers, Report(w)
    PROVE  IInv'
  <1> USE DEF IInv
  <1>1. /\ pc[w] = "report" /\ pc' = [pc EXCEPT ![w] = "finish"]
        /\ UNCHANGED <<push, eof, finishthread, threadexit, info, main, pwd>>
    BY DEF Report, Runs, Goto, local, mainVars
  <1>2. TypeOK' /\ Idle' /\ InRound' /\ Ending'
    BY <1>1, WorksOn DEF Working
  <1>3. Lengths'
    BY <1>1 DEF Lengths, TypeOK
  <1> QED BY <1>2, <1>3

LEMMA FinishInv ==
    ASSUME IInv, NEW w \in Workers, Finish(w)
    PROVE  IInv'
  <1> USE DEF IInv
  <1>1. /\ pc[w] = "finish" /\ pc' = [pc EXCEPT ![w] = "barrier"]
        /\ finishthread' = finishthread + 1 /\ finishthread + 1 # N
        /\ UNCHANGED <<push, eof, threadexit, info, main, pwd>>
    BY DEF Finish, Runs, Goto, local, mainVars
  <1>2. /\ main = "wait" /\ eof = 0 /\ info \in Tasks /\ finishthread < N
        /\ threadexit = 0 /\ push = Number("ticket") /\ finishthread = Number("barrier")
    BY <1>1, Working1 DEF Working
  <1>3. /\ pc' \in [Workers -> Places]
        /\ pc'[w] = "barrier" /\ \A v \in Workers \ {w} : pc'[v] = pc[v]
    BY <1>1, OneMoves, SomePlaces
  <1>a. Number("ticket")' = Number("ticket")
    BY <1>1, <1>3, OthersStay
  <1>b. Number("barrier")' = Number("barrier") + 1
    BY <1>1, <1>3, OneArrives
  <1>4. TypeOK' /\ Idle' /\ Ending'
    BY <1>1, <1>2, <1>3 DEF TypeOK, Idle, Ending
  <1>5. \A v \in Workers : pc'[v] # "exited"
    BY <1>1, <1>2 DEF InRound, TypeOK
  <1>6. InRound'
    BY <1>1, <1>2, <1>a, <1>b, <1>5, NAssumption, FiniteWorkers DEF InRound, TypeOK
  <1>7. Lengths'
    BY <1>1 DEF Lengths, TypeOK
  <1> QED BY <1>4, <1>6, <1>7

LEMMA LastToFinishInv ==
    ASSUME IInv, NEW w \in Workers, LastToFinish(w)
    PROVE  IInv'
  <1> USE DEF IInv
  <1>1. /\ pc[w] = "finish" /\ pc' = [pc EXCEPT ![w] = "ticket"]
        /\ finishthread' = finishthread + 1 /\ finishthread + 1 = N
        /\ threadexit' = threadexit + 1
        /\ UNCHANGED <<push, eof, info, main, pwd>>
    BY DEF LastToFinish, Depart, Runs, Goto, local
  <1>2. /\ main = "wait" /\ eof = 0 /\ info \in Tasks /\ finishthread < N
        /\ threadexit = 0 /\ push = Number("ticket") /\ finishthread = Number("barrier")
    BY <1>1, Working1 DEF Working
  <1>3. \A v \in Workers \ {w} : pc[v] = "barrier"
    BY <1>1, <1>2, NAssumption, AllButOne DEF TypeOK
  <1>4. push = 0
    <2>1. \A v \in Workers : pc[v] # "ticket"
      BY <1>1, <1>3
    <2> QED BY <1>2, <2>1, AllOrNobody
  <1>5. /\ pc' \in [Workers -> Places]
        /\ pc'[w] = "ticket" /\ \A v \in Workers \ {w} : pc'[v] = pc[v]
    BY <1>1, OneMoves, SomePlaces
  <1>a. Number("barrier")' = Number("barrier")
    BY <1>1, <1>5, OthersStay
  <1>6. TypeOK' /\ Idle' /\ Ending'
    BY <1>1, <1>2, <1>5 DEF TypeOK, Idle, Ending
  <1>7. \A v \in Workers : pc'[v] \in {"ticket", "barrier"}
    BY <1>1, <1>3 DEF TypeOK
  <1>8. InRound'
    BY <1>1, <1>2, <1>4, <1>a, <1>7, NAssumption, FiniteWorkers DEF InRound, TypeOK
  <1>9. Lengths'
    BY <1>1 DEF Lengths, TypeOK
  <1> QED BY <1>6, <1>8, <1>9

LEMMA BarrierInv ==
    ASSUME IInv, NEW w \in Workers, Barrier(w)
    PROVE  IInv'
  <1> USE DEF IInv
  <1>1. CASE StillWaiting(w)
    <2>1. UNCHANGED <<push, eof, finishthread, threadexit, info, pc, main, pwd>>
      BY <1>1 DEF Barrier, shared, local
    <2> QED BY <2>1, SameRound
  <1>2. CASE ~StillWaiting(w)
    <2>1. /\ pc[w] = "barrier" /\ pc' = [pc EXCEPT ![w] = "ticket"]
          /\ threadexit' = threadexit + 1
          /\ UNCHANGED <<push, eof, finishthread, info, main, pwd>>
      BY <1>2 DEF Barrier, Depart, Runs, Goto, local
    <2>2. main = "wait"
      BY <2>1 DEF TypeOK, Idle, Ending
    <2>3. finishthread = N /\ push = 0
      BY <1>2, <2>2, NAssumption DEF StillWaiting, InRound, TypeOK
    <2>4. /\ pc' \in [Workers -> Places]
          /\ pc'[w] = "ticket" /\ \A v \in Workers \ {w} : pc'[v] = pc[v]
      BY <2>1, OneMoves, SomePlaces
    <2>a. Number("barrier")' = Number("barrier") - 1
      BY <2>1, <2>4, OneLeaves
    <2>5. TypeOK' /\ Idle' /\ Ending'
      BY <2>1, <2>2, <2>4 DEF TypeOK, Idle, Ending
    <2>6. \A v \in Workers : pc'[v] \in {"ticket", "barrier"}
      BY <2>1, <2>2, <2>3 DEF InRound, TypeOK
    <2>7. InRound'
      BY <2>1, <2>2, <2>3, <2>a, <2>6, NAssumption, FiniteWorkers DEF InRound, TypeOK
    <2>8. Lengths'
      BY <2>1 DEF Lengths, TypeOK
    <2> QED BY <2>5, <2>7, <2>8
  <1> QED BY <1>1, <1>2

LEMMA StartRoundInv ==
    ASSUME IInv, NEW k \in Tasks, StartRound(k)
    PROVE  IInv'
  <1> USE DEF IInv
  <1>1. /\ main = "read" /\ main' = "wait" /\ info' = k
        /\ push' = N /\ finishthread' = 0 /\ threadexit' = 0
        /\ UNCHANGED <<eof, pc, pwd>>
    BY DEF StartRound, ResetRound, local
  <1>2. eof = 0 /\ \A w \in Workers : pc[w] = "ticket"
    BY <1>1 DEF Idle
  <1>3. Number("ticket")' = N /\ Number("barrier")' = 0
    <2>1. Number("ticket") = N /\ Number("barrier") = 0
      BY <1>2, AllOrNobody
    <2> QED BY <1>1, <2>1 DEF Number, AtPlace
  <1>4. TypeOK' /\ Idle' /\ Ending'
    BY <1>1, NAssumption DEF TypeOK, Idle, Ending
  <1>5. InRound'
    BY <1>1, <1>2, <1>3, NAssumption, TaskAssumption DEF InRound
  <1>6. Lengths'
    BY <1>1, <1>2 DEF Lengths
  <1> QED BY <1>4, <1>5, <1>6

\* When the last worker has left the barrier all are back at line 40.
LEMMA RoundOverIdle ==
    ASSUME IInv, main = "wait", threadexit = N
    PROVE  push = 0 /\ eof = 0 /\ \A w \in Workers : pc[w] = "ticket"
  <1> USE DEF IInv
  <1>1. finishthread = N /\ Number("barrier") = 0
    BY NAssumption, FiniteWorkers DEF InRound, TypeOK
  <1>2. \A w \in Workers : pc[w] # "barrier"
    BY <1>1, AllOrNobody
  <1> QED BY <1>1, <1>2 DEF InRound

LEMMA EndRoundInv ==
    ASSUME IInv, EndRound
    PROVE  IInv'
  <1> USE DEF IInv
  <1>1. /\ main = "wait" /\ threadexit = N /\ main' = "read" /\ info' = NULL
        /\ UNCHANGED <<push, eof, finishthread, threadexit, pc, pwd>>
    BY DEF EndRound, RoundOver, local
  <1>2. push = 0 /\ eof = 0 /\ \A w \in Workers : pc[w] = "ticket"
    BY <1>1, RoundOverIdle
  <1>3. TypeOK' /\ Idle' /\ InRound' /\ Ending'
    BY <1>1, <1>2 DEF TypeOK, Idle, InRound, Ending
  <1>4. Lengths'
    BY <1>1, <1>2 DEF Lengths
  <1> QED BY <1>3, <1>4

LEMMA EndingInv ==
    ASSUME IInv, EndOfInput \/ Join
    PROVE  IInv'
  <1> USE DEF IInv
  <1>1. CASE EndOfInput
    <2>1. /\ main = "read" /\ main' = "join" /\ eof' = 1 /\ push' = N
          /\ UNCHANGED <<finishthread, threadexit, info, pc, pwd>>
      BY <1>1 DEF EndOfInput, local
    <2>2. \A w \in Workers : pc[w] = "ticket"
      BY <2>1 DEF Idle
    <2> QED BY <2>1, <2>2, NAssumption DEF TypeOK, Idle, InRound, Ending, Lengths
  <1>2. CASE Join
    <2>1. /\ main = "join" /\ main' = "done"
          /\ UNCHANGED <<push, eof, finishthread, threadexit, info, pc, pwd>>
      BY <1>2 DEF Join, shared, local
    <2> QED BY <2>1 DEF TypeOK, Idle, InRound, Ending, Lengths
  <1> QED BY <1>1, <1>2

LEMMA NextInv == IInv /\ [Next]_vars => IInv'
  <1> SUFFICES ASSUME IInv, [Next]_vars PROVE IInv'
    OBVIOUS
  <1>1. ASSUME NEW w \in Workers, NoTicket(w) PROVE IInv'
    BY <1>1, SameRound DEF NoTicket, shared, local, mainVars
  <1>2. CASE MainSleepsOn \/ Spurious \/ UNCHANGED vars
    BY <1>2, SameRound DEF MainSleepsOn, Spurious, shared, local, vars, mainVars
  <1>3. CASE MainStep
    BY <1>2, <1>3, StartRoundInv, EndRoundInv, EndingInv DEF MainStep
  <1>4. ASSUME NEW w \in Workers, WorkerStep(w) PROVE IInv'
    BY <1>1, <1>4, TakeTicketInv, BeginInv, CheckInv, HashInv, ReportInv,
       LastToFinishInv, FinishInv, BarrierInv DEF WorkerStep
  <1> QED BY <1>2, <1>3, <1>4 DEF Next, Over

-----------------------------------------------------------------------------
\* cracker2.c hands out its tickets right for every number of workers: a worker
\* that is back at line 40 while others still work takes no second one, and the
\* counters of the barrier say who is where.
THEOREM TicketsExact == Spec => []OneTicketEach
  <1>1. IInv => OneTicketEach
    BY DEF IInv, InRound, OneTicketEach, Number, AtPlace
  <1> QED BY <1>1, InitInv, NextInv, PTL DEF Spec

\* The task main publishes, which lines 52 and 85 of cracker2.c read without the
\* mutex, is neither freed nor exchanged before the last worker is done with it.
THEOREM TaskOutlivesRound == Spec => []InfoOutlivesReaders
  <1>1. IInv => InfoOutlivesReaders
    <2> SUFFICES ASSUME IInv, NEW w \in Workers,
                        pc[w] \in {"begin", "loop", "hash", "report", "finish", "barrier"}
                 PROVE  info # NULL /\ main = "wait" /\ ~RoundOver
      BY DEF IInv, Lengths, InfoOutlivesReaders
    <2>1. main = "wait"
      BY DEF IInv, TypeOK, Idle, Ending
    <2>2. info # NULL
      BY <2>1 DEF IInv, InRound
    <2>3. ~RoundOver
      BY <2>1, RoundOverIdle DEF RoundOver
    <2> QED BY <2>1, <2>2, <2>3
  <1> QED BY <1>1, InitInv, NextInv, PTL DEF Spec
-----------------------------------------------------------------------------
(* Recursive functions of a number: f[0] is a, f[i] is g of i and f[i-1].  *)

LEMMA LessThan ==
    \E less : /\ IsWellFoundedOn(less, Nat)
              /\ \A x \in Nat : \A y \in Nat : x < y => <<x, y>> \in less
  <1> DEFINE less == OpToRel(<, Nat)
  <1>1. IsWellFoundedOn(less, Nat)
    BY NatLessThanWellFounded, Zenon
  <1>2. \A x \in Nat : \A y \in Nat : x < y => <<x, y>> \in less
    BY DEF OpToRel
  <1> HIDE DEF less
  <1> QED BY <1>1, <1>2, Zenon

LEMMA MinimalElement ==
    ASSUME NEW Q \in SUBSET Nat, Q # {}, NEW less, IsWellFoundedOn(less, Nat)
    PROVE  \E x \in Q : \A y \in Q : ~(<<y, x>> \in less)
  BY WFMin, Zenon

LEMMA Lowest ==
    ASSUME NEW T, T \subseteq Nat, T # {}
    PROVE  \E i \in T : \A j \in T : i <= j
  <1>1. PICK less : /\ IsWellFoundedOn(less, Nat)
                    /\ \A x \in Nat : \A y \in Nat : x < y => <<x, y>> \in less
    BY LessThan
  <1>2. T \in SUBSET Nat
    OBVIOUS
  <1>3. PICK i \in T : \A j \in T : ~(<<j, i>> \in less)
    BY <1>1, <1>2, MinimalElement
  <1>4. \A j \in T : ~(j < i)
    BY <1>1, <1>2, <1>3
  <1> QED BY <1>2, <1>4

\* Induction, for a set of numbers: T has 0, and with i also i + 1, up to n.
Climbs(T, n) == 0 \in T /\ \A i \in 1 .. n : i - 1 \in T => i \in T

LEMMA Climb ==
    ASSUME NEW n \in Nat, NEW T, Climbs(T, n)
    PROVE  \A i \in 0 .. n : i \in T
  <1> DEFINE M == {i \in 0 .. n : i \notin T}
  <1>1. ASSUME M # {} PROVE FALSE
    <2>1. M \subseteq Nat
      OBVIOUS
    <2>2. PICK i \in M : \A j \in M : i <= j
      <3> HIDE DEF M
      <3> QED BY <1>1, <2>1, Lowest
    <2>3. i \in 0 .. n /\ i # 0 /\ i \notin T
      BY <2>2 DEF Climbs
    <2>4. i \in 1 .. n /\ i - 1 \in 0 .. n /\ ~(i <= i - 1)
      BY <2>3
    <2>5. i - 1 \in T
      BY <2>2, <2>4
    <2> QED BY <2>3, <2>4, <2>5 DEF Climbs
  <1> QED BY <1>1

Rec(f, n, a, g) == f[0] = a /\ \A i \in 1 .. n : f[i] = g[<<i, f[i - 1]>>]

LEMMA RecSame ==
    ASSUME NEW n \in Nat, NEW a, NEW g, NEW f, NEW h, Rec(f, n, a, g), Rec(h, n, a, g)
    PROVE  \A i \in 0 .. n : f[i] = h[i]
  <1> DEFINE T == {i \in 0 .. n : f[i] = h[i]}
  <1>1. 0 \in T
    BY DEF Rec
  <1>2. ASSUME NEW i \in 1 .. n, i - 1 \in T PROVE i \in T
    <2>1. f[i - 1] = h[i - 1] /\ i \in 0 .. n
      BY <1>2
    <2>2. f[i] = g[<<i, f[i - 1]>>] /\ h[i] = g[<<i, h[i - 1]>>]
      BY DEF Rec
    <2> QED BY <2>1, <2>2
  <1>3. Climbs(T, n)
    BY <1>1, <1>2 DEF Climbs
  <1> HIDE DEF T
  <1>4. \A i \in 0 .. n : i \in T
    BY <1>3, Climb
  <1> QED BY <1>4 DEF T

LEMMA RecShorter ==
    ASSUME NEW n \in Nat, NEW m \in 0 .. n, NEW a, NEW g, NEW f, Rec(f, n, a, g)
    PROVE  Rec(f, m, a, g)
  BY DEF Rec

LEMMA RecExists ==
    ASSUME NEW S, NEW a \in S, NEW g \in [Nat \X S -> S], NEW n \in Nat
    PROVE  \E f \in [0 .. n -> S] : Rec(f, n, a, g)
  <1> DEFINE T == {m \in Nat : \E f \in [0 .. m -> S] : Rec(f, m, a, g)}
  <1>1. 0 \in T
    <2> DEFINE f == [i \in 0 .. 0 |-> a]
    <2>1. f \in [0 .. 0 -> S] /\ Rec(f, 0, a, g)
      BY DEF Rec
    <2> QED BY <2>1
  <1>2. ASSUME NEW i \in 1 .. n, i - 1 \in T PROVE i \in T
    <2>0. i \in Nat /\ i - 1 \in Nat
      OBVIOUS
    <2>1. PICK f \in [0 .. i - 1 -> S] : Rec(f, i - 1, a, g)
      BY <1>2
    <2> DEFINE y == g[<<i, f[i - 1]>>]
               h == [j \in 0 .. i |-> IF j = i THEN y ELSE f[j]]
    <2>2. f[i - 1] \in S
      BY <2>0, <2>1
    <2>3. y \in S
      BY <2>0, <2>2
    <2>4. h[i] = y /\ \A j \in 0 .. i - 1 : h[j] = f[j]
      BY <2>0
    <2>5. h \in [0 .. i -> S]
      BY <2>0, <2>1, <2>3
    <2> HIDE DEF h, y
    <2>6. h[0] = a
      BY <2>0, <2>1, <2>4 DEF Rec
    <2>7. ASSUME NEW j \in 1 .. i PROVE h[j] = g[<<j, h[j - 1]>>]
      <3>1. j - 1 \in 0 .. i - 1 /\ h[j - 1] = f[j - 1]
        BY <2>0, <2>4
      <3>2. CASE j = i
        BY <2>4, <3>1, <3>2 DEF y
      <3>3. CASE j # i
        <4>1. j \in 1 .. i - 1 /\ j \in 0 .. i - 1
          BY <2>0, <3>3
        <4>2. f[j] = g[<<j, f[j - 1]>>]
          BY <2>1, <4>1 DEF Rec
        <4> QED BY <2>4, <3>1, <4>1, <4>2
      <3> QED BY <3>2, <3>3
    <2>8. Rec(h, i, a, g)
      BY <2>6, <2>7 DEF Rec
    <2> QED BY <2>0, <2>5, <2>8
  <1>3. Climbs(T, n)
    BY <1>1, <1>2 DEF Climbs
  <1>4. n \in T
    <2> HIDE DEF T
    <2> QED BY <1>3, Climb
  <1> QED BY <1>4

\* The same for all numbers.
LEMMA RecForAll ==
    ASSUME NEW S, NEW a \in S, NEW g \in [Nat \X S -> S]
    PROVE  \E f \in [Nat -> S] : \A n \in Nat : Rec(f, n, a, g)
  <1> DEFINE F(n) == CHOOSE f \in [0 .. n -> S] : Rec(f, n, a, g)
             f == [n \in Nat |-> F(n)[n]]
  <1>1. \A n \in Nat : F(n) \in [0 .. n -> S] /\ Rec(F(n), n, a, g)
    BY RecExists
  <1> HIDE DEF F
  <1>2. \A n \in Nat : f[n] = F(n)[n] /\ F(n)[n] \in S
    BY <1>1
  <1>3. f \in [Nat -> S]
    BY <1>2
  <1> HIDE DEF f
  <1>4. f[0] = a
    BY <1>1, <1>2 DEF Rec
  <1>5. ASSUME NEW i \in Nat, i > 0 PROVE f[i] = g[<<i, f[i - 1]>>]
    <2>0. i - 1 \in Nat /\ i - 1 \in 0 .. i /\ i - 1 \in 0 .. i - 1 /\ i \in 1 .. i
      BY <1>5
    <2>1. F(i)[i] = g[<<i, F(i)[i - 1]>>]
      BY <1>1, <2>0 DEF Rec
    <2>2. Rec(F(i), i - 1, a, g)
      BY <1>1, <2>0, RecShorter
    <2>3. F(i)[i - 1] = F(i - 1)[i - 1]
      BY <1>1, <2>0, <2>2, RecSame
    <2> QED BY <1>2, <2>0, <2>1, <2>3
  <1>6. \A n \in Nat : Rec(f, n, a, g)
    BY <1>4, <1>5 DEF Rec
  <1> QED BY <1>3, <1>6

-----------------------------------------------------------------------------
(* Powers, and numbers written as letters (lines 61-71).                   *)

LEMMA ExpDef == \A n \in Nat : Exp[n] = IF n = 0 THEN 1 ELSE Letters * Exp[n - 1]
  <1> DEFINE g == [x \in Nat \X Nat |-> Letters * x[2]]
             E(f) == f = [n \in Nat |-> IF n = 0 THEN 1 ELSE Letters * f[n - 1]]
  <1>1. g \in [Nat \X Nat -> Nat] /\ 1 \in Nat
    BY LettersAssumption
  <1>2. \A i \in Nat, y \in Nat : g[<<i, y>>] = Letters * y
    OBVIOUS
  <1> HIDE DEF g
  <1>3. PICK f \in [Nat -> Nat] : \A n \in Nat : Rec(f, n, 1, g)
    BY <1>1, RecForAll
  <1>4. ASSUME NEW n \in Nat PROVE f[n] = IF n = 0 THEN 1 ELSE Letters * f[n - 1]
    <2>1. CASE n = 0
      BY <1>3, <2>1 DEF Rec
    <2>2. CASE n # 0
      <3>1. n \in 1 .. n /\ n - 1 \in Nat
        BY <2>2
      <3>2. f[n] = g[<<n, f[n - 1]>>]
        BY <1>3, <3>1 DEF Rec
      <3> QED BY <1>2, <1>3, <2>2, <3>1, <3>2
    <2> QED BY <2>1, <2>2
  <1>5. E(f)
    BY <1>3, <1>4
  <1>6. Exp = CHOOSE h : E(h)
    BY DEF Exp
  <1>7. E(Exp)
    BY <1>5, <1>6
  <1> QED BY <1>7

LEMMA ExpPositive ==
    /\ Exp[0] = 1
    /\ \A n \in Nat : Exp[n] \in Nat /\ Exp[n] > 0
    /\ \A n \in Nat : n > 0 => Exp[n] = Letters * Exp[n - 1]
  <1>1. Exp[0] = 1 /\ \A n \in Nat : n > 0 => Exp[n] = Letters * Exp[n - 1]
    BY ExpDef
  <1>2. ASSUME NEW n \in Nat PROVE Exp[n] \in Nat /\ Exp[n] > 0
    <2> DEFINE T == {i \in Nat : Exp[i] \in Nat /\ Exp[i] > 0}
    <2>1. 0 \in T
      BY <1>1
    <2>2. ASSUME NEW i \in 1 .. n, i - 1 \in T PROVE i \in T
      <3>1. Exp[i - 1] \in Nat /\ Exp[i - 1] > 0 /\ i \in Nat /\ i > 0
        BY <2>2
      <3>2. Exp[i] = Letters * Exp[i - 1]
        BY <1>1, <3>1
      <3>3. \A x \in Nat : x > 0 => Letters * x \in Nat /\ Letters * x > 0
        BY LettersAssumption
      <3> QED BY <3>1, <3>2, <3>3
    <2>3. Climbs(T, n)
      BY <2>1, <2>2 DEF Climbs
    <2>4. n \in T
      <3> HIDE DEF T
      <3> QED BY <2>3, Climb
    <2> QED BY <2>4
  <1> QED BY <1>1, <1>2
LEMMA DivMod ==
    ASSUME NEW x \in Nat, NEW d \in Nat, d > 0
    PROVE  /\ x \div d \in Nat /\ x % d \in Nat /\ x % d < d
           /\ x = d * (x \div d) + (x % d)
  OBVIOUS

LEMMA DivLess ==
    ASSUME NEW x \in Nat, NEW d \in Nat, d > 0, NEW l \in Nat, x < l * d
    PROVE  x \div d < l
  <1> DEFINE y == x \div d
             r == x % d
  <1>1. y \in Nat /\ r \in Nat /\ r < d /\ x = d * y + r
    BY DivMod
  <1> HIDE DEF y, r
  <1>2. ASSUME y >= l PROVE FALSE
    <2>1. d * y >= d * l
      BY <1>1, <1>2
    <2>2. d * l = l * d /\ d * y \in Nat /\ l * d \in Nat
      BY <1>1
    <2> QED BY <1>1, <2>1, <2>2
  <1> QED BY <1>1, <1>2 DEF y

LEMMA DivBack ==
    ASSUME NEW y \in Nat, NEW d \in Nat, NEW r \in Nat, r < d
    PROVE  (y * d + r) \div d = y /\ (y * d + r) % d = r
  <1> DEFINE x == y * d + r
             z == x \div d
             t == x % d
  <1>0. x \in Nat
    OBVIOUS
  <1>1. z \in Nat /\ t \in Nat /\ t < d /\ x = d * z + t
    BY <1>0, DivMod
  <1>2. x = d * y + r
    OBVIOUS
  <1> HIDE DEF x, z, t
  <1>3. ASSUME z > y PROVE FALSE
    <2>1. d * z >= d * (y + 1)
      BY <1>1, <1>3
    <2>2. d * (y + 1) = d * y + d
      OBVIOUS
    <2>3. d * y \in Nat /\ d * z \in Nat
      BY <1>1
    <2> QED BY <1>1, <1>2, <2>1, <2>2, <2>3
  <1>4. ASSUME y > z PROVE FALSE
    <2>1. d * y >= d * (z + 1)
      BY <1>1, <1>4
    <2>2. d * (z + 1) = d * z + d
      BY <1>1
    <2>3. d * y \in Nat /\ d * z \in Nat
      BY <1>1
    <2> QED BY <1>1, <1>2, <2>1, <2>2, <2>3
  <1>5. z = y
    BY <1>1, <1>3, <1>4
  <1>6. t = r
    <2>1. d * y \in Nat
      OBVIOUS
    <2> QED BY <1>1, <1>2, <1>5, <2>1
  <1> QED BY <1>5, <1>6 DEF x, z, t

LEMMA RemainDef ==
    ASSUME NEW u \in Nat, NEW s \in Nat
    PROVE  \E r \in [0 .. u -> Nat] :
             /\ r[0] = s /\ \A i \in 1 .. u : r[i] = r[i - 1] % Exp[u - i]
             /\ StartString(s, u) = [i \in 1 .. u |-> r[i - 1] \div Exp[u - i]]
  <1> DEFINE g == [x \in Nat \X Nat |-> IF x[1] \in 1 .. u THEN x[2] % Exp[u - x[1]] ELSE 0]
             E(f) == f = [i \in 0 .. u |-> IF i = 0 THEN s ELSE f[i - 1] % Exp[u - i]]
             r == CHOOSE f : E(f)
  <1>0. \A i \in 1 .. u : u - i \in Nat /\ i - 1 \in 0 .. u /\ i \in Nat /\ i # 0
    OBVIOUS
  <1>1. \A i \in 1 .. u, y \in Nat : y % Exp[u - i] \in Nat
    BY <1>0, ExpPositive, DivMod
  <1>2. g \in [Nat \X Nat -> Nat]
    BY <1>1
  <1>3. \A i \in 1 .. u, y \in Nat : g[<<i, y>>] = y % Exp[u - i]
    BY <1>0
  <1> HIDE DEF g
  <1>4. PICK f \in [0 .. u -> Nat] : Rec(f, u, s, g)
    BY <1>2, RecExists
  <1>5. ASSUME NEW i \in 0 .. u PROVE f[i] = IF i = 0 THEN s ELSE f[i - 1] % Exp[u - i]
    <2>1. CASE i = 0
      BY <1>4, <2>1 DEF Rec
    <2>2. CASE i # 0
      <3>1. i \in 1 .. u /\ i - 1 \in 0 .. u
        BY <2>2
      <3>2. f[i] = g[<<i, f[i - 1]>>] /\ f[i - 1] \in Nat
        BY <1>4, <3>1 DEF Rec
      <3> QED BY <1>3, <2>2, <3>1, <3>2
    <2> QED BY <2>1, <2>2
  <1>6. E(f)
    BY <1>4, <1>5
  <1>7. E(r)
    BY <1>6
  <1>8. StartString(s, u) = [i \in 1 .. u |-> r[i - 1] \div Exp[u - i]]
    BY DEF StartString
  <1> HIDE DEF r
  <1>9. r[0] = s /\ \A i \in 1 .. u : r[i] = r[i - 1] % Exp[u - i]
    BY <1>0, <1>7
  <1>10. \A i \in 0 .. u : r[i] \in Nat
    <2> DEFINE T == {i \in 0 .. u : r[i] \in Nat}
    <2>1. 0 \in T
      BY <1>9
    <2>2. ASSUME NEW i \in 1 .. u, i - 1 \in T PROVE i \in T
      <3>1. r[i - 1] \in Nat /\ i \in 0 .. u
        BY <2>2
      <3>2. r[i] \in Nat
        BY <1>1, <1>9, <3>1
      <3> QED BY <3>1, <3>2
    <2>3. Climbs(T, u)
      BY <2>1, <2>2 DEF Climbs
    <2> HIDE DEF T
    <2>4. \A i \in 0 .. u : i \in T
      BY <2>3, Climb
    <2> QED BY <2>4 DEF T
  <1>11. r \in [0 .. u -> Nat]
    BY <1>7, <1>10
  <1> QED BY <1>8, <1>9, <1>11

Digits(u) == [1 .. u -> 0 .. Letters - 1]

LEMMA DigitsLength ==
    ASSUME NEW u \in Nat, NEW p \in Digits(u)
    PROVE  Len(p) = u /\ \A i \in 1 .. u : p[i] \in Nat /\ p[i] < Letters
  <1>1. p \in Seq(0 .. Letters - 1)
    BY SeqDef DEF Digits
  <1>2. DOMAIN p = 1 .. u /\ DOMAIN p = 1 .. Len(p) /\ Len(p) \in Nat
    BY <1>1, LenProperties DEF Digits
  <1>3. Len(p) = u
    BY <1>2
  <1> QED BY <1>3, LettersAssumption DEF Digits

LEMMA IndexDef ==
    ASSUME NEW u \in Nat, NEW p \in Digits(u)
    PROVE  \E x \in [0 .. u -> Nat] :
             /\ x[0] = 0 /\ \A i \in 1 .. u : x[i] = x[i - 1] * Letters + p[i]
             /\ IndexOf(p) = x[u]
  <1> DEFINE g == [y \in Nat \X Nat |-> IF y[1] \in 1 .. u THEN y[2] * Letters + p[y[1]] ELSE 0]
             E(f) == f = [i \in 0 .. u |-> IF i = 0 THEN 0 ELSE f[i - 1] * Letters + p[i]]
             x == CHOOSE f : E(f)
  <1>0. \A i \in 1 .. u : i - 1 \in 0 .. u /\ i \in Nat /\ i # 0
    OBVIOUS
  <1>1. \A i \in 1 .. u, y \in Nat : y * Letters + p[i] \in Nat
    BY DigitsLength, LettersAssumption
  <1>2. g \in [Nat \X Nat -> Nat]
    BY <1>1
  <1>3. \A i \in 1 .. u, y \in Nat : g[<<i, y>>] = y * Letters + p[i]
    BY <1>0
  <1> HIDE DEF g
  <1>4. PICK f \in [0 .. u -> Nat] : Rec(f, u, 0, g)
    BY <1>2, RecExists
  <1>5. ASSUME NEW i \in 0 .. u PROVE f[i] = IF i = 0 THEN 0 ELSE f[i - 1] * Letters + p[i]
    <2>1. CASE i = 0
      BY <1>4, <2>1 DEF Rec
    <2>2. CASE i # 0
      <3>1. i \in 1 .. u /\ i - 1 \in 0 .. u
        BY <2>2
      <3>2. f[i] = g[<<i, f[i - 1]>>] /\ f[i - 1] \in Nat
        BY <1>4, <3>1 DEF Rec
      <3> QED BY <1>3, <2>2, <3>1, <3>2
    <2> QED BY <2>1, <2>2
  <1>6. E(f)
    BY <1>4, <1>5
  <1>7. E(x)
    BY <1>6
  <1>a. Len(p) = u
    BY DigitsLength
  <1>8. IndexOf(p) = x[u]
    BY <1>a DEF IndexOf
  <1> HIDE DEF x
  <1>9. x[0] = 0 /\ \A i \in 1 .. u : x[i] = x[i - 1] * Letters + p[i]
    BY <1>0, <1>7
  <1>10. \A i \in 0 .. u : x[i] \in Nat
    <2> DEFINE T == {i \in 0 .. u : x[i] \in Nat}
    <2>1. 0 \in T
      BY <1>9
    <2>2. ASSUME NEW i \in 1 .. u, i - 1 \in T PROVE i \in T
      <3>1. x[i - 1] \in Nat /\ i \in 0 .. u
        BY <2>2
      <3>2. x[i] \in Nat
        BY <1>1, <1>9, <3>1
      <3> QED BY <3>1, <3>2
    <2>3. Climbs(T, u)
      BY <2>1, <2>2 DEF Climbs
    <2> HIDE DEF T
    <2>4. \A i \in 0 .. u : i \in T
      BY <2>3, Climb
    <2> QED BY <2>4 DEF T
  <1>11. x \in [0 .. u -> Nat]
    BY <1>7, <1>10
  <1> QED BY <1>8, <1>9, <1>11
\* A number below Letters^u is written with u letters, and read back.
LEMMA StringOfIndex ==
    ASSUME NEW u \in Nat, NEW s \in Nat, s < Exp[u]
    PROVE  StartString(s, u) \in Digits(u) /\ IndexOf(StartString(s, u)) = s
  <1> DEFINE p == StartString(s, u)
  <1>0. Letters \in Nat
    BY LettersAssumption
  <1>1. PICK r \in [0 .. u -> Nat] :
             /\ r[0] = s /\ \A i \in 1 .. u : r[i] = r[i - 1] % Exp[u - i]
             /\ p = [i \in 1 .. u |-> r[i - 1] \div Exp[u - i]]
    BY RemainDef
  <1> HIDE DEF p
  <1>2. \A i \in 0 .. u : u - i \in Nat /\ Exp[u - i] \in Nat /\ Exp[u - i] > 0
    BY ExpPositive
  <1>3. \A i \in 1 .. u : Exp[u - (i - 1)] = Letters * Exp[u - i]
    <2> SUFFICES ASSUME NEW i \in 1 .. u PROVE Exp[u - (i - 1)] = Letters * Exp[u - i]
      OBVIOUS
    <2>1. u - (i - 1) \in Nat /\ u - (i - 1) > 0 /\ (u - (i - 1)) - 1 = u - i
      OBVIOUS
    <2> QED BY <2>1, ExpPositive
  <1>4. \A i \in 0 .. u : r[i] < Exp[u - i]
    <2> DEFINE T == {i \in 0 .. u : r[i] < Exp[u - i]}
    <2>1. 0 \in T
      BY <1>1
    <2>2. ASSUME NEW i \in 1 .. u PROVE i \in T
      <3>1. i \in 0 .. u /\ i - 1 \in 0 .. u
        OBVIOUS
      <3>2. r[i - 1] % Exp[u - i] < Exp[u - i]
        BY <1>2, <3>1, DivMod
      <3> QED BY <1>1, <3>1, <3>2
    <2>3. Climbs(T, u)
      BY <2>1, <2>2 DEF Climbs
    <2> HIDE DEF T
    <2>4. \A i \in 0 .. u : i \in T
      BY <2>3, Climb
    <2> QED BY <2>4 DEF T
  <1>5. ASSUME NEW i \in 1 .. u
        PROVE  /\ p[i] \in Nat /\ p[i] < Letters
               /\ r[i - 1] = Exp[u - i] * p[i] + r[i]
    <2>1. i \in 0 .. u /\ i - 1 \in 0 .. u /\ r[i - 1] \in Nat
      OBVIOUS
    <2>2. r[i - 1] < Letters * Exp[u - i]
      BY <1>3, <1>4, <2>1
    <2>3. p[i] = r[i - 1] \div Exp[u - i] /\ r[i] = r[i - 1] % Exp[u - i]
      BY <1>1
    <2>4. Exp[u - i] \in Nat /\ Exp[u - i] > 0
      BY <1>2, <2>1
    <2> DEFINE y == r[i - 1]
               d == Exp[u - i]
    <2> HIDE DEF y, d
    <2>5. y \in Nat /\ d \in Nat /\ d > 0 /\ y < Letters * d
      BY <2>1, <2>2, <2>4 DEF y, d
    <2>6. y \div d \in Nat /\ y = d * (y \div d) + (y % d)
      BY <2>5, DivMod
    <2>7. y \div d < Letters
      BY <1>0, <2>5, DivLess
    <2> QED BY <2>3, <2>6, <2>7 DEF y, d
  <1>6. p \in Digits(u)
    <2>1. \A i \in 1 .. u : p[i] \in 0 .. Letters - 1
      BY <1>0, <1>5
    <2> QED BY <1>1, <2>1 DEF Digits
  <1>7. PICK x \in [0 .. u -> Nat] :
             /\ x[0] = 0 /\ \A i \in 1 .. u : x[i] = x[i - 1] * Letters + p[i]
             /\ IndexOf(p) = x[u]
    BY <1>6, IndexDef
  <1>8. \A i \in 0 .. u : x[i] * Exp[u - i] + r[i] = s
    <2> DEFINE T == {i \in 0 .. u : x[i] * Exp[u - i] + r[i] = s}
    <2>1. 0 \in T
      <3>1. 0 \in 0 .. u /\ Exp[u - 0] \in Nat /\ x[0] * Exp[u - 0] = 0
        BY <1>2, <1>7
      <3> QED BY <1>1, <3>1
    <2>2. ASSUME NEW i \in 1 .. u, i - 1 \in T PROVE i \in T
      <3>1. i \in 0 .. u /\ i - 1 \in 0 .. u
        OBVIOUS
      <3> DEFINE d == Exp[u - i]
                 y == x[i - 1]
                 c == p[i]
      <3>2. d \in Nat /\ y \in Nat /\ c \in Nat
        BY <1>2, <1>5, <3>1
      <3>3. y * (Letters * d) + r[i - 1] = s
        BY <1>3, <2>2
      <3>4. r[i - 1] = d * c + r[i] /\ r[i] \in Nat
        BY <1>5, <3>1
      <3>5. x[i] = y * Letters + c
        BY <1>7
      <3> HIDE DEF d, y, c
      <3>6. (y * Letters + c) * d = y * (Letters * d) + d * c
        BY <1>0, <3>2
      <3>7. y * (Letters * d) \in Nat /\ d * c \in Nat
        BY <1>0, <3>2
      <3>8. x[i] * d + r[i] = s
        BY <3>3, <3>4, <3>5, <3>6, <3>7
      <3> QED BY <3>1, <3>8 DEF d
    <2>3. Climbs(T, u)
      BY <2>1, <2>2 DEF Climbs
    <2> HIDE DEF T
    <2>4. \A i \in 0 .. u : i \in T
      BY <2>3, Climb
    <2> QED BY <2>4 DEF T
  <1>9. x[u] = s
    <2>1. u \in 0 .. u /\ u - u = 0 /\ x[u] \in Nat
      OBVIOUS
    <2>2. x[u] * Exp[u - u] + r[u] = s /\ r[u] < Exp[u - u] /\ r[u] \in Nat
      BY <1>4, <1>8, <2>1
    <2>3. Exp[u - u] = 1
      BY <2>1, ExpPositive
    <2> QED BY <2>1, <2>2, <2>3
  <1> QED BY <1>6, <1>7, <1>9 DEF p

\* A string of u letters has an index below Letters^u, and is what that is
\* written as.
LEMMA IndexOfString ==
    ASSUME NEW u \in Nat, NEW p \in Digits(u)
    PROVE  IndexOf(p) \in Nat /\ IndexOf(p) < Exp[u] /\ StartString(IndexOf(p), u) = p
  <1> DEFINE s == IndexOf(p)
  <1>0. Letters \in Nat
    BY LettersAssumption
  <1>1. PICK x \in [0 .. u -> Nat] :
             /\ x[0] = 0 /\ \A i \in 1 .. u : x[i] = x[i - 1] * Letters + p[i]
             /\ s = x[u]
    BY IndexDef
  <1>2. s \in Nat
    BY <1>1
  <1> HIDE DEF s
  <1>3. \A i \in 0 .. u : u - i \in Nat /\ Exp[u - i] \in Nat /\ Exp[u - i] > 0
    BY ExpPositive
  <1>4. \A i \in 1 .. u : Exp[u - (i - 1)] = Letters * Exp[u - i]
    <2> SUFFICES ASSUME NEW i \in 1 .. u PROVE Exp[u - (i - 1)] = Letters * Exp[u - i]
      OBVIOUS
    <2>1. u - (i - 1) \in Nat /\ u - (i - 1) > 0 /\ (u - (i - 1)) - 1 = u - i
      OBVIOUS
    <2> QED BY <2>1, ExpPositive
  <1> DEFINE rest(i) == s - x[i] * Exp[u - i]
  \* What the letters after the i-th stand for.
  <1>5. ASSUME NEW i \in 1 .. u
        PROVE  rest(i - 1) = p[i] * Exp[u - i] + rest(i)
    <2>1. i \in 0 .. u /\ i - 1 \in 0 .. u
      OBVIOUS
    <2> DEFINE d == Exp[u - i]
               y == x[i - 1]
               c == p[i]
    <2>2. d \in Nat /\ y \in Nat /\ c \in Nat
      BY <1>3, <2>1, DigitsLength
    <2>3. x[i] = y * Letters + c /\ Exp[u - (i - 1)] = Letters * d
      BY <1>1, <1>4
    <2>4. x[i] \in Nat
      BY <2>1
    <2> HIDE DEF d, y, c
    <2>5. (y * Letters + c) * d = y * (Letters * d) + c * d
      BY <1>0, <2>2
    <2>6. y * (Letters * d) \in Nat /\ c * d \in Nat
      BY <1>0, <2>2
    <2>7. s - y * (Letters * d) = c * d + (s - (y * Letters + c) * d)
      BY <1>2, <2>5, <2>6
    <2> QED BY <2>3, <2>7 DEF d, y, c
  <1>6. ASSUME NEW i \in 0 .. u PROVE rest(i) \in Nat /\ rest(i) < Exp[u - i]
    <2> DEFINE T == {k \in 0 .. u : rest(u - k) \in Nat /\ rest(u - k) < Exp[u - (u - k)]}
    <2>1. 0 \in T
      <3>1. u - 0 = u /\ u - u = 0 /\ 0 \in 0 .. u /\ u - (u - 0) = 0
        OBVIOUS
      <3>2. Exp[u - u] = 1
        BY <3>1, ExpPositive
      <3>3. rest(u) = 0
        BY <1>1, <1>2, <3>2
      <3> QED BY <3>1, <3>2, <3>3
    <2>2. ASSUME NEW k \in 1 .. u, k - 1 \in T PROVE k \in T
      <3> DEFINE j == u - (k - 1)
      <3>1. j \in 1 .. u /\ j - 1 = u - k /\ k \in 0 .. u /\ j \in 0 .. u
        OBVIOUS
      <3>2. rest(j) \in Nat /\ rest(j) < Exp[u - j]
        BY <2>2
      <3>3. rest(j - 1) = p[j] * Exp[u - j] + rest(j)
        BY <1>5, <3>1
      <3>4. p[j] \in Nat /\ p[j] < Letters
        BY <3>1, DigitsLength
      <3>5. Exp[u - (j - 1)] = Letters * Exp[u - j] /\ Exp[u - j] \in Nat
        BY <1>3, <1>4, <3>1
      <3>6. \A c, d, t \in Nat : c < Letters /\ t < d => c * d + t \in Nat /\ c * d + t < Letters * d
        <4> SUFFICES ASSUME NEW c \in Nat, NEW d \in Nat, NEW t \in Nat, c < Letters, t < d
                     PROVE  c * d + t \in Nat /\ c * d + t < Letters * d
          OBVIOUS
        <4>1. (c + 1) * d <= Letters * d
          BY <1>0
        <4>2. (c + 1) * d = c * d + d /\ c * d \in Nat /\ Letters * d \in Nat
          BY <1>0
        <4> QED BY <4>1, <4>2
      <3> HIDE DEF rest, j
      <3>7. rest(j - 1) \in Nat /\ rest(j - 1) < Exp[u - (j - 1)]
        BY <3>2, <3>3, <3>4, <3>5, <3>6
      <3> QED BY <3>1, <3>7
    <2>3. Climbs(T, u)
      BY <2>1, <2>2 DEF Climbs
    <2>4. u - i \in 0 .. u /\ u - (u - i) = i
      OBVIOUS
    <2> HIDE DEF T
    <2>5. u - i \in T
      BY <2>3, <2>4, Climb
    <2> QED BY <2>4, <2>5 DEF T
  <1>7. s < Exp[u]
    <2>1. 0 \in 0 .. u /\ u - 0 = u /\ Exp[u] \in Nat
      BY ExpPositive
    <2>2. rest(0) = s
      BY <1>1, <1>2, <2>1
    <2>3. rest(0) < Exp[u - 0]
      BY <1>6, <2>1
    <2> QED BY <2>1, <2>2, <2>3
  <1>8. PICK r \in [0 .. u -> Nat] :
             /\ r[0] = s /\ \A i \in 1 .. u : r[i] = r[i - 1] % Exp[u - i]
             /\ StartString(s, u) = [i \in 1 .. u |-> r[i - 1] \div Exp[u - i]]
    BY <1>2, RemainDef
  <1>9. rest(0) = s
    <2>1. 0 \in 0 .. u
      OBVIOUS
    <2>2. Exp[u - 0] \in Nat
      BY <1>3, <2>1
    <2> QED BY <1>1, <1>2, <2>2
  <1> HIDE DEF rest
  <1>10. ASSUME NEW i \in 1 .. u, r[i - 1] = rest(i - 1)
         PROVE  r[i] = rest(i) /\ r[i - 1] \div Exp[u - i] = p[i]
    <2>1. i \in 0 .. u /\ p[i] \in Nat
      BY DigitsLength
    <2>2. rest(i) \in Nat /\ rest(i) < Exp[u - i] /\ Exp[u - i] \in Nat
      BY <1>3, <1>6, <2>1
    <2>3. r[i - 1] = p[i] * Exp[u - i] + rest(i)
      BY <1>5, <1>10
    <2> DEFINE y == p[i]
               d == Exp[u - i]
               t == rest(i)
    <2> HIDE DEF y, d, t
    <2>a. y \in Nat /\ d \in Nat /\ t \in Nat /\ t < d
      BY <2>1, <2>2 DEF y, d, t
    <2>b. (y * d + t) \div d = y /\ (y * d + t) % d = t
      BY <2>a, DivBack
    <2>4. r[i - 1] % Exp[u - i] = rest(i) /\ r[i - 1] \div Exp[u - i] = p[i]
      BY <2>3, <2>b DEF y, d, t
    <2> QED BY <1>8, <2>4
  <1>11. \A i \in 0 .. u : r[i] = rest(i)
    <2> DEFINE T == {i \in 0 .. u : r[i] = rest(i)}
    <2>1. 0 \in T
      BY <1>8, <1>9
    <2>2. ASSUME NEW i \in 1 .. u, i - 1 \in T PROVE i \in T
      BY <1>10, <2>2
    <2>3. Climbs(T, u)
      BY <2>1, <2>2 DEF Climbs
    <2> HIDE DEF T
    <2>4. \A i \in 0 .. u : i \in T
      BY <2>3, Climb
    <2> QED BY <2>4 DEF T
  <1>12. \A i \in 1 .. u : i - 1 \in 0 .. u
    OBVIOUS
  <1>13. \A i \in 1 .. u : r[i - 1] \div Exp[u - i] = p[i]
    BY <1>10, <1>11, <1>12
  <1>14. StartString(s, u) = p
    BY <1>8, <1>13 DEF Digits
  <1> QED BY <1>2, <1>7, <1>14 DEF s
-----------------------------------------------------------------------------
(* The subranges of the workers: apart, and together all candidates.       *)

LEMMA DivMono ==
    ASSUME NEW x \in Nat, NEW y \in Nat, x <= y, NEW d \in Nat, d > 0
    PROVE  x \div d <= y \div d
  <1> DEFINE a == x \div d
             b == y \div d
             e == x % d
             f == y % d
  <1>1. a \in Nat /\ e \in Nat /\ e < d /\ x = d * a + e
    BY DivMod
  <1>2. b \in Nat /\ f \in Nat /\ f < d /\ y = d * b + f
    BY DivMod
  <1> HIDE DEF a, b, e, f
  <1>3. ASSUME a > b PROVE FALSE
    <2>1. d * a >= d * (b + 1)
      BY <1>1, <1>2, <1>3
    <2>2. d * (b + 1) = d * b + d /\ d * b \in Nat /\ d * a \in Nat
      BY <1>1, <1>2
    <2> QED BY <1>1, <1>2, <2>1, <2>2
  <1> QED BY <1>1, <1>2, <1>3 DEF a, b

LEMMA StartsRise ==
    ASSUME NEW u \in Nat
    PROVE  /\ \A w \in 1 .. N + 1 : StartIdx(u, w) \in Nat
           /\ StartIdx(u, 1) = 0 /\ StartIdx(u, N + 1) = Exp[u]
           /\ \A v, w \in 1 .. N + 1 : v <= w => StartIdx(u, v) <= StartIdx(u, w)
  <1> DEFINE e == Exp[u]
  <1>0. e \in Nat /\ N \in Nat /\ N > 0
    BY ExpPositive, NAssumption
  <1> HIDE DEF e
  <1>1. \A w \in 1 .. N + 1 : StartIdx(u, w) = ((w - 1) * e) \div N
    BY DEF StartIdx, e
  <1>2. \A w \in 1 .. N + 1 : (w - 1) * e \in Nat
    BY <1>0
  <1>3. \A w \in 1 .. N + 1 : StartIdx(u, w) \in Nat
    BY <1>0, <1>1, <1>2, DivMod
  <1>4. StartIdx(u, 1) = 0
    <2>1. (1 - 1) * e = 0 * N + 0
      BY <1>0
    <2>2. (0 * N + 0) \div N = 0
      BY <1>0, DivBack
    <2> QED BY <1>0, <1>1, <2>1, <2>2
  <1>5. StartIdx(u, N + 1) = e
    <2>1. (e * N + 0) \div N = e
      BY <1>0, DivBack
    <2>2. ((N + 1) - 1) * e = e * N + 0
      BY <1>0
    <2> QED BY <1>0, <1>1, <2>1, <2>2
  <1>6. ASSUME NEW v \in 1 .. N + 1, NEW w \in 1 .. N + 1, v <= w
        PROVE  StartIdx(u, v) <= StartIdx(u, w)
    <2>1. (v - 1) * e <= (w - 1) * e
      BY <1>0, <1>6
    <2> QED BY <1>0, <1>1, <1>2, <2>1, DivMono
  <1> QED BY <1>3, <1>4, <1>5, <1>6 DEF e

LEMMA Subranges ==
    ASSUME NEW u \in Nat, NEW w \in Workers
    PROVE  /\ StartIdx(u, w) \in Nat /\ Count(u, w) \in Nat
           /\ StartIdx(u, w) + Count(u, w) <= Exp[u]
           /\ \A v \in Workers : v # w =>
                \/ StartIdx(u, w) + Count(u, w) <= StartIdx(u, v)
                \/ StartIdx(u, v) + Count(u, v) <= StartIdx(u, w)
  <1>0. N \in Nat /\ \A v \in Workers : /\ v \in 1 .. N + 1 /\ v + 1 \in 1 .. N + 1 /\ v <= v + 1
                                        /\ v + 1 <= N + 1 /\ N + 1 \in 1 .. N + 1 /\ v \in Nat
    BY NAssumption DEF Workers
  <1>1. \A v \in Workers : /\ StartIdx(u, v) \in Nat /\ StartIdx(u, v + 1) \in Nat
                           /\ StartIdx(u, v) <= StartIdx(u, v + 1)
                           /\ StartIdx(u, v + 1) <= Exp[u]
    BY <1>0, StartsRise
  <1>2. \A v \in Workers : /\ Count(u, v) \in Nat
                           /\ StartIdx(u, v) + Count(u, v) = StartIdx(u, v + 1)
    BY <1>1 DEF Count
  <1>3. ASSUME NEW v \in Workers, v # w
        PROVE  \/ StartIdx(u, w + 1) <= StartIdx(u, v)
               \/ StartIdx(u, v + 1) <= StartIdx(u, w)
    <2>1. v + 1 <= w \/ w + 1 <= v
      BY <1>0, <1>3
    <2> QED BY <1>0, <2>1, StartsRise
  <1> QED BY <1>1, <1>2, <1>3

LEMMA Covered ==
    ASSUME NEW u \in Nat, NEW j \in Nat, j < Exp[u]
    PROVE  \E w \in Workers : StartIdx(u, w) <= j /\ j < StartIdx(u, w) + Count(u, w)
  <1>0. N \in Nat /\ N > 0 /\ 1 \in 1 .. N + 1
    BY NAssumption
  <1>1. \A w \in 1 .. N + 1 : StartIdx(u, w) \in Nat
    BY StartsRise
  <1> DEFINE T == {w \in 1 .. N + 1 : StartIdx(u, w) > j}
  <1>2. T \subseteq Nat /\ N + 1 \in T
    BY <1>0, StartsRise
  <1>3. PICK w \in T : \A v \in T : w <= v
    <2> HIDE DEF T
    <2> QED BY <1>2, Lowest
  <1>4. w \in 1 .. N + 1 /\ StartIdx(u, w) > j
    BY <1>3
  <1>5. w # 1
    BY <1>4, StartsRise
  <1>6. w - 1 \in Workers /\ w - 1 \in 1 .. N + 1 /\ ~(w <= w - 1) /\ (w - 1) + 1 = w
    BY <1>0, <1>4, <1>5 DEF Workers
  <1>7. ~(StartIdx(u, w - 1) > j)
    BY <1>3, <1>6
  <1>8. StartIdx(u, w - 1) \in Nat /\ StartIdx(u, w - 1) <= j
    BY <1>1, <1>6, <1>7
  <1>9. Count(u, w - 1) = StartIdx(u, w) - StartIdx(u, w - 1)
    BY <1>6 DEF Count
  <1> QED BY <1>1, <1>4, <1>6, <1>8, <1>9
-----------------------------------------------------------------------------
(* What the workers have tried and counted in this round.                  *)

First(w) == StartIdx(info.unknown, w)
Size(w) == Count(info.unknown, w)
Name(j) == StartString(j, info.unknown)
Possible(j) == j \in Nat /\ j < Exp[info.unknown]

Finished(w) == pc[w] = "barrier" \/ finishthread = N
Began(w) == pc[w] \in {"loop", "hash", "report", "finish"} \/ Finished(w)

\* How many candidates w has hashed, and which: the first ones of its subrange.
Hashes(w) == IF ~Began(w) THEN 0 ELSE IF pc[w] = "hash" THEN hashcount[w] - 1 ELSE hashcount[w]
Segment(w) == First(w) .. First(w) + Hashes(w) - 1
NotThere(w) == \A j \in Segment(w) : j # info.answer

InRange(w) == Hashes(w) \in Nat /\ Hashes(w) <= Size(w)
Trying(w) == pc[w] \in {"loop", "hash"} =>
               /\ left[w] = Size(w) - Hashes(w)
               /\ left[w] > 0 => pwd[w] = Name(First(w) + Hashes(w))
               /\ NotThere(w)
AtHash(w) == pc[w] = "hash" => left[w] > 0 /\ hashcount[w] > 0
AtReport(w) == pc[w] = "report" => IndexOf(pwd[w]) = info.answer /\ Possible(info.answer)
AtFinish(w) == pc[w] = "finish" \/ Finished(w) =>
                 found = 1 \/ (Hashes(w) = Size(w) /\ NotThere(w))
WorkerRight(w) == InRange(w) /\ Trying(w) /\ AtHash(w) /\ AtReport(w) /\ AtFinish(w)

FoundRight == /\ found \in {0, 1}
              /\ found = 1 => IndexOf(passwordfound) = info.answer /\ Possible(info.answer)
TriedRight == \A x : x \in tried <=> \E w \in Workers : \E j \in Segment(w) : x = Name(j)

\* The candidates that are in the total already.
InTotal == UNION {Segment(w) : w \in {v \in Workers : Finished(v)}}
TotalRight == IsFiniteSet(InTotal) /\ totalcount = Cardinality(InTotal)

LocalTypes == hashcount \in [Workers -> Nat] /\ left \in [Workers -> Int]
RoundRight == main = "wait" => /\ \A w \in Workers : WorkerRight(w)
                               /\ FoundRight /\ TriedRight /\ TotalRight
SumInv == LocalTypes /\ RoundRight

-----------------------------------------------------------------------------
LEMMA NameIndex ==
    ASSUME info \in Tasks, NEW j, Possible(j)
    PROVE  Len(Name(j)) = info.unknown /\ IndexOf(Name(j)) = j /\ Name(j) \in Candidates(info)
  <1>1. info.unknown \in Nat
    BY TaskAssumption
  <1>2. StartString(j, info.unknown) \in Digits(info.unknown) /\ IndexOf(StartString(j, info.unknown)) = j
    BY <1>1, StringOfIndex DEF Possible
  <1> QED BY <1>1, <1>2, DigitsLength DEF Name, Candidates, Digits

LEMMA Bounds ==
    ASSUME info \in Tasks, NEW w \in Workers
    PROVE  /\ info.unknown \in Nat /\ First(w) \in Nat /\ Size(w) \in Nat /\ First(w) + Size(w) <= Exp[info.unknown]
           /\ Exp[info.unknown] \in Nat /\ Exp[info.unknown] > 0
           /\ \A v \in Workers : v # w => First(w) + Size(w) <= First(v) \/ First(v) + Size(v) <= First(w)
  <1>1. info.unknown \in Nat
    BY TaskAssumption
  <1> QED BY <1>1, Subranges, ExpPositive DEF First, Size

\* A worker that does nothing.
Stays(v) == /\ pc'[v] = pc[v] /\ hashcount'[v] = hashcount[v] /\ left'[v] = left[v] /\ pwd'[v] = pwd[v]
            /\ Finished(v)' <=> Finished(v)

LEMMA Same ==
    ASSUME NEW v, Stays(v), info' = info
    PROVE  /\ Hashes(v)' = Hashes(v) /\ First(v)' = First(v) /\ Size(v)' = Size(v)
           /\ Segment(v)' = Segment(v)
  <1>1. Began(v)' <=> Began(v)
    BY DEF Stays, Began
  <1>2. Hashes(v)' = Hashes(v)
    BY <1>1 DEF Stays, Hashes
  <1>3. First(v)' = First(v) /\ Size(v)' = Size(v)
    BY DEF First, Size
  <1> QED BY <1>2, <1>3 DEF Segment

LEMMA StaysRight ==
    ASSUME NEW v, WorkerRight(v), Stays(v), info' = info, found = 1 => found' = 1
    PROVE  WorkerRight(v)'
  <1>1. /\ Hashes(v)' = Hashes(v) /\ First(v)' = First(v) /\ Size(v)' = Size(v)
        /\ Segment(v)' = Segment(v)
    BY Same
  <1>2. NotThere(v)' <=> NotThere(v)
    BY <1>1 DEF NotThere
  <1>3. InRange(v)' /\ AtHash(v)' /\ AtReport(v)'
    BY <1>1 DEF WorkerRight, InRange, AtHash, AtReport, Stays, Possible
  <1>4. Trying(v)'
    BY <1>1, <1>2 DEF WorkerRight, Trying, Stays, Name
  <1>5. AtFinish(v)'
    BY <1>1, <1>2 DEF WorkerRight, AtFinish, Stays
  <1> QED BY <1>3, <1>4, <1>5 DEF WorkerRight

\* A step of worker w in a round.
Moves(w) == /\ main = "wait" /\ main' = "wait" /\ info' = info
            /\ found = 1 => found' = 1
            /\ \A v \in Workers : v # w => Stays(v)

LEMMA SumStep ==
    ASSUME SumInv, NEW w \in Workers, Moves(w), LocalTypes', WorkerRight(w)',
           FoundRight', TriedRight', TotalRight'
    PROVE  SumInv'
  <1>1. \A v \in Workers : WorkerRight(v)'
    <2> SUFFICES ASSUME NEW v \in Workers PROVE WorkerRight(v)'
      OBVIOUS
    <2>1. CASE v = w
      BY <2>1
    <2>2. CASE v # w
      BY <2>2, StaysRight DEF Moves, SumInv, RoundRight
    <2> QED BY <2>1, <2>2
  <1>2. RoundRight'
    BY <1>1 DEF RoundRight, Workers
  <1> QED BY <1>2 DEF SumInv

\* A step that adds nothing to what has been tried, and one that adds nothing to
\* the total.
LEMMA TriedKept ==
    ASSUME SumInv, NEW w \in Workers, Moves(w), Segment(w)' = Segment(w), tried' = tried
    PROVE  TriedRight'
  <1>1. \A v \in Workers : Segment(v)' = Segment(v)
    BY Same DEF Moves
  <1>2. ASSUME NEW x PROVE x \in tried' <=> \E v \in Workers : \E j \in Segment(v)' : x = Name(j)'
    <2>1. x \in tried <=> \E v \in Workers : \E j \in Segment(v) : x = Name(j)
      BY DEF SumInv, RoundRight, TriedRight, Moves
    <2>2. \A j : Name(j)' = Name(j)
      BY DEF Name, Moves
    <2> QED BY <1>1, <2>1, <2>2
  <1> QED BY <1>2 DEF TriedRight, Workers

LEMMA TotalKept ==
    ASSUME SumInv, NEW w \in Workers, Moves(w), Segment(w)' = Segment(w) \/ ~Finished(w),
           Finished(w)' <=> Finished(w), totalcount' = totalcount
    PROVE  TotalRight'
  <1>1. \A v \in Workers : Finished(v)' <=> Finished(v)
    BY DEF Moves, Stays
  <1>2. \A v \in Workers : Finished(v) => Segment(v)' = Segment(v)
    BY Same DEF Moves
  <1>3. InTotal' = InTotal
    <2>1. \A x : x \in InTotal' <=> \E v \in Workers : Finished(v)' /\ x \in Segment(v)'
      BY DEF InTotal, Workers
    <2>2. \A x : x \in InTotal <=> \E v \in Workers : Finished(v) /\ x \in Segment(v)
      BY DEF InTotal
    <2> QED BY <1>1, <1>2, <2>1, <2>2
  <1> QED BY <1>3 DEF TotalRight, SumInv, RoundRight, Moves-----------------------------------------------------------------------------
LEMMA InRoundInfo ==
    ASSUME IInv, main = "wait"
    PROVE  info \in Tasks /\ info.unknown \in Nat
  BY TaskAssumption DEF IInv, TypeOK, InRound

\* A step of a worker that has not finished, and does not.
LEMMA Inside ==
    ASSUME IInv, NEW w \in Workers, NEW to \in Working, pc[w] \in Working \cup {"ticket"},
           main = "wait", finishthread < N, pc' = [pc EXCEPT ![w] = to],
           finishthread' = finishthread, main' = main, info' = info, found = 1 => found' = 1,
           \A v \in Workers : v # w => /\ hashcount'[v] = hashcount[v] /\ left'[v] = left[v]
                                       /\ pwd'[v] = pwd[v]
    PROVE  Moves(w) /\ ~Finished(w) /\ ~Finished(w)' /\ pc'[w] = to /\ info \in Tasks
  <1>1. pc'[w] = to /\ \A v \in Workers : v # w => pc'[v] = pc[v]
    BY DEF IInv, TypeOK
  <1>2. finishthread # N
    BY NAssumption DEF IInv, TypeOK
  <1>3. ~Finished(w) /\ ~Finished(w)'
    BY <1>1, <1>2 DEF Finished, Working
  <1>4. \A v \in Workers : v # w => (Finished(v)' <=> Finished(v))
    BY <1>1 DEF Finished
  <1>5. Moves(w)
    BY <1>1, <1>4 DEF Moves, Stays
  <1> QED BY <1>1, <1>3, <1>5, InRoundInfo

LEMMA TakeTicketSum ==
    ASSUME IInv, SumInv, NEW w \in Workers, TakeTicket(w)
    PROVE  SumInv'
  <1>1. CASE main # "wait"
    BY <1>1 DEF TakeTicket, local, mainVars, SumInv, LocalTypes, RoundRight
  <1>2. CASE main = "wait"
    <2>1. eof = 0 /\ finishthread < N
      BY <1>2, NAssumption DEF TakeTicket, IInv, TypeOK, InRound
    <2>2. /\ pc[w] = "ticket" /\ pc' = [pc EXCEPT ![w] = "begin"]
          /\ UNCHANGED <<finishthread, found, passwordfound, info, totalcount, main, pwd, left, hashcount, tried>>
      BY <2>1 DEF TakeTicket, Runs, Goto, local, mainVars
    <2>3. Moves(w) /\ ~Finished(w) /\ ~Finished(w)' /\ pc'[w] = "begin" /\ info \in Tasks
      <3>1. "begin" \in Working
        BY DEF Working
      <3> QED BY <1>2, <2>1, <2>2, <3>1, Inside
    <2>4. ~Began(w) /\ ~Began(w)'
      BY <2>2, <2>3 DEF Began
    <2>5. Hashes(w) = 0 /\ Hashes(w)' = 0 /\ First(w)' = First(w) /\ Size(w)' = Size(w)
      BY <2>2, <2>4 DEF Hashes, First, Size
    <2>6. Segment(w)' = Segment(w)
      BY <2>5 DEF Segment
    <2>7. WorkerRight(w)'
      BY <2>3, <2>5, Bounds DEF WorkerRight, InRange, Trying, AtHash, AtReport, AtFinish
    <2>8. TriedRight' /\ TotalRight'
      BY <2>2, <2>3, <2>6, TriedKept, TotalKept
    <2>9. LocalTypes' /\ FoundRight'
      BY <1>2, <2>2 DEF SumInv, LocalTypes, RoundRight, FoundRight, Possible
    <2> QED BY <2>3, <2>7, <2>8, <2>9, SumStep
  <1> QED BY <1>1, <1>2

LEMMA BeginSum ==
    ASSUME IInv, SumInv, NEW w \in Workers, Begin(w)
    PROVE  SumInv'
  <1>1. /\ pc[w] = "begin" /\ pc' = [pc EXCEPT ![w] = "loop"] /\ info # NULL
        /\ pwd' = [pwd EXCEPT ![w] = Name(First(w))]
        /\ left' = [left EXCEPT ![w] = Size(w)]
        /\ hashcount' = [hashcount EXCEPT ![w] = 0]
        /\ UNCHANGED <<finishthread, found, passwordfound, info, totalcount, main, tried>>
    BY DEF Begin, Runs, Goto, shared, mainVars, Name, First, Size
  <1>a. pc[w] \in Working /\ "loop" \in Working
    BY <1>1 DEF Working
  <1>2. main = "wait" /\ finishthread < N
    BY <1>a, Working1
  <1>b. pwd = [v \in Workers |-> pwd[v]] /\ LocalTypes
    BY DEF IInv, Lengths, SumInv
  <1>c. /\ \A v \in Workers : v # w => /\ hashcount'[v] = hashcount[v] /\ left'[v] = left[v]
                                       /\ pwd'[v] = pwd[v]
        /\ pwd'[w] = Name(First(w)) /\ left'[w] = Size(w) /\ hashcount'[w] = 0
    BY <1>1, <1>b DEF LocalTypes
  <1>3. Moves(w) /\ ~Finished(w) /\ ~Finished(w)' /\ pc'[w] = "loop" /\ info \in Tasks
    BY <1>1, <1>2, <1>a, <1>c, Inside
  <1>4. ~Began(w)
    BY <1>1, <1>3 DEF Began
  <1>5. Hashes(w) = 0 /\ Hashes(w)' = 0 /\ First(w)' = First(w) /\ Size(w)' = Size(w)
    BY <1>1, <1>3, <1>4, <1>c DEF Hashes, First, Size
  <1>6. Segment(w)' = Segment(w)
    BY <1>5 DEF Segment
  <1>d. First(w) \in Nat /\ Size(w) \in Nat
    BY <1>3, Bounds
  <1>7. WorkerRight(w)'
    <2>1. InRange(w)' /\ AtHash(w)' /\ AtReport(w)' /\ AtFinish(w)'
      BY <1>3, <1>5, <1>d DEF InRange, AtHash, AtReport, AtFinish
    <2>2. NotThere(w)'
      BY <1>5, <1>d DEF NotThere, Segment
    <2>3. left'[w] = Size(w)' - Hashes(w)' /\ First(w)' + Hashes(w)' = First(w)
      BY <1>5, <1>c, <1>d
    <2>5. Trying(w)'
      <3>1. pwd'[w] = Name(First(w) + Hashes(w))'
        BY <1>1, <1>c, <2>3 DEF Name
      <3> QED BY <2>2, <2>3, <3>1 DEF Trying
    <2> QED BY <2>1, <2>5 DEF WorkerRight
  <1>8. TriedRight' /\ TotalRight'
    BY <1>1, <1>3, <1>6, TriedKept, TotalKept
  <1>9. FoundRight'
    BY <1>1, <1>2 DEF SumInv, RoundRight, FoundRight, Possible
  <1>e. LocalTypes'
    BY <1>1, <1>b, <1>d DEF LocalTypes
  <1> QED BY <1>3, <1>7, <1>8, <1>9, <1>e, SumStep
LEMMA CheckSum ==
    ASSUME IInv, SumInv, NEW w \in Workers, Check(w)
    PROVE  SumInv'
  <1> DEFINE stop == left[w] = 0 \/ found = 1
             to == IF stop THEN "finish" ELSE "hash"
  <1>1. /\ pc[w] = "loop" /\ pc' = [pc EXCEPT ![w] = to]
        /\ IF stop THEN hashcount' = hashcount ELSE hashcount' = [hashcount EXCEPT ![w] = @ + 1]
        /\ UNCHANGED <<finishthread, found, passwordfound, info, totalcount, main, tried, pwd, left>>
    BY DEF Check, Runs, Goto, shared, mainVars
  <1>a. pc[w] \in Working /\ to \in Working
    BY <1>1 DEF Working
  <1>2. main = "wait" /\ finishthread < N
    BY <1>a, Working1
  <1>b. LocalTypes /\ WorkerRight(w)
    BY <1>2 DEF SumInv, RoundRight
  <1>c. /\ \A v \in Workers : v # w => hashcount'[v] = hashcount[v]
        /\ hashcount'[w] = IF stop THEN hashcount[w] ELSE hashcount[w] + 1
        /\ hashcount[w] \in Nat /\ hashcount' \in [Workers -> Nat] /\ left[w] \in Int
    BY <1>1, <1>b DEF LocalTypes
  <1>3. Moves(w) /\ ~Finished(w) /\ ~Finished(w)' /\ pc'[w] = to /\ info \in Tasks
    <2> HIDE DEF to
    <2> QED BY <1>1, <1>2, <1>a, <1>c, Inside
  <1>4. Began(w) /\ Began(w)'
    BY <1>1, <1>3 DEF Began
  <1>5. Hashes(w) = hashcount[w] /\ Hashes(w)' = hashcount[w]
    BY <1>1, <1>3, <1>4, <1>c DEF Hashes
  <1>d. First(w)' = First(w) /\ Size(w)' = Size(w) /\ First(w) \in Nat /\ Size(w) \in Nat
    BY <1>1, <1>3, Bounds DEF First, Size
  <1>6. Segment(w)' = Segment(w)
    BY <1>5, <1>d DEF Segment
  <1>e. /\ left[w] = Size(w) - Hashes(w) /\ (left[w] > 0 => pwd[w] = Name(First(w) + Hashes(w)))
        /\ NotThere(w) /\ Hashes(w) <= Size(w) /\ Hashes(w) \in Nat
    BY <1>1, <1>b DEF WorkerRight, Trying, InRange
  <1>f. NotThere(w)'
    BY <1>1, <1>6, <1>e DEF NotThere
  <1>7. WorkerRight(w)'
    <2>1. InRange(w)' /\ AtReport(w)'
      BY <1>3, <1>5, <1>d, <1>e DEF InRange, AtReport
    <2>2. AtHash(w)'
      BY <1>1, <1>3, <1>5, <1>c, <1>d, <1>e DEF AtHash
    <2>3. AtFinish(w)'
      BY <1>1, <1>3, <1>5, <1>d, <1>e, <1>f DEF AtFinish
    <2>4. Trying(w)'
      <3>1. Name(First(w) + Hashes(w))' = Name(First(w) + Hashes(w))
        BY <1>1, <1>5, <1>d DEF Name
      <3> QED BY <1>1, <1>5, <1>d, <1>e, <1>f, <3>1 DEF Trying
    <2> QED BY <2>1, <2>2, <2>3, <2>4 DEF WorkerRight
  <1>8. TriedRight' /\ TotalRight'
    BY <1>1, <1>3, <1>6, TriedKept, TotalKept
  <1>9. FoundRight'
    BY <1>1, <1>2 DEF SumInv, RoundRight, FoundRight, Possible
  <1>g. LocalTypes'
    BY <1>1, <1>b, <1>c DEF LocalTypes
  <1> QED BY <1>3, <1>7, <1>8, <1>9, <1>g, SumStep

LEMMA ReportSum ==
    ASSUME IInv, SumInv, NEW w \in Workers, Report(w)
    PROVE  SumInv'
  <1>1. /\ pc[w] = "report" /\ pc' = [pc EXCEPT ![w] = "finish"]
        /\ found' = 1 /\ passwordfound' = pwd[w]
        /\ UNCHANGED <<finishthread, info, totalcount, main, tried, pwd, left, hashcount>>
    BY DEF Report, Runs, Goto, local, mainVars
  <1>a. pc[w] \in Working /\ "finish" \in Working
    BY <1>1 DEF Working
  <1>2. main = "wait" /\ finishthread < N
    BY <1>a, Working1
  <1>b. LocalTypes /\ WorkerRight(w)
    BY <1>2 DEF SumInv, RoundRight
  <1>3. Moves(w) /\ ~Finished(w) /\ ~Finished(w)' /\ pc'[w] = "finish" /\ info \in Tasks
    BY <1>1, <1>2, <1>a, Inside
  <1>4. Began(w) /\ Began(w)'
    BY <1>1, <1>3 DEF Began
  <1>5. /\ Hashes(w)' = Hashes(w) /\ First(w)' = First(w) /\ Size(w)' = Size(w)
    BY <1>1, <1>3, <1>4 DEF Hashes, First, Size
  <1>6. Segment(w)' = Segment(w)
    BY <1>5 DEF Segment
  <1>7. WorkerRight(w)'
    BY <1>1, <1>3, <1>5, <1>b DEF WorkerRight, InRange, AtReport, AtHash, AtFinish, Trying
  <1>8. TriedRight' /\ TotalRight'
    BY <1>1, <1>3, <1>6, TriedKept, TotalKept
  <1>9. FoundRight'
    BY <1>1, <1>b DEF WorkerRight, AtReport, FoundRight, Possible
  <1>g. LocalTypes'
    BY <1>1, <1>b DEF LocalTypes
  <1> QED BY <1>3, <1>7, <1>8, <1>9, <1>g, SumStep

\* The next candidate in alphabetical order is the next index.
LEMMA NextName ==
    ASSUME info \in Tasks, NEW j, Possible(j), Possible(j + 1)
    PROVE  IncrementString(Name(j)) = Name(j + 1)
  <1>1. Len(Name(j)) = info.unknown /\ IndexOf(Name(j)) = j
    BY NameIndex
  <1>2. info.unknown \in Nat
    BY TaskAssumption
  <1>3. Exp[info.unknown] \in Nat /\ Exp[info.unknown] > 0
    BY <1>2, ExpPositive
  <1>4. (j + 1) % Exp[info.unknown] = j + 1
    <2> DEFINE e == Exp[info.unknown]
    <2>1. j + 1 \in Nat /\ j + 1 < e /\ e \in Nat
      BY <1>3 DEF Possible
    <2> HIDE DEF e
    <2>2. (j + 1) % e = j + 1
      BY <2>1
    <2> QED BY <2>2 DEF e
  <1> QED BY <1>1, <1>4 DEF IncrementString, Name

LEMMA HashSum ==
    ASSUME IInv, SumInv, NEW w \in Workers, Hash(w)
    PROVE  SumInv'
  <1> DEFINE hit == IndexOf(pwd[w]) = info.answer
             to == IF hit THEN "report" ELSE "loop"
             h == Hashes(w)
             j == First(w) + h
  <1>1. /\ pc[w] = "hash" /\ pc' = [pc EXCEPT ![w] = to]
        /\ tried' = tried \cup {pwd[w]}
        /\ hit => pwd' = pwd /\ left' = left
        /\ ~hit => /\ pwd' = [pwd EXCEPT ![w] = IncrementString(pwd[w])]
                   /\ left' = [left EXCEPT ![w] = left[w] - 1]
        /\ UNCHANGED <<finishthread, found, passwordfound, info, totalcount, main, hashcount>>
    BY DEF Hash, Runs, Goto, shared, mainVars
  <1>a. pc[w] \in Working /\ to \in Working
    BY <1>1 DEF Working
  <1>2. main = "wait" /\ finishthread < N
    BY <1>a, Working1
  <1>b. LocalTypes /\ WorkerRight(w) /\ pwd = [v \in Workers |-> pwd[v]]
    BY <1>2 DEF SumInv, RoundRight, IInv, Lengths
  <1>c. /\ \A v \in Workers : v # w => left'[v] = left[v] /\ pwd'[v] = pwd[v]
        /\ hit => pwd'[w] = pwd[w]
        /\ ~hit => pwd'[w] = IncrementString(pwd[w]) /\ left'[w] = left[w] - 1
        /\ left' \in [Workers -> Int] /\ left[w] \in Int /\ hashcount[w] \in Nat
    <2> HIDE DEF hit
    <2> QED BY <1>1, <1>b DEF LocalTypes
  <1>3. Moves(w) /\ ~Finished(w) /\ ~Finished(w)' /\ pc'[w] = to /\ info \in Tasks
    <2> HIDE DEF to, hit
    <2> QED BY <1>1, <1>2, <1>a, <1>c, Inside
  <1>4. Began(w) /\ Began(w)'
    BY <1>1, <1>3 DEF Began
  <1>d. First(w)' = First(w) /\ Size(w)' = Size(w) /\ First(w) \in Nat /\ Size(w) \in Nat
    BY <1>1, <1>3, Bounds DEF First, Size
  <1>e. /\ left[w] = Size(w) - h /\ (left[w] > 0 => pwd[w] = Name(j))
        /\ NotThere(w) /\ h <= Size(w) /\ h \in Nat /\ left[w] > 0 /\ hashcount[w] > 0
    BY <1>1, <1>b DEF WorkerRight, Trying, InRange, AtHash
  <1>5. h = hashcount[w] - 1 /\ Hashes(w)' = h + 1
    <2>1. h = hashcount[w] - 1
      BY <1>1, <1>4 DEF Hashes
    <2>2. Hashes(w)' = hashcount[w]
      BY <1>1, <1>3, <1>4 DEF Hashes
    <2> QED BY <1>c, <2>1, <2>2
  <1>f. Possible(j) /\ (h + 1 < Size(w) => Possible(j + 1)) /\ pwd[w] = Name(j)
    BY <1>3, <1>d, <1>e, Bounds DEF Possible
  <1>g. IndexOf(pwd[w]) = j
    BY <1>3, <1>f, NameIndex
  <1>6. Segment(w)' = Segment(w) \cup {j}
    <2> HIDE DEF h
    <2>1. Segment(w)' = First(w) .. First(w) + (h + 1) - 1
      BY <1>5, <1>d DEF Segment
    <2>2. Segment(w) = First(w) .. First(w) + h - 1
      BY DEF Segment, h
    <2> QED BY <1>d, <1>e, <2>1, <2>2
  <1>h. ~hit => NotThere(w)'
    BY <1>1, <1>6, <1>e, <1>g DEF NotThere
  <1>7. WorkerRight(w)'
    <2>1. InRange(w)' /\ AtFinish(w)' /\ AtHash(w)'
      <3> HIDE DEF h, hit
      <3> QED BY <1>3, <1>5, <1>d, <1>e DEF InRange, AtFinish, AtHash
    <2>2. AtReport(w)'
      BY <1>1, <1>3, <1>c, <1>f, <1>g DEF AtReport, Possible
    <2>3. Trying(w)'
      <3>1. CASE hit
        BY <1>3, <3>1 DEF Trying
      <3>2. CASE ~hit
        <4>1. left'[w] = Size(w)' - Hashes(w)' /\ First(w)' + Hashes(w)' = j + 1
          <5> HIDE DEF h, hit
          <5> QED BY <3>2, <1>5, <1>c, <1>d, <1>e
        <4>2. left'[w] > 0 => h + 1 < Size(w)
          <5> HIDE DEF h, hit
          <5> QED BY <3>2, <1>5, <1>c, <1>d, <1>e
        <4>3. left'[w] > 0 => pwd'[w] = Name(j + 1)
          BY <3>2, <4>2, <1>3, <1>c, <1>f, NextName
        <4>4. left'[w] > 0 => pwd'[w] = Name(First(w) + Hashes(w))'
          BY <1>1, <4>1, <4>3 DEF Name
        <4> QED BY <3>2, <4>1, <4>4, <1>h DEF Trying
      <3> QED BY <3>1, <3>2
    <2> QED BY <2>1, <2>2, <2>3 DEF WorkerRight
  <1>8. TriedRight'
    <2>1. \A v \in Workers : v # w => Segment(v)' = Segment(v)
      BY <1>3, Same DEF Moves
    <2>2. \A i : Name(i)' = Name(i)
      BY <1>1 DEF Name
    <2>3. ASSUME NEW x PROVE x \in tried' <=> \E v \in Workers : \E i \in Segment(v)' : x = Name(i)'
      <3>1. x \in tried <=> \E v \in Workers : \E i \in Segment(v) : x = Name(i)
        BY <1>2 DEF SumInv, RoundRight, TriedRight
      <3>2. x \in tried' <=> x \in tried \/ x = Name(j)
        BY <1>1, <1>f
      <3> HIDE DEF j
      <3> QED BY <1>6, <2>1, <2>2, <3>1, <3>2
    <2> QED BY <2>3 DEF TriedRight, Workers
  <1>9. TotalRight'
    BY <1>1, <1>3, TotalKept
  <1>i. FoundRight'
    BY <1>1, <1>2 DEF SumInv, RoundRight, FoundRight, Possible
  <1>j. LocalTypes'
    BY <1>1, <1>b, <1>c DEF LocalTypes
  <1> QED BY <1>3, <1>7, <1>8, <1>9, <1>i, <1>j, SumStep
\* Finishing adds the worker's candidates to the total: they are in nobody
\* else's subrange.
LEMMA TotalAdds ==
    ASSUME SumInv, NEW w \in Workers, Moves(w), info \in Tasks, ~Finished(w), Finished(w)',
           \A v \in Workers : v # w => (Finished(v)' <=> Finished(v)),
           Segment(w)' = Segment(w), totalcount' = totalcount + Hashes(w)
    PROVE  TotalRight'
  <1>0. (\A v \in Workers : InRange(v)) /\ TotalRight
    BY DEF SumInv, RoundRight, WorkerRight, Moves
  <1>1. \A v \in Workers : Segment(v)' = Segment(v)
    BY Same DEF Moves
  <1>2. InTotal' = InTotal \cup Segment(w)
    <2>1. \A x : x \in InTotal' <=> \E v \in Workers : Finished(v)' /\ x \in Segment(v)'
      BY DEF InTotal, Workers
    <2>2. \A x : x \in InTotal <=> \E v \in Workers : Finished(v) /\ x \in Segment(v)
      BY DEF InTotal
    <2> QED BY <1>1, <2>1, <2>2
  <1>3. InTotal \cap Segment(w) = {}
    <2> SUFFICES ASSUME NEW x \in InTotal, x \in Segment(w) PROVE FALSE
      OBVIOUS
    <2>1. PICK v \in Workers : Finished(v) /\ x \in Segment(v)
      BY DEF InTotal
    <2>2. v # w
      BY <2>1
    <2>3. /\ First(w) \in Nat /\ First(v) \in Nat /\ Size(v) \in Nat /\ Size(w) \in Nat
          /\ First(w) + Size(w) <= First(v) \/ First(v) + Size(v) <= First(w)
      BY <2>2, Bounds
    <2>4. /\ Hashes(v) \in Nat /\ Hashes(v) <= Size(v)
          /\ Hashes(w) \in Nat /\ Hashes(w) <= Size(w)
      BY <1>0 DEF InRange
    <2>5. /\ x \in First(v) .. First(v) + Hashes(v) - 1
          /\ x \in First(w) .. First(w) + Hashes(w) - 1
      BY <2>1 DEF Segment
    <2> QED BY <2>3, <2>4, <2>5
  <1>4. IsFiniteSet(Segment(w)) /\ Cardinality(Segment(w)) = Hashes(w)
    <2>1. First(w) \in Nat /\ Hashes(w) \in Nat
      BY <1>0, Bounds DEF InRange
    <2> DEFINE a == First(w)
               b == First(w) + Hashes(w) - 1
    <2>2. a \in Int /\ b \in Int /\ Segment(w) = a .. b /\ b = a + Hashes(w) - 1
      BY <2>1 DEF Segment
    <2> HIDE DEF a, b
    <2>3. /\ IsFiniteSet(a .. b)
          /\ Cardinality(a .. b) = IF a > b THEN 0 ELSE b - a + 1
      BY <2>2, FS_Interval
    <2> QED BY <2>1, <2>2, <2>3
  <1>5. /\ IsFiniteSet(InTotal \cup Segment(w))
        /\ Cardinality(InTotal \cup Segment(w))
           = Cardinality(InTotal) + Cardinality(Segment(w)) - Cardinality({})
    BY <1>0, <1>3, <1>4, FS_Union DEF TotalRight
  <1>6. Cardinality({}) = 0 /\ Cardinality(InTotal) \in Nat /\ Hashes(w) \in Nat
    BY <1>0, FS_EmptySet, FS_CardinalityType DEF TotalRight, InRange
  <1> QED BY <1>0, <1>2, <1>4, <1>5, <1>6 DEF TotalRight

\* Both ways of finishing.
LEMMA Finishes ==
    ASSUME IInv, SumInv, NEW w \in Workers, Moves(w), main = "wait", pc[w] = "finish",
           pc'[w] \in {"ticket", "barrier"}, ~Finished(w), Finished(w)',
           totalcount' = totalcount + hashcount[w],
           UNCHANGED <<found, passwordfound, info, tried, pwd, left, hashcount>>
    PROVE  SumInv'
  <1>1. LocalTypes /\ WorkerRight(w) /\ info \in Tasks
    BY InRoundInfo DEF SumInv, RoundRight
  <1>2. Began(w) /\ Began(w)'
    BY DEF Began
  <1>3. /\ Hashes(w)' = Hashes(w) /\ First(w)' = First(w) /\ Size(w)' = Size(w)
        /\ Hashes(w) = hashcount[w]
    BY <1>2 DEF Hashes, First, Size
  <1>4. Segment(w)' = Segment(w)
    BY <1>3 DEF Segment
  <1>5. NotThere(w)' <=> NotThere(w)
    BY <1>4 DEF NotThere
  <1>6. WorkerRight(w)'
    BY <1>1, <1>3, <1>5 DEF WorkerRight, InRange, AtReport, AtHash, AtFinish, Trying
  <1>7. TriedRight'
    BY <1>4, TriedKept
  <1>8. TotalRight'
    BY <1>1, <1>3, <1>4, TotalAdds DEF Moves, Stays
  <1>9. FoundRight' /\ LocalTypes'
    BY <1>1 DEF SumInv, RoundRight, FoundRight, Possible, LocalTypes
  <1> QED BY <1>6, <1>7, <1>8, <1>9, SumStep

LEMMA FinishSum ==
    ASSUME IInv, SumInv, NEW w \in Workers, Finish(w)
    PROVE  SumInv'
  <1>1. /\ pc[w] = "finish" /\ pc' = [pc EXCEPT ![w] = "barrier"]
        /\ finishthread' = finishthread + 1 /\ finishthread + 1 # N
        /\ totalcount' = totalcount + hashcount[w]
        /\ UNCHANGED <<found, passwordfound, info, tried, pwd, left, hashcount, main>>
    BY DEF Finish, Runs, Goto, local, mainVars
  <1>2. main = "wait" /\ finishthread < N
    BY <1>1, Working1 DEF Working
  <1>3. pc'[w] = "barrier" /\ \A v \in Workers : v # w => pc'[v] = pc[v]
    BY <1>1 DEF IInv, TypeOK
  <1>4. finishthread # N /\ finishthread' # N
    BY <1>1, <1>2, NAssumption DEF IInv, TypeOK
  <1>5. Moves(w) /\ ~Finished(w) /\ Finished(w)'
    BY <1>1, <1>2, <1>3, <1>4 DEF Moves, Stays, Finished
  <1> QED BY <1>1, <1>2, <1>3, <1>5, Finishes

LEMMA LastToFinishSum ==
    ASSUME IInv, SumInv, NEW w \in Workers, LastToFinish(w)
    PROVE  SumInv'
  <1>1. /\ pc[w] = "finish" /\ pc' = [pc EXCEPT ![w] = "ticket"]
        /\ finishthread' = finishthread + 1 /\ finishthread + 1 = N
        /\ totalcount' = totalcount + hashcount[w]
        /\ UNCHANGED <<found, passwordfound, info, tried, pwd, left, hashcount, main>>
    BY DEF LastToFinish, Depart, Runs, Goto, local
  <1>2. main = "wait" /\ finishthread < N /\ finishthread = Number("barrier")
    BY <1>1, Working1 DEF Working
  <1>3. pc'[w] = "ticket" /\ \A v \in Workers : v # w => pc'[v] = pc[v]
    BY <1>1 DEF IInv, TypeOK
  <1>4. finishthread # N /\ finishthread' = N
    BY <1>1, <1>2, NAssumption DEF IInv, TypeOK
  <1>5. \A v \in Workers : v # w => pc[v] = "barrier"
    BY <1>1, <1>2, NAssumption, AllButOne DEF IInv, TypeOK
  <1>6. Moves(w) /\ ~Finished(w) /\ Finished(w)'
    BY <1>1, <1>2, <1>3, <1>4, <1>5 DEF Moves, Stays, Finished
  <1> QED BY <1>1, <1>2, <1>3, <1>6, Finishes

\* What every step keeps that leaves the workers and the round alone.
LEMMA SameSum ==
    ASSUME SumInv, UNCHANGED <<finishthread, found, passwordfound, info, totalcount, main, tried,
                               pc, pwd, left, hashcount>>
    PROVE  SumInv'
  <1>1. \A v : Stays(v)
    BY DEF Stays, Finished
  <1>2. main = "wait" => \A v \in Workers : WorkerRight(v)'
    BY <1>1, StaysRight DEF SumInv, RoundRight
  <1>3. FoundRight' <=> FoundRight
    BY DEF FoundRight, Possible
  <1>4. \A v : Segment(v)' = Segment(v) /\ Name(v)' = Name(v) /\ (Finished(v)' <=> Finished(v))
    BY <1>1, Same DEF Name, Stays
  <1>5. TriedRight' <=> TriedRight
    BY <1>4 DEF TriedRight, Workers
  <1>6. InTotal' = InTotal
    <2>1. \A x : x \in InTotal' <=> \E v \in Workers : Finished(v)' /\ x \in Segment(v)'
      BY DEF InTotal, Workers
    <2>2. \A x : x \in InTotal <=> \E v \in Workers : Finished(v) /\ x \in Segment(v)
      BY DEF InTotal
    <2> QED BY <1>4, <2>1, <2>2
  <1>7. TotalRight' <=> TotalRight
    BY <1>6 DEF TotalRight
  <1>8. LocalTypes'
    BY DEF SumInv, LocalTypes
  <1>9. RoundRight'
    BY <1>2, <1>3, <1>5, <1>7 DEF SumInv, RoundRight, Workers
  <1> QED BY <1>8, <1>9 DEF SumInv

LEMMA BarrierSum ==
    ASSUME IInv, SumInv, NEW w \in Workers, Barrier(w)
    PROVE  SumInv'
  <1>1. CASE StillWaiting(w)
    BY <1>1, SameSum DEF Barrier, shared, local
  <1>2. CASE ~StillWaiting(w)
    <2>1. /\ pc[w] = "barrier" /\ pc' = [pc EXCEPT ![w] = "ticket"]
          /\ UNCHANGED <<finishthread, found, passwordfound, info, totalcount, main, tried, pwd,
                         left, hashcount>>
      BY <1>2 DEF Barrier, Depart, Runs, Goto, local
    <2>2. main = "wait"
      BY <2>1 DEF IInv, TypeOK, Idle, Ending
    <2>3. finishthread = N
      BY <1>2, <2>2, NAssumption DEF StillWaiting, IInv, InRound, TypeOK
    <2>4. pc'[w] = "ticket" /\ \A v \in Workers : v # w => pc'[v] = pc[v]
      BY <2>1 DEF IInv, TypeOK
    <2>5. Moves(w) /\ Finished(w) /\ Finished(w)'
      BY <2>1, <2>2, <2>3, <2>4 DEF Moves, Stays, Finished
    <2>6. Hashes(w)' = Hashes(w) /\ First(w)' = First(w) /\ Size(w)' = Size(w)
      BY <2>1, <2>4, <2>5 DEF Hashes, Began, First, Size
    <2>7. Segment(w)' = Segment(w)
      BY <2>6 DEF Segment
    <2>8. NotThere(w)' <=> NotThere(w)
      BY <2>1, <2>7 DEF NotThere
    <2>9. LocalTypes /\ WorkerRight(w) /\ FoundRight
      BY <2>2 DEF SumInv, RoundRight
    <2>a. WorkerRight(w)'
      BY <2>1, <2>4, <2>5, <2>6, <2>8, <2>9 DEF WorkerRight, InRange, AtReport, AtHash, AtFinish, Trying
    <2>b. TriedRight' /\ TotalRight'
      BY <2>1, <2>5, <2>7, TriedKept, TotalKept
    <2>c. FoundRight' /\ LocalTypes'
      BY <2>1, <2>9 DEF FoundRight, Possible, LocalTypes
    <2> QED BY <2>5, <2>a, <2>b, <2>c, SumStep
  <1> QED BY <1>1, <1>2

LEMMA StartRoundSum ==
    ASSUME IInv, SumInv, NEW k \in Tasks, StartRound(k)
    PROVE  SumInv'
  <1>1. /\ main = "read" /\ main' = "wait" /\ info' = k
        /\ finishthread' = 0 /\ found' = 0 /\ totalcount' = 0 /\ tried' = {}
        /\ UNCHANGED <<pc, pwd, left, hashcount>>
    BY DEF StartRound, ResetRound, local
  <1>2. \A w \in Workers : pc'[w] = "ticket"
    BY <1>1 DEF IInv, Idle
  <1>3. 0 # N
    BY NAssumption
  <1>4. \A w \in Workers : ~Finished(w)' /\ ~Began(w)'
    BY <1>1, <1>2, <1>3 DEF Finished, Began
  <1>5. \A w \in Workers : /\ Hashes(w)' = 0
                           /\ First(w)' = StartIdx(k.unknown, w) /\ Size(w)' = Count(k.unknown, w)
    BY <1>1, <1>4 DEF Hashes, First, Size
  <1>6. \A w \in Workers : First(w)' \in Nat /\ Size(w)' \in Nat
    BY <1>5, Subranges, TaskAssumption
  <1>7. \A w \in Workers : Segment(w)' = {}
    BY <1>5, <1>6 DEF Segment
  <1>8. \A w \in Workers : WorkerRight(w)'
    BY <1>2, <1>4, <1>5, <1>6 DEF WorkerRight, InRange, AtReport, AtHash, AtFinish, Trying
  <1>9. FoundRight'
    BY <1>1 DEF FoundRight
  <1>a. TriedRight'
    <2>1. \A x : ~ \E w \in Workers : \E j \in Segment(w)' : x = Name(j)'
      BY <1>7
    <2> QED BY <1>1, <2>1 DEF TriedRight, Workers
  <1>b. TotalRight'
    <2>1. InTotal' = {}
      BY <1>4 DEF InTotal, Workers
    <2> QED BY <1>1, <2>1, FS_EmptySet DEF TotalRight
  <1>c. LocalTypes'
    BY <1>1 DEF SumInv, LocalTypes
  <1>d. RoundRight'
    BY <1>8, <1>9, <1>a, <1>b DEF RoundRight, Workers
  <1> QED BY <1>c, <1>d DEF SumInv

LEMMA NextSum ==
    ASSUME IInv, SumInv, [Next]_vars
    PROVE  SumInv'
  <1>1. ASSUME NEW w \in Workers, NoTicket(w) PROVE SumInv'
    BY <1>1, SameSum DEF NoTicket, shared, local, mainVars
  <1>2. ASSUME NEW w \in Workers, WorkerStep(w) PROVE SumInv'
    BY <1>1, <1>2, TakeTicketSum, BeginSum, CheckSum, HashSum, ReportSum, LastToFinishSum,
       FinishSum, BarrierSum DEF WorkerStep
  <1>3. CASE EndRound \/ EndOfInput \/ Join
    <2>1. LocalTypes' /\ main' # "wait"
      BY <1>3 DEF EndRound, EndOfInput, Join, local, SumInv, LocalTypes
    <2> QED BY <2>1 DEF SumInv, RoundRight
  <1>4. CASE MainSleepsOn
    BY <1>4, SameSum DEF MainSleepsOn, shared, local
  <1>5. CASE Spurious
    BY <1>5, SameSum DEF Spurious, shared, local
  <1>6. CASE UNCHANGED vars
    BY <1>6, SameSum DEF vars, shared, local, mainVars
  <1> QED BY <1>2, <1>3, <1>4, <1>5, <1>6, StartRoundSum DEF Next, MainStep, Over

LEMMA InitSum == Init => SumInv
  BY DEF Init, SumInv, LocalTypes, RoundRight
\* What the invariant says when main prints its summary.
LEMMA Summary ==
    ASSUME IInv, SumInv
    PROVE  SummaryCorrect
  <1> SUFFICES ASSUME RoundOver
               PROVE  /\ found = 1 <=> info.answer \in 0 .. Exp[info.unknown] - 1
                      /\ found = 1 => IndexOf(passwordfound) = info.answer
                      /\ found = 0 => tried = Candidates(info)
                      /\ totalcount = Cardinality(tried)
    BY DEF SummaryCorrect
  <1>1. main = "wait" /\ threadexit = N
    BY DEF RoundOver
  <1>2. finishthread = N
    BY <1>1, NAssumption, FiniteWorkers DEF IInv, InRound, TypeOK
  <1>3. /\ info \in Tasks /\ info.unknown \in Nat /\ info.answer \in Int
        /\ Exp[info.unknown] \in Nat
    BY <1>1, InRoundInfo, TaskAssumption, ExpPositive
  <1>4. (\A w \in Workers : WorkerRight(w)) /\ FoundRight /\ TriedRight /\ TotalRight
    BY <1>1 DEF SumInv, RoundRight
  <1>5. \A w \in Workers : Finished(w)
    BY <1>2 DEF Finished
  <1>6. \A w \in Workers : found = 1 \/ (Hashes(w) = Size(w) /\ NotThere(w))
    BY <1>4, <1>5 DEF WorkerRight, AtFinish
  <1>7. \A j : Possible(j) /\ found = 0 => \E w \in Workers : j \in Segment(w)
    <2> SUFFICES ASSUME NEW j, Possible(j), found = 0 PROVE \E w \in Workers : j \in Segment(w)
      OBVIOUS
    <2>1. PICK w \in Workers : First(w) <= j /\ j < First(w) + Size(w)
      BY <1>3, Covered DEF Possible, First, Size
    <2>2. First(w) \in Nat /\ Size(w) \in Nat /\ Hashes(w) = Size(w) /\ j \in Nat
      BY <1>3, <1>6, Bounds DEF Possible
    <2>3. j \in Segment(w)
      BY <2>1, <2>2 DEF Segment
    <2> QED BY <2>3
  <1>8. \A w \in Workers : \A j \in Segment(w) : Possible(j)
    <2> SUFFICES ASSUME NEW w \in Workers, NEW j \in Segment(w) PROVE Possible(j)
      OBVIOUS
    <2>1. /\ First(w) \in Nat /\ Size(w) \in Nat /\ First(w) + Size(w) <= Exp[info.unknown]
          /\ Hashes(w) \in Nat /\ Hashes(w) <= Size(w)
      BY <1>3, <1>4, Bounds DEF WorkerRight, InRange
    <2>2. j \in First(w) .. First(w) + Hashes(w) - 1
      BY DEF Segment
    <2> QED BY <1>3, <2>1, <2>2 DEF Possible
  <1>9. found = 1 <=> info.answer \in 0 .. Exp[info.unknown] - 1
    <2>1. ASSUME found = 1 PROVE info.answer \in 0 .. Exp[info.unknown] - 1
      BY <1>3, <1>4, <2>1 DEF FoundRight, Possible
    <2>2. ASSUME info.answer \in 0 .. Exp[info.unknown] - 1, found # 1 PROVE FALSE
      <3>1. Possible(info.answer) /\ found = 0
        BY <1>3, <1>4, <2>2 DEF Possible, FoundRight
      <3>2. PICK w \in Workers : info.answer \in Segment(w)
        BY <1>7, <3>1
      <3> QED BY <1>6, <2>2, <3>2 DEF NotThere
    <2> QED BY <2>1, <2>2
  <1>10. found = 0 => tried = Candidates(info)
    <2> SUFFICES ASSUME found = 0 PROVE tried = Candidates(info)
      OBVIOUS
    <2>1. ASSUME NEW x \in tried PROVE x \in Candidates(info)
      <3>1. PICK w \in Workers : \E j \in Segment(w) : x = Name(j)
        BY <1>4 DEF TriedRight
      <3>2. PICK j \in Segment(w) : x = Name(j)
        BY <3>1
      <3> QED BY <1>3, <1>8, <3>2, NameIndex
    <2>2. ASSUME NEW x \in Candidates(info) PROVE x \in tried
      <3>1. x \in Digits(info.unknown)
        BY DEF Candidates, Digits
      <3>2. Possible(IndexOf(x)) /\ x = Name(IndexOf(x))
        BY <1>3, <3>1, IndexOfString DEF Possible, Name
      <3>3. \E w \in Workers : IndexOf(x) \in Segment(w)
        BY <1>7, <3>2
      <3> QED BY <1>4, <3>2, <3>3 DEF TriedRight
    <2> QED BY <2>1, <2>2
  <1>11. totalcount = Cardinality(tried)
    <2> DEFINE f == [j \in InTotal |-> Name(j)]
    <2>1. \A j : j \in InTotal <=> \E w \in Workers : j \in Segment(w)
      BY <1>5 DEF InTotal
    <2>2. \A x : x \in tried <=> \E j \in InTotal : x = Name(j)
      BY <1>4, <2>1 DEF TriedRight
    <2>3. \A j \in InTotal : IndexOf(Name(j)) = j
      BY <1>3, <1>8, <2>1, NameIndex
    <2>4. f \in [InTotal -> tried]
      BY <2>2
    <2>5. f \in Injection(InTotal, tried)
      <3>1. \A i \in InTotal : \A j \in InTotal : f[i] = f[j] => i = j
        BY <2>3
      <3> QED BY <2>4, <3>1 DEF Injection, IsInjective
    <2>6. f \in Surjection(InTotal, tried)
      <3>1. \A x \in tried : \E j \in InTotal : f[j] = x
        BY <2>2
      <3> QED BY <2>4, <3>1 DEF Surjection
    <2> HIDE DEF f
    <2>7. Cardinality(tried) = Cardinality(InTotal)
      BY <1>4, <2>5, <2>6, FS_Surjection DEF TotalRight
    <2> QED BY <1>4, <2>7 DEF TotalRight
  <1> QED BY <1>4, <1>9, <1>10, <1>11 DEF FoundRight

\* When main of cracker2.c prints its summary, for every number of workers,
\* alphabet and password: the password has been found if it is among the
\* candidates (the split of getSubrange leaves none out), the one found is the
\* right one, without success every candidate was hashed, and the total is the
\* number of candidates hashed: no worker's hashes are lost or counted twice.
THEOREM SummaryExact == Spec => []SummaryCorrect
  <1>1. Init => IInv /\ SumInv
    BY InitInv, InitSum
  <1>2. IInv /\ SumInv /\ [Next]_vars => (IInv /\ SumInv)'
    BY NextInv, NextSum
  <1>3. IInv /\ SumInv => SummaryCorrect
    BY Summary
  <1> QED BY <1>1, <1>2, <1>3, PTL DEF Spec
-----------------------------------------------------------------------------
(* mapreduce.c, for every number of mappers, lines and capacity of pipes   *)
(* and whoever may fail.  MR is mapreduce as MCWorkers has it.             *)

LEMMA SomeMapper == NumMap \in Nat /\ NumMap > 0
  BY PipesAssumption DEF MR!PipesOK

Processes == MR!Children \cup {MR!Parent}
Item == MR!Children \X (Nat \cup {"execlpfail"})
ChildStates == {"none", "forked", "running", "failing", "exited"}
LastFork == 2 * NumMap + 1

\* x is in the sequence s.
In(x, s) == \E k \in 1 .. Len(s) : s[k] = x

PipeTypes ==
  /\ step \in Nat /\ step > 0
  /\ state \in [MR!Children -> ChildStates]
  /\ holds \in [Processes -> SUBSET MR!Ends]
  /\ pipe \in [0 .. NumMap -> Seq(Item)]
  /\ written \in [MR!Indices -> Nat]
  /\ line \in [MR!Indices -> Seq(Item)]
  /\ \A i \in MR!Indices : line[i] = << >> \/ \E x \in Item : line[i] = <<x>>

\* The parent has what the children it has yet to fork will need.
ParentHolds ==
  /\ \A i \in 0 .. NumMap : MR!Rd(i) \in holds[MR!Parent]
  /\ \A i \in MR!Indices : step <= i => MR!Wr(i) \in holds[MR!Parent]
  /\ step <= 2 * NumMap => MR!Wr(0) \in holds[MR!Parent]

NotForked == \A k \in 1 .. LastFork : k >= step => state[MR!Forks[k]] = "none"

\* Until it exits, a child holds its own ends.
OwnEnds == \A p \in MR!Children :
             state[p] \in {"forked", "failing", "running"} => MR!Kept(p) \subseteq holds[p]

ExecFailed == /\ \A p \in MR!Children : state[p] = "failing" => <<p, "exec">> \in failed
              /\ \A p \in MR!Children : <<p, "exec">> \in failed => state[p] \in {"failing", "exited"}

Unwritten == \A i \in MR!Indices : state[MR!Splitter(i)] \in {"none", "forked"} => written[i] = 0

Quiet(i) == pipe[i] = << >> /\ \A p \in Processes : MR!Wr(i) \notin holds[p]

\* Who has exited has seen the end of its input, which stays the end.
MappersDone == ~MR!Broken => \A i \in MR!Indices :
                 state[MR!Mapper(i)] = "exited" => line[i] = << >> /\ Quiet(i)
ReducerDone == ~MR!Broken => (state[MR!Reducer] = "exited" => Quiet(0))

Waited == \A k \in 1 .. LastFork : step > LastFork + k => state[MR!Waits[k]] = "exited"

\* What was written is in a pipe, with a mapper or with the reducer.
Flow(x) == \/ x \in received
           \/ \E i \in 0 .. NumMap : In(x, pipe[i])
           \/ \E i \in MR!Indices : In(x, line[i])
SentBy(i, x) == IF <<MR!Splitter(i), "exec">> \in failed
                THEN state[MR!Splitter(i)] = "exited" /\ x = <<MR!Splitter(i), "execlpfail">>
                ELSE \E k \in 1 .. written[i] : x = <<MR!Splitter(i), k>>
Conserved == ~MR!Broken => \A x : Flow(x) <=> \E i \in MR!Indices : SentBy(i, x)

PipeInv == /\ PipeTypes /\ ParentHolds /\ NotForked /\ OwnEnds /\ ExecFailed /\ Unwritten
           /\ MappersDone /\ ReducerDone /\ Waited /\ Conserved

-----------------------------------------------------------------------------
LEMMA InAppend ==
    ASSUME NEW T, NEW s \in Seq(T), NEW y \in T, NEW x
    PROVE  In(x, Append(s, y)) <=> In(x, s) \/ x = y
  <1> DEFINE r == Append(s, y)
  <1>1. /\ Len(s) \in Nat /\ Len(r) = Len(s) + 1 /\ r[Len(s) + 1] = y
        /\ \A k \in 1 .. Len(s) : r[k] = s[k]
    OBVIOUS
  <1>2. \A k \in 1 .. Len(r) : k \in 1 .. Len(s) \/ k = Len(s) + 1
    BY <1>1
  <1>3. \A k \in 1 .. Len(s) : k \in 1 .. Len(r)
    BY <1>1
  <1>4. Len(s) + 1 \in 1 .. Len(r)
    BY <1>1
  <1> HIDE DEF r
  <1>5. In(x, r) <=> In(x, s) \/ x = y
    BY <1>1, <1>2, <1>3, <1>4 DEF In
  <1> QED BY <1>5 DEF r

LEMMA InTail ==
    ASSUME NEW T, NEW s \in Seq(T), s # << >>, NEW x
    PROVE  /\ Head(s) \in T /\ Tail(s) \in Seq(T)
           /\ In(x, s) <=> x = Head(s) \/ In(x, Tail(s))
  <1> DEFINE r == Tail(s)
             h == Head(s)
  <1>1. /\ Len(s) \in Nat /\ Len(s) > 0 /\ Len(r) = Len(s) - 1 /\ h = s[1] /\ h \in T
        /\ r \in Seq(T) /\ \A k \in 1 .. Len(s) - 1 : r[k] = s[k + 1]
    OBVIOUS
  <1>2. \A k \in 1 .. Len(s) : k = 1 \/ (k - 1 \in 1 .. Len(r) /\ (k - 1) + 1 = k)
    BY <1>1
  <1>3. \A k \in 1 .. Len(r) : k + 1 \in 1 .. Len(s) /\ k \in 1 .. Len(s) - 1
    BY <1>1
  <1>4. 1 \in 1 .. Len(s)
    BY <1>1
  <1> HIDE DEF r, h
  <1>5. ASSUME In(x, s) PROVE x = h \/ In(x, r)
    <2>1. PICK k \in 1 .. Len(s) : s[k] = x
      BY <1>5 DEF In
    <2>2. CASE k = 1
      BY <1>1, <2>1, <2>2
    <2>3. CASE k # 1
      <3>1. k - 1 \in 1 .. Len(r) /\ (k - 1) + 1 = k
        BY <1>2, <2>3
      <3>2. r[k - 1] = x
        BY <1>1, <1>3, <2>1, <3>1
      <3> QED BY <3>1, <3>2 DEF In
    <2> QED BY <2>2, <2>3
  <1>6. ASSUME x = h \/ In(x, r) PROVE In(x, s)
    <2>1. CASE x = h
      BY <1>1, <1>4, <2>1 DEF In
    <2>2. CASE In(x, r)
      <3>1. PICK k \in 1 .. Len(r) : r[k] = x
        BY <2>2 DEF In
      <3>2. s[k + 1] = x /\ k + 1 \in 1 .. Len(s)
        BY <1>1, <1>3, <3>1
      <3> QED BY <3>2 DEF In
    <2> QED BY <1>6, <2>1, <2>2
  <1> QED BY <1>1, <1>5, <1>6 DEF r, h

LEMMA InEmpty == ASSUME NEW x PROVE ~In(x, << >>)
  BY DEF In

LEMMA InOne == ASSUME NEW x, NEW y PROVE In(x, <<y>>) <=> x = y
  BY DEF In

-----------------------------------------------------------------------------
(* Children and the order in which they are forked and waited for.         *)

LEMMA Kids ==
    ASSUME NEW i \in MR!Indices
    PROVE  /\ MR!Splitter(i) \in MR!Children /\ MR!Mapper(i) \in MR!Children
           /\ MR!Reducer \in MR!Children
           /\ MR!Splitter(i)[1] = "splitter" /\ MR!Splitter(i)[2] = i
           /\ MR!Mapper(i)[1] = "mapper" /\ MR!Mapper(i)[2] = i
           /\ MR!Splitter(i) # MR!Reducer /\ MR!Mapper(i) # MR!Reducer
           /\ \A j \in MR!Indices : /\ MR!Splitter(i) # MR!Mapper(j)
                                    /\ MR!Splitter(i) = MR!Splitter(j) => i = j
                                    /\ MR!Mapper(i) = MR!Mapper(j) => i = j
  BY DEF MR!Children, MR!Splitter, MR!Mapper, MR!Reducer

LEMMA ChildIs ==
    ASSUME NEW p \in MR!Children
    PROVE  /\ \/ \E i \in MR!Indices : p = MR!Splitter(i)
              \/ \E i \in MR!Indices : p = MR!Mapper(i)
              \/ p = MR!Reducer
           /\ p # MR!Parent /\ p \in Processes /\ MR!Reducer \in MR!Children /\ MR!Parent \in Processes
  BY DEF MR!Children, MR!Splitter, MR!Mapper, MR!Reducer, MR!Parent, Processes

LEMMA KeptEnds ==
    /\ \A i \in MR!Indices : MR!Kept(MR!Splitter(i)) = {MR!Wr(i)}
    /\ \A i \in MR!Indices : MR!Kept(MR!Mapper(i)) = {MR!Rd(i), MR!Wr(0)}
    /\ MR!Kept(MR!Reducer) = {MR!Rd(0)}
  BY DEF MR!Kept, MR!Splitter, MR!Mapper, MR!Reducer

LEMMA EndsApart ==
    ASSUME NEW i, NEW j
    PROVE  (MR!Wr(i) = MR!Wr(j) => i = j) /\ MR!Rd(i) # MR!Wr(j)
  BY DEF MR!Wr, MR!Rd

LEMMA ForksLen == Len(MR!Forks) = LastFork /\ Len(MR!Waits) = LastFork /\ LastFork \in Nat
  <1>1. LastFork \in Nat
    BY SomeMapper DEF LastFork
  <1>2. DOMAIN MR!Forks = 1 .. LastFork /\ DOMAIN MR!Waits = 1 .. LastFork
    BY DEF MR!Forks, MR!Waits, LastFork
  <1>3. Len(MR!Forks) = LastFork
    BY <1>1 DEF MR!Forks, LastFork
  <1>4. Len(MR!Waits) = LastFork
    BY <1>1 DEF MR!Waits, LastFork
  <1> QED BY <1>1, <1>3, <1>4

LEMMA ForkOrder ==
    ASSUME NEW k \in 1 .. LastFork
    PROVE  /\ k <= NumMap => k \in MR!Indices /\ MR!Forks[k] = MR!Splitter(k)
           /\ k > NumMap /\ k <= 2 * NumMap => k - NumMap \in MR!Indices /\ MR!Forks[k] = MR!Mapper(k - NumMap)
           /\ k > 2 * NumMap => MR!Forks[k] = MR!Reducer
           /\ MR!Forks[k] \in MR!Children
  <1>1. k \in Nat /\ k >= 1 /\ k <= 2 * NumMap + 1
    BY SomeMapper DEF LastFork
  <1>2. MR!Forks[k] = IF k <= NumMap THEN MR!Splitter(k)
                      ELSE IF k <= 2 * NumMap THEN MR!Mapper(k - NumMap) ELSE MR!Reducer
    BY DEF MR!Forks, LastFork
  <1>3. k <= NumMap => k \in MR!Indices
    BY <1>1, SomeMapper DEF MR!Indices
  <1>4. k > NumMap /\ k <= 2 * NumMap => k - NumMap \in MR!Indices
    BY <1>1, SomeMapper DEF MR!Indices
  <1>5. CASE k <= NumMap
    BY <1>1, <1>2, <1>3, <1>5, Kids, SomeMapper
  <1>6. CASE ~(k <= NumMap) /\ k <= 2 * NumMap
    <2>1. k - NumMap \in MR!Indices /\ ~(k > 2 * NumMap)
      BY <1>1, <1>4, <1>6, SomeMapper
    <2>2. MR!Forks[k] = MR!Mapper(k - NumMap)
      BY <1>2, <1>6
    <2>3. MR!Mapper(k - NumMap) \in MR!Children
      BY <2>1, Kids
    <2> QED BY <1>6, <2>1, <2>2, <2>3
  <1>7. CASE ~(k <= NumMap) /\ ~(k <= 2 * NumMap)
    <2>1. MR!Reducer \in MR!Children
      BY DEF MR!Children
    <2> QED BY <1>2, <1>7, <2>1
  <1> QED BY <1>5, <1>6, <1>7

LEMMA ForksApart ==
    ASSUME NEW k \in 1 .. LastFork, NEW l \in 1 .. LastFork, MR!Forks[k] = MR!Forks[l]
    PROVE  k = l
  <1>1. k \in Nat /\ l \in Nat /\ k <= 2 * NumMap + 1 /\ l <= 2 * NumMap + 1
    BY SomeMapper DEF LastFork
  <1>2. CASE k <= NumMap
    <2>1. k \in MR!Indices /\ MR!Forks[l] = MR!Splitter(k)
      BY <1>2, ForkOrder
    <2>2. l <= NumMap
      BY <1>1, <2>1, ForkOrder, Kids, SomeMapper
    <2> QED BY <2>1, <2>2, ForkOrder, Kids
  <1>3. CASE k > NumMap /\ k <= 2 * NumMap
    <2>1. k - NumMap \in MR!Indices /\ MR!Forks[l] = MR!Mapper(k - NumMap)
      BY <1>3, ForkOrder
    <2>2. l > NumMap /\ l <= 2 * NumMap
      BY <1>1, <2>1, ForkOrder, Kids, SomeMapper
    <2>3. l - NumMap \in MR!Indices /\ MR!Forks[l] = MR!Mapper(l - NumMap)
      BY <2>2, ForkOrder
    <2>4. k - NumMap = l - NumMap
      BY <2>1, <2>3, Kids
    <2> QED BY <1>1, <2>4, SomeMapper
  <1>4. CASE k > 2 * NumMap
    <2>1. MR!Forks[l] = MR!Reducer
      BY <1>4, ForkOrder
    <2>2. l > 2 * NumMap
      BY <1>1, <2>1, ForkOrder, Kids, SomeMapper
    <2> QED BY <1>1, <1>4, <2>2, SomeMapper
  <1> QED BY <1>1, <1>2, <1>3, <1>4, SomeMapper
LEMMA WaitOrder ==
    /\ \A k \in 1 .. LastFork : MR!Waits[k] \in MR!Children
    /\ \A p \in MR!Children : \E k \in 1 .. LastFork : MR!Waits[k] = p
  <1>0. NumMap \in Nat /\ LastFork = 2 * NumMap + 1 /\ LastFork \in Nat
    BY SomeMapper DEF LastFork
  <1>1. \A k \in 1 .. LastFork :
          MR!Waits[k] = IF k > 2 * NumMap THEN MR!Reducer
                        ELSE IF k % 2 = 1 THEN MR!Splitter((k + 1) \div 2) ELSE MR!Mapper(k \div 2)
    BY DEF MR!Waits, LastFork
  <1>2. MR!Reducer \in MR!Children
    BY DEF MR!Children
  <1>3. ASSUME NEW k \in 1 .. LastFork PROVE MR!Waits[k] \in MR!Children
    <2>0. k \in Nat /\ k >= 1
      BY <1>0
    <2>1. CASE k > 2 * NumMap
      BY <1>1, <1>2, <2>1
    <2>2. CASE ~(k > 2 * NumMap) /\ k % 2 = 1
      <3>1. (k + 1) \div 2 \in MR!Indices
        BY <1>0, <2>0, <2>2 DEF MR!Indices
      <3>2. MR!Waits[k] = MR!Splitter((k + 1) \div 2)
        BY <1>1, <2>2
      <3> QED BY <3>1, <3>2, Kids
    <2>3. CASE ~(k > 2 * NumMap) /\ k % 2 # 1
      <3>1. k \div 2 \in MR!Indices
        BY <1>0, <2>0, <2>3 DEF MR!Indices
      <3>2. MR!Waits[k] = MR!Mapper(k \div 2)
        BY <1>1, <2>3
      <3> QED BY <3>1, <3>2, Kids
    <2> QED BY <2>1, <2>2, <2>3
  <1>4. ASSUME NEW p \in MR!Children PROVE \E k \in 1 .. LastFork : MR!Waits[k] = p
    <2>1. CASE \E i \in MR!Indices : p = MR!Splitter(i)
      <3>1. PICK i \in MR!Indices : p = MR!Splitter(i)
        BY <2>1
      <3> DEFINE k == 2 * i - 1
      <3>2. k \in 1 .. LastFork /\ ~(k > 2 * NumMap) /\ k % 2 = 1 /\ (k + 1) \div 2 = i
        BY <1>0 DEF MR!Indices
      <3> HIDE DEF k
      <3>3. MR!Waits[k] = MR!Splitter((k + 1) \div 2)
        BY <1>1, <3>2
      <3> QED BY <3>1, <3>2, <3>3
    <2>2. CASE \E i \in MR!Indices : p = MR!Mapper(i)
      <3>1. PICK i \in MR!Indices : p = MR!Mapper(i)
        BY <2>2
      <3> DEFINE k == 2 * i
      <3>2. k \in 1 .. LastFork /\ ~(k > 2 * NumMap) /\ k % 2 # 1 /\ k \div 2 = i
        BY <1>0 DEF MR!Indices
      <3> HIDE DEF k
      <3>3. MR!Waits[k] = MR!Mapper(k \div 2)
        BY <1>1, <3>2
      <3> QED BY <3>1, <3>2, <3>3
    <2>3. CASE p = MR!Reducer
      <3>1. LastFork \in 1 .. LastFork /\ LastFork > 2 * NumMap
        BY <1>0
      <3> QED BY <1>1, <2>3, <3>1
    <2> QED BY <2>1, <2>2, <2>3, ChildIs
  <1> QED BY <1>3, <1>4

-----------------------------------------------------------------------------
(* What a step may do to who holds what, and to the ends that were seen.   *)

NoNewHolders == \A e : (\A p \in Processes : e \notin holds[p])
                         => \A p \in Processes : e \notin holds'[p]
QuietStays == \A i \in 0 .. NumMap : Quiet(i) => pipe'[i] = << >>
ExitsAtEnd ==
  /\ \A i \in MR!Indices : state'[MR!Mapper(i)] = "exited" =>
       \/ state[MR!Mapper(i)] = "exited" /\ line'[i] = line[i]
       \/ MR!Broken'
       \/ line'[i] = << >> /\ Quiet(i)
  /\ state'[MR!Reducer] = "exited" => state[MR!Reducer] = "exited" \/ MR!Broken' \/ Quiet(0)

LEMMA BrokenStays ==
    ASSUME failed \subseteq failed'
    PROVE  MR!Broken => MR!Broken'
  BY DEF MR!Broken

LEMMA DoneStays ==
    ASSUME PipeInv, NoNewHolders, QuietStays, ExitsAtEnd, failed \subseteq failed'
    PROVE  MappersDone' /\ ReducerDone'
  <1>1. ASSUME NEW i \in 0 .. NumMap, Quiet(i) PROVE Quiet(i)'
    <2>1. pipe'[i] = << >>
      BY <1>1 DEF QuietStays
    <2>2. \A p \in Processes : MR!Wr(i) \notin holds[p]
      BY <1>1 DEF Quiet
    <2>3. \A p \in Processes : MR!Wr(i) \notin holds'[p]
      BY <2>2 DEF NoNewHolders
    <2> QED BY <2>1, <2>3 DEF Quiet, Processes, MR!Wr
  <1>2. \A i \in MR!Indices : i \in 0 .. NumMap
    BY SomeMapper DEF MR!Indices
  <1>3. 0 \in 0 .. NumMap
    BY SomeMapper
  <1>4. ~MR!Broken' => ~MR!Broken
    BY BrokenStays
  <1>5. MappersDone'
    <2> SUFFICES ASSUME ~MR!Broken', NEW i \in MR!Indices, state'[MR!Mapper(i)] = "exited"
                 PROVE  line'[i] = << >> /\ Quiet(i)'
      BY DEF MappersDone, MR!Mapper, MR!Indices
    <2>1. CASE state[MR!Mapper(i)] = "exited" /\ line'[i] = line[i]
      <3>1. line[i] = << >> /\ Quiet(i)
        BY <1>4, <2>1 DEF PipeInv, MappersDone
      <3> QED BY <1>1, <1>2, <2>1, <3>1
    <2>2. CASE line'[i] = << >> /\ Quiet(i)
      BY <1>1, <1>2, <2>2
    <2> QED BY <2>1, <2>2 DEF ExitsAtEnd
  <1>6. ReducerDone'
    <2> SUFFICES ASSUME ~MR!Broken', state'[MR!Reducer] = "exited" PROVE Quiet(0)'
      BY DEF ReducerDone, MR!Reducer
    <2>1. Quiet(0)
      BY <1>4 DEF PipeInv, ReducerDone, ExitsAtEnd
    <2> QED BY <1>1, <1>3, <2>1
  <1> QED BY <1>5, <1>6

\* A step of child p, which has been forked and has not exited.
ChildMoves(p) ==
  /\ step' = step /\ state[p] \in {"forked", "running", "failing"}
  /\ state' \in [MR!Children -> ChildStates] /\ holds' \in [Processes -> SUBSET MR!Ends]
  /\ \A c \in MR!Children : c # p => state'[c] = state[c]
  /\ \A c \in Processes : c # p => holds'[c] = holds[c]
  /\ holds'[p] \subseteq holds[p]
  /\ state'[p] # "exited" => MR!Kept(p) \subseteq holds'[p]

LEMMA ChildCommon ==
    ASSUME PipeInv, NEW p \in MR!Children, ChildMoves(p)
    PROVE  ParentHolds' /\ NotForked' /\ OwnEnds' /\ Waited' /\ NoNewHolders
  <1>0. PipeTypes /\ ParentHolds /\ NotForked /\ OwnEnds /\ Waited
    BY DEF PipeInv
  <1>1. ParentHolds'
    <2>1. holds'[MR!Parent] = holds[MR!Parent] /\ step' = step
      BY ChildIs DEF ChildMoves
    <2> QED BY <1>0, <2>1 DEF ParentHolds, MR!Parent, MR!Wr, MR!Rd, MR!Indices
  <1>2. NotForked'
    <2> SUFFICES ASSUME NEW k \in 1 .. LastFork, k >= step PROVE state'[MR!Forks[k]] = "none"
      BY DEF NotForked, ChildMoves, LastFork, MR!Forks, MR!Splitter, MR!Mapper, MR!Reducer
    <2>1. state[MR!Forks[k]] = "none"
      BY <1>0 DEF NotForked
    <2>2. MR!Forks[k] # p
      BY <2>1 DEF ChildMoves
    <2> QED BY <2>1, <2>2, ForkOrder DEF ChildMoves
  <1>3. OwnEnds'
    <2> SUFFICES ASSUME NEW c \in MR!Children, state'[c] \in {"forked", "failing", "running"}
                 PROVE  MR!Kept(c) \subseteq holds'[c]
      BY DEF OwnEnds, MR!Kept, MR!Children, MR!Splitter, MR!Mapper, MR!Reducer, MR!Indices, MR!Wr, MR!Rd
    <2>1. CASE c = p
      BY <2>1 DEF ChildMoves
    <2>2. CASE c # p
      <3>1. c \in Processes
        BY DEF Processes
      <3> QED BY <1>0, <2>2, <3>1 DEF ChildMoves, OwnEnds
    <2> QED BY <2>1, <2>2
  <1>4. Waited'
    <2> SUFFICES ASSUME NEW k \in 1 .. LastFork, step > LastFork + k PROVE state'[MR!Waits[k]] = "exited"
      BY DEF Waited, ChildMoves, LastFork, MR!Waits, MR!Splitter, MR!Mapper, MR!Reducer
    <2>1. state[MR!Waits[k]] = "exited"
      BY <1>0 DEF Waited
    <2>2. MR!Waits[k] # p
      BY <2>1 DEF ChildMoves
    <2> QED BY <2>1, <2>2, WaitOrder DEF ChildMoves
  <1>5. NoNewHolders
    BY DEF NoNewHolders, ChildMoves
  <1> QED BY <1>1, <1>2, <1>3, <1>4, <1>5

\* The same for the ends that were seen, when child p neither exits nor writes.
LEMMA SameExits ==
    ASSUME PipeInv, NEW p \in MR!Children, ChildMoves(p), state'[p] # "exited",
           pipe' = pipe, line' = line
    PROVE  QuietStays /\ ExitsAtEnd
  <1>1. QuietStays
    BY DEF QuietStays, Quiet
  <1>2. \A c \in MR!Children : state'[c] = "exited" => state[c] = "exited"
    BY DEF ChildMoves
  <1>3. \A i \in MR!Indices : MR!Mapper(i) \in MR!Children
    BY Kids
  <1>4. MR!Reducer \in MR!Children
    BY DEF MR!Children
  <1>5. ExitsAtEnd
    BY <1>2, <1>3, <1>4 DEF ExitsAtEnd
  <1> QED BY <1>1, <1>5
-----------------------------------------------------------------------------
(* What a step does to the lines on their way.                             *)

FlowSame == \A x : Flow(x)' <=> Flow(x)
FlowAdds(y) == \A x : Flow(x)' <=> Flow(x) \/ x = y
SentSame == \A j \in MR!Indices : \A x : SentBy(j, x)' <=> SentBy(j, x)
SentAdds(i, y) == \A j \in MR!Indices : \A x : SentBy(j, x)' <=> SentBy(j, x) \/ (j = i /\ x = y)

LEMMA ConservedStays ==
    ASSUME Conserved, failed \subseteq failed', FlowSame, SentSame
    PROVE  Conserved'
  <1>1. SUFFICES ASSUME ~MR!Broken', NEW x PROVE Flow(x)' <=> \E j \in MR!Indices : SentBy(j, x)'
    BY DEF Conserved, MR!Indices
  <1>2. Flow(x) <=> \E j \in MR!Indices : SentBy(j, x)
    BY <1>1, BrokenStays DEF Conserved
  <1> QED BY <1>2 DEF FlowSame, SentSame

LEMMA ConservedAdds ==
    ASSUME Conserved, failed \subseteq failed', NEW y, NEW i \in MR!Indices, FlowAdds(y), SentAdds(i, y)
    PROVE  Conserved'
  <1>1. SUFFICES ASSUME ~MR!Broken', NEW x PROVE Flow(x)' <=> \E j \in MR!Indices : SentBy(j, x)'
    BY DEF Conserved, MR!Indices
  <1>2. Flow(x) <=> \E j \in MR!Indices : SentBy(j, x)
    BY <1>1, BrokenStays DEF Conserved
  <1>3. Flow(x)' <=> Flow(x) \/ x = y
    BY DEF FlowAdds
  <1>4. \A j \in MR!Indices : SentBy(j, x)' <=> SentBy(j, x) \/ (j = i /\ x = y)
    BY DEF SentAdds
  <1> QED BY <1>2, <1>3, <1>4

\* Broken steps need not keep anything.
LEMMA ConservedBroken == ASSUME MR!Broken' PROVE Conserved'
  BY DEF Conserved

LEMMA FlowUnchanged == ASSUME pipe' = pipe, line' = line, received' = received PROVE FlowSame
  BY DEF FlowSame, Flow, In, MR!Indices

LEMMA FlowPut ==
    ASSUME PipeTypes, NEW i \in 0 .. NumMap, NEW y \in Item,
           pipe' = [pipe EXCEPT ![i] = Append(@, y)], line' = line, received' = received
    PROVE  FlowAdds(y) /\ pipe' \in [0 .. NumMap -> Seq(Item)] /\ pipe'[i] # << >>
           /\ \A j \in 0 .. NumMap : j # i => pipe'[j] = pipe[j]
  <1>1. pipe[i] \in Seq(Item) /\ pipe'[i] = Append(pipe[i], y)
        /\ \A j \in 0 .. NumMap : j # i => pipe'[j] = pipe[j]
    BY DEF PipeTypes
  <1>2. Append(pipe[i], y) \in Seq(Item) /\ Append(pipe[i], y) # << >>
    BY <1>1
  <1>3. pipe' \in [0 .. NumMap -> Seq(Item)]
    BY <1>2 DEF PipeTypes
  <1>4. ASSUME NEW x PROVE Flow(x)' <=> Flow(x) \/ x = y
    <2>1. In(x, pipe'[i]) <=> In(x, pipe[i]) \/ x = y
      BY <1>1, InAppend
    <2>2. \A j \in 0 .. NumMap : j # i => (In(x, pipe'[j]) <=> In(x, pipe[j]))
      BY <1>1
    <2>3. Flow(x)' <=> \/ x \in received
                       \/ \E j \in 0 .. NumMap : In(x, pipe'[j])
                       \/ \E j \in MR!Indices : In(x, line[j])
      BY DEF Flow, In, MR!Indices
    <2> QED BY <2>1, <2>2, <2>3 DEF Flow
  <1> QED BY <1>1, <1>2, <1>3, <1>4 DEF FlowAdds

\* The lines sent are the same when nothing is written, no exec fails and
\* nobody exits whose exec failed.
LEMMA SentUnchanged ==
    ASSUME written' = written,
           \A j \in MR!Indices : <<MR!Splitter(j), "exec">> \in failed' <=> <<MR!Splitter(j), "exec">> \in failed,
           \A j \in MR!Indices : <<MR!Splitter(j), "exec">> \in failed =>
             (state'[MR!Splitter(j)] = "exited" <=> state[MR!Splitter(j)] = "exited")
    PROVE  SentSame
  <1> SUFFICES ASSUME NEW j \in MR!Indices, NEW x PROVE SentBy(j, x)' <=> SentBy(j, x)
    BY DEF SentSame
  <1>1. SentBy(j, x)' <=> IF <<MR!Splitter(j), "exec">> \in failed'
                THEN state'[MR!Splitter(j)] = "exited" /\ x = <<MR!Splitter(j), "execlpfail">>
                ELSE \E k \in 1 .. written[j] : x = <<MR!Splitter(j), k>>
    BY DEF SentBy, MR!Splitter
  <1> QED BY <1>1 DEF SentBy
-----------------------------------------------------------------------------
(* The steps of a child.                                                   *)

LEMMA ChildStepInv ==
    ASSUME PipeInv, NEW p \in MR!Children, ChildMoves(p), PipeTypes', QuietStays, ExitsAtEnd,
           failed \subseteq failed', ExecFailed', Unwritten', Conserved'
    PROVE  PipeInv'
  BY ChildCommon, DoneStays DEF PipeInv

SameExecs == \A c \in MR!Children : <<c, "exec">> \in failed' <=> <<c, "exec">> \in failed

LEMMA ExecsKept ==
    ASSUME PipeInv, NEW p \in MR!Children, ChildMoves(p), SameExecs, state'[p] # "failing",
           state'[p] = "exited" \/ state[p] # "failing"
    PROVE  ExecFailed'
  <1>1. ASSUME NEW c \in MR!Children
        PROVE  /\ state'[c] = "failing" => <<c, "exec">> \in failed'
               /\ <<c, "exec">> \in failed' => state'[c] \in {"failing", "exited"}
    <2>1. CASE c = p
      BY <2>1 DEF PipeInv, ExecFailed, ChildMoves, SameExecs
    <2>2. CASE c # p
      BY <2>2 DEF PipeInv, ExecFailed, ChildMoves, SameExecs
    <2> QED BY <2>1, <2>2
  <1> QED BY <1>1 DEF ExecFailed, MR!Children, MR!Splitter, MR!Mapper, MR!Reducer, MR!Indices

LEMMA UnwrittenKept ==
    ASSUME PipeInv, NEW p \in MR!Children, ChildMoves(p), written' = written,
           state'[p] \notin {"none", "forked"}
    PROVE  Unwritten'
  <1>1. ASSUME NEW j \in MR!Indices, state'[MR!Splitter(j)] \in {"none", "forked"} PROVE written'[j] = 0
    BY <1>1, Kids DEF PipeInv, Unwritten, ChildMoves
  <1> QED BY <1>1 DEF Unwritten, MR!Splitter, MR!Indices

LEMMA SentKept ==
    ASSUME PipeInv, NEW p \in MR!Children, ChildMoves(p), written' = written, SameExecs,
           state[p] # "failing"
    PROVE  SentSame
  <1>1. ASSUME NEW j \in MR!Indices
        PROVE  <<MR!Splitter(j), "exec">> \in failed' <=> <<MR!Splitter(j), "exec">> \in failed
    BY Kids DEF SameExecs
  <1>2. ASSUME NEW j \in MR!Indices, <<MR!Splitter(j), "exec">> \in failed
        PROVE  state'[MR!Splitter(j)] = "exited" <=> state[MR!Splitter(j)] = "exited"
    <2>1. MR!Splitter(j) \in MR!Children
      BY Kids
    <2>2. state[MR!Splitter(j)] \in {"failing", "exited"}
      BY <1>2, <2>1 DEF PipeInv, ExecFailed
    <2>3. MR!Splitter(j) # p
      BY <2>2 DEF ChildMoves
    <2> QED BY <2>1, <2>3 DEF ChildMoves
  <1> QED BY <1>1, <1>2, SentUnchanged

\* Lines 46-52, 63-66, 76-79: dup2 and exec.
LEMMA ExecStep ==
    ASSUME PipeInv, NEW p \in MR!Children, MR!Exec(p)
    PROVE  PipeInv'
  <1>0. p \in Processes /\ p # MR!Parent /\ PipeTypes
    BY ChildIs DEF PipeInv
  <1>1. /\ state[p] = "forked" /\ state' = [state EXCEPT ![p] = "running"]
        /\ holds' = [holds EXCEPT ![p] = MR!Kept(p)]
        /\ UNCHANGED <<step, pipe, written, line, received, failed>>
    BY DEF MR!Exec
  <1>2. state'[p] = "running" /\ state' \in [MR!Children -> ChildStates]
        /\ \A c \in MR!Children : c # p => state'[c] = state[c]
    BY <1>0, <1>1 DEF PipeTypes, ChildStates
  <1>3. MR!Kept(p) \subseteq holds[p] /\ holds[p] \subseteq MR!Ends
    BY <1>0, <1>1 DEF PipeInv, OwnEnds, PipeTypes
  <1>4. holds' \in [Processes -> SUBSET MR!Ends] /\ holds'[p] = MR!Kept(p)
        /\ \A c \in Processes : c # p => holds'[c] = holds[c]
    BY <1>0, <1>1, <1>3 DEF PipeTypes
  <1>5. ChildMoves(p)
    BY <1>1, <1>2, <1>3, <1>4 DEF ChildMoves
  <1>6. PipeTypes'
    BY <1>0, <1>1, <1>2, <1>4 DEF PipeTypes, Processes, MR!Children, MR!Splitter, MR!Mapper, MR!Reducer,
       MR!Parent, MR!Indices, MR!Ends, MR!Rd, MR!Wr, Item, ChildStates
  <1>7. QuietStays /\ ExitsAtEnd
    BY <1>1, <1>2, <1>5, SameExits
  <1>8. SameExecs
    BY <1>1 DEF SameExecs
  <1>9. ExecFailed' /\ Unwritten' /\ SentSame
    BY <1>1, <1>2, <1>5, <1>8, ExecsKept, UnwrittenKept, SentKept
  <1>10. Conserved'
    BY <1>1, <1>9, FlowUnchanged, ConservedStays DEF PipeInv
  <1> QED BY <1>1, <1>5, <1>6, <1>7, <1>9, <1>10, ChildStepInv

\* Lines 53, 67, 80: execlp returns.
LEMMA ExecFailsStep ==
    ASSUME PipeInv, NEW p \in MR!Children, MR!ExecFails(p)
    PROVE  PipeInv'
  <1>0. p \in Processes /\ p # MR!Parent /\ PipeTypes
    BY ChildIs DEF PipeInv
  <1>1. /\ state[p] = "forked" /\ state' = [state EXCEPT ![p] = "failing"]
        /\ failed' = failed \cup {<<p, "exec">>}
        /\ UNCHANGED <<step, holds, pipe, written, line, received>>
    BY DEF MR!ExecFails
  <1>2. state'[p] = "failing" /\ state' \in [MR!Children -> ChildStates]
        /\ \A c \in MR!Children : c # p => state'[c] = state[c]
    BY <1>0, <1>1 DEF PipeTypes, ChildStates
  <1>3. MR!Kept(p) \subseteq holds[p]
    BY <1>0, <1>1 DEF PipeInv, OwnEnds, PipeTypes
  <1>5. ChildMoves(p)
    BY <1>0, <1>1, <1>2, <1>3 DEF ChildMoves, PipeTypes
  <1>6. PipeTypes'
    BY <1>0, <1>1, <1>2 DEF PipeTypes, Processes, MR!Children, MR!Splitter, MR!Mapper, MR!Reducer,
       MR!Parent, MR!Indices, MR!Ends, MR!Rd, MR!Wr, Item, ChildStates
  <1>7. QuietStays /\ ExitsAtEnd
    BY <1>1, <1>2, <1>5, SameExits
  <1>8. ExecFailed'
    <2>1. ASSUME NEW c \in MR!Children
          PROVE  /\ state'[c] = "failing" => <<c, "exec">> \in failed'
                 /\ <<c, "exec">> \in failed' => state'[c] \in {"failing", "exited"}
      <3>1. CASE c = p
        BY <1>1, <1>2, <3>1
      <3>2. CASE c # p
        BY <1>1, <1>2, <3>2 DEF PipeInv, ExecFailed
      <3> QED BY <3>1, <3>2
    <2> QED BY <2>1 DEF ExecFailed, MR!Children, MR!Splitter, MR!Mapper, MR!Reducer, MR!Indices
  <1>9. Unwritten'
    BY <1>1, <1>2, <1>5, UnwrittenKept
  <1>10. Conserved'
    <2>1. CASE \E i \in MR!Indices : p = MR!Splitter(i)
      <3>1. PICK i \in MR!Indices : p = MR!Splitter(i)
        BY <2>1
      <3>2. written[i] = 0
        BY <1>1, <3>1 DEF PipeInv, Unwritten
      <3>3. <<p, "exec">> \notin failed
        BY <1>1 DEF PipeInv, ExecFailed
      <3>4. SentSame
        <4> SUFFICES ASSUME NEW j \in MR!Indices, NEW x PROVE SentBy(j, x)' <=> SentBy(j, x)
          BY DEF SentSame
        <4>1. SentBy(j, x)' <=> IF <<MR!Splitter(j), "exec">> \in failed'
                    THEN state'[MR!Splitter(j)] = "exited" /\ x = <<MR!Splitter(j), "execlpfail">>
                    ELSE \E k \in 1 .. written[j] : x = <<MR!Splitter(j), k>>
          BY <1>1 DEF SentBy, MR!Splitter
        <4>2. CASE j = i
          BY <1>1, <1>2, <3>1, <3>2, <3>3, <4>1, <4>2 DEF SentBy
        <4>3. CASE j # i
          <5>1. MR!Splitter(j) # p /\ MR!Splitter(j) \in MR!Children
            BY <3>1, <4>3, Kids
          <5>2. <<MR!Splitter(j), "exec">> \in failed' <=> <<MR!Splitter(j), "exec">> \in failed
            BY <1>1, <5>1
          <5> QED BY <1>2, <4>1, <5>1, <5>2 DEF SentBy
        <4> QED BY <4>2, <4>3
      <3> QED BY <1>1, <3>4, FlowUnchanged, ConservedStays DEF PipeInv
    <2>2. CASE ~(\E i \in MR!Indices : p = MR!Splitter(i))
      <3>1. p[1] # "splitter"
        BY <2>2, ChildIs, Kids DEF MR!Reducer
      <3>2. MR!Broken'
        BY <1>1, <3>1 DEF MR!Broken, MR!Children, MR!Splitter, MR!Mapper, MR!Reducer, MR!Indices
      <3> QED BY <3>2, ConservedBroken
    <2> QED BY <2>1, <2>2
  <1> QED BY <1>1, <1>5, <1>6, <1>7, <1>8, <1>9, <1>10, ChildStepInv
-----------------------------------------------------------------------------
(* Children that write, and children that exit.                            *)

LEMMA GoneMoves ==
    ASSUME PipeInv, NEW p \in MR!Children, state[p] \in {"forked", "running", "failing"},
           MR!Gone(p), step' = step
    PROVE  ChildMoves(p) /\ state'[p] = "exited"
  <1>0. p \in Processes /\ PipeTypes
    BY ChildIs DEF PipeInv
  <1>1. state' = [state EXCEPT ![p] = "exited"] /\ holds' = [holds EXCEPT ![p] = {}]
    BY DEF MR!Gone
  <1>2. state'[p] = "exited" /\ state' \in [MR!Children -> ChildStates]
        /\ \A c \in MR!Children : c # p => state'[c] = state[c]
    BY <1>0, <1>1 DEF PipeTypes, ChildStates
  <1>3. holds' \in [Processes -> SUBSET MR!Ends] /\ holds'[p] = {}
        /\ \A c \in Processes : c # p => holds'[c] = holds[c]
    BY <1>0, <1>1 DEF PipeTypes
  <1> QED BY <1>2, <1>3 DEF ChildMoves

\* Who writes to a pipe holds its write end: nobody has seen its end.
LEMMA QuietPut ==
    ASSUME PipeInv, NEW p \in MR!Children, state[p] \in {"running", "failing"},
           NEW i \in 0 .. NumMap, MR!Wr(i) \in MR!Kept(p),
           \A j \in 0 .. NumMap : j # i => pipe'[j] = pipe[j]
    PROVE  QuietStays
  <1>1. MR!Wr(i) \in holds[p] /\ p \in Processes
    BY ChildIs DEF PipeInv, OwnEnds
  <1>2. ~Quiet(i)
    BY <1>1 DEF Quiet
  <1> QED BY <1>2 DEF QuietStays, Quiet

LEMMA BrokenExits == ASSUME MR!Broken' PROVE ExitsAtEnd
  BY DEF ExitsAtEnd

LEMMA SplitterExits ==
    ASSUME NEW i \in MR!Indices, ChildMoves(MR!Splitter(i)), line' = line
    PROVE  ExitsAtEnd
  BY Kids DEF ExitsAtEnd, ChildMoves

LEMMA NoSplitter ==
    ASSUME NEW p \in MR!Children, ~(\E i \in MR!Indices : p = MR!Splitter(i))
    PROVE  p[1] # "splitter"
  BY ChildIs, Kids DEF MR!Reducer

LEMMA FailedBreaks ==
    ASSUME NEW p \in MR!Children, ~(\E i \in MR!Indices : p = MR!Splitter(i)),
           NEW how \in {"exec", "died"}, <<p, how>> \in failed'
    PROVE  MR!Broken'
  BY NoSplitter DEF MR!Broken, MR!Children, MR!Splitter, MR!Mapper, MR!Reducer, MR!Indices

LEMMA TypesAfter ==
    ASSUME PipeTypes, NEW p, ChildMoves(p), pipe' \in [0 .. NumMap -> Seq(Item)],
           written' \in [MR!Indices -> Nat],
           line' \in [MR!Indices -> Seq(Item)],
           \A i \in MR!Indices : line'[i] = << >> \/ \E x \in Item : line'[i] = <<x>>
    PROVE  PipeTypes'
  BY DEF PipeTypes, ChildMoves, Processes, MR!Children, MR!Splitter, MR!Mapper, MR!Reducer,
     MR!Parent, MR!Indices, MR!Ends, MR!Rd, MR!Wr, Item, ChildStates

LEMMA SameLines ==
    ASSUME PipeTypes, line' = line
    PROVE  /\ line' \in [MR!Indices -> Seq(Item)]
           /\ \A i \in MR!Indices : line'[i] = << >> \/ \E x \in Item : line'[i] = <<x>>
  BY DEF PipeTypes

\* Lines 53-54, 67-68, 80: the child whose exec failed exits.
LEMMA FailingExitsStep ==
    ASSUME PipeInv, NEW p \in MR!Children, MR!FailingExits(p)
    PROVE  PipeInv'
  <1>0. p \in Processes /\ PipeTypes
    BY ChildIs DEF PipeInv
  <1> DEFINE y == <<p, "execlpfail">>
  <1>1. /\ state[p] = "failing" /\ MR!Gone(p)
        /\ \/ p = MR!Reducer /\ UNCHANGED pipe
           \/ \E i \in 0 .. NumMap : p # MR!Reducer /\ MR!Wr(i) \in MR!Kept(p) /\ MR!Put(i, y)
        /\ UNCHANGED <<step, written, line, received, failed>>
    BY DEF MR!FailingExits
  <1>2. ChildMoves(p) /\ state'[p] = "exited"
    BY <1>1, GoneMoves
  <1>3. SameExecs /\ failed \subseteq failed' /\ <<p, "exec">> \in failed /\ <<p, "exec">> \in failed'
    BY <1>1 DEF SameExecs, PipeInv, ExecFailed
  <1>4. ExecFailed' /\ Unwritten'
    BY <1>1, <1>2, <1>3, ExecsKept, UnwrittenKept
  <1>5. y \in Item
    BY DEF Item
  <1> HIDE DEF y
  <1>6. CASE p = MR!Reducer /\ UNCHANGED pipe
    <2>1. MR!Broken'
      BY <1>3, <1>6, FailedBreaks, Kids
    <2>2. QuietStays /\ ExitsAtEnd /\ Conserved'
      BY <1>6, <2>1, BrokenExits, ConservedBroken DEF QuietStays, Quiet
    <2>3. PipeTypes'
      BY <1>0, <1>1, <1>2, <1>6, TypesAfter, SameLines DEF PipeTypes
    <2> QED BY <1>2, <1>3, <1>4, <2>2, <2>3, ChildStepInv
  <1>7. CASE p # MR!Reducer /\ \E i \in 0 .. NumMap : MR!Wr(i) \in MR!Kept(p) /\ MR!Put(i, y)
    <2>1. PICK i \in 0 .. NumMap : MR!Wr(i) \in MR!Kept(p) /\ MR!Put(i, y)
      BY <1>7
    <2>2. pipe' = [pipe EXCEPT ![i] = Append(@, y)]
      BY <2>1 DEF MR!Put
    <2>3. /\ FlowAdds(y) /\ pipe' \in [0 .. NumMap -> Seq(Item)]
          /\ \A j \in 0 .. NumMap : j # i => pipe'[j] = pipe[j]
      BY <1>0, <1>1, <1>5, <2>2, FlowPut
    <2>4. PipeTypes'
      BY <1>0, <1>1, <1>2, <2>3, TypesAfter, SameLines DEF PipeTypes
    <2>5. QuietStays
      BY <1>1, <2>1, <2>3, QuietPut
    <2>6. CASE \E j \in MR!Indices : p = MR!Splitter(j)
      <3>1. PICK j \in MR!Indices : p = MR!Splitter(j)
        BY <2>6
      <3>2. ExitsAtEnd
        BY <1>1, <1>2, <3>1, SplitterExits
      <3>3. SentAdds(j, y)
        <4> SUFFICES ASSUME NEW l \in MR!Indices, NEW x
                     PROVE  SentBy(l, x)' <=> SentBy(l, x) \/ (l = j /\ x = y)
          BY DEF SentAdds
        <4>1. SentBy(l, x)' <=> IF <<MR!Splitter(l), "exec">> \in failed
                    THEN state'[MR!Splitter(l)] = "exited" /\ x = <<MR!Splitter(l), "execlpfail">>
                    ELSE \E k \in 1 .. written[l] : x = <<MR!Splitter(l), k>>
          BY <1>1 DEF SentBy, MR!Splitter
        <4>2. CASE l = j
          BY <1>1, <1>2, <1>3, <3>1, <4>1, <4>2 DEF SentBy, y
        <4>3. CASE l # j
          <5>1. MR!Splitter(l) # p /\ MR!Splitter(l) \in MR!Children
            BY <3>1, <4>3, Kids
          <5> QED BY <1>2, <4>1, <4>3, <5>1 DEF SentBy, ChildMoves
        <4> QED BY <4>2, <4>3
      <3>4. Conserved'
        BY <1>3, <2>3, <3>3, ConservedAdds DEF PipeInv
      <3> QED BY <1>2, <1>3, <1>4, <2>4, <2>5, <3>2, <3>4, ChildStepInv
    <2>7. CASE ~(\E j \in MR!Indices : p = MR!Splitter(j))
      <3>1. MR!Broken'
        BY <1>3, <2>7, FailedBreaks
      <3> QED BY <1>2, <1>3, <1>4, <2>4, <2>5, <3>1, BrokenExits, ConservedBroken, ChildStepInv
    <2> QED BY <2>6, <2>7
  <1> QED BY <1>1, <1>6, <1>7

\* A child exits early with a nonzero status.
LEMMA DiesStep ==
    ASSUME PipeInv, NEW p \in MR!Children, MR!Dies(p)
    PROVE  PipeInv'
  <1>0. PipeTypes
    BY DEF PipeInv
  <1>1. /\ state[p] = "running" /\ MR!Gone(p) /\ failed' = failed \cup {<<p, "died">>}
        /\ UNCHANGED <<step, pipe, written, line, received>>
    BY DEF MR!Dies
  <1>2. ChildMoves(p) /\ state'[p] = "exited"
    BY <1>1, GoneMoves
  <1>3. SameExecs /\ failed \subseteq failed' /\ <<p, "died">> \in failed'
    BY <1>1 DEF SameExecs
  <1>4. ExecFailed' /\ Unwritten' /\ SentSame
    BY <1>1, <1>2, <1>3, ExecsKept, UnwrittenKept, SentKept
  <1>5. QuietStays
    BY <1>1 DEF QuietStays, Quiet
  <1>6. PipeTypes'
    BY <1>0, <1>1, <1>2, TypesAfter, SameLines DEF PipeTypes
  <1>7. Conserved'
    BY <1>1, <1>3, <1>4, FlowUnchanged, ConservedStays DEF PipeInv
  <1>8. ExitsAtEnd
    <2>1. CASE \E i \in MR!Indices : p = MR!Splitter(i)
      BY <1>1, <1>2, <2>1, SplitterExits
    <2>2. CASE ~(\E i \in MR!Indices : p = MR!Splitter(i))
      BY <1>3, <2>2, FailedBreaks, BrokenExits
    <2> QED BY <2>1, <2>2
  <1> QED BY <1>2, <1>3, <1>4, <1>5, <1>6, <1>7, <1>8, ChildStepInv
LEMMA StayMoves ==
    ASSUME PipeInv, NEW p \in MR!Children, state[p] = "running",
           state' = state, holds' = holds, step' = step
    PROVE  ChildMoves(p)
  BY ChildIs DEF ChildMoves, PipeInv, PipeTypes, OwnEnds

LEMMA EndSeen ==
    ASSUME PipeTypes, NEW i \in 0 .. NumMap, MR!AtEnd(i)
    PROVE  Quiet(i)
  <1>1. DOMAIN holds = Processes
    BY DEF PipeTypes
  <1> QED BY <1>1 DEF MR!AtEnd, Quiet

\* A splitter writes a line, or exits after its last.
LEMMA SplitStep ==
    ASSUME PipeInv, NEW i \in MR!Indices, MR!Split(i)
    PROVE  PipeInv'
  <1> DEFINE p == MR!Splitter(i)
  <1>0. PipeTypes /\ p \in MR!Children /\ i \in 0 .. NumMap /\ MR!Wr(i) \in MR!Kept(p)
    BY Kids, KeptEnds, SomeMapper DEF PipeInv, MR!Indices
  <1>1. state[p] = "running" /\ UNCHANGED <<step, line, received, failed>>
    BY DEF MR!Split
  <1>2. SameExecs /\ failed \subseteq failed' /\ <<p, "exec">> \notin failed
    BY <1>0, <1>1 DEF SameExecs, PipeInv, ExecFailed
  <1>3. CASE /\ MR!Put(i, <<p, written[i] + 1>>)
             /\ written' = [written EXCEPT ![i] = @ + 1]
             /\ UNCHANGED <<state, holds>>
    <2> DEFINE y == <<p, written[i] + 1>>
    <2>0. written[i] \in Nat /\ written'[i] = written[i] + 1 /\ written' \in [MR!Indices -> Nat]
          /\ \A j \in MR!Indices : j # i => written'[j] = written[j]
      BY <1>0, <1>3 DEF PipeTypes
    <2>1. y \in Item
      BY <1>0, <2>0 DEF Item
    <2>2. pipe' = [pipe EXCEPT ![i] = Append(@, y)]
      BY <1>3 DEF MR!Put
    <2> HIDE DEF y
    <2>3. /\ FlowAdds(y) /\ pipe' \in [0 .. NumMap -> Seq(Item)]
          /\ \A j \in 0 .. NumMap : j # i => pipe'[j] = pipe[j]
      BY <1>0, <1>1, <2>1, <2>2, FlowPut
    <2>4. ChildMoves(p) /\ state'[p] = "running"
      BY <1>0, <1>1, <1>3, StayMoves
    <2>5. PipeTypes'
      BY <1>0, <1>1, <2>0, <2>3, <2>4, TypesAfter, SameLines
    <2>6. QuietStays
      BY <1>0, <1>1, <2>3, QuietPut
    <2>7. ExitsAtEnd
      BY <1>1, <2>4, SplitterExits
    <2>8. ExecFailed'
      BY <1>0, <1>1, <1>2, <2>4, ExecsKept
    <2>9. Unwritten'
      <3>1. ASSUME NEW j \in MR!Indices, state'[MR!Splitter(j)] \in {"none", "forked"} PROVE written'[j] = 0
        BY <1>1, <1>3, <2>0, <3>1 DEF PipeInv, Unwritten
      <3> QED BY <3>1 DEF Unwritten, MR!Splitter, MR!Indices
    <2>10. SentAdds(i, y)
      <3> SUFFICES ASSUME NEW j \in MR!Indices, NEW x
                   PROVE  SentBy(j, x)' <=> SentBy(j, x) \/ (j = i /\ x = y)
        BY DEF SentAdds
      <3>1. SentBy(j, x)' <=> IF <<MR!Splitter(j), "exec">> \in failed
                  THEN state[MR!Splitter(j)] = "exited" /\ x = <<MR!Splitter(j), "execlpfail">>
                  ELSE \E k \in 1 .. written'[j] : x = <<MR!Splitter(j), k>>
        BY <1>1, <1>3 DEF SentBy, MR!Splitter
      <3>2. CASE j = i
        <4>1. SentBy(j, x)' <=> \E k \in 1 .. written[i] + 1 : x = <<p, k>>
          BY <1>2, <2>0, <3>1, <3>2
        <4>2. SentBy(j, x) <=> \E k \in 1 .. written[i] : x = <<p, k>>
          BY <1>2, <3>2 DEF SentBy
        <4>3. \A k : k \in 1 .. written[i] + 1 <=> k \in 1 .. written[i] \/ k = written[i] + 1
          BY <2>0
        <4> QED BY <3>2, <4>1, <4>2, <4>3 DEF y
      <3>3. CASE j # i
        BY <2>0, <3>1, <3>3 DEF SentBy
      <3> QED BY <3>2, <3>3
    <2>11. Conserved'
      BY <1>2, <2>3, <2>10, ConservedAdds DEF PipeInv
    <2> QED BY <1>0, <1>2, <2>4, <2>5, <2>6, <2>7, <2>8, <2>9, <2>11, ChildStepInv
  <1>4. CASE MR!Gone(p) /\ UNCHANGED <<pipe, written>>
    <2>1. ChildMoves(p) /\ state'[p] = "exited"
      BY <1>0, <1>1, <1>4, GoneMoves
    <2>2. PipeTypes'
      BY <1>0, <1>1, <1>4, <2>1, TypesAfter, SameLines DEF PipeTypes
    <2>3. QuietStays
      BY <1>4 DEF QuietStays, Quiet
    <2>4. ExitsAtEnd
      BY <1>1, <2>1, SplitterExits
    <2>5. ExecFailed' /\ Unwritten' /\ SentSame
      BY <1>0, <1>1, <1>2, <1>4, <2>1, ExecsKept, UnwrittenKept, SentKept
    <2>6. Conserved'
      BY <1>1, <1>2, <1>4, <2>5, FlowUnchanged, ConservedStays DEF PipeInv
    <2> QED BY <1>0, <1>2, <2>1, <2>2, <2>3, <2>4, <2>5, <2>6, ChildStepInv
  <1> QED BY <1>3, <1>4 DEF MR!Split

LEMMA FlowRead ==
    ASSUME PipeTypes, NEW i \in MR!Indices, line[i] = << >>, pipe[i] # << >>,
           line' = [line EXCEPT ![i] = <<Head(pipe[i])>>],
           pipe' = [pipe EXCEPT ![i] = Tail(@)], received' = received
    PROVE  /\ FlowSame /\ pipe' \in [0 .. NumMap -> Seq(Item)] /\ line' \in [MR!Indices -> Seq(Item)]
           /\ \A j \in 0 .. NumMap : j # i => pipe'[j] = pipe[j]
           /\ \A j \in MR!Indices : j # i => line'[j] = line[j]
           /\ \A j \in MR!Indices : line'[j] = << >> \/ \E x \in Item : line'[j] = <<x>>
  <1> DEFINE y == Head(pipe[i])
  <1>0. i \in 0 .. NumMap /\ pipe[i] \in Seq(Item)
    BY SomeMapper DEF PipeTypes, MR!Indices
  <1>1. y \in Item /\ Tail(pipe[i]) \in Seq(Item) /\ \A x : In(x, pipe[i]) <=> x = y \/ In(x, Tail(pipe[i]))
    BY <1>0, InTail
  <1> HIDE DEF y
  <1>2. <<y>> \in Seq(Item)
    BY <1>1
  <1>3. pipe' \in [0 .. NumMap -> Seq(Item)] /\ pipe'[i] = Tail(pipe[i])
        /\ \A j \in 0 .. NumMap : j # i => pipe'[j] = pipe[j]
    BY <1>0, <1>1 DEF PipeTypes
  <1>4. line' \in [MR!Indices -> Seq(Item)] /\ line'[i] = <<y>>
        /\ \A j \in MR!Indices : j # i => line'[j] = line[j]
    BY <1>2 DEF PipeTypes, y
  <1>5. \A j \in MR!Indices : line'[j] = << >> \/ \E x \in Item : line'[j] = <<x>>
    BY <1>1, <1>4 DEF PipeTypes
  <1>6. ASSUME NEW x PROVE Flow(x)' <=> Flow(x)
    <2>1. In(x, pipe[i]) <=> x = y \/ In(x, pipe'[i])
      BY <1>1, <1>3
    <2>2. (In(x, line'[i]) <=> x = y) /\ ~In(x, line[i])
      BY <1>4, InOne, InEmpty
    <2>3. Flow(x)' <=> \/ x \in received
                       \/ \E j \in 0 .. NumMap : In(x, pipe'[j])
                       \/ \E j \in MR!Indices : In(x, line'[j])
      BY DEF Flow, In, MR!Indices
    <2>4. \A j \in 0 .. NumMap : j # i => (In(x, pipe'[j]) <=> In(x, pipe[j]))
      BY <1>3
    <2>5. \A j \in MR!Indices : j # i => (In(x, line'[j]) <=> In(x, line[j]))
      BY <1>4
    <2> QED BY <1>0, <2>1, <2>2, <2>3, <2>4, <2>5 DEF Flow
  <1> QED BY <1>3, <1>4, <1>5, <1>6 DEF FlowSame

LEMMA FlowWrite ==
    ASSUME PipeTypes, NEW i \in MR!Indices, line[i] # << >>,
           pipe' = [pipe EXCEPT ![0] = Append(@, Head(line[i]))],
           line' = [line EXCEPT ![i] = << >>], received' = received
    PROVE  /\ FlowSame /\ pipe' \in [0 .. NumMap -> Seq(Item)] /\ line' \in [MR!Indices -> Seq(Item)]
           /\ \A j \in 0 .. NumMap : j # 0 => pipe'[j] = pipe[j]
           /\ \A j \in MR!Indices : j # i => line'[j] = line[j]
           /\ \A j \in MR!Indices : line'[j] = << >> \/ \E x \in Item : line'[j] = <<x>>
  <1>0. 0 \in 0 .. NumMap /\ pipe[0] \in Seq(Item)
    BY SomeMapper DEF PipeTypes
  <1>1. PICK y \in Item : line[i] = <<y>>
    BY DEF PipeTypes
  <1>2. pipe' = [pipe EXCEPT ![0] = Append(@, y)]
    BY <1>1
  <1>3. pipe'[0] = Append(pipe[0], y) /\ \A j \in 0 .. NumMap : j # 0 => pipe'[j] = pipe[j]
    BY <1>0, <1>2 DEF PipeTypes
  <1>4. Append(pipe[0], y) \in Seq(Item)
    BY <1>0
  <1>5. pipe' \in [0 .. NumMap -> Seq(Item)]
    BY <1>2, <1>4 DEF PipeTypes
  <1>6. line' \in [MR!Indices -> Seq(Item)] /\ line'[i] = << >>
        /\ \A j \in MR!Indices : j # i => line'[j] = line[j]
    BY DEF PipeTypes
  <1>7. \A j \in MR!Indices : line'[j] = << >> \/ \E x \in Item : line'[j] = <<x>>
    BY <1>6 DEF PipeTypes
  <1>8. ASSUME NEW x PROVE Flow(x)' <=> Flow(x)
    <2>1. In(x, pipe'[0]) <=> In(x, pipe[0]) \/ x = y
      BY <1>0, <1>3, InAppend
    <2>2. (In(x, line[i]) <=> x = y) /\ ~In(x, line'[i])
      BY <1>1, <1>6, InOne, InEmpty
    <2>3. Flow(x)' <=> \/ x \in received
                       \/ \E j \in 0 .. NumMap : In(x, pipe'[j])
                       \/ \E j \in MR!Indices : In(x, line'[j])
      BY DEF Flow, In, MR!Indices
    <2>4. \A j \in 0 .. NumMap : j # 0 => (In(x, pipe'[j]) <=> In(x, pipe[j]))
      BY <1>3
    <2>5. \A j \in MR!Indices : j # i => (In(x, line'[j]) <=> In(x, line[j]))
      BY <1>6
    <2> QED BY <1>0, <2>1, <2>2, <2>3, <2>4, <2>5 DEF Flow
  <1> QED BY <1>3, <1>5, <1>6, <1>7, <1>8 DEF FlowSame
\* A mapper reads a line, writes it, or exits at the end of its input.
LEMMA MapStep ==
    ASSUME PipeInv, NEW i \in MR!Indices, MR!Map(i)
    PROVE  PipeInv'
  <1> DEFINE p == MR!Mapper(i)
  <1>0. /\ PipeTypes /\ p \in MR!Children /\ i \in 0 .. NumMap /\ 0 \in 0 .. NumMap
        /\ MR!Wr(0) \in MR!Kept(p) /\ i # 0
    BY Kids, KeptEnds, SomeMapper DEF PipeInv, MR!Indices
  <1>1. state[p] = "running" /\ UNCHANGED <<step, written, received, failed>>
    BY DEF MR!Map
  <1>2. SameExecs /\ failed \subseteq failed' /\ written' \in [MR!Indices -> Nat]
    BY <1>0, <1>1 DEF SameExecs, PipeTypes
  <1>3. CASE /\ line[i] = << >> /\ pipe[i] # << >>
             /\ line' = [line EXCEPT ![i] = <<Head(pipe[i])>>]
             /\ pipe' = [pipe EXCEPT ![i] = Tail(@)]
             /\ UNCHANGED <<state, holds>>
    <2>1. /\ FlowSame /\ pipe' \in [0 .. NumMap -> Seq(Item)] /\ line' \in [MR!Indices -> Seq(Item)]
          /\ \A j \in 0 .. NumMap : j # i => pipe'[j] = pipe[j]
          /\ \A j \in MR!Indices : j # i => line'[j] = line[j]
          /\ \A j \in MR!Indices : line'[j] = << >> \/ \E x \in Item : line'[j] = <<x>>
      BY <1>0, <1>1, <1>3, FlowRead
    <2>2. ChildMoves(p) /\ state'[p] = "running"
      BY <1>0, <1>1, <1>3, StayMoves
    <2>3. PipeTypes'
      BY <1>0, <1>2, <2>1, <2>2, TypesAfter
    <2>4. QuietStays
      BY <1>3, <2>1 DEF QuietStays, Quiet
    <2>5. ExitsAtEnd
      BY <1>1, <1>3, <2>1, Kids DEF ExitsAtEnd
    <2>6. ExecFailed' /\ Unwritten' /\ SentSame
      BY <1>0, <1>1, <1>2, <2>2, ExecsKept, UnwrittenKept, SentKept
    <2>7. Conserved'
      BY <1>2, <2>1, <2>6, ConservedStays DEF PipeInv
    <2> QED BY <1>0, <1>2, <2>2, <2>3, <2>4, <2>5, <2>6, <2>7, ChildStepInv
  <1>4. CASE /\ line[i] # << >> /\ MR!Put(0, Head(line[i]))
             /\ line' = [line EXCEPT ![i] = << >>]
             /\ UNCHANGED <<state, holds>>
    <2>0. pipe' = [pipe EXCEPT ![0] = Append(@, Head(line[i]))]
      BY <1>4 DEF MR!Put
    <2>1. /\ FlowSame /\ pipe' \in [0 .. NumMap -> Seq(Item)] /\ line' \in [MR!Indices -> Seq(Item)]
          /\ \A j \in 0 .. NumMap : j # 0 => pipe'[j] = pipe[j]
          /\ \A j \in MR!Indices : j # i => line'[j] = line[j]
          /\ \A j \in MR!Indices : line'[j] = << >> \/ \E x \in Item : line'[j] = <<x>>
      BY <1>0, <1>1, <1>4, <2>0, FlowWrite
    <2>2. ChildMoves(p) /\ state'[p] = "running"
      BY <1>0, <1>1, <1>4, StayMoves
    <2>3. PipeTypes'
      BY <1>0, <1>2, <2>1, <2>2, TypesAfter
    <2>4. QuietStays
      BY <1>0, <1>1, <2>1, QuietPut
    <2>5. ExitsAtEnd
      BY <1>1, <1>4, <2>1, Kids DEF ExitsAtEnd
    <2>6. ExecFailed' /\ Unwritten' /\ SentSame
      BY <1>0, <1>1, <1>2, <2>2, ExecsKept, UnwrittenKept, SentKept
    <2>7. Conserved'
      BY <1>2, <2>1, <2>6, ConservedStays DEF PipeInv
    <2> QED BY <1>0, <1>2, <2>2, <2>3, <2>4, <2>5, <2>6, <2>7, ChildStepInv
  <1>5. CASE line[i] = << >> /\ MR!AtEnd(i) /\ MR!Gone(p) /\ UNCHANGED <<pipe, line>>
    <2>1. ChildMoves(p) /\ state'[p] = "exited"
      BY <1>0, <1>1, <1>5, GoneMoves
    <2>2. PipeTypes'
      BY <1>0, <1>2, <1>5, <2>1, TypesAfter, SameLines DEF PipeTypes
    <2>3. QuietStays
      BY <1>5 DEF QuietStays, Quiet
    <2>4. Quiet(i)
      BY <1>0, <1>5, EndSeen
    <2>5. ExitsAtEnd
      BY <1>5, <2>1, <2>4, Kids DEF ExitsAtEnd, ChildMoves
    <2>6. ExecFailed' /\ Unwritten' /\ SentSame
      BY <1>0, <1>1, <1>2, <2>1, ExecsKept, UnwrittenKept, SentKept
    <2>7. Conserved'
      BY <1>1, <1>2, <1>5, <2>6, FlowUnchanged, ConservedStays DEF PipeInv
    <2> QED BY <1>0, <1>2, <2>1, <2>2, <2>3, <2>5, <2>6, <2>7, ChildStepInv
  <1> QED BY <1>3, <1>4, <1>5 DEF MR!Map

LEMMA FlowTake ==
    ASSUME PipeTypes, pipe[0] # << >>, received' = received \cup {Head(pipe[0])},
           pipe' = [pipe EXCEPT ![0] = Tail(@)], line' = line
    PROVE  /\ FlowSame /\ pipe' \in [0 .. NumMap -> Seq(Item)]
           /\ \A j \in 0 .. NumMap : j # 0 => pipe'[j] = pipe[j]
  <1> DEFINE y == Head(pipe[0])
  <1>0. 0 \in 0 .. NumMap /\ pipe[0] \in Seq(Item)
    BY SomeMapper DEF PipeTypes
  <1>1. y \in Item /\ Tail(pipe[0]) \in Seq(Item) /\ \A x : In(x, pipe[0]) <=> x = y \/ In(x, Tail(pipe[0]))
    BY <1>0, InTail
  <1>2. received' = received \cup {y}
    OBVIOUS
  <1> HIDE DEF y
  <1>3. pipe' \in [0 .. NumMap -> Seq(Item)] /\ pipe'[0] = Tail(pipe[0])
        /\ \A j \in 0 .. NumMap : j # 0 => pipe'[j] = pipe[j]
    BY <1>0, <1>1 DEF PipeTypes
  <1>4. ASSUME NEW x PROVE Flow(x)' <=> Flow(x)
    <2>1. In(x, pipe[0]) <=> x = y \/ In(x, pipe'[0])
      BY <1>1, <1>3
    <2>2. Flow(x)' <=> \/ x \in received'
                       \/ \E j \in 0 .. NumMap : In(x, pipe'[j])
                       \/ \E j \in MR!Indices : In(x, line[j])
      BY DEF Flow, In, MR!Indices
    <2>3. \A j \in 0 .. NumMap : j # 0 => (In(x, pipe'[j]) <=> In(x, pipe[j]))
      BY <1>3
    <2> QED BY <1>0, <1>2, <2>1, <2>2, <2>3 DEF Flow
  <1> QED BY <1>3, <1>4 DEF FlowSame

\* The reducer reads a line, or exits at the end of its input.
LEMMA ReduceStep ==
    ASSUME PipeInv, MR!Reduce
    PROVE  PipeInv'
  <1> DEFINE p == MR!Reducer
  <1>0. PipeTypes /\ p \in MR!Children /\ 0 \in 0 .. NumMap
    BY SomeMapper DEF PipeInv, MR!Children
  <1>1. state[p] = "running" /\ UNCHANGED <<step, written, line, failed>>
    BY DEF MR!Reduce
  <1>2. SameExecs /\ failed \subseteq failed' /\ written' \in [MR!Indices -> Nat]
    BY <1>0, <1>1 DEF SameExecs, PipeTypes
  <1>3. CASE /\ pipe[0] # << >> /\ received' = received \cup {Head(pipe[0])}
             /\ pipe' = [pipe EXCEPT ![0] = Tail(@)]
             /\ UNCHANGED <<state, holds>>
    <2>1. /\ FlowSame /\ pipe' \in [0 .. NumMap -> Seq(Item)]
          /\ \A j \in 0 .. NumMap : j # 0 => pipe'[j] = pipe[j]
      BY <1>0, <1>1, <1>3, FlowTake
    <2>2. ChildMoves(p) /\ state'[p] = "running"
      BY <1>0, <1>1, <1>3, StayMoves
    <2>3. PipeTypes'
      BY <1>0, <1>1, <1>2, <2>1, <2>2, TypesAfter, SameLines
    <2>4. QuietStays
      BY <1>3, <2>1 DEF QuietStays, Quiet
    <2>5. ExitsAtEnd
      BY <1>1, <1>3 DEF ExitsAtEnd
    <2>6. ExecFailed' /\ Unwritten' /\ SentSame
      BY <1>0, <1>1, <1>2, <2>2, ExecsKept, UnwrittenKept, SentKept
    <2>7. Conserved'
      BY <1>2, <2>1, <2>6, ConservedStays DEF PipeInv
    <2> QED BY <1>0, <1>2, <2>2, <2>3, <2>4, <2>5, <2>6, <2>7, ChildStepInv
  <1>4. CASE MR!AtEnd(0) /\ MR!Gone(p) /\ UNCHANGED <<pipe, received>>
    <2>1. ChildMoves(p) /\ state'[p] = "exited"
      BY <1>0, <1>1, <1>4, GoneMoves
    <2>2. PipeTypes'
      BY <1>0, <1>1, <1>2, <1>4, <2>1, TypesAfter, SameLines DEF PipeTypes
    <2>3. QuietStays
      BY <1>4 DEF QuietStays, Quiet
    <2>4. Quiet(0)
      BY <1>0, <1>4, EndSeen
    <2>5. ExitsAtEnd
      BY <1>1, <2>1, <2>4, Kids DEF ExitsAtEnd, ChildMoves
    <2>6. ExecFailed' /\ Unwritten' /\ SentSame
      BY <1>0, <1>1, <1>2, <2>1, ExecsKept, UnwrittenKept, SentKept
    <2>7. Conserved'
      BY <1>1, <1>2, <1>4, <2>6, FlowUnchanged, ConservedStays DEF PipeInv
    <2> QED BY <1>0, <1>2, <2>1, <2>2, <2>3, <2>5, <2>6, <2>7, ChildStepInv
  <1> QED BY <1>3, <1>4 DEF MR!Reduce
-----------------------------------------------------------------------------
(* The steps of the parent.                                                *)

LEMMA Closes ==
    ASSUME NEW k \in 1 .. LastFork
    PROVE  /\ \A i : MR!Rd(i) \notin MR!ClosedAfter(MR!Forks[k])
           /\ \A i \in MR!Indices : i > k => MR!Wr(i) \notin MR!ClosedAfter(MR!Forks[k])
           /\ k < 2 * NumMap => MR!Wr(0) \notin MR!ClosedAfter(MR!Forks[k])
           /\ \A e \in MR!ClosedAfter(MR!Forks[k]) : \E i : e = MR!Wr(i)
  <1>0. k \in Nat /\ k >= 1 /\ NumMap \in Nat /\ NumMap > 0 /\ NumMap \in MR!Indices
    BY SomeMapper DEF LastFork, MR!Indices
  <1>1. CASE k <= NumMap
    <2>1. k \in MR!Indices /\ MR!Forks[k] = MR!Splitter(k)
      BY <1>1, ForkOrder
    <2>2. MR!ClosedAfter(MR!Forks[k]) = {MR!Wr(k)}
      BY <2>1 DEF MR!ClosedAfter, MR!Splitter, MR!Mapper
    <2>3. \A i \in MR!Indices : i > k => i # k
      BY <1>0 DEF MR!Indices
    <2> QED BY <1>0, <2>2, <2>3, EndsApart
  <1>2. CASE k > NumMap /\ k <= 2 * NumMap
    <2>1. k - NumMap \in MR!Indices /\ MR!Forks[k] = MR!Mapper(k - NumMap)
      BY <1>2, ForkOrder
    <2>2. MR!ClosedAfter(MR!Forks[k]) = IF MR!Mapper(k - NumMap) = MR!Mapper(NumMap) THEN {MR!Wr(0)} ELSE {}
      BY <2>1 DEF MR!ClosedAfter, MR!Splitter, MR!Mapper
    <2>3. k < 2 * NumMap => MR!Mapper(k - NumMap) # MR!Mapper(NumMap)
      BY <1>0, <2>1, Kids
    <2>4. \A i \in MR!Indices : i # 0
      BY <1>0 DEF MR!Indices
    <2> QED BY <2>2, <2>3, <2>4, EndsApart
  <1>3. CASE k > 2 * NumMap
    <2>1. MR!Forks[k] = MR!Reducer
      BY <1>3, ForkOrder
    <2>2. MR!ClosedAfter(MR!Forks[k]) = {}
      BY <2>1 DEF MR!ClosedAfter, MR!Reducer, MR!Mapper
    <2> QED BY <2>2
  <1> QED BY <1>0, <1>1, <1>2, <1>3

\* Lines 40-81: fork, and close what only the children need.
LEMMA ForkStep ==
    ASSUME PipeInv, MR!Fork
    PROVE  PipeInv'
  <1> DEFINE p == MR!Forks[step]
  <1>0. /\ PipeTypes /\ step \in 1 .. LastFork /\ step' = step + 1
        /\ UNCHANGED <<pipe, written, line, received, failed>>
    BY ForksLen DEF PipeInv, PipeTypes, MR!Fork
  <1>1. p \in MR!Children /\ p \in Processes /\ p # MR!Parent /\ MR!Parent \in Processes
    BY <1>0, ForkOrder, ChildIs
  <1>2. /\ state' = [state EXCEPT ![p] = "forked"]
        /\ holds' = [holds EXCEPT ![p] = holds[MR!Parent], ![MR!Parent] = @ \ MR!ClosedAfter(p)]
    BY DEF MR!Fork
  <1>3. state[p] = "none"
    BY <1>0 DEF PipeInv, NotForked
  <1>4. /\ \A i : MR!Rd(i) \notin MR!ClosedAfter(p)
        /\ \A i \in MR!Indices : i > step => MR!Wr(i) \notin MR!ClosedAfter(p)
        /\ step < 2 * NumMap => MR!Wr(0) \notin MR!ClosedAfter(p)
    BY <1>0, Closes
  <1>5. \A k \in 1 .. LastFork : k # step => MR!Forks[k] # p /\ MR!Forks[k] \in MR!Children
    BY <1>0, ForksApart, ForkOrder
  <1>6. MR!Kept(p) \subseteq holds[MR!Parent]
    <2>0. step \in Nat /\ NumMap \in Nat /\ ParentHolds /\ 0 \in 0 .. NumMap
      BY <1>0, SomeMapper DEF PipeInv, PipeTypes
    <2>1. CASE step <= NumMap
      BY <1>0, <2>0, <2>1, ForkOrder, KeptEnds DEF ParentHolds
    <2>2. CASE step > NumMap /\ step <= 2 * NumMap
      <3>1. step - NumMap \in MR!Indices /\ p = MR!Mapper(step - NumMap) /\ step - NumMap \in 0 .. NumMap
        BY <1>0, <2>0, <2>2, ForkOrder DEF MR!Indices
      <3> QED BY <2>0, <2>2, <3>1, KeptEnds DEF ParentHolds
    <2>3. CASE step > 2 * NumMap
      BY <1>0, <2>0, <2>3, ForkOrder, KeptEnds DEF ParentHolds
    <2> QED BY <2>0, <2>1, <2>2, <2>3
  <1> HIDE DEF p
  <1>7. state' \in [MR!Children -> ChildStates] /\ state'[p] = "forked"
        /\ \A c \in MR!Children : c # p => state'[c] = state[c]
    BY <1>0, <1>1, <1>2 DEF PipeTypes, ChildStates
  <1>8. /\ holds' \in [Processes -> SUBSET MR!Ends] /\ holds'[p] = holds[MR!Parent]
        /\ holds'[MR!Parent] = holds[MR!Parent] \ MR!ClosedAfter(p)
        /\ \A c \in Processes : c # p /\ c # MR!Parent => holds'[c] = holds[c]
    BY <1>0, <1>1, <1>2 DEF PipeTypes
  <1>9. PipeTypes'
    <2>1. step' \in Nat /\ step' > 0
      BY <1>0 DEF PipeTypes
    <2> QED BY <1>0, <1>7, <1>8, <2>1 DEF PipeTypes, Processes, MR!Children, MR!Splitter, MR!Mapper,
          MR!Reducer, MR!Parent, MR!Indices, MR!Ends, MR!Rd, MR!Wr, Item, ChildStates
  <1>10. ParentHolds'
    <2>0. step \in Nat /\ NumMap \in Nat /\ ParentHolds
      BY <1>0, SomeMapper DEF PipeInv, PipeTypes
    <2>1. \A i \in 0 .. NumMap : MR!Rd(i) \in holds'[MR!Parent]
      BY <1>4, <1>8, <2>0 DEF ParentHolds
    <2>2. \A i \in MR!Indices : step + 1 <= i => MR!Wr(i) \in holds'[MR!Parent]
      <3>1. \A i \in MR!Indices : step + 1 <= i => step <= i /\ i > step
        BY <2>0 DEF MR!Indices
      <3> QED BY <1>4, <1>8, <2>0, <3>1 DEF ParentHolds
    <2>3. step + 1 <= 2 * NumMap => MR!Wr(0) \in holds'[MR!Parent]
      <3>1. step + 1 <= 2 * NumMap => step <= 2 * NumMap /\ step < 2 * NumMap
        BY <2>0
      <3> QED BY <1>4, <1>8, <2>0, <3>1 DEF ParentHolds
    <2> QED BY <1>0, <2>1, <2>2, <2>3 DEF ParentHolds, MR!Indices, MR!Rd, MR!Wr, MR!Parent
  <1>11. NotForked'
    <2> SUFFICES ASSUME NEW k \in 1 .. LastFork, k >= step + 1 PROVE state'[MR!Forks[k]] = "none"
      BY <1>0 DEF NotForked, LastFork, MR!Forks, MR!Splitter, MR!Mapper, MR!Reducer
    <2>1. k >= step /\ k # step
      BY <1>0 DEF PipeTypes
    <2> QED BY <1>5, <1>7, <2>1 DEF PipeInv, NotForked
  <1>12. OwnEnds'
    <2> SUFFICES ASSUME NEW c \in MR!Children, state'[c] \in {"forked", "failing", "running"}
                 PROVE  MR!Kept(c) \subseteq holds'[c]
      BY DEF OwnEnds, MR!Kept, MR!Children, MR!Splitter, MR!Mapper, MR!Reducer, MR!Indices, MR!Wr, MR!Rd
    <2>1. c \in Processes /\ c # MR!Parent
      BY ChildIs
    <2> QED BY <1>6, <1>7, <1>8, <2>1 DEF PipeInv, OwnEnds
  <1>13. ExecFailed'
    <2>1. ASSUME NEW c \in MR!Children
          PROVE  /\ state'[c] = "failing" => <<c, "exec">> \in failed'
                 /\ <<c, "exec">> \in failed' => state'[c] \in {"failing", "exited"}
      BY <1>0, <1>3, <1>7 DEF PipeInv, ExecFailed
    <2> QED BY <2>1 DEF ExecFailed, MR!Children, MR!Splitter, MR!Mapper, MR!Reducer, MR!Indices
  <1>14. Unwritten'
    <2>1. ASSUME NEW j \in MR!Indices, state'[MR!Splitter(j)] \in {"none", "forked"} PROVE written'[j] = 0
      BY <1>0, <1>3, <1>7, <2>1, Kids DEF PipeInv, Unwritten
    <2> QED BY <2>1 DEF Unwritten, MR!Splitter, MR!Indices
  <1>15. NoNewHolders
    BY <1>1, <1>8 DEF NoNewHolders
  <1>16. QuietStays
    BY <1>0 DEF QuietStays, Quiet
  <1>17. ExitsAtEnd
    <2>1. MR!Reducer \in MR!Children
      BY DEF MR!Children
    <2> QED BY <1>0, <1>7, <2>1, Kids DEF ExitsAtEnd
  <1>18. Waited'
    <2> SUFFICES ASSUME NEW k \in 1 .. LastFork PROVE ~(step + 1 > LastFork + k)
      BY <1>0 DEF Waited, LastFork
    <2> QED BY <1>0, ForksLen
  <1>19. Conserved'
    <2>1. ASSUME NEW j \in MR!Indices, <<MR!Splitter(j), "exec">> \in failed
          PROVE  state'[MR!Splitter(j)] = "exited" <=> state[MR!Splitter(j)] = "exited"
      BY <1>3, <1>7, Kids
    <2>2. SentSame
      BY <1>0, <2>1, SentUnchanged
    <2> QED BY <1>0, <2>2, FlowUnchanged, ConservedStays DEF PipeInv
  <1>20. MappersDone' /\ ReducerDone'
    BY <1>0, <1>15, <1>16, <1>17, DoneStays
  <1> QED BY <1>9, <1>10, <1>11, <1>12, <1>13, <1>14, <1>18, <1>19, <1>20 DEF PipeInv

\* Lines 84-103: waitpid.
LEMMA WaitStep ==
    ASSUME PipeInv, MR!Wait
    PROVE  PipeInv'
  <1>0. /\ PipeTypes /\ step \in Nat /\ step > LastFork /\ step' = step + 1
        /\ step - LastFork \in 1 .. LastFork /\ state[MR!Waits[step - LastFork]] = "exited"
        /\ UNCHANGED <<state, holds, pipe, written, line, received, failed>>
    BY ForksLen DEF PipeInv, PipeTypes, MR!Wait, MR!Done
  <1>1. ParentHolds'
    <2>1. NumMap \in Nat /\ step > 2 * NumMap /\ ~(step + 1 <= 2 * NumMap)
          /\ \A i \in MR!Indices : ~(step + 1 <= i)
      BY <1>0, SomeMapper DEF LastFork, MR!Indices
    <2> QED BY <1>0, <2>1 DEF PipeInv, ParentHolds, MR!Indices, MR!Rd, MR!Wr, MR!Parent
  <1>2. NotForked'
    <2>1. \A k \in 1 .. LastFork : ~(k >= step + 1)
      BY <1>0, ForksLen
    <2> QED BY <1>0, <2>1 DEF NotForked, LastFork
  <1>3. Waited'
    <2> SUFFICES ASSUME NEW k \in 1 .. LastFork, step + 1 > LastFork + k PROVE state[MR!Waits[k]] = "exited"
      BY <1>0 DEF Waited, LastFork, MR!Waits, MR!Splitter, MR!Mapper, MR!Reducer
    <2>1. step > LastFork + k \/ k = step - LastFork
      BY <1>0, ForksLen
    <2> QED BY <1>0, <2>1 DEF PipeInv, Waited
  <1>4. PipeTypes'
    <2>1. step' \in Nat /\ step' > 0
      BY <1>0
    <2> QED BY <1>0, <2>1 DEF PipeTypes, Processes, MR!Children, MR!Splitter, MR!Mapper,
          MR!Reducer, MR!Parent, MR!Indices, MR!Ends, MR!Rd, MR!Wr, Item, ChildStates
  <1>5. OwnEnds' /\ ExecFailed' /\ Unwritten'
    BY <1>0 DEF PipeInv, OwnEnds, ExecFailed, Unwritten, MR!Kept, MR!Children, MR!Splitter, MR!Mapper,
       MR!Reducer, MR!Indices, MR!Wr, MR!Rd
  <1>6. NoNewHolders /\ QuietStays /\ ExitsAtEnd
    BY <1>0 DEF NoNewHolders, QuietStays, ExitsAtEnd, Quiet
  <1>7. MappersDone' /\ ReducerDone'
    BY <1>0, <1>6, DoneStays
  <1>8. SentSame
    BY <1>0, SentUnchanged
  <1>9. Conserved'
    BY <1>0, <1>8, FlowUnchanged, ConservedStays DEF PipeInv
  <1> QED BY <1>1, <1>2, <1>3, <1>4, <1>5, <1>7, <1>9 DEF PipeInv
-----------------------------------------------------------------------------
LEMMA PipeStart == ASSUME MR!Init PROVE PipeInv
  <1>0. /\ step = 1 /\ state = [p \in MR!Children |-> "none"]
        /\ holds = [p \in MR!Children \cup {MR!Parent} |-> IF p = MR!Parent THEN MR!Ends ELSE {}]
        /\ pipe = [i \in 0 .. NumMap |-> << >>] /\ written = [i \in MR!Indices |-> 0]
        /\ line = [i \in MR!Indices |-> << >>] /\ received = {} /\ failed = {}
    BY DEF MR!Init
  <1>1. PipeTypes
    BY <1>0 DEF PipeTypes, ChildStates, Processes
  <1>2. ParentHolds
    <2>1. holds[MR!Parent] = MR!Ends
      BY <1>0
    <2>2. 0 \in 0 .. NumMap /\ \A i \in MR!Indices : i \in 0 .. NumMap
      BY SomeMapper DEF MR!Indices
    <2> QED BY <2>1, <2>2 DEF ParentHolds, MR!Ends
  <1>3. NotForked
    BY <1>0, ForkOrder DEF NotForked
  <1>4. OwnEnds /\ ExecFailed /\ Unwritten
    BY <1>0, Kids DEF OwnEnds, ExecFailed, Unwritten
  <1>5. MappersDone /\ ReducerDone
    <2>1. MR!Reducer \in MR!Children
      BY DEF MR!Children
    <2> QED BY <1>0, <2>1, Kids DEF MappersDone, ReducerDone
  <1>6. Waited
    <2>1. \A k \in 1 .. LastFork : ~(1 > LastFork + k)
      BY ForksLen
    <2> QED BY <1>0, <2>1 DEF Waited
  <1>7. Conserved
    <2>1. \A x : ~Flow(x)
      BY <1>0, InEmpty DEF Flow
    <2>2. \A x : \A i \in MR!Indices : ~SentBy(i, x)
      BY <1>0 DEF SentBy
    <2> QED BY <2>1, <2>2 DEF Conserved
  <1> QED BY <1>1, <1>2, <1>3, <1>4, <1>5, <1>6, <1>7 DEF PipeInv

LEMMA PipeStutter == ASSUME PipeInv, UNCHANGED MR!vars PROVE PipeInv'
  <1>0. UNCHANGED <<step, state, holds, pipe, written, line, received, failed>>
    BY DEF MR!vars
  <1>1. PipeTypes' /\ ParentHolds'
    BY <1>0 DEF PipeInv, PipeTypes, ParentHolds, Processes, MR!Children, MR!Splitter, MR!Mapper,
       MR!Reducer, MR!Parent, MR!Indices, MR!Ends, MR!Rd, MR!Wr, Item, ChildStates
  <1>2. NotForked' /\ Waited'
    BY <1>0 DEF PipeInv, NotForked, Waited, LastFork, MR!Forks, MR!Waits, MR!Splitter, MR!Mapper, MR!Reducer
  <1>3. OwnEnds' /\ ExecFailed' /\ Unwritten'
    BY <1>0 DEF PipeInv, OwnEnds, ExecFailed, Unwritten, MR!Kept, MR!Children, MR!Splitter, MR!Mapper,
       MR!Reducer, MR!Indices, MR!Wr, MR!Rd
  <1>4. NoNewHolders /\ QuietStays /\ ExitsAtEnd
    BY <1>0 DEF NoNewHolders, QuietStays, ExitsAtEnd, Quiet
  <1>5. MappersDone' /\ ReducerDone'
    BY <1>0, <1>4, DoneStays
  <1>6. SentSame
    BY <1>0, SentUnchanged
  <1>7. Conserved'
    BY <1>0, <1>6, FlowUnchanged, ConservedStays DEF PipeInv
  <1> QED BY <1>1, <1>2, <1>3, <1>5, <1>7 DEF PipeInv

LEMMA PipeNext == ASSUME PipeInv, [MR!Next]_(MR!vars) PROVE PipeInv'
  <1>1. CASE MR!ParentStep
    BY <1>1, ForkStep, WaitStep DEF MR!ParentStep
  <1>2. CASE \E p \in MR!Children : MR!ChildStep(p) \/ MR!Dies(p)
    <2>1. PICK p \in MR!Children : MR!ChildStep(p) \/ MR!Dies(p)
      BY <1>2
    <2>2. CASE MR!ChildStep(p)
      BY <2>2, ExecStep, ExecFailsStep, FailingExitsStep, SplitStep, MapStep, ReduceStep DEF MR!ChildStep
    <2> QED BY <2>1, <2>2, DiesStep
  <1>3. CASE MR!Over \/ UNCHANGED MR!vars
    BY <1>3, PipeStutter DEF MR!Over
  <1> QED BY <1>1, <1>2, <1>3 DEF MR!Next

\* At the end nothing is left on the way.
LEMMA AllArrived == ASSUME PipeInv PROVE OutputComplete
  <1> DEFINE wrote(i) == IF <<MR!Splitter(i), "exec">> \in failed
                         THEN {<<MR!Splitter(i), "execlpfail">>}
                         ELSE {<<MR!Splitter(i), k>> : k \in 1 .. written[i]}
  <1>1. SUFFICES ASSUME MR!Done, ~MR!Broken PROVE received = UNION {wrote(i) : i \in MR!Indices}
    BY DEF OutputComplete, MR!OutputComplete
  <1>2. step \in Nat /\ \A k \in 1 .. LastFork : step > LastFork + k
    BY <1>1, ForksLen DEF MR!Done, PipeInv, PipeTypes
  <1>3. \A p \in MR!Children : state[p] = "exited"
    BY <1>2, WaitOrder DEF PipeInv, Waited
  <1>4. MR!Reducer \in MR!Children
    BY DEF MR!Children
  <1>5. \A i \in MR!Indices : line[i] = << >> /\ pipe[i] = << >>
    BY <1>1, <1>3, Kids DEF PipeInv, MappersDone, Quiet
  <1>6. pipe[0] = << >>
    BY <1>1, <1>3, <1>4 DEF PipeInv, ReducerDone, Quiet
  <1>7. \A i \in 0 .. NumMap : pipe[i] = << >>
    <2>1. \A i \in 0 .. NumMap : i = 0 \/ i \in MR!Indices
      BY SomeMapper DEF MR!Indices
    <2> QED BY <1>5, <1>6, <2>1
  <1>8. \A x : Flow(x) <=> x \in received
    BY <1>5, <1>7, InEmpty DEF Flow
  <1>9. ASSUME NEW i \in MR!Indices, NEW x PROVE SentBy(i, x) <=> x \in wrote(i)
    BY <1>3, Kids DEF SentBy
  <1>10. \A x : Flow(x) <=> \E i \in MR!Indices : SentBy(i, x)
    BY <1>1 DEF PipeInv, Conserved
  <1> HIDE DEF wrote
  <1>11. \A x : x \in received <=> \E i \in MR!Indices : x \in wrote(i)
    BY <1>8, <1>9, <1>10
  <1> QED BY <1>11

\* mapreduce.c, for every number of mappers, lines and capacity of the pipes and
\* whoever may fail: when the parent has waited for everybody and no mapper and
\* no reducer failed, the reducer has read exactly what the splitters wrote.
THEOREM NothingLostInPipes == MR!Spec => []OutputComplete
  <1>1. MR!Spec => []PipeInv
    BY PipeStart, PipeNext, PTL DEF MR!Spec
  <1> QED BY <1>1, AllArrived, PTL

-----------------------------------------------------------------------------
(* cracker1.c, for every number of workers, alphabet and input.  C1 is     *)
(* cracker1 as MCWorkers has it.                                           *)

\* The instance counts and numbers as Cracker2 does.
LEMMA SameNumbers == C1!Exp = Exp /\ \A p : C1!IndexOf(p) = IndexOf(p)
  BY DEF C1!Exp, Exp, C1!IndexOf, IndexOf

\* One letter more (line 73).
LEMMA IndexAppend ==
    ASSUME NEW u \in Nat, NEW p \in Digits(u), NEW c \in 0 .. Letters - 1
    PROVE  /\ Append(p, c) \in Digits(u + 1)
           /\ IndexOf(Append(p, c)) = IndexOf(p) * Letters + c
  <1> DEFINE r == Append(p, c)
  <1>0. p \in Seq(0 .. Letters - 1)
    BY SeqDef DEF Digits
  <1>1. p \in Seq(0 .. Letters - 1) /\ Len(p) = u
    BY <1>0, DigitsLength
  <1>2. /\ r \in Seq(0 .. Letters - 1) /\ Len(r) = u + 1 /\ r[u + 1] = c
        /\ \A i \in 1 .. u : r[i] = p[i]
    BY <1>1
  <1>3. r \in Digits(u + 1)
    BY <1>2, LenProperties DEF Digits
  <1> HIDE DEF r
  <1>4. PICK x \in [0 .. u -> Nat] : /\ x[0] = 0 /\ \A i \in 1 .. u : x[i] = x[i - 1] * Letters + p[i]
                                     /\ IndexOf(p) = x[u]
    BY IndexDef
  <1>5. PICK y \in [0 .. u + 1 -> Nat] :
           /\ y[0] = 0 /\ \A i \in 1 .. u + 1 : y[i] = y[i - 1] * Letters + r[i]
           /\ IndexOf(r) = y[u + 1]
    <2>1. u + 1 \in Nat
      OBVIOUS
    <2> QED BY <1>3, <2>1, IndexDef
  <1> DEFINE T == {i \in 0 .. u : x[i] = y[i]}
  <1>6. 0 \in T
    BY <1>4, <1>5
  <1>7. ASSUME NEW i \in 1 .. u, i - 1 \in T PROVE i \in T
    <2>1. x[i - 1] = y[i - 1] /\ i \in 0 .. u /\ i \in 1 .. u + 1
      BY <1>7
    <2>2. x[i] = x[i - 1] * Letters + p[i] /\ y[i] = y[i - 1] * Letters + r[i] /\ r[i] = p[i]
      BY <1>2, <1>4, <1>5, <2>1
    <2> QED BY <2>1, <2>2
  <1>8. Climbs(T, u)
    BY <1>6, <1>7 DEF Climbs
  <1>9. x[u] = y[u]
    <2> HIDE DEF T
    <2>1. \A i \in 0 .. u : i \in T
      BY <1>8, Climb
    <2> QED BY <2>1 DEF T
  <1>10. y[u + 1] = y[(u + 1) - 1] * Letters + r[u + 1] /\ (u + 1) - 1 = u
    BY <1>5
  <1>11. IndexOf(r) = IndexOf(p) * Letters + c
    BY <1>2, <1>4, <1>5, <1>9, <1>10
  <1> QED BY <1>3, <1>11 DEF r

\* What the search returns that looks for a among m candidates from low on, and
\* what two searches in a row make.
Outcome(a, low, m) == IF low <= a /\ a < low + m THEN [result |-> 0, numhash |-> a - low + 1]
                      ELSE [result |-> 1, numhash |-> m]
Then(x, y) == IF x.result = 0 THEN x
              ELSE [result |-> y.result, numhash |-> x.numhash + y.numhash]

LEMMA OneThenOther ==
    ASSUME NEW a \in Int, NEW low \in Nat, NEW m \in Nat, NEW e \in Nat
    PROVE  Then(Outcome(a, low, m), Outcome(a, low + m, e)) = Outcome(a, low, m + e)
  <1>1. CASE low <= a /\ a < low + m
    BY <1>1 DEF Then, Outcome
  <1>2. CASE ~(low <= a /\ a < low + m)
    <2>1. CASE low + m <= a /\ a < low + m + e
      BY <1>2, <2>1 DEF Then, Outcome
    <2>2. CASE ~(low + m <= a /\ a < low + m + e)
      <3>1. ~(low <= a /\ a < low + (m + e))
        BY <1>2, <2>2
      <3> QED BY <1>2, <2>2, <3>1 DEF Then, Outcome
    <2> QED BY <2>1, <2>2
  <1> QED BY <1>1, <1>2

\* The loop of lines 71-77, from prefix p, when t is what its calls return.
Loop(t, p) ==
    LET loop[c \in 0 .. Letters] ==
          IF c = 0 THEN C1!Nothing
          ELSE IF loop[c - 1].result = 0 THEN loop[c - 1]
          ELSE LET find == t[Append(p, c - 1)]
               IN [result |-> find.result, numhash |-> loop[c - 1].numhash + find.numhash]
    IN loop[Letters]

LEMMA LoopOutcome ==
    ASSUME NEW t, NEW p, NEW a \in Int, NEW low \in Nat, NEW e \in Nat,
           \A c \in 0 .. Letters - 1 : t[Append(p, c)] = Outcome(a, low + c * e, e)
    PROVE  Loop(t, p) = Outcome(a, low, Letters * e)
  <1> DEFINE E(f) == f = [c \in 0 .. Letters |->
                            IF c = 0 THEN C1!Nothing
                            ELSE IF f[c - 1].result = 0 THEN f[c - 1]
                            ELSE LET find == t[Append(p, c - 1)]
                                 IN [result |-> find.result, numhash |-> f[c - 1].numhash + find.numhash]]
             F(c) == Outcome(a, low, c * e)
             h == [c \in 0 .. Letters |-> F(c)]
             x == CHOOSE f : E(f)
  <1>0. Letters \in Nat /\ \A c \in 1 .. Letters : c - 1 \in 0 .. Letters - 1 /\ c - 1 \in 0 .. Letters /\ c # 0
    BY LettersAssumption
  <1>1. F(0) = C1!Nothing
    BY DEF Outcome, C1!Nothing
  <1>2. ASSUME NEW c \in 1 .. Letters
        PROVE  Then(F(c - 1), t[Append(p, c - 1)]) = F(c)
    <2> DEFINE m == (c - 1) * e
    <2>1. m \in Nat /\ c * e = m + e /\ t[Append(p, c - 1)] = Outcome(a, low + m, e)
      BY <1>0
    <2> HIDE DEF m
    <2>2. Then(Outcome(a, low, m), Outcome(a, low + m, e)) = Outcome(a, low, m + e)
      BY <2>1, OneThenOther
    <2> QED BY <2>1, <2>2 DEF m
  <1> HIDE DEF F
  <1>3. E(h)
    <2>1. ASSUME NEW c \in 0 .. Letters
          PROVE  h[c] = IF c = 0 THEN C1!Nothing
                        ELSE IF h[c - 1].result = 0 THEN h[c - 1]
                        ELSE LET find == t[Append(p, c - 1)]
                             IN [result |-> find.result, numhash |-> h[c - 1].numhash + find.numhash]
      <3>1. CASE c = 0
        BY <1>1, <3>1
      <3>2. CASE c # 0
        <4>1. c \in 1 .. Letters
          BY <3>2
        <4>2. h[c] = F(c) /\ h[c - 1] = F(c - 1)
          BY <1>0, <4>1
        <4> QED BY <1>2, <3>2, <4>1, <4>2 DEF Then
      <3> QED BY <3>1, <3>2
    <2> HIDE DEF h
    <2>2. h = [c \in 0 .. Letters |-> h[c]]
      BY DEF h
    <2> QED BY <2>1, <2>2
  <1>4. E(x)
    <2> HIDE DEF h
    <2> QED BY <1>3
  <1>5. Loop(t, p) = x[Letters]
    BY DEF Loop
  <1> HIDE DEF x, h
  <1>6. x[0] = C1!Nothing /\ \A c \in 1 .. Letters : x[c] = Then(x[c - 1], t[Append(p, c - 1)])
    BY <1>0, <1>4 DEF Then
  <1> HIDE DEF E
  <1> DEFINE T == {c \in 0 .. Letters : x[c] = F(c)}
  <1>7. 0 \in T
    BY <1>0, <1>1, <1>6
  <1>8. ASSUME NEW c \in 1 .. Letters, c - 1 \in T PROVE c \in T
    <2>1. x[c - 1] = F(c - 1) /\ c \in 0 .. Letters
      BY <1>0, <1>8
    <2>2. x[c] = Then(x[c - 1], t[Append(p, c - 1)])
      BY <1>6
    <2> QED BY <1>2, <2>1, <2>2
  <1>9. Climbs(T, Letters)
    BY <1>7, <1>8 DEF Climbs
  <1>10. x[Letters] = F(Letters)
    <2> HIDE DEF T
    <2>1. \A c \in 0 .. Letters : c \in T
      BY <1>0, <1>9, Climb
    <2> QED BY <1>0, <2>1 DEF T
  <1> QED BY <1>5, <1>10 DEF F
\* What test() returns for a prefix: the search among the candidates that begin
\* with it.
Below(k, p) == Exp[k.unknown - Len(p)]
Closed(k, p) == Outcome(k.answer, IndexOf(p) * Below(k, p), Below(k, p))

\* One call of test(), when t is what the calls it makes return.
Called(t, k, p) == IF Len(p) = k.unknown
                   THEN [result |-> IF C1!IndexOf(p) = k.answer THEN 0 ELSE 1, numhash |-> 1]
                   ELSE Loop(t, p)

LEMMA PrefixIs ==
    ASSUME NEW k \in LineTasks, NEW p
    PROVE  p \in C1!Prefixes(k) <=> \E n \in 0 .. k.unknown : p \in Digits(n)
  BY DEF C1!Prefixes, Digits

LEMMA Index0 ==
    << >> \in Digits(0) /\ IndexOf(<< >>) = 0 /\ Len(<< >>) = 0
  <1>1. << >> \in Digits(0)
    BY DEF Digits
  <1>2. PICK x \in [0 .. 0 -> Nat] : x[0] = 0 /\ IndexOf(<< >>) = x[0]
    BY <1>1, IndexDef
  <1> QED BY <1>1, <1>2

LEMMA IndexType == ASSUME NEW u \in Nat, NEW p \in Digits(u) PROVE IndexOf(p) \in Nat
  BY IndexOfString

LEMMA CalledIs ==
    ASSUME NEW k \in LineTasks, NEW n \in 0 .. k.unknown, NEW p \in Digits(n), NEW t,
           n < k.unknown => \A c \in 0 .. Letters - 1 : t[Append(p, c)] = Closed(k, Append(p, c))
    PROVE  Called(t, k, p) = Closed(k, p)
  <1>0. k.unknown \in Nat /\ k.answer \in Int /\ n \in Nat /\ Len(p) = n /\ IndexOf(p) \in Nat
    <2>1. k.unknown \in Nat /\ k.answer \in Int /\ n \in Nat
      BY LinesAssumption
    <2> QED BY <2>1, DigitsLength, IndexType
  <1>1. CASE n = k.unknown
    <2>1. Below(k, p) = 1
      <3>1. k.unknown - Len(p) = 0
        BY <1>0, <1>1
      <3> QED BY <3>1, ExpPositive DEF Below
    <2>2. Closed(k, p) = Outcome(k.answer, IndexOf(p), 1)
      <3>1. IndexOf(p) * 1 = IndexOf(p)
        BY <1>0
      <3> QED BY <2>1, <3>1 DEF Closed
    <2>3. Called(t, k, p) = [result |-> IF IndexOf(p) = k.answer THEN 0 ELSE 1, numhash |-> 1]
      BY <1>0, <1>1, SameNumbers DEF Called
    <2>4. CASE IndexOf(p) = k.answer
      <3>1. k.answer - IndexOf(p) + 1 = 1 /\ IndexOf(p) <= k.answer /\ k.answer < IndexOf(p) + 1
        BY <1>0, <2>4
      <3> QED BY <2>2, <2>3, <2>4, <3>1 DEF Outcome
    <2>5. CASE IndexOf(p) # k.answer
      <3>1. ~(IndexOf(p) <= k.answer /\ k.answer < IndexOf(p) + 1)
        BY <1>0, <2>5
      <3> QED BY <2>2, <2>3, <2>5, <3>1 DEF Outcome
    <2> QED BY <2>4, <2>5
  <1>2. CASE n # k.unknown
    <2> DEFINE e == Exp[k.unknown - (n + 1)]
               low == IndexOf(p) * Below(k, p)
    <2>1. n < k.unknown /\ n + 1 \in 0 .. k.unknown
      BY <1>0, <1>2
    <2>2. /\ k.unknown - n \in Nat /\ k.unknown - n > 0 /\ (k.unknown - n) - 1 = k.unknown - (n + 1)
          /\ k.unknown - (n + 1) \in Nat
      BY <1>0, <2>1
    <2>3. Below(k, p) = Letters * e /\ e \in Nat
      BY <1>0, <2>2, ExpPositive DEF Below
    <2> HIDE DEF e
    <2>4. low \in Nat /\ Letters \in Nat /\ low = IndexOf(p) * (Letters * e)
      BY <1>0, <2>3, LettersAssumption
    <2> HIDE DEF low
    <2>5. ASSUME NEW c \in 0 .. Letters - 1 PROVE t[Append(p, c)] = Outcome(k.answer, low + c * e, e)
      <3>1. Append(p, c) \in Digits(n + 1) /\ IndexOf(Append(p, c)) = IndexOf(p) * Letters + c
        BY <1>0, IndexAppend
      <3>2. Len(Append(p, c)) = n + 1
        <4>1. n + 1 \in Nat
          BY <1>0
        <4> QED BY <3>1, <4>1, DigitsLength
      <3>3. Below(k, Append(p, c)) = e
        BY <3>2 DEF Below, e
      <3>4. (IndexOf(p) * Letters + c) * e = low + c * e
        <4>1. \A i \in Nat, j \in Nat, l \in Nat, f \in Nat : (i * j + l) * f = i * (j * f) + l * f
          OBVIOUS
        <4>2. c \in Nat
          BY <2>4
        <4> QED BY <1>0, <2>3, <2>4, <4>1, <4>2
      <3>5. t[Append(p, c)] = Closed(k, Append(p, c))
        BY <2>1
      <3> QED BY <3>1, <3>3, <3>4, <3>5 DEF Closed
    <2>6. Loop(t, p) = Outcome(k.answer, low, Letters * e)
      BY <1>0, <2>3, <2>4, <2>5, LoopOutcome
    <2>7. Called(t, k, p) = Loop(t, p)
      BY <1>0, <1>2 DEF Called
    <2> QED BY <2>3, <2>6, <2>7 DEF Closed, low
  <1> QED BY <1>1, <1>2

LEMMA TestIs ==
    ASSUME NEW k \in LineTasks
    PROVE  C1!Test(k) = Outcome(k.answer, 0, Exp[k.unknown])
  <1> DEFINE u == k.unknown
             E(f) == f = [p \in C1!Prefixes(k) |-> Called(f, k, p)]
             h == [p \in C1!Prefixes(k) |-> Closed(k, p)]
             x == CHOOSE f : E(f)
  <1>0. u \in Nat /\ k.answer \in Int
    BY LinesAssumption
  <1>1. ASSUME NEW n \in 0 .. u, n < u, NEW p \in Digits(n), NEW c \in 0 .. Letters - 1
        PROVE  Append(p, c) \in Digits(n + 1) /\ n + 1 \in 0 .. u /\ Append(p, c) \in C1!Prefixes(k)
    <2>1. n \in Nat /\ n + 1 \in 0 .. u
      BY <1>0, <1>1
    <2>2. Append(p, c) \in Digits(n + 1)
      BY <2>1, IndexAppend
    <2> QED BY <2>1, <2>2, PrefixIs
  <1>2. E(h)
    <2>1. ASSUME NEW p \in C1!Prefixes(k) PROVE h[p] = Called(h, k, p)
      <3>1. PICK n \in 0 .. u : p \in Digits(n)
        BY PrefixIs
      <3>2. n < u => \A c \in 0 .. Letters - 1 : h[Append(p, c)] = Closed(k, Append(p, c))
        BY <1>1, <3>1
      <3>3. h[p] = Closed(k, p)
        OBVIOUS
      <3> HIDE DEF h
      <3> QED BY <3>1, <3>2, <3>3, CalledIs
    <2>2. h = [p \in C1!Prefixes(k) |-> h[p]]
      OBVIOUS
    <2> HIDE DEF h
    <2> QED BY <2>1, <2>2
  <1>3. E(x)
    <2> HIDE DEF h
    <2> QED BY <1>2
  <1>4. C1!Test(k) = x[<< >>]
    BY DEF C1!Test, Called, Loop
  <1> HIDE DEF x, h
  <1>5. \A p \in C1!Prefixes(k) : x[p] = Called(x, k, p)
    BY <1>3
  <1> HIDE DEF E
  <1> DEFINE T == {d \in 0 .. u : \A p \in Digits(u - d) : x[p] = Closed(k, p)}
  <1>6. ASSUME NEW d \in 0 .. u, d = 0 \/ d - 1 \in T PROVE d \in T
    <2>1. u - d \in 0 .. u /\ (d = 0 => ~(u - d < u)) /\ (d # 0 => (u - d) + 1 = u - (d - 1))
      BY <1>0
    <2>2. ASSUME NEW p \in Digits(u - d) PROVE x[p] = Closed(k, p)
      <3>1. p \in C1!Prefixes(k)
        BY <2>1, PrefixIs
      <3>2. ASSUME u - d < u, NEW c \in 0 .. Letters - 1 PROVE x[Append(p, c)] = Closed(k, Append(p, c))
        <4>1. Append(p, c) \in Digits((u - d) + 1)
          BY <1>1, <2>1, <3>2
        <4>2. \A r \in Digits(u - (d - 1)) : x[r] = Closed(k, r)
          BY <1>6, <2>1, <3>2
        <4> QED BY <2>1, <3>2, <4>1, <4>2
      <3>3. Called(x, k, p) = Closed(k, p)
        BY <2>1, <3>2, CalledIs
      <3> QED BY <1>5, <3>1, <3>3
    <2> QED BY <2>2
  <1>7. Climbs(T, u)
    <2>1. 0 \in T
      BY <1>0, <1>6
    <2>2. \A i \in 1 .. u : i - 1 \in T => i \in T
      BY <1>0, <1>6
    <2> HIDE DEF T
    <2> QED BY <2>1, <2>2 DEF Climbs
  <1>8. u \in T
    <2> HIDE DEF T
    <2>1. \A i \in 0 .. u : i \in T
      BY <1>0, <1>7, Climb
    <2> QED BY <1>0, <2>1
  <1>9. x[<< >>] = Closed(k, << >>)
    <2>1. u - u = 0
      BY <1>0
    <2> QED BY <1>8, <2>1, Index0
  <1>10. Closed(k, << >>) = Outcome(k.answer, 0, Exp[u])
    <2>1. Below(k, << >>) = Exp[u] /\ Exp[u] \in Nat
      <3>1. u - 0 = u
        BY <1>0
      <3> QED BY <1>0, <3>1, Index0, ExpPositive DEF Below
    <2>2. 0 * Exp[u] = 0
      BY <2>1
    <2> QED BY <2>1, <2>2, Index0 DEF Closed
  <1> QED BY <1>4, <1>9, <1>10

\* The answer to a line is the reference's.
LEMMA TestRight ==
    ASSUME NEW k \in LineTasks
    PROVE  /\ C1!Test(k) \in [result : {0, 1}, numhash : Nat]
           /\ C1!Reference(k) = <<C1!Test(k).result, C1!Test(k).numhash>>
  <1>1. k.unknown \in Nat /\ k.answer \in Int
    BY LinesAssumption
  <1>2. C1!Test(k) = Outcome(k.answer, 0, Exp[k.unknown])
    BY TestIs
  <1>3. Exp[k.unknown] \in Nat
    BY <1>1, ExpPositive
  <1>4. C1!Reference(k) = IF k.answer \in 0 .. Exp[k.unknown] - 1
                          THEN <<0, k.answer + 1>> ELSE <<1, Exp[k.unknown]>>
    BY SameNumbers DEF C1!Reference
  <1>5. k.answer \in 0 .. Exp[k.unknown] - 1 <=> 0 <= k.answer /\ k.answer < 0 + Exp[k.unknown]
    BY <1>1, <1>3
  <1>6. k.answer - 0 + 1 = k.answer + 1
    BY <1>1
  <1>7. CASE 0 <= k.answer /\ k.answer < 0 + Exp[k.unknown]
    BY <1>1, <1>2, <1>3, <1>4, <1>5, <1>6, <1>7 DEF Outcome
  <1>8. CASE ~(0 <= k.answer /\ k.answer < 0 + Exp[k.unknown])
    BY <1>1, <1>2, <1>3, <1>4, <1>5, <1>8 DEF Outcome
  <1> QED BY <1>7, <1>8
-----------------------------------------------------------------------------
(* Queues of different items, with a last one.                             *)

Distinct(s) == \A j \in 1 .. Len(s) : \A i \in 1 .. Len(s) : s[i] = s[j] => i = j
LastIs(s, y) == s # << >> /\ s[Len(s)] = y

LEMMA QueueAppend ==
    ASSUME NEW s \in Seq(Nat), NEW y \in Nat
    PROVE  /\ Append(s, y) \in Seq(Nat) /\ LastIs(Append(s, y), y) /\ Len(Append(s, y)) = Len(s) + 1
           /\ Distinct(s) /\ ~In(y, s) => Distinct(Append(s, y))
  <1> DEFINE r == Append(s, y)
  <1>1. /\ r \in Seq(Nat) /\ Len(s) \in Nat /\ Len(r) = Len(s) + 1 /\ r[Len(s) + 1] = y
        /\ \A k \in 1 .. Len(s) : r[k] = s[k]
    OBVIOUS
  <1>2. r # << >>
    BY <1>1
  <1> HIDE DEF r
  <1>3. \A k \in 1 .. Len(r) : k \in 1 .. Len(s) \/ k = Len(s) + 1
    BY <1>1
  <1>4. ASSUME Distinct(s), ~In(y, s) PROVE Distinct(r)
    <2> SUFFICES ASSUME NEW j \in 1 .. Len(r), NEW i \in 1 .. Len(r), r[i] = r[j] PROVE i = j
      BY DEF Distinct
    <2>1. \A k \in 1 .. Len(s) : r[k] # y
      BY <1>1, <1>4 DEF In
    <2> QED BY <1>1, <1>3, <1>4, <2>1 DEF Distinct
  <1>5. LastIs(r, y)
    BY <1>1, <1>2 DEF LastIs
  <1> QED BY <1>1, <1>4, <1>5 DEF r

LEMMA QueueTail ==
    ASSUME NEW s \in Seq(Nat), s # << >>
    PROVE  /\ Tail(s) \in Seq(Nat) /\ Head(s) \in Nat /\ Len(Tail(s)) = Len(s) - 1
           /\ Distinct(s) => Distinct(Tail(s)) /\ ~In(Head(s), Tail(s))
           /\ \A y : LastIs(s, y) /\ Head(s) # y => LastIs(Tail(s), y)
           /\ \A y : Distinct(s) /\ LastIs(s, y) /\ Head(s) = y => Tail(s) = << >>
           /\ \A y : LastIs(s, y) /\ Len(s) <= 1 => Head(s) = y
  <1> DEFINE r == Tail(s)
             h == Head(s)
  <1>1. /\ Len(s) \in Nat /\ Len(s) > 0 /\ Len(r) = Len(s) - 1 /\ h = s[1] /\ h \in Nat
        /\ r \in Seq(Nat) /\ \A k \in 1 .. Len(s) - 1 : r[k] = s[k + 1]
    OBVIOUS
  <1>2. Len(r) = 0 => r = << >>
    BY <1>1, EmptySeq
  <1> HIDE DEF r, h
  <1>3. Len(r) # 0 => r # << >>
    OBVIOUS
  <1>4. \A k \in 1 .. Len(r) : k + 1 \in 1 .. Len(s) /\ r[k] = s[k + 1] /\ k + 1 # 1
    BY <1>1
  <1>5. 1 \in 1 .. Len(s)
    BY <1>1
  <1>6. ASSUME Distinct(s) PROVE Distinct(r) /\ ~In(h, r)
    <2>1. ASSUME NEW j \in 1 .. Len(r), NEW i \in 1 .. Len(r), r[i] = r[j] PROVE i = j
      <3>1. i + 1 = j + 1
        BY <1>4, <1>6, <2>1 DEF Distinct
      <3> QED BY <1>1, <3>1
    <2>2. \A k \in 1 .. Len(r) : r[k] # h
      BY <1>1, <1>4, <1>5, <1>6 DEF Distinct
    <2> QED BY <2>1, <2>2 DEF Distinct, In
  <1>7. ASSUME NEW y, LastIs(s, y), h # y PROVE LastIs(r, y)
    <2>1. Len(s) # 1
      BY <1>1, <1>7 DEF LastIs
    <2>2. Len(r) \in 1 .. Len(s) - 1 /\ Len(r) + 1 = Len(s)
      BY <1>1, <2>1
    <2>3. r[Len(r)] = y
      BY <1>1, <1>7, <2>2 DEF LastIs
    <2>4. r # << >>
      BY <1>3, <2>2
    <2> QED BY <2>3, <2>4 DEF LastIs
  <1>8. ASSUME NEW y, Distinct(s), LastIs(s, y), h = y PROVE r = << >>
    <2>1. Len(s) \in 1 .. Len(s)
      BY <1>1
    <2>2. Len(s) = 1
      BY <1>1, <1>5, <1>8, <2>1 DEF Distinct, LastIs
    <2> QED BY <1>1, <1>2, <2>2
  <1>9. ASSUME NEW y, LastIs(s, y), Len(s) <= 1 PROVE h = y
    <2>1. Len(s) = 1
      BY <1>1, <1>9
    <2> QED BY <1>1, <1>9, <2>1 DEF LastIs
  <1> QED BY <1>1, <1>6, <1>7, <1>8, <1>9 DEF r, h

-----------------------------------------------------------------------------
(* The invariant.  Item 0 is the sentinel, i is line i.                    *)

LEMMA SameWorkers == C1!Workers = Workers /\ C1!End = 0
  BY DEF C1!Workers, Workers, C1!End

Holding(w) == at[w] \in {"test", "count"}
\* The lines whose result has been printed.
Cracked == (1 .. total) \ live
Right(i) == <<i>> \o C1!Reference(text[i])
Successes == {i \in Cracked : C1!Reference(text[i])[1] = 0}

NumberTypes == total \in Nat /\ live \subseteq 0 .. total /\ success \in Int
TextTypes == text \in Seq(LineTasks) /\ Len(text) = total
QueueTypes == q \in Seq(Nat)
WorkerTypes ==
  /\ stage \in {"read", "join", "pull", "summary", "done"}
  /\ at \in [Workers -> {"pull", "hand back", "test", "count", "exited"}]
  /\ command \in [Workers -> Nat] /\ guess = [w \in Workers |-> guess[w]]
LineTypes == NumberTypes /\ TextTypes /\ QueueTypes /\ WorkerTypes

LEMMA Numbers ==
    ASSUME NumberTypes
    PROVE  0 \in 0 .. total /\ 0 \notin 1 .. total /\ \A i \in live : i # 0 => i \in 1 .. total
  <1>1. total \in Nat /\ live \subseteq 0 .. total
    BY DEF NumberTypes
  <1> QED BY <1>1

\* Every string is in the queue or in one worker's hand until it is freed.
Placed ==
  /\ \A i : In(i, q) => i \in live
  /\ \A w \in Workers : Holding(w) => command[w] \in live /\ command[w] # 0 /\ ~In(command[w], q)
  /\ \A i \in live : i # 0 => In(i, q) \/ \E w \in Workers : Holding(w) /\ command[w] = i
OnlyOnce ==
  /\ Distinct(q)
  /\ \A v \in Workers : \A w \in Workers : Holding(v) /\ Holding(w) /\ command[v] = command[w] => v = w

Guessed == \A w \in Workers : at[w] = "count" => guess[w] = C1!Test(text[command[w]])
PrintedRight == \A x : x \in printed <=> \E i \in Cracked : x = Right(i)
SuccessRight == success = Cardinality(Successes)

Reading == stage = "read" => 0 \notin live /\ \A w \in Workers : at[w] \notin {"hand back", "exited"}
Nobody == \A w \in Workers : at[w] # "hand back"
OneHolder == \E w \in Workers : at[w] = "hand back" /\ \A v \in Workers : v # w => at[v] # "hand back"
Joining == stage \in {"join", "pull"} =>
             /\ 0 \in live
             /\ (LastIs(q, 0) /\ Nobody) \/ (q = << >> /\ OneHolder)
             /\ (\E w \in Workers : at[w] = "exited") => Len(q) <= 1
Handing == \A w \in Workers : at[w] = "hand back" => command[w] = 0
Joined == stage \in {"pull", "summary", "done"} => \A w \in Workers : at[w] = "exited"
Over1 == stage \in {"summary", "done"} => q = << >> /\ 0 \notin live

SentinelInv == Reading /\ Joining /\ Handing /\ Joined /\ Over1
LineInv == /\ LineTypes /\ Placed /\ OnlyOnce /\ Guessed /\ PrintedRight /\ SuccessRight
           /\ SentinelInv
-----------------------------------------------------------------------------
\* What the invariant says once main prints the summary is the property.
LEMMA LinesSummed ==
    ASSUME LineInv
    PROVE  Cracker1Summary
  <1>0. \A X : C1!Cardinality(X) = Cardinality(X)
    BY DEF C1!Cardinality, C1!IsFiniteSet, Cardinality, IsFiniteSet
  <1>1. C1!SentinelLast
    <2> SUFFICES ASSUME stage \in {"join", "pull"} PROVE C1!SentinelLast
      BY DEF C1!SentinelLast
    <2> DEFINE holders == {w \in C1!Workers : at[w] = "hand back"}
    <2>1. /\ 0 \in live
          /\ (LastIs(q, 0) /\ Nobody) \/ (q = << >> /\ OneHolder)
          /\ (\E w \in Workers : at[w] = "exited") => Len(q) <= 1
      BY DEF LineInv, SentinelInv, Joining
    <2>2. ASSUME LastIs(q, 0), Nobody
          PROVE  holders = {} /\ q # << >> /\ q[Len(q)] = 0
      BY <2>2, SameWorkers DEF LastIs, Nobody
    <2>3. ASSUME OneHolder PROVE C1!Cardinality(holders) = 1
      <3>1. PICK w \in Workers : at[w] = "hand back" /\ \A v \in Workers : v # w => at[v] # "hand back"
        BY <2>3 DEF OneHolder
      <3>2. holders = {w}
        BY <3>1, SameWorkers
      <3>3. Cardinality({w}) = 1
        BY FS_Singleton
      <3> QED BY <1>0, <3>2, <3>3
    <2>4. \A i \in 1 .. Len(q) - 1 : q[i] # 0
      <3> SUFFICES ASSUME NEW i \in 1 .. Len(q) - 1, q[i] = 0 PROVE FALSE
        OBVIOUS
      <3>0. Len(q) \in Nat
        BY LenProperties DEF LineInv, LineTypes, QueueTypes
      <3>1. i \in 1 .. Len(q) /\ Len(q) \in 1 .. Len(q) /\ i # Len(q)
        BY <3>0
      <3>2. q # << >>
        BY <3>1
      <3>3. q[Len(q)] = 0
        BY <2>1, <3>2 DEF LastIs
      <3> QED BY <3>1, <3>3 DEF LineInv, OnlyOnce, Distinct
    <2> HIDE DEF holders
    <2>5. \/ holders = {} /\ q # << >> /\ q[Len(q)] = C1!End
          \/ C1!Cardinality(holders) = 1 /\ q = << >>
      BY <2>1, <2>2, <2>3, SameWorkers
    <2> QED BY <2>1, <2>4, <2>5, SameWorkers DEF C1!SentinelLast, holders
  <1>2. C1!SummaryRight
    <2> SUFFICES ASSUME stage \in {"summary", "done"}
                 PROVE  /\ printed = {<<i>> \o C1!Reference(text[i]) : i \in 1 .. Len(text)}
                        /\ success = C1!Cardinality({i \in 1 .. Len(text) : C1!Reference(text[i])[1] = 0})
                        /\ total = Len(text)
                        /\ live = {} /\ q = << >>
      BY DEF C1!SummaryRight
    <2>1. q = << >> /\ 0 \notin live /\ \A w \in Workers : at[w] = "exited"
      BY DEF LineInv, SentinelInv, Over1, Joined
    <2>2. live = {}
      <3> SUFFICES ASSUME NEW i \in live PROVE FALSE
        OBVIOUS
      <3>1. ~In(i, q)
        BY <2>1, InEmpty
      <3> QED BY <2>1, <3>1 DEF LineInv, Placed, Holding
    <2>3. Cracked = 1 .. Len(text) /\ total = Len(text)
      BY <2>2 DEF Cracked, LineInv, LineTypes, TextTypes
    <2>4. printed = {Right(i) : i \in 1 .. Len(text)}
      BY <2>3 DEF LineInv, PrintedRight
    <2>5. success = Cardinality({i \in 1 .. Len(text) : C1!Reference(text[i])[1] = 0})
      BY <2>3 DEF LineInv, SuccessRight, Successes
    <2> QED BY <1>0, <2>1, <2>2, <2>3, <2>4, <2>5 DEF Right
  <1> QED BY <1>1, <1>2 DEF Cracker1Summary
\* Steps that print nothing.
LEMMA BooksKept ==
    ASSUME LineInv, Cracked' = Cracked, \A i \in Cracked : text'[i] = text[i],
           printed' = printed, success' = success
    PROVE  PrintedRight' /\ SuccessRight'
  <1>1. \A i \in Cracked : Right(i)' = Right(i)
    BY DEF Right
  <1>2. Successes' = Successes
    BY DEF Successes
  <1>3. ASSUME NEW x PROVE x \in printed' <=> \E i \in Cracked' : x = Right(i)'
    BY <1>1 DEF LineInv, PrintedRight
  <1> QED BY <1>2, <1>3 DEF LineInv, PrintedRight, SuccessRight

\* Lines 103-105.
LEMMA ReadLineStep ==
    ASSUME LineInv, NEW k \in LineTasks, C1!ReadLine(k)
    PROVE  LineInv'
  <1> DEFINE new == total + 1
  <1>1. /\ stage = "read" /\ total' = new /\ text' = Append(text, k) /\ live' = live \cup {new}
        /\ q' = Append(q, new) /\ UNCHANGED <<success, stage, at, command, guess, printed>>
    BY DEF C1!ReadLine
  <1>2. NumberTypes /\ TextTypes /\ QueueTypes /\ WorkerTypes
    BY DEF LineInv, LineTypes
  <1>a. new \in Nat /\ new \notin live /\ new # 0 /\ total \in Nat
    BY <1>2 DEF NumberTypes
  <1>3. new \in Nat /\ new \notin live /\ new # 0 /\ ~In(new, q)
    BY <1>a DEF LineInv, Placed
  <1>4. Len(text') = new /\ text' \in Seq(LineTasks) /\ \A i \in 1 .. total : text'[i] = text[i]
    BY <1>1, <1>2 DEF TextTypes
  <1>5. q' \in Seq(Nat) /\ Distinct(q')
    BY <1>1, <1>2, <1>3, QueueAppend DEF QueueTypes, LineInv, OnlyOnce
  <1>6. \A i : In(i, q') <=> In(i, q) \/ i = new
    <2> HIDE DEF new
    <2> QED BY <1>1, <1>2, <1>3, InAppend DEF QueueTypes
  <1>7. LineTypes'
    <2>1. NumberTypes'
      BY <1>1, <1>2, <1>a DEF NumberTypes
    <2> HIDE DEF new
    <2>2. TextTypes' /\ QueueTypes' /\ WorkerTypes'
      BY <1>1, <1>2, <1>4, <1>5 DEF TextTypes, QueueTypes, WorkerTypes, Workers
    <2> QED BY <2>1, <2>2 DEF LineTypes
  <1>8. Cracked' = Cracked /\ Cracked \subseteq 1 .. total
    BY <1>1, <1>2, <1>a DEF Cracked, NumberTypes
  <1>9. PrintedRight' /\ SuccessRight'
    BY <1>1, <1>4, <1>8, BooksKept
  <1> HIDE DEF new
  <1>10. Placed'
    BY <1>1, <1>3, <1>6 DEF LineInv, Placed, Holding, Workers
  <1>11. OnlyOnce'
    BY <1>1, <1>5 DEF LineInv, OnlyOnce, Holding, Workers
  <1>12. Guessed'
    <2>1. ASSUME NEW w \in Workers, at'[w] = "count" PROVE guess'[w] = C1!Test(text'[command'[w]])
      <3>1. command[w] \in live /\ command[w] # 0 /\ guess[w] = C1!Test(text[command[w]])
        BY <1>1, <2>1 DEF LineInv, Placed, Holding, Guessed
      <3>2. command[w] \in 1 .. total
        BY <1>2, <3>1, Numbers
      <3> QED BY <1>1, <1>4, <3>1, <3>2
    <2> QED BY <2>1 DEF Guessed, Workers
  <1>13. SentinelInv'
    BY <1>1, <1>3 DEF LineInv, SentinelInv, Reading, Joining, Handing, Joined, Over1, Workers
  <1> QED BY <1>7, <1>9, <1>10, <1>11, <1>12, <1>13 DEF LineInv

\* Lines 97-102: the sentinel goes to the end of the queue.
LEMMA EndOfInputStep ==
    ASSUME LineInv, C1!EndOfInput
    PROVE  LineInv'
  <1>1. /\ stage = "read" /\ stage' = "join" /\ live' = live \cup {0} /\ q' = Append(q, 0)
        /\ UNCHANGED <<success, total, text, at, command, guess, printed>>
    BY SameWorkers DEF C1!EndOfInput
  <1>2. /\ NumberTypes /\ TextTypes /\ QueueTypes /\ WorkerTypes
        /\ 0 \notin live /\ \A w \in Workers : at[w] \notin {"hand back", "exited"}
    BY <1>1 DEF LineInv, LineTypes, SentinelInv, Reading
  <1>3. ~In(0, q) /\ 0 \in Nat
    BY <1>2 DEF LineInv, Placed
  <1>4. q' \in Seq(Nat) /\ Distinct(q') /\ LastIs(q', 0)
    BY <1>1, <1>2, <1>3, QueueAppend DEF QueueTypes, LineInv, OnlyOnce
  <1>5. \A i : In(i, q') <=> In(i, q) \/ i = 0
    BY <1>1, <1>2, <1>3, InAppend DEF QueueTypes
  <1>6. LineTypes'
    <2>1. NumberTypes'
      <3>1. 0 \in 0 .. total
        BY <1>2, Numbers
      <3> QED BY <1>1, <1>2, <3>1 DEF NumberTypes
    <2>2. TextTypes' /\ QueueTypes' /\ WorkerTypes'
      BY <1>1, <1>2, <1>4 DEF TextTypes, QueueTypes, WorkerTypes, Workers
    <2> QED BY <2>1, <2>2 DEF LineTypes
  <1>7. Cracked' = Cracked
    <2>1. 0 \notin 1 .. total
      BY <1>2, Numbers
    <2> QED BY <1>1, <2>1 DEF Cracked
  <1>8. PrintedRight' /\ SuccessRight'
    BY <1>1, <1>7, BooksKept
  <1>9. Placed'
    BY <1>1, <1>5 DEF LineInv, Placed, Holding, Workers
  <1>10. OnlyOnce' /\ Guessed'
    BY <1>1, <1>4 DEF LineInv, OnlyOnce, Holding, Guessed, Workers
  <1>11. SentinelInv'
    BY <1>1, <1>2, <1>4 DEF LineInv, SentinelInv, Reading, Joining, Nobody, Handing, Joined, Over1, Workers
  <1> QED BY <1>6, <1>8, <1>9, <1>10, <1>11 DEF LineInv

\* Steps of main that leave the strings and the workers alone.
LEMMA OnlyStage ==
    ASSUME LineInv, UNCHANGED <<q, success, total, text, at, command, guess, live, printed>>,
           stage' \in {"read", "join", "pull", "summary", "done"}
    PROVE  LineTypes' /\ Placed' /\ OnlyOnce' /\ Guessed' /\ PrintedRight' /\ SuccessRight'
  <1>1. LineTypes' /\ Placed' /\ OnlyOnce' /\ Guessed'
    BY DEF LineInv, LineTypes, NumberTypes, TextTypes, QueueTypes, WorkerTypes, Placed, OnlyOnce,
           Holding, Guessed, Workers
  <1>2. Cracked' = Cracked
    BY DEF Cracked
  <1> QED BY <1>1, <1>2, BooksKept

\* Lines 107-109 and 115.
LEMMA JoinStep ==
    ASSUME LineInv, C1!Join \/ C1!Summary \/ UNCHANGED C1!vars
    PROVE  LineInv'
  <1>1. /\ UNCHANGED <<q, success, total, text, at, command, guess, live, printed>>
        /\ \/ stage = "join" /\ stage' = "pull" /\ \A w \in Workers : at[w] = "exited"
           \/ stage = "summary" /\ stage' = "done"
           \/ stage' = stage
    BY SameWorkers DEF C1!Join, C1!Summary, C1!vars
  <1>2. stage' \in {"read", "join", "pull", "summary", "done"}
    BY <1>1 DEF LineInv, LineTypes, WorkerTypes
  <1>3. LineTypes' /\ Placed' /\ OnlyOnce' /\ Guessed' /\ PrintedRight' /\ SuccessRight'
    BY <1>1, <1>2, OnlyStage
  <1>4. SentinelInv'
    <2>1. (Nobody' <=> Nobody) /\ (OneHolder' <=> OneHolder) /\ (Handing' <=> Handing)
      BY <1>1 DEF Nobody, OneHolder, Handing, Workers
    <2>2. Reading' /\ Joined' /\ Over1'
      BY <1>1 DEF LineInv, SentinelInv, Reading, Joined, Over1, Workers
    <2>3. Joining'
      BY <1>1, <2>1 DEF LineInv, SentinelInv, Joining, Workers
    <2> QED BY <2>1, <2>2, <2>3 DEF LineInv, SentinelInv
  <1> QED BY <1>3, <1>4 DEF LineInv

\* Lines 110-114: what main pulls is the sentinel, the only string left.
LEMMA PullBackStep ==
    ASSUME LineInv, C1!PullBack
    PROVE  LineInv'
  <1>1. /\ stage = "pull" /\ stage' = "summary" /\ q # << >>
        /\ live' = live \ {Head(q)} /\ q' = Tail(q)
        /\ UNCHANGED <<success, total, text, at, command, guess, printed>>
    BY DEF C1!PullBack
  <1>2. /\ NumberTypes /\ TextTypes /\ QueueTypes /\ WorkerTypes
        /\ \A w \in Workers : at[w] = "exited"
    BY <1>1 DEF LineInv, LineTypes, SentinelInv, Joined
  <1>3. \E w \in Workers : at[w] = "exited"
    BY <1>2, NAssumption DEF Workers
  <1>4. LastIs(q, 0) /\ Len(q) <= 1
    BY <1>1, <1>3 DEF LineInv, SentinelInv, Joining
  <1>5. Head(q) = 0 /\ q' = << >> /\ q' \in Seq(Nat)
    BY <1>1, <1>2, <1>4, QueueTail DEF QueueTypes, LineInv, OnlyOnce
  <1>6. LineTypes'
    <2>1. NumberTypes'
      BY <1>1, <1>2 DEF NumberTypes
    <2>2. TextTypes' /\ QueueTypes' /\ WorkerTypes'
      BY <1>1, <1>2, <1>5 DEF TextTypes, QueueTypes, WorkerTypes, Workers
    <2> QED BY <2>1, <2>2 DEF LineTypes
  <1>7. Cracked' = Cracked
    BY <1>1, <1>2, <1>5 DEF Cracked, NumberTypes
  <1>8. PrintedRight' /\ SuccessRight'
    BY <1>1, <1>7, BooksKept
  <1>9. \A i : In(i, q) <=> i = 0
    <2>1. \A i : In(i, q) <=> i = Head(q) \/ In(i, Tail(q))
      BY <1>1, <1>2, InTail DEF QueueTypes
    <2>2. \A i : ~In(i, Tail(q))
      BY <1>1, <1>5, InEmpty
    <2> QED BY <1>5, <2>1, <2>2
  <1>10. \A i : ~In(i, q')
    BY <1>5, InEmpty
  <1>11. Placed'
    BY <1>1, <1>2, <1>5, <1>9, <1>10 DEF LineInv, Placed, Holding, Workers
  <1>12. OnlyOnce' /\ Guessed'
    <2>1. Distinct(q')
      BY <1>5 DEF Distinct
    <2> QED BY <1>1, <1>2, <2>1 DEF OnlyOnce, Holding, Guessed, Workers
  <1>13. SentinelInv'
    BY <1>1, <1>2, <1>5 DEF SentinelInv, Reading, Joining, Handing, Joined, Over1, Workers
  <1> QED BY <1>6, <1>8, <1>11, <1>12, <1>13 DEF LineInv

\* A worker that takes part is in a run that has not ended.
LEMMA AtWork ==
    ASSUME LineInv, NEW w \in Workers, at[w] # "exited"
    PROVE  stage \in {"read", "join"}
  BY DEF LineInv, SentinelInv, Joined, LineTypes, WorkerTypes

\* Lines 24-26: a string goes from the queue to the worker's hand.
LEMMA PullStep ==
    ASSUME LineInv, NEW w \in Workers, C1!Pull(w)
    PROVE  LineInv'
  <1> DEFINE h == Head(q)
             to == IF h = 0 THEN "hand back" ELSE "test"
  <1>1. /\ at[w] = "pull" /\ q # << >> /\ command' = [command EXCEPT ![w] = h]
        /\ q' = Tail(q) /\ at' = [at EXCEPT ![w] = to]
        /\ UNCHANGED <<success, total, text, stage, guess, live, printed>>
    BY SameWorkers DEF C1!Pull
  <1>2. NumberTypes /\ TextTypes /\ QueueTypes /\ WorkerTypes
    BY DEF LineInv, LineTypes
  <1>3. /\ q' \in Seq(Nat) /\ h \in Nat /\ Len(q') = Len(q) - 1 /\ Distinct(q') /\ ~In(h, q')
        /\ (LastIs(q, 0) /\ h # 0 => LastIs(q', 0)) /\ (LastIs(q, 0) /\ h = 0 => q' = << >>)
    BY <1>1, <1>2, QueueTail DEF QueueTypes, LineInv, OnlyOnce
  <1>4. \A i : In(i, q) <=> i = h \/ In(i, q')
    BY <1>1, <1>2, InTail DEF QueueTypes
  <1>5. h \in live
    BY <1>4 DEF LineInv, Placed
  <1>a. to \in {"hand back", "test"} /\ (h = 0 <=> to = "hand back")
    OBVIOUS
  <1> HIDE DEF h, to
  <1>6. /\ at'[w] = to /\ command'[w] = h
        /\ \A v \in Workers : v # w => at'[v] = at[v] /\ command'[v] = command[v]
    BY <1>1, <1>2 DEF WorkerTypes
  <1>7. LineTypes'
    <2>1. NumberTypes' /\ TextTypes' /\ QueueTypes'
      BY <1>1, <1>2, <1>3 DEF NumberTypes, TextTypes, QueueTypes
    <2>2. WorkerTypes'
      BY <1>1, <1>2, <1>3, <1>a DEF WorkerTypes, Workers
    <2> QED BY <2>1, <2>2 DEF LineTypes
  <1>8. Cracked' = Cracked
    BY <1>1 DEF Cracked
  <1>9. PrintedRight' /\ SuccessRight'
    BY <1>1, <1>8, BooksKept
  <1>10. ~Holding(w) /\ (Holding(w)' <=> h # 0) /\ \A v \in Workers : v # w => (Holding(v)' <=> Holding(v))
    BY <1>1, <1>6, <1>a DEF Holding
  <1>11. Placed'
    <2>1. \A i : In(i, q') => i \in live'
      BY <1>1, <1>4 DEF LineInv, Placed
    <2>2. ASSUME NEW v \in Workers, Holding(v)'
          PROVE  command'[v] \in live' /\ command'[v] # 0 /\ ~In(command'[v], q')
      <3>1. CASE v = w
        BY <1>1, <1>3, <1>5, <1>6, <1>10, <2>2, <3>1
      <3>2. CASE v # w
        BY <1>1, <1>4, <1>6, <1>10, <2>2, <3>2 DEF LineInv, Placed
      <3> QED BY <3>1, <3>2
    <2>3. ASSUME NEW i \in live', i # 0
          PROVE  In(i, q') \/ \E v \in Workers : Holding(v)' /\ command'[v] = i
      <3>1. In(i, q) \/ \E v \in Workers : Holding(v) /\ command[v] = i
        BY <1>1, <2>3 DEF LineInv, Placed
      <3>2. CASE i = h
        BY <1>6, <1>10, <2>3, <3>2
      <3>3. CASE i # h
        BY <1>4, <1>6, <1>10, <3>1, <3>3
      <3> QED BY <3>2, <3>3
    <2> QED BY <2>1, <2>2, <2>3 DEF Placed, Workers
  <1>12. OnlyOnce'
    <2>1. \A v \in Workers : Holding(v) => command[v] # h
      BY <1>4 DEF LineInv, Placed
    <2>2. ASSUME NEW u \in Workers, NEW v \in Workers, Holding(u)', Holding(v)', command'[u] = command'[v]
          PROVE  u = v
      BY <1>6, <1>10, <2>1, <2>2 DEF LineInv, OnlyOnce
    <2> QED BY <1>3, <2>2 DEF OnlyOnce, Workers
  <1>13. Guessed'
    BY <1>1, <1>6, <1>a DEF LineInv, Guessed, Workers
  <1>14. stage \in {"read", "join"}
    BY <1>1, AtWork
  <1>15. h = 0 => stage = "join"
    BY <1>5, <1>14 DEF LineInv, SentinelInv, Reading
  <1>16. Reading'
    BY <1>1, <1>6, <1>15, <1>a DEF LineInv, SentinelInv, Reading, Workers
  <1>17. Joined' /\ Over1' /\ Handing'
    BY <1>1, <1>6, <1>14, <1>a DEF LineInv, SentinelInv, Joined, Over1, Handing, Workers
  <1>18. Joining'
    <2> SUFFICES ASSUME stage = "join" PROVE Joining'
      BY <1>1, <1>14 DEF Joining
    <2>1. 0 \in live /\ LastIs(q, 0) /\ Nobody /\ ((\E v \in Workers : at[v] = "exited") => Len(q) <= 1)
      BY <1>1 DEF LineInv, SentinelInv, Joining
    <2>2. (\E v \in Workers : at'[v] = "exited") => Len(q') <= 1
      <3>1. Len(q) \in Nat
        BY <1>2, LenProperties DEF QueueTypes
      <3>2. (\E v \in Workers : at'[v] = "exited") => Len(q) <= 1
        BY <1>6, <1>a, <2>1
      <3> QED BY <1>3, <3>1, <3>2
    <2>3. CASE h = 0
      <3>1. q' = << >> /\ OneHolder'
        BY <1>3, <1>6, <1>a, <2>1, <2>3 DEF OneHolder, Nobody, Workers
      <3> QED BY <1>1, <2>1, <2>2, <3>1 DEF Joining, Workers
    <2>4. CASE h # 0
      <3>1. LastIs(q', 0) /\ Nobody'
        BY <1>3, <1>6, <1>a, <2>1, <2>4 DEF Nobody, Workers
      <3> QED BY <1>1, <2>1, <2>2, <3>1 DEF Joining, Workers
    <2> QED BY <2>3, <2>4
  <1>19. SentinelInv'
    BY <1>16, <1>17, <1>18 DEF SentinelInv
  <1> QED BY <1>7, <1>9, <1>11, <1>12, <1>13, <1>19 DEF LineInv

LEMMA OnlyItem ==
    Append(<< >>, 0) = <<0>> /\ <<0>> \in Seq(Nat) /\ Len(<<0>>) = 1 /\ LastIs(<<0>>, 0) /\ Distinct(<<0>>)
  <1>1. /\ Append(<< >>, 0) = <<0>> /\ <<0>> \in Seq(Nat) /\ Len(<<0>>) = 1 /\ <<0>> # << >>
        /\ <<0>>[1] = 0
    OBVIOUS
  <1>2. \A i \in 1 .. 1 : i = 1
    OBVIOUS
  <1> QED BY <1>1, <1>2 DEF LastIs, Distinct

\* Lines 27-28: the sentinel was the only item, and is again.
LEMMA HandBackStep ==
    ASSUME LineInv, NEW w \in Workers, C1!HandBack(w)
    PROVE  LineInv'
  <1>1. /\ at[w] = "hand back" /\ q' = Append(q, command[w]) /\ at' = [at EXCEPT ![w] = "exited"]
        /\ UNCHANGED <<success, total, text, stage, command, guess, live, printed>>
    BY DEF C1!HandBack, C1!HandOn
  <1>2. NumberTypes /\ TextTypes /\ QueueTypes /\ WorkerTypes
    BY DEF LineInv, LineTypes
  <1>3. command[w] = 0 /\ stage = "join"
    <2>1. stage \in {"read", "join"}
      BY <1>1, AtWork
    <2> QED BY <1>1, <2>1 DEF LineInv, SentinelInv, Handing, Reading
  <1>4. 0 \in live /\ q = << >> /\ OneHolder
    BY <1>1, <1>3 DEF LineInv, SentinelInv, Joining, Nobody
  <1>5. \A v \in Workers : v # w => at[v] # "hand back"
    BY <1>1, <1>4 DEF OneHolder
  <1>6. at'[w] = "exited" /\ \A v \in Workers : v # w => at'[v] = at[v]
    BY <1>1, <1>2 DEF WorkerTypes
  <1>7. q' = <<0>> /\ q' \in Seq(Nat) /\ Len(q') = 1 /\ LastIs(q', 0) /\ Distinct(q')
    <2>1. q' = Append(<< >>, 0)
      BY <1>1, <1>3, <1>4
    <2> QED BY <2>1, OnlyItem
  <1>8. \A i : (In(i, q') <=> i = 0) /\ ~In(i, q)
    BY <1>4, <1>7, InOne, InEmpty
  <1>9. LineTypes'
    <2>1. NumberTypes' /\ TextTypes' /\ QueueTypes'
      BY <1>1, <1>2, <1>7 DEF NumberTypes, TextTypes, QueueTypes
    <2>2. WorkerTypes'
      BY <1>1, <1>2 DEF WorkerTypes, Workers
    <2> QED BY <2>1, <2>2 DEF LineTypes
  <1>10. Cracked' = Cracked
    BY <1>1 DEF Cracked
  <1>11. PrintedRight' /\ SuccessRight'
    BY <1>1, <1>10, BooksKept
  <1>12. \A v \in Workers : Holding(v)' <=> Holding(v)
    BY <1>1, <1>6 DEF Holding
  <1>13. Placed'
    <2>1. \A i : In(i, q') => i \in live'
      BY <1>1, <1>4, <1>8
    <2>2. \A v \in Workers : Holding(v)' => command'[v] \in live' /\ command'[v] # 0 /\ ~In(command'[v], q')
      BY <1>1, <1>8, <1>12 DEF LineInv, Placed
    <2>3. \A i \in live' : i # 0 => In(i, q') \/ \E v \in Workers : Holding(v)' /\ command'[v] = i
      BY <1>1, <1>8, <1>12 DEF LineInv, Placed
    <2> QED BY <2>1, <2>2, <2>3 DEF Placed, Workers
  <1>14. OnlyOnce' /\ Guessed'
    BY <1>1, <1>6, <1>7, <1>12 DEF LineInv, OnlyOnce, Guessed, Workers
  <1>15. SentinelInv'
    <2>1. Nobody' /\ Handing'
      BY <1>1, <1>5, <1>6 DEF Nobody, Handing, Workers
    <2>2. Joining'
      <3>1. stage' = "join" /\ 0 \in live' /\ LastIs(q', 0) /\ Len(q') <= 1
        <4>1. stage' = "join" /\ 0 \in live'
          BY <1>1, <1>3, <1>4
        <4>2. 1 <= 1
          OBVIOUS
        <4> QED BY <1>7, <4>1, <4>2
      <3> QED BY <2>1, <3>1 DEF Joining, Workers
    <2>3. Reading' /\ Joined' /\ Over1'
      BY <1>1, <1>3 DEF Reading, Joined, Over1
    <2> QED BY <2>1, <2>2, <2>3 DEF SentinelInv
  <1> QED BY <1>9, <1>11, <1>13, <1>14, <1>15 DEF LineInv

\* A step of a worker with a password, to a place where it is not the sentinel's
\* holder, leaves the sentinel alone.
LEMMA SentinelKept ==
    ASSUME LineInv, NEW w \in Workers, at[w] \in {"test", "count"}, at'[w] \in {"count", "pull"},
           \A v \in Workers : v # w => at'[v] = at[v],
           q' = q, stage' = stage, command' = command, 0 \in live' <=> 0 \in live
    PROVE  SentinelInv'
  <1>1. stage \in {"read", "join"}
    BY AtWork
  <1>2. \A v \in Workers : /\ at'[v] = "hand back" <=> at[v] = "hand back"
                           /\ at'[v] = "exited" <=> at[v] = "exited"
    OBVIOUS
  <1>3. (Nobody' <=> Nobody) /\ (OneHolder' <=> OneHolder) /\ (Handing' <=> Handing)
    BY <1>2 DEF Nobody, OneHolder, Handing, Workers
  <1>4. Reading'
    BY <1>2 DEF LineInv, SentinelInv, Reading, Workers
  <1>5. Joined' /\ Over1'
    BY <1>1 DEF Joined, Over1
  <1>6. Joining'
    BY <1>2, <1>3 DEF LineInv, SentinelInv, Joining, Workers
  <1> QED BY <1>3, <1>4, <1>5, <1>6 DEF LineInv, SentinelInv

\* Lines 30-50.
LEMMA CrackStep ==
    ASSUME LineInv, NEW w \in Workers, C1!Crack(w)
    PROVE  LineInv'
  <1>1. /\ at[w] = "test" /\ guess' = [guess EXCEPT ![w] = C1!Test(text[command[w]])]
        /\ at' = [at EXCEPT ![w] = "count"]
        /\ UNCHANGED <<q, success, total, text, stage, command, live, printed>>
    BY DEF C1!Crack
  <1>2. NumberTypes /\ TextTypes /\ QueueTypes /\ WorkerTypes
    BY DEF LineInv, LineTypes
  <1>3. /\ at'[w] = "count" /\ \A v \in Workers : v # w => at'[v] = at[v]
        /\ guess'[w] = C1!Test(text[command[w]]) /\ \A v \in Workers : v # w => guess'[v] = guess[v]
    BY <1>1, <1>2 DEF WorkerTypes
  <1>4. LineTypes'
    <2>1. NumberTypes' /\ TextTypes' /\ QueueTypes'
      BY <1>1, <1>2 DEF NumberTypes, TextTypes, QueueTypes
    <2>2. WorkerTypes'
      BY <1>1, <1>2 DEF WorkerTypes, Workers
    <2> QED BY <2>1, <2>2 DEF LineTypes
  <1>5. Cracked' = Cracked
    BY <1>1 DEF Cracked
  <1>6. PrintedRight' /\ SuccessRight'
    BY <1>1, <1>5, BooksKept
  <1>7. \A v \in Workers : Holding(v)' <=> Holding(v)
    BY <1>1, <1>3 DEF Holding
  <1>8. Placed' /\ OnlyOnce'
    BY <1>1, <1>7 DEF LineInv, Placed, OnlyOnce, Workers
  <1>9. Guessed'
    <2>1. \A v \in Workers : at'[v] = "count" => guess'[v] = C1!Test(text[command[v]])
      BY <1>3 DEF LineInv, Guessed
    <2> QED BY <1>1, <2>1 DEF Guessed, Workers
  <1>10. SentinelInv'
    BY <1>1, <1>3, SentinelKept
  <1> QED BY <1>4, <1>6, <1>8, <1>9, <1>10 DEF LineInv

LEMMA Triple ==
    ASSUME NEW i, NEW a, NEW b
    PROVE  <<i>> \o <<a, b>> = <<i, a, b>> /\ <<a, b>>[1] = a
  <1> DEFINE S == {i, a, b}
             u == <<i>>
             v == <<a, b>>
             r == u \o v
             x == <<i, a, b>>
  <1>1. u \in Seq(S) /\ v \in Seq(S) /\ Len(u) = 1 /\ Len(v) = 2 /\ u[1] = i /\ v[1] = a /\ v[2] = b
    OBVIOUS
  <1>2. <<a, b>>[1] = a
    OBVIOUS
  <1> HIDE DEF S, u, v
  <1>3. r \in Seq(S) /\ Len(r) = 3 /\ r[1] = i /\ r[2] = a /\ r[3] = b
    <2>1. /\ r \in Seq(S) /\ Len(r) = Len(u) + Len(v)
          /\ \A j \in 1 .. Len(u) + Len(v) : r[j] = IF j <= Len(u) THEN u[j] ELSE v[j - Len(u)]
      BY <1>1, ConcatProperties
    <2> HIDE DEF r
    <2>2. Len(r) = 3 /\ r[1] = u[1] /\ r[2] = v[1] /\ r[3] = v[2]
      BY <1>1, <2>1
    <2> QED BY <1>1, <2>1, <2>2
  <1>4. x \in Seq(S) /\ Len(x) = 3 /\ x[1] = i /\ x[2] = a /\ x[3] = b
    BY DEF S
  <1> HIDE DEF r, x
  <1>5. \A j \in 1 .. 3 : j = 1 \/ j = 2 \/ j = 3
    OBVIOUS
  <1>6. r = x
    BY <1>3, <1>4, <1>5, SeqEqual
  <1> QED BY <1>2, <1>6 DEF u, v, r, x

\* Lines 51-56: one line more has been cracked.
LEMMA CountSuccessStep ==
    ASSUME LineInv, NEW w \in Workers, C1!CountSuccess(w)
    PROVE  LineInv'
  <1> DEFINE i == command[w]
             t == C1!Test(text[i])
  <1>1. /\ at[w] = "count" /\ at' = [at EXCEPT ![w] = "pull"]
        /\ success' = success + (1 - guess[w].result)
        /\ printed' = printed \cup {<<i, guess[w].result, guess[w].numhash>>}
        /\ live' = live \ {i}
        /\ UNCHANGED <<q, total, text, stage, command, guess>>
    BY DEF C1!CountSuccess
  <1>2. NumberTypes /\ TextTypes /\ QueueTypes /\ WorkerTypes
    BY DEF LineInv, LineTypes
  <1>3. i \in live /\ i # 0 /\ ~In(i, q) /\ guess[w] = t
    BY <1>1 DEF LineInv, Placed, Holding, Guessed
  <1>4. i \in 1 .. total
    BY <1>2, <1>3, Numbers
  <1>5. text[i] \in LineTasks
    <2>1. text \in Seq(LineTasks) /\ i \in 1 .. Len(text)
      BY <1>2, <1>4 DEF TextTypes
    <2> HIDE DEF i
    <2> QED BY <2>1
  <1>6. t \in [result : {0, 1}, numhash : Nat] /\ C1!Reference(text[i]) = <<t.result, t.numhash>>
    BY <1>5, TestRight
  <1> HIDE DEF t
  <1>7. Right(i) = <<i, t.result, t.numhash>> /\ C1!Reference(text[i])[1] = t.result
    <2>1. Right(i) = <<i>> \o <<t.result, t.numhash>>
      BY <1>6 DEF Right
    <2> QED BY <1>6, <2>1, Triple
  <1> HIDE DEF i
  <1>8. at'[w] = "pull" /\ \A v \in Workers : v # w => at'[v] = at[v]
    BY <1>1, <1>2 DEF WorkerTypes
  <1>9. Cracked' = Cracked \cup {i} /\ i \notin Cracked
    BY <1>1, <1>3, <1>4 DEF Cracked
  <1>10. \A j : Right(j)' = Right(j)
    BY <1>1 DEF Right
  <1>11. PrintedRight'
    <2>1. ASSUME NEW x PROVE x \in printed' <=> \E j \in Cracked' : x = Right(j)'
      <3>1. x \in printed' <=> x \in printed \/ x = Right(i)
        BY <1>1, <1>3, <1>7
      <3>2. x \in printed <=> \E j \in Cracked : x = Right(j)
        BY DEF LineInv, PrintedRight
      <3> QED BY <1>9, <1>10, <3>1, <3>2
    <2> QED BY <2>1 DEF PrintedRight
  <1>12. SuccessRight' /\ success' \in Int
    <2>1. success = Cardinality(Successes)
      BY DEF LineInv, SuccessRight
    <2>2. IsFiniteSet(Successes)
      <3>1. IsFiniteSet(1 .. total)
        BY <1>2, FS_Interval DEF NumberTypes
      <3>2. Successes \in SUBSET (1 .. total)
        BY DEF Successes, Cracked
      <3> QED BY <3>1, <3>2, FS_Subset
    <2>3. i \notin Successes
      BY <1>9 DEF Successes
    <2>4. CASE t.result = 0
      <3>1. Successes' = Successes \cup {i}
        BY <1>1, <1>7, <1>9, <2>4 DEF Successes
      <3>2. Cardinality(Successes \cup {i}) = Cardinality(Successes) + 1
        BY <2>2, <2>3, FS_AddElement
      <3>3. success' = success + 1
        BY <1>1, <1>3, <2>4
      <3>4. Cardinality(Successes) \in Nat
        BY <2>2, FS_CardinalityType
      <3> QED BY <2>1, <3>1, <3>2, <3>3, <3>4 DEF SuccessRight
    <2>5. CASE t.result = 1
      <3>1. Successes' = Successes
        BY <1>1, <1>7, <1>9, <2>5 DEF Successes
      <3>2. success' = success
        BY <1>1, <1>2, <1>3, <2>5 DEF NumberTypes
      <3> QED BY <1>2, <2>1, <3>1, <3>2 DEF SuccessRight, NumberTypes
    <2> QED BY <1>6, <2>4, <2>5
  <1>13. LineTypes'
    <2>1. NumberTypes'
      BY <1>1, <1>2, <1>12 DEF NumberTypes
    <2>2. TextTypes' /\ QueueTypes' /\ WorkerTypes'
      BY <1>1, <1>2 DEF TextTypes, QueueTypes, WorkerTypes, Workers
    <2> QED BY <2>1, <2>2 DEF LineTypes
  <1>14. /\ Holding(w) /\ ~Holding(w)' /\ command[w] = i
         /\ \A v \in Workers : v # w => (Holding(v)' <=> Holding(v))
    BY <1>1, <1>8 DEF Holding, i
  <1>15. \A v \in Workers : v # w /\ Holding(v) => command[v] # i
    BY <1>14 DEF LineInv, OnlyOnce
  <1>16. Placed'
    <2>1. \A j : In(j, q) => j \in live /\ j # i
      BY <1>3 DEF LineInv, Placed
    <2>2. ASSUME NEW v \in Workers, Holding(v)'
          PROVE  command[v] \in live' /\ command[v] # 0 /\ ~In(command[v], q)
      BY <1>1, <1>14, <1>15, <2>2 DEF LineInv, Placed
    <2>3. ASSUME NEW j \in live', j # 0
          PROVE  In(j, q) \/ \E v \in Workers : Holding(v)' /\ command[v] = j
      <3>1. j # i /\ (In(j, q) \/ \E v \in Workers : Holding(v) /\ command[v] = j)
        BY <1>1, <2>3 DEF LineInv, Placed
      <3> QED BY <1>14, <3>1
    <2> QED BY <1>1, <2>1, <2>2, <2>3 DEF Placed, Workers
  <1>17. OnlyOnce' /\ Guessed'
    <2>1. OnlyOnce'
      BY <1>1, <1>14 DEF LineInv, OnlyOnce, Workers
    <2>2. Guessed'
      BY <1>1, <1>8 DEF LineInv, Guessed, Workers
    <2> QED BY <2>1, <2>2
  <1>18. SentinelInv'
    BY <1>1, <1>3, <1>8, SentinelKept
  <1> QED BY <1>11, <1>12, <1>13, <1>16, <1>17, <1>18 DEF LineInv

LEMMA LinesStart == C1!Init => LineInv
  <1> SUFFICES ASSUME C1!Init PROVE LineInv
    OBVIOUS
  <1>1. /\ q = << >> /\ success = 0 /\ total = 0 /\ text = << >> /\ stage = "read"
        /\ at = [w \in Workers |-> "pull"] /\ command = [w \in Workers |-> 0]
        /\ guess = [w \in Workers |-> C1!Nothing] /\ live = {} /\ printed = {}
    BY SameWorkers DEF C1!Init
  <1>2. LineTypes
    BY <1>1 DEF LineTypes, NumberTypes, TextTypes, QueueTypes, WorkerTypes
  <1>3. Placed /\ OnlyOnce /\ Guessed
    BY <1>1, InEmpty DEF Placed, OnlyOnce, Distinct, Guessed, Holding
  <1>4. Cracked = {}
    BY <1>1 DEF Cracked
  <1>5. PrintedRight /\ SuccessRight
    <2>1. Successes = {}
      BY <1>4 DEF Successes
    <2> QED BY <1>1, <1>4, <2>1, FS_EmptySet DEF PrintedRight, SuccessRight
  <1>6. SentinelInv
    BY <1>1 DEF SentinelInv, Reading, Joining, Handing, Joined, Over1
  <1> QED BY <1>2, <1>3, <1>5, <1>6 DEF LineInv

LEMMA LinesNext == LineInv /\ [C1!Next]_(C1!vars) => LineInv'
  <1> SUFFICES ASSUME LineInv, [C1!Next]_(C1!vars) PROVE LineInv'
    OBVIOUS
  <1>1. ASSUME NEW w \in Workers, C1!WorkerStep(w) PROVE LineInv'
    BY <1>1, PullStep, HandBackStep, CrackStep, CountSuccessStep DEF C1!WorkerStep
  <1>2. CASE C1!MainStep
    BY <1>2, ReadLineStep, EndOfInputStep, JoinStep, PullBackStep DEF C1!MainStep
  <1>3. CASE UNCHANGED C1!vars
    BY <1>3, JoinStep
  <1> QED BY <1>1, <1>2, <1>3, SameWorkers DEF C1!Next, C1!Over

\* cracker1.c, for every number of workers, alphabet and input: the one "end" is
\* queued last or in one worker's hand until main pulls it back; when main prints
\* its summary every line has been cracked once, by the depth first search of
\* test() with the right result and count of hashes, the totals add up, and every
\* string has been freed.
THEOREM LinesCrackedOnce == C1!Spec => []Cracker1Summary
  <1>1. LineInv => Cracker1Summary
    BY LinesSummed
  <1> QED BY <1>1, LinesStart, LinesNext, PTL DEF C1!Spec
=============================================================================
