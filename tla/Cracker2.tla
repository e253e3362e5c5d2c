------------------------------ MODULE Cracker2 -------------------------------
(***************************************************************************)
(* password_cracker/cracker2.c: all workers crack one password together,   *)
(* round after round.  Main publishes a task (info), hands out one ticket  *)
(* per worker (push), and waits on cv2 until every worker has gone through *)
(* the barrier at the end of the round; the barrier and the tickets share  *)
(* the condition variable cv.  At end of input the tickets mean "exit".    *)
(*                                                                         *)
(* Each critical section is one action; so is each stretch of code between *)
(* two of them, which reads info without the mutex.                        *)
(***************************************************************************)
EXTENDS Integers, Sequences, FiniteSets

CONSTANTS N,         \* thread_count
          Letters,   \* the size of the alphabet (26)
          Tasks,     \* what a line of input can hold: [unknown, answer]
          MaxTasks,  \* bound: the number of lines of input
          NULL

ASSUME NAssumption == N \in Nat \ {0}
ASSUME LettersAssumption == Letters \in Nat \ {0, 1}
ASSUME TaskAssumption == /\ NULL \notin Tasks
                         /\ \A k \in Tasks : k.unknown \in Nat \ {0} /\ k.answer \in Int

VARIABLES
  push, eof, finishthread, found, passwordfound, info, totalcount, threadexit,
  pc,         \* where each worker is
  waiting,    \* the workers blocked on cv (lines 42 and 104)
  pwd,        \* each worker's candidate: the unknown letters, as 0 .. Letters-1
  left,       \* how many candidates of its subrange it has still to try
  hashcount,
  main,       \* where main is: "read", "wait" (line 162), "join", "done"
  mainAsleep, \* main is blocked on cv2
  lines,      \* lines of input read so far
  tried       \* history: the candidates hashed in this round

shared == <<push, eof, finishthread, found, passwordfound, info, totalcount, threadexit>>
local == <<pwd, left, hashcount>>
mainVars == <<main, mainAsleep, lines>>
vars == <<shared, pc, waiting, local, mainVars, tried>>

Workers == 1 .. N
\* The product of lines 63-66.
Exp[n \in Nat] == IF n = 0 THEN 1 ELSE Letters * Exp[n - 1]
Candidates(k) == [1 .. k.unknown -> 0 .. Letters - 1]

-----------------------------------------------------------------------------
(* getSubrange (utils.h): the N contiguous parts of 0 .. Letters^unknown-1. *)
StartIdx(unknown, w) == ((w - 1) * Exp[unknown]) \div N
Count(unknown, w) == StartIdx(unknown, w + 1) - StartIdx(unknown, w)

\* The loop that writes a start index as letters (lines 61-71).
StartString(startidx, unknown) ==
    LET divisor(i) == Exp[unknown - i]
        remain[i \in 0 .. unknown] ==
            IF i = 0 THEN startidx ELSE remain[i - 1] % divisor(i)
    IN [i \in 1 .. unknown |-> remain[i - 1] \div divisor(i)]

IndexOf(p) == LET index[i \in 0 .. Len(p)] ==
                    IF i = 0 THEN 0 ELSE index[i - 1] * Letters + p[i]
              IN index[Len(p)]

\* incrementString (utils.h): the next string in alphabetical order.
IncrementString(p) == StartString((IndexOf(p) + 1) % Exp[Len(p)], Len(p))

-----------------------------------------------------------------------------
\* start(), up to its loop.  found, finishthread, totalcount and info are
\* static and start as 0.
Init == /\ push = 0 /\ eof = 0 /\ finishthread = 0 /\ found = 0
        /\ passwordfound = NULL /\ info = NULL /\ totalcount = 0 /\ threadexit = 0
        /\ pc = [w \in Workers |-> "ticket"]
        /\ waiting = {}
        /\ pwd = [w \in Workers |-> << >>]
        /\ left = [w \in Workers |-> 0]
        /\ hashcount = [w \in Workers |-> 0]
        /\ main = "read" /\ mainAsleep = FALSE /\ lines = 0
        /\ tried = {}

Runs(w, at) == pc[w] = at /\ w \notin waiting
Goto(w, at) == pc' = [pc EXCEPT ![w] = at]
SleepOnCv(w) == waiting' = waiting \cup {w}

\* Lines 40-50: wait for a ticket, take it, and leave if it is the last.
NoTicket(w) == /\ Runs(w, "ticket") /\ push = 0
               /\ SleepOnCv(w)
               /\ UNCHANGED <<shared, pc, local, mainVars, tried>>

TakeTicket(w) == /\ Runs(w, "ticket") /\ push # 0
                 /\ push' = push - 1
                 /\ Goto(w, IF eof = 1 THEN "exited" ELSE "begin")
                 /\ UNCHANGED <<eof, finishthread, found, passwordfound, info, totalcount,
                                threadexit, waiting, local, mainVars, tried>>

\* Lines 52-74, without the mutex: read info, compute the subrange.
Begin(w) == /\ Runs(w, "begin") /\ info # NULL
            /\ pwd' = [pwd EXCEPT ![w] =
                         StartString(StartIdx(info.unknown, w), info.unknown)]
            /\ left' = [left EXCEPT ![w] = Count(info.unknown, w)]
            /\ hashcount' = [hashcount EXCEPT ![w] = 0]
            /\ Goto(w, "loop")
            /\ UNCHANGED <<shared, waiting, mainVars, tried>>

\* Lines 75-83: another candidate, unless the range is done or the password
\* has been found.
Check(w) == /\ Runs(w, "loop")
            /\ IF left[w] = 0 \/ found = 1
               THEN Goto(w, "finish") /\ UNCHANGED hashcount
               ELSE /\ Goto(w, "hash")
                    /\ hashcount' = [hashcount EXCEPT ![w] = @ + 1]
            /\ UNCHANGED <<shared, waiting, pwd, left, mainVars, tried>>

\* Lines 84-85 and 93, without the mutex.
Hash(w) == /\ Runs(w, "hash") /\ info # NULL
           /\ tried' = tried \cup {pwd[w]}
           /\ IF IndexOf(pwd[w]) = info.answer
              THEN Goto(w, "report") /\ UNCHANGED <<pwd, left>>
              ELSE /\ Goto(w, "loop")
                   /\ pwd' = [pwd EXCEPT ![w] = IncrementString(@)]
                   /\ left' = [left EXCEPT ![w] = @ - 1]
           /\ UNCHANGED <<shared, waiting, hashcount, mainVars>>

\* Lines 86-91.
Report(w) == /\ Runs(w, "report")
             /\ found' = 1 /\ passwordfound' = pwd[w]
             /\ Goto(w, "finish")
             /\ UNCHANGED <<push, eof, finishthread, info, totalcount, threadexit,
                            waiting, local, mainVars, tried>>

\* Line 107, after the increment.
WakesMain == threadexit + 1 = N

\* Lines 106-112: past the barrier; the last one wakes main.
Depart(w) == /\ threadexit' = threadexit + 1
             /\ mainAsleep' = IF WakesMain THEN FALSE ELSE mainAsleep
             /\ Goto(w, "ticket")

\* Lines 97-104: the last to finish wakes all and departs, the others wait.
LastToFinish(w) == /\ Runs(w, "finish") /\ finishthread + 1 = N
                   /\ totalcount' = totalcount + hashcount[w]
                   /\ finishthread' = finishthread + 1
                   /\ waiting' = {}
                   /\ Depart(w)
                   /\ UNCHANGED <<push, eof, found, passwordfound, info, local,
                                  main, lines, tried>>

Finish(w) == /\ Runs(w, "finish") /\ finishthread + 1 # N
             /\ totalcount' = totalcount + hashcount[w]
             /\ finishthread' = finishthread + 1
             /\ SleepOnCv(w)
             /\ Goto(w, "barrier")
             /\ UNCHANGED <<push, eof, found, passwordfound, info, threadexit, local,
                            mainVars, tried>>

\* MUTANT: the wait at line 104 is an if, not a while.
StillWaitingNever(w) == FALSE

StillWaiting(w) == finishthread < N

\* Awake at line 104.
Barrier(w) == /\ Runs(w, "barrier")
              /\ IF StillWaiting(w)
                 THEN /\ SleepOnCv(w)
                      /\ UNCHANGED <<shared, pc, mainAsleep>>
                 ELSE /\ Depart(w)
                      /\ UNCHANGED <<push, eof, finishthread, found, passwordfound, info,
                                     totalcount, waiting>>
              /\ UNCHANGED <<local, main, lines, tried>>

-----------------------------------------------------------------------------
\* MUTANT: found is not reset.
ResetRoundKeepsFound == /\ finishthread' = 0 /\ push' = N /\ totalcount' = 0 /\ threadexit' = 0
                        /\ UNCHANGED found

ResetRound == finishthread' = 0 /\ push' = N /\ found' = 0 /\ totalcount' = 0 /\ threadexit' = 0

\* Lines 148-162: publish a task and sleep until the round is over.
StartRound(k) == /\ main = "read" /\ lines < MaxTasks
                 /\ lines' = lines + 1
                 /\ info' = k
                 /\ ResetRound
                 /\ waiting' = {}
                 /\ main' = "wait" /\ mainAsleep' = TRUE
                 /\ tried' = {}
                 /\ UNCHANGED <<eof, passwordfound, pc, local>>

\* MUTANT: main waits for finishthread, not for threadexit.
RoundOverAtFinish == main = "wait" /\ ~mainAsleep /\ finishthread = N

RoundOver == main = "wait" /\ ~mainAsleep /\ threadexit = N

\* Lines 161-172: summary, and the task is freed.
EndRound == /\ RoundOver
            /\ info' = NULL /\ passwordfound' = NULL
            /\ main' = "read"
            /\ UNCHANGED <<push, eof, finishthread, found, totalcount, threadexit, pc,
                           waiting, local, mainAsleep, lines, tried>>

MainSleepsOn == /\ main = "wait" /\ ~mainAsleep /\ threadexit # N
                /\ mainAsleep' = TRUE
                /\ UNCHANGED <<shared, pc, waiting, local, main, lines, tried>>

\* Lines 141-146: end of input.
EndOfInput == /\ main = "read"
              /\ push' = N /\ eof' = 1
              /\ waiting' = {}
              /\ main' = "join"
              /\ UNCHANGED <<finishthread, found, passwordfound, info, totalcount,
                             threadexit, pc, local, mainAsleep, lines, tried>>

\* Lines 174-181.
Join == /\ main = "join"
        /\ \A w \in Workers : pc[w] = "exited"
        /\ main' = "done"
        /\ UNCHANGED <<shared, pc, waiting, local, mainAsleep, lines, tried>>

\* pthread_cond_wait may return without a signal.
SpuriousWakeup == \/ \E w \in waiting : /\ waiting' = waiting \ {w}
                                        /\ UNCHANGED mainAsleep
                  \/ /\ mainAsleep /\ mainAsleep' = FALSE
                     /\ UNCHANGED waiting
Spurious == /\ SpuriousWakeup
            /\ UNCHANGED <<shared, pc, local, main, lines, tried>>

WorkerStep(w) == \/ NoTicket(w) \/ TakeTicket(w) \/ Begin(w) \/ Check(w) \/ Hash(w)
                 \/ Report(w) \/ LastToFinish(w) \/ Finish(w) \/ Barrier(w)

MainStep == (\E k \in Tasks : StartRound(k)) \/ EndRound \/ MainSleepsOn \/ EndOfInput \/ Join

\* The program is over: nothing more happens.
Over == main = "done" /\ UNCHANGED vars

Next == MainStep \/ (\E w \in Workers : WorkerStep(w)) \/ Spurious \/ Over

Spec == Init /\ [][Next]_vars

-----------------------------------------------------------------------------
\* Line 52 and line 85 read info without the mutex: the task is still there,
\* and it is the one the worker's ticket was for, until the worker is done with
\* it.  Main frees it only when nobody is in the round.
InfoOutlivesReaders ==
    /\ \A w \in Workers :
         pc[w] \in {"begin", "loop", "hash", "report", "finish", "barrier"} =>
           info # NULL /\ main = "wait" /\ ~RoundOver
    /\ \A w \in Workers :
         pc[w] \in {"loop", "hash", "report"} => Len(pwd[w]) = info.unknown

\* Each worker takes one ticket a round although a fast one is back at the top
\* of its loop while the others still work: the tickets left are those of the
\* workers that have not taken part yet.
OneTicketEach ==
    main = "wait" =>
      /\ finishthread = Cardinality({w \in Workers : pc[w] = "barrier"}) + threadexit
      /\ finishthread < N =>
           push = Cardinality({w \in Workers : pc[w] = "ticket"})
      /\ finishthread = N => push = 0

\* When main prints its summary the round is really over: it has found the
\* password if that is among the candidates, has tried all of them if not, and
\* the total counts every candidate hashed.
SummaryCorrect ==
    RoundOver =>
      /\ found = 1 <=> info.answer \in 0 .. Exp[info.unknown] - 1
      /\ found = 1 => IndexOf(passwordfound) = info.answer
      /\ found = 0 => tried = Candidates(info)
      /\ totalcount = Cardinality(tried)
=============================================================================
