------------------------------- MODULE Cracker1 -------------------------------
(***************************************************************************)
(* password_cracker/cracker1.c: each worker cracks passwords of its own,   *)
(* taken from an unbounded queue that main fills from standard input.  At  *)
(* the end of the input main pushes one "end", which every worker pulls,   *)
(* pushes back and exits on; main pulls it back when all have been joined. *)
(*                                                                         *)
(* The queue is the one of Queue.tla, used here as the FIFO it implements: *)
(* a call of queue_push or queue_pull is one step.  A string on the heap   *)
(* is the number of its line, End for the one made at line 99.             *)
(***************************************************************************)
EXTENDS Integers, Sequences, FiniteSets

CONSTANTS N,         \* thread_count
          Letters,   \* the size of the alphabet (26)
          Tasks,     \* what a line of input can hold: [unknown, answer]
          MaxTasks   \* bound: the number of lines of input

VARIABLES q,        \* the queue's items
          success,  \* static int success
          total,    \* main's count of lines
          text,     \* what the lines read so far hold
          stage,    \* main: "read", "join", "pull", "summary", "done"
          at,       \* each worker: "pull", "hand back", "test", "count", "exited"
          command,  \* each worker's string
          found,    \* each worker's result and numhash
          live,     \* the strings that have not been freed
          printed   \* history: the result lines printed, by line of input

vars == <<q, success, total, text, stage, at, command, found, live, printed>>

Workers == 1 .. N
End == 0
Nothing == [result |-> 1, numhash |-> 0]
Exp[n \in Nat] == IF n = 0 THEN 1 ELSE Letters * Exp[n - 1]

IndexOf(p) == LET index[i \in 0 .. Len(p)] ==
                    IF i = 0 THEN 0 ELSE index[i - 1] * Letters + p[i]
              IN index[Len(p)]

Prefixes(k) == UNION {[1 .. n -> 0 .. Letters - 1] : n \in 0 .. k.unknown}

\* test(): the unknown letters depth first, 'a' to 'z', up to the first match.
Test(k) ==
    LET test[p \in Prefixes(k)] ==
          IF Len(p) = k.unknown
          THEN [result |-> IF IndexOf(p) = k.answer THEN 0 ELSE 1, numhash |-> 1]
          ELSE LET loop[c \in 0 .. Letters] ==
                     IF c = 0 THEN Nothing
                     ELSE IF loop[c - 1].result = 0 THEN loop[c - 1]
                     ELSE LET find == test[Append(p, c - 1)]
                          IN [result |-> find.result,
                              numhash |-> loop[c - 1].numhash + find.numhash]
               IN loop[Letters]
    IN test[<< >>]

-----------------------------------------------------------------------------
\* start(), up to its loop.
Init == /\ q = << >> /\ success = 0 /\ total = 0 /\ text = << >>
        /\ stage = "read"
        /\ at = [w \in Workers |-> "pull"]
        /\ command = [w \in Workers |-> End]
        /\ found = [w \in Workers |-> Nothing]
        /\ live = {} /\ printed = {}

\* Lines 103-105.
ReadLine(k) == /\ stage = "read" /\ total < MaxTasks
               /\ total' = total + 1
               /\ text' = Append(text, k)
               /\ live' = live \cup {total + 1}
               /\ q' = Append(q, total + 1)
               /\ UNCHANGED <<success, stage, at, command, found, printed>>

\* Lines 97-102: end of input.
EndOfInput == /\ stage = "read"
              /\ live' = live \cup {End}
              /\ q' = Append(q, End)
              /\ stage' = "join"
              /\ UNCHANGED <<success, total, text, at, command, found, printed>>

\* Lines 107-109.
Join == /\ stage = "join"
        /\ \A w \in Workers : at[w] = "exited"
        /\ stage' = "pull"
        /\ UNCHANGED <<q, success, total, text, at, command, found, live, printed>>

\* Lines 110-114: the sentinel is pulled and freed, the queue destroyed.
PullBack == /\ stage = "pull" /\ q # << >>
            /\ live' = live \ {Head(q)}
            /\ q' = Tail(q)
            /\ stage' = "summary"
            /\ UNCHANGED <<success, total, text, at, command, found, printed>>

\* Line 115.
Summary == /\ stage = "summary"
           /\ stage' = "done"
           /\ UNCHANGED <<q, success, total, text, at, command, found, live, printed>>

\* Lines 24-26.
Pull(w) == /\ at[w] = "pull" /\ q # << >>
           /\ command' = [command EXCEPT ![w] = Head(q)]
           /\ q' = Tail(q)
           /\ at' = [at EXCEPT ![w] = IF Head(q) = End THEN "hand back" ELSE "test"]
           /\ UNCHANGED <<success, total, text, stage, found, live, printed>>

\* MUTANT: a worker frees the sentinel instead of handing it on.
KeepEnd(w) == q' = q /\ live' = live \ {End}

\* Line 27.
HandOn(w) == q' = Append(q, command[w]) /\ live' = live

\* Lines 27-28.
HandBack(w) == /\ at[w] = "hand back"
               /\ HandOn(w)
               /\ at' = [at EXCEPT ![w] = "exited"]
               /\ UNCHANGED <<success, total, text, stage, command, found, printed>>

\* Lines 30-50, without the mutex.
Crack(w) == /\ at[w] = "test"
            /\ found' = [found EXCEPT ![w] = Test(text[command[w]])]
            /\ at' = [at EXCEPT ![w] = "count"]
            /\ UNCHANGED <<q, success, total, text, stage, command, live, printed>>

\* Lines 51-56.
CountSuccess(w) ==
    /\ at[w] = "count"
    /\ success' = success + (1 - found[w].result)
    /\ printed' = printed \cup {<<command[w], found[w].result, found[w].numhash>>}
    /\ live' = live \ {command[w]}
    /\ at' = [at EXCEPT ![w] = "pull"]
    /\ UNCHANGED <<q, total, text, stage, command, found>>

WorkerStep(w) == Pull(w) \/ HandBack(w) \/ Crack(w) \/ CountSuccess(w)
MainStep == (\E k \in Tasks : ReadLine(k)) \/ EndOfInput \/ Join \/ PullBack \/ Summary
Over == stage = "done" /\ UNCHANGED vars

Next == MainStep \/ (\E w \in Workers : WorkerStep(w)) \/ Over

Spec == Init /\ [][Next]_vars

-----------------------------------------------------------------------------
\* The one "end" comes after every password and is never lost: from the end of
\* the input until main pulls it, it is the last item of the queue or in the
\* hand of one worker, and once a worker has had it no password is queued.
SentinelLast ==
    stage \in {"join", "pull"} =>
      LET holders == {w \in Workers : at[w] = "hand back"}
      IN /\ End \in live
         /\ \/ holders = {} /\ q # << >> /\ q[Len(q)] = End
            \/ Cardinality(holders) = 1 /\ q = << >>
         /\ \A i \in 1 .. Len(q) - 1 : q[i] # End
         /\ (\E w \in Workers : at[w] = "exited") => Len(q) <= 1

\* The summary is right whoever cracked what: every line of input has been
\* cracked once, its result line says whether the password is among the
\* candidates and how many were hashed to find out, the two totals add up, and
\* every string has been freed, the sentinel included.
Reference(k) == IF k.answer \in 0 .. Exp[k.unknown] - 1
                THEN <<0, k.answer + 1>> ELSE <<1, Exp[k.unknown]>>
SummaryRight ==
    stage \in {"summary", "done"} =>
      /\ printed = {<<i>> \o Reference(text[i]) : i \in 1 .. Len(text)}
      /\ success = Cardinality({i \in 1 .. Len(text) : Reference(text[i])[1] = 0})
      /\ total = Len(text)
      /\ live = {} /\ q = << >>
=============================================================================
