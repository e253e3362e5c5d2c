------------------------------ MODULE ChatServer -----------------------------
(***************************************************************************)
(* charming_chatroom/server.c: the main thread accepts clients into the    *)
(* slots of an array, a detached thread per client reads its messages and  *)
(* writes them to every slot, one mutex protects the array, and SIGINT is  *)
(* handled by whatever thread the kernel picks.                            *)
(*                                                                         *)
(* Connections and the threads that serve them share their names.  Taking  *)
(* the mutex, and the last statement before it is released, are actions:   *)
(* a thread can be interrupted in between.  A message travels whole; one   *)
(* that a client cuts off has the effect of a whole one.                   *)
(***************************************************************************)
EXTENDS Integers, Sequences, SequencesExt, FiniteSets, FiniteSetsExt, Functions

CONSTANTS Conns,           \* the clients that may connect
          MAX_CLIENTS,
          NONE,            \* the descriptor -1, nobody
          MaxEvents        \* bound: messages sent, clients stalled, accept() failed,
                           \* SIGINT sent

ASSUME MaxAssumption == MAX_CLIENTS \in Nat \ {0}
ASSUME ConnsAssumption == IsFiniteSet(Conns) /\ "main" \notin Conns
ASSUME NoneAssumption == NONE \notin Conns \cup {"main"} /\ NONE \notin Nat

VARIABLES
  endSession, clientsCount,
  clients,      \* slot -> descriptor, or NONE for -1
  mutex,        \* the thread that holds it, or NONE
  main,         \* "accept" | "lock" | "locked" | "create" | "join" | "exited" | "killed"
  accepted,     \* what accept() returned: a connection, or NONE for -1
  worker,       \* where each client's thread is
  slot,         \* its argument
  next,         \* the slot write_to_clients has come to
  signalled,    \* the thread that runs close_server(), or NONE
  signals,      \* has SIGINT been sent
  errors,       \* how often accept() has failed
  fd,           \* the server's descriptor of each connection, or NONE
  peer,         \* "backlog" | "here" | "stalled" | "left": the client; it is stalled
                \* while it does not read and the way to it is full
  unread,       \* the clients whose message has not been read yet
  events        \* how often a message was sent or a client stopped reading

vars == <<endSession, clientsCount, clients, mutex, main, accepted, worker, slot, next,
          signalled, signals, errors, fd, peer, unread, events>>
signal_vars == <<signalled, signals>>
network == <<fd, peer, unread, events>>

Slots == 0 .. MAX_CLIENTS - 1
Descriptors == 1 .. Cardinality(Conns)

Init == /\ endSession = FALSE /\ clientsCount = 0
        /\ clients = [s \in Slots |-> NONE]
        /\ mutex = NONE /\ main = "accept" /\ accepted = NONE
        /\ worker = [c \in Conns |-> "none"]
        /\ slot = [c \in Conns |-> 0] /\ next = 0
        /\ signalled = NONE /\ signals = FALSE /\ errors = 0
        /\ fd = [c \in Conns |-> NONE] /\ peer = [c \in Conns |-> "backlog"]
        /\ unread = {} /\ events = 0

-----------------------------------------------------------------------------
(* The kernel and the clients.                                             *)

Alive == main # "killed"
\* A thread runs unless the process is dead or the handler runs on top of it.
Runs(t) == Alive /\ signalled # t

\* The connections behind a descriptor: one, or none.
Behind(d) == {c \in Conns : d # NONE /\ fd[c] = d}
FreeDescriptors == Descriptors \ Range(fd)

\* The order in which the clients connect, which is the order of accept().
Arrivals == SetToSeq(Conns)
FirstInLine(c) == \E i \in DOMAIN Arrivals :
                    /\ Arrivals[i] = c
                    /\ \A j \in DOMAIN Arrivals : peer[Arrivals[j]] = "backlog" <=> j >= i

\* One more event is within the bound; a failing accept() is the last.
Eventful == errors = 0 /\ events + (IF signals THEN 1 ELSE 0) < MaxEvents

server_vars == <<endSession, clientsCount, clients, mutex, main, accepted, worker, slot, next>>

Connected(c) == peer[c] \in {"here", "stalled"}

Say(c) == /\ Alive /\ Connected(c) /\ Eventful
          /\ events' = events + 1
          /\ c \notin unread /\ unread' = unread \cup {c}
          /\ UNCHANGED <<errors, fd, peer>> /\ UNCHANGED server_vars /\ UNCHANGED signal_vars

\* A client stops reading for so long that no more can be written to it, and
\* may read again. Only a broadcast notices, so it is taken to begin in one.
Stall(c) == /\ Alive /\ peer[c] = "here" /\ Eventful
            /\ \E w \in Conns : worker[w] = "write"
            /\ events' = events + 1
            /\ peer' = [peer EXCEPT ![c] = "stalled"]
            /\ UNCHANGED <<errors, fd, unread>> /\ UNCHANGED server_vars /\ UNCHANGED signal_vars

Resume(c) == /\ Alive /\ peer[c] = "stalled"
             /\ peer' = [peer EXCEPT ![c] = "here"]
             /\ UNCHANGED <<errors, fd, unread, events>> /\ UNCHANGED server_vars /\ UNCHANGED signal_vars

Depart(c) == /\ Alive /\ Connected(c)
             /\ peer' = [peer EXCEPT ![c] = "left"]
             /\ UNCHANGED <<errors, fd, unread, events>> /\ UNCHANGED server_vars /\ UNCHANGED signal_vars

-----------------------------------------------------------------------------
(* close_server(), the handler of SIGINT, lines 35-38.                     *)

Threads == {"main"} \cup {c \in Conns : worker[c] \notin {"none", "gone"}}

Interrupt(t) == /\ Alive /\ main # "exited" /\ ~signals /\ Eventful
                /\ signals' = TRUE /\ signalled' = t
                /\ UNCHANGED errors /\ UNCHANGED server_vars /\ UNCHANGED network

\* It waits for the mutex, even when the thread it interrupted is the holder.
\* An accept() it interrupted then returns -1; reads are taken up again.
CloseServer == /\ Alive /\ signalled # NONE /\ mutex = NONE
               /\ endSession' = TRUE
               /\ signalled' = NONE
               /\ IF signalled = "main" /\ main = "accept"
                  THEN main' = "lock" /\ accepted' = NONE
                  ELSE UNCHANGED <<main, accepted>>
               /\ UNCHANGED <<clientsCount, clients, mutex, worker, slot, next, signals, errors>>
               /\ UNCHANGED network

-----------------------------------------------------------------------------
(* run_server(), the main thread, lines 131-163.                           *)

\* pthread_mutex_unlock().  MUTANT: it is forgotten.
UnlockForgotten == UNCHANGED mutex
Unlock == mutex' = NONE

\* accept() returns a connection, with the lowest free descriptor.
Accept(c) == /\ Runs("main") /\ main = "accept" /\ FirstInLine(c)
             /\ main' = "lock" /\ accepted' = c
             /\ peer' = [peer EXCEPT ![c] = "here"]
             /\ fd' = [fd EXCEPT ![c] = Min(FreeDescriptors)]
             /\ UNCHANGED <<endSession, clientsCount, clients, mutex, worker, slot, next, errors, unread, events>>
             /\ UNCHANGED signal_vars

\* accept() fails, the connection is lost, and nobody looks at the result: a
\* thread is started for it all the same.
AcceptFails(c) == /\ Runs("main") /\ main = "accept" /\ FirstInLine(c)
                  /\ Eventful /\ errors' = errors + 1
                  /\ main' = "lock" /\ accepted' = c
                  /\ peer' = [peer EXCEPT ![c] = "left"]
                  /\ UNCHANGED <<endSession, clientsCount, clients, mutex, worker, slot, next, fd, unread, events>>
                  /\ UNCHANGED signal_vars

MainLocks == /\ Runs("main") /\ main = "lock" /\ mutex = NONE
             /\ main' = "locked" /\ mutex' = "main"
             /\ UNCHANGED <<endSession, clientsCount, clients, accepted, worker, slot, next, errors>>
             /\ UNCHANGED signal_vars /\ UNCHANGED network

\* shutdown() and close() of the connection that was accepted, if any.
TurnAway == /\ fd' = [c \in Conns |-> IF c = accepted THEN NONE ELSE fd[c]]
            /\ peer' = [c \in Conns |-> IF c = accepted THEN "left" ELSE peer[c]]
            /\ unread' = unread \ {accepted}
            /\ UNCHANGED <<clients, clientsCount, worker, slot, events>>

\* Line 140.
Full == clientsCount = MAX_CLIENTS

\* MUTANT of FreeSlots: the first slot, free or not.
AllSlots == Slots

\* Lines 146-154: the first slot that is -1.
FreeSlots == {s \in Slots : clients[s] = NONE}
Admit == /\ slot' = [slot EXCEPT ![accepted] = Min(FreeSlots)]
         /\ clients' = [clients EXCEPT ![Min(FreeSlots)] = fd[accepted]]
         /\ clientsCount' = clientsCount + 1
         /\ UNCHANGED worker /\ UNCHANGED network

MainUnlocks == /\ Runs("main") /\ main = "locked"
               /\ \/ endSession /\ TurnAway /\ main' = "join" /\ accepted' = NONE
                  \/ ~endSession /\ Full /\ TurnAway /\ main' = "accept" /\ accepted' = NONE
                  \/ ~endSession /\ ~Full /\ Admit /\ main' = "create" /\ UNCHANGED accepted
               /\ Unlock
               /\ UNCHANGED <<endSession, next, errors>> /\ UNCHANGED signal_vars

\* Line 156, after the mutex is released.
CreateThread == /\ Runs("main") /\ main = "create"
                /\ worker' = [worker EXCEPT ![accepted] = "loop"]
                /\ main' = "accept" /\ accepted' = NONE
                /\ UNCHANGED <<endSession, clientsCount, clients, mutex, slot, next, errors>>
                /\ UNCHANGED signal_vars /\ UNCHANGED network

\* pthread_join() of a thread that has detached itself returns at once, of one
\* that has not yet, later; cleanup() shuts down and closes what the slots hold, without the mutex.
Cleanup == /\ Runs("main") /\ main = "join"
           /\ main' = "exited"
           /\ fd' = [c \in Conns |-> IF fd[c] \in Range(clients) THEN NONE ELSE fd[c]]
           /\ peer' = [c \in Conns |-> IF fd[c] # NONE /\ fd[c] \in Range(clients) THEN "left" ELSE peer[c]]
           /\ UNCHANGED <<endSession, clientsCount, clients, mutex, accepted, worker, slot, next, errors, unread, events>>
           /\ UNCHANGED signal_vars

-----------------------------------------------------------------------------
(* process_client() and write_to_clients(), a client's thread.             *)

Step(w, from, to) == /\ Runs(w) /\ worker[w] = from
                     /\ worker' = [worker EXCEPT ![w] = to]

\* Line 204: endSession, read without the mutex, and before a read that may then
\* wait as long as it likes.
TestSession(w) == /\ Step(w, "loop", IF endSession THEN "close" ELSE "read")
                  /\ UNCHANGED <<endSession, clientsCount, clients, mutex, main, accepted, slot, next, errors>>
                  /\ UNCHANGED signal_vars /\ UNCHANGED network

\* Lines 205-210: the thread reads from the descriptor in its slot a message,
\* its end, or an error.
ReadMessage(w) == \E c \in Behind(clients[slot[w]]) :
                    /\ c \in unread /\ Step(w, "read", "broadcast")
                    /\ unread' = unread \ {c}
                    /\ UNCHANGED <<endSession, clientsCount, clients, mutex, main, accepted, slot, next,
                                   errors, fd, peer, events>>
                    /\ UNCHANGED signal_vars

ReadEnds(w) == /\ \/ Behind(clients[slot[w]]) = {}
                  \/ \E c \in Behind(clients[slot[w]]) : c \notin unread /\ peer[c] = "left"
               /\ Step(w, "read", "close")
               /\ UNCHANGED <<endSession, clientsCount, clients, mutex, main, accepted, slot, next, errors>>
               /\ UNCHANGED signal_vars /\ UNCHANGED network

LockToBroadcast(w) == /\ mutex = NONE /\ mutex' = w
                      /\ Step(w, "broadcast", "write")
                      /\ UNCHANGED <<endSession, clientsCount, clients, main, accepted, slot, next, errors>>
                      /\ UNCHANGED signal_vars /\ UNCHANGED network

\* Lines 174-184, one slot.  write() blocks, with the mutex locked, until a
\* client that is stalled reads or leaves.  Writing to a client that has left may
\* raise SIGPIPE, which nobody handles.
Blocked(d) == \E c \in Behind(d) : peer[c] = "stalled"
Write(w) == /\ next < MAX_CLIENTS /\ ~Blocked(clients[next])
            /\ Step(w, "write", "write")
            /\ next' = next + 1
            /\ \/ UNCHANGED main
               \/ (\E c \in Behind(clients[next]) : peer[c] = "left") /\ main' = "killed"
            /\ UNCHANGED <<endSession, clientsCount, clients, mutex, accepted, slot, errors>>
            /\ UNCHANGED signal_vars /\ UNCHANGED network

EndBroadcast(w) == /\ next = MAX_CLIENTS
                   /\ Step(w, "write", "loop") /\ Unlock /\ next' = 0
                   /\ UNCHANGED <<endSession, clientsCount, clients, main, accepted, slot, errors>>
                   /\ UNCHANGED signal_vars /\ UNCHANGED network

\* Line 218, before the mutex is taken: the descriptor is free from here on.
CloseOwn(w) == /\ Step(w, "close", "closed")
               /\ fd' = [c \in Conns |-> IF c \in Behind(clients[slot[w]]) THEN NONE ELSE fd[c]]
               /\ UNCHANGED <<endSession, clientsCount, clients, mutex, main, accepted, slot, next,
                              errors, peer, unread, events>>
               /\ UNCHANGED signal_vars

LockToClear(w) == /\ mutex = NONE /\ mutex' = w
                  /\ Step(w, "closed", "clear")
                  /\ UNCHANGED <<endSession, clientsCount, clients, main, accepted, slot, next, errors>>
                  /\ UNCHANGED signal_vars /\ UNCHANGED network

\* Lines 221-225.  MUTANT of CountDown: the client is still counted.
EmptySlot(w) == clients' = [clients EXCEPT ![slot[w]] = NONE]
CountKept == UNCHANGED clientsCount
CountDown == clientsCount' = clientsCount - 1
Clear(w) == /\ Step(w, "clear", "gone")
            /\ EmptySlot(w) /\ CountDown /\ Unlock
            /\ UNCHANGED <<endSession, main, accepted, slot, next, errors>>
            /\ UNCHANGED signal_vars /\ UNCHANGED network

-----------------------------------------------------------------------------
MainStep == (\E c \in Conns : Accept(c)) \/ MainLocks \/ MainUnlocks \/ CreateThread \/ Cleanup
WorkerStep(w) == \/ TestSession(w) \/ ReadMessage(w) \/ ReadEnds(w) \/ LockToBroadcast(w) \/ Write(w)
                 \/ EndBroadcast(w) \/ CloseOwn(w) \/ LockToClear(w) \/ Clear(w)
Environment == \/ \E c \in Conns : Say(c) \/ Stall(c) \/ Resume(c) \/ Depart(c) \/ AcceptFails(c)
               \/ \E t \in Threads : Interrupt(t)

Next == \/ MainStep \/ CloseServer \/ Environment
        \/ \E w \in Conns : WorkerStep(w)

Spec == Init /\ [][Next]_vars

\* Threads are scheduled, the handler is a thread's next step, and a thread
\* that keeps asking for the mutex gets it.  Nothing is assumed of the clients:
\* one may be stalled for ever.
FairSpec == /\ Spec /\ WF_vars(MainStep) /\ SF_vars(CloseServer)
            /\ \A w \in Conns : SF_vars(WorkerStep(w))

-----------------------------------------------------------------------------
Serving(w) == worker[w] \in {"loop", "read", "broadcast", "write", "close"}
Orderly == errors = 0 /\ main \notin {"exited", "killed"}

\* While every accept() succeeds, clientsCount is the number of slots in use and
\* of clients' threads, the one about to be created included, at any moment the
\* mutex is free; line 153 always finds a slot, and there are never more than
\* MAX_CLIENTS served ("Does not accept more than MAX_CLIENTS connections").
Coming == IF main = "create" THEN {accepted} ELSE {}
SlotsCounted == Orderly /\ mutex = NONE =>
                  /\ clientsCount = Cardinality(Slots \ FreeSlots)
                  /\ clientsCount = Cardinality((Threads \ {"main"}) \cup Coming)
                  /\ \A c \in Coming : worker[c] = "none"

\* A client's thread reads from its own client until it closes the connection,
\* although it reads its slot without the mutex; and two slots hold one descriptor
\* (whose client then gets every message twice) only while a thread is between its
\* close() at line 218 and line 221.
OwnSlot ==
  Orderly =>
    /\ \A w \in Conns : Serving(w) => fd[w] # NONE /\ clients[slot[w]] = fd[w]
    /\ \A s, t \in Slots :
         (s # t /\ clients[s] # NONE /\ clients[s] = clients[t]) =>
           \E w \in Conns : slot[w] \in {s, t} /\ worker[w] \in {"closed", "clear"}

\* A thread is at a write to a client that does not read, with the mutex locked.
HeldUp == \E w \in Conns : worker[w] = "write" /\ next < MAX_CLIENTS /\ Blocked(clients[next])

\* The slot of a client that leaves is given back, unless the server is told to
\* stop, dies or has had an accept() fail, or a client that never reads again
\* holds up a broadcast, and with it everybody, for ever: nobody else waits for
\* the mutex for ever.
LeaversMakeRoom ==
  \/ <>[]HeldUp
  \/ \A c \in Conns : (peer[c] = "left" /\ worker[c] \in {"loop", "read"})
                      ~> (worker[c] = "gone" \/ signals \/ errors > 0 \/ ~Alive)

\* The handler does what its comment says: "Signal handler for SIGINT.  Used to
\* set flag to end server" (lines 32-33).
FlagIsSet == signalled # NONE ~> (endSession \/ ~Alive)
=============================================================================
