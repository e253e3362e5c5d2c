---------------------------- MODULE NonstopProofs ----------------------------
(***************************************************************************)
(* Proofs about nonstop_networking/server.c and its clients, for every set *)
(* of clients and of requests: the dictionary of connections, the vector   *)
(* of names against the directory, what uploads leave in the files and     *)
(* what downloads bring to the clients.                                    *)
(***************************************************************************)
EXTENDS Nonstop, FiniteSetTheorems, SequenceTheorems, WellFoundedInduction, TLAPS

-----------------------------------------------------------------------------
(* What clients ask and what they are answered.                            *)

Answered(a) == a = NONE \/ a.status \in {"OK", "ERROR"}

CallsInv == /\ request \in [Clients -> Requests]
            /\ DOMAIN answer = Clients
            /\ \A c \in Clients : Answered(answer[c])

LEMMA CallsInit == Init => CallsInv
  BY DEF Init, ServerInit, CallsInv, Answered

LEMMA CallsFinish ==
    ASSUME CallsInv, NEW c \in Clients, NEW a, Finish(c, a), Answered(a)
    PROVE  CallsInv'
  BY DEF CallsInv, Finish, Answered

LEMMA AnswersFit ==
    /\ Answered(NONE) /\ Answered(OK) /\ \A e : Answered(ERROR(e))
    /\ \A size, data : Answered(OKWith(size, data))
  BY DEF Answered, OK, ERROR, OKWith

LEMMA CallsReceive ==
    ASSUME CallsInv, NEW c \in Clients, NEW e, NEW dir, NEW blocks, NEW kept, ReceiveData(c, e, dir, blocks, kept)
    PROVE  CallsInv'
  <1>1. CASE AtEnd(c)
    <2>1. Finish(c, OK) \/ Finish(c, ERROR("bad_file_size"))
      BY <1>1 DEF ReceiveData
    <2> QED BY <2>1, CallsFinish, AnswersFit
  <1>2. CASE ~AtEnd(c)
    BY <1>2 DEF ReceiveData, CallsInv
  <1> QED BY <1>1, <1>2

LEMMA CallsNext == ASSUME CallsInv, [Next]_vars PROVE CallsInv'
  <1>1. ASSUME NEW c \in Clients, HandleClient(c) PROVE CallsInv'
    <2>1. CASE NoLine(c) \/ PartialLine(c) \/ HandleList(c) \/ HandleGet(c) \/ HandleDelete(c)
               \/ PartialSize(c)
      <3>1. \E a : Finish(c, a) /\ Answered(a)
        BY <2>1, AnswersFit DEF NoLine, PartialLine, HandleList, HandleGet, HandleDelete,
                                PartialSize
      <3> QED BY <3>1, CallsFinish
    <2>2. CASE HandlePut(c) \/ ContinuePut(c)
      <3>1. \E e, dir, blocks, kept : ReceiveData(c, e, dir, blocks, kept)
        BY <2>2 DEF HandlePut, ContinuePut
      <3> QED BY <3>1, CallsReceive
    <2> QED BY <1>1, <2>1, <2>2 DEF HandleClient
  <1>2. ASSUME UNCHANGED <<request, answer>> PROVE CallsInv'
    BY <1>2 DEF CallsInv
  <1>3. CASE UNCHANGED vars
    BY <1>2, <1>3 DEF vars
  <1>4. CASE EpollWaitReturns \/ SessionEnds \/ HandleAccept \/ Interrupt
             \/ \E c \in Clients : HandleError(c)
    BY <1>2, <1>4 DEF EpollWaitReturns, SessionEnds, HandleAccept, Interrupt, Exit, HandleError,
                      socket_vars
  <1>5. CASE \E c \in Clients : ClientStep(c) \/ Leave(c)
    BY <1>2, <1>5 DEF ClientStep, Connect, ConnectFails, Send, Shutdown, ReadAnswer, CutOff, Leave,
                      socket_vars
  <1> QED BY <1>1, <1>3, <1>4, <1>5 DEF Next, ServerSteps, ServerStep

\* main() of the client always comes to a verdict.
LEMMA JudgeEnds ==
    ASSUME CallsInv, NEW c \in Clients
    PROVE  Judge(c, answer[c]) \in Ends
  <1>1. request[c].verb \in {"LIST", "GET", "PUT", "DELETE"} /\ Answered(answer[c])
    BY RequestsAssumption DEF CallsInv
  <1> QED BY <1>1 DEF Judge, Answered, Ends

-----------------------------------------------------------------------------
(* The dictionary.                                                         *)

Entry(c, n, s, k) == [by |-> c, filename |-> n, filesize |-> s, bytesfin |-> k]

\* An entry is that of an open connection or of one that was reset.
Owned(d) == clients[d] # NONE =>
              \E c \in Clients : /\ \E n, s, k : clients[d] = Entry(c, n, s, k)
                                 /\ fd[c] = d \/ (c \in closed /\ c \in reset)

Waiting(c) == \E i \in 1 .. Len(backlog) : backlog[i] = c

\* The inductive invariant: what is still to be accepted has no descriptor, and
\* an error is only reported of a connection that was reset.
DictInv ==
  /\ DOMAIN clients = Descriptors /\ DOMAIN fd = Clients /\ DOMAIN client = Clients
  /\ backlog \in Seq(Clients)
  /\ \A c \in Clients : Waiting(c) => fd[c] = NONE
  /\ \A c \in Clients : client[c] = "new" => fd[c] = NONE /\ ~Waiting(c)
  /\ \A c \in Clients : [of |-> c, error |-> TRUE] \in batch => c \in reset
  /\ \A d \in Descriptors : Owned(d)

LEMMA DictInit == Init => DictInv
  BY DEF Init, ServerInit, DictInv, Owned, Waiting

\* Nothing the dictionary depends on changes, but a reset may come and events go.
LEMMA DictFrame ==
    ASSUME DictInv, UNCHANGED <<clients, fd, backlog, closed>>,
           reset \subseteq reset', batch' \subseteq batch,
           DOMAIN client' = Clients,
           \A c \in Clients : client'[c] = "new" => client[c] = "new"
    PROVE  DictInv'
  <1>1. \A d \in Descriptors : Owned(d)'
    BY DEF DictInv, Owned
  <1>2. \A c \in Clients : Waiting(c)' <=> Waiting(c)
    BY DEF Waiting
  <1> QED BY <1>1, <1>2 DEF DictInv

\* close() and dictionary_remove().
LEMMA DictFinish ==
    ASSUME DictInv, NEW c \in Clients, NEW a, Finish(c, a),
           batch' \subseteq batch, client' = client
    PROVE  DictInv'
  <1>1. /\ fd' = [fd EXCEPT ![c] = NONE] /\ closed' = closed \cup {c}
        /\ clients' = [clients EXCEPT ![fd[c]] = NONE]
        /\ backlog' = backlog /\ reset' = reset
    BY DEF Finish, Close
  <1>2. /\ DOMAIN clients' = Descriptors /\ DOMAIN fd' = Clients /\ DOMAIN client' = Clients
        /\ fd'[c] = NONE /\ \A x \in Clients : x # c => fd'[x] = fd[x]
    BY <1>1 DEF DictInv
  <1>3. ASSUME NEW d \in Descriptors PROVE Owned(d)'
    <2>1. CASE d = fd[c]
      <3>1. clients'[d] = NONE
        BY <1>1, <2>1 DEF DictInv
      <3> QED BY <3>1 DEF Owned
    <2>2. CASE d # fd[c]
      <3>1. clients'[d] = clients[d]
        BY <1>1, <2>2 DEF DictInv
      <3>2. \A x \in Clients : fd[x] = d => fd'[x] = d
        BY <1>2, <2>2
      <3>3. Owned(d)
        BY DEF DictInv
      <3> QED BY <1>1, <3>1, <3>2, <3>3 DEF Owned
    <2> QED BY <2>1, <2>2
  <1>4. \A x \in Clients : (Waiting(x)' <=> Waiting(x)) /\ (fd[x] = NONE => fd'[x] = NONE)
    BY <1>1, <1>2 DEF Waiting
  <1> QED BY <1>1, <1>2, <1>3, <1>4 DEF DictInv

\* The entry of a connection is made, or counts more.
LEMMA DictStore ==
    ASSUME DictInv, NEW c \in Clients, NEW x \in Clients, NEW n, NEW s, NEW k,
           clients' = [clients EXCEPT ![fd[c]] = Entry(x, n, s, k)],
           x = c \/ (x \in closed /\ x \in reset) \/ fd[x] = fd[c],
           UNCHANGED <<fd, backlog, closed, reset, client>>, batch' \subseteq batch
    PROVE  DictInv'
  <1>1. ASSUME NEW d \in Descriptors PROVE Owned(d)'
    <2>1. CASE d = fd[c]
      <3>1. clients'[d] = Entry(x, n, s, k)
        BY <2>1 DEF DictInv
      <3>2. fd'[x] = d \/ (x \in closed' /\ x \in reset')
        BY <2>1
      <3> QED BY <3>1, <3>2 DEF Owned
    <2>2. CASE d # fd[c]
      <3>1. clients'[d] = clients[d] /\ Owned(d)
        BY <2>2 DEF DictInv
      <3> QED BY <3>1 DEF Owned
    <2> QED BY <2>1, <2>2
  <1>2. \A y \in Clients : Waiting(y)' <=> Waiting(y)
    BY DEF Waiting
  <1>3. DOMAIN clients' = Descriptors
    BY DEF DictInv
  <1> QED BY <1>1, <1>2, <1>3 DEF DictInv

LEMMA DictReceive ==
    ASSUME DictInv, NEW c \in Clients, NEW x \in Clients, NEW n, NEW s, NEW k, NEW dir, NEW blocks,
           NEW kept, ReceiveData(c, Entry(x, n, s, k), dir, blocks, kept),
           x = c \/ (x \in closed /\ x \in reset) \/ fd[x] = fd[c],
           batch' \subseteq batch, client' = client
    PROVE  DictInv'
  <1>1. CASE AtEnd(c)
    <2>1. \E a : Finish(c, a)
      BY <1>1 DEF ReceiveData
    <2> QED BY <2>1, DictFinish
  <1>2. CASE ~AtEnd(c)
    <2>1. [Entry(x, n, s, k) EXCEPT !.bytesfin = @ + Len(blocks)] = Entry(x, n, s, k + Len(blocks))
      BY DEF Entry
    <2>2. clients' = [clients EXCEPT ![fd[c]] = Entry(x, n, s, k + Len(blocks))]
      BY <1>2, <2>1 DEF ReceiveData
    <2>3. UNCHANGED <<fd, backlog, closed, reset, client>>
      BY <1>2 DEF ReceiveData
    <2> QED BY <2>2, <2>3, DictStore
  <1> QED BY <1>1, <1>2

LEMMA DictClient ==
    ASSUME DictInv, NEW c \in Clients, HandleClient(c), client' = client
    PROVE  DictInv'
  <1>0. batch' \subseteq batch
    BY DEF HandleClient, NoLine, PartialLine, HandleList, HandleGet, HandleDelete, PartialSize,
           HandlePut, ContinuePut, FirstEvent, Event
  <1>1. CASE NoLine(c) \/ PartialLine(c) \/ HandleList(c) \/ HandleGet(c) \/ HandleDelete(c)
             \/ PartialSize(c)
    <2>1. \E a : Finish(c, a)
      BY <1>1 DEF NoLine, PartialLine, HandleList, HandleGet, HandleDelete, PartialSize
    <2> QED BY <1>0, <2>1, DictFinish
  <1>2. CASE HandlePut(c)
    <2>1. \E n, s, k, dir, blocks, kept : ReceiveData(c, Entry(c, n, s, k), dir, blocks, kept)
      BY <1>2 DEF HandlePut, Entry
    <2> QED BY <1>0, <2>1, DictReceive
  <1>3. CASE ContinuePut(c)
    <2>1. PICK kept : /\ clients[fd[c]] # NONE
                      /\ ReceiveData(c, clients[fd[c]], directory, recv[c], kept)
      BY <1>3 DEF ContinuePut, HasEntry
    <2>2. CASE fd[c] \in Descriptors
      <3>1. PICK x \in Clients : /\ \E n, s, k : clients[fd[c]] = Entry(x, n, s, k)
                                 /\ fd[x] = fd[c] \/ (x \in closed /\ x \in reset)
        BY <2>1, <2>2 DEF DictInv, Owned
      <3>2. PICK n, s, k : clients[fd[c]] = Entry(x, n, s, k)
        BY <3>1
      <3>3. ReceiveData(c, Entry(x, n, s, k), directory, recv[c], kept)
        BY <2>1, <3>2
      <3> QED BY <1>0, <3>1, <3>3, DictReceive
    <2>3. CASE fd[c] \notin Descriptors
      <3>1. CASE AtEnd(c)
        <4>1. \E a : Finish(c, a)
          BY <2>1, <3>1 DEF ReceiveData
        <4> QED BY <1>0, <4>1, DictFinish
      <3>2. CASE ~AtEnd(c)
        <4>1. /\ \A d \in Descriptors : clients'[d] = clients[d]
              /\ DOMAIN clients' = Descriptors
              /\ UNCHANGED <<fd, backlog, closed, reset>>
          BY <2>1, <2>3, <3>2 DEF ReceiveData, DictInv
        <4>2. \A d \in Descriptors : Owned(d)'
          BY <4>1 DEF DictInv, Owned
        <4>3. \A y \in Clients : Waiting(y)' <=> Waiting(y)
          BY <4>1 DEF Waiting
        <4> QED BY <1>0, <4>1, <4>2, <4>3 DEF DictInv
      <3> QED BY <3>1, <3>2
    <2> QED BY <2>2, <2>3
  <1> QED BY <1>1, <1>2, <1>3 DEF HandleClient

LEMMA DictExit == ASSUME DictInv, Exit, client' = client PROVE DictInv'
  BY DEF DictInv, Exit, Owned, Waiting

LEMMA DictServer == ASSUME DictInv, ServerStep, client' = client PROVE DictInv'
  <1>1. CASE EpollWaitReturns
    <2>1. batch' = Ready /\ UNCHANGED <<clients, fd, backlog, closed, reset>>
      BY <1>1 DEF EpollWaitReturns
    <2>2. ASSUME NEW c \in Clients, [of |-> c, error |-> TRUE] \in Ready PROVE c \in reset
      <3>1. CASE \E x : [of |-> c, error |-> TRUE] = [of |-> x, error |-> x \in reset]
        <4>1. PICK x : [of |-> c, error |-> TRUE] = [of |-> x, error |-> x \in reset]
          BY <3>1
        <4>2. c = x /\ TRUE = (x \in reset)
          BY <4>1
        <4> QED BY <4>2
      <3>2. CASE [of |-> c, error |-> TRUE] = [of |-> LISTEN, error |-> FALSE]
        BY <3>2
      <3> QED BY <2>2, <3>1, <3>2 DEF Ready
    <2>3. \A d \in Descriptors : Owned(d)'
      BY <2>1 DEF DictInv, Owned
    <2>4. \A y \in Clients : Waiting(y)' <=> Waiting(y)
      BY <2>1 DEF Waiting
    <2> QED BY <2>1, <2>2, <2>3, <2>4 DEF DictInv
  <1>2. CASE SessionEnds
    BY <1>2, DictExit DEF SessionEnds
  <1>3. CASE HandleAccept
    <2>1. /\ backlog' = << >> /\ batch' \subseteq batch
          /\ UNCHANGED <<clients, closed, reset>>
      BY <1>3 DEF HandleAccept, Event
    <2>2. /\ DOMAIN fd' = Clients
          /\ \A c \in Clients : c \notin Range(backlog) => fd'[c] = fd[c]
      BY <1>3 DEF HandleAccept
    <2>3. \A c \in Clients : c \in Range(backlog) => Waiting(c)
      BY DEF DictInv, Waiting, Range
    <2>4. \A c \in Clients : ~Waiting(c)'
      BY <2>1 DEF Waiting
    <2>5. ASSUME NEW d \in Descriptors PROVE Owned(d)'
      <3>1. \A c \in Clients : fd[c] = d => fd'[c] = d
        BY <2>2, <2>3, NoneAssumption DEF DictInv
      <3> QED BY <2>1, <3>1 DEF DictInv, Owned
    <2> QED BY <2>1, <2>2, <2>3, <2>4, <2>5 DEF DictInv
  <1>4. ASSUME NEW c \in Clients, HandleError(c) PROVE DictInv'
    <2>1. /\ fd' = [fd EXCEPT ![c] = NONE] /\ closed' = closed \cup {c}
          /\ UNCHANGED <<clients, backlog, reset>> /\ batch' \subseteq batch
          /\ c \in reset
      BY <1>4 DEF HandleError, Close, Event, DictInv
    <2>2. /\ DOMAIN fd' = Clients
          /\ fd'[c] = NONE /\ \A x \in Clients : x # c => fd'[x] = fd[x]
      BY <2>1 DEF DictInv
    <2>3. \A d \in Descriptors : Owned(d)'
      BY <2>1, <2>2 DEF DictInv, Owned
    <2>4. \A x \in Clients : (Waiting(x)' <=> Waiting(x)) /\ (fd[x] = NONE => fd'[x] = NONE)
      BY <2>1, <2>2 DEF Waiting
    <2> QED BY <2>1, <2>2, <2>3, <2>4 DEF DictInv
  <1> QED BY <1>1, <1>2, <1>3, <1>4, DictClient DEF ServerStep

LEMMA DictClients ==
    ASSUME DictInv, CallsInv, NEW c \in Clients, ClientStep(c) \/ Leave(c)
    PROVE  DictInv'
  <1>1. CASE Connect(c)
    <2>1. /\ client[c] = "new" /\ client' = [client EXCEPT ![c] = "sending"]
          /\ backlog' = Append(backlog, c) /\ UNCHANGED <<fd, reset, closed, clients, batch>>
      BY <1>1 DEF Connect, Become, server_vars
    <2>2. /\ DOMAIN client' = Clients /\ client'[c] = "sending"
          /\ \A x \in Clients : x # c => client'[x] = client[x]
      BY <2>1 DEF DictInv
    <2>3. backlog' \in Seq(Clients) /\ \A x \in Clients : Waiting(x)' => Waiting(x) \/ x = c
      BY <2>1 DEF DictInv, Waiting
    <2>4. \A d \in Descriptors : Owned(d)'
      BY <2>1 DEF DictInv, Owned
    <2> QED BY <2>1, <2>2, <2>3, <2>4 DEF DictInv
  <1>2. CASE ~Connect(c)
    <2>1. /\ UNCHANGED <<clients, fd, backlog, closed, batch>> /\ reset \subseteq reset'
      BY <1>2 DEF ClientStep, ConnectFails, Send, Shutdown, ReadAnswer, CutOff, Leave,
                  server_vars, socket_vars
    <2>2. Judge(c, answer[c]) # "new"
      BY JudgeEnds DEF Ends
    <2>3. client' = client \/ \E s : client' = [client EXCEPT ![c] = s] /\ s # "new"
      BY <1>2, <2>2 DEF ClientStep, ConnectFails, Send, Shutdown, ReadAnswer, CutOff, Leave, Become
    <2>4. DOMAIN client' = Clients /\ \A x \in Clients : client'[x] = "new" => client[x] = "new"
      BY <2>3 DEF DictInv
    <2> QED BY <2>1, <2>4, DictFrame
  <1> QED BY <1>1, <1>2

LEMMA DictNext == ASSUME CallsInv, DictInv, [Next]_vars PROVE DictInv'
  <1>1. CASE UNCHANGED vars
    BY <1>1, DictFrame DEF vars, DictInv
  <1>2. CASE Interrupt /\ UNCHANGED <<client, sent, local>>
    <2>1. CASE Exit
      BY <1>2, <2>1, DictExit
    <2>2. CASE ~Exit
      <3>1. UNCHANGED <<clients, fd, backlog, closed, reset, batch, client>>
        BY <1>2, <2>2 DEF Interrupt, socket_vars
      <3> QED BY <3>1, DictFrame DEF DictInv
    <2> QED BY <2>1, <2>2
  <1>3. CASE ServerSteps
    BY <1>3, DictServer DEF ServerSteps
  <1> QED BY <1>1, <1>2, <1>3, DictClients DEF Next

\* No step of the server, of a client or of SIGINT leaves an entry to a
\* descriptor that its client does not hold, save HandleError, which closes a
\* connection that was reset and forgets dictionary_remove() (lines 144-150).
THEOREM EntriesOwned == Spec => []StaleOnlyAfterReset
  <1>1. CallsInv /\ DictInv /\ [Next]_vars => DictInv'
    BY DictNext
  <1>2. DictInv => StaleOnlyAfterReset
    BY DEF DictInv, Owned, StaleOnlyAfterReset, Entry
  <1>3. CallsInv /\ [Next]_vars => CallsInv'
    BY CallsNext
  <1> QED BY <1>1, <1>2, <1>3, DictInit, CallsInit, PTL DEF Spec

-----------------------------------------------------------------------------
(* The vector of names and the directory.                                  *)

Names == {request[c].name : c \in Clients}

\* Every file is listed; and but for names in U, every name is that of a file
\* and is listed once.
Listed(f, D, U) ==
  /\ f \in Seq(Names)
  /\ \A i, j \in 1 .. Len(f) : f[i] = f[j] => i = j \/ f[i] \in U
  /\ \A m \in D : \E i \in 1 .. Len(f) : f[i] = m
  /\ \A i \in 1 .. Len(f) : f[i] \in D \cup U

\* The inductive invariant.
FilesInv == IF server = "exited" THEN DOMAIN directory = {}
            ELSE Listed(files, DOMAIN directory, unopened)

LEMMA FilesInit == Init => FilesInv
  BY DEF Init, ServerInit, FilesInv, Listed

\* A name that is entered has a file, or belongs to U.
LEMMA ListedAppend ==
    ASSUME NEW n \in Names, NEW f, NEW D, NEW U, Listed(f, D, U),
           NEW D2, NEW U2, D \subseteq D2, D2 \subseteq D \cup {n}, U \subseteq U2,
           n \in D2 \cup U2, n \notin D \/ n \in U2
    PROVE  Listed(Append(f, n), D2, U2)
  <1>1. /\ Append(f, n) \in Seq(Names) /\ Len(Append(f, n)) = Len(f) + 1
        /\ Append(f, n)[Len(f) + 1] = n /\ Len(f) \in Nat
        /\ \A i \in 1 .. Len(f) : Append(f, n)[i] = f[i]
    BY DEF Listed
  <1>2. \A i \in 1 .. Len(f) : f[i] = n => n \in U2
    BY DEF Listed
  <1>3. \A i \in 1 .. Len(f) + 1 : i \in 1 .. Len(f) \/ i = Len(f) + 1
    BY <1>1
  <1>4. \A i, j \in 1 .. Len(f) + 1 :
          Append(f, n)[i] = Append(f, n)[j] => i = j \/ Append(f, n)[i] \in U2
    <2> SUFFICES ASSUME NEW i \in 1 .. Len(f) + 1, NEW j \in 1 .. Len(f) + 1,
                        Append(f, n)[i] = Append(f, n)[j], i # j
                 PROVE  Append(f, n)[i] \in U2
      OBVIOUS
    <2>1. CASE i \in 1 .. Len(f) /\ j \in 1 .. Len(f)
      <3>1. f[i] = f[j] /\ Append(f, n)[i] = f[i]
        BY <1>1, <2>1
      <3> QED BY <2>1, <3>1 DEF Listed
    <2>2. CASE i = Len(f) + 1 \/ j = Len(f) + 1
      <3>1. Append(f, n)[i] = n /\ \E l \in 1 .. Len(f) : f[l] = n
        BY <1>1, <1>3, <2>2
      <3> QED BY <1>2, <3>1
    <2> QED BY <1>3, <2>1, <2>2
  <1>5. ASSUME NEW m \in D2 PROVE \E i \in 1 .. Len(f) + 1 : Append(f, n)[i] = m
    <2>1. CASE m = n
      BY <1>1, <2>1
    <2>2. CASE m # n
      <3>1. PICK i \in 1 .. Len(f) : f[i] = m
        BY <2>2 DEF Listed
      <3> QED BY <1>1, <3>1
    <2> QED BY <2>1, <2>2
  <1>6. \A i \in 1 .. Len(f) + 1 : Append(f, n)[i] \in D2 \cup U2
    BY <1>1, <1>3 DEF Listed
  <1> QED BY <1>1, <1>4, <1>5, <1>6 DEF Listed

\* The file of a PUT: truncated, created and entered, or entered alone.
LEMMA ListedPut ==
    ASSUME NEW n \in Names, Listed(files, DOMAIN directory, unopened), NEW D, NEW U,
           \/ D = DOMAIN directory \cup {n} /\ U = unopened
           \/ D = DOMAIN directory /\ n \in D /\ U = unopened
           \/ D = DOMAIN directory /\ n \notin D /\ U = unopened \cup {n}
    PROVE  Listed(NewFile(n), D, U)
  <1>1. CASE n \in DOMAIN directory
    <2>1. NewFile(n) = files /\ D = DOMAIN directory /\ U = unopened
      BY <1>1 DEF NewFile
    <2> QED BY <2>1
  <1>2. CASE n \notin DOMAIN directory
    <2>1. /\ NewFile(n) = Append(files, n) /\ DOMAIN directory \subseteq D
          /\ D \subseteq DOMAIN directory \cup {n} /\ unopened \subseteq U /\ n \in D \cup U
      BY <1>2 DEF NewFile
    <2> QED BY <1>2, <2>1, ListedAppend
  <1> QED BY <1>1, <1>2

\* What vector_erase() leaves.
LEMMA Erased ==
    ASSUME NEW S, NEW s \in Seq(S), NEW i \in 1 .. Len(s)
    PROVE  /\ RemoveAt(s, i) \in Seq(S) /\ Len(RemoveAt(s, i)) = Len(s) - 1
           /\ \A j \in 1 .. Len(s) - 1 : RemoveAt(s, i)[j] = IF j < i THEN s[j] ELSE s[j + 1]
  <1> DEFINE a == SubSeq(s, 1, i - 1)
             b == SubSeq(s, i + 1, Len(s))
  <1>1. RemoveAt(s, i) = a \o b
    BY DEF RemoveAt
  <1>2. /\ a \in Seq(S) /\ Len(a) = i - 1
        /\ \A j \in 1 .. i - 1 : a[j] = s[j]
    OBVIOUS
  <1>3. /\ b \in Seq(S) /\ Len(b) = Len(s) - i
        /\ \A j \in 1 .. Len(s) - i : b[j] = s[j + i]
    OBVIOUS
  <1> HIDE DEF a, b
  <1>4. /\ a \o b \in Seq(S) /\ Len(a \o b) = Len(s) - 1
        /\ \A j \in 1 .. i - 1 : (a \o b)[j] = a[j]
        /\ \A j \in 1 .. Len(s) - i : (a \o b)[i - 1 + j] = b[j]
    <2>1. Len(s) \in Nat /\ i \in 1 .. Len(s)
      OBVIOUS
    <2>2. a \o b \in Seq(S) /\ Len(a \o b) = Len(a) + Len(b)
      BY <1>2, <1>3, ConcatProperties
    <2>5. Len(a) + Len(b) = Len(s) - 1
      BY <1>2, <1>3, <2>1
    <2>3. \A j \in 1 .. i - 1 : (a \o b)[j] = a[j]
      BY <1>2, <1>3, <2>1
    <2>4. \A j \in 1 .. Len(s) - i : (a \o b)[i - 1 + j] = b[j]
      BY <1>2, <1>3, <2>1
    <2> QED BY <2>2, <2>3, <2>4, <2>5
  <1>5. ASSUME NEW j \in 1 .. Len(s) - 1
        PROVE  (a \o b)[j] = IF j < i THEN s[j] ELSE s[j + 1]
    <2>1. CASE j < i
      BY <1>2, <1>4, <2>1
    <2>2. CASE ~(j < i)
      <3>1. /\ j - (i - 1) \in 1 .. Len(s) - i
            /\ i - 1 + (j - (i - 1)) = j /\ j - (i - 1) + i = j + 1
        BY <2>2
      <3>2. (a \o b)[j] = b[j - (i - 1)]
        BY <1>4, <3>1
      <3>3. b[j - (i - 1)] = s[j + 1]
        BY <1>3, <3>1
      <3> QED BY <2>2, <3>2, <3>3
    <2> QED BY <2>1, <2>2
  <1> QED BY <1>1, <1>4, <1>5

\* A DELETE erases the one entry of the name.
LEMMA ListedDelete ==
    ASSUME NEW n, Listed(files, DOMAIN directory, unopened), Erase(n), Unlink(n)
    PROVE  Listed(files', DOMAIN directory', unopened)
  <1>1. PICK i \in 1 .. Len(files) : files[i] = n /\ files' = RemoveAt(files, i)
    BY DEF Erase, Listed
  <1>2. /\ files \in Seq(Names) /\ Len(files) \in Nat
        /\ files' \in Seq(Names) /\ Len(files') = Len(files) - 1
        /\ \A j \in 1 .. Len(files) - 1 : files'[j] = IF j < i THEN files[j] ELSE files[j + 1]
    <2>1. files \in Seq(Names)
      BY DEF Listed
    <2> HIDE DEF Names
    <2>2. /\ RemoveAt(files, i) \in Seq(Names) /\ Len(RemoveAt(files, i)) = Len(files) - 1
          /\ \A j \in 1 .. Len(files) - 1 :
               RemoveAt(files, i)[j] = IF j < i THEN files[j] ELSE files[j + 1]
      BY <2>1, Erased
    <2> QED BY <1>1, <2>1, <2>2
  <1>3. DOMAIN directory' = DOMAIN directory \ {n}
    BY DEF Unlink
  <1> DEFINE from(j) == IF j < i THEN j ELSE j + 1
  <1>4. \A j \in 1 .. Len(files') : /\ from(j) \in 1 .. Len(files) /\ from(j) # i
                                    /\ files'[j] = files[from(j)]
    BY <1>2
  <1>5. \A j, k \in 1 .. Len(files') : from(j) = from(k) => j = k
    BY <1>2
  <1>6. \A m \in 1 .. Len(files) : m # i => \E j \in 1 .. Len(files') : from(j) = m
    <2> SUFFICES ASSUME NEW m \in 1 .. Len(files), m # i
                 PROVE  \E j \in 1 .. Len(files') : from(j) = m
      OBVIOUS
    <2>1. CASE m < i
      <3>1. m \in 1 .. Len(files') /\ from(m) = m
        BY <1>2, <2>1
      <3> QED BY <3>1
    <2>2. CASE m > i
      <3>1. m - 1 \in 1 .. Len(files') /\ from(m - 1) = m
        BY <1>2, <2>2
      <3> QED BY <3>1
    <2> QED BY <1>2, <2>1, <2>2
  <1> HIDE DEF from
  <1>7. \A j, k \in 1 .. Len(files') : files'[j] = files'[k] => j = k \/ files'[j] \in unopened
    <2> SUFFICES ASSUME NEW j \in 1 .. Len(files'), NEW k \in 1 .. Len(files'), files'[j] = files'[k]
                 PROVE  j = k \/ files'[j] \in unopened
      OBVIOUS
    <2>1. /\ from(j) \in 1 .. Len(files) /\ from(k) \in 1 .. Len(files)
          /\ files'[j] = files[from(j)] /\ files'[k] = files[from(k)]
      BY ONLY <1>4, j \in 1 .. Len(files'), k \in 1 .. Len(files')
    <2>2. \A u, v \in 1 .. Len(files) : files[u] = files[v] => u = v \/ files[u] \in unopened
      BY DEF Listed
    <2>3. from(j) = from(k) \/ files[from(j)] \in unopened
      BY ONLY <2>1, <2>2, files'[j] = files'[k]
    <2> QED BY <1>5, <2>1, <2>3
  <1>8. ASSUME NEW m \in DOMAIN directory \ {n} PROVE \E j \in 1 .. Len(files') : files'[j] = m
    <2>1. PICK k \in 1 .. Len(files) : m = files[k]
      BY DEF Listed
    <2>2. k # i
      BY <1>1, <2>1
    <2>3. PICK j \in 1 .. Len(files') : from(j) = k
      BY <1>6, <2>2
    <2> QED BY <1>4, <2>1, <2>3
  <1>9. ASSUME NEW j \in 1 .. Len(files')
        PROVE  files'[j] \in (DOMAIN directory \ {n}) \cup unopened
    <2>1. files'[j] = n => n \in unopened
      BY <1>1, <1>4 DEF Listed
    <2>2. files'[j] \in DOMAIN directory \cup unopened
      BY <1>4 DEF Listed
    <2> QED BY <2>1, <2>2
  <1> QED BY <1>2, <1>3, <1>7, <1>8, <1>9 DEF Listed

LEMMA FilesFrame ==
    ASSUME FilesInv, UNCHANGED <<request, server, files, unopened>>,
           DOMAIN directory' = DOMAIN directory
    PROVE  FilesInv'
  BY DEF FilesInv, Listed, Names

LEMMA FilesExit == ASSUME FilesInv, server = "running", Exit PROVE FilesInv'
  <1>1. DOMAIN directory' = DOMAIN directory \ Range(files) /\ server' = "exited"
    BY DEF Exit, Unlinked
  <1>2. DOMAIN directory \subseteq Range(files)
    BY DEF FilesInv, Listed, Range
  <1> QED BY <1>1, <1>2 DEF FilesInv

\* ReceiveData writes to a file that exists, or not at all.
LEMMA FilesReceive ==
    ASSUME NEW c, NEW e, NEW dir, NEW blocks, NEW kept, ReceiveData(c, e, dir, blocks, kept)
    PROVE  DOMAIN directory' = DOMAIN dir /\ UNCHANGED <<request, server>>
  BY DEF ReceiveData, AppendTo, Finish

LEMMA FilesClient == ASSUME FilesInv, NEW c \in Clients, HandleClient(c) PROVE FilesInv'
  <1>0. server = "running" /\ Listed(files, DOMAIN directory, unopened)
    BY DEF FilesInv, HandleClient, NoLine, PartialLine, HandleList, HandleGet, HandleDelete,
           PartialSize, HandlePut, ContinuePut, FirstEvent, Event
  <1>1. CASE NoLine(c) \/ PartialLine(c) \/ HandleList(c) \/ HandleGet(c) \/ PartialSize(c)
    <2>1. UNCHANGED <<request, server, files, directory, unopened>>
      BY <1>1 DEF NoLine, PartialLine, HandleList, HandleGet, PartialSize, Finish, history
    <2> QED BY <2>1, FilesFrame
  <1>2. CASE HandleDelete(c)
    <2>1. UNCHANGED <<request, server, unopened>>
      BY <1>2 DEF HandleDelete, Finish
    <2>2. CASE UNCHANGED <<files, directory>>
      BY <2>1, <2>2, FilesFrame
    <2>3. CASE Erase(request[c].name) /\ Unlink(request[c].name)
      <3>1. Listed(files', DOMAIN directory', unopened)
        BY <1>0, <2>3, ListedDelete
      <3> QED BY <1>0, <2>1, <3>1 DEF FilesInv, Listed, Names
    <2> QED BY <1>2, <2>2, <2>3 DEF HandleDelete
  <1>3. CASE HandlePut(c)
    <2> DEFINE n == request[c].name
    <2>1. PICK opened \in BOOLEAN :
            /\ files' = NewFile(n)
            /\ unopened' = IF opened \/ n \in DOMAIN directory THEN unopened
                           ELSE unopened \cup {n}
            /\ \E e, blocks, kept :
                 ReceiveData(c, e, IF opened THEN Truncate(directory, n) ELSE directory, blocks, kept)
      BY <1>3 DEF HandlePut
    <2>2. /\ DOMAIN directory' = DOMAIN (IF opened THEN Truncate(directory, n) ELSE directory)
          /\ UNCHANGED <<request, server>>
      BY <2>1, FilesReceive
    <2>3. n \in Names
      BY DEF Names
    <2>4. DOMAIN Truncate(directory, n) = DOMAIN directory \cup {n}
      BY DEF Truncate
    <2>5. \/ DOMAIN directory' = DOMAIN directory \cup {n} /\ unopened' = unopened
          \/ DOMAIN directory' = DOMAIN directory /\ n \in DOMAIN directory' /\ unopened' = unopened
          \/ /\ DOMAIN directory' = DOMAIN directory /\ n \notin DOMAIN directory'
             /\ unopened' = unopened \cup {n}
      <3>1. CASE opened
        BY <2>1, <2>2, <2>4, <3>1
      <3>2. CASE ~opened
        BY <2>1, <2>2, <3>2
      <3> QED BY <3>1, <3>2
    <2>6. Listed(files', DOMAIN directory', unopened')
      BY <1>0, <2>1, <2>3, <2>5, ListedPut
    <2> QED BY <1>0, <2>2, <2>6 DEF FilesInv, Listed, Names
  <1>4. CASE ContinuePut(c)
    <2>1. PICK kept : /\ UNCHANGED <<files, unopened>>
                      /\ ReceiveData(c, clients[fd[c]], directory, recv[c], kept)
      BY <1>4 DEF ContinuePut
    <2>2. DOMAIN directory' = DOMAIN directory /\ UNCHANGED <<request, server>>
      BY <2>1, FilesReceive
    <2> QED BY <2>1, <2>2, FilesFrame
  <1> QED BY <1>1, <1>2, <1>3, <1>4 DEF HandleClient

\* The directory holds the files that the vector names, each named once,
\* through every upload, deletion and broken connection; on SIGINT cleanup()
\* therefore empties it, and its rmdir() can succeed.
THEOREM DirectoryListed == Spec => []FilesMatchDirectory
  <1>1. FilesInv /\ [Next]_vars => FilesInv'
    <2> SUFFICES ASSUME FilesInv, [Next]_vars PROVE FilesInv'
      OBVIOUS
    <2>1. CASE UNCHANGED vars
      BY <2>1, FilesFrame DEF vars
    <2>2. CASE Interrupt
      <3>1. CASE Exit
        BY <2>2, <3>1, FilesExit DEF Interrupt
      <3>2. CASE ~Exit
        BY <2>2, <3>2, FilesFrame DEF Interrupt, history
      <3> QED BY <3>1, <3>2
    <2>3. CASE SessionEnds
      BY <2>3, FilesExit DEF SessionEnds
    <2>4. CASE EpollWaitReturns \/ HandleAccept \/ \E c \in Clients : HandleError(c)
      BY <2>4, FilesFrame DEF EpollWaitReturns, HandleAccept, HandleError, history
    <2>5. CASE \E c \in Clients : ClientStep(c) \/ Leave(c)
      BY <2>5, FilesFrame DEF ClientStep, Connect, ConnectFails, Send, Shutdown, ReadAnswer, CutOff,
                              Leave, server_vars, history
    <2> QED BY <2>1, <2>2, <2>3, <2>4, <2>5, FilesClient DEF Next, ServerSteps, ServerStep
  <1>2. ASSUME FilesInv PROVE FilesMatchDirectory
    <2>1. CASE server = "exited"
      BY <1>2, <2>1 DEF FilesInv, FilesMatchDirectory
    <2>2. CASE server # "exited"
      <3>1. Listed(files, DOMAIN directory, unopened)
        BY <1>2, <2>2 DEF FilesInv
      <3>2. files \in Seq(Names)
        BY <3>1 DEF Listed
      <3>3. DOMAIN files = 1 .. Len(files)
        BY <3>2
      <3>4. /\ DOMAIN directory \subseteq Range(files)
            /\ Range(files) \subseteq DOMAIN directory \cup unopened
        BY <3>1, <3>3 DEF Listed, Range
      <3>5. \A i, j \in DOMAIN files : files[i] = files[j] => i = j \/ files[i] \in unopened
        BY <3>1, <3>3 DEF Listed
      <3> QED BY <2>2, <3>4, <3>5 DEF FilesMatchDirectory
    <2> QED BY <2>1, <2>2
  <1> QED BY <1>1, <1>2, FilesInit, PTL DEF Spec
-----------------------------------------------------------------------------
(* Sequences of pieces.                                                    *)

\* Two neighbouring parts of a sequence.
LEMMA Adjacent ==
    ASSUME NEW S, NEW s \in Seq(S), NEW i \in 1 .. Len(s) + 1, NEW j \in Nat, NEW k \in Nat,
           i <= j + 1, j <= k, k <= Len(s)
    PROVE  SubSeq(s, i, j) \o SubSeq(s, j + 1, k) = SubSeq(s, i, k)
  <1> DEFINE a == SubSeq(s, i, j)
             b == SubSeq(s, j + 1, k)
             w == SubSeq(s, i, k)
  <1>0. Len(s) \in Nat /\ \A m \in 1 .. Len(s) : s[m] \in S
    OBVIOUS
  <1>1. /\ a \in Seq(S) /\ Len(a) = j - i + 1 /\ \A m \in 1 .. j - i + 1 : a[m] = s[i + m - 1]
    BY <1>0, SubSeqProperties
  <1>2. /\ b \in Seq(S) /\ Len(b) = k - j /\ \A m \in 1 .. k - j : b[m] = s[j + m]
    BY <1>0, SubSeqProperties
  <1>3. /\ w \in Seq(S) /\ Len(w) = k - i + 1 /\ \A m \in 1 .. k - i + 1 : w[m] = s[i + m - 1]
    BY <1>0, SubSeqProperties
  <1> HIDE DEF a, b, w
  <1>4. a \o b \in Seq(S) /\ Len(a \o b) = Len(w)
    <2>1. a \o b \in Seq(S) /\ Len(a \o b) = Len(a) + Len(b)
      BY <1>1, <1>2, ConcatProperties
    <2>2. Len(a) + Len(b) = Len(w)
      BY <1>0, <1>1, <1>2, <1>3
    <2> QED BY <2>1, <2>2
  <1>5. ASSUME NEW m \in 1 .. Len(w) PROVE (a \o b)[m] = w[m]
    <2>1. (a \o b)[m] = IF m <= Len(a) THEN a[m] ELSE b[m - Len(a)]
      BY <1>1, <1>2, <1>3, ConcatProperties
    <2>2. CASE m <= Len(a)
      BY <1>1, <1>3, <2>1, <2>2
    <2>3. CASE ~(m <= Len(a))
      <3>1. m - Len(a) \in 1 .. k - j /\ j + (m - Len(a)) = i + m - 1
        BY <1>1, <1>3, <2>3
      <3> QED BY <1>2, <1>3, <2>1, <2>3, <3>1
    <2> QED BY <2>2, <2>3
  <1>6. a \o b = w
    BY <1>3, <1>4, <1>5, SeqEqual
  <1> QED BY <1>6 DEF a, b, w

\* What follows the first three elements.
LEMMA AfterThree ==
    ASSUME NEW S, NEW t \in Seq(S), NEW x \in S, NEW y \in S, NEW z \in S,
           NEW i \in 1 .. Len(t) + 1, NEW j \in Nat, j <= Len(t)
    PROVE  SubSeq(<<x, y, z>> \o t, i + 3, j + 3) = SubSeq(t, i, j)
  <1> DEFINE s == <<x, y, z>> \o t
             a == SubSeq(s, i + 3, j + 3)
             b == SubSeq(t, i, j)
             n == IF i <= j THEN j - i + 1 ELSE 0
  <1>0. <<x, y, z>> \in Seq(S) /\ Len(<<x, y, z>>) = 3 /\ Len(t) \in Nat
    OBVIOUS
  <1>1. s \in Seq(S) /\ Len(s) = Len(t) + 3 /\ \A m \in 1 .. Len(t) : s[m + 3] = t[m]
    <2>1. s \in Seq(S) /\ Len(s) = 3 + Len(t)
      BY <1>0, ConcatProperties
    <2>2. ASSUME NEW m \in 1 .. Len(t) PROVE s[m + 3] = t[m]
      <3>1. s[m + 3] = IF m + 3 <= 3 THEN <<x, y, z>>[m + 3] ELSE t[m + 3 - 3]
        BY <1>0, ConcatProperties
      <3> QED BY <1>0, <3>1
    <2> QED BY <1>0, <2>1, <2>2
  <1> HIDE DEF s
  <1>2. /\ a \in Seq(S) /\ Len(a) = n /\ \A m \in 1 .. n : a[m] = s[i + 3 + m - 1]
    <2>1. \A m \in i + 3 .. j + 3 : s[m] \in S
      BY <1>0, <1>1
    <2> QED BY <1>0, <2>1, SubSeqProperties
  <1>3. /\ b \in Seq(S) /\ Len(b) = n /\ \A m \in 1 .. n : b[m] = t[i + m - 1]
    <2>1. \A m \in i .. j : t[m] \in S
      BY <1>0
    <2> QED BY <1>0, <2>1, SubSeqProperties
  <1> HIDE DEF a, b
  <1>4. ASSUME NEW m \in 1 .. n PROVE a[m] = b[m]
    <2>1. i + m - 1 \in 1 .. Len(t) /\ i + 3 + m - 1 = i + m - 1 + 3
      BY <1>0
    <2> QED BY <1>1, <1>2, <1>3, <2>1
  <1>5. a = b
    BY <1>2, <1>3, <1>4, SeqEqual
  <1> QED BY <1>5 DEF a, b, s

\* The least and the greatest element of a set of indices.
LEMMA LessThan ==
    \E less : /\ IsWellFoundedOn(less, Nat)
             /\ \A x \in Nat : \A y \in Nat : x < y => <<x, y>> \in less
  <1> DEFINE less == OpToRel(<, Nat)
  <1>1. IsWellFoundedOn(less, Nat)
    BY NatLessThanWellFounded, Zenon
  <1>2. \A x \in Nat : \A y \in Nat : x < y => <<x, y>> \in less
    BY DEF OpToRel
  <1> HIDE DEF less
  <1> QED BY <1>1, <1>2, Zenon

LEMMA MinimalElement ==
    ASSUME NEW Q \in SUBSET Nat, Q # {}, NEW less, IsWellFoundedOn(less, Nat)
    PROVE  \E x \in Q : \A y \in Q : ~(<<y, x>> \in less)
  BY WFMin, Zenon

LEMMA LeastIndex ==
    ASSUME NEW n \in Nat, NEW T, T \subseteq 1 .. n, T # {}
    PROVE  \E i \in T : \A j \in T : i <= j
  <1>1. PICK less : /\ IsWellFoundedOn(less, Nat)
                    /\ \A x \in Nat : \A y \in Nat : x < y => <<x, y>> \in less
    BY LessThan
  <1>2. T \in SUBSET Nat
    OBVIOUS
  <1>3. PICK i \in T : \A j \in T : ~(<<j, i>> \in less)
    BY <1>1, <1>2, MinimalElement
  <1>4. \A j \in T : ~(j < i)
    BY <1>1, <1>2, <1>3
  <1> QED BY <1>2, <1>4

LEMMA GreatestIndex ==
    ASSUME NEW n \in Nat, NEW T, T \subseteq 1 .. n, T # {}
    PROVE  \E i \in T : \A j \in T : j <= i
  <1> DEFINE M == {m \in 1 .. n : n + 1 - m \in T}
  <1>1. M \subseteq 1 .. n /\ M # {}
    <2>1. PICK t \in T : TRUE
      OBVIOUS
    <2>2. n + 1 - t \in 1 .. n /\ n + 1 - (n + 1 - t) = t
      OBVIOUS
    <2> QED BY <2>1, <2>2
  <1>2. PICK m \in M : \A k \in M : m <= k
    BY <1>1, LeastIndex
  <1>3. ASSUME NEW j \in T PROVE j <= n + 1 - m
    <2>1. n + 1 - j \in 1 .. n /\ n + 1 - (n + 1 - j) = j
      OBVIOUS
    <2>2. m <= n + 1 - j
      BY <1>2, <2>1
    <2> QED BY <2>2
  <1> QED BY <1>2, <1>3

\* Of n blocks, n are left only if none is lost.
LEMMA AllSurvive ==
    ASSUME NEW S, NEW content \in Seq(S), NEW data \in Survivors(content), Len(data) = Len(content)
    PROVE  data = content
  <1> DEFINE n == Len(content)
  <1>0. PICK k \in 0 .. n : data \in {[i \in 1 .. k |-> content[kept[i]]] : kept \in Rising(k, n)}
    BY DEF Survivors
  <1>1. PICK kept \in Rising(k, n) : data = [i \in 1 .. k |-> content[kept[i]]]
    BY <1>0
  <1>2. n \in Nat /\ Len(data) = k
    BY <1>1
  <1>3. /\ kept \in [1 .. n -> 1 .. n]
        /\ \A i, j \in 1 .. n : i < j => kept[i] < kept[j]
    BY <1>1, <1>2 DEF Rising
  <1>4. \A i \in 1 .. n : kept[i] >= i
    <2> DEFINE T == {i \in 1 .. n : kept[i] < i}
    <2>1. ASSUME T # {} PROVE FALSE
      <3>1. PICK i \in T : \A j \in T : i <= j
        BY <1>2, <2>1, LeastIndex
      <3>2. i # 1
        BY <1>3, <3>1
      <3>3. i - 1 \in 1 .. n /\ i - 1 \notin T
        BY <3>1, <3>2
      <3>4. kept[i - 1] >= i - 1 /\ kept[i - 1] < kept[i]
        BY <1>3, <3>3
      <3> QED BY <1>3, <3>1, <3>3, <3>4
    <2> QED BY <1>3, <2>1
  <1>5. \A i \in 1 .. n : kept[i] <= i
    <2> DEFINE T == {i \in 1 .. n : kept[i] > i}
    <2>1. ASSUME T # {} PROVE FALSE
      <3>1. PICK i \in T : \A j \in T : j <= i
        BY <1>2, <2>1, GreatestIndex
      <3>2. i # n
        BY <1>2, <1>3, <3>1
      <3>3. i + 1 \in 1 .. n /\ i + 1 \notin T
        BY <1>2, <3>1, <3>2
      <3>4. kept[i + 1] <= i + 1 /\ kept[i] < kept[i + 1]
        BY <1>3, <3>3
      <3> QED BY <1>3, <3>1, <3>3, <3>4
    <2> QED BY <1>3, <2>1
  <1>6. \A i \in 1 .. n : kept[i] = i
    BY <1>3, <1>4, <1>5
  <1>7. data = [i \in 1 .. n |-> content[i]]
    BY <1>1, <1>2, <1>6
  <1> QED BY <1>7

LEMMA SurvivorsType ==
    ASSUME NEW S, NEW content \in Seq(S), NEW data \in Survivors(content)
    PROVE  data \in Seq(S) /\ (content = << >> => data = << >>)
  <1>1. PICK k \in 0 .. Len(content) :
          data \in {[i \in 1 .. k |-> content[kept[i]]] : kept \in Rising(k, Len(content))}
    BY DEF Survivors
  <1>2. PICK kept \in Rising(k, Len(content)) : data = [i \in 1 .. k |-> content[kept[i]]]
    BY <1>1
  <1>3. kept \in [1 .. k -> 1 .. Len(content)] /\ k \in Nat
    BY DEF Rising
  <1>4. \A i \in 1 .. k : content[kept[i]] \in S
    BY <1>3
  <1>5. data \in [1 .. k -> S] /\ data \in Seq(S) /\ Len(data) = k
    BY <1>2, <1>3, <1>4
  <1>6. content = << >> => k = 0
    OBVIOUS
  <1> QED BY <1>5, <1>6
-----------------------------------------------------------------------------
(* Connections: from the backlog over a descriptor of their own to the end. *)

Ev(c, b) == [of |-> c, error |-> b]

FdType == fd \in [Clients -> Descriptors \cup {NONE}]
\* Two open connections have different descriptors.
Apart == \A c, x \in Clients : fd[c] # NONE /\ fd[c] = fd[x] => c = x
\* A connection is never opened twice.
StillOpen == \A c \in Clients : fd[c] # NONE \/ Waiting(c) \/ client[c] = "new" => c \notin closed
Sending == \A c \in Clients : client[c] = "sending" => fd[c] # NONE \/ Waiting(c) \/ c \in closed
\* The events still to be handled are of open connections, one of each.
EventsOpen == \A c \in Clients : \A b \in BOOLEAN : Ev(c, b) \in batch => fd[c] # NONE
OneEvent == \A c \in Clients : ~(Ev(c, TRUE) \in batch /\ Ev(c, FALSE) \in batch)

ConnInv == FdType /\ Apart /\ StillOpen /\ Sending /\ EventsOpen /\ OneEvent

LEMMA EvApart ==
    /\ \A c, x : c # x => \A b, d : Ev(c, b) # Ev(x, d)
    /\ \A c, x : Ev(c, TRUE) # Ev(x, FALSE)
    /\ \A c \in Clients : \A b, d : Ev(c, b) # Ev(LISTEN, d)
  <1>1. \A c, x : c # x => \A b, d : Ev(c, b) # Ev(x, d)
    BY DEF Ev
  <1>2. \A c, x : Ev(c, TRUE) # Ev(x, FALSE)
    BY DEF Ev
  <1>3. \A c \in Clients : c # LISTEN
    BY ListenAssumption
  <1> QED BY <1>1, <1>2, <1>3

LEMMA ConnInit == Init => ConnInv
  BY DEF Init, ServerInit, ConnInv, FdType, Apart, StillOpen, Sending, EventsOpen, OneEvent, Waiting

LEMMA ConnFrame ==
    ASSUME ConnInv, UNCHANGED <<fd, backlog, closed>>, batch' \subseteq batch,
           \A c \in Clients : client'[c] = "new" => client[c] = "new",
           \A c \in Clients : client'[c] = "sending" => client[c] = "sending"
    PROVE  ConnInv'
  <1>1. \A c \in Clients : Waiting(c)' <=> Waiting(c)
    BY DEF Waiting
  <1>2. FdType' /\ Apart' /\ StillOpen' /\ Sending'
    BY <1>1 DEF ConnInv, FdType, Apart, StillOpen, Sending
  <1>3. EventsOpen' /\ OneEvent'
    BY DEF ConnInv, EventsOpen, OneEvent
  <1> QED BY <1>2, <1>3 DEF ConnInv

\* close(), when the one event of the connection is handled.
LEMMA ConnClose ==
    ASSUME DictInv, ConnInv, NEW c \in Clients, NEW b \in BOOLEAN,
           Ev(c, b) \in batch, batch' = batch \ {Ev(c, b)},
           fd' = [fd EXCEPT ![c] = NONE], closed' = closed \cup {c},
           UNCHANGED <<backlog, client>>
    PROVE  ConnInv'
  <1>1. /\ fd[c] # NONE /\ ~Waiting(c) /\ client[c] # "new"
    BY DEF ConnInv, EventsOpen, DictInv
  <1>2. /\ FdType' /\ fd'[c] = NONE /\ \A x \in Clients : x # c => fd'[x] = fd[x]
    BY DEF ConnInv, FdType
  <1>3. \A x \in Clients : Waiting(x)' <=> Waiting(x)
    BY DEF Waiting
  <1>4. Apart'
    BY <1>2 DEF ConnInv, Apart
  <1>5. StillOpen' /\ Sending'
    BY <1>1, <1>2, <1>3 DEF ConnInv, StillOpen, Sending
  <1>6. \A d \in BOOLEAN : Ev(c, d) \notin batch'
    BY DEF ConnInv, OneEvent
  <1>7. EventsOpen' /\ OneEvent'
    BY <1>2, <1>6 DEF ConnInv, EventsOpen, OneEvent
  <1> QED BY <1>2, <1>4, <1>5, <1>7 DEF ConnInv

LEMMA ConnFinish ==
    ASSUME DictInv, ConnInv, NEW c \in Clients, NEW a, Finish(c, a),
           Event([of |-> c, error |-> FALSE]), client' = client
    PROVE  ConnInv'
  <1>1. Ev(c, FALSE) \in batch /\ batch' = batch \ {Ev(c, FALSE)}
    BY DEF Event, Ev
  <1>2. /\ fd' = [fd EXCEPT ![c] = NONE] /\ closed' = closed \cup {c}
        /\ UNCHANGED <<backlog, client>>
    BY DEF Finish, Close
  <1> QED BY <1>1, <1>2, ConnClose

LEMMA ConnClient ==
    ASSUME DictInv, ConnInv, NEW c \in Clients, HandleClient(c), client' = client
    PROVE  ConnInv'
  <1>0. Event([of |-> c, error |-> FALSE]) /\ batch' \subseteq batch
    BY DEF HandleClient, NoLine, PartialLine, HandleList, HandleGet, HandleDelete, PartialSize,
           HandlePut, ContinuePut, FirstEvent, Event
  <1>1. CASE NoLine(c) \/ PartialLine(c) \/ HandleList(c) \/ HandleGet(c) \/ HandleDelete(c)
             \/ PartialSize(c)
    <2>1. \E a : Finish(c, a)
      BY <1>1 DEF NoLine, PartialLine, HandleList, HandleGet, HandleDelete, PartialSize
    <2> QED BY <1>0, <2>1, ConnFinish
  <1>2. CASE HandlePut(c) \/ ContinuePut(c)
    <2>1. PICK e, dir, blocks, kept : ReceiveData(c, e, dir, blocks, kept)
      BY <1>2 DEF HandlePut, ContinuePut
    <2>2. CASE AtEnd(c)
      <3>1. \E a : Finish(c, a)
        BY <2>1, <2>2 DEF ReceiveData
      <3> QED BY <1>0, <3>1, ConnFinish
    <2>3. CASE ~AtEnd(c)
      <3>1. UNCHANGED <<fd, backlog, closed>>
        BY <2>1, <2>3 DEF ReceiveData
      <3> QED BY <1>0, <3>1, ConnFrame
    <2> QED BY <2>2, <2>3
  <1> QED BY <1>1, <1>2 DEF HandleClient

LEMMA ConnExit == ASSUME DictInv, ConnInv, Exit, client' = client PROVE ConnInv'
  <1>1. /\ fd' = [c \in Clients |-> NONE] /\ batch' = {} /\ backlog' = << >>
        /\ closed' = closed \cup {c \in Clients : Accepted(c)} \cup Range(backlog)
    BY DEF Exit
  <1>2. \A c \in Clients : ~Waiting(c)'
    BY <1>1 DEF Waiting
  <1>3. \A c \in Clients : Waiting(c) <=> c \in Range(backlog)
    BY DEF DictInv, Waiting, Range
  <1>4. FdType' /\ Apart' /\ EventsOpen' /\ OneEvent'
    BY <1>1 DEF FdType, Apart, EventsOpen, OneEvent
  <1>5. Sending'
    BY <1>1, <1>3 DEF ConnInv, Sending, Accepted
  <1>6. StillOpen'
    BY <1>1, <1>2, <1>3 DEF ConnInv, StillOpen, DictInv, Accepted
  <1> QED BY <1>4, <1>5, <1>6 DEF ConnInv

\* accept() gives every connection a descriptor nobody holds.
LEMMA AcceptedFree ==
    ASSUME DictInv, ConnInv, HandleAccept
    PROVE  /\ \A c \in Clients : ~Waiting(c) => fd'[c] = fd[c]
           /\ \A c \in Clients : Waiting(c) => /\ fd'[c] # NONE /\ fd'[c] \in Descriptors
                                               /\ \A x \in Clients : fd[x] # fd'[c]
           /\ \A c, x \in Clients : Waiting(c) /\ Waiting(x) /\ c # x => fd'[c] # fd'[x]
  <1>1. PICK new \in [DOMAIN backlog -> FreeDescriptors] :
          /\ LowestFirst(new)
          /\ fd' = [c \in Clients |-> IF c \in Range(backlog)
                                      THEN new[CHOOSE i \in DOMAIN backlog : backlog[i] = c]
                                      ELSE fd[c]]
    BY DEF HandleAccept
  <1> DEFINE at(c) == CHOOSE i \in DOMAIN backlog : backlog[i] = c
  <1>3. \A c \in Clients : Waiting(c) <=> c \in Range(backlog)
    BY DEF DictInv, Waiting, Range
  <1>4. \A c \in Clients : Waiting(c) => at(c) \in 1 .. Len(backlog) /\ backlog[at(c)] = c
    BY DEF DictInv, Waiting
  <1> HIDE DEF at
  <1>5. \A c \in Clients : fd'[c] = IF Waiting(c) THEN new[at(c)] ELSE fd[c]
    BY <1>1, <1>3 DEF at
  <1>6. \A c \in Clients : Waiting(c) => new[at(c)] \in FreeDescriptors
    BY <1>1, <1>4 DEF DictInv
  <1>7. \A c \in Clients : Waiting(c) => /\ fd'[c] # NONE /\ fd'[c] \in Descriptors
                                         /\ \A x \in Clients : fd[x] # fd'[c]
    BY <1>5, <1>6, NoneAssumption DEF FreeDescriptors, ConnInv, FdType, Range
  <1>8. ASSUME NEW c \in Clients, NEW x \in Clients, Waiting(c), Waiting(x), c # x
        PROVE  fd'[c] # fd'[x]
    <2>1. \A i, j \in 1 .. Len(backlog) : j < i => new[i] # new[j]
      BY <1>1 DEF LowestFirst, DictInv
    <2>2. at(c) # at(x) /\ at(c) \in 1 .. Len(backlog) /\ at(x) \in 1 .. Len(backlog)
      BY <1>4, <1>8
    <2>3. at(c) < at(x) \/ at(x) < at(c)
      BY <2>2 DEF DictInv
    <2> QED BY <1>5, <1>8, <2>1, <2>2, <2>3
  <1> QED BY <1>5, <1>7, <1>8

LEMMA ConnAccept == ASSUME DictInv, ConnInv, HandleAccept, client' = client PROVE ConnInv'
  <1>1. /\ backlog' = << >> /\ batch' \subseteq batch /\ closed' = closed
    BY DEF HandleAccept, Event
  <1>2. \A c \in Clients : ~Waiting(c)'
    BY <1>1 DEF Waiting
  <1>3. FdType'
    <2>1. DOMAIN fd' = Clients /\ fd' = [c \in Clients |-> fd'[c]]
      BY DEF HandleAccept
    <2>2. \A c \in Clients : fd'[c] \in Descriptors \cup {NONE}
      BY AcceptedFree DEF ConnInv, FdType
    <2> QED BY <2>1, <2>2 DEF FdType
  <1>4. Apart'
    BY AcceptedFree DEF ConnInv, Apart
  <1>5. StillOpen' /\ Sending'
    BY <1>1, <1>2, AcceptedFree DEF ConnInv, StillOpen, Sending, DictInv
  <1>6. EventsOpen' /\ OneEvent'
    BY <1>1, AcceptedFree DEF ConnInv, EventsOpen, OneEvent
  <1> QED BY <1>3, <1>4, <1>5, <1>6 DEF ConnInv

LEMMA ConnWait == ASSUME ConnInv, EpollWaitReturns, client' = client PROVE ConnInv'
  <1>1. batch' = Ready /\ UNCHANGED <<fd, backlog, closed>>
    BY DEF EpollWaitReturns
  <1>2. ASSUME NEW c \in Clients, NEW b \in BOOLEAN, Ev(c, b) \in Ready
        PROVE  fd[c] # NONE /\ (b <=> c \in reset)
    <2>1. Ev(c, b) # [of |-> LISTEN, error |-> FALSE]
      BY EvApart DEF Ev
    <2>2. PICK x : Accepted(x) /\ Ev(c, b) = [of |-> x, error |-> x \in reset]
      BY <1>2, <2>1 DEF Ready
    <2>3. c = x /\ b = (x \in reset)
      BY <2>2 DEF Ev
    <2> QED BY <2>2, <2>3 DEF Accepted
  <1>3. EventsOpen' /\ OneEvent'
    BY <1>1, <1>2 DEF EventsOpen, OneEvent
  <1>4. \A c \in Clients : Waiting(c)' <=> Waiting(c)
    BY <1>1 DEF Waiting
  <1>5. FdType' /\ Apart' /\ StillOpen' /\ Sending'
    BY <1>1, <1>4 DEF ConnInv, FdType, Apart, StillOpen, Sending
  <1> QED BY <1>3, <1>5 DEF ConnInv

LEMMA ConnServer == ASSUME DictInv, ConnInv, ServerStep, client' = client PROVE ConnInv'
  <1>1. CASE SessionEnds
    BY <1>1, ConnExit DEF SessionEnds
  <1>2. ASSUME NEW c \in Clients, HandleError(c) PROVE ConnInv'
    <2>1. Ev(c, TRUE) \in batch /\ batch' = batch \ {Ev(c, TRUE)}
      BY <1>2 DEF HandleError, Event, Ev
    <2>2. /\ fd' = [fd EXCEPT ![c] = NONE] /\ closed' = closed \cup {c}
          /\ UNCHANGED <<backlog, client>>
      BY <1>2 DEF HandleError, Close
    <2> QED BY <2>1, <2>2, ConnClose
  <1> QED BY <1>1, <1>2, ConnWait, ConnAccept, ConnClient DEF ServerStep

LEMMA ConnClients ==
    ASSUME DictInv, ConnInv, CallsInv, NEW c \in Clients, ClientStep(c) \/ Leave(c)
    PROVE  ConnInv'
  <1>1. CASE Connect(c)
    <2>1. /\ client[c] = "new" /\ client' = [client EXCEPT ![c] = "sending"]
          /\ backlog' = Append(backlog, c) /\ UNCHANGED <<fd, closed, batch>>
      BY <1>1 DEF Connect, Become, server_vars
    <2>2. /\ client'[c] = "sending" /\ \A x \in Clients : x # c => client'[x] = client[x]
      BY <2>1 DEF DictInv
    <2>3. /\ Waiting(c)' /\ \A x \in Clients : x # c => (Waiting(x)' <=> Waiting(x))
      <3>1. /\ backlog \in Seq(Clients) /\ Len(backlog') = Len(backlog) + 1
            /\ backlog'[Len(backlog) + 1] = c
            /\ \A i \in 1 .. Len(backlog) : backlog'[i] = backlog[i]
        BY <2>1 DEF DictInv
      <3>2. \A i \in 1 .. Len(backlog) + 1 : i \in 1 .. Len(backlog) \/ i = Len(backlog) + 1
        BY <3>1
      <3>3. 1 .. Len(backlog) \subseteq 1 .. Len(backlog) + 1
            /\ Len(backlog) + 1 \in 1 .. Len(backlog) + 1
        BY <3>1
      <3> QED BY <3>1, <3>2, <3>3 DEF Waiting
    <2>4. FdType' /\ Apart' /\ EventsOpen' /\ OneEvent'
      BY <2>1 DEF ConnInv, FdType, Apart, EventsOpen, OneEvent
    <2>5. StillOpen'
      BY <2>1, <2>2, <2>3 DEF ConnInv, StillOpen
    <2>6. Sending'
      BY <2>1, <2>2, <2>3 DEF ConnInv, Sending
    <2> QED BY <2>4, <2>5, <2>6 DEF ConnInv
  <1>2. CASE ~Connect(c)
    <2>1. UNCHANGED <<fd, backlog, closed, batch>>
      BY <1>2 DEF ClientStep, ConnectFails, Send, Shutdown, ReadAnswer, CutOff, Leave,
                  server_vars, socket_vars
    <2>2. Judge(c, answer[c]) \notin {"new", "sending"}
      BY JudgeEnds DEF Ends
    <2>3. client' = client \/ \E s : client' = [client EXCEPT ![c] = s] /\ s \notin {"new", "sending"}
      BY <1>2, <2>2 DEF ClientStep, ConnectFails, Send, Shutdown, ReadAnswer, CutOff, Leave, Become
    <2>4. \A x \in Clients : /\ client'[x] = "new" => client[x] = "new"
                             /\ client'[x] = "sending" => client[x] = "sending"
      BY <2>3 DEF DictInv
    <2> QED BY <2>1, <2>4, ConnFrame
  <1> QED BY <1>1, <1>2

LEMMA ConnNext == ASSUME DictInv, ConnInv, CallsInv, [Next]_vars PROVE ConnInv'
  <1>1. CASE UNCHANGED vars
    BY <1>1, ConnFrame DEF vars
  <1>2. CASE Interrupt /\ UNCHANGED <<client, sent, local>>
    <2>1. CASE Exit
      BY <1>2, <2>1, ConnExit
    <2>2. CASE ~Exit
      BY <1>2, <2>2, ConnFrame DEF Interrupt, socket_vars
    <2> QED BY <2>1, <2>2
  <1>3. CASE ServerSteps
    BY <1>3, ConnServer DEF ServerSteps
  <1> QED BY <1>1, <1>2, <1>3, ConnClients DEF Next
-----------------------------------------------------------------------------
(* The data: what is received, counted and stored.                         *)

Pieces == {Line(c) : c \in Clients} \cup {Eol(c) : c \in Clients} \cup {Size(c) : c \in Clients}
          \cup {<<c, "data", i>> : c \in Clients, i \in Nat}

RecvType == recv \in [Clients -> Seq(Pieces)]
SentType == sent \in [Clients -> Nat]
DirectoryType(dir) == \A n \in DOMAIN dir : dir[n] \in Seq(Pieces)
EntriesType == \A d \in Descriptors : clients[d] # NONE => clients[d] \in Entries

DataInv == RecvType /\ SentType /\ DirectoryType(directory) /\ EntriesType

LEMMA MessageType ==
    ASSUME CallsInv, NEW c \in Clients
    PROVE  /\ Message(c) \in Seq(Pieces) /\ Len(Message(c)) \in Nat
           /\ request[c].verb = "PUT" =>
                /\ request[c].blocks \in Nat
                /\ Data(c) \in Seq(Pieces) /\ Len(Data(c)) = request[c].blocks
                /\ Len(Message(c)) = 3 + request[c].blocks
                /\ \A i, j \in Nat : i \in 1 .. j + 1 /\ j + 3 <= Len(Message(c)) =>
                      SubSeq(Message(c), i + 3, j + 3) = SubSeq(Data(c), i, j)
  <1>1. Line(c) \in Pieces /\ Eol(c) \in Pieces /\ Size(c) \in Pieces
        /\ \A i \in Nat : <<c, "data", i>> \in Pieces
    BY DEF Pieces
  <1> HIDE DEF Pieces, Line, Eol, Size
  <1>2. CASE request[c].verb # "PUT"
    <2>1. Message(c) = <<Line(c), Eol(c)>>
      BY <1>2 DEF Message
    <2> QED BY <1>1, <1>2, <2>1
  <1>3. CASE request[c].verb = "PUT"
    <2>1. request[c].blocks \in Nat /\ request[c] \in Requests
      BY <1>3, RequestsAssumption DEF CallsInv
    <2>2. Data(c) \in Seq(Pieces) /\ Len(Data(c)) = request[c].blocks
      <3>1. \A i \in 1 .. request[c].blocks : <<c, "data", i>> \in Pieces
        BY <1>1, <2>1
      <3> QED BY <2>1, <3>1, IsASeq DEF Data
    <2> HIDE DEF Data
    <2>3. Message(c) = <<Line(c), Eol(c), Size(c)>> \o Data(c)
      BY <1>3 DEF Message
    <2>4. <<Line(c), Eol(c), Size(c)>> \in Seq(Pieces) /\ Len(<<Line(c), Eol(c), Size(c)>>) = 3
      BY <1>1
    <2>5. Message(c) \in Seq(Pieces) /\ Len(Message(c)) = 3 + Len(Data(c))
      BY <2>2, <2>3, <2>4, ConcatProperties
    <2>6. ASSUME NEW i \in Nat, NEW j \in Nat, i \in 1 .. j + 1, j + 3 <= Len(Message(c))
          PROVE  SubSeq(Message(c), i + 3, j + 3) = SubSeq(Data(c), i, j)
      <3>1. j <= Len(Data(c)) /\ i \in 1 .. Len(Data(c)) + 1
        BY <2>1, <2>2, <2>5, <2>6
      <3> QED BY <1>1, <2>2, <2>3, <3>1, AfterThree
    <2>7. Len(Message(c)) = 3 + request[c].blocks /\ Len(Message(c)) \in Nat
      BY <2>1, <2>2, <2>5
    <2>8. \A i, j \in Nat : i \in 1 .. j + 1 /\ j + 3 <= Len(Message(c)) =>
                              SubSeq(Message(c), i + 3, j + 3) = SubSeq(Data(c), i, j)
      BY <2>6
    <2> QED BY <1>3, <2>1, <2>2, <2>5, <2>7, <2>8
  <1> QED BY <1>2, <1>3

LEMMA DataInit == Init => DataInv
  BY DEF Init, ServerInit, DataInv, RecvType, SentType, DirectoryType, EntriesType

\* The event that a handler of a connection handles.
LEMMA OpenEvent ==
    ASSUME ConnInv, NEW c \in Clients, Event([of |-> c, error |-> FALSE])
    PROVE  fd[c] # NONE /\ fd[c] \in Descriptors
  <1>1. Ev(c, FALSE) \in batch
    BY DEF Event, Ev
  <1> QED BY <1>1 DEF ConnInv, FdType, EventsOpen

LEMMA HandlerEvent ==
    ASSUME NEW c \in Clients, HandleClient(c)
    PROVE  Event([of |-> c, error |-> FALSE])
  BY DEF HandleClient, NoLine, PartialLine, HandleList, HandleGet, HandleDelete, PartialSize,
         HandlePut, ContinuePut, FirstEvent

LEMMA WrittenType ==
    ASSUME NEW dir, DirectoryType(dir), NEW n, NEW blocks \in Seq(Pieces)
    PROVE  DirectoryType(Truncate(dir, n)) /\ DirectoryType(AppendTo(dir, n, blocks))
  <1>1. DirectoryType(Truncate(dir, n))
    BY DEF DirectoryType, Truncate
  <1>2. CASE n \in DOMAIN dir
    <2>1. AppendTo(dir, n, blocks) = [dir EXCEPT ![n] = dir[n] \o blocks]
      BY <1>2 DEF AppendTo
    <2>2. dir[n] \o blocks \in Seq(Pieces)
      BY <1>2, ConcatProperties DEF DirectoryType
    <2> QED BY <1>1, <2>1, <2>2 DEF DirectoryType
  <1>3. CASE n \notin DOMAIN dir
    BY <1>1, <1>3 DEF AppendTo
  <1> QED BY <1>2, <1>3

LEMMA DataFinish ==
    ASSUME DataInv, DictInv, NEW c \in Clients, NEW a, Finish(c, a), DirectoryType(directory'),
           sent' = sent
    PROVE  DataInv'
  <1>1. /\ recv' = [recv EXCEPT ![c] = <<>>] /\ clients' = [clients EXCEPT ![fd[c]] = NONE]
    BY DEF Finish, Close
  <1>2. RecvType' /\ SentType'
    BY <1>1 DEF DataInv, RecvType, SentType
  <1>3. EntriesType'
    BY <1>1 DEF DataInv, DictInv, EntriesType
  <1> QED BY <1>2, <1>3 DEF DataInv, DirectoryType

LEMMA DataReceive ==
    ASSUME DataInv, DictInv, NEW c \in Clients, NEW e \in Entries, NEW dir, DirectoryType(dir),
           NEW blocks \in Seq(Pieces), NEW kept \in Seq(Pieces),
           ReceiveData(c, e, dir, blocks, kept), sent' = sent
    PROVE  DataInv'
  <1>1. DirectoryType(directory')
    <2>1. directory' = AppendTo(dir, e.filename, kept)
      BY DEF ReceiveData
    <2> QED BY <2>1, WrittenType
  <1>2. CASE AtEnd(c)
    <2>1. \E a : Finish(c, a)
      BY <1>2 DEF ReceiveData
    <2> QED BY <1>1, <2>1, DataFinish
  <1>3. CASE ~AtEnd(c)
    <2>1. /\ recv' = [recv EXCEPT ![c] = <<>>]
          /\ clients' = [clients EXCEPT ![fd[c]] = [e EXCEPT !.bytesfin = @ + Len(blocks)]]
      BY <1>3 DEF ReceiveData
    <2>2. [e EXCEPT !.bytesfin = @ + Len(blocks)] \in Entries
      <3>1. Len(blocks) \in Nat
        BY LenProperties
      <3> QED BY <3>1 DEF Entries
    <2>3. RecvType' /\ SentType'
      BY <2>1 DEF DataInv, RecvType, SentType
    <2>4. EntriesType'
      BY <2>1, <2>2 DEF DataInv, DictInv, EntriesType
    <2> QED BY <1>1, <2>3, <2>4 DEF DataInv, DirectoryType
  <1> QED BY <1>2, <1>3

\* What a PUT enters in the dictionary.
LEMMA EntryType ==
    ASSUME CallsInv, NEW c \in Clients, request[c].verb = "PUT", NEW k \in Nat
    PROVE  Entry(c, request[c].name, request[c].blocks, k) \in Entries
  <1>1. request[c] \in Requests /\ request[c].blocks \in Nat
    BY RequestsAssumption DEF CallsInv
  <1> QED BY <1>1 DEF Entry, Entries

\* The two ways into ReceiveData: what is written is what was read, in a file
\* that could be opened, unless a failing call has marked the upload.
LEMMA PutReceives ==
    ASSUME NEW c \in Clients, HandlePut(c)
    PROVE  LET n == request[c].name
               blocks == SubSeq(recv[c], 4, Len(recv[c]))
           IN  \E dir, kept :
                 /\ dir = directory \/ dir = Truncate(directory, n)
                 /\ kept \in Survivors(blocks) /\ (dir # Truncate(directory, n) => kept = << >>)
                 /\ ReceiveData(c, Entry(c, n, request[c].blocks, 0), dir, blocks, kept)
                 /\ c \notin touched' => dir = Truncate(directory, n) /\ kept = blocks
  <1> DEFINE n == request[c].name
             blocks == SubSeq(recv[c], 4, Len(recv[c]))
             dir(opened) == IF opened THEN Truncate(directory, n) ELSE directory
  <1>1. PICK opened \in BOOLEAN :
          \E kept \in Survivors(blocks) :
            /\ ~opened => kept = << >>
            /\ touched' = touched \cup Uploading(c, n) \cup Failed(c, ~opened \/ kept # blocks)
            /\ ReceiveData(c, Entry(c, n, request[c].blocks, 0), dir(opened), blocks, kept)
    BY DEF HandlePut, Entry
  <1>2. PICK kept \in Survivors(blocks) :
            /\ ~opened => kept = << >>
            /\ touched' = touched \cup Uploading(c, n) \cup Failed(c, ~opened \/ kept # blocks)
            /\ ReceiveData(c, Entry(c, n, request[c].blocks, 0), dir(opened), blocks, kept)
    BY <1>1
  <1>3. c \notin touched' => opened /\ kept = blocks
    BY <1>2 DEF Failed
  <1>4. (opened => dir(opened) = Truncate(directory, n)) /\ (~opened => dir(opened) = directory)
    OBVIOUS
  <1> HIDE DEF blocks, dir
  <1> QED BY <1>2, <1>3, <1>4 DEF blocks

LEMMA ContinueReceives ==
    ASSUME NEW c \in Clients, ContinuePut(c)
    PROVE  \E kept \in Survivors(recv[c]) :
              /\ clients[fd[c]] # NONE
              /\ ReceiveData(c, clients[fd[c]], directory, recv[c], kept)
              /\ c \notin touched' => kept = recv[c]
  <1>1. PICK kept \in Survivors(recv[c]) :
          /\ touched' = touched \cup (IF recv[c] = <<>> THEN {}
                                     ELSE Uploading(c, clients[fd[c]].filename))
                               \cup Failed(c, kept # recv[c])
          /\ ReceiveData(c, clients[fd[c]], directory, recv[c], kept)
    BY DEF ContinuePut
  <1>2. c \notin touched' => kept = recv[c]
    BY <1>1 DEF Failed
  <1>3. clients[fd[c]] # NONE
    BY DEF ContinuePut, HasEntry
  <1> QED BY <1>1, <1>2, <1>3

LEMMA DataClient ==
    ASSUME CallsInv, DataInv, DictInv, ConnInv, NEW c \in Clients, HandleClient(c), sent' = sent
    PROVE  DataInv'
  <1>0. fd[c] \in Descriptors
    BY HandlerEvent, OpenEvent
  <1>1. CASE NoLine(c) \/ PartialLine(c) \/ HandleList(c) \/ HandleGet(c) \/ HandleDelete(c)
             \/ PartialSize(c)
    <2>1. \E a : Finish(c, a)
      BY <1>1 DEF NoLine, PartialLine, HandleList, HandleGet, HandleDelete, PartialSize
    <2>2. directory' = directory \/ \E n : Unlink(n)
      BY <1>1 DEF NoLine, PartialLine, HandleList, HandleGet, HandleDelete, PartialSize
    <2>3. DirectoryType(directory')
      BY <2>2 DEF DataInv, DirectoryType, Unlink
    <2> QED BY <2>1, <2>3, DataFinish
  <1>2. CASE HandlePut(c)
    <2> DEFINE blocks == SubSeq(recv[c], 4, Len(recv[c]))
    <2>0. request[c].verb = "PUT"
      BY <1>2 DEF HandlePut, LineRead
    <2>1. PICK dir, kept :
            /\ dir = directory \/ dir = Truncate(directory, request[c].name)
            /\ kept \in Survivors(blocks)
            /\ ReceiveData(c, Entry(c, request[c].name, request[c].blocks, 0), dir, blocks, kept)
      BY <1>2, PutReceives
    <2>2. blocks \in Seq(Pieces)
      BY DEF DataInv, RecvType
    <2> HIDE DEF blocks
    <2>5. kept \in Seq(Pieces)
      BY <2>1, <2>2, SurvivorsType
    <2>3. DirectoryType(dir)
      BY <2>1, <2>2, WrittenType DEF DataInv
    <2>4. Entry(c, request[c].name, request[c].blocks, 0) \in Entries
      BY <2>0, EntryType
    <2> QED BY <2>1, <2>2, <2>3, <2>4, <2>5, DataReceive
  <1>3. CASE ContinuePut(c)
    <2>1. PICK kept \in Survivors(recv[c]) :
            /\ clients[fd[c]] # NONE
            /\ ReceiveData(c, clients[fd[c]], directory, recv[c], kept)
      BY <1>3, ContinueReceives
    <2>2. clients[fd[c]] \in Entries /\ recv[c] \in Seq(Pieces) /\ DirectoryType(directory)
      BY <1>0, <2>1 DEF DataInv, EntriesType, RecvType
    <2>3. kept \in Seq(Pieces)
      BY <2>2, SurvivorsType
    <2> QED BY <2>1, <2>2, <2>3, DataReceive
  <1> QED BY <1>1, <1>2, <1>3 DEF HandleClient

LEMMA DataExit == ASSUME DataInv, Exit, sent' = sent PROVE DataInv'
  <1>1. /\ recv' = [c \in Clients |-> <<>>] /\ clients' = [d \in Descriptors |-> NONE]
        /\ directory' = Unlinked
    BY DEF Exit
  <1>2. DirectoryType(directory')
    BY <1>1 DEF DataInv, DirectoryType, Unlinked
  <1>3. RecvType' /\ SentType' /\ EntriesType'
    BY <1>1 DEF DataInv, RecvType, SentType, EntriesType
  <1> QED BY <1>2, <1>3 DEF DataInv, DirectoryType

LEMMA DataFrame ==
    ASSUME DataInv, UNCHANGED <<recv, sent, directory, clients>> PROVE DataInv'
  BY DEF DataInv, RecvType, SentType, DirectoryType, EntriesType

LEMMA DataSend == ASSUME CallsInv, DataInv, NEW c \in Clients, Send(c) PROVE DataInv'
  <1>1. PICK upto \in sent[c] + 1 .. Len(Message(c)) :
          /\ sent' = [sent EXCEPT ![c] = upto]
          /\ recv' = [recv EXCEPT ![c] = @ \o SubSeq(Message(c), sent[c] + 1, upto)]
    BY DEF Send
  <1>2. sent[c] \in Nat /\ upto \in Nat /\ recv[c] \in Seq(Pieces)
    BY <1>1, MessageType DEF DataInv, SentType, RecvType
  <1>3. SubSeq(Message(c), sent[c] + 1, upto) \in Seq(Pieces)
    <2>1. \A i \in sent[c] + 1 .. upto : Message(c)[i] \in Pieces
      <3>1. Message(c) \in Seq(Pieces) /\ Len(Message(c)) \in Nat
        BY MessageType
      <3>2. \A i \in 1 .. Len(Message(c)) : Message(c)[i] \in Pieces
        BY <3>1
      <3> QED BY <1>1, <1>2, <3>1, <3>2
    <2> QED BY <1>2, <2>1, SubSeqProperties
  <1>4. recv[c] \o SubSeq(Message(c), sent[c] + 1, upto) \in Seq(Pieces)
    BY <1>2, <1>3, ConcatProperties
  <1>5. RecvType' /\ SentType'
    BY <1>1, <1>2, <1>4 DEF DataInv, RecvType, SentType
  <1>6. UNCHANGED <<directory, clients>>
    BY DEF Send, server_vars
  <1> QED BY <1>5, <1>6 DEF DataInv, DirectoryType, EntriesType

LEMMA DataNext == ASSUME CallsInv, DataInv, DictInv, ConnInv, [Next]_vars PROVE DataInv'
  <1>1. CASE UNCHANGED vars
    BY <1>1, DataFrame DEF vars
  <1>2. CASE Interrupt /\ UNCHANGED <<client, sent, local>>
    <2>1. CASE Exit
      BY <1>2, <2>1, DataExit
    <2>2. CASE ~Exit
      BY <1>2, <2>2, DataFrame DEF Interrupt, socket_vars
    <2> QED BY <2>1, <2>2
  <1>3. CASE ServerSteps
    <2>1. sent' = sent
      BY <1>3 DEF ServerSteps
    <2>2. CASE SessionEnds
      BY <2>1, <2>2, DataExit DEF SessionEnds
    <2>3. CASE EpollWaitReturns \/ HandleAccept
      BY <2>1, <2>3, DataFrame DEF EpollWaitReturns, HandleAccept
    <2>4. ASSUME NEW c \in Clients, HandleError(c) PROVE DataInv'
      <3>1. recv' = [recv EXCEPT ![c] = <<>>] /\ UNCHANGED <<directory, clients>>
        BY <2>4 DEF HandleError, Close
      <3> QED BY <2>1, <3>1 DEF DataInv, RecvType, SentType, DirectoryType, EntriesType
    <2> QED BY <1>3, <2>1, <2>2, <2>3, <2>4, DataClient DEF ServerSteps, ServerStep
  <1>4. ASSUME NEW c \in Clients, ClientStep(c) \/ Leave(c) PROVE DataInv'
    <2>1. CASE ~Send(c)
      BY <1>4, <2>1, DataFrame DEF ClientStep, Connect, ConnectFails, Shutdown, ReadAnswer, CutOff,
                                   Leave, server_vars, socket_vars
    <2> QED BY <2>1, DataSend
  <1> QED BY <1>1, <1>2, <1>3, <1>4 DEF Next
-----------------------------------------------------------------------------
(* An upload on its way: every piece that arrived is counted or waits.     *)

HoldsEntry(c) == fd[c] # NONE /\ clients[fd[c]] # NONE
Uploads(c) == HoldsEntry(c) /\ clients[fd[c]].by = c

\* Of a PUT, k blocks have been read and counted; the rest of what arrived waits.
Counts(c, k) == /\ clients[fd[c]] = Entry(c, request[c].name, request[c].blocks, k)
                /\ request[c].verb = "PUT"
                /\ k + 3 <= sent[c]
                /\ recv[c] = SubSeq(Message(c), k + 4, sent[c])

\* The inductive invariant of a connection that is not closed.  Nothing is said
\* of one whose descriptor has the entry of an earlier connection.
Stream(c) == c \notin closed =>
               /\ sent[c] <= Len(Message(c))
               /\ fd[c] = NONE /\ ~Waiting(c) => sent[c] = 0
               /\ ~HoldsEntry(c) => recv[c] = SubSeq(Message(c), 1, sent[c])
               /\ Uploads(c) => \E k \in Nat : Counts(c, k)
StreamInv == \A c \in Clients : Stream(c)

LEMMA StreamInit == Init => CallsInv /\ StreamInv
  <1> SUFFICES ASSUME Init PROVE CallsInv /\ StreamInv
    OBVIOUS
  <1>1. CallsInv
    BY CallsInit
  <1>2. ASSUME NEW c \in Clients PROVE Stream(c)
    <2>1. fd[c] = NONE /\ sent[c] = 0 /\ recv[c] = << >>
      BY DEF Init, ServerInit
    <2>2. SubSeq(Message(c), 1, 0) = << >>
      BY SubSeqEmpty
    <2>3. Len(Message(c)) \in Nat
      BY <1>1, MessageType
    <2> QED BY <2>1, <2>2, <2>3 DEF Stream, HoldsEntry, Uploads
  <1> QED BY <1>1, <1>2 DEF StreamInv

\* A connection the step leaves alone.
LEMMA StreamFrame ==
    ASSUME NEW c \in Clients, Stream(c), request' = request,
           fd'[c] = fd[c], fd[c] # NONE => clients'[fd[c]] = clients[fd[c]],
           recv'[c] = recv[c], sent'[c] = sent[c], Waiting(c) => Waiting(c)',
           c \notin closed' => c \notin closed
    PROVE  Stream(c)'
  <1>1. Message(c)' = Message(c)
    BY DEF Message, Data
  <1>2. (HoldsEntry(c)' <=> HoldsEntry(c)) /\ (Uploads(c)' <=> Uploads(c))
    BY DEF HoldsEntry, Uploads
  <1>3. \A k \in Nat : Uploads(c) => (Counts(c, k)' <=> Counts(c, k))
    BY <1>1 DEF Counts, Uploads, HoldsEntry
  <1> QED BY <1>1, <1>2, <1>3 DEF Stream

\* The others, when the descriptor of c is closed or its entry changes.
LEMMA StreamOthers ==
    ASSUME StreamInv, ConnInv, DictInv, NEW c \in Clients, fd[c] # NONE, NEW v,
           fd' = fd \/ fd' = [fd EXCEPT ![c] = NONE],
           clients' = clients \/ clients' = [clients EXCEPT ![fd[c]] = v],
           recv' = [recv EXCEPT ![c] = <<>>], recv \in [Clients -> Seq(Pieces)],
           closed \subseteq closed', UNCHANGED <<request, sent, backlog>>
    PROVE  \A x \in Clients : x # c => Stream(x)'
  <1> SUFFICES ASSUME NEW x \in Clients, x # c PROVE Stream(x)'
    OBVIOUS
  <1>1. fd'[x] = fd[x] /\ recv'[x] = recv[x]
    BY DEF ConnInv, FdType
  <1>2. fd[x] # NONE => clients'[fd[x]] = clients[fd[x]]
    <2>1. fd[x] # NONE => fd[x] # fd[c] /\ fd[x] \in Descriptors
      BY DEF ConnInv, Apart, FdType
    <2> QED BY <2>1 DEF DictInv
  <1>3. Waiting(x) => Waiting(x)'
    BY DEF Waiting
  <1>4. Stream(x) /\ (x \notin closed' => x \notin closed) /\ sent'[x] = sent[x]
    BY DEF StreamInv
  <1> QED BY <1>1, <1>2, <1>3, <1>4, StreamFrame

LEMMA StreamFinish ==
    ASSUME StreamInv, ConnInv, DictInv, DataInv, NEW c \in Clients, fd[c] # NONE, NEW a, Finish(c, a),
           sent' = sent
    PROVE  StreamInv'
  <1>1. /\ fd' = [fd EXCEPT ![c] = NONE] /\ clients' = [clients EXCEPT ![fd[c]] = NONE]
        /\ recv' = [recv EXCEPT ![c] = <<>>] /\ closed' = closed \cup {c}
        /\ UNCHANGED <<request, sent, backlog>>
    BY DEF Finish, Close
  <1>2. recv \in [Clients -> Seq(Pieces)] /\ closed \subseteq closed'
    BY <1>1 DEF DataInv, RecvType
  <1>3. \A x \in Clients : x # c => Stream(x)'
    BY <1>1, <1>2, StreamOthers
  <1>4. Stream(c)'
    BY <1>1 DEF Stream
  <1> QED BY <1>3, <1>4 DEF StreamInv

\* What a first read of a PUT finds after the line and the size.
LEMMA FirstBlocks ==
    ASSUME CallsInv, StreamInv, ConnInv, DataInv, NEW c \in Clients, HandlePut(c)
    PROVE  LET blocks == SubSeq(recv[c], 4, Len(recv[c]))
           IN  /\ c \notin closed /\ fd[c] \in Descriptors /\ request[c].verb = "PUT"
               /\ sent[c] \in 3 .. Len(Message(c)) /\ Len(recv[c]) = sent[c]
               /\ blocks \in Seq(Pieces) /\ Len(blocks) = sent[c] - 3
               /\ blocks = SubSeq(Data(c), 1, sent[c] - 3)
  <1>1. /\ fd[c] # NONE /\ fd[c] \in Descriptors /\ clients[fd[c]] = NONE /\ Len(recv[c]) > 2
        /\ request[c].verb = "PUT"
    BY OpenEvent DEF HandlePut, FirstEvent, HasEntry, LineRead
  <1>2. c \notin closed
    BY <1>1 DEF ConnInv, StillOpen
  <1>3. recv[c] = SubSeq(Message(c), 1, sent[c]) /\ sent[c] <= Len(Message(c)) /\ sent[c] \in Nat
    BY <1>1, <1>2 DEF StreamInv, Stream, HoldsEntry, DataInv, SentType
  <1>4. Message(c) \in Seq(Pieces) /\ Len(Message(c)) \in Nat
    BY MessageType
  <1> DEFINE M == Message(c)
             n == sent[c]
  <1> HIDE DEF M, n
  <1>5. M \in Seq(Pieces) /\ n \in Nat /\ n <= Len(M) /\ recv[c] = SubSeq(M, 1, n)
    BY <1>3, <1>4 DEF M, n
  <1>6. Len(recv[c]) = n
    BY <1>5
  <1>7. n >= 3
    BY <1>1, <1>5, <1>6
  <1>8. /\ SubSeq(recv[c], 4, n) = SubSeq(M, 4, n) /\ Len(SubSeq(M, 4, n)) = n - 3
        /\ SubSeq(M, 4, n) \in Seq(Pieces)
    <2>1. recv[c] \in Seq(Pieces) /\ \A i \in 1 .. n : recv[c][i] = M[i]
      BY <1>5, <1>6
    <2>2. \A i \in 4 .. n : M[i] \in Pieces
      BY <1>5
    <2>3. \A i \in 4 .. n : recv[c][i] \in Pieces
      BY <2>1, <2>2, <1>7
    <2>4. /\ SubSeq(M, 4, n) \in Seq(Pieces)
          /\ Len(SubSeq(M, 4, n)) = IF 4 <= n THEN n - 4 + 1 ELSE 0
          /\ \A i \in 1 .. n - 4 + 1 : SubSeq(M, 4, n)[i] = M[4 + i - 1]
      BY <1>5, <2>2, SubSeqProperties
    <2>5. /\ SubSeq(recv[c], 4, n) \in Seq(Pieces)
          /\ Len(SubSeq(recv[c], 4, n)) = IF 4 <= n THEN n - 4 + 1 ELSE 0
          /\ \A i \in 1 .. n - 4 + 1 : SubSeq(recv[c], 4, n)[i] = recv[c][4 + i - 1]
      BY <1>5, <2>3, SubSeqProperties
    <2>6. Len(SubSeq(M, 4, n)) = n - 3 /\ Len(SubSeq(recv[c], 4, n)) = n - 3
      BY <1>5, <1>7, <2>4, <2>5
    <2>7. \A i \in 1 .. n - 3 : SubSeq(M, 4, n)[i] = SubSeq(recv[c], 4, n)[i]
      BY <1>5, <1>7, <2>1, <2>4, <2>5
    <2> QED BY <2>4, <2>5, <2>6, <2>7, SeqEqual
  <1>9. SubSeq(M, 4, n) = SubSeq(Data(c), 1, n - 3)
    <2>1. n - 3 \in Nat /\ 1 \in 1 .. (n - 3) + 1 /\ (n - 3) + 3 = n /\ 1 + 3 = 4
      BY <1>5, <1>7
    <2>2. SubSeq(Message(c), 1 + 3, (n - 3) + 3) = SubSeq(Data(c), 1, n - 3)
      <3>1. \A i, j \in Nat : i \in 1 .. j + 1 /\ j + 3 <= Len(Message(c)) =>
                              SubSeq(Message(c), i + 3, j + 3) = SubSeq(Data(c), i, j)
        BY <1>1, MessageType
      <3>2. (n - 3) + 3 <= Len(Message(c))
        BY <1>5, <2>1 DEF M
      <3> QED BY <2>1, <3>1, <3>2
    <2> QED BY <2>1, <2>2 DEF M
  <1> QED BY <1>1, <1>2, <1>5, <1>6, <1>7, <1>8, <1>9 DEF M, n
LEMMA WithinMessage ==
    \A n, k, b \in Nat : k + 3 <= n /\ n <= 3 + b =>
      /\ n - 3 \in Nat /\ k + 1 \in 1 .. (n - 3) + 1 /\ k + 1 \in Nat
      /\ n - 3 <= b /\ k <= n - 3
      /\ (k + 1) + 3 = k + 4 /\ (n - 3) + 3 = n
  OBVIOUS

\* What a later read finds: the blocks after those that are counted.
LEMMA NextBlocks ==
    ASSUME CallsInv, StreamInv, ConnInv, DataInv, NEW c \in Clients, Uploads(c)
    PROVE  /\ c \notin closed /\ request[c].verb = "PUT" /\ sent[c] \in 3 .. Len(Message(c))
           /\ \E k \in Nat :
                /\ clients[fd[c]] = Entry(c, request[c].name, request[c].blocks, k)
                /\ k <= sent[c] - 3 /\ Len(recv[c]) = sent[c] - 3 - k
                /\ recv[c] = SubSeq(Data(c), k + 1, sent[c] - 3)
                /\ SubSeq(Data(c), 1, k) \o recv[c] = SubSeq(Data(c), 1, sent[c] - 3)
  <1>1. c \notin closed
    BY DEF ConnInv, StillOpen, Uploads, HoldsEntry
  <1>2. PICK k \in Nat : Counts(c, k)
    BY <1>1 DEF StreamInv, Stream
  <1>3. /\ request[c].verb = "PUT" /\ sent[c] \in Nat /\ sent[c] <= Len(Message(c))
        /\ k + 3 <= sent[c] /\ recv[c] = SubSeq(Message(c), k + 4, sent[c])
        /\ clients[fd[c]] = Entry(c, request[c].name, request[c].blocks, k)
    BY <1>1, <1>2 DEF Counts, StreamInv, Stream, DataInv, SentType
  <1>4. /\ Message(c) \in Seq(Pieces) /\ Len(Message(c)) \in Nat
        /\ request[c].blocks \in Nat
        /\ Data(c) \in Seq(Pieces) /\ Len(Data(c)) = request[c].blocks
        /\ Len(Message(c)) = 3 + request[c].blocks
    BY <1>3, MessageType
  <1>5. /\ sent[c] - 3 \in Nat /\ k + 1 \in 1 .. (sent[c] - 3) + 1 /\ k + 1 \in Nat
        /\ sent[c] - 3 <= Len(Data(c)) /\ k <= sent[c] - 3
        /\ (k + 1) + 3 = k + 4 /\ (sent[c] - 3) + 3 = sent[c]
    <2>1. sent[c] \in Nat /\ k \in Nat /\ k + 3 <= sent[c] /\ sent[c] <= 3 + request[c].blocks
          /\ request[c].blocks \in Nat /\ Len(Data(c)) = request[c].blocks
      BY <1>3, <1>4
    <2> QED BY ONLY <2>1, WithinMessage
  <1>6. recv[c] = SubSeq(Data(c), k + 1, sent[c] - 3)
    <2>1. SubSeq(Message(c), (k + 1) + 3, (sent[c] - 3) + 3) = SubSeq(Data(c), k + 1, sent[c] - 3)
      BY <1>3, <1>5, MessageType
    <2> QED BY <1>3, <1>5, <2>1
  <1>7. Len(recv[c]) = sent[c] - 3 - k
    <2>1. \A i \in k + 1 .. sent[c] - 3 : Data(c)[i] \in Pieces
      BY <1>4, <1>5
    <2>2. Len(SubSeq(Data(c), k + 1, sent[c] - 3))
            = IF k + 1 <= sent[c] - 3 THEN sent[c] - 3 - (k + 1) + 1 ELSE 0
      BY <1>5, <2>1, SubSeqProperties
    <2> QED BY <1>5, <1>6, <2>2
  <1>8. SubSeq(Data(c), 1, k) \o SubSeq(Data(c), k + 1, sent[c] - 3) = SubSeq(Data(c), 1, sent[c] - 3)
    <2>1. 1 \in 1 .. Len(Data(c)) + 1 /\ 1 <= k + 1
      BY <1>4
    <2> QED BY <1>4, <1>5, <2>1, Adjacent
  <1>9. sent[c] \in 3 .. Len(Message(c))
    BY <1>3, <1>4
  <1> QED BY <1>1, <1>3, <1>5, <1>6, <1>7, <1>8, <1>9

\* A read that has counted all that arrived.
LEMMA StreamCounted ==
    ASSUME NEW c \in Clients, Stream(c), DataInv, CallsInv, fd[c] # NONE, c \notin closed,
           request[c].verb = "PUT", sent[c] >= 3,
           clients'[fd[c]] = Entry(c, request[c].name, request[c].blocks, sent[c] - 3),
           recv'[c] = << >>, sent'[c] = sent[c], fd'[c] = fd[c], request' = request
    PROVE  Stream(c)'
  <1>1. Message(c)' = Message(c)
    BY DEF Message, Data
  <1>2. sent[c] \in Nat /\ sent[c] <= Len(Message(c)) /\ sent[c] - 3 \in Nat
        /\ (sent[c] - 3) + 3 <= sent[c]
    BY DEF Stream, DataInv, SentType
  <1>3. SubSeq(Message(c), (sent[c] - 3) + 4, sent[c]) = << >>
    BY <1>2, SubSeqEmpty
  <1>4. Counts(c, sent[c] - 3)'
    BY <1>1, <1>2, <1>3 DEF Counts
  <1>5. HoldsEntry(c)'
    <2>1. Entry(c, request[c].name, request[c].blocks, sent[c] - 3) \in Entries
      BY <1>2, EntryType
    <2> QED BY <2>1, EntriesAssumption DEF HoldsEntry
  <1> QED BY <1>1, <1>2, <1>4, <1>5 DEF Stream

LEMMA StreamPut ==
    ASSUME CallsInv, StreamInv, ConnInv, DictInv, DataInv, NEW c \in Clients, HandlePut(c), sent' = sent
    PROVE  StreamInv'
  <1> DEFINE blocks == SubSeq(recv[c], 4, Len(recv[c]))
  <1>1. /\ c \notin closed /\ fd[c] \in Descriptors /\ request[c].verb = "PUT" /\ sent[c] >= 3
        /\ Len(blocks) = sent[c] - 3 /\ sent[c] \in Nat
    BY FirstBlocks DEF DataInv, SentType
  <1>2. PICK dir, kept :
          ReceiveData(c, Entry(c, request[c].name, request[c].blocks, 0), dir, blocks, kept)
    BY PutReceives
  <1>3. fd[c] # NONE
    BY <1>1, NoneAssumption
  <1> HIDE DEF blocks
  <1>4. CASE AtEnd(c)
    <2>1. \E a : Finish(c, a)
      BY <1>2, <1>4 DEF ReceiveData
    <2> QED BY <1>3, <2>1, StreamFinish
  <1>5. CASE ~AtEnd(c)
    <2>1. [Entry(c, request[c].name, request[c].blocks, 0) EXCEPT !.bytesfin = @ + Len(blocks)]
            = Entry(c, request[c].name, request[c].blocks, sent[c] - 3)
      <3>1. 0 + Len(blocks) = sent[c] - 3
        BY <1>1
      <3>2. [Entry(c, request[c].name, request[c].blocks, 0) EXCEPT !.bytesfin = @ + Len(blocks)]
              = Entry(c, request[c].name, request[c].blocks, 0 + Len(blocks))
        BY DEF Entry
      <3> QED BY <3>1, <3>2
    <2>2. /\ clients' = [clients EXCEPT ![fd[c]] = Entry(c, request[c].name, request[c].blocks, sent[c] - 3)]
          /\ recv' = [recv EXCEPT ![c] = <<>>]
          /\ UNCHANGED <<request, sent, fd, backlog, closed>>
      BY <1>2, <1>5, <2>1 DEF ReceiveData
    <2>3. recv \in [Clients -> Seq(Pieces)] /\ closed \subseteq closed'
      BY <2>2 DEF DataInv, RecvType
    <2>4. \A x \in Clients : x # c => Stream(x)'
      BY <1>3, <2>2, <2>3, StreamOthers
    <2>5. clients'[fd[c]] = Entry(c, request[c].name, request[c].blocks, sent[c] - 3)
          /\ recv'[c] = << >> /\ sent'[c] = sent[c] /\ fd'[c] = fd[c] /\ Stream(c)
      BY <1>1, <2>2, <2>3 DEF DictInv, StreamInv
    <2>6. Stream(c)'
      BY <1>1, <1>3, <2>2, <2>5, StreamCounted
    <2> QED BY <2>4, <2>6 DEF StreamInv
  <1> QED BY <1>4, <1>5

LEMMA StreamContinue ==
    ASSUME CallsInv, StreamInv, ConnInv, DictInv, DataInv, NEW c \in Clients, ContinuePut(c), sent' = sent
    PROVE  StreamInv'
  <1>0. PICK kept : ReceiveData(c, clients[fd[c]], directory, recv[c], kept)
    BY ContinueReceives
  <1>1. /\ clients[fd[c]] # NONE /\ ReceiveData(c, clients[fd[c]], directory, recv[c], kept)
        /\ fd[c] # NONE /\ fd[c] \in Descriptors
    BY <1>0, OpenEvent DEF ContinuePut, HasEntry
  <1>2. CASE AtEnd(c)
    <2>1. \E a : Finish(c, a)
      BY <1>1, <1>2 DEF ReceiveData
    <2> QED BY <1>1, <2>1, StreamFinish
  <1>3. CASE ~AtEnd(c)
    <2> DEFINE e == [clients[fd[c]] EXCEPT !.bytesfin = @ + Len(recv[c])]
    <2>1. /\ clients' = [clients EXCEPT ![fd[c]] = e]
          /\ recv' = [recv EXCEPT ![c] = <<>>]
          /\ UNCHANGED <<request, sent, fd, backlog, closed>>
      BY <1>1, <1>3 DEF ReceiveData
    <2>2. recv \in [Clients -> Seq(Pieces)] /\ closed \subseteq closed'
      BY <2>1 DEF DataInv, RecvType
    <2>3. \A x \in Clients : x # c => Stream(x)'
      BY <1>1, <2>1, <2>2, StreamOthers
    <2>4. clients'[fd[c]] = e /\ recv'[c] = << >> /\ sent'[c] = sent[c] /\ fd'[c] = fd[c] /\ Stream(c)
      BY <1>1, <2>1, <2>2 DEF DictInv, StreamInv
    <2>5. CASE Uploads(c)
      <3>1. PICK k \in Nat : /\ clients[fd[c]] = Entry(c, request[c].name, request[c].blocks, k)
                             /\ Len(recv[c]) = sent[c] - 3 - k
        BY <2>5, NextBlocks
      <3>2. c \notin closed /\ request[c].verb = "PUT" /\ sent[c] >= 3 /\ sent[c] \in Nat
        <4>1. sent[c] \in 3 .. Len(Message(c)) /\ Len(Message(c)) \in Nat
          BY <2>5, NextBlocks, MessageType
        <4>2. sent[c] >= 3 /\ sent[c] \in Nat
          BY <4>1
        <4> QED BY <2>5, <4>2, NextBlocks
      <3>3. k + Len(recv[c]) = sent[c] - 3
        BY <3>1, <3>2
      <3>4. e = Entry(c, request[c].name, request[c].blocks, sent[c] - 3)
        <4>1. [Entry(c, request[c].name, request[c].blocks, k) EXCEPT !.bytesfin = @ + Len(recv[c])]
                = Entry(c, request[c].name, request[c].blocks, k + Len(recv[c]))
          BY DEF Entry
        <4> QED BY <3>1, <3>3, <4>1
      <3> HIDE DEF e
      <3>5. Stream(c)'
        BY <1>1, <2>1, <2>4, <3>2, <3>4, StreamCounted
      <3> QED BY <2>3, <3>5 DEF StreamInv
    <2>6. CASE ~Uploads(c)
      <3>1. clients[fd[c]] \in Entries /\ clients[fd[c]].by # c /\ recv[c] \in Seq(Pieces)
        BY <1>1, <2>6 DEF Uploads, HoldsEntry, DataInv, EntriesType, RecvType
      <3>2. e \in Entries /\ e.by # c
        BY <3>1 DEF Entries
      <3>3. HoldsEntry(c)' /\ ~Uploads(c)'
        BY <1>1, <2>1, <2>4, <3>2, EntriesAssumption DEF HoldsEntry, Uploads
      <3>4. Message(c)' = Message(c)
        BY <2>1 DEF Message, Data
      <3>5. Stream(c)'
        BY <1>1, <2>1, <2>4, <3>3, <3>4 DEF Stream
      <3> QED BY <2>3, <3>5 DEF StreamInv
    <2> QED BY <2>5, <2>6
  <1> QED BY <1>2, <1>3

\* A descriptor a connection is given is free; an entry found there is of a
\* connection that was closed.
LEMMA AcceptedStale ==
    ASSUME ConnInv, DictInv, HandleAccept, NEW c \in Clients, Waiting(c)
    PROVE  ~Uploads(c)'
  <1>1. clients' = clients
    BY DEF HandleAccept
  <1>2. fd[c] = NONE /\ c \notin closed
    BY DEF DictInv, ConnInv, StillOpen
  <1>3. fd'[c] # NONE /\ fd'[c] \in Descriptors /\ \A x \in Clients : fd[x] # fd'[c]
    BY AcceptedFree
  <1>4. CASE clients[fd'[c]] = NONE
    BY <1>1, <1>4 DEF Uploads, HoldsEntry
  <1>5. CASE clients[fd'[c]] # NONE
    <2>1. PICK x \in Clients : /\ \E n, s, k : clients[fd'[c]] = Entry(x, n, s, k)
                               /\ fd[x] = fd'[c] \/ (x \in closed /\ x \in reset)
      BY <1>3, <1>5 DEF DictInv, Owned
    <2>2. x # c
      BY <1>2, <1>3, <2>1
    <2>3. clients[fd'[c]].by = x
      BY <2>1 DEF Entry
    <2> QED BY <1>1, <2>2, <2>3 DEF Uploads
  <1> QED BY <1>4, <1>5

LEMMA StreamAccept ==
    ASSUME CallsInv, StreamInv, ConnInv, DictInv, HandleAccept, sent' = sent
    PROVE  StreamInv'
  <1>1. UNCHANGED <<request, clients, recv, closed>>
    BY DEF HandleAccept
  <1>2. \A c \in Clients : c \notin Range(backlog) => fd'[c] = fd[c]
    BY DEF HandleAccept
  <1>3. \A c \in Clients : Waiting(c) <=> c \in Range(backlog)
    BY DEF DictInv, Waiting, Range
  <1>4. ASSUME NEW c \in Clients, ~Waiting(c) PROVE Stream(c)'
    BY <1>1, <1>2, <1>3, <1>4, StreamFrame DEF StreamInv
  <1>5. ASSUME NEW c \in Clients, Waiting(c) PROVE Stream(c)'
    <2>1. fd[c] = NONE /\ c \notin closed /\ ~HoldsEntry(c)
      BY <1>5 DEF DictInv, ConnInv, StillOpen, HoldsEntry
    <2>2. fd'[c] # NONE /\ fd'[c] \in Descriptors /\ \A x \in Clients : fd[x] # fd'[c]
      BY <1>5, AcceptedFree
    <2>3. ~Uploads(c)'
      BY <1>5, AcceptedStale
    <2>4. Message(c)' = Message(c)
      BY <1>1 DEF Message, Data
    <2> QED BY <1>1, <2>1, <2>2, <2>3, <2>4 DEF Stream, StreamInv
  <1> QED BY <1>4, <1>5 DEF StreamInv

LEMMA StreamExit ==
    ASSUME CallsInv, StreamInv, DictInv, Exit, sent' = sent
    PROVE  StreamInv'
  <1>1. /\ fd' = [c \in Clients |-> NONE] /\ recv' = [c \in Clients |-> <<>>]
        /\ closed' = closed \cup {c \in Clients : Accepted(c)} \cup Range(backlog)
        /\ request' = request
    BY DEF Exit
  <1>2. ASSUME NEW c \in Clients, c \notin closed' PROVE Stream(c)'
    <2>1. c \notin closed /\ fd[c] = NONE /\ ~Waiting(c)
      BY <1>1, <1>2 DEF Accepted, DictInv, Waiting, Range
    <2>2. sent[c] = 0
      BY <2>1 DEF StreamInv, Stream
    <2>3. Message(c)' = Message(c)
      BY <1>1 DEF Message, Data
    <2>4. SubSeq(Message(c), 1, 0) = << >> /\ Len(Message(c)) \in Nat
      BY SubSeqEmpty, MessageType
    <2>5. fd'[c] = NONE /\ recv'[c] = << >> /\ sent'[c] = 0
      BY <1>1, <2>2
    <2> QED BY <2>3, <2>4, <2>5 DEF Stream, HoldsEntry, Uploads
  <1> QED BY <1>2 DEF StreamInv, Stream

LEMMA StreamSend ==
    ASSUME CallsInv, StreamInv, ConnInv, DataInv, NEW c \in Clients, Send(c)
    PROVE  StreamInv'
  <1>1. PICK upto \in sent[c] + 1 .. Len(Message(c)) :
          /\ sent' = [sent EXCEPT ![c] = upto]
          /\ recv' = [recv EXCEPT ![c] = @ \o SubSeq(Message(c), sent[c] + 1, upto)]
    BY DEF Send
  <1>2. /\ UNCHANGED <<request, clients, fd, backlog, closed>>
        /\ client[c] = "sending" /\ c \notin closed
    BY DEF Send, server_vars
  <1>3. /\ sent[c] \in Nat /\ upto \in Nat /\ sent[c] <= upto /\ upto <= Len(Message(c))
        /\ Message(c) \in Seq(Pieces) /\ Len(Message(c)) \in Nat
    BY <1>1, MessageType DEF DataInv, SentType
  <1>4. /\ sent'[c] = upto /\ recv'[c] = recv[c] \o SubSeq(Message(c), sent[c] + 1, upto)
        /\ \A x \in Clients : x # c => sent'[x] = sent[x] /\ recv'[x] = recv[x]
    BY <1>1 DEF DataInv, SentType, RecvType
  <1>5. \A x \in Clients : Waiting(x)' <=> Waiting(x)
    BY <1>2 DEF Waiting
  <1>6. ASSUME NEW x \in Clients, x # c PROVE Stream(x)'
    BY <1>2, <1>4, <1>5, <1>6, StreamFrame DEF StreamInv
  <1>7. Stream(c)'
    <2>1. Message(c)' = Message(c)
      BY <1>2 DEF Message, Data
    <2>2. fd[c] # NONE \/ Waiting(c)
      BY <1>2 DEF ConnInv, Sending
    <2>3. /\ HoldsEntry(c)' <=> HoldsEntry(c)
          /\ Uploads(c)' <=> Uploads(c)
      BY <1>2 DEF HoldsEntry, Uploads
    <2>4. ASSUME ~HoldsEntry(c) PROVE recv'[c] = SubSeq(Message(c), 1, upto)
      <3>1. recv[c] = SubSeq(Message(c), 1, sent[c])
        BY <1>2, <2>4 DEF StreamInv, Stream
      <3>2. 1 \in 1 .. Len(Message(c)) + 1 /\ 1 <= sent[c] + 1
        BY <1>3
      <3>3. SubSeq(Message(c), 1, sent[c]) \o SubSeq(Message(c), sent[c] + 1, upto)
              = SubSeq(Message(c), 1, upto)
        BY <1>3, <3>2, Adjacent
      <3> QED BY <1>4, <3>1, <3>3
    <2>5. ASSUME Uploads(c) PROVE \E k \in Nat : Counts(c, k)'
      <3>1. PICK k \in Nat : Counts(c, k)
        BY <1>2, <2>5 DEF StreamInv, Stream
      <3>2. /\ k + 3 <= sent[c] /\ recv[c] = SubSeq(Message(c), k + 4, sent[c])
            /\ clients[fd[c]] = Entry(c, request[c].name, request[c].blocks, k)
            /\ request[c].verb = "PUT"
        BY <3>1 DEF Counts
      <3>3. k + 4 \in 1 .. Len(Message(c)) + 1 /\ k + 4 <= sent[c] + 1 /\ k + 3 <= upto
        BY <1>3, <3>2
      <3>4. recv'[c] = SubSeq(Message(c), k + 4, upto)
        <4>1. SubSeq(Message(c), k + 4, sent[c]) \o SubSeq(Message(c), sent[c] + 1, upto)
                = SubSeq(Message(c), k + 4, upto)
          BY <1>3, <3>3, Adjacent
        <4> QED BY <1>4, <3>2, <4>1
      <3>5. Counts(c, k)'
        BY <1>2, <1>4, <2>1, <3>2, <3>3, <3>4 DEF Counts
      <3> QED BY <3>5
    <2> QED BY <1>2, <1>3, <1>4, <1>5, <2>1, <2>2, <2>3, <2>4, <2>5 DEF Stream
  <1> QED BY <1>6, <1>7 DEF StreamInv
LEMMA StreamClient ==
    ASSUME CallsInv, StreamInv, ConnInv, DictInv, DataInv, NEW c \in Clients, HandleClient(c),
           sent' = sent
    PROVE  StreamInv'
  <1>1. CASE NoLine(c) \/ PartialLine(c) \/ HandleList(c) \/ HandleGet(c) \/ HandleDelete(c)
             \/ PartialSize(c)
    <2>1. \E a : Finish(c, a)
      BY <1>1 DEF NoLine, PartialLine, HandleList, HandleGet, HandleDelete, PartialSize
    <2>2. fd[c] # NONE
      BY HandlerEvent, OpenEvent
    <2> QED BY <2>1, <2>2, StreamFinish
  <1> QED BY <1>1, StreamPut, StreamContinue DEF HandleClient

LEMMA StreamKept ==
    ASSUME StreamInv, UNCHANGED <<request, fd, clients, recv, sent, closed>>,
           \A c \in Clients : Waiting(c) => Waiting(c)'
    PROVE  StreamInv'
  BY StreamFrame DEF StreamInv

LEMMA StreamNext ==
    ASSUME CallsInv, StreamInv, ConnInv, DictInv, DataInv, [Next]_vars
    PROVE  StreamInv'
  <1>0. ASSUME backlog' = backlog PROVE \A c \in Clients : Waiting(c) => Waiting(c)'
    BY <1>0 DEF Waiting
  <1>1. CASE UNCHANGED vars
    <2>1. UNCHANGED <<request, fd, clients, recv, sent, closed, backlog>>
      BY <1>1 DEF vars
    <2> QED BY <1>0, <2>1, StreamKept
  <1>2. CASE Interrupt /\ UNCHANGED <<client, sent, local>>
    <2>1. CASE Exit
      BY <1>2, <2>1, StreamExit
    <2>2. CASE ~Exit
      <3>1. UNCHANGED <<request, fd, clients, recv, sent, closed, backlog>>
        BY <1>2, <2>2 DEF Interrupt, socket_vars
      <3> QED BY <1>0, <3>1, StreamKept
    <2> QED BY <2>1, <2>2
  <1>3. CASE ServerSteps
    <2>1. sent' = sent
      BY <1>3 DEF ServerSteps
    <2>2. CASE SessionEnds
      BY <2>1, <2>2, StreamExit DEF SessionEnds
    <2>3. CASE EpollWaitReturns
      <3>1. UNCHANGED <<request, fd, clients, recv, sent, closed, backlog>>
        BY <2>1, <2>3 DEF EpollWaitReturns
      <3> QED BY <1>0, <3>1, StreamKept
    <2>4. ASSUME NEW c \in Clients, HandleError(c) PROVE StreamInv'
      <3>1. /\ fd' = [fd EXCEPT ![c] = NONE] /\ closed' = closed \cup {c}
            /\ recv' = [recv EXCEPT ![c] = <<>>]
            /\ UNCHANGED <<request, backlog, clients>>
        BY <2>4 DEF HandleError, Close
      <3>2. fd[c] # NONE
        <4>1. Ev(c, TRUE) \in batch
          BY <2>4 DEF HandleError, Event, Ev
        <4> QED BY <4>1 DEF ConnInv, EventsOpen
      <3>3. recv \in [Clients -> Seq(Pieces)] /\ closed \subseteq closed'
        BY <3>1 DEF DataInv, RecvType
      <3>4. \A x \in Clients : x # c => Stream(x)'
        BY <2>1, <3>1, <3>2, <3>3, StreamOthers
      <3>5. Stream(c)'
        BY <3>1 DEF Stream
      <3> QED BY <3>4, <3>5 DEF StreamInv
    <2> QED BY <1>3, <2>1, <2>2, <2>3, <2>4, StreamAccept, StreamClient DEF ServerSteps, ServerStep
  <1>4. ASSUME NEW c \in Clients, ClientStep(c) \/ Leave(c) PROVE StreamInv'
    <2>1. CASE Connect(c)
      <3>1. UNCHANGED <<request, fd, clients, recv, sent, closed>> /\ backlog' = Append(backlog, c)
        BY <2>1 DEF Connect, server_vars
      <3>2. \A x \in Clients : Waiting(x) => Waiting(x)'
        <4>1. /\ Len(backlog') = Len(backlog) + 1 /\ Len(backlog) \in Nat
              /\ \A i \in 1 .. Len(backlog) : backlog'[i] = backlog[i]
          BY <3>1 DEF DictInv
        <4>2. 1 .. Len(backlog) \subseteq 1 .. Len(backlog')
          BY <4>1
        <4> QED BY <4>1, <4>2 DEF Waiting
      <3> QED BY <3>1, <3>2, StreamKept
    <2>2. CASE ~Send(c) /\ ~Connect(c)
      <3>1. UNCHANGED <<request, fd, clients, recv, sent, closed, backlog>>
        BY <1>4, <2>2 DEF ClientStep, ConnectFails, Shutdown, ReadAnswer, CutOff, Leave, server_vars,
                          socket_vars
      <3> QED BY <1>0, <3>1, StreamKept
    <2> QED BY <2>1, <2>2, StreamSend
  <1> QED BY <1>1, <1>2, <1>3, <1>4 DEF Next

-----------------------------------------------------------------------------
(* The file of an upload that no other request has touched.                *)

InFile(c) == Uploads(c) /\ c \notin touched =>
               LET e == clients[fd[c]]
               IN  /\ e.filename \in DOMAIN directory
                   /\ directory[e.filename] = SubSeq(Data(c), 1, e.bytesfin)
InFileInv == \A c \in Clients : InFile(c)

\* Outside the file n the directory stays as it is.
SameFiles == \A m \in DOMAIN directory : m \in DOMAIN directory' /\ directory'[m] = directory[m]
OnlyFile(n) == \A m \in DOMAIN directory : m # n => m \in DOMAIN directory' /\ directory'[m] = directory[m]

\* The uploads of the others: those to the file that changes are marked.
LEMMA InFileOthers ==
    ASSUME InFileInv, NEW x \in Clients, NEW c, x # c, NEW n, request' = request,
           Uploads(x)' => Uploads(x) /\ clients'[fd'[x]] = clients[fd[x]],
           touched \subseteq touched',
           SameFiles \/ (OnlyFile(n) /\ Uploading(c, n) \subseteq touched')
    PROVE  InFile(x)'
  <1> SUFFICES ASSUME Uploads(x)', x \notin touched'
               PROVE  LET e == clients'[fd'[x]]
                      IN  /\ e.filename \in DOMAIN directory'
                          /\ directory'[e.filename] = SubSeq(Data(x), 1, e.bytesfin)
    <2>1. Data(x)' = Data(x)
      BY DEF Data
    <2> QED BY <2>1 DEF InFile
  <1> DEFINE e == clients[fd[x]]
  <1>1. Uploads(x) /\ clients'[fd'[x]] = e /\ x \notin touched
    OBVIOUS
  <1>2. e.filename \in DOMAIN directory /\ directory[e.filename] = SubSeq(Data(x), 1, e.bytesfin)
    BY <1>1 DEF InFileInv, InFile
  <1>3. CASE SameFiles
    BY <1>1, <1>2, <1>3 DEF SameFiles
  <1>4. CASE OnlyFile(n) /\ Uploading(c, n) \subseteq touched'
    <2>1. x \notin Uploading(c, n)
      BY <1>4
    <2>2. e.filename # n
      BY <1>1, <2>1 DEF Uploading, Uploads, HoldsEntry, Accepted, HasEntry
    <2> QED BY <1>1, <1>2, <1>4, <2>2 DEF OnlyFile
  <1> QED BY <1>3, <1>4

\* The others keep descriptor and entry when c's are given up or changed.
LEMMA UploadsOthers ==
    ASSUME ConnInv, DictInv, NEW c \in Clients, fd[c] # NONE, NEW v, NEW x \in Clients, x # c,
           fd' = fd \/ fd' = [fd EXCEPT ![c] = NONE],
           clients' = clients \/ clients' = [clients EXCEPT ![fd[c]] = v]
    PROVE  Uploads(x)' => Uploads(x) /\ clients'[fd'[x]] = clients[fd[x]]
  <1>1. fd'[x] = fd[x]
    BY DEF ConnInv, FdType
  <1>2. fd[x] # NONE => clients'[fd[x]] = clients[fd[x]]
    <2>1. fd[x] # NONE => fd[x] # fd[c] /\ fd[x] \in Descriptors
      BY DEF ConnInv, Apart, FdType
    <2> QED BY <2>1 DEF DictInv
  <1> QED BY <1>1, <1>2 DEF Uploads, HoldsEntry

LEMMA UploadsFinish ==
    ASSUME ConnInv, DictInv, NEW c \in Clients, fd[c] # NONE, NEW a, Finish(c, a)
    PROVE  /\ ~Uploads(c)' /\ request' = request
           /\ \A x \in Clients : x # c =>
                (Uploads(x)' => Uploads(x) /\ clients'[fd'[x]] = clients[fd[x]])
  <1>1. /\ fd' = [fd EXCEPT ![c] = NONE] /\ clients' = [clients EXCEPT ![fd[c]] = NONE]
        /\ request' = request
    BY DEF Finish, Close
  <1>2. fd'[c] = NONE
    BY <1>1 DEF ConnInv, FdType
  <1> QED BY <1>1, <1>2, UploadsOthers DEF Uploads, HoldsEntry

LEMMA UploadsReceive ==
    ASSUME ConnInv, DictInv, NEW c \in Clients, fd[c] # NONE, NEW e, NEW dir, NEW blocks, NEW kept,
           ReceiveData(c, e, dir, blocks, kept)
    PROVE  /\ request' = request
           /\ \A x \in Clients : x # c =>
                (Uploads(x)' => Uploads(x) /\ clients'[fd'[x]] = clients[fd[x]])
  <1>1. CASE AtEnd(c)
    <2>1. \E a : Finish(c, a)
      BY <1>1 DEF ReceiveData
    <2> QED BY <2>1, UploadsFinish
  <1>2. CASE ~AtEnd(c)
    <2>1. /\ clients' = [clients EXCEPT ![fd[c]] = [e EXCEPT !.bytesfin = @ + Len(blocks)]]
          /\ UNCHANGED <<request, fd>>
      BY <1>2 DEF ReceiveData
    <2> QED BY <2>1, UploadsOthers
  <1> QED BY <1>1, <1>2

\* The file after the first read of a PUT, and after a later one.
LEMMA PutWrites ==
    ASSUME CallsInv, StreamInv, ConnInv, DataInv, NEW c \in Clients, HandlePut(c)
    PROVE  LET n == request[c].name
           IN  /\ OnlyFile(n)
               /\ c \notin touched' => /\ n \in DOMAIN directory'
                                       /\ directory'[n] = SubSeq(Data(c), 1, sent[c] - 3)
  <1> DEFINE n == request[c].name
             blocks == SubSeq(recv[c], 4, Len(recv[c]))
  <1>1. blocks \in Seq(Pieces) /\ blocks = SubSeq(Data(c), 1, sent[c] - 3)
    BY FirstBlocks
  <1>2. PICK dir, kept :
          /\ dir = directory \/ dir = Truncate(directory, n)
          /\ ReceiveData(c, Entry(c, n, request[c].blocks, 0), dir, blocks, kept)
          /\ c \notin touched' => dir = Truncate(directory, n) /\ kept = blocks
    BY PutReceives
  <1> HIDE DEF blocks
  <1>3. directory' = AppendTo(dir, n, kept)
    <2>1. Entry(c, n, request[c].blocks, 0).filename = n
      BY DEF Entry
    <2> QED BY <1>2, <2>1 DEF ReceiveData
  <1>4. \A m \in DOMAIN directory : m # n => m \in DOMAIN dir /\ dir[m] = directory[m]
    BY <1>2 DEF Truncate
  <1>5. /\ DOMAIN directory' = DOMAIN dir
        /\ \A m \in DOMAIN dir : m # n => directory'[m] = dir[m]
        /\ n \in DOMAIN dir => directory'[n] = dir[n] \o kept
    BY <1>3 DEF AppendTo
  <1>6. OnlyFile(n)
    BY <1>4, <1>5 DEF OnlyFile
  <1>7. ASSUME c \notin touched' PROVE n \in DOMAIN directory' /\ directory'[n] = blocks
    <2>1. n \in DOMAIN dir /\ dir[n] = << >> /\ kept = blocks
      BY <1>2, <1>7 DEF Truncate
    <2>2. << >> \o blocks = blocks
      BY <1>1, ConcatEmptySeq
    <2> QED BY <1>5, <2>1, <2>2
  <1> QED BY <1>1, <1>6, <1>7

LEMMA ContinueWrites ==
    ASSUME CallsInv, StreamInv, ConnInv, DataInv, InFileInv, NEW c \in Clients, ContinuePut(c)
    PROVE  /\ OnlyFile(clients[fd[c]].filename)
           /\ recv[c] = << >> => SameFiles
           /\ Uploads(c) /\ c \notin touched /\ c \notin touched' =>
                /\ request[c].name \in DOMAIN directory'
                /\ directory'[request[c].name] = SubSeq(Data(c), 1, sent[c] - 3)
  <1>0. PICK kept \in Survivors(recv[c]) :
          /\ ReceiveData(c, clients[fd[c]], directory, recv[c], kept)
          /\ c \notin touched' => kept = recv[c]
    BY ContinueReceives
  <1> DEFINE e == clients[fd[c]]
             n == clients[fd[c]].filename
  <1>1. directory' = AppendTo(directory, n, kept)
    BY <1>0 DEF ReceiveData
  <1>2. /\ DOMAIN directory' = DOMAIN directory
        /\ \A m \in DOMAIN directory : m # n => directory'[m] = directory[m]
        /\ n \in DOMAIN directory => directory'[n] = directory[n] \o kept
    BY <1>1 DEF AppendTo
  <1>3. OnlyFile(n)
    BY <1>2 DEF OnlyFile
  <1>4. ASSUME recv[c] = << >> PROVE SameFiles
    <2>1. ASSUME n \in DOMAIN directory PROVE directory'[n] = directory[n]
      <3>1. directory[n] \in Seq(Pieces) /\ recv[c] \in Seq(Pieces)
        BY <2>1 DEF DataInv, DirectoryType, RecvType
      <3>2. kept = << >>
        BY <1>4, <3>1, SurvivorsType
      <3> QED BY <1>2, <2>1, <3>1, <3>2, ConcatEmptySeq
    <2> QED BY <1>2, <2>1 DEF SameFiles
  <1>5. ASSUME Uploads(c), c \notin touched, c \notin touched'
        PROVE  /\ request[c].name \in DOMAIN directory'
               /\ directory'[request[c].name] = SubSeq(Data(c), 1, sent[c] - 3)
    <2>1. n \in DOMAIN directory /\ directory[n] = SubSeq(Data(c), 1, e.bytesfin)
      BY <1>5 DEF InFileInv, InFile
    <2>2. PICK k \in Nat : /\ e = Entry(c, request[c].name, request[c].blocks, k)
                           /\ SubSeq(Data(c), 1, k) \o recv[c] = SubSeq(Data(c), 1, sent[c] - 3)
      BY <1>5, NextBlocks
    <2>3. n = request[c].name /\ e.bytesfin = k
      BY <2>2 DEF Entry
    <2>4. kept = recv[c]
      BY <1>0, <1>5
    <2> QED BY <1>2, <2>1, <2>2, <2>3, <2>4
  <1> QED BY <1>3, <1>4, <1>5

\* A read of c's upload takes what arrived, and counts all of it.
LEMMA ReadAll ==
    ASSUME CallsInv, StreamInv, ConnInv, DataInv, NEW c \in Clients,
           HandlePut(c) \/ (ContinuePut(c) /\ Uploads(c))
    PROVE  \E k, dir, blocks, kept :
             /\ ReceiveData(c, Entry(c, request[c].name, request[c].blocks, k), dir, blocks, kept)
             /\ k + Len(blocks) = sent[c] - 3
  <1>1. sent[c] \in Nat
    BY DEF DataInv, SentType
  <1>2. CASE HandlePut(c)
    <2>1. PICK dir, kept :
            ReceiveData(c, Entry(c, request[c].name, request[c].blocks, 0),
                        dir, SubSeq(recv[c], 4, Len(recv[c])), kept)
      BY <1>2, PutReceives
    <2>2. Len(SubSeq(recv[c], 4, Len(recv[c]))) = sent[c] - 3
      BY <1>2, FirstBlocks
    <2>3. 0 + Len(SubSeq(recv[c], 4, Len(recv[c]))) = sent[c] - 3
      BY <1>1, <2>2
    <2> QED BY <2>1, <2>3
  <1>3. CASE ContinuePut(c) /\ Uploads(c)
    <2>1. PICK k \in Nat : /\ clients[fd[c]] = Entry(c, request[c].name, request[c].blocks, k)
                           /\ Len(recv[c]) = sent[c] - 3 - k
      BY <1>3, NextBlocks
    <2>2. PICK kept :
            ReceiveData(c, Entry(c, request[c].name, request[c].blocks, k), directory, recv[c], kept)
      BY <1>3, <2>1, ContinueReceives
    <2>3. k + Len(recv[c]) = sent[c] - 3
      BY <1>1, <2>1
    <2> QED BY <2>2, <2>3
  <1> QED BY <1>2, <1>3

\* If the connection stays open, the entry then has that number.
LEMMA CountedAll ==
    ASSUME CallsInv, StreamInv, ConnInv, DictInv, DataInv, NEW c \in Clients, ~AtEnd(c),
           HandlePut(c) \/ (ContinuePut(c) /\ Uploads(c))
    PROVE  /\ fd'[c] = fd[c]
           /\ clients'[fd[c]] = Entry(c, request[c].name, request[c].blocks, sent[c] - 3)
  <1>1. fd[c] \in Descriptors
    BY OpenEvent DEF HandlePut, FirstEvent, ContinuePut
  <1>2. PICK k, dir, blocks, kept :
          /\ ReceiveData(c, Entry(c, request[c].name, request[c].blocks, k), dir, blocks, kept)
          /\ k + Len(blocks) = sent[c] - 3
    BY ReadAll
  <1>3. [Entry(c, request[c].name, request[c].blocks, k) EXCEPT !.bytesfin = @ + Len(blocks)]
          = Entry(c, request[c].name, request[c].blocks, sent[c] - 3)
    <2>1. [Entry(c, request[c].name, request[c].blocks, k) EXCEPT !.bytesfin = @ + Len(blocks)]
            = Entry(c, request[c].name, request[c].blocks, k + Len(blocks))
      BY DEF Entry
    <2> QED BY <1>2, <2>1
  <1>4. /\ clients' = [clients EXCEPT ![fd[c]] = Entry(c, request[c].name, request[c].blocks, sent[c] - 3)]
        /\ fd' = fd
    BY <1>2, <1>3 DEF ReceiveData
  <1> QED BY <1>1, <1>4 DEF DictInv

LEMMA InFileReceive ==
    ASSUME CallsInv, StreamInv, ConnInv, DictInv, DataInv, InFileInv, NEW c \in Clients,
           HandlePut(c) \/ ContinuePut(c)
    PROVE  InFileInv'
  <1>0. fd[c] # NONE
    BY OpenEvent DEF HandlePut, FirstEvent, ContinuePut
  <1>1. \E e, dir, blocks, kept : ReceiveData(c, e, dir, blocks, kept)
    BY DEF HandlePut, ContinuePut
  <1>2. /\ request' = request
        /\ \A x \in Clients : x # c =>
             (Uploads(x)' => Uploads(x) /\ clients'[fd'[x]] = clients[fd[x]])
    BY <1>0, <1>1, UploadsReceive
  <1>3. touched \subseteq touched'
    BY DEF HandlePut, ContinuePut
  <1>4. \E n : SameFiles \/ (OnlyFile(n) /\ Uploading(c, n) \subseteq touched')
    <2>1. CASE HandlePut(c)
      BY <2>1, PutWrites DEF HandlePut
    <2>2. CASE ContinuePut(c)
      BY <2>2, ContinueWrites DEF ContinuePut
    <2> QED BY <2>1, <2>2
  <1>5. ASSUME NEW x \in Clients, x # c PROVE InFile(x)'
    BY <1>2, <1>3, <1>4, <1>5, InFileOthers
  <1>6. InFile(c)'
    <2> SUFFICES ASSUME Uploads(c)', c \notin touched' PROVE InFile(c)'
      BY DEF InFile
    <2>1. ~AtEnd(c)
      <3>1. AtEnd(c) => \E a : Finish(c, a)
        BY <1>1 DEF ReceiveData
      <3> QED BY <1>0, <3>1, UploadsFinish
    <2>2. HandlePut(c) \/ (ContinuePut(c) /\ Uploads(c))
      <3>1. ASSUME ContinuePut(c) PROVE Uploads(c)
        <4>0. PICK kept : /\ clients[fd[c]] # NONE
                          /\ ReceiveData(c, clients[fd[c]], directory, recv[c], kept)
          BY <3>1, ContinueReceives
        <4>1. /\ fd' = fd /\ clients[fd[c]] # NONE
              /\ clients' = [clients EXCEPT ![fd[c]] =
                               [clients[fd[c]] EXCEPT !.bytesfin = @ + Len(recv[c])]]
          BY <2>1, <4>0 DEF ReceiveData
        <4>2. fd[c] \in Descriptors
          BY <3>1, OpenEvent DEF ContinuePut
        <4>3. clients[fd[c]] \in Entries
          BY <4>1, <4>2 DEF DataInv, EntriesType
        <4>4. clients'[fd[c]].by = clients[fd[c]].by
          BY <4>1, <4>2, <4>3 DEF DictInv, Entries
        <4> QED BY <1>0, <4>1, <4>4 DEF Uploads, HoldsEntry
      <3> QED BY <3>1
    <2>3. clients'[fd'[c]] = Entry(c, request[c].name, request[c].blocks, sent[c] - 3)
      BY <2>1, <2>2, CountedAll
    <2>4. /\ clients'[fd'[c]].filename = request[c].name
          /\ clients'[fd'[c]].bytesfin = sent[c] - 3
      BY <2>3 DEF Entry
    <2>5. /\ request[c].name \in DOMAIN directory'
          /\ directory'[request[c].name] = SubSeq(Data(c), 1, sent[c] - 3)
      <3>1. c \notin touched
        BY <1>3
      <3> QED BY <2>2, <3>1, PutWrites, ContinueWrites
    <2>6. Data(c)' = Data(c)
      BY <1>2 DEF Data
    <2> QED BY <2>4, <2>5, <2>6 DEF InFile
  <1> QED BY <1>5, <1>6 DEF InFileInv

LEMMA InFileClient ==
    ASSUME CallsInv, StreamInv, ConnInv, DictInv, DataInv, InFileInv, NEW c \in Clients,
           HandleClient(c)
    PROVE  InFileInv'
  <1>1. CASE NoLine(c) \/ PartialLine(c) \/ HandleList(c) \/ HandleGet(c) \/ HandleDelete(c)
             \/ PartialSize(c)
    <2>0. fd[c] # NONE
      BY HandlerEvent, OpenEvent
    <2>1. \E a : Finish(c, a)
      BY <1>1 DEF NoLine, PartialLine, HandleList, HandleGet, HandleDelete, PartialSize
    <2>2. /\ ~Uploads(c)' /\ request' = request
          /\ \A x \in Clients : x # c =>
               (Uploads(x)' => Uploads(x) /\ clients'[fd'[x]] = clients[fd[x]])
      BY <2>0, <2>1, UploadsFinish
    <2>3. /\ touched \subseteq touched'
          /\ \E n : SameFiles \/ (OnlyFile(n) /\ Uploading(c, n) \subseteq touched')
      <3>1. CASE UNCHANGED <<directory, touched>>
        BY <3>1 DEF SameFiles
      <3>2. CASE /\ Unlink(request[c].name)
                 /\ touched' = touched \cup Uploading(c, request[c].name)
        BY <3>2 DEF Unlink, OnlyFile
      <3> QED BY <1>1, <3>1, <3>2 DEF NoLine, PartialLine, HandleList, HandleGet, HandleDelete,
                                      PartialSize, history
    <2>4. ASSUME NEW x \in Clients, x # c PROVE InFile(x)'
      BY <2>2, <2>3, <2>4, InFileOthers
    <2> QED BY <2>2, <2>4 DEF InFileInv, InFile
  <1> QED BY <1>1, InFileReceive DEF HandleClient

LEMMA InFileKept ==
    ASSUME InFileInv, UNCHANGED <<request, directory, touched>>,
           \A c \in Clients : Uploads(c)' => Uploads(c) /\ clients'[fd'[c]] = clients[fd[c]]
    PROVE  InFileInv'
  <1>1. \A c \in Clients : Data(c)' = Data(c)
    BY DEF Data
  <1> QED BY <1>1 DEF InFileInv, InFile

LEMMA InFileNext ==
    ASSUME CallsInv, StreamInv, ConnInv, DictInv, DataInv, InFileInv, [Next]_vars
    PROVE  InFileInv'
  <1>0. ASSUME UNCHANGED <<request, directory, touched, fd, clients>> PROVE InFileInv'
    BY <1>0, InFileKept DEF Uploads, HoldsEntry
  <1>1. CASE UNCHANGED vars
    BY <1>0, <1>1 DEF vars
  <1>2. ASSUME Exit PROVE InFileInv'
    BY <1>2 DEF Exit, InFileInv, InFile, Uploads, HoldsEntry
  <1>3. CASE Interrupt
    <2>1. CASE ~Exit
      BY <1>0, <1>3, <2>1 DEF Interrupt, socket_vars, history
    <2> QED BY <1>2, <2>1
  <1>4. CASE SessionEnds
    BY <1>2, <1>4 DEF SessionEnds
  <1>5. CASE EpollWaitReturns
    BY <1>0, <1>5 DEF EpollWaitReturns, history
  <1>6. CASE HandleAccept
    <2>1. UNCHANGED <<request, directory, touched, clients, closed>>
      BY <1>6 DEF HandleAccept, history
    <2>2. ASSUME NEW c \in Clients, Uploads(c)' PROVE Uploads(c) /\ clients'[fd'[c]] = clients[fd[c]]
      <3>1. CASE ~Waiting(c)
        BY <1>6, <2>1, <2>2, <3>1, AcceptedFree DEF Uploads, HoldsEntry
      <3>2. CASE Waiting(c)
        <4>1. ~Uploads(c)'
          BY <1>6, <3>2, AcceptedStale
        <4> QED BY <2>2, <4>1
      <3> QED BY <3>1, <3>2
    <2> QED BY <2>1, <2>2, InFileKept
  <1>7. ASSUME NEW c \in Clients, HandleError(c) PROVE InFileInv'
    <2>1. fd' = [fd EXCEPT ![c] = NONE] /\ UNCHANGED <<request, directory, touched, clients>>
      BY <1>7 DEF HandleError, Close, history
    <2>2. \A x \in Clients : fd'[x] = fd[x] \/ fd'[x] = NONE
      BY <2>1 DEF ConnInv, FdType
    <2> QED BY <2>1, <2>2, InFileKept DEF Uploads, HoldsEntry
  <1>8. CASE \E c \in Clients : ClientStep(c) \/ Leave(c)
    BY <1>0, <1>8 DEF ClientStep, Connect, ConnectFails, Send, Shutdown, ReadAnswer, CutOff, Leave,
                      server_vars, socket_vars, history
  <1> QED BY <1>1, <1>3, <1>4, <1>5, <1>6, <1>7, <1>8, InFileClient DEF Next, ServerSteps, ServerStep
-----------------------------------------------------------------------------
(* The answer to a GET, and what the client makes of it.                   *)

Sized(a) == a # NONE /\ a.status = "OK" /\ a.size # NONE

Got(c) == request[c].verb = "GET" =>
            /\ Sized(answer[c]) => /\ stored[c] \in Seq(Pieces)
                                   /\ answer[c].size = Len(stored[c])
                                   /\ answer[c].data \in Survivors(stored[c])
            /\ client[c] = "success" => c \in closed /\ local[c] = stored[c]
GotInv == /\ DOMAIN stored = Clients /\ DOMAIN local = Clients
          /\ \A c \in Clients : Got(c)

LEMMA GotInit == Init => GotInv
  BY DEF Init, ServerInit, GotInv, Got, Sized

LEMMA GotFrame ==
    ASSUME GotInv, UNCHANGED <<request, answer, stored, local, client>>, closed \subseteq closed'
    PROVE  GotInv'
  BY DEF GotInv, Got, Sized

LEMMA Sizeless == ~Sized(NONE) /\ ~Sized(OK) /\ \A e : ~Sized(ERROR(e))
  BY DEF Sized, OK, ERROR

\* An answer without a size, or to another request.
LEMMA GotFinish ==
    ASSUME GotInv, CallsInv, NEW c \in Clients, NEW a, Finish(c, a),
           ~Sized(a) \/ request[c].verb # "GET", UNCHANGED <<stored, local, client>>
    PROVE  GotInv'
  <1>1. /\ answer' = [answer EXCEPT ![c] = a] /\ closed' = closed \cup {c} /\ request' = request
    BY DEF Finish, Close
  <1>2. answer'[c] = a /\ \A x \in Clients : x # c => answer'[x] = answer[x]
    BY <1>1 DEF CallsInv
  <1>3. ASSUME NEW x \in Clients, x # c PROVE Got(x)'
    BY <1>1, <1>2, <1>3 DEF GotInv, Got, Sized
  <1>4. Got(c)'
    BY <1>1, <1>2 DEF GotInv, Got, Sized
  <1> QED BY <1>3, <1>4 DEF GotInv

LEMMA GotReceive ==
    ASSUME GotInv, CallsInv, NEW c \in Clients, HandlePut(c) \/ ContinuePut(c),
           UNCHANGED <<local, client>>
    PROVE  GotInv'
  <1>1. PICK e, dir, blocks, kept : ReceiveData(c, e, dir, blocks, kept)
    BY DEF HandlePut, ContinuePut
  <1>2. stored' = stored
    BY DEF HandlePut, ContinuePut
  <1>3. CASE AtEnd(c)
    <2>1. Finish(c, OK) \/ Finish(c, ERROR("bad_file_size"))
      BY <1>1, <1>3 DEF ReceiveData
    <2> QED BY <1>2, <2>1, GotFinish, Sizeless
  <1>4. CASE ~AtEnd(c)
    <2>1. UNCHANGED <<request, answer, closed>>
      BY <1>1, <1>4 DEF ReceiveData
    <2> QED BY <1>2, <2>1, GotFrame
  <1> QED BY <1>3, <1>4

\* GET: the content is remembered, the size announced, blocks may be lost.
LEMMA GotGet ==
    ASSUME GotInv, CallsInv, ConnInv, DataInv, NEW c \in Clients, HandleGet(c),
           UNCHANGED <<local, client>>
    PROVE  GotInv'
  <1> DEFINE n == request[c].name
  <1>1. CASE Finish(c, ERROR("no_such_file")) /\ UNCHANGED stored
    BY <1>1, GotFinish, Sizeless
  <1>2. CASE /\ n \in DOMAIN directory
             /\ \E data \in Survivors(directory[n]) : Finish(c, OKWith(Len(directory[n]), data))
             /\ stored' = [stored EXCEPT ![c] = directory[n]]
    <2>1. PICK data \in Survivors(directory[n]) : Finish(c, OKWith(Len(directory[n]), data))
      BY <1>2
    <2>2. /\ answer' = [answer EXCEPT ![c] = OKWith(Len(directory[n]), data)]
          /\ closed' = closed \cup {c} /\ request' = request
      BY <2>1 DEF Finish, Close
    <2>3. /\ answer'[c] = OKWith(Len(directory[n]), data) /\ stored'[c] = directory[n]
          /\ \A x \in Clients : x # c => answer'[x] = answer[x] /\ stored'[x] = stored[x]
          /\ DOMAIN stored' = Clients
      BY <1>2, <2>2 DEF CallsInv, GotInv
    <2>4. ASSUME NEW x \in Clients, x # c PROVE Got(x)'
      BY <2>2, <2>3, <2>4 DEF GotInv, Got, Sized
    <2>5. directory[n] \in Seq(Pieces)
      BY <1>2 DEF DataInv, DirectoryType
    <2>6. /\ answer'[c].size = Len(directory[n]) /\ answer'[c].data = data
      BY <2>3 DEF OKWith
    <2>7. client[c] # "success" \/ request[c].verb # "GET"
      <3>1. fd[c] # NONE
        BY OpenEvent DEF HandleGet, FirstEvent
      <3>2. c \notin closed
        BY <3>1 DEF ConnInv, StillOpen
      <3> QED BY <3>2 DEF GotInv, Got
    <2>8. Got(c)'
      BY <2>1, <2>2, <2>3, <2>5, <2>6, <2>7 DEF Got
    <2> QED BY <2>3, <2>4, <2>8 DEF GotInv
  <1> QED BY <1>1, <1>2 DEF HandleGet

LEMMA GotClient ==
    ASSUME GotInv, CallsInv, ConnInv, DataInv, NEW c \in Clients, HandleClient(c),
           UNCHANGED <<local, client>>
    PROVE  GotInv'
  <1>1. CASE NoLine(c) \/ PartialLine(c) \/ HandleList(c) \/ HandleDelete(c) \/ PartialSize(c)
    <2>1. \E a : Finish(c, a) /\ (~Sized(a) \/ request[c].verb # "GET")
      <3>1. CASE NoLine(c) \/ PartialLine(c) \/ HandleDelete(c) \/ PartialSize(c)
        BY <3>1, Sizeless DEF NoLine, PartialLine, HandleDelete, PartialSize
      <3>2. CASE HandleList(c)
        BY <3>2 DEF HandleList, LineRead
      <3> QED BY <1>1, <3>1, <3>2
    <2>2. stored' = stored
      BY <1>1 DEF NoLine, PartialLine, HandleList, HandleDelete, PartialSize, history
    <2> QED BY <2>1, <2>2, GotFinish
  <1> QED BY <1>1, GotGet, GotReceive DEF HandleClient

\* The client's verdict on an answer.
LEMMA GotVerdict ==
    ASSUME GotInv, CallsInv, NEW c \in Clients, c \in closed,
           client' = [client EXCEPT ![c] = Judge(c, answer[c])],
           local' = [local EXCEPT ![c] = Received(c, answer[c])],
           UNCHANGED <<request, answer, stored, closed>>, DictInv
    PROVE  GotInv'
  <1>1. /\ client'[c] = Judge(c, answer[c]) /\ local'[c] = Received(c, answer[c])
        /\ \A x \in Clients : x # c => client'[x] = client[x] /\ local'[x] = local[x]
        /\ DOMAIN local' = Clients
    BY DEF GotInv, DictInv
  <1>2. ASSUME NEW x \in Clients, x # c PROVE Got(x)'
    BY <1>1, <1>2 DEF GotInv, Got, Sized
  <1>3. ASSUME request[c].verb = "GET", Judge(c, answer[c]) = "success"
        PROVE  local'[c] = stored[c]
    <2> DEFINE a == answer[c]
    <2>1. a # NONE /\ a.status = "OK" /\ a.size # NONE /\ Complete(a)
      <3>1. Answered(a)
        BY DEF CallsInv
      <3> QED BY <1>3, <3>1 DEF Judge, Answered
    <2>2. /\ stored[c] \in Seq(Pieces) /\ a.size = Len(stored[c])
          /\ a.data \in Survivors(stored[c])
      BY <1>3, <2>1 DEF GotInv, Got, Sized
    <2>3. Len(a.data) = Len(stored[c])
      BY <2>1, <2>2 DEF Complete
    <2>4. a.data = stored[c]
      BY <2>2, <2>3, AllSurvive
    <2>5. Received(c, a) = a.data
      BY <1>3, <2>1 DEF Received
    <2> QED BY <1>1, <2>4, <2>5
  <1>4. Got(c)'
    BY <1>1, <1>3 DEF GotInv, Got, Sized
  <1> QED BY <1>1, <1>2, <1>4 DEF GotInv

LEMMA GotClients ==
    ASSUME GotInv, CallsInv, DictInv, NEW c \in Clients, ClientStep(c) \/ Leave(c)
    PROVE  GotInv'
  <1>1. UNCHANGED <<request, answer, stored, closed>>
    BY DEF ClientStep, Connect, ConnectFails, Send, Shutdown, ReadAnswer, CutOff, Leave,
           server_vars, socket_vars, history
  <1>2. \/ /\ c \in closed /\ client' = [client EXCEPT ![c] = Judge(c, answer[c])]
           /\ local' = [local EXCEPT ![c] = Received(c, answer[c])]
        \/ /\ local' = local
           /\ client' = client \/ \E s : client' = [client EXCEPT ![c] = s] /\ s # "success"
    BY DEF ClientStep, Connect, ConnectFails, Send, Shutdown, ReadAnswer, CutOff, Leave, Become
  <1>3. CASE /\ local' = local
             /\ client' = client \/ \E s : client' = [client EXCEPT ![c] = s] /\ s # "success"
    <2>1. \A x \in Clients : client'[x] = "success" => client[x] = "success"
      BY <1>3 DEF DictInv
    <2> QED BY <1>1, <1>3, <2>1 DEF GotInv, Got, Sized
  <1> QED BY <1>1, <1>2, <1>3, GotVerdict

LEMMA GotNext == ASSUME GotInv, CallsInv, DictInv, ConnInv, DataInv, [Next]_vars PROVE GotInv'
  <1>0. ASSUME Exit PROVE UNCHANGED <<request, answer, stored>> /\ closed \subseteq closed'
    BY <1>0 DEF Exit
  <1>1. CASE UNCHANGED vars
    BY <1>1, GotFrame DEF vars
  <1>2. CASE Interrupt /\ UNCHANGED <<client, sent, local>>
    <2>1. CASE ~Exit
      BY <1>2, <2>1, GotFrame DEF Interrupt, socket_vars, history
    <2> QED BY <1>0, <1>2, <2>1, GotFrame
  <1>3. CASE ServerSteps
    <2>1. UNCHANGED <<client, local>>
      BY <1>3 DEF ServerSteps
    <2>2. CASE SessionEnds
      BY <1>0, <2>1, <2>2, GotFrame DEF SessionEnds
    <2>3. CASE EpollWaitReturns \/ HandleAccept
      BY <2>1, <2>3, GotFrame DEF EpollWaitReturns, HandleAccept, history
    <2>4. ASSUME NEW c \in Clients, HandleError(c) PROVE GotInv'
      BY <2>1, <2>4, GotFrame DEF HandleError, Close, history
    <2> QED BY <1>3, <2>1, <2>2, <2>3, <2>4, GotClient DEF ServerSteps, ServerStep
  <1> QED BY <1>1, <1>2, <1>3, GotClients DEF Next

-----------------------------------------------------------------------------
UploadInv == CallsInv /\ DictInv /\ ConnInv /\ DataInv /\ StreamInv /\ InFileInv

LEMMA UploadInit == Init => UploadInv
  <1>1. Init => InFileInv
    BY DEF Init, ServerInit, InFileInv, InFile, Uploads, HoldsEntry
  <1> QED BY <1>1, CallsInit, DictInit, ConnInit, DataInit, StreamInit DEF UploadInv

LEMMA UploadNext == UploadInv /\ [Next]_vars => UploadInv'
  <1> SUFFICES ASSUME UploadInv, [Next]_vars PROVE UploadInv'
    OBVIOUS
  <1>1. CallsInv /\ DictInv /\ ConnInv /\ DataInv /\ StreamInv /\ InFileInv
    BY DEF UploadInv
  <1>2. CallsInv' /\ DictInv'
    BY <1>1, CallsNext, DictNext
  <1>3. ConnInv' /\ DataInv'
    BY <1>1, ConnNext, DataNext
  <1>4. StreamInv' /\ InFileInv'
    BY <1>1, StreamNext, InFileNext
  <1> QED BY <1>2, <1>3, <1>4 DEF UploadInv

\* Whatever the network does to the pieces of an upload and whichever requests
\* come in between, every block is counted once and is in the file, in order,
\* or waits (readformserver(), states 1 and 2); and the size that is announced
\* tells a client of a GET whether it has the whole file, although
\* write_to_file() passes over writes that would block.
THEOREM NothingLost == Spec => []TransfersIntact
  <1>1. UploadInv /\ GotInv => TransfersIntact
    <2> SUFFICES ASSUME UploadInv, GotInv, NEW c \in Clients
                 PROVE  /\ (Accepted(c) /\ HasEntry(c) /\ clients[fd[c]].by = c) =>
                             LET e == clients[fd[c]]
                             IN  /\ e.bytesfin + Len(recv[c]) + 3 = sent[c]
                                 /\ c \notin touched =>
                                      /\ e.filename \in DOMAIN directory
                                      /\ directory[e.filename] = SubSeq(Data(c), 1, e.bytesfin)
                        /\ (client[c] = "success" /\ request[c].verb = "GET") => local[c] = stored[c]
      BY DEF TransfersIntact
    <2>1. (client[c] = "success" /\ request[c].verb = "GET") => local[c] = stored[c]
      BY DEF GotInv, Got
    <2>2. ASSUME Uploads(c) PROVE clients[fd[c]].bytesfin + Len(recv[c]) + 3 = sent[c]
      <3>1. PICK k \in Nat : /\ clients[fd[c]] = Entry(c, request[c].name, request[c].blocks, k)
                             /\ Len(recv[c]) = sent[c] - 3 - k
        BY <2>2, NextBlocks DEF UploadInv
      <3>2. clients[fd[c]].bytesfin = k /\ sent[c] \in Nat
        BY <3>1 DEF Entry, UploadInv, DataInv, SentType
      <3> QED BY <3>1, <3>2
    <2>3. Uploads(c) /\ c \notin touched =>
            /\ clients[fd[c]].filename \in DOMAIN directory
            /\ directory[clients[fd[c]].filename] = SubSeq(Data(c), 1, clients[fd[c]].bytesfin)
      BY DEF UploadInv, InFileInv, InFile
    <2> QED BY <2>1, <2>2, <2>3 DEF Uploads, HoldsEntry, Accepted, HasEntry
  <1>2. UploadInv /\ GotInv /\ [Next]_vars => GotInv'
    BY GotNext DEF UploadInv
  <1> QED BY <1>1, <1>2, UploadInit, UploadNext, GotInit, PTL DEF Spec

\* The step that answers OK to a PUT.
LEMMA AnsweredOK ==
    ASSUME UploadInv, [Next]_vars, NEW c \in Clients,
           answer[c] = NONE, answer'[c] = OK, request[c].verb = "PUT"
    PROVE  /\ HandlePut(c) \/ ContinuePut(c)
           /\ AtEnd(c)
  <1>0. NONE # OK /\ \A e : ERROR(e) # OK
    BY AnswerAssumption DEF OK, ERROR
  <1>1. \E x \in Clients : HandleClient(x)
    <2>1. answer' # answer
      BY <1>0
    <2> QED BY <2>1 DEF Next, ServerSteps, ServerStep, vars, EpollWaitReturns, SessionEnds,
              HandleAccept, Interrupt, Exit, HandleError, socket_vars, ClientStep, Connect,
              ConnectFails, Send, Shutdown, ReadAnswer, CutOff, Leave
  <1>2. PICK x \in Clients : HandleClient(x)
    BY <1>1
  <1>3. DOMAIN answer = Clients
    BY DEF UploadInv, CallsInv
  <1>4. CASE NoLine(x) \/ PartialLine(x) \/ HandleList(x) \/ HandleGet(x) \/ HandleDelete(x)
             \/ PartialSize(x)
    <2>1. \E a : Finish(x, a)
                 /\ (a = NONE \/ (\E e : a = ERROR(e)) \/ request[x].verb # "PUT")
      <3>1. CASE NoLine(x) \/ PartialLine(x) \/ PartialSize(x)
        BY <3>1 DEF NoLine, PartialLine, PartialSize
      <3>2. CASE HandleList(x) \/ HandleGet(x) \/ HandleDelete(x)
        BY <3>2 DEF HandleList, HandleGet, HandleDelete, LineRead
      <3> QED BY <1>4, <3>1, <3>2
    <2>2. PICK a : /\ answer' = [answer EXCEPT ![x] = a]
                   /\ a = NONE \/ (\E e : a = ERROR(e)) \/ request[x].verb # "PUT"
      BY <2>1 DEF Finish
    <2>3. x = c
      BY <1>0, <1>3, <2>2
    <2>4. a = OK
      BY <1>3, <2>2, <2>3
    <2> QED BY <1>0, <2>2, <2>3, <2>4
  <1>5. CASE HandlePut(x) \/ ContinuePut(x)
    <2>1. PICK e, dir, blocks, kept : ReceiveData(x, e, dir, blocks, kept)
      BY <1>5 DEF HandlePut, ContinuePut
    <2>2. AtEnd(x)
      BY <1>0, <2>1 DEF ReceiveData
    <2>3. PICK a : answer' = [answer EXCEPT ![x] = a]
      BY <2>1, <2>2 DEF ReceiveData, Finish
    <2>4. x = c
      BY <1>0, <1>3, <2>3
    <2> QED BY <1>5, <2>2, <2>4
  <1> QED BY <1>2, <1>4, <1>5 DEF HandleClient

LEMMA OKMeansStored ==
    ASSUME UploadInv, [Next]_vars, NEW c \in Clients,
           answer[c] = NONE, answer'[c] = OK, request[c].verb = "PUT", c \notin touched',
           HasEntry(c) => clients[fd[c]].by = c
    PROVE  /\ request[c].name \in DOMAIN directory'
           /\ directory'[request[c].name] = Data(c)
  <1>0. CallsInv /\ StreamInv /\ ConnInv /\ DataInv /\ InFileInv /\ DictInv
    BY DEF UploadInv
  <1>1. HandlePut(c) \/ (ContinuePut(c) /\ Uploads(c))
    <2>1. ContinuePut(c) => Uploads(c)
      BY <1>0, OpenEvent DEF ContinuePut, Uploads, HoldsEntry, HasEntry
    <2> QED BY <2>1, AnsweredOK
  <1>2. AtEnd(c)
    BY AnsweredOK
  <1>3. sent[c] \in Nat /\ request[c].blocks \in Nat
        /\ Data(c) \in Seq(Pieces) /\ Len(Data(c)) = request[c].blocks
    BY <1>0, MessageType DEF DataInv, SentType
  <1>4. /\ request[c].name \in DOMAIN directory'
        /\ directory'[request[c].name] = SubSeq(Data(c), 1, sent[c] - 3)
    <2>1. c \notin touched
      BY <1>1 DEF HandlePut, ContinuePut
    <2> QED BY <1>0, <1>1, <2>1, PutWrites, ContinueWrites
  <1>5. PICK k, dir, blocks, kept :
          /\ ReceiveData(c, Entry(c, request[c].name, request[c].blocks, k), dir, blocks, kept)
          /\ k + Len(blocks) = sent[c] - 3
    BY <1>0, <1>1, ReadAll
  <1>6. sent[c] - 3 = request[c].blocks
    <2> DEFINE entry == [Entry(c, request[c].name, request[c].blocks, k)
                           EXCEPT !.bytesfin = @ + Len(blocks)]
    <2>1. entry.bytesfin = k + Len(blocks) /\ entry.filesize = request[c].blocks
      BY DEF Entry
    <2>2. Finish(c, IF SizeAgrees(entry) THEN OK ELSE ERROR("bad_file_size"))
      BY <1>2, <1>5 DEF ReceiveData
    <2> HIDE DEF entry
    <2>3. answer'[c] = IF SizeAgrees(entry) THEN OK ELSE ERROR("bad_file_size")
      BY <1>0, <2>2 DEF Finish, CallsInv
    <2>4. ERROR("bad_file_size") # OK
      BY DEF OK, ERROR
    <2>5. SizeAgrees(entry)
      BY <2>3, <2>4
    <2> QED BY <1>5, <2>1, <2>5 DEF SizeAgrees
  <1> QED BY <1>3, <1>4, <1>6, SubSeqFull

\* A PUT is answered OK only when the blocks that were counted are as many as
\* were announced (line 475); and if nobody else wrote to the file, it then
\* holds exactly the client's data, however the upload was cut into events.
THEOREM StoredWhenOK == Spec => PutStored
  <1>1. UploadInv /\ [Next]_vars =>
          [\A c \in Clients :
             (/\ answer[c] = NONE /\ answer'[c] = OK
              /\ request[c].verb = "PUT" /\ c \notin touched'
              /\ HasEntry(c) => clients[fd[c]].by = c)
             => /\ request[c].name \in DOMAIN directory'
                /\ directory'[request[c].name] = Data(c)]_vars
    BY OKMeansStored
  <1> QED BY <1>1, UploadInit, UploadNext, PTL DEF Spec, PutStored
=============================================================================
