---------------------------- MODULE NonstopServer ----------------------------
(***************************************************************************)
(* nonstop_networking/server.c: one thread that serves LIST, GET, PUT and  *)
(* DELETE from an edge-triggered epoll loop over nonblocking sockets.      *)
(*                                                                         *)
(* A connection is named by the client that made it.  What a client sends  *)
(* arrives in pieces: the request line in two (the second ends in the      *)
(* newline), the 8 bytes of the size, and the data in blocks, a block      *)
(* standing for what one read of 1024 bytes returns.  One event of         *)
(* epoll_wait is handled in one action: the server is the only reader of   *)
(* a socket, so data that arrive while a handler runs might as well have   *)
(* arrived before it.  Module Nonstop adds the clients.                    *)
(***************************************************************************)
EXTENDS Integers, Sequences, SequencesExt, FiniteSets, FiniteSetsExt

CONSTANTS Clients,   \* one connection each
          Faulty,    \* bound: the clients whose uploads meet failing system calls
          NONE       \* no descriptor, no dictionary entry, no answer

VARIABLES
  request,      \* what each client asks for
  endsession,   \* set by the SIGINT handler
  server,       \* "running" | "exited"
  batch,        \* the events epoll_wait returned that are still to be handled;
                \* empty: the server is about to call epoll_wait, or in it
  clients,      \* the dictionary, by descriptor
  files,        \* the vector of file names
  directory,    \* the temporary directory: a function from names to contents
  fd,           \* the server's descriptor of each connection, or NONE
  backlog,      \* connections the server has not accepted yet
  recv,         \* data received and not read yet
  fin,          \* connections whose client has shut down its side
  reset,        \* connections that were reset
  edge,         \* connections with an event epoll has not reported yet
  closed,       \* connections the server has closed
  answer,       \* what the server has written to each connection
  touched,      \* history: uploads whose file another request changed, or of
                \* which an open() or a write() failed
  unopened,     \* history: names an upload listed and did not create
  stored        \* history: the content a GET found

server_vars == <<endsession, server, batch, clients, files, directory>>
socket_vars == <<fd, backlog, recv, fin, reset, edge, closed, answer>>
history == <<touched, unopened, stored>>

LISTEN == "serverSocket"
Descriptors == 1 .. Cardinality(Clients)
ASSUME NoneAssumption == NONE \notin Descriptors
ASSUME ListenAssumption == LISTEN \notin Clients

\* The pieces in which a request reaches the server.
Line(c) == <<c, "line">>
Eol(c) == <<c, "newline">>
Size(c) == <<c, "size">>
Data(c) == [i \in 1 .. request[c].blocks |-> <<c, "data", i>>]
Message(c) == IF request[c].verb = "PUT"
              THEN <<Line(c), Eol(c), Size(c)>> \o Data(c)
              ELSE <<Line(c), Eol(c)>>

\* Answers.  The size is NONE when the server writes none.
OK == [status |-> "OK", size |-> NONE, data |-> <<>>]
ASSUME AnswerAssumption == NONE # OK
OKWith(size, data) == [status |-> "OK", size |-> size, data |-> data]
ERROR(e) == [status |-> "ERROR", size |-> NONE, data |-> <<e>>]

ServerInit == /\ endsession = FALSE /\ server = "running" /\ batch = {}
              /\ clients = [d \in Descriptors |-> NONE]
              /\ files = <<>> /\ directory = <<>>
              /\ fd = [c \in Clients |-> NONE]
              /\ backlog = <<>>
              /\ recv = [c \in Clients |-> <<>>]
              /\ fin = {} /\ reset = {} /\ edge = {} /\ closed = {}
              /\ answer = [c \in Clients |-> NONE]
              /\ touched = {} /\ unopened = {}
              /\ stored = [c \in Clients |-> NONE]

-----------------------------------------------------------------------------
(* The event loop, lines 138-217.                                          *)

Accepted(c) == fd[c] # NONE

\* The events epoll_wait reports: the listening socket as long as connections
\* wait to be accepted, a connection once for every change (EPOLLET).
Ready == {[of |-> c, error |-> c \in reset] : c \in {x \in edge : Accepted(x)}}
         \cup (IF backlog = <<>> THEN {} ELSE {[of |-> LISTEN, error |-> FALSE]})

EpollWaitReturns == /\ server = "running" /\ batch = {} /\ Ready # {} /\ ~endsession
                    /\ batch' = Ready
                    /\ edge' = edge \ {e.of : e \in Ready}
                    /\ UNCHANGED <<request, endsession, server, clients, files, directory,
                                   fd, backlog, recv, fin, reset, closed, answer>>
                    /\ UNCHANGED history

\* cleanup(), and the end of the process: every socket is closed.
Unlinked == [n \in DOMAIN directory \ Range(files) |-> directory[n]]
Exit == /\ server' = "exited" /\ batch' = {}
        /\ directory' = Unlinked /\ files' = <<>>
        /\ clients' = [d \in Descriptors |-> NONE]
        /\ closed' = closed \cup {c \in Clients : Accepted(c)} \cup Range(backlog)
        /\ backlog' = <<>> /\ edge' = {}
        /\ touched' = {} /\ unopened' = {}
        /\ fd' = [c \in Clients |-> NONE]
        /\ recv' = [c \in Clients |-> <<>>]
        /\ UNCHANGED <<request, fin, reset, answer, stored>>

\* endsession is looked at when epoll_wait returns, and at no other time.
SessionEnds == /\ server = "running" /\ batch = {} /\ Ready # {} /\ endsession
               /\ Exit /\ UNCHANGED endsession

\* SIGINT: handler() sets endsession.  It interrupts epoll_wait (which returns
\* -1) if the server is in it; anywhere else, and just before the call too, the
\* server goes on.
Interrupt == /\ server = "running" /\ ~endsession
             /\ endsession' = TRUE
             /\ \/ batch = {} /\ Exit
                \/ /\ UNCHANGED <<request, server, batch, clients, files, directory>>
                   /\ UNCHANGED socket_vars /\ UNCHANGED history

Event(e) == server = "running" /\ e \in batch /\ batch' = batch \ {e}

\* close(): the descriptor is free again, and what was not read is lost.
Close(c) == /\ fd' = [fd EXCEPT ![c] = NONE]
            /\ closed' = closed \cup {c}
            /\ recv' = [recv EXCEPT ![c] = <<>>]
            /\ edge' = edge \ {c}

\* Lines 144-150: the descriptor is closed; its dictionary entry stays.
HandleError(c) == /\ Event([of |-> c, error |-> TRUE])
                  /\ Close(c)
                  /\ UNCHANGED <<request, endsession, server, clients, files, directory,
                                 backlog, fin, reset, answer>>
                  /\ UNCHANGED history

FreeDescriptors == Descriptors \ Range(fd)

\* The descriptors the kernel gives to the connections of the backlog, one
\* after the other: the lowest that is free then.
LowestFirst(new) ==
  \A i \in DOMAIN backlog :
    LET free == FreeDescriptors \ {new[j] : j \in 1 .. i - 1}
    IN  new[i] \in free /\ \A d \in free : new[i] <= d

\* Lines 151-183: the loop accepts all that have connected.  EPOLL_CTL_ADD
\* reports what has arrived already.
HandleAccept ==
  /\ Event([of |-> LISTEN, error |-> FALSE])
  /\ \E new \in [DOMAIN backlog -> FreeDescriptors] :
       /\ LowestFirst(new)
       /\ fd' = [c \in Clients |-> IF c \in Range(backlog)
                                   THEN new[CHOOSE i \in DOMAIN backlog : backlog[i] = c]
                                   ELSE fd[c]]
  /\ edge' = edge \cup {c \in Range(backlog) : recv[c] # <<>> \/ c \in fin \cup reset}
  /\ backlog' = <<>>
  /\ UNCHANGED <<request, endsession, server, clients, files, directory,
                 recv, fin, reset, closed, answer>>
  /\ UNCHANGED history

-----------------------------------------------------------------------------
(* readformserver(), lines 223-515.  A client's entry outlives one event   *)
(* only in the middle of an upload (state 2, request PUT), so that is all  *)
(* an entry records; "by" is history, the client whose request made it.    *)

HasEntry(c) == clients[fd[c]] # NONE

\* A client's first event: the dictionary has no entry, a new one has state 0.
FirstEvent(c) == Event([of |-> c, error |-> FALSE]) /\ ~HasEntry(c)

\* The value -1: the server closes the connection and removes the entry.
\* MUTANT of Finish: dictionary_remove() is forgotten.
FinishKeepsEntry(c, a) == /\ answer' = [answer EXCEPT ![c] = a]
                          /\ Close(c)
                          /\ UNCHANGED <<request, endsession, server, clients, backlog, fin, reset>>
Finish(c, a) == /\ answer' = [answer EXCEPT ![c] = a]
                /\ Close(c)
                /\ clients' = [clients EXCEPT ![fd[c]] = NONE]
                /\ UNCHANGED <<request, endsession, server, backlog, fin, reset>>

LineRead(c, verb) == /\ request[c].verb = verb
                     /\ IsPrefix(<<Line(c), Eol(c)>>, recv[c])

\* Lines 229-235: the connection ended before the first byte.
NoLine(c) == /\ FirstEvent(c) /\ recv[c] = <<>>
             /\ Finish(c, ERROR("bad_request"))
             /\ UNCHANGED <<files, directory>> /\ UNCHANGED history

\* The newline has not arrived, and mygetline() returns what has.  A verb that
\* is not complete is a bad request (402-409); so is a name that is not (323,
\* 364), but for PUT, where the server closes without an answer (287-290).
PartialLine(c) == /\ FirstEvent(c) /\ recv[c] = <<Line(c)>>
                  /\ \/ Finish(c, ERROR("bad_request"))
                     \/ request[c].verb = "PUT" /\ Finish(c, NONE)
                  /\ UNCHANGED <<files, directory>> /\ UNCHANGED history

\* Lines 236-278.
HandleList(c) == /\ FirstEvent(c) /\ LineRead(c, "LIST")
                 /\ Finish(c, OKWith(Len(files), files))
                 /\ UNCHANGED <<files, directory>> /\ UNCHANGED history

\* The blocks of a content that reach the client: a write that would block is
\* given up where it stands, and write_to_file() goes on with the next.
Rising(k, n) == {kept \in [1 .. k -> 1 .. n] : \A i, j \in 1 .. k : i < j => kept[i] < kept[j]}
Survivors(content) == UNION {{[i \in 1 .. k |-> content[kept[i]]] : kept \in Rising(k, Len(content))} :
                               k \in 0 .. Len(content)}

\* Lines 319-358.
HandleGet(c) ==
  LET n == request[c].name
  IN  /\ FirstEvent(c) /\ LineRead(c, "GET")
      /\ \/ /\ n \notin DOMAIN directory
            /\ Finish(c, ERROR("no_such_file")) /\ UNCHANGED stored
         \/ /\ n \in DOMAIN directory
            /\ \E data \in Survivors(directory[n]) :
                 Finish(c, OKWith(Len(directory[n]), data))
            /\ stored' = [stored EXCEPT ![c] = directory[n]]
      /\ UNCHANGED <<files, directory, touched, unopened>>

\* The other uploads to a name.
Uploading(c, n) == {x \in Clients \ {c} : Accepted(x) /\ HasEntry(x) /\ clients[fd[x]].filename = n}

\* Lines 360-401: erase the name where it is found first, unlink the file.
Erase(n) == \E i \in DOMAIN files : /\ files[i] = n /\ \A j \in 1 .. i - 1 : files[j] # n
                                    /\ files' = RemoveAt(files, i)
Unlink(n) == directory' = [m \in DOMAIN directory \ {n} |-> directory[m]]
HandleDelete(c) ==
  LET n == request[c].name
  IN  /\ FirstEvent(c) /\ LineRead(c, "DELETE")
      /\ \/ /\ n \in Range(files) /\ Finish(c, OK)
            /\ Erase(n) /\ Unlink(n)
            /\ touched' = touched \cup Uploading(c, n)
         \/ /\ n \notin Range(files) /\ Finish(c, ERROR("no_such_file"))
            /\ UNCHANGED <<files, directory, touched>>
      /\ UNCHANGED <<unopened, stored>>

\* Lines 295-300: a PUT whose size has not arrived is closed without an
\* answer.
PartialSize(c) == /\ FirstEvent(c) /\ LineRead(c, "PUT")
                  /\ Len(recv[c]) = 2
                  /\ Finish(c, NONE)
                  /\ UNCHANGED <<files, directory>> /\ UNCHANGED history

\* open() with O_CREAT|O_TRUNC in state 1, with O_APPEND alone in state 2, and
\* the content after the writes that succeed.
Truncate(dir, n) == [m \in DOMAIN dir \cup {n} |-> IF m = n THEN <<>> ELSE dir[m]]
\* MUTANT of AppendTo: the second open() without O_APPEND.
Overwrite(dir, n, blocks) == IF n \in DOMAIN dir THEN [dir EXCEPT ![n] = blocks] ELSE dir
AppendTo(dir, n, blocks) == IF n \in DOMAIN dir THEN [dir EXCEPT ![n] = @ \o blocks] ELSE dir

\* Line 475.  MUTANT: only too much is an error.
SizeNotExceeded(e) == e.bytesfin <= e.filesize
SizeAgrees(e) == e.bytesfin = e.filesize

\* read() returned 0 or an error.  MUTANT: 0 is taken for no data yet.
AtEndIfReset(c) == c \in reset
AtEnd(c) == c \in fin \cup reset

\* Neither open() nor write() is checked.  Either may fail: for the name, for
\* want of room, of descriptors.
MayFail(c, failed) == failed => c \in Faulty
Failed(c, failed) == IF failed THEN {c} ELSE {}

\* Lines 411-487: read until the socket is empty or at its end, write each block
\* and count it, written or not; `kept' are the blocks that are written.  (A
\* block written in part counts as not written.)
ReceiveData(c, e, dir, blocks, kept) ==
  LET entry == [e EXCEPT !.bytesfin = @ + Len(blocks)]
  IN  /\ directory' = AppendTo(dir, e.filename, kept)
      /\ IF AtEnd(c)
         THEN Finish(c, IF SizeAgrees(entry) THEN OK ELSE ERROR("bad_file_size"))
         ELSE /\ clients' = [clients EXCEPT ![fd[c]] = entry]
              /\ recv' = [recv EXCEPT ![c] = <<>>]
              /\ UNCHANGED <<request, endsession, server, fd, backlog, fin, reset, edge, closed, answer>>

\* Lines 282-317: the name is entered in the vector unless the file exists.
\* MUTANT of NewFile: without the stat().
NewFileAlways(n) == Append(files, n)
NewFile(n) == IF n \in DOMAIN directory THEN files ELSE Append(files, n)
HandlePut(c) ==
  LET n == request[c].name
      blocks == SubSeq(recv[c], 4, Len(recv[c]))
  IN  /\ FirstEvent(c) /\ LineRead(c, "PUT") /\ Len(recv[c]) > 2
      /\ files' = NewFile(n)
      /\ \E opened \in BOOLEAN, kept \in Survivors(blocks) :
           /\ MayFail(c, ~opened \/ kept # blocks)
           /\ ~opened => kept = <<>>
           /\ unopened' = IF opened \/ n \in DOMAIN directory THEN unopened
                           ELSE unopened \cup {n}
           /\ touched' = touched \cup Uploading(c, n) \cup Failed(c, ~opened \/ kept # blocks)
           /\ ReceiveData(c, [by |-> c, filename |-> n, filesize |-> request[c].blocks, bytesfin |-> 0],
                          IF opened THEN Truncate(directory, n) ELSE directory, blocks, kept)
      /\ UNCHANGED stored

\* A later event of a descriptor that has an entry, whoever made it.
ContinuePut(c) ==
  LET n == clients[fd[c]].filename
  IN  /\ Event([of |-> c, error |-> FALSE]) /\ HasEntry(c)
      /\ \E kept \in Survivors(recv[c]) :
           /\ MayFail(c, kept # recv[c])
           /\ touched' = touched \cup (IF recv[c] = <<>> THEN {} ELSE Uploading(c, n))
                                 \cup Failed(c, kept # recv[c])
           /\ ReceiveData(c, clients[fd[c]], directory, recv[c], kept)
      /\ UNCHANGED <<files, unopened, stored>>

HandleClient(c) == \/ NoLine(c) \/ PartialLine(c) \/ HandleList(c) \/ HandleGet(c)
                   \/ HandleDelete(c) \/ PartialSize(c) \/ HandlePut(c) \/ ContinuePut(c)

ServerStep == \/ EpollWaitReturns \/ SessionEnds \/ HandleAccept
              \/ \E c \in Clients : HandleError(c) \/ HandleClient(c)
=============================================================================
