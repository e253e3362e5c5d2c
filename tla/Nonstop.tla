------------------------------- MODULE Nonstop -------------------------------
(***************************************************************************)
(* The server of module NonstopServer together with its clients, processes *)
(* running nonstop_networking/client.c, one request each.  A client writes *)
(* its request, shuts down its side of the connection and reads the answer *)
(* to the end.  Writing and the arrival of what was written are one        *)
(* action: TCP keeps the order and cuts where it likes.                    *)
(***************************************************************************)
EXTENDS NonstopServer

CONSTANTS Requests,   \* the requests a client may be started with
          MaxLeaves   \* bound: how many clients may break off

ASSUME RequestsAssumption ==
  \A r \in Requests : /\ r.verb \in {"LIST", "GET", "PUT", "DELETE"}
                      /\ r.verb = "PUT" => r.blocks \in Nat

\* What the dictionary may hold of an upload; NONE is no entry.
Entries == [by : Clients, filename : {r.name : r \in {q \in Requests : q.verb = "PUT"}},
            filesize : Nat, bytesfin : Nat]
ASSUME EntriesAssumption == NONE \notin Entries

VARIABLES client,   \* where the client is in main(), or how it ended
          sent,     \* how much of its request has arrived
          local     \* the local file a GET writes

vars == <<request, endsession, server, batch, clients, files, directory,
          fd, backlog, recv, fin, reset, edge, closed, answer,
          touched, unopened, stored, client, sent, local>>

Ends == {"success", "error", "invalid", "incomplete", "killed", "failed"}

Init == /\ ServerInit
        /\ request \in [Clients -> Requests]
        /\ client = [c \in Clients |-> "new"]
        /\ sent = [c \in Clients |-> 0]
        /\ local = [c \in Clients |-> NONE]

-----------------------------------------------------------------------------
\* A change on a connection epoll watches.
Notify(c) == edge' = IF Accepted(c) THEN edge \cup {c} ELSE edge

Become(c, s) == client' = [client EXCEPT ![c] = s]

\* connect_to_server(), lines 362-381.
Connect(c) == /\ client[c] = "new" /\ server # "exited"
              /\ Become(c, "sending")
              /\ backlog' = Append(backlog, c)
              /\ UNCHANGED <<request, fd, recv, fin, reset, edge, closed, answer, sent, local>>
              /\ UNCHANGED server_vars /\ UNCHANGED history

ConnectFails(c) == /\ client[c] = "new" /\ server = "exited"
                   /\ Become(c, "failed")
                   /\ UNCHANGED <<request, sent, local>>
                   /\ UNCHANGED server_vars /\ UNCHANGED socket_vars /\ UNCHANGED history

\* More of the request is written and reaches the server.
Send(c) == /\ client[c] = "sending" /\ c \notin closed
           /\ \E upto \in sent[c] + 1 .. Len(Message(c)) :
                /\ sent' = [sent EXCEPT ![c] = upto]
                /\ recv' = [recv EXCEPT ![c] = @ \o SubSeq(Message(c), sent[c] + 1, upto)]
           /\ Notify(c)
           /\ UNCHANGED <<request, fd, backlog, fin, reset, closed, answer, client, local>>
           /\ UNCHANGED server_vars /\ UNCHANGED history

\* shutdown(socket, SHUT_WR).
Shutdown(c) == /\ client[c] = "sending" /\ sent[c] = Len(Message(c))
               /\ Become(c, "waiting")
               /\ IF c \in closed THEN UNCHANGED <<fin, edge>>
                  ELSE fin' = fin \cup {c} /\ Notify(c)
               /\ UNCHANGED <<request, fd, backlog, recv, reset, closed, answer, sent, local>>
               /\ UNCHANGED server_vars /\ UNCHANGED history

\* What main() makes of an answer.
Complete(a) == Len(a.data) = a.size
Judge(c, a) ==
  CASE a = NONE -> "invalid"
    [] a # NONE /\ a.status = "ERROR" -> "error"
    [] a # NONE /\ a.status = "OK" /\ request[c].verb \in {"PUT", "DELETE"} -> "success"
    [] a # NONE /\ a.status = "OK" /\ request[c].verb \in {"GET", "LIST"} ->
         IF a.size = NONE THEN "invalid"
         ELSE IF Complete(a) THEN "success" ELSE "incomplete"

Received(c, a) == IF a # NONE /\ a.status = "OK" /\ request[c].verb = "GET" /\ a.size # NONE
                  THEN a.data ELSE NONE

\* The answer is read up to the end of the connection.
ReadAnswer(c) == /\ client[c] = "waiting" /\ c \in closed
                 /\ Become(c, Judge(c, answer[c]))
                 /\ local' = [local EXCEPT ![c] = Received(c, answer[c])]
                 /\ UNCHANGED <<request, sent>>
                 /\ UNCHANGED server_vars /\ UNCHANGED socket_vars /\ UNCHANGED history

\* The server has closed the connection before it read all that was sent, so
\* that the connection is reset: the client may still see the answer, may lose
\* it, or may die of SIGPIPE, which it does not ignore.
CutOff(c) == /\ client[c] = "sending" /\ c \in closed /\ sent[c] < Len(Message(c))
             /\ \/ /\ Become(c, Judge(c, answer[c]))
                   /\ local' = [local EXCEPT ![c] = Received(c, answer[c])]
                \/ /\ client' \in {[client EXCEPT ![c] = e] : e \in {"invalid", "killed"}}
                   /\ UNCHANGED local
             /\ UNCHANGED <<request, sent>>
             /\ UNCHANGED server_vars /\ UNCHANGED socket_vars /\ UNCHANGED history

\* The client dies or (PUT without a readable local file, lines 166-177) gives
\* up: the kernel ends its side of the connection, or the connection is reset.
Leave(c) == /\ client[c] \in {"sending", "waiting"}
            /\ Cardinality({x \in Clients : client[x] \in {"killed", "failed"}}) < MaxLeaves
            /\ \/ client[c] = "sending" /\ sent[c] = 0 /\ request[c].verb = "PUT" /\ Become(c, "failed")
               \/ Become(c, "killed")
            /\ IF c \in closed THEN UNCHANGED <<fin, reset, edge>>
               ELSE /\ \/ fin' = fin \cup {c} /\ UNCHANGED reset
                       \/ reset' = reset \cup {c} /\ UNCHANGED fin
                    /\ Notify(c)
            /\ UNCHANGED <<request, fd, backlog, recv, closed, answer, sent, local>>
            /\ UNCHANGED server_vars /\ UNCHANGED history

ClientStep(c) == Connect(c) \/ ConnectFails(c) \/ Send(c) \/ Shutdown(c) \/ ReadAnswer(c) \/ CutOff(c)

ServerSteps == ServerStep /\ UNCHANGED <<client, sent, local>>

Next == \/ ServerSteps
        \/ Interrupt /\ UNCHANGED <<client, sent, local>>
        \/ \E c \in Clients : ClientStep(c) \/ Leave(c)

Spec == Init /\ [][Next]_vars

\* The server's thread and the clients that live keep running; nobody has to
\* interrupt the server or die.
Fairness == WF_vars(ServerSteps) /\ \A c \in Clients : WF_vars(ClientStep(c))

-----------------------------------------------------------------------------
\* The vector of names and the directory while the server runs: every file is
\* listed, whatever uploads were begun, broken off, repeated or deleted; and but
\* for names an upload listed and then failed to create, which may have no file
\* or stand there twice, every name is that of a file and stands there once.  So
\* when the server exits on SIGINT, at whatever moment that comes, the directory
\* has been emptied and the rmdir() in cleanup() succeeds.
FilesMatchDirectory ==
  IF server = "exited" THEN DOMAIN directory = {}
  ELSE /\ DOMAIN directory \subseteq Range(files)
       /\ Range(files) \subseteq DOMAIN directory \cup unopened
       /\ \A i, j \in DOMAIN files : files[i] = files[j] => i = j \/ files[i] \in unopened

\* In an upload in progress every block that arrived is counted once or waits to
\* be read; and if no other request has interfered and no system call has failed,
\* the counted blocks are in the file, in order.  A GET that ends without a
\* complaint has written exactly the file the server had when it served the
\* request, although the server gives up writes that would block: the size it
\* announced exposes every loss.
TransfersIntact ==
  \A c \in Clients :
    /\ (Accepted(c) /\ HasEntry(c) /\ clients[fd[c]].by = c) =>
         LET e == clients[fd[c]]
         IN  /\ e.bytesfin + Len(recv[c]) + 3 = sent[c]
             /\ c \notin touched =>
                  /\ e.filename \in DOMAIN directory
                  /\ directory[e.filename] = SubSeq(Data(c), 1, e.bytesfin)
    /\ (client[c] = "success" /\ request[c].verb = "GET") => local[c] = stored[c]

\* The server answers OK to a PUT only when the file is then exactly what the
\* client sent, if no other upload or deletion of that name came in between and
\* no open() or write() of it failed: those failures alone go unnoticed.
PutStored ==
  [][\A c \in Clients :
       (/\ answer[c] = NONE /\ answer'[c] = OK
        /\ request[c].verb = "PUT" /\ c \notin touched'
        /\ HasEntry(c) => clients[fd[c]].by = c)
       => /\ request[c].name \in DOMAIN directory'
          /\ directory'[request[c].name] = Data(c)]_vars

\* An entry of the dictionary belongs to an open connection, or it was left
\* behind by one that was reset in the middle of an upload.
StaleOnlyAfterReset ==
  \A d \in Descriptors : clients[d] # NONE =>
    LET c == clients[d].by
    IN  fd[c] = d \/ (c \in closed /\ c \in reset)

\* Every client that has connected comes to an end: no event is lost to the
\* edge-triggered epoll, and the server leaves no connection open.
EveryClientEnds == \A c \in Clients : client[c] = "sending" ~> client[c] \in Ends
=============================================================================
