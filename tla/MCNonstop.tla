----------------------------- MODULE MCNonstop -----------------------------
(* Requests on one contended name.                                          *)
EXTENDS Nonstop

Put(n, k) == [verb |-> "PUT", name |-> n, blocks |-> k]
MCRequests == {[verb |-> "LIST"], [verb |-> "GET", name |-> "f"], [verb |-> "DELETE", name |-> "f"],
               Put("f", 2)}

\* The clients are alike but for Faulty, which concerns uploads: of an upload and
\* another request, the upload may as well be the faulty client's.
FaultyUploads ==
  (\E c \in Clients : request[c].verb = "PUT") => \A c \in Faulty : request[c].verb = "PUT"

SuiteInit == Init /\ FaultyUploads
SuiteSpec == SuiteInit /\ [][Next]_vars /\ Fairness
=============================================================================
