--------------------------- MODULE MCStorageServer ---------------------------
(***************************************************************************)
(* Small instances of StorageServer.  All devices belong to one user: two  *)
(* users share only the executors, since sessions, directories and rows    *)
(* are all found by user name.                                             *)
(***************************************************************************)
EXTENDS StorageServer, TLC

CONSTANT u1

OneUser == {u1}
SameUser == [c \in Clients |-> u1]

UpdateRequests == {"UpdateStart", "AddFile", "RemoveFile", "UpdateStop"}
RestoreRequests == {"RestoreVersion", "RestoreFileAck"}
AllRequests == UpdateRequests \cup RestoreRequests \cup {"UpdateFile", "Ping"}
\* A ping only keeps a session from expiring, which it may do anyway.
HazardRequests == AllRequests \ {"Ping"}
Symmetry == Permutations(Tokens) \cup Permutations(Paths)
              \cup Permutations(Data) \cup Permutations(Executors)
              \cup Permutations(Clients)
==============================================================================
