-------------------------- MODULE MCBackupTransfer --------------------------
(* Instances of BackupTransfer for TLC. *)
EXTENDS BackupTransfer, TLC

Symmetry == Permutations(Threads) \union Permutations(Values)

(* A file that goes on beyond its head, and a user who changes nothing but *)
(* what is there: neither the size nor the head, by which a resumed upload *)
(* is accepted.                                                            *)
BeyondHead == Len(file') = Len(file) /\ Head64K(file') = Head64K(file)

BeyondHeadSpec == Init /\ Len(file) = MaxSize /\ [][Next /\ BeyondHead]_vars
=============================================================================
