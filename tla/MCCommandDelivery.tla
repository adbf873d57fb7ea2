------------------------- MODULE MCCommandDelivery -------------------------
(* Instances of CommandDelivery for TLC. *)
EXTENDS CommandDelivery, TLC

FdSymmetry == Permutations(Fds)

(* A server that has just been started with the first command of the table *)
(* still PENDING, as a crash before the sender's turn leaves it: only a    *)
(* drain can send that command.                                            *)
QueuedInit ==
    /\ Init
    /\ \E d \in Devices : rows = <<[device |-> d, status |-> "PENDING"]>>
    /\ AtRest
    /\ written = {}
    /\ dbErrors = 0 /\ missed = {}

QueuedSpec == QueuedInit /\ [][CDNext]_vars
=============================================================================
