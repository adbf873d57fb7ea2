-------------------------- MODULE MCBackupDispatch --------------------------
(* Instances of BackupDispatch for TLC.  The bounds keep the proportions   *)
(* of the code, where 10 candidates are read, the channel holds 20 and     *)
(* there are 3 workers.                                                    *)
EXTENDS BackupDispatch

ASSUME ProportionsAssumption == Cardinality(Broken) < Limit /\ Limit <= Capacity
=============================================================================
