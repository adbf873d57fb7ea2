------------------------- MODULE MCRestoreTransfer -------------------------
(* Instances of RestoreTransfer for TLC. *)
EXTENDS RestoreTransfer

(* Version 1 is longer than version 2, so that a .part file of the one may *)
(* have a tail behind the end of the other.                                *)
TwoVersions == <<<<"a1", "a2">>, <<"b1">>>>
=============================================================================
