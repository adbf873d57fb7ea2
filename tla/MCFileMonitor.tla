--------------------------- MODULE MCFileMonitor ---------------------------
(* Instances of FileMonitor for TLC.  With two places for a file not every *)
(* change can make one, and a failure gives a file a second uuid at most.  *)
EXTENDS FileMonitor

CONSTANTS dir, wild   \* a directory dir, and files named d_r

(* When the file d_r is gone, the pattern "d_r/%" matches dir/d_r too.     *)
LookAlikes == {<<<<Root, wild>>, <<dir, wild>>>>}

ASSUME EnoughIds == Cardinality(Ids) >= MaxChanges + MaxTroubles
=============================================================================
