---------------------------- MODULE ReplicatedLog ----------------------------
(***************************************************************************)
(* What the synchronisation of the file history promises: a log grows on   *)
(* the device, its entries reach the server in any number of copies, and   *)
(* the device counts an entry as synchronised only when the server has it  *)
(* and all before it.                                                      *)
(***************************************************************************)
EXTENDS Integers, Sequences

CONSTANT Entries

VARIABLES
    log,        \* the entries, numbered from 1
    delivered,  \* the numbers of those the server has
    acked       \* the last one counted as synchronised

vars == <<log, delivered, acked>>

Init == log = <<>> /\ delivered = {} /\ acked = 0

Append1(e) == log' = Append(log, e) /\ UNCHANGED <<delivered, acked>>

Deliver ==
    /\ \E batch \in SUBSET DOMAIN log : delivered' = delivered \union batch
    /\ UNCHANGED <<log, acked>>

Acknowledge ==
    /\ acked' \in {n \in DOMAIN log : acked < n /\ 1..n \subseteq delivered}
    /\ UNCHANGED <<log, delivered>>

Next == (\E e \in Entries : Append1(e)) \/ Deliver \/ Acknowledge

Spec == Init /\ [][Next]_vars
=============================================================================
