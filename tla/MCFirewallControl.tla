------------------------- MODULE MCFirewallControl -------------------------
(* Instances of FirewallControl for TLC. *)
EXTENDS FirewallControl

CONSTANT a    \* a domain

OffOrOn == {[enabled |-> FALSE, domains |-> {}], [enabled |-> TRUE, domains |-> {a}]}
=============================================================================
