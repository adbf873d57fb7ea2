---------------------------- MODULE CommandQueue ----------------------------
(***************************************************************************)
(* What the commands table promises, whatever threads work on it and       *)
(* whichever of its calls fail: a command is recorded as PENDING, or not   *)
(* at all, may be sent any number of times, and becomes SENT once, for     *)
(* good, and only after it was sent.                                       *)
(***************************************************************************)
EXTENDS Integers, Sequences

CONSTANTS Devices, MaxCommands

VARIABLES
    rows,     \* the commands in the order they were made
    written   \* the commands some send has reported as delivered

queueVars == <<rows, written>>

Init == rows = <<>> /\ written = {}

Record(d) ==
    /\ Len(rows) < MaxCommands
    /\ \E s \in {"PENDING", "UNSAVED"} :
          rows' = Append(rows, [device |-> d, status |-> s])
    /\ UNCHANGED written

Send(c) ==
    /\ written' = written \union {c}
    /\ UNCHANGED rows

MarkSent(c) ==
    /\ c \in written
    /\ rows' = [rows EXCEPT ![c].status = "SENT"]
    /\ UNCHANGED written

Next ==
    \/ \E d \in Devices : Record(d)
    \/ \E c \in DOMAIN rows : Send(c) \/ MarkSent(c)

Spec == Init /\ [][Next]_queueVars
=============================================================================
