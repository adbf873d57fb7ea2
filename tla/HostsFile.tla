----------------------------- MODULE HostsFile -----------------------------
(***************************************************************************)
(* The hosts file of a device as the blocker edits it: lines of the user   *)
(* and, between two markers, a line for each blocked domain.  The lines    *)
(* for a domain and its www name are one here.  A map of Go is walked in   *)
(* any order; nothing depends on the order of the lines in the block.      *)
(***************************************************************************)
EXTENDS Integers, Sequences, SequencesExt

CONSTANTS
    Start, End,     \* blockMarkerStart, blockMarkerEnd
    Scrap           \* the beginning of a line that was not written to its end

InBlock(lines, i) ==
    \E j \in 1..i : lines[j] = Start /\ \A k \in j..i : lines[k] # End

(* A block that is not closed reaches to the end of the file.              *)
Kept(lines) == {i \in DOMAIN lines : lines[i] \notin {Start, End} /\ ~InBlock(lines, i)}

Nth(at, n) == CHOOSE i \in at : Cardinality(at \intersect 1..i) = n

removeBlockSection(lines) ==
    [n \in 1..Cardinality(Kept(lines)) |-> lines[Nth(Kept(lines), n)]]

Block(domains) == IF domains = {} THEN <<>> ELSE <<Start>> \o SetToSeq(domains) \o <<End>>

\* Slip: appending the block to the file as it was read.
applyBlocksAppended(lines, domains) == lines \o Block(domains)

applyBlocks(lines, domains) == removeBlockSection(lines) \o Block(domains)

(* What the file holds when the writing of lines ends early: the bytes up  *)
(* to some place, perhaps inside a line, which is then no marker any more. *)
PartsOf(lines) ==
    {SubSeq(lines, 1, n) : n \in 0..Len(lines)}
      \union {Append(SubSeq(lines, 1, n), Scrap) : n \in 0..Len(lines) - 1}

(* What the resolver does not reach.                                       *)
Blocked(lines) ==
    {lines[i] : i \in {j \in DOMAIN lines : InBlock(lines, j)}} \ {Start, Scrap}
=============================================================================
