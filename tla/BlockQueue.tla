----------------------------- MODULE BlockQueue ------------------------------
(***************************************************************************)
(* What the block worker promises callers who serialise their calls, as     *)
(* EtwWriter does with its own lock: blocks are written in the order they   *)
(* were added, and when Stop returns every block added before is written.   *)
(***************************************************************************)
EXTENDS Naturals, Sequences

CONSTANT Blocks

VARIABLES
    queue,           \* blocks accepted and not yet written, oldest first
    written          \* blocks in the order they were written

vars == <<queue, written>>

Init ==
    /\ queue = <<>>
    /\ written = <<>>

Accept(b) ==
    /\ queue' = Append(queue, b)
    /\ UNCHANGED written

Write ==
    /\ queue # <<>>
    /\ written' = Append(written, Head(queue))
    /\ queue' = Tail(queue)

Next == Write \/ \E b \in Blocks : Accept(b)

Spec == Init /\ [][Next]_vars /\ WF_vars(Write)
=============================================================================
