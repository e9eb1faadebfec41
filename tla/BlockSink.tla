------------------------------ MODULE BlockSink ------------------------------
(***************************************************************************)
(* What the block worker promises the rest of the runtime: a block that was *)
(* handed to Worker::Add is written to ETW, exactly once, whatever calls to *)
(* Start and Stop happen in between.  No order is promised here; the order  *)
(* that callers who serialise their calls get is in BlockQueue.             *)
(***************************************************************************)
EXTENDS Naturals, Sequences, Functions

CONSTANT Blocks      \* the blocks that may be handed over

VARIABLES
    waiting,         \* blocks accepted and not yet written
    written          \* blocks in the order they were written

vars == <<waiting, written>>

Init ==
    /\ waiting = {}
    /\ written = <<>>

\* Worker.h:21, Add: the caller gives up a block it has not given before.
Accept(b) ==
    /\ b \notin waiting \cup Range(written)
    /\ waiting' = waiting \cup {b}
    /\ UNCHANGED written

\* An accepted block reaches ETW and is gone.
Write(b) ==
    /\ b \in waiting
    /\ waiting' = waiting \ {b}
    /\ written' = Append(written, b)

Next == \E b \in Blocks : Accept(b) \/ Write(b)

\* No accepted block waits for ever.
Spec == Init /\ [][Next]_vars /\ \A b \in Blocks : WF_vars(Write(b))
=============================================================================
