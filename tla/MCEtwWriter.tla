----------------------------- MODULE MCEtwWriter -----------------------------
(***************************************************************************)
(* EtwWriter for TLC.  Application threads are interchangeable: no          *)
(* definition tells one from another, so runs that check safety only need   *)
(* one state out of those that differ by a renaming.                        *)
(***************************************************************************)
EXTENDS EtwWriter, TLC

ThreadSymmetry == Permutations(AppThreads)
=============================================================================
