----------------------------- MODULE MC_CallChains -----------------------------
(* A process with two threads, for the run of CallChains.                   *)
EXTENDS CallChains, TLC

CONSTANTS p, t1, t2

Processes == {p}
Apps == {t1, t2}
Home == (t1 :> p) @@ (t2 :> p)
=============================================================================
