----------------------------- MODULE MCDispatch -----------------------------
(* Instances of Dispatch for TLC: two descriptors and two pool threads. *)
EXTENDS Dispatch, TLC

CONSTANTS f1, f2, w1, w2

MCFds == {f1, f2}
MCWorkers == {w1, w2}

Symmetric == Permutations(MCFds) \cup Permutations(MCWorkers)
=============================================================================
