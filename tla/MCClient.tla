------------------------------- MODULE MCClient -------------------------------
(***************************************************************************)
(* Small instances of Client: two flows, an idle window of one tick and an *)
(* absolute one of two.                                                    *)
(***************************************************************************)
EXTENDS Client, TLC

CONSTANTS f1, f2

MCFlows == {f1, f2}
Symmetry == Permutations(MCFlows)
===============================================================================
