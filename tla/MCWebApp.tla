------------------------------- MODULE MCWebApp -------------------------------
(***************************************************************************)
(* A small instance of WebApp: the seeded account and one other number,    *)
(* and two or three calls of the mock at a time.                           *)
(***************************************************************************)
EXTENDS WebApp, TLC

CONSTANTS a, b, c

MCPhones == {1, 2}
MCFlows == {a, b, c}
Symmetry == Permutations(MCFlows)
===============================================================================
