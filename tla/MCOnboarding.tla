----------------------------- MODULE MCOnboarding -----------------------------
(***************************************************************************)
(* Small instances of Onboarding: two handlers, one phone (every statement *)
(* selects by phone or by id, so that phones do not interact), two codes,  *)
(* a single allowed attempt, and one address for everybody, as behind the  *)
(* proxy of the deployment.                                                *)
(***************************************************************************)
EXTENDS Onboarding, TLC

CONSTANTS p1, p2, c1, c2, a, proxy

MCProcs == {p1, p2}
MCCodes == {c1, c2}
OnePhone == {a}
OneClient == {proxy}

Symmetry == Permutations(MCProcs) \cup Permutations(MCCodes)
===============================================================================
