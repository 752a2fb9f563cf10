------------------------------ MODULE MCTransfer ------------------------------
(***************************************************************************)
(* Small instances of Transfer: two users, two handlers, months of two     *)
(* days, and limits of the size of a couple of transfers.  The first user  *)
(* has a level that the table does not know.                               *)
(***************************************************************************)
EXTENDS Transfer, TLC

CONSTANTS p1, p2, k1, k2, k3, k4, k5

MCProcs == {p1, p2}
MCUsers == {1, 2}
P2P(from, to, n, k) ==
    [op |-> "p2p", from |-> from, to |-> to, amount |-> n, currency |-> "USD",
     key |-> k]
TopUp(to, n, k) ==
    [op |-> "topup", from |-> External, to |-> to, amount |-> n, currency |-> "USD",
     key |-> k]

(* One key per payment intent, as the app sends them; user 9 is unknown    *)
(* or has not verified a phone.                                            *)
MCCalls == {TopUp(1, 6, k1), P2P(1, 2, 3, k2), P2P(1, 2, 1, k3), P2P(1, 2, 1, k4),
            P2P(2, 1, 3, k5), P2P(1, 9, 1, k5),
            [P2P(1, 2, 1, k5) EXCEPT !.currency = "XXX"]}
MCRequests == {PostingInput(c) : c \in MCCalls}
MCSupported == {"USD"}
MCLevel == <<7, 0>>
MCLimits == [l \in 0..1 |-> [daily |-> 3 + 3 * l, monthly |-> 4 + 3 * l]]
(* Fewer calls, enough for two payments that each fit and do not together. *)
RaceCalls == {TopUp(1, 4, k1), P2P(1, 2, 3, k2), P2P(1, 2, 2, k3)}
RichCalls == {TopUp(1, 6, k1), P2P(1, 2, 3, k2), P2P(1, 2, 2, k3)}
RaceRequests == {PostingInput(c) : c \in RaceCalls}
RichRequests == {PostingInput(c) : c \in RichCalls}
Generous == [l \in {0} |-> [daily |-> 7, monthly |-> 7]]

Symmetry == Permutations(MCProcs)
===============================================================================
