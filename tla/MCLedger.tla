------------------------------- MODULE MCLedger -------------------------------
(***************************************************************************)
(* A small instance of Ledger.  Int64 has four bits (-8 .. 7), so that     *)
(* wrapping and bigint overflow happen with amounts that fit on a page.    *)
(***************************************************************************)
EXTENDS Ledger, TLC

CONSTANTS p1, p2, k1, k2, external, unknown

MCProcs == {p1, p2}
MCKeys == {k1, k2}
MCWallets == {1, 2}
MCSystem == {external}

Entry(a, d, n) == [account |-> a, direction |-> d, amount |-> n, currency |-> "USD"]
Transfer(k, from, to, n) ==
    [key |-> k, entries |-> <<Entry(from, "debit", n), Entry(to, "credit", n)>>]

(* Two payloads under one key, transfers in opposite directions, and a     *)
(* top-up that exceeds what bigint holds after one of them.                *)
Contended == {Transfer(k1, 2, 1, 1), Transfer(k1, external, 2, 7),
              Transfer(k2, 1, 2, 2)}

(* What must be refused: a missing system account, a single leg, int64     *)
(* nets that wrap to zero (7 + 7 + 2 = 16); and a posting with no wallet.  *)
Odd == {Transfer(k1, unknown, 1, 1),
        [key |-> k1, entries |-> <<Entry(1, "credit", 1)>>],
        [key |-> k1, entries |-> <<Entry(1, "credit", 7), Entry(1, "credit", 7),
                                   Entry(2, "credit", 2)>>],
        Transfer(k2, external, external, 2)}

MCRequests == Contended \cup Odd
===============================================================================
