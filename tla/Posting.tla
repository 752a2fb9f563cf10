------------------------------- MODULE Posting -------------------------------
(***************************************************************************)
(* The arithmetic of one posting: what ledger.Validate accepts, which      *)
(* wallets a posting touches, the cache delta Engine.Post computes for     *)
(* each of them in int64, and the exact sums that PostgreSQL's numeric     *)
(* sum() computes in the deferred trigger and in the balance view.         *)
(*                                                                         *)
(* An entry is a record [account, direction, amount, currency].  A user    *)
(* wallet is named by its row id, an element of Wallets; every other       *)
(* account is a system account.  A posting input is a record               *)
(* [key, entries], its entries a sequence.                                 *)
(***************************************************************************)
EXTENDS Integers, Sequences, FiniteSetsExt

CONSTANTS
    Wallets,    \* the ids of the user-wallet rows, whether created yet or not
    Half        \* an int64 ranges over -Half .. Half-1 (2^63 in the code)

(* Row ids are ordered, and there are finitely many: one is the greatest. *)
ASSUME WalletsAssumption ==
    /\ Wallets \subseteq Nat
    /\ \E n \in Wallets \cup {0} : \A w \in Wallets : w <= n
ASSUME HalfAssumption == Half \in Nat \ {0}

Int64 == -Half .. (Half - 1)

(* What an int64 operation leaves of the exact result n. *)
Wrap(n) == ((n + Half) % (2 * Half)) - Half

Directions == {"debit", "credit"}

(* The amount an entry adds to its account: credits add, debits subtract. *)
Signed(e) == IF e.direction = "credit" THEN e.amount ELSE -e.amount

IsSystem(e) == e.account \notin Wallets

Accounts(r) == {r.entries[i].account : i \in DOMAIN r.entries}
Currencies(r) == {r.entries[i].currency : i \in DOMAIN r.entries}

(* lockSet of resolveAccounts: the distinct user wallets of a posting. *)
WalletsOf(r) == Accounts(r) \cap Wallets

(* Exact sum of the signed amounts of the entries at the positions in S. *)
SumOver(r, S) == SumFunction([i \in S |-> Signed(r.entries[i])])

Net(r, cur) == SumOver(r, {i \in DOMAIN r.entries : r.entries[i].currency = cur})
Effect(r, acc) == SumOver(r, {i \in DOMAIN r.entries : r.entries[i].account = acc})

(* ledger.Validate: its per-currency nets are int64 and may wrap to zero. *)
Validate(r) ==
    /\ Len(r.entries) >= 2
    /\ \A i \in DOMAIN r.entries :
          /\ r.entries[i].amount > 0
          /\ r.entries[i].direction \in Directions
    /\ \A cur \in Currencies(r) : Wrap(Net(r, cur)) = 0

(* fn_journal_balanced: the trigger sums the bigint column as a numeric. *)
Balanced(r) == \A cur \in Currencies(r) : Net(r, cur) = 0

(* The cache delta of a wallet, accumulated by Engine.Post in an int64. *)
Delta(r, w) == Wrap(Effect(r, w))
=============================================================================
