----------------------------- MODULE RateLimiter -----------------------------
(***************************************************************************)
(* The fixed-window limiter of backend/internal/middleware/ratelimit.go:   *)
(* one counter per client address, in the memory of the API process.       *)
(*                                                                         *)
(* A client is what clientIP returns, the address of the last hop: every   *)
(* browser behind one proxy is the same client.                            *)
(***************************************************************************)
EXTENDS Integers, Sequences, FiniteSets

CONSTANTS
    Clients,      \* the remote addresses
    Limit,        \* requests a window admits
    Window,       \* how long a window lasts
    LastTick      \* bound: the last instant of a behaviour

ASSUME LimiterAssumption ==
    /\ Limit \in Nat \ {0} /\ Window \in Nat \ {0} /\ LastTick \in Nat

VARIABLES
    now,          \* the clock
    counters,     \* each client's window, [count, reset]
    admitted      \* when each client's requests were admitted, in order

limiter == <<now, counters, admitted>>

(* A client without a window: reset lies before every instant. *)
NoWindow == [count |-> 0, reset |-> -1]

LimiterInit ==
    /\ now = 0
    /\ counters = [cl \in Clients |-> NoWindow]
    /\ admitted = [cl \in Clients |-> <<>>]

(* The process restarts, with an empty map. *)
NewLimiter ==
    /\ counters' = [cl \in Clients |-> NoWindow]
    /\ admitted' = [cl \in Clients |-> <<>>]
    /\ UNCHANGED now

Tick == now < LastTick /\ now' = now + 1 /\ UNCHANGED <<counters, admitted>>

-------------------------------------------------------------------------------
(* Mutation of Fresh: !now.Before(win.reset), a window that ends early.    *)
MutFresh(cl) == now >= counters[cl].reset

(* !ok || now.After(win.reset) *)
Fresh(cl) == now > counters[cl].reset

Allow(cl) == Fresh(cl) \/ counters[cl].count < Limit

Counted(cl) ==
    IF Fresh(cl) THEN [count |-> 1, reset |-> now + Window]
                 ELSE [counters[cl] EXCEPT !.count = @ + 1]

Admit(cl) ==
    /\ Allow(cl)
    /\ counters' = [counters EXCEPT ![cl] = Counted(cl)]
    /\ admitted' = [admitted EXCEPT ![cl] = Append(@, now)]
    /\ UNCHANGED now

(* 429: the refused request is not counted. *)
Refuse(cl) == ~Allow(cl) /\ UNCHANGED limiter

-------------------------------------------------------------------------------
LimiterTypeOK ==
    /\ now \in 0..LastTick
    /\ counters \in [Clients -> [count : 0..Limit, reset : -1..(LastTick + Window)]]
    /\ admitted \in [Clients -> Seq(0..LastTick)]

(* The requests of a client that were admitted from t to t + Window. *)
AdmittedFrom(cl, t) ==
    Cardinality({i \in DOMAIN admitted[cl] : admitted[cl][i] \in t..(t + Window)})

(* What "limit requests per window" comes to: a fixed window may be spent  *)
(* at its end and the next one at its start, so any stretch of a window's  *)
(* length admits up to 2 * Limit - 1 requests of a client, and no more.    *)
BudgetKept == \A cl \in Clients, t \in 0..now : AdmittedFrom(cl, t) < 2 * Limit

(* Whoever is refused had its Limit admitted within the last window.       *)
RefusedForCause(cl) == AdmittedFrom(cl, now - Window) >= Limit
===============================================================================
