----------------------------- MODULE RateLimit -----------------------------
(***************************************************************************)
(* The rate limits of the public read surface (api/src/limits.rs): each    *)
(* client has a budget for reads and one for the change feed.  A budget is *)
(* a bucket of the governor crate: `debt' is how long it takes to be full  *)
(* again, a request costs one refill interval, and burst intervals fit.    *)
(* A client is a key: the peer address, or the forwarded one.              *)
(*                                                                         *)
(* One tick is the resolution of the interval, a millisecond in the code.  *)
(***************************************************************************)
EXTENDS Integers

CONSTANTS
    Clients,   \* the keys requests are counted under
    Second     \* ticks in a second

ASSUME SecondAssumption == Second \in Nat \ {0}

VARIABLES
    limits,    \* the configured rate (per second) and burst of each budget
    debt,      \* per client and budget: ticks until the bucket is full
    hint       \* ticks left of the latest Retry-After, -1 without one

rateVars == <<limits, debt, hint>>

Budgets == {"read", "feed"}
Limits == [Budgets -> [rate : Nat, burst : Nat]]
NoLimits == [b \in Budgets |-> [rate |-> 0, burst |-> 0]]

AtLeastOne(n) == IF n = 0 THEN 1 ELSE n

\* The refill interval: whole ticks, and never none.
Interval(rate) == AtLeastOne(Second \div AtLeastOne(rate))

\* Limits that would refuse every request are refused at the start.
Usable(l) == \A b \in Budgets : l[b].rate > 0 /\ l[b].burst > 0

Cost(b) == Interval(limits[b].rate)
Capacity(b) == limits[b].burst * Cost(b)

\* How long client c has to wait for its next request, nothing or less if it
\* need not.
Wait(c, b) == debt[c][b] + Cost(b) - Capacity(b)
Admits(c, b) == Wait(c, b) <= 0

\* Mutant: whole seconds as the governor reports them.
RetryAfterFloor(c, b) == Wait(c, b) \div Second

\* The seconds a refused client is told to wait: whole ones, and not none.
RetryAfter(c, b) == AtLeastOne(Wait(c, b) \div Second)

-----------------------------------------------------------------------------
RateInit ==
    /\ limits = NoLimits
    /\ debt = [c \in Clients |-> [b \in Budgets |-> 0]]
    /\ hint = [c \in Clients |-> [b \in Budgets |-> -1]]

\* The router is built: every bucket is full.  What clients were told by a
\* service that ran before, they still wait for.
Configure(l) ==
    /\ Usable(l)
    /\ limits' = l
    /\ debt' = [c \in Clients |-> [b \in Budgets |-> 0]]
    /\ UNCHANGED hint

Admit(c, b) ==
    /\ Usable(limits)
    /\ Admits(c, b)
    /\ debt' = [debt EXCEPT ![c][b] = @ + Cost(b)]
    /\ hint' = [hint EXCEPT ![c][b] = -1]
    /\ UNCHANGED limits

\* 429, with Retry-After.
Refuse(c, b) ==
    /\ Usable(limits)
    /\ ~Admits(c, b)
    /\ hint' = [hint EXCEPT ![c][b] = RetryAfter(c, b) * Second]
    /\ UNCHANGED <<limits, debt>>

\* Mutant: what is spent is refilled beyond the bucket.
DownFree(n) == n - 1

Down(n) == IF n > 0 THEN n - 1 ELSE n

\* Time goes by.
Refill ==
    /\ debt' = [c \in Clients |-> [b \in Budgets |-> Down(debt[c][b])]]
    /\ hint' = [c \in Clients |-> [b \in Budgets |-> Down(hint[c][b])]]
    /\ UNCHANGED limits

RateNext ==
    \/ \E l \in Limits : Configure(l)
    \/ \E c \in Clients, b \in Budgets : Admit(c, b) \/ Refuse(c, b)
    \/ Refill

RateSpec == RateInit /\ [][RateNext]_rateVars

-----------------------------------------------------------------------------
(* Properties. *)

RateTypeOK ==
    /\ limits \in Limits
    /\ debt \in [Clients -> [Budgets -> Nat]]
    /\ hint \in [Clients -> [Budgets -> Nat \cup {-1}]]

\* A refused client that waits as long as it was told, and asks for nothing
\* else, is served: also when the rate does not divide a second, when the rest
\* of its wait is less than one, and when the service was restarted meanwhile.
RetryAfterIsEnough ==
    \A c \in Clients, b \in Budgets : hint[c][b] = 0 => Admits(c, b)

\* The interval is rounded to whole ticks: a client never gets less than the
\* configured rate, and less than twice as much, for every rate the resolution
\* can tell from the next.
RateIsNearlyKept ==
    \A rate \in 1..Second :
        /\ Interval(rate) * rate <= Second
        /\ Second < 2 * Interval(rate) * rate
=============================================================================
