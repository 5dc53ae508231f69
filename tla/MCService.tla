----------------------------- MODULE MCService -----------------------------
(***************************************************************************)
(* Instances of Service for TLC: a second has three ticks, so that an      *)
(* interval can be a whole second, a part of one, or rounded.              *)
(***************************************************************************)
EXTENDS Service, TLC

CONSTANTS p, s1, s2, k1

\* The health check, a record, the change feed, and a batch: the look-up of the
\* credential, then a transaction.
MixedRoutes ==
    { [budget |-> "none", plan |-> << >>], [budget |-> "read", plan |-> <<1>>],
      [budget |-> "feed", plan |-> <<1, 1>>], [budget |-> "none", plan |-> <<1, 2>>] }

Each(readRate, readBurst, feedRate, feedBurst) ==
    [b \in Budgets |-> IF b = "read" THEN [rate |-> readRate, burst |-> readBurst]
                                     ELSE [rate |-> feedRate, burst |-> feedBurst]]

Started(l, statementTimeout) ==
    [url |-> TRUE, secret |-> 32, limits |-> l,
     requestTimeout |-> 1, statementTimeout |-> statementTimeout]

\* Usable ones, with and without a statement timeout, and ones that are refused.
MixedConfigs ==
    { Started(Each(4, 1, 1, 2), 1), Started(Each(1, 1, 2, 1), 0),
      Started(Each(1, 0, 1, 1), 1), Started(Each(0, 1, 1, 1), 1),
      [Started(Each(1, 1, 1, 1), 1) EXCEPT !.secret = 31],
      [Started(Each(1, 1, 1, 1), 1) EXCEPT !.url = FALSE] }
=============================================================================
