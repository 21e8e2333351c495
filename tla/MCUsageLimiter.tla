--------------------------- MODULE MCUsageLimiter ---------------------------
(* Values for the constants of UsageLimiter. *)
EXTENDS UsageLimiter

CONSTANTS w1, w2, w3, p1

OneToken == [t \in Turns |-> 1]

\* The answer to w1 costs no tokens: its model reports none.
OneFree  == [t \in Turns |-> IF t = w1 THEN 0 ELSE 1]
=============================================================================
