------------------------------ MODULE MCTokens ------------------------------
(* A small instance of the token's way for TLC. *)
EXTENDS TokenFlow, TLC

CONSTANTS u1, d1, d2, k1, k2

\* One deposit that a cold start splits, one that it uses up.
TwoAndOne == [d \in Deposits |-> IF d = d1 THEN 2 ELSE 1]

\* Bound: a behaviour has a second call or a second deposit.
CallOrDeposit == call[k2].at = "idle" \/ message[d2].stage = "none"
MCSpec == Init /\ [][Next /\ CallOrDeposit']_vars /\ Fairness
=============================================================================
