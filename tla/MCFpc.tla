------------------------------- MODULE MCFpc -------------------------------
(* Small instances of the payment path for TLC. *)
EXTENDS FpcSystem, TLC

CONSTANTS u1, u2, a1, a2, c1, c2, r1, r2, t1, t2, t3

\* Two units of Fee Juice for one of the asset: what one unit costs is rounded up.
OneForTwo == [market_rate_num |-> 1, market_rate_den |-> 2, fee_bips |-> 0]

OnePolicy == {OneForTwo}
AllSupported == [a \in Assets |-> OneForTwo]
DepositsOfTwo == [c \in Claims |-> [asset |-> IF c = c2 THEN a2 ELSE a1, amount |-> 2]]

Symmetry == Permutations(Senders) \cup Permutations(Claims) \cup Permutations(Txs)
              \cup Permutations(Requests)
=============================================================================
