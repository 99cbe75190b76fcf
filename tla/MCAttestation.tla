--------------------------- MODULE MCAttestation ---------------------------
(* Small instances of the attestation service for TLC. *)
EXTENDS AttestationClients, TLC

CONSTANTS u1, a1, a2, c1, r1, r2

\* Rates that do not divide the amounts: 3/2, and 1 with a margin of 2 percent.
ThreeForTwo == [market_rate_num |-> 3, market_rate_den |-> 2, fee_bips |-> 0]
OneAndMargin == [market_rate_num |-> 1, market_rate_den |-> 1, fee_bips |-> 200]

TwoPolicies == {ThreeForTwo, OneAndMargin}
BothSupported == [a \in Assets |-> ThreeForTwo]

\* One unit of Fee Juice; more than a contract argument can pay for; and a cold
\* start whose deposit does not cover it.
SomeQuotes ==
  {QuoteHash(a1, fj, 0, 0, u1) : fj \in {1, 4}}
    \cup {ColdStartQuoteHash(a1, 2, 0, 0, u1, 2, c1)}

Symmetry == Permutations(Requests)
=============================================================================
