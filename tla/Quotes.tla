------------------------------- MODULE Quotes -------------------------------
(***************************************************************************)
(* Fee quotes: what the attestation service signs (services/attestation)   *)
(* and the FPC contract verifies (contracts/fpc).  A quote fixes an amount *)
(* of an asset for an amount of Fee Juice, for one user and until one      *)
(* moment.                                                                 *)
(*                                                                         *)
(* The Poseidon hash of a quote is the record of its preimage: distinct    *)
(* preimages have distinct hashes.  A signature by the operator's key is   *)
(* the membership of that record in signed.  One FPC is modelled, so its   *)
(* address is left out of the preimage.                                    *)
(***************************************************************************)
EXTENDS Integers

CONSTANTS
  Users,      \* accounts that pay fees through the FPC
  Assets,     \* tokens that may be accepted
  Claims,     \* L1 -> L2 deposits of those tokens, by their claim secret
  NoClaim,    \* a quote that is for no deposit
  U128Max,    \* largest amount a contract argument holds
  MaxClock    \* bound: the last block timestamp

ASSUME QuotesAssumption ==
  /\ U128Max \in Nat
  /\ MaxClock \in Nat
  /\ NoClaim \notin Claims

VARIABLES
  clock,      \* timestamp of the latest block
  signed      \* quotes the operator's key has signed

quoteVars == <<clock, signed>>

Clocks == 0..MaxClock
Domains == {"FPC", "FPCs"}

QuoteRecords ==
  [domain : Domains, asset : Assets, fj : Nat, aa : Nat, until : Nat,
   user : Users, amount : Nat, claim : Claims \cup {NoClaim}]

\* Preimage of computeQuoteHash and assert_valid_quote.
QuoteHash(asset, fj, aa, until, user) ==
  [domain |-> "FPC", asset |-> asset, fj |-> fj, aa |-> aa, until |-> until,
   user |-> user, amount |-> 0, claim |-> NoClaim]

\* Preimage of computeColdStartQuoteHash and assert_valid_cold_start_quote.
ColdStartQuoteHash(asset, fj, aa, until, user, amount, claim) ==
  [domain |-> "FPCs", asset |-> asset, fj |-> fj, aa |-> aa, until |-> until,
   user |-> user, amount |-> amount, claim |-> claim]

-----------------------------------------------------------------------------

\* A policy is a market rate, asset units for Fee Juice, and the operator's
\* margin in basis points.
RateNum(policy) == policy.market_rate_num * (10000 + policy.fee_bips)
RateDen(policy) == policy.market_rate_den * 10000

CeilDiv(numerator, denominator) == (numerator + denominator - 1) \div denominator

\* computeQuotePricing: what fj of Fee Juice cost, rounded in the operator's
\* favour.
FloorPayment(policy, fj) == (fj * RateNum(policy)) \div RateDen(policy) \* mutant: rounds down
AaPayment(policy, fj) == CeilDiv(fj * RateNum(policy), RateDen(policy))

FitsU128(amount) == amount \in 1..U128Max

-----------------------------------------------------------------------------

\* A block is added.
NextBlock ==
  /\ clock < MaxClock
  /\ clock' = clock + 1
  /\ UNCHANGED signed
=============================================================================
