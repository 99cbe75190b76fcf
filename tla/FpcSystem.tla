----------------------------- MODULE FpcSystem -----------------------------
(***************************************************************************)
(* The payment path as one system: clients ask the attestation service for *)
(* quotes, at the price of gas the node reports (sdk/payment-method.ts),   *)
(* and prove and send transactions that the FPC contract pays for.  The     *)
(* admin API changes nothing the chain sees; it is left to                 *)
(* AttestationClients.                                                     *)
(***************************************************************************)
EXTENDS AttestationService, FpcContract

CONSTANT MaxQuotes   \* bound: once as many are signed, no client asks for another

\* config.ts and main.nr agree on the longest validity.
ASSUME ValidityAssumption == QuoteValidity <= MaxTtl

vars == <<quoteVars, attestVars, chainVars>>

TypeOK == AttestTypeOK /\ ChainTypeOK

Init == AttestInit /\ ChainInit

MayAsk == Cardinality(signed) < MaxQuotes

\* createPaymentMethod: the quote is asked for the cost of the gas limits at the
\* current minimum fees.
AskPayment(r, user, asset) ==
  /\ MayAsk
  /\ AskQuote(r, QuoteHash(asset, MaxFee(baseFee), 0, 0, user))
  /\ UNCHANGED chainVars

\* executeColdStart: with the amount and the secret hash of the user's deposit.
AskColdStart(r, user, asset, c) ==
  /\ MayAsk
  /\ AskQuote(r, ColdStartQuoteHash(asset, MaxFee(baseFee), 0, 0, user,
                                    Deposited[c].amount, c))
  /\ UNCHANGED chainVars

Next ==
  \/ \E r \in Requests, u \in Users, a \in Assets :
       \/ AskPayment(r, u, a)
       \/ \E c \in Claims : AskColdStart(r, u, a, c)
  \/ (StartStep \/ \E r \in Requests : QuoteStep(r)) /\ UNCHANGED chainVars
  \/ ChainStep /\ UNCHANGED attestVars
  \/ NextBlock /\ UNCHANGED <<attestVars, chainVars>>

Spec == Init /\ [][Next]_vars

-----------------------------------------------------------------------------

\* What the service answers, the contract accepts: a wallet that is in sync can
\* use a quote in every block until it expires, the first one included (server.ts
\* checks the deposit and bounds the validity; main.nr asserts both again).
Accepted(quote) ==
  clock <= quote.until =>
    /\ AssertValidQuote(quote, clock)
    /\ FitsU128(quote.aa)
    /\ quote.domain = "FPCs" => quote.amount >= quote.aa

FreshQuotesAccepted == \A b \in basis : Accepted(b.answer)

\* Nobody pays a price that is out of date: when a transaction is included, the
\* store held the policy its quote was priced by at most QuoteValidity ago,
\* however long handlers, provers and mempools took.
StalePriceNeverPaid ==
  [][\A t \in Txs :
       ~Included(t) /\ Included(t)' =>
         \E b \in basis : b.quote = tx[t].quote /\ clock <= b.at + QuoteValidity]_vars

Payments == INSTANCE FeePayments WITH
  time <- clock, offered <- signed, spent <- spentQuotes, redeemed <- consumed,
  purse <- feeJuice, held <- tokens

\* Whatever handlers, proofs, replays, expirations and reverts do in between, the
\* FPC pays fees only in steps that pay the operator: for a quote of its own, once,
\* in time, and for no more Fee Juice than was quoted (protocol-spec.md).
PaymentsAreAtomic == Payments!PaymentSpec
=============================================================================
