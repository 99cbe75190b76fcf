------------------------ MODULE AttestationService ------------------------
(***************************************************************************)
(* The attestation service: its asset policies in LMDB                     *)
(* (asset-policy-store.ts), the handlers of /quote, /cold-start-quote and  *)
(* of the admin API (server.ts), and its restarts.                         *)
(*                                                                         *)
(* Handlers interleave at their awaits.  LMDB applies writes after the     *)
(* call that made them, in order; a read sees what has been applied.       *)
(***************************************************************************)
EXTENDS Quotes, Sequences, FiniteSets

CONSTANTS
  Policies,         \* asset policies an operator may set
  NoPolicy,         \* the asset is not in the store
  Supported,        \* config.supported_assets: an asset's policy or NoPolicy
  QuoteValidity,    \* config.quote_validity_seconds
  QuoteFormat,      \* config.quote_format
  Requests,         \* bound: HTTP requests handled at the same time
  Idle              \* nothing is handled

ASSUME PolicyAssumption ==
  Policies \subseteq
    [market_rate_num : Nat \ {0}, market_rate_den : Nat \ {0}, fee_bips : 0..10000]

ASSUME AttestationAssumption ==
  /\ NoPolicy \notin Policies
  /\ IsFiniteSet(Assets)
  /\ Supported \in [Assets -> Policies \cup {NoPolicy}]
  /\ QuoteValidity \in Nat \ {0}
  /\ QuoteFormat \in {"amount_quote", "rate_quote"}

VARIABLES
  policies,    \* what a read of the LMDB store returns
  seeding,     \* assets of the config that the constructor has yet to put
  writes,      \* writes that LMDB has not applied yet, in order
  handler,     \* handler[r]: the quote or admin request handled as r
  managed,     \* history: an admin request has changed the store
  basis        \* history: what was answered and signed, by which policy, and when

storeVars == <<policies, seeding, writes, managed>>
attestVars == <<storeVars, handler, basis>>

Configured == {a \in Assets : Supported[a] # NoPolicy}
Stored == {a \in Assets : policies[a] # NoPolicy}

\* The first start, on an empty store.
AttestInit ==
  /\ clock = 0
  /\ signed = {}
  /\ policies = [a \in Assets |-> NoPolicy]
  /\ seeding = Configured
  /\ writes = <<>>
  /\ handler = [r \in Requests |-> Idle]
  /\ managed = FALSE
  /\ basis = {}

\* The server listens once its store is made.
Free(r) == seeding = {} /\ handler[r] = Idle

Handling(r, stage) == handler[r] # Idle /\ handler[r].stage = stage
Respond(r) == handler' = [handler EXCEPT ![r] = Idle]

-----------------------------------------------------------------------------

\* /quote and /cold-start-quote: the node answers with the latest block.  A
\* request names what it asks for; its amount and moment are filled in later.
AskQuote(r, asked) ==
  /\ Free(r)
  /\ handler' = [handler EXCEPT ![r] = [stage |-> "timed", quote |-> asked, now |-> clock]]
  /\ UNCHANGED <<quoteVars, storeVars, basis>>

UntilTooLong(r) == handler[r].now + QuoteValidity + 1 \* mutant: an off-by-one validity
ValidUntil(r) == handler[r].now + QuoteValidity

\* What the handlers refuse: an asset that is not supported, amounts that are
\* zero or too large, and a deposit that does not cover the payment.
Payable(asked, policy) ==
  /\ FitsU128(asked.fj)
  /\ policy # NoPolicy
  /\ FitsU128(AaPayment(policy, asked.fj))
  /\ asked.domain = "FPCs" => asked.amount >= AaPayment(policy, asked.fj)

\* The request is parsed and priced by the policy the store holds now; then the
\* sender is registered with the operator's PXE, which may fail or take long.
PriceQuote(r) ==
  /\ Handling(r, "timed")
  /\ LET asked == handler[r].quote
         policy == policies[asked.asset]
     IN /\ Payable(asked, policy)
        /\ handler' = [handler EXCEPT ![r] =
             [stage |-> "priced", policy |-> policy, at |-> clock,
              quote |-> [asked EXCEPT !.aa = AaPayment(policy, asked.fj),
                                      !.until = ValidUntil(r)]]]
  /\ UNCHANGED <<quoteVars, storeVars, basis>>

RejectQuote(r) ==
  /\ Handling(r, "timed")
  /\ ~Payable(handler[r].quote, policies[handler[r].quote.asset])
  /\ Respond(r)
  /\ UNCHANGED <<quoteVars, storeVars, basis>>

\* With quote_format "rate_quote" the rate takes the place of the amounts of a
\* /quote, under the same domain separator; a cold-start quote names its amounts
\* in either format.
NamesAmounts(quote) == QuoteFormat = "amount_quote" \/ quote.domain = "FPCs"

SignedForm(quote, policy) ==
  IF NamesAmounts(quote) THEN quote
  ELSE [quote EXCEPT !.fj = RateNum(policy), !.aa = RateDen(policy)]

\* The answer carries the amounts, and the signature.
SignQuote(r) ==
  /\ Handling(r, "priced")
  /\ LET answer == handler[r].quote
         policy == handler[r].policy
         made == SignedForm(answer, policy)
     IN /\ signed' = signed \cup {made}
        /\ basis' = basis \cup {[answer |-> answer, quote |-> made, policy |-> policy,
                                at |-> handler[r].at]}
  /\ Respond(r)
  /\ UNCHANGED <<clock, storeVars>>

\* The signer throws: the answer is an internal error.
SignFails(r) ==
  /\ Handling(r, "priced")
  /\ Respond(r)
  /\ UNCHANGED <<quoteVars, storeVars, basis>>

-----------------------------------------------------------------------------

\* seen: the assets in the store as the request is handled.
Write(r, asset, policy) ==
  /\ writes' = Append(writes, [by |-> r, asset |-> asset, policy |-> policy,
                               seen |-> Stored])
  /\ handler' = [handler EXCEPT ![r] = [stage |-> "writing"]]

\* PUT /admin/asset-policies
Upsert(r, asset, policy) ==
  /\ Free(r)
  /\ Write(r, asset, policy)
  /\ UNCHANGED <<quoteVars, policies, seeding, managed, basis>>

\* DELETE /admin/asset-policies: what is left is counted before the removal is
\* applied.  A refusal changes nothing.
RemoveLastToo(r, asset) == \* mutant: an off-by-one in the count
  /\ Free(r)
  /\ Cardinality(Stored) > 0
  /\ asset \in Stored
  /\ Write(r, asset, NoPolicy)
  /\ UNCHANGED <<quoteVars, policies, seeding, managed, basis>>
Remove(r, asset) ==
  /\ Free(r)
  /\ Cardinality(Stored) > 1
  /\ asset \in Stored
  /\ Write(r, asset, NoPolicy)
  /\ UNCHANGED <<quoteVars, policies, seeding, managed, basis>>

\* LMDB applies the first write that waits, and its handler responds.
ApplyWrite ==
  /\ writes # <<>>
  /\ policies' = [policies EXCEPT ![Head(writes).asset] = Head(writes).policy]
  /\ writes' = Tail(writes)
  /\ managed' = TRUE
  /\ Respond(Head(writes).by)
  /\ UNCHANGED <<quoteVars, seeding, basis>>

\* LMDB rejects it: the handler answers with an error.
WriteFails ==
  /\ writes # <<>>
  /\ writes' = Tail(writes)
  /\ Respond(Head(writes).by)
  /\ UNCHANGED <<quoteVars, policies, seeding, managed, basis>>

\* The process dies, if only while it starts, and starts again.
ToSeedAlways == Configured \* mutant: the store is filled at every start
ToSeed == IF Stored = {} THEN Configured ELSE {}

Restart ==
  /\ seeding' = ToSeed
  /\ writes' = <<>>
  /\ handler' = [r \in Requests |-> Idle]
  /\ UNCHANGED <<quoteVars, policies, managed, basis>>

\* The constructor puts one asset of the config: each put is durable by itself.
Seed(asset) ==
  /\ asset \in seeding
  /\ policies' = [policies EXCEPT ![asset] = Supported[asset]]
  /\ seeding' = seeding \ {asset}
  /\ UNCHANGED <<quoteVars, writes, handler, managed, basis>>

QuoteStep(r) == PriceQuote(r) \/ RejectQuote(r) \/ SignQuote(r) \/ SignFails(r)

StartStep == Restart \/ \E asset \in Assets : Seed(asset)

AdminStep(r) ==
  \E asset \in Assets :
    \/ \E policy \in Policies : Upsert(r, asset, policy)
    \/ Remove(r, asset)

-----------------------------------------------------------------------------

Handlings ==
  [stage : {"timed"}, quote : QuoteRecords, now : Clocks]
    \cup [stage : {"priced"}, quote : QuoteRecords, policy : Policies, at : Clocks]
    \cup [stage : {"writing"}]

ASSUME IdleAssumption == Idle \notin Handlings

Writes == [by : Requests, asset : Assets, policy : Policies \cup {NoPolicy},
           seen : SUBSET Assets]

AttestTypeOK ==
  /\ clock \in Clocks
  /\ signed \subseteq QuoteRecords
  /\ policies \in [Assets -> Policies \cup {NoPolicy}]
  /\ seeding \subseteq Configured
  /\ writes \in Seq(Writes)
  /\ handler \in [Requests -> Handlings \cup {Idle}]
  /\ managed \in BOOLEAN
  /\ basis \subseteq
       [answer : QuoteRecords, quote : QuoteRecords, policy : Policies, at : Clocks]

\* The store is never emptied (asset-policy-store.ts: "Cannot remove the last
\* supported asset"; services/attestation/README.md: "The last remaining asset
\* cannot be removed").
LastAssetStays == [][Stored # {} => Stored' # {}]_attestVars

\* What empties the store, if anything does, is a removal that counted other
\* assets than it leaves behind: another write was applied in between.
EmptiedOnlyByStaleCount ==
  [][Stored # {} /\ Stored' = {} =>
       writes # <<>> /\ Head(writes).seen # Stored]_attestVars

\* What an operator has set for an asset stays over restarts: only an admin
\* request for that asset changes or removes a policy that is in the store.
AdminPoliciesSurvive ==
  [][\A a \in Stored :
       policies'[a] # policies[a] =>
         /\ writes # <<>>
         /\ Head(writes).asset = a
         /\ Head(writes).policy = policies'[a]]_attestVars

\* Once an admin request has changed the store, the config fills it no more
\* (services/attestation/README.md: "after the first admin mutation it becomes
\* the authoritative supported-asset source across restarts").
StoreIsAuthoritative == managed => seeding = {}

\* An answer charges the least amount that is worth its Fee Juice at the rate it
\* was priced by, in either format: the operator never subsidises, and no user
\* pays a unit more than the rounding takes.
PricedUp ==
  \A b \in basis :
    LET worth == b.answer.fj * RateNum(b.policy)
    IN /\ b.answer.aa * RateDen(b.policy) >= worth
       /\ (b.answer.aa - 1) * RateDen(b.policy) < worth
=============================================================================
