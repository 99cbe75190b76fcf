------------------------- MODULE AttestationProofs -------------------------
(***************************************************************************)
(* Lemmas about the attestation service: its arithmetic, the types of its  *)
(* handlers, and what every quote it signs has been checked for.  They     *)
(* serve the theorems of FpcProofs and AdminProofs.                        *)
(***************************************************************************)
EXTENDS AttestationService, TLAPS

\* A quote the service answers, priced by policy at moment at.
Sound(q, policy, at) ==
  /\ q.fj >= 1
  /\ FitsU128(q.aa)
  /\ q.domain = "FPCs" => q.amount >= q.aa
  /\ q.aa = AaPayment(policy, q.fj)
  /\ at <= clock
  /\ q.until <= at + QuoteValidity

HandlersSound ==
  \A r \in Requests :
    /\ Handling(r, "timed") => handler[r].now <= clock
    /\ Handling(r, "priced") => Sound(handler[r].quote, handler[r].policy, handler[r].at)

SignedSound ==
  /\ \A b \in basis : /\ Sound(b.answer, b.policy, b.at)
                     /\ b.quote = SignedForm(b.answer, b.policy)
                     /\ b.quote \in signed
  /\ \A q \in signed : \E b \in basis : b.quote = q

AttestInv == HandlersSound /\ SignedSound

-----------------------------------------------------------------------------
(* Rates and prices. *)

\* config.ts accepts no validity of zero seconds.
LEMMA QuoteValidityNat == QuoteValidity \in Nat
  BY AttestationAssumption

\* computeFinalRate gives a positive rate for every policy the admin API accepts.
LEMMA RatesPositive ==
  ASSUME NEW p \in Policies
  PROVE  RateNum(p) \in Nat \ {0} /\ RateDen(p) \in Nat \ {0}
<1> DEFINE bips == p.fee_bips
<1>1. p \in [market_rate_num : Nat \ {0}, market_rate_den : Nat \ {0}, fee_bips : 0..10000]
  BY PolicyAssumption
<1>2. /\ p.market_rate_num \in Nat \ {0}
      /\ p.market_rate_den \in Nat \ {0}
      /\ bips \in 0..10000
  BY <1>1
<1> HIDE DEF bips
<1>3. 10000 + bips \in Nat \ {0}
  BY <1>2
<1>4. p.market_rate_num * (10000 + bips) \in Nat \ {0}
  BY <1>2, <1>3
<1>5. p.market_rate_den * 10000 \in Nat \ {0}
  BY <1>2
<1> QED
  BY <1>4, <1>5 DEF RateNum, RateDen, bips

\* ceilDiv is the least number of parts of size d that cover n.
LEMMA CeilDivCovers ==
  ASSUME NEW n \in Nat, NEW d \in Nat \ {0}
  PROVE  /\ CeilDiv(n, d) \in Nat
         /\ CeilDiv(n, d) * d >= n
         /\ (CeilDiv(n, d) - 1) * d < n
<1> DEFINE k == (n + d - 1) \div d
           m == (n + d - 1) % d
<1>1. k \in Nat /\ m \in 0..(d - 1) /\ n + d - 1 = k * d + m
  OBVIOUS
<1>2. CeilDiv(n, d) = k
  BY DEF CeilDiv
<1> HIDE DEF k, m
<1>3. (k - 1) * d = k * d - d
  BY <1>1
<1> QED
  BY <1>1, <1>2, <1>3

\* computeQuotePricing charges the least whole amount that is worth the Fee Juice.
LEMMA AaPaymentCovers ==
  ASSUME NEW p \in Policies, NEW fj \in Nat
  PROVE  /\ AaPayment(p, fj) \in Nat
         /\ AaPayment(p, fj) * RateDen(p) >= fj * RateNum(p)
         /\ (AaPayment(p, fj) - 1) * RateDen(p) < fj * RateNum(p)
<1>1. RateNum(p) \in Nat /\ RateDen(p) \in Nat \ {0}
  BY RatesPositive
<1>2. fj * RateNum(p) \in Nat
  BY <1>1
<1> QED
  BY <1>1, <1>2, CeilDivCovers DEF AaPayment

-----------------------------------------------------------------------------
(* Types. *)

Timed == [stage : {"timed"}, quote : QuoteRecords, now : Clocks]
Priced == [stage : {"priced"}, quote : QuoteRecords, policy : Policies, at : Clocks]

\* The stage of a handler tells what it holds.
LEMMA HandledTypes ==
  ASSUME AttestTypeOK, NEW r \in Requests
  PROVE  /\ Handling(r, "timed") => handler[r] \in Timed
         /\ Handling(r, "priced") => handler[r] \in Priced
<1>1. handler[r] \in Handlings \cup {Idle}
  BY DEF AttestTypeOK
<1> QED
  BY <1>1 DEF Handling, Handlings, Timed, Priced

\* The preimages are quotes.
LEMMA HashTypes ==
  ASSUME NEW asset \in Assets, NEW fj \in Nat, NEW aa \in Nat, NEW until \in Nat,
         NEW user \in Users, NEW amount \in Nat, NEW claim \in Claims \cup {NoClaim}
  PROVE  /\ QuoteHash(asset, fj, aa, until, user) \in QuoteRecords
         /\ ColdStartQuoteHash(asset, fj, aa, until, user, amount, claim) \in QuoteRecords
  BY DEF QuoteRecords, Domains, QuoteHash, ColdStartQuoteHash

\* The rate in the place of the amounts makes a quote too; until, user and deposit
\* are those of the answer.
LEMMA SignedFormIs ==
  ASSUME NEW q \in QuoteRecords, NEW p \in Policies
  PROVE  /\ SignedForm(q, p) \in QuoteRecords
         /\ SignedForm(q, p).until = q.until
         /\ SignedForm(q, p).domain = q.domain
         /\ NamesAmounts(q) => SignedForm(q, p) = q
         /\ ~NamesAmounts(q) => /\ SignedForm(q, p).fj = RateNum(p)
                               /\ SignedForm(q, p).aa = RateDen(p)
<1> DEFINE num == RateNum(p)
           den == RateDen(p)
           rated == [q EXCEPT !.fj = num, !.aa = den]
<1>1. num \in Nat /\ den \in Nat
  BY RatesPositive
<1> HIDE DEF num, den
<1>2. /\ rated \in QuoteRecords /\ rated.until = q.until /\ rated.domain = q.domain
      /\ rated.fj = num /\ rated.aa = den
  BY <1>1 DEF QuoteRecords
<1>3. SignedForm(q, p) = IF NamesAmounts(q) THEN q ELSE rated
  BY DEF SignedForm, num, den
<1> HIDE DEF rated
<1> QED
  BY <1>2, <1>3 DEF num, den

\* What is signed is for some Fee Juice and some of the asset, lasts no longer than
\* its answer, and a cold start's deposit covers it.
LEMMA SignedFormSound ==
  ASSUME NEW q \in QuoteRecords, NEW p \in Policies, NEW at, Sound(q, p, at)
  PROVE  /\ SignedForm(q, p).fj >= 1
         /\ SignedForm(q, p).aa >= 1
         /\ SignedForm(q, p).domain = "FPCs" =>
              SignedForm(q, p).amount >= SignedForm(q, p).aa
<1>1. RateNum(p) >= 1 /\ RateDen(p) >= 1
  BY RatesPositive
<1>2. q.fj >= 1 /\ q.aa >= 1
  BY DEF Sound, FitsU128
<1>3. CASE NamesAmounts(q)
  BY <1>2, <1>3, SignedFormIs DEF Sound
<1>4. CASE ~NamesAmounts(q)
  BY <1>1, <1>4, SignedFormIs DEF NamesAmounts
<1> QED
  BY <1>3, <1>4

\* A request that was just read, blank but for what it asks for.
LEMMA AskTypes ==
  ASSUME AttestTypeOK, NEW r \in Requests, NEW q \in QuoteRecords, AskQuote(r, q)
  PROVE  AttestTypeOK'
<1>1. [stage |-> "timed", quote |-> q, now |-> clock] \in Handlings
  BY DEF AttestTypeOK, Handlings
<1> QED
  BY <1>1 DEF AskQuote, AttestTypeOK, quoteVars, storeVars

\* A step of a quote's handler keeps the types.
LEMMA ServiceTypes ==
  ASSUME AttestTypeOK, NEW r \in Requests, QuoteStep(r)
  PROVE  AttestTypeOK'
<1> USE DEF AttestTypeOK
<1>1. CASE PriceQuote(r)
  <2> DEFINE asked == handler[r].quote
             policy == policies[asked.asset]
             quote == [asked EXCEPT !.aa = AaPayment(policy, asked.fj), !.until = ValidUntil(r)]
  <2>1. asked \in QuoteRecords /\ handler[r].now \in Nat /\ asked.asset \in Assets
        /\ asked.fj \in Nat
    BY <1>1, HandledTypes, QuotesAssumption DEF PriceQuote, Timed, Clocks, QuoteRecords
  <2>2. policy \in Policies
    BY <1>1, <2>1 DEF PriceQuote, Payable
  <2>3. /\ AaPayment(policy, asked.fj) \in Nat
        /\ ValidUntil(r) \in Nat
    <3>1. AaPayment(policy, asked.fj) \in Nat
      BY <2>1, <2>2, AaPaymentCovers
    <3>2. ValidUntil(r) \in Nat
      BY <2>1, QuoteValidityNat DEF ValidUntil
    <3> QED
      BY <3>1, <3>2
  <2>4. quote \in QuoteRecords
    BY <2>1, <2>3 DEF QuoteRecords
  <2>5. [stage |-> "priced", policy |-> policy, at |-> clock, quote |-> quote] \in Handlings
    BY <2>2, <2>4 DEF Handlings
  <2>6. handler' = [handler EXCEPT ![r] =
                      [stage |-> "priced", policy |-> policy, at |-> clock, quote |-> quote]]
    BY <1>1 DEF PriceQuote
  <2> QED
    BY <1>1, <2>5, <2>6 DEF PriceQuote, quoteVars, storeVars
<1>2. CASE RejectQuote(r) \/ SignFails(r)
  BY <1>2 DEF RejectQuote, SignFails, Respond, quoteVars, storeVars
<1>3. CASE SignQuote(r)
  <2> DEFINE answer == handler[r].quote
             policy == handler[r].policy
             made == [answer |-> answer, quote |-> SignedForm(answer, policy),
                      policy |-> policy, at |-> handler[r].at]
  <2>1. handler[r] \in Priced
    BY <1>3, HandledTypes DEF SignQuote
  <2>2. answer \in QuoteRecords /\ policy \in Policies /\ handler[r].at \in Clocks
    BY <2>1 DEF Priced
  <2>3. SignedForm(answer, policy) \in QuoteRecords
    BY <2>2, SignedFormIs
  <2>4. made \in [answer : QuoteRecords, quote : QuoteRecords, policy : Policies, at : Clocks]
    BY <2>2, <2>3
  <2>5. /\ signed' = signed \cup {SignedForm(answer, policy)}
        /\ basis' = basis \cup {made}
        /\ handler' = [handler EXCEPT ![r] = Idle]
        /\ UNCHANGED <<clock, policies, seeding, writes, managed>>
    BY <1>3 DEF SignQuote, Respond, storeVars
  <2> HIDE DEF made
  <2> QED
    BY <2>3, <2>4, <2>5
<1> QED
  BY <1>1, <1>2, <1>3 DEF QuoteStep

\* A start keeps the types: the config's policies have them too.
LEMMA StartTypes ==
  ASSUME AttestTypeOK, StartStep
  PROVE  AttestTypeOK'
<1>1. CASE Restart
  BY <1>1 DEF AttestTypeOK, Restart, ToSeed, quoteVars
<1>2. CASE \E asset \in Assets : Seed(asset)
  BY <1>2, AttestationAssumption DEF AttestTypeOK, Seed, quoteVars
<1> QED
  BY <1>1, <1>2 DEF StartStep

-----------------------------------------------------------------------------
(* What the service prices is sound, and what it signs it has priced. *)

\* Blocks only add to the moments that are past.
LEMMA AttestKept ==
  ASSUME AttestTypeOK, AttestInv, UNCHANGED attestVars, signed' = signed,
         clock' = clock \/ clock' = clock + 1
  PROVE  AttestInv'
<1>1. clock \in Nat
  BY QuotesAssumption DEF AttestTypeOK, Clocks
<1>2. HandlersSound'
  <2> SUFFICES ASSUME NEW r \in Requests
               PROVE  /\ Handling(r, "timed") => handler[r].now <= clock'
                      /\ Handling(r, "priced") =>
                           Sound(handler[r].quote, handler[r].policy, handler[r].at)'
    BY DEF HandlersSound, attestVars, Handling
  <2>1. Handling(r, "timed") => handler[r].now \in Nat /\ handler[r].now <= clock
    BY HandledTypes, QuotesAssumption DEF AttestTypeOK, AttestInv, HandlersSound, Timed, Clocks
  <2>2. Handling(r, "priced") =>
          /\ handler[r].at \in Nat
          /\ Sound(handler[r].quote, handler[r].policy, handler[r].at)
    BY HandledTypes, QuotesAssumption DEF AttestTypeOK, AttestInv, HandlersSound, Priced, Clocks
  <2> QED
    BY <1>1, <2>1, <2>2 DEF Sound, attestVars
<1>3. SignedSound'
  <2>1. \A b \in basis : /\ b.at \in Nat /\ Sound(b.answer, b.policy, b.at)
                        /\ b.quote = SignedForm(b.answer, b.policy)
                        /\ b.quote \in signed
    BY QuotesAssumption DEF AttestTypeOK, AttestInv, SignedSound, Clocks
  <2> QED
    BY <1>1, <2>1 DEF AttestInv, SignedSound, Sound, attestVars
<1> QED
  BY <1>2, <1>3 DEF AttestInv

\* A request that was just read names the latest block.
LEMMA AskSound ==
  ASSUME AttestTypeOK, AttestInv, NEW r \in Requests, NEW q, AskQuote(r, q)
  PROVE  AttestInv'
<1>1. clock \in Nat /\ clock' = clock
  BY QuotesAssumption DEF AttestTypeOK, Clocks, AskQuote, quoteVars
<1>2. HandlersSound'
  BY <1>1 DEF AskQuote, AttestTypeOK, AttestInv, HandlersSound, Handling, Sound
<1>3. SignedSound'
  BY <1>1 DEF AskQuote, AttestInv, SignedSound, Sound, quoteVars
<1> QED
  BY <1>2, <1>3 DEF AttestInv

\* The validity counts from the block the handler asked for, and the store is
\* read no earlier than that.
LEMMA PriceSound ==
  ASSUME AttestTypeOK, AttestInv, NEW r \in Requests, PriceQuote(r)
  PROVE  AttestInv'
<1> DEFINE asked == handler[r].quote
           policy == policies[asked.asset]
           aa == AaPayment(policy, asked.fj)
           quote == [asked EXCEPT !.aa = aa, !.until = ValidUntil(r)]
<1>1. /\ handler[r] \in Timed
      /\ handler[r].now <= clock
      /\ clock' = clock
      /\ handler' = [handler EXCEPT ![r] =
                       [stage |-> "priced", policy |-> policy, at |-> clock, quote |-> quote]]
      /\ Payable(asked, policy)
  BY HandledTypes DEF PriceQuote, AttestTypeOK, AttestInv, HandlersSound, quoteVars
<1>2. clock \in Nat /\ handler[r].now \in Nat /\ asked \in QuoteRecords
  BY <1>1, QuotesAssumption DEF AttestTypeOK, Timed, Clocks
<1>3. /\ quote.aa = aa /\ quote.fj = asked.fj /\ quote.until = ValidUntil(r)
      /\ quote.domain = asked.domain /\ quote.amount = asked.amount
  BY <1>2 DEF QuoteRecords
<1>4. ValidUntil(r) <= clock + QuoteValidity
  BY <1>1, <1>2, QuoteValidityNat DEF ValidUntil
<1>5. Sound(quote, policy, clock)
  <2> HIDE DEF quote, policy, aa
  <2>1. asked.fj \in Nat /\ asked.fj >= 1
    BY <1>1, <1>2 DEF Payable, FitsU128, QuoteRecords
  <2>2. FitsU128(aa) /\ aa = AaPayment(policy, asked.fj)
    BY <1>1 DEF Payable, aa
  <2>3. asked.domain = "FPCs" => asked.amount >= aa
    BY <1>1 DEF Payable, aa
  <2> QED
    BY <1>2, <1>3, <1>4, <2>1, <2>2, <2>3 DEF Sound
<1>6. HandlersSound'
  <2> SUFFICES ASSUME NEW s \in Requests
               PROVE  /\ Handling(s, "timed")' => handler'[s].now <= clock'
                      /\ Handling(s, "priced")' =>
                           Sound(handler'[s].quote, handler'[s].policy, handler'[s].at)
    BY <1>1 DEF HandlersSound, Sound
  <2>1. CASE s = r
    <3> HIDE DEF quote, policy, aa
    <3>1. handler'[s] = [stage |-> "priced", policy |-> policy, at |-> clock, quote |-> quote]
      BY <1>1, <2>1 DEF AttestTypeOK
    <3> QED
      BY <1>5, <3>1 DEF Handling
  <2>2. CASE s # r
    BY <1>1, <2>2 DEF AttestTypeOK, AttestInv, HandlersSound, Handling
  <2> QED
    BY <2>1, <2>2
<1>7. SignedSound'
  BY <1>1 DEF PriceQuote, AttestInv, SignedSound, Sound, quoteVars
<1> QED
  BY <1>6, <1>7 DEF AttestInv

\* What is signed was priced.
LEMMA SignSound ==
  ASSUME AttestTypeOK, AttestInv, NEW r \in Requests, RejectQuote(r) \/ SignFails(r) \/ SignQuote(r)
  PROVE  AttestInv'
<1>1. CASE RejectQuote(r) \/ SignFails(r)
  BY <1>1 DEF RejectQuote, SignFails, Respond, AttestTypeOK, AttestInv, HandlersSound,
              SignedSound, Handling, Sound, quoteVars
<1>2. CASE SignQuote(r)
  <2> DEFINE answer == handler[r].quote
             policy == handler[r].policy
             made == [answer |-> answer, quote |-> SignedForm(answer, policy),
                      policy |-> policy, at |-> handler[r].at]
  <2>1. clock' = clock /\ signed' = signed \cup {made.quote} /\ basis' = basis \cup {made}
    BY <1>2 DEF SignQuote
  <2>2. Sound(made.answer, made.policy, made.at)
        /\ made.quote = SignedForm(made.answer, made.policy)
    BY <1>2 DEF SignQuote, AttestInv, HandlersSound
  <2>3. SignedSound'
    <3> HIDE DEF made
    <3>1. ASSUME NEW b \in basis'
          PROVE  /\ Sound(b.answer, b.policy, b.at)'
                 /\ b.quote = SignedForm(b.answer, b.policy) /\ b.quote \in signed'
      BY <2>1, <2>2, <3>1 DEF AttestInv, SignedSound, Sound
    <3>2. \A q \in signed' : \E b \in basis' : b.quote = q
      BY <2>1 DEF AttestInv, SignedSound
    <3> QED
      BY <3>1, <3>2 DEF SignedSound
  <2>4. HandlersSound'
    BY <1>2, <2>1 DEF SignQuote, Respond, AttestTypeOK, AttestInv, HandlersSound,
                      Handling, Sound
  <2> QED
    BY <2>3, <2>4 DEF AttestInv
<1> QED
  BY <1>1, <1>2

\* A restart forgets the requests, not what was signed.
LEMMA AttestKeptByStart ==
  ASSUME AttestInv, StartStep
  PROVE  AttestInv'
<1>1. CASE Restart
  BY <1>1 DEF Restart, AttestInv, HandlersSound, SignedSound, Handling, Sound, quoteVars
<1>2. CASE \E asset \in Assets : Seed(asset)
  BY <1>2 DEF Seed, AttestInv, HandlersSound, SignedSound, Handling, Sound, quoteVars
<1> QED
  BY <1>1, <1>2 DEF StartStep

\* Every signed quote is for some Fee Juice and some of the asset, and ends with the
\* validity of the policy it was priced by.
LEMMA SignedQuotes ==
  ASSUME AttestTypeOK, AttestInv, NEW q \in signed
  PROVE  /\ q \in QuoteRecords /\ q.fj >= 1 /\ q.aa >= 1
         /\ q.domain = "FPCs" => q.amount >= q.aa
         /\ \E b \in basis : b.quote = q /\ q.until <= b.at + QuoteValidity
<1>1. PICK b \in basis : /\ b.quote = q /\ Sound(b.answer, b.policy, b.at)
                        /\ b.quote = SignedForm(b.answer, b.policy)
  BY DEF AttestInv, SignedSound
<1>2. b.answer \in QuoteRecords /\ b.policy \in Policies /\ q \in QuoteRecords
  BY DEF AttestTypeOK
<1>3. q.until = b.answer.until
  BY <1>1, <1>2, SignedFormIs
<1>4. q.until <= b.at + QuoteValidity
  BY <1>1, <1>3 DEF Sound
<1> QED
  BY <1>1, <1>2, <1>4, SignedFormSound

\* A sound quote charges the least whole amount at its policy's rate.
LEMMA SoundIsPricedUp ==
  ASSUME AttestTypeOK, AttestInv
  PROVE  PricedUp
<1> SUFFICES ASSUME NEW b \in basis
             PROVE  /\ b.answer.aa * RateDen(b.policy) >= b.answer.fj * RateNum(b.policy)
                    /\ (b.answer.aa - 1) * RateDen(b.policy) < b.answer.fj * RateNum(b.policy)
  BY DEF PricedUp
<1>1. b.policy \in Policies /\ b.answer.fj \in Nat
  BY DEF AttestTypeOK, QuoteRecords
<1>2. b.answer.aa = AaPayment(b.policy, b.answer.fj)
  BY DEF AttestInv, SignedSound, Sound
<1> QED
  BY <1>1, <1>2, AaPaymentCovers
=============================================================================
