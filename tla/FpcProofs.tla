----------------------------- MODULE FpcProofs -----------------------------
(***************************************************************************)
(* Proofs about the payment path (FpcSystem): type correctness, what a     *)
(* quote may pay for, and who ends up with the tokens.  One inductive      *)
(* invariant, IInv, carries them all: it follows a quote from the handler  *)
(* that prices it, over the operator's signature and the transaction that  *)
(* is proven with it, to the block that includes the transaction.          *)
(***************************************************************************)
EXTENDS FpcSystem, AttestationProofs

Proven(t) == tx[t] # Unproven

\* What a proof leaves behind for the network: a quote of the operator's that
\* pays in the setup phase, or out of a deposit that covers it.
TxSound ==
  \A t \in Txs : Proven(t) =>
    /\ tx[t].quote \in signed
    /\ tx[t].price > 0
    /\ ~tx[t].revertible
    /\ tx[t].entry = "cold" =>
         /\ tx[t].deposit \in Claims
         /\ Deposited[tx[t].deposit].amount = tx[t].quote.amount
         /\ tx[t].quote.amount >= tx[t].quote.aa

IncludedSound ==
  \A t \in Txs : Included(t) => Proven(t) /\ tx[t].quote \in spentQuotes

ChainInv ==
  /\ TxSound
  /\ IncludedSound
  /\ QuotePaysOnce
  /\ FpcKeepsOnlyItsOwn
  /\ ShortOnlyByColdStarts

IInv == TypeOK /\ AttestInv /\ ChainInv

-----------------------------------------------------------------------------
(* Amounts and balances. *)

\* get_max_gas_cost is an amount, and is nothing when gas is free.
LEMMA MaxFeeNat ==
  ASSUME NEW price \in GasPrices
  PROVE  /\ price \in Nat
         /\ MaxFee(price) \in Nat
         /\ MaxFee(price) >= 1 => price > 0
<1>1. price \in Nat /\ GasLimit \in Nat \ {0}
  BY FpcAssumption
<1> QED
  BY <1>1 DEF MaxFee

\* Operator, contract and senders are different accounts; a user may be the contract.
LEMMA AccountsDistinct ==
  /\ operator \in Accounts /\ fpc \in Accounts /\ Users \subseteq Accounts
  /\ operator # fpc /\ operator \notin Users
  /\ Senders \subseteq Users /\ fpc \notin Senders
  BY FpcAssumption DEF Accounts, Senders

\* What a transfer does to each account.
Moved(held, from, to, amount, held2) ==
  /\ held2 \in [Accounts -> Nat]
  /\ \A x \in Accounts :
       held2[x] = held[x] + (IF x = to THEN amount ELSE 0) - (IF x = from THEN amount ELSE 0)

\* A transfer, when the payer has the amount; to itself it changes nothing.
LEMMA MoveMoves ==
  ASSUME NEW held \in [Accounts -> Nat], NEW from \in Accounts, NEW to \in Accounts,
         NEW amount \in Nat, held[from] >= amount
  PROVE  Moved(held, from, to, amount, Move(held, from, to, amount))
<1> DEFINE less == [held EXCEPT ![from] = held[from] - amount]
<1>1. /\ less \in [Accounts -> Nat]
      /\ \A x \in Accounts : less[x] = IF x = from THEN held[x] - amount ELSE held[x]
  OBVIOUS
<1>2. Move(held, from, to, amount) = [less EXCEPT ![to] = less[to] + amount]
  BY DEF Move
<1> HIDE DEF less
<1> DEFINE more == [less EXCEPT ![to] = less[to] + amount]
<1>3. /\ more \in [Accounts -> Nat]
      /\ \A x \in Accounts : more[x] = IF x = to THEN less[x] + amount ELSE less[x]
  BY <1>1
<1> HIDE DEF more
<1>4. Moved(held, from, to, amount, more)
  BY <1>1, <1>3 DEF Moved
<1> QED
  BY <1>2, <1>4 DEF more

\* What x gets of an amount that payer hands over for a quote.
Gets(q, payer, amount, x) ==
  (IF x = q.user THEN amount - q.aa ELSE 0) + (IF x = operator THEN q.aa ELSE 0)
    - (IF x = payer THEN amount ELSE 0)

\* A claim is shared out to the unit, the contract's own share included.
LEMMA ColdStartShares ==
  ASSUME NEW held \in [Accounts -> Nat], NEW q \in QuoteRecords, q.amount >= q.aa,
         CanDistribute(held, q)
  PROVE  /\ Distribute(held, q) \in [Accounts -> Nat]
         /\ \A x \in Accounts :
              Distribute(held, q)[x] = held[x] + Gets(q, fpc, q.amount, x)
<1> DEFINE rest == q.amount - q.aa
           user == q.user
           aa == q.aa
           given == Move(held, fpc, user, rest)
           shared == Move(given, fpc, operator, aa)
<1>1. /\ q.amount \in Nat /\ aa \in Nat /\ rest \in Nat /\ rest + aa = q.amount
      /\ user \in Accounts /\ fpc \in Accounts /\ operator \in Accounts
      /\ operator # fpc /\ operator # user
  BY AccountsDistinct DEF QuoteRecords
<1>2. held[fpc] >= rest /\ given[fpc] >= aa
  BY DEF CanDistribute, ToUser
<1>3. Distribute(held, q) = shared
  BY DEF Distribute, ToUser
<1>7. /\ Gets(q, fpc, q.amount, operator) = aa
      /\ user # fpc => /\ Gets(q, fpc, q.amount, user) = rest
                       /\ Gets(q, fpc, q.amount, fpc) = -(rest + aa)
      /\ user = fpc => Gets(q, fpc, q.amount, fpc) = -aa
      /\ \A x \in Accounts \ {operator, user, fpc} : Gets(q, fpc, q.amount, x) = 0
  BY <1>1 DEF Gets
<1> HIDE DEF rest, user, aa, given, shared
<1>4. /\ given \in [Accounts -> Nat]
      /\ \A x \in Accounts :
           given[x] = held[x] + (IF x = user THEN rest ELSE 0) - (IF x = fpc THEN rest ELSE 0)
  <2>1. Moved(held, fpc, user, rest, given)
    BY <1>1, <1>2, MoveMoves DEF given
  <2> QED
    BY <2>1 DEF Moved
<1>5. /\ shared \in [Accounts -> Nat]
      /\ \A x \in Accounts :
           shared[x] = given[x] + (IF x = operator THEN aa ELSE 0) - (IF x = fpc THEN aa ELSE 0)
  <2>1. Moved(given, fpc, operator, aa, shared)
    BY <1>1, <1>2, <1>4, MoveMoves DEF shared
  <2> QED
    BY <2>1 DEF Moved
<1>6. ASSUME NEW x \in Accounts
      PROVE  shared[x] = held[x] + Gets(q, fpc, q.amount, x)
  <2>1. held[x] \in Nat /\ given[x] \in Nat /\ shared[x] \in Nat
    BY <1>4, <1>5
  <2>2. CASE x = operator
    BY <1>1, <1>4, <1>5, <1>7, <2>1, <2>2
  <2>3. CASE x = fpc /\ user # fpc
    BY <1>1, <1>4, <1>5, <1>7, <2>1, <2>3
  <2>4. CASE x = fpc /\ user = fpc
    BY <1>1, <1>4, <1>5, <1>7, <2>1, <2>4
  <2>5. CASE x = user /\ user # fpc
    BY <1>1, <1>4, <1>5, <1>7, <2>1, <2>5
  <2>6. CASE x \notin {operator, user, fpc}
    BY <1>1, <1>4, <1>5, <1>7, <2>1, <2>6
  <2> QED
    BY <2>2, <2>3, <2>4, <2>5, <2>6
<1> QED
  BY <1>3, <1>5, <1>6

\* What the claim brings is the contract's, and nobody else's.
LEMMA ClaimBrings ==
  ASSUME TypeOK, NEW c \in Claims
  PROVE  /\ Claimed(c) \in [Assets -> [Accounts -> Nat]]
         /\ \A a \in Assets, x \in Accounts :
              Claimed(c)[a][x] = tokens[a][x]
                + (IF a = Deposited[c].asset /\ x = fpc THEN Deposited[c].amount ELSE 0)
<1> DEFINE asset == Deposited[c].asset
           amount == Deposited[c].amount
           minted == Mint(tokens[asset], fpc, amount)
<1>1. /\ asset \in Assets /\ amount \in Nat /\ fpc \in Accounts
      /\ tokens \in [Assets -> [Accounts -> Nat]] /\ tokens[asset] \in [Accounts -> Nat]
  BY FpcAssumption, AccountsDistinct DEF TypeOK, ChainTypeOK
<1>2. Claimed(c) = [tokens EXCEPT ![asset] = minted]
  BY DEF Claimed
<1> HIDE DEF asset, amount
<1>3. /\ minted \in [Accounts -> Nat]
      /\ \A x \in Accounts : minted[x] = tokens[asset][x] + (IF x = fpc THEN amount ELSE 0)
  BY <1>1 DEF Mint
<1> HIDE DEF minted
<1>4. \A a \in Assets, x \in Accounts :
        Claimed(c)[a][x] = tokens[a][x] + (IF a = asset /\ x = fpc THEN amount ELSE 0)
  BY <1>1, <1>2, <1>3
<1>5. Claimed(c) \in [Assets -> [Accounts -> Nat]]
  BY <1>1, <1>2, <1>3
<1> QED
  BY <1>4, <1>5 DEF asset, amount

-----------------------------------------------------------------------------
(* Type correctness. *)

\* The validity is within the limit of the contract.
LEMMA ValidityNat == QuoteValidity \in Nat /\ MaxTtl \in Nat /\ QuoteValidity <= MaxTtl
  BY AttestationAssumption, FpcAssumption, ValidityAssumption

\* Everything starts with its type.
LEMMA InitTypes == Init => TypeOK
<1> SUFFICES ASSUME Init PROVE TypeOK
  OBVIOUS
<1>1. AttestTypeOK
  <2>1. managed \in BOOLEAN
    BY Zenon DEF Init, AttestInit
  <2>2. writes \in Seq(Writes) /\ seeding \subseteq Configured /\ clock \in Clocks
    BY QuotesAssumption DEF Init, AttestInit, Clocks
  <2>3. /\ policies \in [Assets -> Policies \cup {NoPolicy}]
        /\ handler \in [Requests -> Handlings \cup {Idle}]
    BY DEF Init, AttestInit
  <2> QED
    BY <2>1, <2>2, <2>3 DEF Init, AttestInit, AttestTypeOK
<1>2. ChainTypeOK
  BY QuotesAssumption, FpcAssumption DEF Init, ChainInit, ChainTypeOK
<1> QED
  BY <1>1, <1>2 DEF TypeOK

\* The two entrypoints: what is proven has the type of a transaction.
LEMMA ProveTypes ==
  ASSUME TypeOK, NEW t \in Txs, NEW had \in signed, NEW price \in GasPrices,
         NEW anchor,
         \/ \E sender \in Senders, revertible \in BOOLEAN :
              ProveFeeEntrypoint(t, sender, had, price, revertible, anchor)
         \/ \E deposit \in Claims : ProveColdStart(t, had, deposit, price, anchor)
  PROVE  ChainTypeOK'
<1> USE DEF TypeOK, ChainTypeOK, quoteVars
<1>1. ASSUME NEW sender \in Senders, NEW revertible \in BOOLEAN,
             ProveFeeEntrypoint(t, sender, had, price, revertible, anchor)
      PROVE  ChainTypeOK'
  <2> DEFINE quote == QuoteHash(had.asset, had.fj, had.aa, had.until, sender)
  <2>1. quote \in QuoteRecords
    BY <1>1 DEF ProveFeeEntrypoint, AssertValidQuote, AttestTypeOK
  <2>2. [entry |-> "fee", quote |-> quote, deposit |-> NoClaim, price |-> price,
         revertible |-> revertible] \in TxRecords
    BY <2>1 DEF TxRecords
  <2> QED
    BY <1>1, <2>2 DEF ProveFeeEntrypoint
<1>2. ASSUME NEW deposit \in Claims, ProveColdStart(t, had, deposit, price, anchor)
      PROVE  ChainTypeOK'
  <2> DEFINE quote == ColdStartQuoteHash(had.asset, had.fj, had.aa, had.until, had.user,
                                         had.amount, had.claim)
  <2>1. quote \in QuoteRecords
    BY <1>2 DEF ProveColdStart, AssertValidQuote, AttestTypeOK
  <2>2. [entry |-> "cold", quote |-> quote, deposit |-> deposit, price |-> price,
         revertible |-> FALSE] \in TxRecords
    BY <2>1 DEF TxRecords
  <2> QED
    BY <1>2, <2>2 DEF ProveColdStart
<1> QED
  BY <1>1, <1>2

\* What the network charges leaves the FPC's balance and the debt amounts.
LEMMA ChargeTypes ==
  ASSUME TypeOK, NEW t \in Txs, NEW fee \in Nat, Includable(t), ChargeFpc(t, fee)
  PROVE  feeJuice' \in Nat /\ owed' \in [Assets -> Nat]
<1>1. tx[t] \in TxRecords
  BY DEF Includable, TypeOK, ChainTypeOK
<1>2. tx[t].price \in GasPrices /\ tx[t].quote.aa \in Nat /\ tx[t].quote.asset \in Assets
  BY <1>1 DEF TxRecords, QuoteRecords
<1>3. feeJuice' \in Nat
  <2>1. MaxFee(tx[t].price) \in Nat /\ baseFee \in Nat
    BY <1>2, MaxFeeNat, FpcAssumption DEF TypeOK, ChainTypeOK
  <2> QED
    BY <2>1 DEF ChargeFpc, Includable, TypeOK, ChainTypeOK
<1>4. owed' \in [Assets -> Nat]
  <2> DEFINE debt == IF tx[t].price > 0 THEN tx[t].quote.aa ELSE 0
  <2>1. debt \in Nat
    BY <1>2
  <2>2. owed' = [owed EXCEPT ![tx[t].quote.asset] = @ + debt]
    BY DEF ChargeFpc
  <2> HIDE DEF debt
  <2> QED
    BY <1>2, <2>1, <2>2 DEF TypeOK, ChainTypeOK
<1> QED
  BY <1>3, <1>4

\* Deposits, prices and the users' other business keep the types.
LEMMA EnvironmentTypes ==
  ASSUME TypeOK,
         \/ \E c \in Claims : DepositLands(c)
         \/ BaseFeeMoves
         \/ FeeJuiceArrives
         \/ \E a \in Assets, u \in Senders : UserSpends(a, u)
  PROVE  ChainTypeOK'
<1> USE DEF TypeOK, ChainTypeOK, quoteVars
<1>1. CASE \E c \in Claims : DepositLands(c)
  BY <1>1 DEF DepositLands, AttestTypeOK, Clocks
<1>2. CASE BaseFeeMoves
  BY <1>2 DEF BaseFeeMoves
<1>3. CASE FeeJuiceArrives
  BY <1>3, MaxFeeNat DEF FeeJuiceArrives
<1>4. CASE \E a \in Assets, u \in Senders : UserSpends(a, u)
  BY <1>4, AccountsDistinct DEF UserSpends
<1> QED
  BY <1>1, <1>2, <1>3, <1>4

-----------------------------------------------------------------------------
(* The initial state. *)

\* Nothing is proven or signed yet, and nobody is owed anything.
LEMMA InitInv == Init => IInv
<1> SUFFICES ASSUME Init PROVE IInv
  OBVIOUS
<1>1. TypeOK
  BY InitTypes
<1>2. AttestInv
  BY DEF Init, AttestInit, AttestInv, HandlersSound, SignedSound, Handling
<1>3. ChainInv
  <2>1. /\ \A t \in Txs : ~Proven(t) /\ ~Included(t)
        /\ \A a \in Assets : tokens[a][fpc] = 0 /\ tokens[a][operator] = owed[a]
    BY AccountsDistinct DEF Init, ChainInit, Proven, Included
  <2> QED
    BY <2>1 DEF ChainInv, TxSound, IncludedSound, QuotePaysOnce,
                FpcKeepsOnlyItsOwn, FpcHoldsNothing, ShortOnlyByColdStarts, Proven
<1> QED
  BY <1>1, <1>2, <1>3 DEF IInv

-----------------------------------------------------------------------------
(* The chain: proofs, blocks and balances. *)

\* What the service does to the chain is to sign more quotes.
LEMMA ChainKept ==
  ASSUME ChainInv, UNCHANGED chainVars, signed \subseteq signed'
  PROVE  ChainInv'
<1> USE DEF chainVars, Proven, Included
<1>1. TxSound'
  BY DEF ChainInv, TxSound
<1>2. (IncludedSound /\ QuotePaysOnce)'
  BY DEF ChainInv, IncludedSound, QuotePaysOnce
<1>3. (FpcKeepsOnlyItsOwn /\ ShortOnlyByColdStarts)'
  BY DEF ChainInv, FpcKeepsOnlyItsOwn, FpcHoldsNothing, ShortOnlyByColdStarts
<1> QED
  BY <1>1, <1>2, <1>3 DEF ChainInv

\* The environment touches no transaction, and no balance of operator or FPC.
LEMMA EnvironmentKeeps ==
  ASSUME TypeOK, ChainInv, UNCHANGED <<tx, fate, spentQuotes, signed, owed>>,
         \A a \in Assets : /\ tokens'[a][fpc] = tokens[a][fpc]
                           /\ tokens'[a][operator] = tokens[a][operator]
  PROVE  ChainInv'
<1> USE DEF Proven, Included
<1>1. (TxSound /\ IncludedSound /\ QuotePaysOnce)'
  BY DEF ChainInv, TxSound, IncludedSound, QuotePaysOnce
<1>2. (FpcKeepsOnlyItsOwn /\ ShortOnlyByColdStarts)'
  BY DEF ChainInv, FpcKeepsOnlyItsOwn, FpcHoldsNothing, ShortOnlyByColdStarts
<1> QED
  BY <1>1, <1>2 DEF ChainInv

\* A new proof is sound, and nothing else on the chain has changed.
LEMMA ProofKeeps ==
  ASSUME TypeOK, ChainInv, NEW t \in Txs, NEW made,
         ~Proven(t), made # Unproven, tx' = [tx EXCEPT ![t] = made],
         UNCHANGED <<signed, tokens, spentQuotes, fate, owed>>,
         made.quote \in signed, made.price > 0, ~made.revertible,
         made.entry = "cold" =>
           /\ made.deposit \in Claims
           /\ Deposited[made.deposit].amount = made.quote.amount
           /\ made.quote.amount >= made.quote.aa
  PROVE  ChainInv'
<1>1. /\ tx'[t] = made
      /\ \A s \in Txs \ {t} : tx'[s] = tx[s]
      /\ ~Included(t)
  BY DEF TypeOK, ChainTypeOK, ChainInv, IncludedSound
<1>2. TxSound'
  BY <1>1 DEF ChainInv, TxSound, Proven
<1>3. IncludedSound'
  BY <1>1 DEF ChainInv, IncludedSound, Proven, Included
<1>4. QuotePaysOnce'
  BY <1>1 DEF ChainInv, QuotePaysOnce, Included
<1>5. FpcKeepsOnlyItsOwn'
  BY <1>1 DEF ChainInv, FpcKeepsOnlyItsOwn, FpcHoldsNothing, Proven
<1>6. ShortOnlyByColdStarts'
  BY <1>1 DEF ChainInv, ShortOnlyByColdStarts, Proven
<1> QED
  BY <1>2, <1>3, <1>4, <1>5, <1>6 DEF ChainInv

\* Only a transaction that pays for gas finds a quote that fits it: every quote
\* is for some Fee Juice.
LEMMA SignedSoundFacts ==
  ASSUME TypeOK, AttestInv, NEW q \in signed
  PROVE  q \in QuoteRecords /\ q.fj >= 1 /\ q.aa >= 1
  BY SignedQuotes DEF TypeOK

\* A proof of fee_entrypoint is in the setup phase: its quote is for some gas.
LEMMA FeeProofSound ==
  ASSUME IInv, NEW t \in Txs, NEW sender \in Senders, NEW had, NEW price \in GasPrices,
         NEW revertible \in BOOLEAN, NEW anchor,
         ProveFeeEntrypoint(t, sender, had, price, revertible, anchor)
  PROVE  ChainInv'
<1> DEFINE quote == QuoteHash(had.asset, had.fj, had.aa, had.until, sender)
           made == [entry |-> "fee", quote |-> quote, deposit |-> NoClaim, price |-> price,
                    revertible |-> revertible]
<1>1. /\ tx[t] = Unproven /\ tx' = [tx EXCEPT ![t] = made]
      /\ RightPhase(price, revertible) /\ quote \in signed /\ quote.fj = MaxFee(price)
      /\ UNCHANGED <<signed, tokens, spentQuotes, fate, owed>>
  BY DEF ProveFeeEntrypoint, AssertValidQuote, quoteVars
<1>2. price > 0
  BY <1>1, SignedSoundFacts, MaxFeeNat DEF IInv
<1>3. ~revertible
  BY <1>1, <1>2 DEF RightPhase
<1>4. made # Unproven
  <2>1. made \in TxRecords
    BY <1>1 DEF TxRecords, IInv, TypeOK, AttestTypeOK
  <2> QED
    BY <2>1, UnprovenAssumption
<1>5. made.quote = quote /\ made.price = price /\ made.revertible = revertible
      /\ made.entry = "fee"
  OBVIOUS
<1> HIDE DEF made, quote
<1> QED
  BY <1>1, <1>2, <1>3, <1>4, <1>5, ProofKeeps DEF IInv, Proven

\* A proof of cold_start_entrypoint names a deposit of the quoted amount.
LEMMA ColdProofSound ==
  ASSUME IInv, NEW t \in Txs, NEW had, NEW deposit \in Claims, NEW price \in GasPrices,
         NEW anchor, ProveColdStart(t, had, deposit, price, anchor)
  PROVE  ChainInv'
<1> DEFINE quote == ColdStartQuoteHash(had.asset, had.fj, had.aa, had.until, had.user,
                                       had.amount, had.claim)
           made == [entry |-> "cold", quote |-> quote, deposit |-> deposit, price |-> price,
                    revertible |-> FALSE]
<1>1. /\ tx[t] = Unproven /\ tx' = [tx EXCEPT ![t] = made]
      /\ quote \in signed /\ quote.fj = MaxFee(price)
      /\ quote.amount >= quote.aa
      /\ Deposited[deposit].amount = quote.amount
      /\ UNCHANGED <<signed, tokens, spentQuotes, fate, owed>>
  BY DEF ProveColdStart, AssertValidQuote, quoteVars
<1>2. price > 0
  BY <1>1, SignedSoundFacts, MaxFeeNat DEF IInv
<1>3. made # Unproven
  <2>1. made \in TxRecords
    BY <1>1 DEF TxRecords, IInv, TypeOK, AttestTypeOK
  <2> QED
    BY <2>1, UnprovenAssumption
<1>4. /\ made.quote = quote /\ made.price = price /\ ~made.revertible
      /\ made.entry = "cold" /\ made.deposit = deposit
  OBVIOUS
<1> HIDE DEF made, quote
<1> QED
  BY <1>1, <1>2, <1>3, <1>4, ProofKeeps DEF IInv, Proven

\* Being included spends the quote, which no included transaction has spent.
LEMMA InclusionKeeps ==
  ASSUME TypeOK, ChainInv, NEW t \in Txs, Includable(t), NEW end \in {"done", "reverted"},
         fate' = [fate EXCEPT ![t] = end],
         spentQuotes' = spentQuotes \cup {tx[t].quote},
         UNCHANGED <<signed, tx>>
  PROVE  (TxSound /\ IncludedSound /\ QuotePaysOnce)'
<1>1. /\ Proven(t) /\ ~Included(t) /\ tx[t].quote \notin spentQuotes
      /\ \A s \in Txs : fate'[s] = IF s = t THEN end ELSE fate[s]
  BY DEF Includable, Unspent, Proven, Included, TypeOK, ChainTypeOK
<1>2. TxSound'
  BY DEF ChainInv, TxSound, Proven
<1>3. IncludedSound'
  BY <1>1 DEF ChainInv, IncludedSound, Proven, Included
<1>4. QuotePaysOnce'
  BY <1>1 DEF ChainInv, QuotePaysOnce, IncludedSound, Included
<1> QED
  BY <1>2, <1>3, <1>4

\* A payment that reaches the operator settles what the transaction owes.
LEMMA PaymentKeeps ==
  ASSUME TypeOK, ChainInv, NEW t \in Txs, Includable(t), NEW end,
         fate' = [fate EXCEPT ![t] = end], tx' = tx,
         NEW asset \in Assets, NEW aa \in Nat,
         \A a \in Assets :
           tokens'[a][operator] = tokens[a][operator] + (IF a = asset THEN aa ELSE 0),
         owed' = [owed EXCEPT ![asset] = @ + aa]
  PROVE  ShortOnlyByColdStarts'
<1>1. \A a \in Assets :
        /\ owed'[a] = IF a = asset THEN owed[a] + aa ELSE owed[a]
        /\ owed[a] \in Nat /\ tokens[a][operator] \in Nat
  BY AccountsDistinct DEF TypeOK, ChainTypeOK
<1>2. \A s \in Txs : fate[s] = "reverted" => fate'[s] = "reverted"
  BY DEF Includable, TypeOK, ChainTypeOK
<1>3. \A a \in Assets : tokens'[a][operator] # owed'[a] => tokens[a][operator] # owed[a]
  BY <1>1
<1> QED
  BY <1>2, <1>3 DEF ChainInv, ShortOnlyByColdStarts

\* What the contract holds stays, and so does the reason why.
LEMMA OwnKept ==
  ASSUME TypeOK, ChainInv, NEW t \in Txs, Includable(t), NEW end,
         fate' = [fate EXCEPT ![t] = end], tx' = tx,
         FpcHoldsNothing => FpcHoldsNothing'
  PROVE  FpcKeepsOnlyItsOwn'
<1>1. \A s \in Txs : fate[s] = "done" => fate'[s] = "done"
  BY DEF Includable, TypeOK, ChainTypeOK
<1> QED
  BY <1>1 DEF ChainInv, FpcKeepsOnlyItsOwn

\* Every transaction on the chain pays for gas, so the operator is owed its quote.
LEMMA ChargeOwes ==
  ASSUME TypeOK, ChainInv, NEW t \in Txs, Includable(t), NEW fee, ChargeFpc(t, fee)
  PROVE  /\ tx[t].quote \in QuoteRecords /\ ~tx[t].revertible
         /\ owed' = [owed EXCEPT ![tx[t].quote.asset] = @ + tx[t].quote.aa]
<1>1. tx[t] \in TxRecords /\ Proven(t)
  BY DEF Includable, Proven, TypeOK, ChainTypeOK
<1>2. tx[t].price > 0 /\ ~tx[t].revertible
  BY <1>1 DEF ChainInv, TxSound
<1> QED
  BY <1>1, <1>2 DEF ChargeFpc, TxRecords

\* A payment from the user reaches the operator in the setup phase.
LEMMA IncludeFeeSound ==
  ASSUME IInv, NEW t \in Txs, NEW fee \in Nat, NEW reverted \in BOOLEAN,
         IncludeFee(t, fee, reverted)
  PROVE  ChainTypeOK' /\ ChainInv'
<1> DEFINE q == tx[t].quote
           paid == Move(tokens[q.asset], q.user, operator, q.aa)
<1> USE DEF IInv
<1>1. /\ Includable(t) /\ ChargeFpc(t, fee) /\ q \in QuoteRecords /\ ~tx[t].revertible
      /\ tx[t].entry = "fee"
      /\ owed' = [owed EXCEPT ![q.asset] = @ + q.aa]
      /\ tokens[q.asset][q.user] >= q.aa
  BY ChargeOwes DEF IncludeFee
<1>2. /\ tokens' = [tokens EXCEPT ![q.asset] = paid]
      /\ spentQuotes' = spentQuotes \cup {q}
      /\ fate' = [fate EXCEPT ![t] = IF reverted THEN "reverted" ELSE "done"]
      /\ UNCHANGED <<clock, signed, landed, consumed, tx, baseFee>>
  BY <1>1 DEF IncludeFee, quoteVars
<1>3. /\ q.asset \in Assets /\ q.user \in Users /\ q.aa \in Nat
      /\ tokens \in [Assets -> [Accounts -> Nat]]
      /\ tokens[q.asset] \in [Accounts -> Nat]
  BY <1>1 DEF QuoteRecords, TypeOK, ChainTypeOK
<1>4. /\ paid \in [Accounts -> Nat]
      /\ tokens[q.asset][fpc] = 0 => paid[fpc] = 0
      /\ paid[operator] = tokens[q.asset][operator] + q.aa
  <2> DEFINE held == tokens[q.asset]
             user == q.user
             aa == q.aa
  <2>1. /\ held \in [Accounts -> Nat] /\ aa \in Nat /\ held[user] >= aa
        /\ user \in Accounts /\ operator \in Accounts /\ user # operator
        /\ fpc \in Accounts /\ fpc # operator
    BY <1>1, <1>3, AccountsDistinct
  <2>2. paid = Move(held, user, operator, aa)
    OBVIOUS
  <2> HIDE DEF paid, held, user, aa, q
  <2>3. /\ paid \in [Accounts -> Nat]
        /\ \A x \in Accounts :
             paid[x] = held[x] + (IF x = operator THEN aa ELSE 0) - (IF x = user THEN aa ELSE 0)
    <3>1. Moved(held, user, operator, aa, paid)
      BY <2>1, <2>2, MoveMoves
    <3> QED
      BY <3>1 DEF Moved
  <2>4. paid[operator] = held[operator] + aa
    BY <2>1, <2>3
  <2>5. held[fpc] = 0 => paid[fpc] = 0
    BY <2>1, <2>3
  <2> QED
    BY <2>3, <2>4, <2>5 DEF held, aa
<1> DEFINE end == IF reverted THEN "reverted" ELSE "done"
<1>5. end \in {"done", "reverted"} /\ fate' = [fate EXCEPT ![t] = end]
  BY <1>2
<1> HIDE DEF paid, end
<1>6. (TxSound /\ IncludedSound /\ QuotePaysOnce)'
  BY <1>1, <1>2, <1>5, InclusionKeeps
<1>7. (FpcKeepsOnlyItsOwn /\ ShortOnlyByColdStarts)'
  <2>1. \A a \in Assets : tokens'[a] = IF a = q.asset THEN paid ELSE tokens[a]
    BY <1>2, <1>3
  <2>2. FpcHoldsNothing => FpcHoldsNothing'
    BY <1>3, <1>4, <2>1 DEF FpcHoldsNothing
  <2>3. \A a \in Assets :
          tokens'[a][operator] = tokens[a][operator] + (IF a = q.asset THEN q.aa ELSE 0)
    <3>1. \A a \in Assets : tokens[a][operator] \in Nat
      BY <1>3, AccountsDistinct
    <3> QED
      BY <1>3, <1>4, <2>1, <3>1
  <2> QED
    BY <1>1, <1>2, <1>3, <1>5, <2>2, <2>3, OwnKept, PaymentKeeps
<1>8. ChainTypeOK'
  <2>1. feeJuice' \in Nat /\ owed' \in [Assets -> Nat]
    BY <1>1, ChargeTypes
  <2>2. tokens' \in [Assets -> [Accounts -> Nat]]
    BY <1>2, <1>3, <1>4
  <2> QED
    BY <1>1, <1>2, <1>5, <2>1, <2>2 DEF TypeOK, ChainTypeOK
<1> QED
  BY <1>6, <1>7, <1>8 DEF ChainInv

\* A claim is shared out between user and operator.
LEMMA IncludeColdSound ==
  ASSUME IInv, NEW t \in Txs, NEW fee \in Nat, IncludeColdStart(t, fee)
  PROVE  ChainTypeOK' /\ ChainInv'
<1> DEFINE q == tx[t].quote
           d == tx[t].deposit
           asset == q.asset
           before == Claimed(d)
           shared == Distribute(before[asset], q)
<1> USE DEF IInv
<1>1. /\ Includable(t) /\ ChargeFpc(t, fee) /\ q \in QuoteRecords
      /\ owed' = [owed EXCEPT ![asset] = @ + q.aa]
      /\ tx[t].entry = "cold"
      /\ CanDistribute(before[asset], q)
  BY ChargeOwes DEF IncludeColdStart
<1>2. /\ d \in Claims /\ Deposited[d].amount = q.amount /\ q.amount >= q.aa
      /\ q \in signed /\ q.aa >= 1
  BY <1>1, SignedSoundFacts DEF ChainInv, TxSound, Proven, Includable
<1>3. /\ asset \in Assets /\ q.aa \in Nat /\ q.amount \in Nat
      /\ fpc \in Accounts /\ operator \in Accounts /\ operator # fpc /\ operator # q.user
  BY <1>1, AccountsDistinct DEF QuoteRecords
<1>4. /\ before \in [Assets -> [Accounts -> Nat]]
      /\ tokens \in [Assets -> [Accounts -> Nat]]
      /\ \A a \in Assets, x \in Accounts :
           before[a][x] = tokens[a][x]
             + (IF a = Deposited[d].asset /\ x = fpc THEN q.amount ELSE 0)
  BY <1>2, ClaimBrings DEF TypeOK, ChainTypeOK
<1>5. /\ tokens' = [before EXCEPT ![asset] = shared]
      /\ spentQuotes' = spentQuotes \cup {q}
      /\ consumed' = consumed \cup {d}
      /\ fate' = [fate EXCEPT ![t] = "done"]
      /\ UNCHANGED <<clock, signed, landed, tx, baseFee>>
  BY DEF IncludeColdStart, quoteVars
<1>6. (TxSound /\ IncludedSound /\ QuotePaysOnce)'
  BY <1>1, <1>5, InclusionKeeps
<1>7. /\ shared \in [Accounts -> Nat]
      /\ \A x \in Accounts : shared[x] = before[asset][x] + Gets(q, fpc, q.amount, x)
  <2>1. before[asset] \in [Accounts -> Nat]
    BY <1>3, <1>4
  <2> HIDE DEF before
  <2> QED
    BY <1>1, <1>2, <2>1, ColdStartShares
<1>8. q.user # fpc => before[asset][fpc] >= q.amount
  <2> DEFINE held == before[asset]
             rest == q.amount - q.aa
             user == q.user
             given == Move(held, fpc, user, rest)
  <2>1. held[fpc] >= rest /\ given[fpc] >= q.aa
    BY <1>1 DEF CanDistribute, ToUser
  <2>2. held \in [Accounts -> Nat] /\ rest \in Nat /\ user \in Accounts /\ rest + q.aa = q.amount
    BY <1>1, <1>2, <1>3, <1>4, AccountsDistinct DEF QuoteRecords
  <2> HIDE DEF held, rest, user, q, before, given
  <2>3. \A x \in Accounts :
          given[x] = held[x] + (IF x = user THEN rest ELSE 0) - (IF x = fpc THEN rest ELSE 0)
    <3>1. Moved(held, fpc, user, rest, given)
      BY <1>3, <2>1, <2>2, MoveMoves DEF given
    <3> QED
      BY <3>1 DEF Moved
  <2>4. user # fpc => given[fpc] = held[fpc] - rest
    BY <1>3, <2>2, <2>3
  <2> QED
    BY <1>3, <2>1, <2>2, <2>4 DEF held, user
<1>11. /\ Gets(q, fpc, q.amount, operator) = q.aa
       /\ q.user # fpc => Gets(q, fpc, q.amount, fpc) = -q.amount
  BY <1>3 DEF Gets
<1> DEFINE came == Deposited[d].asset
<1> HIDE DEF q, before, shared, asset, came
<1>9. FpcKeepsOnlyItsOwn'
  <2>1. fate'[t] = "done" /\ Proven(t)' /\ tx'[t] = tx[t]
    BY <1>1, <1>5 DEF Includable, Proven, TypeOK, ChainTypeOK
  <2>2. CASE q.user = fpc
    BY <1>1, <2>1, <2>2 DEF FpcKeepsOnlyItsOwn, Proven, q
  <2>3. CASE q.user # fpc
    <3>1. ASSUME FpcHoldsNothing PROVE FpcHoldsNothing'
      <4>1. \A a \in Assets : before[a][fpc] = IF a = came THEN q.amount ELSE 0
        BY <1>3, <1>4, <3>1 DEF FpcHoldsNothing, came
      <4>2. asset = came
        BY <1>2, <1>3, <1>8, <2>3, <4>1
      <4>3. shared[fpc] = 0
        BY <1>3, <1>7, <1>11, <2>3, <4>1, <4>2
      <4>4. \A a \in Assets : tokens'[a] = IF a = asset THEN shared ELSE before[a]
        BY <1>3, <1>4, <1>5
      <4> QED
        BY <4>1, <4>2, <4>3, <4>4 DEF FpcHoldsNothing
    <3> QED
      BY <1>1, <1>5, <3>1, OwnKept
  <2> QED
    BY <2>2, <2>3
<1>10. ShortOnlyByColdStarts'
  <2>1. \A a \in Assets : tokens'[a] = IF a = asset THEN shared ELSE before[a]
    BY <1>3, <1>4, <1>5
  <2>2. \A a \in Assets : before[a][operator] = tokens[a][operator] /\ tokens[a][operator] \in Nat
    BY <1>3, <1>4
  <2>3. \A a \in Assets :
          tokens'[a][operator] = tokens[a][operator] + (IF a = asset THEN q.aa ELSE 0)
    BY <1>3, <1>7, <1>11, <2>1, <2>2
  <2> QED
    BY <1>1, <1>3, <1>5, <2>3, PaymentKeeps
<1>12. ChainTypeOK'
  <2>1. feeJuice' \in Nat /\ owed' \in [Assets -> Nat]
    BY <1>1, ChargeTypes
  <2>2. tokens' \in [Assets -> [Accounts -> Nat]]
    BY <1>3, <1>4, <1>5, <1>7
  <2>3. q \in QuoteRecords
    BY <1>1
  <2> QED
    BY <1>1, <1>2, <1>5, <2>1, <2>2, <2>3 DEF TypeOK, ChainTypeOK
<1> QED
  BY <1>6, <1>9, <1>10, <1>12 DEF ChainInv

\* A cold start that reverts is charged for and pays nothing; it is the only way
\* the operator ends up short.
LEMMA ColdRevertSound ==
  ASSUME IInv, NEW t \in Txs, NEW fee \in Nat, ColdStartReverts(t, fee)
  PROVE  ChainTypeOK' /\ ChainInv'
<1> DEFINE q == tx[t].quote
<1> USE DEF IInv
<1>1. /\ Includable(t) /\ ChargeFpc(t, fee) /\ q \in QuoteRecords /\ q.asset \in Assets
      /\ owed' = [owed EXCEPT ![q.asset] = @ + q.aa]
      /\ tx[t].entry = "cold" /\ MintReverts
  BY ChargeOwes DEF ColdStartReverts, QuoteRecords
<1>2. /\ spentQuotes' = spentQuotes \cup {q}
      /\ fate' = [fate EXCEPT ![t] = "reverted"]
      /\ UNCHANGED <<clock, signed, tokens, landed, consumed, tx, baseFee>>
  BY DEF ColdStartReverts, quoteVars
<1>3. (TxSound /\ IncludedSound /\ QuotePaysOnce)'
  BY <1>1, <1>2, InclusionKeeps
<1>4. FpcKeepsOnlyItsOwn'
  BY <1>1, <1>2, OwnKept DEF FpcHoldsNothing
<1>5. ShortOnlyByColdStarts'
  <2> SUFFICES ASSUME NEW a \in Assets, tokens'[a][operator] # owed'[a]
               PROVE  \E s \in Txs : /\ tx'[s] # Unproven /\ tx'[s].entry = "cold"
                                     /\ fate'[s] = "reverted" /\ tx'[s].quote.asset = a
    BY DEF ShortOnlyByColdStarts
  <2>1. fate \in [Txs -> {"waits", "done", "reverted"}] /\ owed \in [Assets -> Nat]
    BY DEF TypeOK, ChainTypeOK
  <2>2. CASE a = q.asset
    BY <1>1, <1>2, <2>1, <2>2 DEF Includable
  <2>3. CASE a # q.asset
    <3>1. tokens[a][operator] # owed[a]
      BY <1>1, <1>2, <2>1, <2>3
    <3>2. PICK s \in Txs : /\ tx[s] # Unproven /\ tx[s].entry = "cold"
                           /\ fate[s] = "reverted" /\ tx[s].quote.asset = a
      BY <3>1 DEF ChainInv, ShortOnlyByColdStarts
    <3> QED
      BY <1>2, <2>1, <3>2
  <2> QED
    BY <2>2, <2>3
<1>6. ChainTypeOK'
  <2>1. feeJuice' \in Nat /\ owed' \in [Assets -> Nat]
    BY <1>1, ChargeTypes
  <2> QED
    BY <1>1, <1>2, <2>1 DEF TypeOK, ChainTypeOK
<1> QED
  BY <1>3, <1>4, <1>5, <1>6 DEF ChainInv

\* What the environment does.
LEMMA EnvironmentSound ==
  ASSUME IInv,
         \/ \E c \in Claims : DepositLands(c)
         \/ BaseFeeMoves
         \/ FeeJuiceArrives
         \/ \E a \in Assets, u \in Senders : UserSpends(a, u)
  PROVE  ChainTypeOK' /\ ChainInv'
<1>1. ChainTypeOK'
  BY EnvironmentTypes DEF IInv
<1>2. UNCHANGED <<tx, fate, spentQuotes, signed, owed>>
  BY DEF DepositLands, BaseFeeMoves, FeeJuiceArrives, UserSpends, quoteVars
<1>3. \A a \in Assets : /\ tokens'[a][fpc] = tokens[a][fpc]
                        /\ tokens'[a][operator] = tokens[a][operator]
  <2>1. CASE tokens' = tokens
    BY <2>1
  <2>2. CASE \E a \in Assets, u \in Senders : UserSpends(a, u)
    BY <2>2, AccountsDistinct DEF UserSpends, IInv, TypeOK, ChainTypeOK
  <2> QED
    BY <2>1, <2>2 DEF DepositLands, BaseFeeMoves, FeeJuiceArrives
<1>4. ChainInv'
  BY <1>2, <1>3, EnvironmentKeeps DEF IInv
<1> QED
  BY <1>1, <1>4

-----------------------------------------------------------------------------
(* The theorems. *)

\* One step for each action of FpcSystem.
LEMMA NextInv == IInv /\ [Next]_vars => IInv'
<1> SUFFICES ASSUME IInv, [Next]_vars PROVE IInv'
  OBVIOUS
<1> USE DEF IInv, TypeOK
<1>0. clock \in Nat
  BY QuotesAssumption DEF AttestTypeOK, Clocks
\* What leaves the chain alone preserves its part, and the other way round.
<1>1. ASSUME UNCHANGED chainVars, signed \subseteq signed', AttestTypeOK', AttestInv'
      PROVE  IInv'
  BY <1>1, ChainKept DEF chainVars, ChainTypeOK
<1>2. ASSUME UNCHANGED <<quoteVars, attestVars>>, ChainTypeOK', ChainInv'
      PROVE  IInv'
  BY <1>0, <1>2, AttestKept DEF quoteVars, attestVars, storeVars, AttestTypeOK
<1>3. ASSUME NEW r \in Requests, NEW u \in Users, NEW a \in Assets, AskPayment(r, u, a)
      PROVE  IInv'
  <2> DEFINE asked == QuoteHash(a, MaxFee(baseFee), 0, 0, u)
  <2>1. asked \in QuoteRecords
    BY HashTypes, MaxFeeNat DEF ChainTypeOK
  <2>2. AskQuote(r, asked) /\ UNCHANGED <<chainVars, signed>>
    BY <1>3 DEF AskPayment, AskQuote, quoteVars
  <2> QED
    BY <1>1, <2>1, <2>2, AskTypes, AskSound
<1>4. ASSUME NEW r \in Requests, NEW u \in Users, NEW a \in Assets, NEW c \in Claims,
             AskColdStart(r, u, a, c)
      PROVE  IInv'
  <2> DEFINE asked == ColdStartQuoteHash(a, MaxFee(baseFee), 0, 0, u, Deposited[c].amount, c)
  <2>1. asked \in QuoteRecords
    <3>1. MaxFee(baseFee) \in Nat /\ Deposited[c].amount \in Nat
      BY MaxFeeNat, FpcAssumption DEF ChainTypeOK
    <3> QED
      BY <3>1, HashTypes
  <2>2. AskQuote(r, asked) /\ UNCHANGED <<chainVars, signed>>
    BY <1>4 DEF AskColdStart, AskQuote, quoteVars
  <2> QED
    BY <1>1, <2>1, <2>2, AskTypes, AskSound
<1>5. ASSUME NEW r \in Requests, QuoteStep(r), UNCHANGED chainVars
      PROVE  IInv'
  <2>1. signed \subseteq signed'
    BY <1>5 DEF QuoteStep, PriceQuote, RejectQuote, SignFails, SignQuote, quoteVars
  <2>2. AttestTypeOK'
    BY <1>5, ServiceTypes
  <2>3. AttestInv'
    BY <1>5, PriceSound, SignSound DEF QuoteStep
  <2> QED
    BY <1>1, <1>5, <2>1, <2>2, <2>3
<1>6. ASSUME StartStep, UNCHANGED chainVars
      PROVE  IInv'
  <2>1. signed \subseteq signed'
    BY <1>6 DEF StartStep, Restart, Seed, quoteVars
  <2>2. AttestInv'
    BY <1>6, AttestKeptByStart
  <2> QED
    BY <1>1, <1>6, <2>1, <2>2, StartTypes
<1>7. ASSUME NEW t \in Txs, TxStep(t), UNCHANGED attestVars
      PROVE  IInv'
  <2>1. ASSUME NEW had \in signed, NEW price \in GasPrices, NEW anchor \in 0..clock,
               NEW sender \in Senders, NEW revertible \in BOOLEAN,
               ProveFeeEntrypoint(t, sender, had, price, revertible, anchor)
        PROVE  IInv'
    <3>1. ChainTypeOK' /\ ChainInv'
      BY <2>1, ProveTypes, FeeProofSound
    <3>2. UNCHANGED quoteVars
      BY <2>1 DEF ProveFeeEntrypoint
    <3> QED
      BY <1>2, <1>7, <3>1, <3>2
  <2>2. ASSUME NEW had \in signed, NEW price \in GasPrices, NEW anchor \in 0..clock,
               NEW deposit \in Claims, ProveColdStart(t, had, deposit, price, anchor)
        PROVE  IInv'
    <3>1. ChainTypeOK' /\ ChainInv'
      BY <2>2, ProveTypes, ColdProofSound
    <3>2. UNCHANGED quoteVars
      BY <2>2 DEF ProveColdStart
    <3> QED
      BY <1>2, <1>7, <3>1, <3>2
  <2>3. ASSUME NEW fee \in Nat,
               \/ \E reverted \in BOOLEAN : IncludeFee(t, fee, reverted)
               \/ IncludeColdStart(t, fee)
               \/ ColdStartReverts(t, fee)
        PROVE  IInv'
    <3>1. ChainTypeOK' /\ ChainInv'
      BY <2>3, IncludeFeeSound, IncludeColdSound, ColdRevertSound
    <3>2. UNCHANGED quoteVars
      BY <2>3 DEF IncludeFee, IncludeColdStart, ColdStartReverts
    <3> QED
      BY <1>2, <1>7, <3>1, <3>2
  <2>4. ASSUME tx[t] # Unproven PROVE 0..MaxFee(tx[t].price) \subseteq Nat
    OBVIOUS
  <2> QED
    BY <1>7, <2>1, <2>2, <2>3, <2>4 DEF TxStep
<1>8. ASSUME ChainStep, ~(\E t \in Txs : TxStep(t)), UNCHANGED attestVars
      PROVE  IInv'
  <2>1. ChainTypeOK' /\ ChainInv'
    BY <1>8, EnvironmentSound DEF ChainStep
  <2>2. UNCHANGED quoteVars
    BY <1>8 DEF ChainStep, DepositLands, BaseFeeMoves, FeeJuiceArrives, UserSpends
  <2> QED
    BY <1>2, <1>8, <2>1, <2>2
<1>9. ASSUME NextBlock, UNCHANGED <<attestVars, chainVars>>
      PROVE  IInv'
  <2>1. AttestInv' /\ signed' = signed
    BY <1>9, AttestKept DEF NextBlock
  <2>2. AttestTypeOK'
    BY <1>9, QuotesAssumption DEF NextBlock, AttestTypeOK, attestVars, storeVars, Clocks
  <2> QED
    BY <1>1, <1>9, <2>1, <2>2
<1>10. CASE UNCHANGED vars
  <2>1. UNCHANGED <<quoteVars, attestVars>> /\ UNCHANGED chainVars
    BY <1>10 DEF vars
  <2>2. ChainTypeOK' /\ ChainInv'
    BY <2>1, ChainKept DEF chainVars, quoteVars, ChainTypeOK
  <2> QED
    BY <1>2, <2>1, <2>2
<1> QED
  BY <1>3, <1>4, <1>5, <1>6, <1>7, <1>8, <1>9, <1>10 DEF Next, ChainStep

\* The invariant holds throughout (all handlers of server.ts, both entrypoints of
\* main.nr and the network around them).
THEOREM Invariance == Spec => []IInv
BY InitInv, NextInv, PTL DEF Spec

\* Every variable keeps its type; no balance, no debt and not the FPC's Fee Juice
\* ever goes below zero (main.nr asserts the claim covers the payment).
THEOREM TypeCorrect == Spec => []TypeOK
<1>1. IInv => TypeOK
  BY DEF IInv
<1> QED
  BY Invariance, <1>1, PTL

\* The nullifier of assert_valid_quote and assert_valid_cold_start_quote lets a
\* quote pay for one transaction, over both entrypoints and any number of proofs.
THEOREM QuotesPayOnce == Spec => []QuotePaysOnce
<1>1. IInv => QuotePaysOnce
  BY DEF IInv, ChainInv
<1> QED
  BY Invariance, <1>1, PTL

\* cold_start_entrypoint passes on all it claims, whatever bridge it is given, until
\* it has been given the contract's own address for a user.
THEOREM FpcKeepsOwn == Spec => []FpcKeepsOnlyItsOwn
<1>1. IInv => FpcKeepsOnlyItsOwn
  BY DEF IInv, ChainInv
<1> QED
  BY Invariance, <1>1, PTL

\* What the FPC is charged for, the operator is paid for; the exception is a cold
\* start whose app phase reverted.
THEOREM ShortfallExplained == Spec => []ShortOnlyByColdStarts
<1>1. IInv => ShortOnlyByColdStarts
  BY DEF IInv, ChainInv
<1> QED
  BY Invariance, <1>1, PTL

\* The service never undercharges, and overcharges by less than one unit
\* (computeQuotePricing of server.ts, computeFinalRate of config.ts).
THEOREM QuotesPricedUp == Spec => []PricedUp
<1>1. IInv => PricedUp
  BY SoundIsPricedUp DEF IInv, TypeOK
<1> QED
  BY Invariance, <1>1, PTL

\* The contract accepts what the service answers in every block until it expires
\* (server.ts sets the validity that main.nr bounds by MAX_QUOTE_TTL_SECONDS): all
\* of it where amounts are signed, and cold starts where rates are.
THEOREM QuotesAccepted ==
  Spec => [](/\ QuoteFormat = "amount_quote" => FreshQuotesAccepted
             /\ \A b \in basis : b.answer.domain = "FPCs" => Accepted(b.answer))
<1>1. ASSUME IInv, NEW b \in basis, NamesAmounts(b.answer)
      PROVE  Accepted(b.answer)
  <2> DEFINE q == b.answer
  <2> SUFFICES ASSUME clock <= q.until
               PROVE  /\ AssertValidQuote(q, clock)
                      /\ FitsU128(q.aa)
                      /\ q.domain = "FPCs" => q.amount >= q.aa
    BY DEF Accepted
  <2>1. /\ Sound(q, b.policy, b.at) /\ q \in signed
        /\ q \in QuoteRecords
    BY <1>1 DEF IInv, AttestInv, SignedSound, TypeOK, AttestTypeOK, SignedForm
  <2>2. clock \in Nat /\ b.at \in Nat /\ q.until \in Nat
    BY <1>1, <2>1, QuotesAssumption DEF IInv, TypeOK, AttestTypeOK, QuoteRecords, Clocks
  <2>3. q.until - clock <= MaxTtl
    BY <2>1, <2>2, ValidityNat DEF Sound
  <2> QED
    BY <2>1, <2>3 DEF Sound, AssertValidQuote
<1>2. IInv => /\ QuoteFormat = "amount_quote" => FreshQuotesAccepted
              /\ \A b \in basis : b.answer.domain = "FPCs" => Accepted(b.answer)
  BY <1>1 DEF FreshQuotesAccepted, NamesAmounts
<1> QED
  BY Invariance, <1>2, PTL

\* set_expiration_timestamp ends a price: between the moment the store held it
\* and the block that is paid for at it lies at most the service's validity.
THEOREM StaleNeverPaid == Spec => StalePriceNeverPaid
<1>1. IInv /\ [Next]_vars =>
        [\A t \in Txs :
           ~Included(t) /\ Included(t)' =>
             \E b \in basis : b.quote = tx[t].quote /\ clock <= b.at + QuoteValidity]_vars
  <2> SUFFICES ASSUME IInv, [Next]_vars, NEW t \in Txs, ~Included(t), Included(t)'
               PROVE  \E b \in basis : b.quote = tx[t].quote /\ clock <= b.at + QuoteValidity
    OBVIOUS
  <2>1. Includable(t)
    <3>1. fate \in [Txs -> {"waits", "done", "reverted"}]
      BY DEF IInv, TypeOK, ChainTypeOK
    <3>2. fate' # fate
      BY DEF Included
    <3>3. ChainStep
      BY <3>2 DEF Next, vars, AskPayment, AskColdStart, chainVars
    <3>4. PICK s \in Txs : TxStep(s)
      BY <3>2, <3>3 DEF ChainStep, DepositLands, BaseFeeMoves, FeeJuiceArrives, UserSpends
    <3>5. CASE \E fee \in 0..MaxFee(tx[s].price), reverted \in BOOLEAN :
                 IncludeFee(s, fee, reverted)
      BY <3>1, <3>5 DEF IncludeFee, Included
    <3>6. CASE \E fee \in 0..MaxFee(tx[s].price) : IncludeColdStart(s, fee)
      BY <3>1, <3>6 DEF IncludeColdStart, Included
    <3>7. CASE \E fee \in 0..MaxFee(tx[s].price) : ColdStartReverts(s, fee)
      BY <3>1, <3>7 DEF ColdStartReverts, Included
    <3>8. CASE UNCHANGED fate
      BY <3>2, <3>8
    <3>9. \/ UNCHANGED fate
          \/ \E fee \in 0..MaxFee(tx[s].price) :
               \/ \E reverted \in BOOLEAN : IncludeFee(s, fee, reverted)
               \/ IncludeColdStart(s, fee)
               \/ ColdStartReverts(s, fee)
      <4>1. ASSUME NEW sender \in Senders, NEW had \in signed, NEW price \in GasPrices,
                   NEW revertible \in BOOLEAN, NEW anchor \in 0..clock,
                   ProveFeeEntrypoint(s, sender, had, price, revertible, anchor)
            PROVE  UNCHANGED fate
        BY <4>1 DEF ProveFeeEntrypoint
      <4>2. ASSUME NEW deposit \in Claims, NEW had \in signed, NEW price \in GasPrices,
                   NEW anchor \in 0..clock,
                   ProveColdStart(s, had, deposit, price, anchor)
            PROVE  UNCHANGED fate
        BY <4>2 DEF ProveColdStart
      <4> QED
        BY <3>4, <4>1, <4>2 DEF TxStep
    <3> QED
      BY <3>5, <3>6, <3>7, <3>8, <3>9
  <2>2. tx[t].quote \in signed /\ clock <= tx[t].quote.until
    BY <2>1 DEF Includable, Unexpired, IInv, ChainInv, TxSound, Proven
  <2>3. PICK b \in basis : b.quote = tx[t].quote /\ tx[t].quote.until <= b.at + QuoteValidity
    BY <2>2, SignedQuotes DEF IInv, TypeOK
  <2>4. /\ tx[t].quote \in QuoteRecords /\ clock \in Nat /\ b.at \in Nat
    BY <2>2, QuotesAssumption DEF IInv, TypeOK, AttestTypeOK, Clocks
  <2>5. tx[t].quote.until \in Nat
    BY <2>4 DEF QuoteRecords
  <2> QED
    BY <2>2, <2>3, <2>4, <2>5, ValidityNat
<1> QED
  BY Invariance, <1>1, PTL DEF Spec, StalePriceNeverPaid

-----------------------------------------------------------------------------
(* The payment path implements FeePayments: every step of handlers, users   *)
(* and network is a step of it, or changes nothing that it sees.            *)

\* What a transaction was proven with is what the quote in it says.
ProofFits ==
  \A t \in Txs : Proven(t) =>
    /\ tx[t].quote.fj = MaxFee(tx[t].price)
    /\ tx[t].quote.domain = IF tx[t].entry = "cold" THEN "FPCs" ELSE "FPC"
    /\ tx[t].entry = "fee" => tx[t].quote.user # fpc

LEMMA InitFits == Init => ProofFits
  BY DEF Init, ChainInit, ProofFits, Proven

LEMMA NewProofFits ==
  ASSUME TypeOK, ProofFits, NEW t \in Txs, NEW made, tx' = [tx EXCEPT ![t] = made],
         made.quote.fj = MaxFee(made.price),
         made.quote.domain = IF made.entry = "cold" THEN "FPCs" ELSE "FPC",
         made.entry = "fee" => made.quote.user # fpc
  PROVE  ProofFits'
<1>1. \A s \in Txs : tx'[s] = IF s = t THEN made ELSE tx[s]
  BY DEF TypeOK, ChainTypeOK
<1> QED
  BY <1>1 DEF ProofFits, Proven

LEMMA ProvingFits ==
  ASSUME TypeOK, ProofFits, NEW t \in Txs, NEW had, NEW price, NEW anchor,
         \/ \E sender \in Senders, revertible \in BOOLEAN :
              ProveFeeEntrypoint(t, sender, had, price, revertible, anchor)
         \/ \E deposit \in Claims : ProveColdStart(t, had, deposit, price, anchor)
  PROVE  ProofFits' /\ UNCHANGED <<clock, signed, spentQuotes, consumed, feeJuice, tokens>>
<1>1. ASSUME NEW sender \in Senders, NEW revertible \in BOOLEAN,
             ProveFeeEntrypoint(t, sender, had, price, revertible, anchor)
      PROVE  ProofFits' /\ UNCHANGED <<clock, signed, spentQuotes, consumed, feeJuice, tokens>>
  <2> DEFINE quote == QuoteHash(had.asset, had.fj, had.aa, had.until, sender)
             made == [entry |-> "fee", quote |-> quote, deposit |-> NoClaim, price |-> price,
                      revertible |-> revertible]
  <2>1. /\ tx' = [tx EXCEPT ![t] = made] /\ quote.fj = MaxFee(price)
        /\ UNCHANGED <<clock, signed, spentQuotes, consumed, feeJuice, tokens>>
    BY <1>1 DEF ProveFeeEntrypoint, quoteVars
  <2>2. quote.domain = "FPC" /\ quote.user # fpc
    BY AccountsDistinct DEF QuoteHash
  <2>3. made.quote = quote /\ made.price = price /\ made.entry = "fee"
    OBVIOUS
  <2> HIDE DEF made, quote
  <2> QED
    BY <2>1, <2>2, <2>3, NewProofFits
<1>2. ASSUME NEW deposit \in Claims, ProveColdStart(t, had, deposit, price, anchor)
      PROVE  ProofFits' /\ UNCHANGED <<clock, signed, spentQuotes, consumed, feeJuice, tokens>>
  <2> DEFINE quote == ColdStartQuoteHash(had.asset, had.fj, had.aa, had.until, had.user,
                                         had.amount, had.claim)
             made == [entry |-> "cold", quote |-> quote, deposit |-> deposit,
                      price |-> price, revertible |-> FALSE]
  <2>1. /\ tx' = [tx EXCEPT ![t] = made] /\ quote.fj = MaxFee(price)
        /\ UNCHANGED <<clock, signed, spentQuotes, consumed, feeJuice, tokens>>
    BY <1>2 DEF ProveColdStart, quoteVars
  <2>2. quote.domain = "FPCs"
    BY DEF ColdStartQuoteHash
  <2>3. made.quote = quote /\ made.price = price /\ made.entry = "cold"
    OBVIOUS
  <2> HIDE DEF made, quote
  <2> QED
    BY <2>1, <2>2, <2>3, NewProofFits
<1> QED
  BY <1>1, <1>2

\* The charge of the network is the one of a quote that was offered.
LEMMA ChargeImplements ==
  ASSUME IInv, ProofFits, NEW t \in Txs, NEW fee \in Nat, Includable(t), ChargeFpc(t, fee),
         spentQuotes' = spentQuotes \cup {tx[t].quote}, UNCHANGED quoteVars
  PROVE  Payments!Charge(tx[t].quote)
<1> DEFINE q == tx[t].quote
<1>1. tx[t] \in TxRecords /\ Proven(t) /\ q \in signed /\ q \notin spentQuotes
      /\ clock <= q.until
  BY DEF Includable, Unspent, Unexpired, Proven, IInv, TypeOK, ChainTypeOK, ChainInv, TxSound
<1>2. /\ tx[t].price \in GasPrices /\ MaxFee(tx[t].price) \in Nat /\ baseFee \in Nat
      /\ q.fj = MaxFee(tx[t].price)
  BY <1>1, MaxFeeNat, FpcAssumption DEF TxRecords, IInv, TypeOK, ChainTypeOK, ProofFits
<1>3. /\ feeJuice' = feeJuice - fee /\ fee <= MaxFee(tx[t].price)
      /\ feeJuice >= MaxFee(tx[t].price) /\ feeJuice \in Nat
  BY <1>2 DEF ChargeFpc, Includable, IInv, TypeOK, ChainTypeOK
<1>4. feeJuice - feeJuice' \in 0..q.fj /\ feeJuice' >= 0
  BY <1>2, <1>3
<1>5. UNCHANGED <<clock, signed>>
  BY DEF quoteVars
<1> QED
  BY <1>1, <1>4, <1>5 DEF Payments!Charge

\* A payment that gives everyone what it should is a payment of FeePayments.
LEMMA ShareImplements ==
  ASSUME NEW before \in [Assets -> [Accounts -> Nat]], NEW q \in QuoteRecords,
         NEW payer \in Accounts, NEW amount, NEW shared \in [Accounts -> Nat],
         tokens' = [before EXCEPT ![q.asset] = shared],
         \A x \in Accounts : shared[x] = before[q.asset][x] + Gets(q, payer, amount, x)
  PROVE  Payments!Share(before, q, payer, amount)
<1> DEFINE share == [x \in Accounts |-> before[q.asset][x] + Gets(q, payer, amount, x)]
<1>1. q.asset \in Assets
  BY DEF QuoteRecords
<1>2. share = shared
  OBVIOUS
<1>3. tokens' = [before EXCEPT ![q.asset] = share]
  BY <1>2
<1>4. tokens'[q.asset][payer] >= 0
  BY <1>1
<1>5. Payments!Parties = Accounts
  BY DEF Payments!Parties, Accounts
<1> QED
  BY <1>3, <1>4, <1>5 DEF Payments!Share, Gets

\* The setup phase of fee_entrypoint, whether or not the user's own calls revert.
LEMMA FeeImplements ==
  ASSUME IInv, ProofFits, NEW t \in Txs, NEW fee \in Nat, NEW reverted \in BOOLEAN,
         IncludeFee(t, fee, reverted)
  PROVE  \E q \in signed : Payments!PayFromBalance(q)
<1> DEFINE q == tx[t].quote
           held == tokens[q.asset]
           shared == Move(held, q.user, operator, q.aa)
<1>1. /\ Includable(t) /\ ChargeFpc(t, fee) /\ q \in QuoteRecords /\ ~tx[t].revertible
      /\ tx[t].entry = "fee" /\ held[q.user] >= q.aa
  BY ChargeOwes DEF IncludeFee, IInv
<1>2. /\ tokens' = [tokens EXCEPT ![q.asset] = shared]
      /\ spentQuotes' = spentQuotes \cup {q}
      /\ UNCHANGED <<quoteVars, consumed>>
  BY <1>1 DEF IncludeFee
<1>3. q \in signed /\ q.domain = "FPC"
  BY <1>1 DEF Includable, Proven, IInv, ChainInv, TxSound, ProofFits
<1>4. /\ q.aa \in Nat /\ q.asset \in Assets /\ held \in [Accounts -> Nat]
      /\ tokens \in [Assets -> [Accounts -> Nat]]
      /\ q.user \in Accounts /\ operator \in Accounts /\ q.user # operator
  BY <1>1, AccountsDistinct DEF QuoteRecords, IInv, TypeOK, ChainTypeOK
<1>5. Payments!Charge(q)
  BY <1>1, <1>2, ChargeImplements
<1>6. q.user # fpc
  BY <1>1 DEF Includable, Proven, ProofFits
<1> HIDE DEF q, held, shared
<1>7. /\ shared \in [Accounts -> Nat]
      /\ \A x \in Accounts :
           shared[x] = held[x] + (IF x = operator THEN q.aa ELSE 0) - (IF x = q.user THEN q.aa ELSE 0)
  <2>1. Moved(held, q.user, operator, q.aa, shared)
    BY <1>1, <1>4, MoveMoves DEF shared
  <2> QED
    BY <2>1 DEF Moved
<1>8. \A x \in Accounts : shared[x] = held[x] + Gets(q, q.user, q.aa, x)
  BY <1>4, <1>7 DEF Gets
<1>9. Payments!Share(tokens, q, q.user, q.aa)
  BY <1>1, <1>2, <1>4, <1>7, <1>8, ShareImplements DEF held
<1>10. consumed' = consumed
  BY <1>2
<1> QED
  BY <1>1, <1>3, <1>5, <1>6, <1>9, <1>10 DEF Payments!PayFromBalance

LEMMA ColdImplements ==
  ASSUME IInv, ProofFits, NEW t \in Txs, NEW fee \in Nat, IncludeColdStart(t, fee)
  PROVE  \E q \in signed, c \in Claims : Payments!PayFromDeposit(q, c)
<1> DEFINE q == tx[t].quote
           d == tx[t].deposit
           before == Claimed(d)
           shared == Distribute(before[q.asset], q)
<1>1. /\ Includable(t) /\ ChargeFpc(t, fee) /\ q \in QuoteRecords /\ tx[t].entry = "cold"
      /\ d \notin consumed /\ CanDistribute(before[q.asset], q)
  BY ChargeOwes DEF IncludeColdStart, IInv
<1>2. /\ d \in Claims /\ Deposited[d].amount = q.amount
      /\ q.amount >= q.aa /\ q \in signed /\ q.domain = "FPCs"
  BY <1>1 DEF IInv, ChainInv, TxSound, Proven, Includable, ProofFits
<1>3. q.asset \in Assets /\ before \in [Assets -> [Accounts -> Nat]] /\ fpc \in Accounts
  BY <1>1, <1>2, ClaimBrings, AccountsDistinct DEF QuoteRecords, IInv
<1>4. /\ spentQuotes' = spentQuotes \cup {q} /\ consumed' = consumed \cup {d}
      /\ tokens' = [before EXCEPT ![q.asset] = shared]
      /\ UNCHANGED quoteVars
  BY DEF IncludeColdStart
<1>5. Payments!Charge(q)
  BY <1>1, <1>4, ChargeImplements
<1> DEFINE came == Deposited[d]
           brought == [tokens EXCEPT ![came.asset] =
                         [x \in Accounts |-> tokens[came.asset][x]
                                             + IF x = fpc THEN came.amount ELSE 0]]
<1>6. before = brought
  <2> DEFINE minted == Mint(tokens[came.asset], fpc, came.amount)
             added == [x \in Accounts |-> tokens[came.asset][x]
                                          + IF x = fpc THEN came.amount ELSE 0]
  <2>1. /\ tokens[came.asset] \in [Accounts -> Nat] /\ came.amount \in Nat
    BY <1>2, FpcAssumption DEF IInv, TypeOK, ChainTypeOK
  <2>2. minted \in [Accounts -> Nat]
    BY <1>3, <2>1 DEF Mint
  <2>3. \A x \in Accounts : minted[x] = added[x]
    BY <1>3, <2>1 DEF Mint
  <2>4. minted = added
    BY <2>2, <2>3
  <2>5. before = [tokens EXCEPT ![came.asset] = minted]
    BY DEF Claimed
  <2> HIDE DEF minted, added, before
  <2> QED
    BY <2>4, <2>5 DEF added
<1> HIDE DEF q, before, shared
<1>7. /\ shared \in [Accounts -> Nat]
      /\ \A x \in Accounts : shared[x] = before[q.asset][x] + Gets(q, fpc, q.amount, x)
  <2>1. before[q.asset] \in [Accounts -> Nat]
    BY <1>3
  <2> QED
    BY <1>1, <1>2, <2>1, ColdStartShares DEF shared
<1>8. Payments!Share(before, q, fpc, q.amount)
  BY <1>1, <1>3, <1>4, <1>7, ShareImplements
<1>9. Payments!Parties = Accounts
  BY DEF Payments!Parties, Accounts
<1> HIDE DEF d
<1>10. Payments!Share(brought, q, fpc, q.amount)
  BY <1>6, <1>8
<1> QED
  BY <1>1, <1>2, <1>4, <1>5, <1>9, <1>10 DEF Payments!PayFromDeposit

LEMMA RevertImplements ==
  ASSUME IInv, ProofFits, NEW t \in Txs, NEW fee \in Nat, ColdStartReverts(t, fee)
  PROVE  \E q \in signed : Payments!Lose(q)
<1> DEFINE q == tx[t].quote
<1>1. /\ Includable(t) /\ ChargeFpc(t, fee) /\ tx[t].entry = "cold" /\ MintReverts
      /\ spentQuotes' = spentQuotes \cup {q} /\ UNCHANGED <<quoteVars, tokens, consumed>>
  BY DEF ColdStartReverts
<1>2. q \in signed /\ q.domain = "FPCs"
  BY <1>1 DEF IInv, ChainInv, TxSound, Proven, Includable, ProofFits
<1>3. Payments!Charge(q)
  BY <1>1, ChargeImplements
<1>4. tokens' = tokens /\ consumed' = consumed
  BY <1>1
<1> HIDE DEF q
<1> QED
  BY <1>1, <1>2, <1>3, <1>4 DEF Payments!Lose

\* What FeePayments sees.
seen == <<clock, signed, spentQuotes, consumed, feeJuice, tokens>>

LEMMA EnvironmentImplements ==
  ASSUME IInv,
         \/ \E c \in Claims : DepositLands(c)
         \/ BaseFeeMoves
         \/ FeeJuiceArrives
         \/ \E a \in Assets, u \in Senders : UserSpends(a, u)
  PROVE  Payments!PaymentNext \/ UNCHANGED seen
<1> USE DEF quoteVars
<1>1. CASE (\E c \in Claims : DepositLands(c)) \/ BaseFeeMoves
  BY <1>1 DEF DepositLands, BaseFeeMoves, seen
<1>2. CASE FeeJuiceArrives
  <2>1. feeJuice' > feeJuice
    BY <1>2, MaxFeeNat DEF FeeJuiceArrives, IInv, TypeOK, ChainTypeOK
  <2>2. UNCHANGED <<clock, signed, spentQuotes, consumed, tokens>>
    BY <1>2 DEF FeeJuiceArrives
  <2> QED
    BY <2>1, <2>2 DEF Payments!PaymentNext, Payments!Refill
<1>3. ASSUME NEW a \in Assets, NEW u \in Senders, UserSpends(a, u)
      PROVE  Payments!PaymentNext
  <2>1. /\ tokens[a][u] > 0
        /\ tokens' = [tokens EXCEPT ![a][u] = tokens[a][u] - 1]
        /\ UNCHANGED <<clock, signed, spentQuotes, consumed, feeJuice>>
    BY <1>3 DEF UserSpends
  <2>2. u \in Users \ {fpc}
    BY AccountsDistinct
  <2> QED
    BY <2>1, <2>2 DEF Payments!PaymentNext, Payments!SpendElsewhere
<1> QED
  BY <1>1, <1>2, <1>3

\* One step for each action of FpcSystem.
LEMMA StepImplements ==
  IInv /\ ProofFits /\ [Next]_vars =>
    ProofFits' /\ (Payments!PaymentNext \/ UNCHANGED seen)
<1> SUFFICES ASSUME IInv, ProofFits, [Next]_vars
             PROVE  ProofFits' /\ (Payments!PaymentNext \/ UNCHANGED seen)
  OBVIOUS
<1>0. TypeOK
  BY DEF IInv
<1>a. ASSUME UNCHANGED tx
      PROVE  ProofFits'
  BY <1>a DEF ProofFits, Proven
\* The service offers quotes.
<1>1. ASSUME UNCHANGED chainVars, signed \subseteq signed', UNCHANGED clock
      PROVE  ProofFits' /\ Payments!PaymentNext
  <2>1. UNCHANGED <<clock, spentQuotes, consumed, feeJuice, tx, tokens>>
    BY <1>1 DEF chainVars
  <2> QED
    BY <1>1, <1>a, <2>1 DEF Payments!PaymentNext, Payments!Offer
<1>2. ASSUME NEW r \in Requests, NEW u \in Users, NEW a \in Assets,
             AskPayment(r, u, a) \/ \E c \in Claims : AskColdStart(r, u, a, c)
      PROVE  ProofFits' /\ Payments!PaymentNext
  <2>1. UNCHANGED <<chainVars, signed, clock>>
    BY <1>2 DEF AskPayment, AskColdStart, AskQuote, quoteVars
  <2> QED
    BY <1>1, <2>1
<1>3. ASSUME StartStep \/ \E r \in Requests : QuoteStep(r), UNCHANGED chainVars
      PROVE  ProofFits' /\ Payments!PaymentNext
  <2>1. ASSUME StartStep
        PROVE  signed \subseteq signed' /\ UNCHANGED clock
    BY <2>1 DEF StartStep, Restart, Seed, quoteVars
  <2>2. ASSUME NEW r \in Requests, QuoteStep(r)
        PROVE  signed \subseteq signed' /\ UNCHANGED clock
    <3>1. CASE PriceQuote(r) \/ RejectQuote(r) \/ SignFails(r)
      <4>1. UNCHANGED quoteVars
        BY <3>1 DEF PriceQuote, RejectQuote, SignFails
      <4> QED
        BY <4>1 DEF quoteVars
    <3>2. CASE SignQuote(r)
      BY <3>2 DEF SignQuote
    <3> QED
      BY <2>2, <3>1, <3>2 DEF QuoteStep
  <2>3. signed \subseteq signed' /\ UNCHANGED clock
    BY <1>3, <2>1, <2>2
  <2> QED
    BY <1>1, <1>3, <2>3
<1>4. CASE NextBlock /\ UNCHANGED <<attestVars, chainVars>>
  <2>1. UNCHANGED <<signed, spentQuotes, consumed, feeJuice, tx, tokens>> /\ clock' = clock + 1
    BY <1>4 DEF NextBlock, chainVars
  <2> QED
    BY <1>a, <2>1 DEF Payments!PaymentNext, Payments!TimePasses
<1>5. ASSUME NEW t \in Txs, TxStep(t)
      PROVE  ProofFits' /\ (Payments!PaymentNext \/ UNCHANGED seen)
  <2>1. ASSUME NEW had \in signed, NEW price \in GasPrices, NEW anchor \in 0..clock,
               \/ \E sender \in Senders, revertible \in BOOLEAN :
                    ProveFeeEntrypoint(t, sender, had, price, revertible, anchor)
               \/ \E deposit \in Claims : ProveColdStart(t, had, deposit, price, anchor)
        PROVE  ProofFits' /\ UNCHANGED seen
    BY <1>0, <2>1, ProvingFits DEF seen
  <2>2. ASSUME NEW fee \in Nat,
               \/ \E reverted \in BOOLEAN : IncludeFee(t, fee, reverted)
               \/ IncludeColdStart(t, fee)
               \/ ColdStartReverts(t, fee)
        PROVE  ProofFits' /\ Payments!PaymentNext
    <3>1. UNCHANGED tx
      BY <2>2 DEF IncludeFee, IncludeColdStart, ColdStartReverts
    <3>2. \/ \E q \in signed : Payments!PayFromBalance(q)
          \/ \E q \in signed, c \in Claims : Payments!PayFromDeposit(q, c)
          \/ \E q \in signed : Payments!Lose(q)
      BY <2>2, FeeImplements, ColdImplements, RevertImplements
    <3>3. Payments!PaymentNext
      BY <3>2 DEF Payments!PaymentNext
    <3> QED
      BY <1>a, <3>1, <3>3
  <2>3. 0..MaxFee(tx[t].price) \subseteq Nat
    OBVIOUS
  <2> QED
    BY <1>5, <2>1, <2>2, <2>3 DEF TxStep
<1>6. CASE \/ \E c \in Claims : DepositLands(c)
           \/ BaseFeeMoves
           \/ FeeJuiceArrives
           \/ \E a \in Assets, u \in Senders : UserSpends(a, u)
  <2>1. UNCHANGED tx
    BY <1>6 DEF DepositLands, BaseFeeMoves, FeeJuiceArrives, UserSpends
  <2> QED
    BY <1>6, <1>a, <2>1, EnvironmentImplements
<1>7. CASE UNCHANGED vars
  <2>1. UNCHANGED <<tx, seen>>
    BY <1>7 DEF vars, quoteVars, chainVars, seen
  <2> QED
    BY <1>a, <2>1
<1> QED
  BY <1>2, <1>3, <1>4, <1>5, <1>6, <1>7 DEF Next, ChainStep

\* The FPC pays fees only in steps that pay the operator, and only cold starts whose
\* public part reverts are an exception, if they can (main.nr:203-242, 278-318).
THEOREM PaymentsImplemented == Spec => PaymentsAreAtomic
<1>1. Init => Payments!PaymentInit
  <2> SUFFICES ASSUME Init
               PROVE  Payments!PaymentInit
    OBVIOUS
  <2>1. \A a \in Assets : tokens[a][operator] = 0 /\ tokens[a][fpc] = 0
    BY AccountsDistinct DEF Init, ChainInit
  <2>2. clock = 0 /\ signed = {} /\ spentQuotes = {} /\ consumed = {} /\ feeJuice = 0
    BY DEF Init, ChainInit, AttestInit
  <2> QED
    BY <2>1, <2>2 DEF Payments!PaymentInit
<1>2. IInv /\ ProofFits /\ [Next]_vars => [Payments!PaymentNext]_(Payments!paymentVars)
  BY StepImplements DEF seen, Payments!paymentVars
<1>3. IInv /\ ProofFits /\ [Next]_vars => ProofFits'
  BY StepImplements
<1> QED
  BY <1>1, <1>2, <1>3, InitFits, Invariance, PTL
     DEF Spec, PaymentsAreAtomic, Payments!PaymentSpec
=============================================================================
