---------------------------- MODULE FpcContract ----------------------------
(***************************************************************************)
(* The FPC contract (contracts/fpc/src/main.nr) on the Aztec network.      *)
(*                                                                         *)
(* A private function runs on the user's machine, against an anchor block  *)
(* the wallet has synced to: Prove... are the calls of fee_entrypoint and  *)
(* cold_start_entrypoint, whose assertions hold there or no transaction    *)
(* comes to be.  Include is the network adding the transaction to a block: *)
(* it checks the expiration, the nullifiers, the spent notes, the price of *)
(* gas and the Fee Juice of the fee payer, keeps the effects of the setup  *)
(* phase, and keeps those of the app phase unless it reverts.              *)
(*                                                                         *)
(* The network, Token and TokenBridge.claim_private are external; a token  *)
(* balance stands for the notes of its owner.  The user's authwit for the  *)
(* transfer is given with the call.                                        *)
(*                                                                         *)
(* The user of a cold start is an argument, and may be the contract itself *)
(* (nothing checks it): fpc may be one of Users.  It never sends a         *)
(* transaction.  The operator's account only earns here: what it does with *)
(* its tokens, as a user of the FPC too, is left out.                      *)
(***************************************************************************)
EXTENDS Quotes

CONSTANTS
  operator,      \* config.operator
  fpc,           \* the contract's own address
  Deposited,     \* Deposited[c]: asset and amount of the deposit with secret c
  Txs,           \* bound: transactions that are proven
  Unproven,      \* the transaction has not been proven
  GasPrices,     \* values of max_fees_per_gas, and of the base fee
  GasLimit,      \* gas_limits of a transaction
  MaxTtl,        \* MAX_QUOTE_TTL_SECONDS
  Funds,         \* tokens every user starts with, of every asset
  MintReverts    \* TRUE: the public part of a cold start may revert

ASSUME FpcAssumption ==
  /\ operator \notin Users
  /\ fpc # operator
  /\ Deposited \in [Claims -> [asset : Assets, amount : Nat]]
  /\ GasPrices \subseteq Nat
  /\ GasLimit \in Nat \ {0}
  /\ MaxTtl \in Nat
  /\ Funds \in Nat
  /\ MintReverts \in BOOLEAN

Accounts == Users \cup {operator, fpc}
Senders == Users \ {fpc}

VARIABLES
  tokens,        \* tokens[a][x]: private balance of x
  landed,        \* landed[c]: block the deposit's message is in, or MaxClock + 1
  consumed,      \* nullified deposits
  spentQuotes,   \* nullified quotes
  tx,            \* tx[t]: what was proven as t
  fate,          \* fate[t]: whether t was included, and how it ended
  baseFee,       \* price of gas of the next block
  feeJuice,      \* Fee Juice of the FPC
  owed           \* history: what the operator is owed for the fees of the FPC

chainVars ==
  <<tokens, landed, consumed, spentQuotes, tx, fate, baseFee, feeJuice, owed>>

ChainInit ==
  /\ tokens = [a \in Assets |-> [x \in Accounts |-> IF x \in Senders THEN Funds ELSE 0]]
  /\ landed = [c \in Claims |-> MaxClock + 1]
  /\ consumed = {}
  /\ spentQuotes = {}
  /\ tx = [t \in Txs |-> Unproven]
  /\ fate = [t \in Txs |-> "waits"]
  /\ baseFee \in GasPrices
  /\ feeJuice = 0
  /\ owed = [a \in Assets |-> 0]

\* get_max_gas_cost
MaxFee(price) == price * GasLimit

Move(held, from, to, amount) ==
  LET less == [held EXCEPT ![from] = @ - amount]
  IN [less EXCEPT ![to] = @ + amount]

Mint(held, to, amount) == [held EXCEPT ![to] = @ + amount]

-----------------------------------------------------------------------------

\* The signature holds for the quote the contract rebuilds from its arguments,
\* and the quote is fresh at the anchor block.
AssertValidQuote(quote, anchor) ==
  /\ quote \in signed
  /\ anchor <= quote.until
  /\ quote.until - anchor <= MaxTtl

\* A transaction that pays for gas must run the entrypoint in its setup phase.
AnyPhase(price, revertible) == TRUE \* mutant: the phase is not checked
RightPhase(price, revertible) == price > 0 => ~revertible

\* fee_entrypoint, called by sender with what it has of a quote.
ProveFeeEntrypoint(t, sender, had, price, revertible, anchor) ==
  LET quote == QuoteHash(had.asset, had.fj, had.aa, had.until, sender)
  IN /\ tx[t] = Unproven
     /\ RightPhase(price, revertible)
     /\ AssertValidQuote(quote, anchor)
     /\ quote.fj = MaxFee(price)
     /\ tokens[quote.asset][sender] >= quote.aa
     /\ tx' = [tx EXCEPT ![t] =
          [entry |-> "fee", quote |-> quote, deposit |-> NoClaim, price |-> price,
           revertible |-> revertible]]
     /\ UNCHANGED <<quoteVars, tokens, landed, consumed, spentQuotes, fate, baseFee,
                    feeJuice, owed>>

\* claim_private into the contract's own balance.
Claimed(deposit) ==
  [tokens EXCEPT ![Deposited[deposit].asset] = Mint(@, fpc, Deposited[deposit].amount)]

\* The claim is shared out by two transfers: to the user, who may be the
\* contract, and to the operator.
ToUser(held, q) == Move(held, fpc, q.user, q.amount - q.aa)
CanDistribute(held, q) ==
  /\ held[fpc] >= q.amount - q.aa
  /\ ToUser(held, q)[fpc] >= q.aa
KeepUserShare(held, q) == \* mutant: the user's share is forgotten
  Move(held, fpc, operator, q.aa)
PayOutTooMuch(held, q) == \* mutant: the payment is not taken off the user's share
  Move(Move(held, fpc, q.user, q.amount), fpc, operator, q.aa)
Distribute(held, q) == Move(ToUser(held, q), fpc, operator, q.aa)

\* cold_start_entrypoint, as the root of a transaction.  The deposit is the one
\* whose secret and leaf index are passed.  Bridge and asset are arguments too:
\* the contract passes on what it has of that asset, after the claim.
ProveColdStart(t, had, deposit, price, anchor) ==
  LET quote == ColdStartQuoteHash(had.asset, had.fj, had.aa, had.until, had.user,
                                  had.amount, had.claim)
  IN /\ tx[t] = Unproven
     /\ quote.amount >= quote.aa
     /\ AssertValidQuote(quote, anchor)
     /\ quote.fj = MaxFee(price)
     /\ landed[deposit] <= anchor
     /\ deposit \notin consumed
     /\ Deposited[deposit].amount = quote.amount
     /\ CanDistribute(Claimed(deposit)[quote.asset], quote)
     /\ tx' = [tx EXCEPT ![t] =
          [entry |-> "cold", quote |-> quote, deposit |-> deposit, price |-> price,
           revertible |-> FALSE]]
     /\ UNCHANGED <<quoteVars, tokens, landed, consumed, spentQuotes, fate, baseFee,
                    feeJuice, owed>>

-----------------------------------------------------------------------------

\* push_nullifier(quote_hash): a quote that is in the tree is refused.
Replayable(quote) == TRUE \* mutant: the quote is not nullified
Unspent(quote) == quote \notin spentQuotes

\* set_expiration_timestamp(valid_until)
NeverExpires(t) == TRUE \* mutant: the transaction has no expiration
Unexpired(t) == clock <= tx[t].quote.until

\* The network's checks; they and the charge are the same for both entrypoints.
Includable(t) ==
  /\ tx[t] # Unproven
  /\ fate[t] = "waits"
  /\ Unexpired(t)
  /\ Unspent(tx[t].quote)
  /\ tx[t].price >= baseFee
  /\ feeJuice >= MaxFee(tx[t].price)

ChargeFpc(t, fee) ==
  /\ fee \in baseFee..MaxFee(tx[t].price)
  /\ feeJuice' = feeJuice - fee
  /\ owed' = [owed EXCEPT ![tx[t].quote.asset] =
                @ + IF tx[t].price > 0 THEN tx[t].quote.aa ELSE 0]

\* The user's own calls may revert.  The payment was made in the setup phase, or
\* goes with them.
IncludeFee(t, fee, reverted) ==
  LET q == tx[t].quote
      undone == reverted /\ tx[t].revertible
  IN /\ Includable(t)
     /\ tx[t].entry = "fee"
     /\ tokens[q.asset][q.user] >= q.aa
     /\ ChargeFpc(t, fee)
     /\ spentQuotes' = IF undone THEN spentQuotes ELSE spentQuotes \cup {q}
     /\ tokens' = IF undone THEN tokens
                  ELSE [tokens EXCEPT ![q.asset] = Move(@, q.user, operator, q.aa)]
     /\ fate' = [fate EXCEPT ![t] = IF reverted THEN "reverted" ELSE "done"]
     /\ UNCHANGED <<quoteVars, landed, consumed, tx, baseFee>>

\* The claim reaches the contract and is shared out, in the app phase, out of
\* notes that are still there.
IncludeColdStart(t, fee) ==
  LET q == tx[t].quote
  IN /\ Includable(t)
     /\ tx[t].entry = "cold"
     /\ tx[t].deposit \notin consumed
     /\ CanDistribute(Claimed(tx[t].deposit)[q.asset], q)
     /\ ChargeFpc(t, fee)
     /\ spentQuotes' = spentQuotes \cup {q}
     /\ consumed' = consumed \cup {tx[t].deposit}
     /\ tokens' = [Claimed(tx[t].deposit) EXCEPT ![q.asset] = Distribute(@, q)]
     /\ fate' = [fate EXCEPT ![t] = "done"]
     /\ UNCHANGED <<quoteVars, landed, tx, baseFee>>

\* mint_to_private enqueues a public call that raises the total supply.  When it
\* reverts, so does the app phase: the deposit can be claimed again.
ColdStartReverts(t, fee) ==
  /\ MintReverts
  /\ Includable(t)
  /\ tx[t].entry = "cold"
  /\ tx[t].deposit \notin consumed
  /\ CanDistribute(Claimed(tx[t].deposit)[tx[t].quote.asset], tx[t].quote)
  /\ ChargeFpc(t, fee)
  /\ spentQuotes' = spentQuotes \cup {tx[t].quote}
  /\ fate' = [fate EXCEPT ![t] = "reverted"]
  /\ UNCHANGED <<quoteVars, tokens, landed, consumed, tx, baseFee>>

-----------------------------------------------------------------------------

DepositLands(c) ==
  /\ landed[c] > clock
  /\ landed' = [landed EXCEPT ![c] = clock]
  /\ UNCHANGED <<quoteVars, tokens, consumed, spentQuotes, tx, fate, baseFee, feeJuice, owed>>

BaseFeeMoves ==
  /\ baseFee' \in GasPrices \ {baseFee}
  /\ UNCHANGED <<quoteVars, tokens, landed, consumed, spentQuotes, tx, fate, feeJuice, owed>>

\* The top-up service's deposits arrive.
FeeJuiceArrives ==
  /\ \E price \in GasPrices :
       /\ feeJuice < MaxFee(price)
       /\ feeJuice' = MaxFee(price)
  /\ UNCHANGED <<quoteVars, tokens, landed, consumed, spentQuotes, tx, fate, baseFee, owed>>

\* A user spends a token on something else.
UserSpends(a, u) ==
  /\ tokens[a][u] > 0
  /\ tokens' = [tokens EXCEPT ![a][u] = @ - 1]
  /\ UNCHANGED <<quoteVars, landed, consumed, spentQuotes, tx, fate, baseFee, feeJuice, owed>>

TxStep(t) ==
  \/ \E had \in signed, price \in GasPrices, anchor \in 0..clock :
       \/ \E sender \in Senders, revertible \in BOOLEAN :
            ProveFeeEntrypoint(t, sender, had, price, revertible, anchor)
       \/ \E deposit \in Claims : ProveColdStart(t, had, deposit, price, anchor)
  \/ tx[t] # Unproven /\ \E fee \in 0..MaxFee(tx[t].price) :
       \/ \E reverted \in BOOLEAN : IncludeFee(t, fee, reverted)
       \/ IncludeColdStart(t, fee)
       \/ ColdStartReverts(t, fee)

ChainStep ==
  \/ \E t \in Txs : TxStep(t)
  \/ \E c \in Claims : DepositLands(c)
  \/ BaseFeeMoves
  \/ FeeJuiceArrives
  \/ \E a \in Assets, u \in Senders : UserSpends(a, u)

-----------------------------------------------------------------------------

TxRecords ==
  [entry : {"fee", "cold"}, quote : QuoteRecords, deposit : Claims \cup {NoClaim},
   price : GasPrices, revertible : BOOLEAN]

ASSUME UnprovenAssumption == Unproven \notin TxRecords

ChainTypeOK ==
  /\ tokens \in [Assets -> [Accounts -> Nat]]
  /\ landed \in [Claims -> Nat]
  /\ consumed \subseteq Claims
  /\ spentQuotes \subseteq QuoteRecords
  /\ tx \in [Txs -> TxRecords \cup {Unproven}]
  /\ fate \in [Txs -> {"waits", "done", "reverted"}]
  /\ baseFee \in GasPrices
  /\ feeJuice \in Nat
  /\ owed \in [Assets -> Nat]

Included(t) == fate[t] # "waits"

\* A quote pays for one transaction: however often it is proven and sent, the
\* FPC is charged for it once (main.nr: "Pushes a nullifier to prevent replay").
QuotePaysOnce ==
  \A s, t \in Txs :
    Included(s) /\ Included(t) /\ tx[s].quote = tx[t].quote => s = t

\* The operator holds exactly what the quotes of all charged transactions say,
\* whether or not the users' own calls reverted.
OperatorPaid == \A a \in Assets : tokens[a][operator] = owed[a]

\* The operator is short only of the payments of cold starts whose app phase
\* reverted.
ShortOnlyByColdStarts ==
  \A a \in Assets :
    tokens[a][operator] # owed[a] =>
      \E t \in Txs : tx[t] # Unproven /\ tx[t].entry = "cold" /\ fate[t] = "reverted"
                     /\ tx[t].quote.asset = a

\* The contract passes on all it claims (protocol-spec.md: "No tokens accumulate
\* in this contract's balance").
FpcHoldsNothing == \A a \in Assets : tokens[a][fpc] = 0

\* Tokens stay with the contract only once a cold start named it as its own user;
\* until then it passes on every claim to the last unit.
FpcKeepsOnlyItsOwn ==
  FpcHoldsNothing \/ \E t \in Txs : tx[t] # Unproven /\ tx[t].entry = "cold"
                                    /\ fate[t] = "done" /\ tx[t].quote.user = fpc
=============================================================================
