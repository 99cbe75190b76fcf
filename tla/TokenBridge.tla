---------------------------- MODULE TokenBridge ----------------------------
(***************************************************************************)
(* The token bridge (contracts/token_bridge/src/main.nr) between the       *)
(* portal on L1 and a token on L2: deposits become messages, messages are  *)
(* claimed in public or in private, exits burn tokens and send a message   *)
(* back.                                                                   *)
(*                                                                         *)
(* A public call is one step.  A private call is proven on the user's      *)
(* machine and included later, if its message and notes are still there:   *)
(* pool holds what was proven.  The portal, the inbox, the outbox and the  *)
(* Token are external; a private balance stands for the notes of its       *)
(* owner.  A deposit stands for its message and claim secret.              *)
(***************************************************************************)
EXTENDS Integers, FiniteSets, FiniteSetsExt

CONSTANTS
  Holders,     \* accounts that may hold the token on L2
  Deposits,    \* deposits in the portal, by their claim secret
  NoHolder,    \* a private message names no recipient
  Amount,      \* Amount[d]: tokens deposited with d
  MaxClock,    \* bound: the last block timestamp
  MaxPool      \* bound: private calls in the pool

ASSUME BridgeAssumption ==
  /\ IsFiniteSet(Holders) /\ IsFiniteSet(Deposits)
  /\ NoHolder \notin Holders
  /\ Amount \in [Deposits -> Nat \ {0}]
  /\ MaxClock \in Nat
  /\ MaxPool \in Nat

VARIABLES
  clock,       \* timestamp of the latest block
  configured,  \* set_config was called
  message,     \* message[d]: stage and content of the message of deposit d
  public,      \* public[h]: public balance of h
  private,     \* private[h]: private balance of h
  escrow,      \* tokens the portal holds on L1
  withdrawals, \* tokens the messages to L1 promise
  pool         \* private calls that are proven and not yet included

bridgeVars ==
  <<clock, configured, message, public, private, escrow, withdrawals, pool>>
balances == <<public, private>>

Stages == {"none", "sent", "landed", "consumed"}
Messages == [stage : Stages, to : Holders \cup {NoHolder}, amount : Nat]

BridgeInit ==
  /\ clock = 0
  /\ configured = FALSE
  /\ message = [d \in Deposits |-> [stage |-> "none", to |-> NoHolder, amount |-> Amount[d]]]
  /\ public = [h \in Holders |-> 0]
  /\ private = [h \in Holders |-> 0]
  /\ escrow = 0
  /\ withdrawals = 0
  /\ pool = {}

SetStage(d, stage) == [message EXCEPT ![d].stage = stage]
Credit(held, h, n) == [held EXCEPT ![h] = @ + n]
Debit(held, h, n) == [held EXCEPT ![h] = @ - n]

-----------------------------------------------------------------------------

\* The constructor does nothing; the configuration is set by a call, once.
SetConfig ==
  /\ ~configured
  /\ configured' = TRUE
  /\ UNCHANGED <<clock, message, balances, escrow, withdrawals, pool>>

\* The portal takes the tokens and sends a message.  The content of a public
\* deposit names who gets it, that of a private one (NoHolder) does not.
DepositOnL1(d, to) ==
  /\ message[d].stage = "none"
  /\ message' = [message EXCEPT ![d].stage = "sent", ![d].to = to]
  /\ escrow' = escrow + Amount[d]
  /\ UNCHANGED <<clock, configured, balances, withdrawals, pool>>

MessageLands(d) ==
  /\ message[d].stage = "sent"
  /\ message' = SetStage(d, "landed")
  /\ UNCHANGED <<clock, configured, balances, escrow, withdrawals, pool>>

\* consume_l1_to_l2_message: the message the arguments hash to is in the tree and
\* its nullifier is not.
ClaimAgain(d, to, amount) == \* mutant: the nullifier is not looked for
  /\ configured
  /\ message[d].stage \in {"landed", "consumed"}
  /\ message[d].to = to
  /\ message[d].amount = amount
Consumable(d, to, amount) ==
  /\ configured
  /\ message[d].stage = "landed"
  /\ message[d].to = to
  /\ message[d].amount = amount

ClaimPublic(d, to, amount) ==
  /\ Consumable(d, to, amount)
  /\ message' = SetStage(d, "consumed")
  /\ public' = Credit(public, to, amount)
  /\ UNCHANGED <<clock, configured, private, escrow, withdrawals, pool>>

\* Whoever has the secret chooses the recipient.
ProveClaimPrivate(d, recipient, amount) ==
  /\ Consumable(d, NoHolder, amount)
  /\ Cardinality(pool) < MaxPool
  /\ pool' = pool \cup {[call |-> "claim", deposit |-> d, holder |-> recipient,
                         amount |-> amount]}
  /\ UNCHANGED <<clock, configured, message, balances, escrow, withdrawals>>

IncludeClaim(t) ==
  /\ t.call = "claim"
  /\ Consumable(t.deposit, NoHolder, t.amount)
  /\ message' = SetStage(t.deposit, "consumed")
  /\ private' = Credit(private, t.holder, t.amount)
  /\ pool' = pool \ {t}
  /\ UNCHANGED <<clock, configured, public, escrow, withdrawals>>

ExitPublic(h, amount) ==
  /\ configured
  /\ public[h] >= amount
  /\ public' = Debit(public, h, amount)
  /\ withdrawals' = withdrawals + amount
  /\ UNCHANGED <<clock, configured, message, private, escrow, pool>>

\* The notes are chosen when the call is proven, and must be there still.
ProveExitPrivate(h, amount) ==
  /\ configured
  /\ private[h] >= amount
  /\ Cardinality(pool) < MaxPool
  /\ pool' = pool \cup {[call |-> "exit", holder |-> h, amount |-> amount]}
  /\ UNCHANGED <<clock, configured, message, balances, escrow, withdrawals>>

Burn(held, h, n) == Debit(held, h, n)

IncludeExit(t) ==
  /\ t.call = "exit"
  /\ private[t.holder] >= t.amount
  /\ private' = Burn(private, t.holder, t.amount)
  /\ withdrawals' = withdrawals + t.amount
  /\ pool' = pool \ {t}
  /\ UNCHANGED <<clock, configured, message, public, escrow>>

\* A call that can no longer be included, or is forgotten, leaves the pool.
DropCall(t) ==
  /\ pool' = pool \ {t}
  /\ UNCHANGED <<clock, configured, message, balances, escrow, withdrawals>>

\* The portal pays out a message of the outbox.
WithdrawOnL1(amount) ==
  /\ amount <= withdrawals
  /\ withdrawals' = withdrawals - amount
  /\ escrow' = escrow - amount
  /\ UNCHANGED <<clock, configured, message, balances, pool>>

\* Token.transfer_public_to_private: recipients of the faucet shield before they
\* pay with the FPC.
Shield(h, amount) ==
  /\ public[h] >= amount
  /\ public' = Debit(public, h, amount)
  /\ private' = Credit(private, h, amount)
  /\ UNCHANGED <<clock, configured, message, escrow, withdrawals, pool>>

NewBlock ==
  /\ clock < MaxClock
  /\ clock' = clock + 1
  /\ UNCHANGED <<configured, message, balances, escrow, withdrawals, pool>>
=============================================================================
