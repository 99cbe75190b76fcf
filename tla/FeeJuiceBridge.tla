--------------------------- MODULE FeeJuiceBridge ---------------------------
(***************************************************************************)
(* The world the top-up service acts on: the L1 Fee Juice portal, the      *)
(* L1 -> L2 inbox and the Fee Juice balance of the top-up target.  None of *)
(* it is in this repository; it is modelled from how services/topup uses   *)
(* it (bridgeTokensPublic, waitForL1ToL2MessageReady, FeeJuice.claim,      *)
(* getFeeJuiceBalance).                                                    *)
(*                                                                         *)
(* A deposit stands for one L1 -> L2 message: its hash, leaf index and     *)
(* claim secret.  The secret is created by the process that deposits, so   *)
(* nobody who has lost it can ever claim the deposit.                      *)
(***************************************************************************)
EXTENDS Integers

CONSTANTS
  Deposits,     \* identities of L1 -> L2 messages
  TopUpAmount,  \* config.top_up_amount: Fee Juice moved by one deposit
  CreditCap,    \* bound: balances to start from, and to credit externally
  Faults        \* which disturbances the environment may cause

ASSUME BridgeAssumption ==
  /\ TopUpAmount \in Nat \ {0}
  /\ CreditCap \in Nat

VARIABLES
  status,       \* status[d]: where the deposit stands between L1 and L2
  balance,      \* Fee Juice of the top-up target on L2
  claimTxs      \* deposits with a claim transaction waiting to be mined

bridgeVars == <<status, balance, claimTxs>>

\* "unused":  no such deposit was made
\* "sent":    the L1 transaction that makes it waits to be mined
\* "pending": mined on L1, its message is not consumable on L2 yet
\* "ready":   its message is in the L2 tree and can be claimed
\* "claimed": the message is nullified and the amount was credited
Stages == {"unused", "sent", "pending", "ready", "claimed"}

BridgeTypeOK ==
  /\ status \in [Deposits -> Stages]
  /\ balance \in Nat
  /\ claimTxs \in SUBSET Deposits

BridgeInit ==
  /\ status = [d \in Deposits |-> "unused"]
  /\ balance \in 0..CreditCap
  /\ claimTxs = {}

\* Deposits whose amount has left L1, or may yet leave it, and was not credited on L2.
Outstanding == {d \in Deposits : status[d] \in {"sent", "pending", "ready"}}

-----------------------------------------------------------------------------

\* The transaction of a deposit is sent; called by the service's bridge step.
SendDeposit(d) ==
  status' = [status EXCEPT ![d] = "sent"]

\* The portal accepts the deposit, whether or not its sender still waits for that.
DepositMined(d) ==
  /\ status[d] = "sent"
  /\ status' = [status EXCEPT ![d] = "pending"]
  /\ UNCHANGED <<balance, claimTxs>>

\* ... or it reverts, or is dropped.
DepositDropped(d) ==
  /\ "l1" \in Faults
  /\ status[d] = "sent"
  /\ status' = [status EXCEPT ![d] = "unused"]
  /\ UNCHANGED <<balance, claimTxs>>

\* The rollup includes the message: from here on it can be consumed.
MessageArrives(d) ==
  /\ status[d] = "pending"
  /\ status' = [status EXCEPT ![d] = "ready"]
  /\ UNCHANGED <<balance, claimTxs>>

\* A claim transaction is mined.  Its nullifier lets a message be consumed
\* once, whoever sent the transaction and however many were sent.
ClaimLands(d) ==
  /\ d \in claimTxs
  /\ status[d] = "ready"
  /\ status' = [status EXCEPT ![d] = "claimed"]
  /\ balance' = balance + TopUpAmount
  /\ claimTxs' = claimTxs \ {d}

\* A claim transaction is dropped from the pool without being mined.
ClaimDropped(d) ==
  /\ "claim" \in Faults
  /\ d \in claimTxs
  /\ claimTxs' = claimTxs \ {d}
  /\ UNCHANGED <<status, balance>>

\* The protocol charges the target, as fee payer, for a user's transaction.
FeeCharged ==
  \E fee \in 1..balance :
    /\ balance' = balance - fee
    /\ UNCHANGED <<status, claimTxs>>

\* Somebody else sends Fee Juice to the target.
ExternalCredit ==
  /\ "external" \in Faults
  /\ balance < CreditCap
  /\ balance' = balance + 1
  /\ UNCHANGED <<status, claimTxs>>

BridgeNext ==
  \/ \E d \in Deposits :
       \/ DepositMined(d)
       \/ DepositDropped(d)
       \/ MessageArrives(d)
       \/ ClaimLands(d)
       \/ ClaimDropped(d)
  \/ FeeCharged
  \/ ExternalCredit
=============================================================================
