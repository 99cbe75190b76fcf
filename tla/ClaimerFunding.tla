---------------------------- MODULE ClaimerFunding ----------------------------
(***************************************************************************)
(* Two programs that claim Fee Juice on L2 with the claimer's account: the *)
(* script fund-claimer-l2.ts, which bridges Fee Juice to the claimer so    *)
(* that it can pay, and claim() of the running service (topup/src/         *)
(* autoclaim.ts), which pays through a sponsor or by itself.               *)
(*                                                                         *)
(* A claim is a transaction [msg, payer, claims]; claims counts how often  *)
(* it consumes its message, which a transaction can do once.  Both         *)
(* programs wait for a receipt, for a time only: one that gave up may be   *)
(* mined later, beside the one sent next.                                  *)
(*                                                                         *)
(* External: L1, the messages, the node and the prover.                    *)
(***************************************************************************)
EXTENDS Naturals, FiniteSets

CONSTANTS
  Deposit,        \* --amount-wei
  Fee,            \* what a claim costs its payer
  ClaimRetries,   \* --claim-retries
  MaxClaims       \* bound: calls of claim() for the message of the top-up

ASSUME FundingAssumption ==
  {Deposit, Fee, ClaimRetries, MaxClaims} \subseteq Nat \ {0}

Messages == {"funding", "topup"}

VARIABLES
  args,      \* the settings of the script and of the service
  message,   \* message[m]: "none", "deposited", "ready" or "claimed"
  balance,   \* Fee Juice on L2 of the claimer, of another fee payer, of the sponsor
  claimTx,   \* claim transactions in the pool
  fund,      \* the script: where it is, its attempt, whether it pays with the claim
  auto,      \* claim(): whom it asks to pay, whether it waits for what it sent, calls
             \* so far, whether sponsoring is switched off
  paid       \* history: who paid for the claim of a message

fundingVars == <<args, message, balance, claimTx, fund, auto, paid>>

Payers == {"claimer", "other", "sponsor"}

FundingInit ==
  /\ args \in [key : BOOLEAN, address : BOOLEAN, otherPayer : BOOLEAN,
               skipClaim : BOOLEAN, sponsored : BOOLEAN]
  /\ message = [m \in Messages |-> IF m = "topup" THEN "deposited" ELSE "none"]
  /\ balance \in [Payers -> {0, Fee}]
  /\ claimTx = {}
  /\ fund = [at |-> "start", attempt |-> 1, selfPay |-> FALSE]
  /\ auto = [at |-> "idle", sent |-> FALSE, calls |-> 0, off |-> FALSE]
  /\ paid = [m \in Messages |-> {}]

-----------------------------------------------------------------------------

\* A payment with the claim pays out of what the payment itself claims.
Payable(tx) == balance[tx.payer] + (IF tx.claims > 1 THEN Deposit ELSE 0) >= Fee
Includable(tx) == message[tx.msg] = "ready" /\ tx.claims = 1 /\ Payable(tx)

MessageReady ==
  \E m \in Messages :
    /\ message[m] = "deposited"
    /\ message' = [message EXCEPT ![m] = "ready"]
    /\ UNCHANGED <<args, balance, claimTx, fund, auto, paid>>

MineClaim ==
  \E tx \in claimTx :
    /\ claimTx' = claimTx \ {tx}
    /\ IF Includable(tx)
       THEN /\ message' = [message EXCEPT ![tx.msg] = "claimed"]
            /\ paid' = [paid EXCEPT ![tx.msg] = @ \cup {[payer |-> tx.payer, by |-> tx.by]}]
            /\ LET charged == [balance EXCEPT ![tx.payer] = @ - Fee]
               IN  balance' = IF tx.msg = "funding"
                              THEN [charged EXCEPT !["claimer"] = @ + Deposit] ELSE charged
       ELSE UNCHANGED <<message, paid, balance>>
    /\ UNCHANGED <<args, fund, auto>>

-----------------------------------------------------------------------------

FundTo(place) == fund' = [fund EXCEPT !.at = place]
Rest == UNCHANGED <<args, balance, claimTx, auto, paid>>

\* resolveFeePayerSecretKey, and the account the claim is sent from.
FeePayer == IF args.otherPayer THEN "other" ELSE IF args.key THEN "claimer" ELSE "none"
Sender == IF fund.selfPay THEN "claimer" ELSE FeePayer

\* main up to the bridge: it needs an address.  A bridge that fails may have deposited;
\* the secret of the claim is gone with it.
SubmitBridge ==
  /\ fund.at = "start"
  /\ \/ /\ args.key \/ args.address
        /\ message' = [message EXCEPT !["funding"] = "deposited"]
        /\ FundTo("bridged") \/ FundTo("failed")
     \/ FundTo("failed") /\ UNCHANGED message
  /\ Rest

\* --skip-claim stops here, and only now a key of a fee payer is asked for.
AfterBridge ==
  /\ fund.at = "bridged"
  /\ FundTo(IF args.skipClaim THEN "skipped"
            ELSE IF FeePayer = "none" THEN "failed" ELSE "waiting")
  /\ Rest /\ UNCHANGED message

WaitForBridgeMessage ==
  /\ fund.at = "waiting"
  /\ \/ message["funding"] = "ready" /\ FundTo("balances")
     \/ FundTo("failed")                 \* within the time
  /\ Rest /\ UNCHANGED message

\* resolveSelfPayMode: a payer with nothing pays with the claim, given the claimer's key.
SelfPayMode ==
  /\ fund.at = "balances"
  /\ fund' = [fund EXCEPT !.selfPay = balance[FeePayer] = 0 /\ args.key,
       !.at = IF balance[FeePayer] = 0 /\ ~args.key THEN "failed" ELSE "claim"]
  /\ Rest /\ UNCHANGED message

\* submitClaimAttempt: the call claims, and the payment of a self-payer claims as well.
FundingClaim ==
  [msg |-> "funding", payer |-> Sender, claims |-> IF fund.selfPay THEN 2 ELSE 1,
   by |-> fund.attempt]

SendFundingClaim ==
  /\ fund.at = "claim" /\ Includable(FundingClaim)
  /\ claimTx' = claimTx \cup {FundingClaim}
  /\ FundTo("sent")
  /\ UNCHANGED <<args, message, balance, auto, paid>>

SentIsGood == fund.at = "sent" \* mutant: the receipt is not waited for
AttemptMined == \E p \in paid["funding"] : p.by = fund.attempt
FundingClaimMined ==
  /\ fund.at = "sent" /\ AttemptMined
  /\ FundTo("success")
  /\ Rest /\ UNCHANGED message

\* An attempt that fails or that is not mined in time: the next one is sent, unless
\* the payer cannot pay or it was the last.
RetryClaim ==
  IF fund.attempt >= ClaimRetries THEN [fund EXCEPT !.at = "failed"]
  ELSE [fund EXCEPT !.at = "claim", !.attempt = @ + 1]

ClaimAttemptFails ==
  /\ fund.at \in {"claim", "sent"}
  /\ fund' = IF fund.at = "claim" /\ ~Payable(FundingClaim)
             THEN [fund EXCEPT !.at = "failed"] ELSE RetryClaim
  /\ Rest /\ UNCHANGED message

-----------------------------------------------------------------------------

\* claim(): through the sponsor first, when there is one and it has not failed to prove.
AutoRest == UNCHANGED <<args, message, balance, fund, paid>>
AutoClaim(payer) ==
  [msg |-> "topup", payer |-> payer, claims |-> 1, by |-> ClaimRetries + auto.calls]

StartClaim ==
  /\ auto.at \in {"idle", "failed"} /\ auto.calls < MaxClaims
  /\ auto' = [auto EXCEPT !.calls = @ + 1, !.sent = FALSE,
       !.at = IF args.sponsored /\ ~auto.off THEN "sponsor" ELSE "claimer"]
  /\ AutoRest /\ UNCHANGED claimTx

SendClaim(payer) ==
  /\ auto.at = payer /\ ~auto.sent /\ Includable(AutoClaim(payer))
  /\ claimTx' = claimTx \cup {AutoClaim(payer)}
  /\ auto' = [auto EXCEPT !.sent = TRUE]
  /\ AutoRest

ClaimMined(payer) ==
  /\ auto.at = payer /\ auto.sent
  /\ [payer |-> payer, by |-> ClaimRetries + auto.calls] \in paid["topup"]
  /\ auto' = [auto EXCEPT !.at = "claimed"]
  /\ AutoRest /\ UNCHANGED claimTx

\* Every failure of the sponsored claim is followed by one the claimer pays, a timeout
\* too; one of the prover switches sponsoring off for the process.
SponsoredFails ==
  /\ auto.at = "sponsor"
  /\ \E off \in {auto.off, TRUE} :
       auto' = [auto EXCEPT !.at = "claimer", !.sent = FALSE, !.off = off]
  /\ AutoRest /\ UNCHANGED claimTx

OwnClaimFails ==
  /\ auto.at = "claimer"
  /\ auto' = [auto EXCEPT !.at = "failed"]
  /\ AutoRest /\ UNCHANGED claimTx

FundingNext ==
  \/ MessageReady \/ MineClaim
  \/ SubmitBridge \/ AfterBridge \/ WaitForBridgeMessage \/ SelfPayMode
  \/ SendFundingClaim \/ FundingClaimMined \/ ClaimAttemptFails
  \/ StartClaim \/ SponsoredFails \/ OwnClaimFails
  \/ \E payer \in {"sponsor", "claimer"} : SendClaim(payer) \/ ClaimMined(payer)

FundingSpec == FundingInit /\ [][FundingNext]_fundingVars

-----------------------------------------------------------------------------

\* A claim is reported when its message is claimed, by a transaction of the very call
\* that reports it; and of all the transactions that retries and fallbacks send for
\* a message, its claimer and its sponsor pay for one ("success: claimer delta",
\* fund-claimer-l2.ts:694).
ClaimsReportedTruly ==
  /\ fund.at = "success" => [payer |-> Sender, by |-> fund.attempt] \in paid["funding"]
  /\ auto.at = "claimed" => message["topup"] = "claimed"
  /\ \A m \in Messages : Cardinality(paid[m]) <= 1
=============================================================================
