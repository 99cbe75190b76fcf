-------------------------- MODULE ColdStartClient --------------------------
(***************************************************************************)
(* FpcClient.executeColdStart (sdk/src/payment-method.ts): one quote, one   *)
(* payload, and up to three attempts at proving it, sending it and polling *)
(* its receipt until a deadline.  What decides on another attempt is only   *)
(* the text of the error, which a wallet or a node may have written: an     *)
(* attempt that was sent, and may still be included, can be followed by     *)
(* another.                                                                *)
(*                                                                         *)
(* Users call again when a call threw, and several calls may claim one     *)
(* deposit.  The FPC appears by what its transaction does when included:   *)
(* FpcContract has the rest.                                               *)
(***************************************************************************)
EXTENDS TokenBridge

CONSTANTS
  Calls,                    \* bound: calls of executeColdStart
  Users,                    \* who call it
  operator,                 \* is paid by the FPC
  aaPaymentAmount,          \* price of a cold start
  Validity,                 \* seconds a quote is valid
  COLD_START_MAX_ATTEMPTS

ASSUME ClientAssumption ==
  /\ Users \cup {operator} \subseteq Holders
  /\ aaPaymentAmount \in Nat
  /\ \A d \in Deposits : aaPaymentAmount <= Amount[d]
  /\ Validity \in Nat
  /\ COLD_START_MAX_ATTEMPTS \in Nat \ {0}

VARIABLES
  call,        \* call[k]: where call k is, its attempt and its quote
  sent,        \* sent[k][n]: what became of the transaction of attempt n of call k
  spentQuotes  \* nullified quotes

clientVars == <<call, sent, spentQuotes>>

Attempts == 1..COLD_START_MAX_ATTEMPTS
Places == {"idle", "proving", "sending", "waiting", "returned", "threw"}
Quotes == [user : Users, deposit : Deposits, until : 0..(MaxClock + Validity)]

ClientInit ==
  /\ call = [k \in Calls |-> [at |-> "idle", attempt |-> 1, quote |-> {}]]
  /\ sent = [k \in Calls |-> [n \in Attempts |-> "not sent"]]
  /\ spentQuotes = {}

Go(k, place) == call' = [call EXCEPT ![k].at = place]
Quote(k) == CHOOSE q \in Quotes : call[k].quote = {q}
Tx(k) == sent[k][call[k].attempt]
Becomes(k, n, fate) == sent' = [sent EXCEPT ![k][n] = fate]

-----------------------------------------------------------------------------

\* The contracts are attached, the fees read and the quote fetched.
StartColdStart(k, u, d) ==
  /\ call[k].at = "idle"
  /\ message[d].stage # "none" /\ message[d].to = NoHolder
  /\ call' = [call EXCEPT ![k] =
       [at |-> "proving", attempt |-> 1,
        quote |-> {[user |-> u, deposit |-> d, until |-> clock + Validity]}]]
  /\ UNCHANGED <<sent, spentQuotes>>

\* A contract is not found, or the service refuses.
StartFails(k) ==
  /\ call[k].at = "idle"
  /\ Go(k, "threw")
  /\ UNCHANGED <<sent, spentQuotes>>

ProofFound(k) ==
  /\ call[k].at = "proving"
  /\ Consumable(Quote(k).deposit, NoHolder, Amount[Quote(k).deposit])
  /\ clock <= Quote(k).until
  /\ Go(k, "sending")
  /\ UNCHANGED <<sent, spentQuotes>>

\* How a failed attempt ends: another, if the error's text has "Message not in
\* state", or the error is thrown.
QuoteAgain(k, missing) == \* mutant: an attempt asks for a quote of its own
  IF missing /\ call[k].attempt < COLD_START_MAX_ATTEMPTS
  THEN call' = [call EXCEPT ![k] =
         [at |-> "proving", attempt |-> @.attempt + 1,
          quote |-> {[q EXCEPT !.until = clock + Validity] : q \in @.quote}]]
  ELSE Go(k, "threw")
AttemptFails(k, missing) ==
  IF missing /\ call[k].attempt < COLD_START_MAX_ATTEMPTS
  THEN call' = [call EXCEPT ![k].at = "proving", ![k].attempt = @ + 1]
  ELSE Go(k, "threw")

\* "Message not in state": the message is not there, or the wallet's anchor block
\* is older; or the proof fails for another reason.
ProofFails(k, missing) ==
  /\ call[k].at = "proving"
  /\ AttemptFails(k, missing)
  /\ UNCHANGED <<sent, spentQuotes>>

SendTx(k) ==
  /\ call[k].at = "sending"
  /\ Becomes(k, call[k].attempt, "pooled")
  /\ Go(k, "waiting")
  /\ UNCHANGED spentQuotes

\* sendTx throws, whether or not the node has the transaction.
SendFails(k, missing) ==
  /\ call[k].at = "sending"
  /\ \E fate \in {"not sent", "pooled"} : Becomes(k, call[k].attempt, fate)
  /\ AttemptFails(k, missing)
  /\ UNCHANGED spentQuotes

\* waitForTx: a receipt that is mined ends the wait; one that is dropped, or whose
\* execution reverted, throws with the error the receipt carries.
AnyBlockWillDo(k, missing) == \* mutant: a reverted execution is not looked for
  IF Tx(k) \in {"mined", "reverted"} THEN Go(k, "returned") ELSE AttemptFails(k, missing)
ReceiptEnds(k, missing) ==
  IF Tx(k) = "mined" THEN Go(k, "returned") ELSE AttemptFails(k, missing)

PollReceipt(k, missing) ==
  /\ call[k].at = "waiting"
  /\ Tx(k) \in {"mined", "reverted", "dropped"}
  /\ ReceiptEnds(k, missing)
  /\ UNCHANGED <<sent, spentQuotes>>

WaitWithoutEnd(k, missing) == \* mutant: the deadline is not looked at
  PollReceipt(k, missing)

\* The deadline passes, or a request for the receipt fails.
WaitFails(k, missing) ==
  /\ call[k].at = "waiting"
  /\ AttemptFails(k, missing)
  /\ UNCHANGED <<sent, spentQuotes>>

ClientStep(k) ==
  \/ ProofFound(k)
  \/ SendTx(k)
  \/ \E missing \in BOOLEAN :
       ProofFails(k, missing) \/ SendFails(k, missing)
         \/ PollReceipt(k, missing) \/ WaitFails(k, missing)

-----------------------------------------------------------------------------

\* A transaction that may be included: message and quote are not nullified, and
\* the quote has not expired.
Admissible(k, n) ==
  /\ sent[k][n] = "pooled"
  /\ Consumable(Quote(k).deposit, NoHolder, Amount[Quote(k).deposit])
  /\ Quote(k) \notin spentQuotes
  /\ clock <= Quote(k).until

\* cold_start_entrypoint: the user gets what the operator leaves of the deposit.
IncludeTx(k, n) ==
  LET q == Quote(k)
  IN /\ Admissible(k, n)
     /\ message' = SetStage(q.deposit, "consumed")
     /\ private' = Credit(Credit(private, q.user, Amount[q.deposit] - aaPaymentAmount),
                          operator, aaPaymentAmount)
     /\ spentQuotes' = spentQuotes \cup {q}
     /\ Becomes(k, n, "mined")
     /\ UNCHANGED <<clock, configured, public, escrow, withdrawals, pool, call>>

TxReverts(k, n) ==
  /\ Admissible(k, n)
  /\ spentQuotes' = spentQuotes \cup {Quote(k)}
  /\ Becomes(k, n, "reverted")
  /\ UNCHANGED <<bridgeVars, call>>

TxDropped(k, n) ==
  /\ sent[k][n] = "pooled"
  /\ Becomes(k, n, "dropped")
  /\ UNCHANGED <<bridgeVars, call, spentQuotes>>

-----------------------------------------------------------------------------

\* A call may leave several transactions with the node, sent by attempts whose
\* failure it took for a proof that found no message; whenever and in whatever order
\* they are included, one of them at most spends a quote or claims a deposit
\* (payment-method.ts:131-139: the attempts share one quote).
OneTakesEffect ==
  \A k \in Calls, m, n \in Attempts :
    {sent[k][m], sent[k][n]} \subseteq {"mined", "reverted"} => m = n

\* The call returns only what was included and not reverted: its deposit was
\* claimed by it, by no other call, and not by hand.
ResultMeansClaimed ==
  \A k \in Calls :
    call[k].at = "returned" =>
      /\ Tx(k) = "mined"
      /\ message[Quote(k).deposit].stage = "consumed"
      /\ \A j \in Calls, n \in Attempts :
           sent[j][n] = "mined" /\ Quote(j).deposit = Quote(k).deposit => j = k

\* Every call ends, whatever the wallet, the node and the network do.
CallsSettle ==
  \A k \in Calls : call[k].at = "proving" ~> call[k].at \in {"returned", "threw"}
=============================================================================
