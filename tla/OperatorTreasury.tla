-------------------------- MODULE OperatorTreasury --------------------------
(***************************************************************************)
(* The operator's wallet inside the attestation service                    *)
(* (services/attestation/src/operator-treasury.ts): it learns of senders so *)
(* that it finds the notes they pay with, and sweeps what it found.        *)
(*                                                                         *)
(* The wallet is created once, by the first request that needs it; the     *)
(* others await the same promise, whether it resolves or not.  A request   *)
(* keeps its place in req[r].at from one await to the next.                *)
(*                                                                         *)
(* External: the wallet with its database, and the network.  Payments are  *)
(* notes of one unit of one asset; the wallet finds a note when its sender *)
(* is registered.  A sweep spends notes, which nullifies them.             *)
(***************************************************************************)
EXTENDS AttestationConfig, FiniteSets

CONSTANTS
  Requests,     \* bound: requests handled at a time
  Users,        \* who ask for quotes
  fpc,          \* the FPC, the sender of a cold start's payment
  Notes,        \* bound: payments made
  Sweeps,       \* bound: sweep transactions
  FpcOperator   \* salt of the account the FPC pays

Senders == Users \cup {fpc}
NoSweep == "no sweep"
NoSender == "nobody"

ASSUME TreasuryAssumption ==
  /\ fpc \notin Users
  /\ FpcOperator \in Salts
  /\ IsFiniteSet(Notes)
  /\ NoSender \notin Senders
  /\ Sweeps \cap (Senders \cup {NoSender}) = {}

VARIABLES
  settings,       \* of the process
  req,            \* requests being handled
  init,           \* initPromise: none, pending, ready or failed
  starting,       \* calls of initialize() under way
  wallets,        \* wallets this process has created
  senderAliases,  \* senders registered by this process
  walletSenders,  \* senders in the wallet's database
  troubled,       \* history: an initialisation or registration failed
  quoted,         \* history: senders that quotes were given for
  note,           \* note[n]: nobody yet, its sender, or the sweep that spent it
  sweep           \* sweep[s]: its notes and its fate

treasuryVars ==
  <<init, starting, wallets, senderAliases, walletSenders, troubled>>
chainVars == <<note, sweep>>

Routes == {"quote", "cold", "sweep", "balances"}
Free ==
  [at |-> "idle", route |-> "quote", given |-> [apiKey |-> "absent", trusted |-> "absent"],
   sender |-> NoSender, amount |-> 0, sweep |-> NoSweep]

TreasuryInit ==
  /\ init = "none"
  /\ starting = 0
  /\ wallets = 0
  /\ senderAliases = {}
  /\ walletSenders = {}
  /\ troubled = FALSE
  /\ quoted = {}
  /\ note = [n \in Notes |-> NoSender]
  /\ sweep = [s \in Sweeps |-> [fate |-> "none", notes |-> {}]]

Go(r, place) == req' = [req EXCEPT ![r].at = place]

-----------------------------------------------------------------------------

\* getContext: the first call starts the initialisation.
StartUnlessReady == init # "ready" \* mutant: the promise is kept once it has resolved
StartOnce == init = "none"

GetContext ==
  IF StartOnce THEN init' = "pending" /\ starting' = starting + 1
  ELSE UNCHANGED <<init, starting>>

\* initialize() resolves, when the account is the one configured.
InitReady ==
  /\ starting > 0
  /\ AccountMatches(settings)
  /\ starting' = starting - 1
  /\ wallets' = wallets + 1
  /\ init' = "ready"
  /\ UNCHANGED <<settings, req, senderAliases, walletSenders, troubled, quoted, chainVars>>

\* It rejects before the wallet is there (no node) or after (another account).
InitFails ==
  /\ starting > 0
  /\ starting' = starting - 1
  /\ wallets' \in IF AccountMatches(settings) THEN {wallets} ELSE {wallets, wallets + 1}
  /\ init' = "failed"
  /\ troubled' = TRUE
  /\ UNCHANGED <<settings, req, senderAliases, walletSenders, quoted, chainVars>>

\* registerSender, as far as it runs at once: without a directory it does nothing,
\* and nothing is left to do for a sender it knows.
NothingToRegister(sender) == ~settings.pxe \/ sender \in senderAliases

\* What a request does once it has the wallet.
ContextGiven(r) ==
  /\ req[r].at = "context"
  /\ init = "ready"
  /\ Go(r, CASE req[r].route \in {"quote", "cold"} -> "registering"
             [] req[r].route = "sweep" -> "attaching"
             [] req[r].route = "balances" -> "200")
  /\ UNCHANGED <<settings, treasuryVars, quoted, chainVars>>

\* ensureSenderRegistered swallows the error; the admin routes answer 500.
ContextRefused(r) ==
  /\ req[r].at = "context"
  /\ init = "failed"
  /\ Go(r, IF req[r].route \in {"quote", "cold"} THEN "signing" ELSE "500")
  /\ UNCHANGED <<settings, treasuryVars, quoted, chainVars>>

RegisterSender(r) ==
  /\ req[r].at = "registering"
  /\ walletSenders' = walletSenders \cup {req[r].sender}
  /\ senderAliases' = senderAliases \cup {req[r].sender}
  /\ Go(r, "signing")
  /\ UNCHANGED <<settings, init, starting, wallets, troubled, quoted, chainVars>>

RegisterFails(r) ==
  /\ req[r].at = "registering"
  /\ troubled' = TRUE
  /\ Go(r, "signing")
  /\ UNCHANGED <<settings, init, starting, wallets, senderAliases, walletSenders, quoted,
                 chainVars>>

-----------------------------------------------------------------------------

\* What the wallet holds of the FPC's operator, to its knowledge.
Unspent == {n \in Notes : note[n] \in Senders}
Found ==
  IF TreasuryAccount(settings) = FpcOperator
  THEN {n \in Unspent : note[n] \in walletSenders} ELSE {}

\* balance_of_private, and the checks on the amount: without one, sweep it all.
ReadBalance(r) ==
  LET balance == Cardinality(Found)
      amount == IF req[r].amount = 0 THEN balance ELSE req[r].amount
  IN /\ req[r].at = "attaching"
     /\ req' = [req EXCEPT ![r].amount = amount,
                           ![r].at = IF amount \in 1..balance THEN "sending" ELSE "400"]
     /\ UNCHANGED <<settings, treasuryVars, quoted, chainVars>>

\* The token is not found, a read fails, the proof fails or the node refuses it.
SweepFails(r) ==
  /\ req[r].at \in {"attaching", "sending"}
  /\ Go(r, "500")
  /\ UNCHANGED <<settings, treasuryVars, quoted, chainVars>>

\* transfer_private_to_private is proven over notes that are there by now.
SendSweep(r, s, notes) ==
  /\ req[r].at = "sending"
  /\ sweep[s].fate = "none"
  /\ notes \subseteq Found
  /\ Cardinality(notes) = req[r].amount
  /\ sweep' = [sweep EXCEPT ![s] = [fate |-> "pooled", notes |-> notes]]
  /\ req' = [req EXCEPT ![r].at = "waiting", ![r].sweep = s]
  /\ UNCHANGED <<settings, treasuryVars, quoted, note>>

\* send() resolves with a receipt, rejects when the transaction was dropped, and
\* rejects after 180 seconds, whatever becomes of it.
NotAwaited(r) == TRUE \* mutant: the receipt is not waited for
Mined(r) == sweep[req[r].sweep].fate = "mined"

SweepMined(r) ==
  /\ req[r].at = "waiting"
  /\ Mined(r)
  /\ Go(r, "reporting")
  /\ UNCHANGED <<settings, treasuryVars, quoted, chainVars>>

SweepLost(r) ==
  /\ req[r].at = "waiting"
  /\ Go(r, "500")
  /\ UNCHANGED <<settings, treasuryVars, quoted, chainVars>>

\* The balance afterwards is read for the answer; that read may fail.
ReportSweep(r) ==
  /\ req[r].at = "reporting"
  /\ \E status \in {"200", "500"} : Go(r, status)
  /\ UNCHANGED <<settings, treasuryVars, quoted, chainVars>>

TreasuryStep(r) ==
  \/ ContextGiven(r) \/ ContextRefused(r)
  \/ RegisterSender(r) \/ RegisterFails(r)
  \/ ReadBalance(r) \/ SweepFails(r)
  \/ \E s \in Sweeps, notes \in SUBSET Notes : SendSweep(r, s, notes)
  \/ SweepMined(r) \/ SweepLost(r) \/ ReportSweep(r)

-----------------------------------------------------------------------------

\* A payment is made with a quote.  A bound: none where there is no treasury.
Pay(n) ==
  /\ settings.pxe \/ settings.adminKey
  /\ note[n] = NoSender
  /\ \E sender \in quoted : note' = [note EXCEPT ![n] = sender]
  /\ UNCHANGED <<settings, req, treasuryVars, quoted, sweep>>

\* Included when none of its notes is spent; dropped when one is, or forgotten.
IncludeSweep(s) ==
  /\ sweep[s].fate = "pooled"
  /\ sweep[s].notes \subseteq Unspent
  /\ note' = [n \in Notes |-> IF n \in sweep[s].notes THEN s ELSE note[n]]
  /\ sweep' = [sweep EXCEPT ![s].fate = "mined"]
  /\ UNCHANGED <<settings, req, treasuryVars, quoted>>

DropSweep(s) ==
  /\ sweep[s].fate = "pooled"
  /\ sweep' = [sweep EXCEPT ![s].fate = "dropped"]
  /\ UNCHANGED <<settings, req, treasuryVars, quoted, note>>

-----------------------------------------------------------------------------

\* One process has one wallet, however many requests need it at once: two would
\* work on one database (operator-treasury.ts:151 keeps the promise for that).
OneWallet == wallets <= 1

\* As long as no initialisation and no registration failed, the treasury finds
\* every payment: its sender was registered before the quote was handed out, for
\* a cold start the FPC, and a restart forgets none (config.ts: with a directory
\* the service can "discover private fee-payment notes").
PaymentsAreFound ==
  settings.pxe /\ ~troubled => \A n \in Unspent : note[n] \in walletSenders

\* A sweep that is answered with success has moved what was asked for, and one
\* that is refused as a bad request has moved nothing, although sweeps overlap
\* and see the same balance.
SweepsReportedTruly ==
  \A r \in Requests :
    req[r].route = "sweep" =>
      /\ req[r].at = "200" =>
           /\ Cardinality({n \in Notes : note[n] = req[r].sweep}) = req[r].amount
           /\ req[r].amount > 0
      /\ req[r].at = "400" => req[r].sweep = NoSweep
=============================================================================
