---------------------------- MODULE ClaimerAccount ----------------------------
(***************************************************************************)
(* The account that claims top-ups on L2, from the settings to the running *)
(* service: compose-mode.sh exports a key, bootstrap-topup-autoclaim-      *)
(* account.ts deploys the account of that key, preflight-topup-autoclaim.ts *)
(* checks that it is deployed, and createTopupAutoClaimer of the top-up    *)
(* service (topup/src/autoclaim.ts) takes the account it claims with.      *)
(* Each of the four resolves the account by itself.                        *)
(*                                                                         *)
(* A deployment initialises an account and publishes its instance.  Both   *)
(* leave a nullifier, so that a transaction doing either again conflicts.  *)
(* The test accounts of a local network have both, and yet the node does   *)
(* not index them: getContract does not find them.                         *)
(*                                                                         *)
(* External: the node, aztec-wallet and the wallet of aztec.js.  Every     *)
(* send may fail for want of Fee Juice, for the sponsor or for a proof.    *)
(***************************************************************************)
EXTENDS Naturals

CONSTANTS MaxRuns   \* bound: times the operator runs compose-mode.sh

ASSUME AccountAssumption == MaxRuns \in Nat \ {0}

Accounts == {"claimer", "operator", "test0", "test1"}
Modes == {"auto", "sponsored", "fee_juice", "register_only"}

\* What has been done to an account before.
Priors == [new |-> [done |-> {}, indexed |-> FALSE],
           private |-> [done |-> {"init"}, indexed |-> FALSE],
           genesis |-> [done |-> {"init", "publish"}, indexed |-> FALSE],
           public |-> [done |-> {"init", "publish"}, indexed |-> TRUE]]

VARIABLES
  opts,      \* the environment of the scripts and of the service
  account,   \* account[a]: what is done to it, and whether the node indexes it
  pool,      \* deployments of the account that may still be mined
  pipe       \* where the run is, its number, whether it waits for what it sent, and
             \* whether its bootstrap has reported success

claimerVars == <<opts, account, pool, pipe>>

Options == [claimerKey : BOOLEAN, operatorKey : BOOLEAN, useOperator : {"0", "1", "true"},
            testIndex : {0, 1}, sponsor : {"unset", "missing", "there"},
            sponsorServes : BOOLEAN, mode : Modes,
            bootstrap : BOOLEAN, require : BOOLEAN, production : BOOLEAN,
            known : Accounts, prior : DOMAIN Priors]

ClaimerInit ==
  /\ opts \in Options
  /\ account = [a \in Accounts |-> IF a = opts.known THEN Priors[opts.prior] ELSE Priors.new]
  /\ pool = {}
  /\ pipe = [at |-> "start", run |-> 1, waits |-> FALSE, booted |-> FALSE]

-----------------------------------------------------------------------------

\* The account of the key that compose-mode.sh leaves in TOPUP_AUTOCLAIM_SECRET_KEY:
\* the shell compares the flag with 1 and with nothing else.
ExportedKey ==
  IF opts.claimerKey THEN "claimer"
  ELSE IF opts.useOperator = "1" /\ opts.operatorKey THEN "operator" ELSE "none"

\* resolveSecretKey and resolveClaimer of the scripts read every true value.
ScriptsKey ==
  IF ExportedKey # "none" THEN ExportedKey
  ELSE IF opts.useOperator # "0" /\ opts.operatorKey THEN "operator" ELSE "none"

TestAccount(index) == IF index = 0 THEN "test0" ELSE "test1"
Checked == IF ScriptsKey # "none" THEN ScriptsKey ELSE TestAccount(opts.testIndex)
Serving == IF ExportedKey # "none" THEN ExportedKey ELSE TestAccount(0)

\* resolvePaymentMode of the bootstrap, whose sponsor may also come from another variable or
\* the manifest.  To keep the service from its sponsor compose-mode.sh blanks the
\* variable of both, which the bootstrap takes for unset.
PaymentMode ==
  IF opts.mode # "auto" THEN opts.mode
  ELSE IF opts.sponsor # "unset" THEN "sponsored" ELSE "fee_juice"
ServiceSponsor == IF opts.sponsorServes THEN opts.sponsor ELSE "unset"

-----------------------------------------------------------------------------

PipeTo(place) == pipe' = [pipe EXCEPT !.at = place, !.waits = FALSE]
Stay == UNCHANGED <<opts, account, pool>>

\* The deployments that are tried, in order: aztec-wallet, again without the
\* initialisation, and the two of deployWithAztecJsFallback.
Does(tx) == IF tx = "skip" THEN {"publish"} ELSE {"init", "publish"}
PaidBySponsor(tx) ==
  tx = "sponsored" \/ (tx \in {"wallet", "skip"} /\ PaymentMode = "sponsored")
FirstFallback == IF PaymentMode = "sponsored" THEN "sponsored" ELSE "own"

Conflicts(tx) == Does(tx) \cap account[ScriptsKey].done # {}

\* The account is bootstrapped, checked and used.
Start ==
  /\ pipe.at = "start"
  /\ PipeTo(IF opts.bootstrap THEN "bootstrap" ELSE "preflight")
  /\ Stay

\* main: no key is an error, a published account needs nothing, and a sponsor that
\* aztec-wallet cannot register ends the run.
Bootstrap ==
  /\ pipe.at = "bootstrap"
  /\ IF ScriptsKey = "none" THEN PipeTo("stopped")
     ELSE IF account[ScriptsKey].indexed
          THEN pipe' = [pipe EXCEPT !.at = "preflight", !.booted = TRUE]
     ELSE \/ PaymentMode = "sponsored" /\ opts.sponsor # "unset" /\ PipeTo("stopped")
          \/ ~(PaymentMode = "sponsored" /\ opts.sponsor = "missing")
             /\ PipeTo(IF PaymentMode = "register_only" THEN "last"
                       ELSE IF PaymentMode = "sponsored" /\ opts.sponsor = "unset" THEN "first"
                       ELSE "wallet")
  /\ Stay

\* What follows an attempt, by how it ended.
NoFailure(tx) == \* mutant: the end of the last fallback is taken for its success
  CASE tx \in {"wallet", "skip"} -> "first" [] tx = "sponsored" -> "own" [] tx = "own" -> "booted"
AfterFailure(tx) == CASE tx \in {"wallet", "skip"} -> "first"
                      [] tx = "sponsored" -> "own"
                      [] tx = "own" -> "last"
AfterConflict(tx) == CASE tx = "wallet" -> "skip"
                       [] tx = "skip" -> "first"
                       [] OTHER -> "booted"
AfterSuccess(tx) == IF tx \in {"wallet", "skip"} THEN "first" ELSE "booted"

Deployments == {"wallet", "skip", "sponsored", "own"}

SendDeployment(tx) ==
  /\ pipe.at = tx /\ ~pipe.waits
  /\ PaidBySponsor(tx) => opts.sponsor = "there"
  /\ ~Conflicts(tx)
  /\ pool' = pool \cup {[tx |-> tx, who |-> ScriptsKey]}
  /\ pipe' = [pipe EXCEPT !.waits = TRUE]
  /\ UNCHANGED <<opts, account>>

\* "Existing nullifier": it is in the state already.
DeploymentConflicts(tx) ==
  /\ pipe.at = tx /\ ~pipe.waits /\ Conflicts(tx)
  /\ PipeTo(AfterConflict(tx))
  /\ Stay

\* Anything else.  aztec-wallet also counts a conflict with a pending transaction and
\* "unable to be added to state and is invalid" as conflicts.
DeploymentFails(tx) ==
  /\ pipe.at = tx
  /\ PipeTo(AfterFailure(tx)) \/ (tx = "wallet" /\ PipeTo(AfterConflict(tx)))
  /\ Stay

DeploymentMined(tx) ==
  /\ pipe.at = tx /\ pipe.waits
  /\ [tx |-> tx, who |-> ScriptsKey] \notin pool
  /\ Does(tx) \subseteq account[ScriptsKey].done
  /\ PipeTo(AfterSuccess(tx))
  /\ Stay

\* isPublished after aztec-wallet: the fallback follows when it is not.
CheckWallet ==
  /\ pipe.at = "first"
  /\ PipeTo(IF account[ScriptsKey].indexed THEN "booted" ELSE FirstFallback)
  /\ Stay

\* isPublished at the end.  A fallback that returned is taken at its word (booted).
IsPublished == account[ScriptsKey].indexed
CheckLast ==
  /\ pipe.at = "last"
  /\ PipeTo(IF IsPublished THEN "booted" ELSE "stopped")
  /\ Stay

Booted ==
  /\ pipe.at = "booted"
  /\ pipe' = [pipe EXCEPT !.at = "preflight", !.booted = TRUE]
  /\ Stay

\* The preflight asks the node for the account it resolves, unless it is told not to.
Preflight ==
  /\ pipe.at = "preflight"
  /\ PipeTo(IF ~opts.require \/ account[Checked].indexed THEN "up" ELSE "stopped")
  /\ Stay

\* createTopupAutoClaimer: the sponsor is there; production has a key of its own and
\* an account that is published; otherwise that is a warning.
CreateAutoClaimer ==
  /\ pipe.at = "up"
  /\ PipeTo(IF \/ ServiceSponsor = "missing"
               \/ opts.production /\ (ExportedKey = "none" \/ ~account[Serving].indexed)
            THEN "stopped" ELSE "claiming")
  /\ Stay

\* compose-mode.sh is run again, with what the failed run has left behind.
RunAgain ==
  /\ pipe.at = "stopped" /\ pipe.run < MaxRuns
  /\ pipe' = [pipe EXCEPT !.at = "start", !.run = @ + 1, !.booted = FALSE]
  /\ Stay

\* A deployment is mined, or dropped when its nullifier exists by then.
MineDeployment ==
  \E sent \in pool :
    /\ pool' = pool \ {sent}
    /\ IF Does(sent.tx) \cap account[sent.who].done = {}
       THEN account' = [account EXCEPT ![sent.who] =
              [done |-> @.done \cup Does(sent.tx), indexed |-> TRUE]]
       ELSE UNCHANGED account
    /\ UNCHANGED <<opts, pipe>>

ClaimerNext ==
  \/ Start \/ Bootstrap \/ CheckWallet \/ CheckLast \/ Booted
  \/ Preflight \/ CreateAutoClaimer \/ RunAgain \/ MineDeployment
  \/ \E tx \in Deployments :
       \/ SendDeployment(tx) \/ DeploymentConflicts(tx)
       \/ DeploymentFails(tx) \/ DeploymentMined(tx)

ClaimerSpec == ClaimerInit /\ [][ClaimerNext]_claimerVars

-----------------------------------------------------------------------------

\* A service that claims has the account that the preflight found: each resolves it by
\* itself, from variables that compose-mode.sh is there to keep aligned ("Keep preflight
\* env resolution aligned with docker compose runtime values").
PreflightChecksTheClaimer ==
  pipe.at = "claiming" /\ opts.require => account[Serving].indexed

\* A bootstrap that reports "claimer is publicly deployed" has published it
\* (bootstrap-topup-autoclaim-account.ts:568, "The instance IS deployed", of any
\* conflict, whichever of its nullifiers it is about).
BootstrapMeansPublished == pipe.booted => "publish" \in account[ScriptsKey].done

\* What these two leave of the promise.  A service that claims is known to the node
\* unless it has no key and no production to ask for one, and the scripts resolved
\* another account than the test account it takes; and a bootstrap that reports success
\* has published the account unless that was initialised before, and never published:
\* whatever the settings, and whatever transactions of this and of earlier runs are
\* mined late.
ClaimerIsThere ==
  /\ pipe.at = "claiming" /\ opts.require =>
       \/ account[Serving].indexed
       \/ ExportedKey = "none" /\ ~opts.production /\ Checked # Serving
  /\ pipe.booted =>
       \/ "publish" \in account[ScriptsKey].done
       \/ opts.prior = "private" /\ "init" \in account[ScriptsKey].done
=============================================================================
