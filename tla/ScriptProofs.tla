---------------------------- MODULE ScriptProofs ----------------------------
(***************************************************************************)
(* Proofs about the operator's programs around the services: the account   *)
(* the automatic claimer claims with (ClaimerAccount), the two programs    *)
(* that send from the operator's L1 account (OperatorL1), the claims that  *)
(* fund the claimer and the target (ClaimerFunding), and the deployment    *)
(* jobs (Deployment).  They hold for any number of runs, calls, retries    *)
(* and jobs, and whatever transactions are mined late.                     *)
(***************************************************************************)
EXTENDS OperatorL1, ClaimerAccount, ClaimerFunding, Deployment,
        FiniteSetTheorems, WellFoundedInduction, TLAPS

-----------------------------------------------------------------------------
(* The claimer's account.                                                  *)
(*                                                                         *)
(* Neither part of ClaimerIsThere is inductive.  The first needs that the  *)
(* node never forgets an account, that what the preflight found lasts      *)
(* until the service has its claimer, and that production has a key.  The  *)
(* second needs what the bootstrap knows at its last step, and that an     *)
(* account that is initialised is a published one but for the one that was *)
(* not before: a conflict over either nullifier is taken for success.      *)

PipePlaces ==
  Deployments \cup {"start", "bootstrap", "first", "last", "booted", "preflight", "up",
                    "claiming", "stopped"}
Pipes == [at : PipePlaces, run : Nat, waits : BOOLEAN, booted : BOOLEAN]

Fates == [done : SUBSET {"init", "publish"}, indexed : BOOLEAN]

AccountTypeOK ==
  /\ opts \in Options
  /\ account \in [Accounts -> Fates]
  /\ \A sent \in pool : sent.who \in Accounts
  /\ pipe \in Pipes

PreflightLasts ==
  pipe.at \in {"up", "claiming"} /\ opts.require => account[Checked].indexed

ProductionHasKey ==
  pipe.at = "claiming" /\ opts.production => ExportedKey # "none"

InitMeansPublish ==
  opts.prior # "private" =>
    \A a \in Accounts : account[a].done # {} => "publish" \in account[a].done

IndexedIsPublished ==
  \A a \in Accounts : account[a].indexed => "publish" \in account[a].done

\* The success that the code reports: of a published account, or of one that was
\* initialised before.
Succeeded(done) == "publish" \in done \/ (opts.prior = "private" /\ "init" \in done)
BootstrapKnows ==
  pipe.booted \/ pipe.at = "booted"
    => ScriptsKey \in Accounts /\ Succeeded(account[ScriptsKey].done)

\* A bootstrap without a key ends at its first step.
BootstrapHasKey ==
  pipe.at \in Deployments \cup {"first", "last", "booted"} => ScriptsKey \in Accounts

AccountInv ==
  /\ AccountTypeOK
  /\ PreflightLasts
  /\ ProductionHasKey
  /\ InitMeansPublish
  /\ IndexedIsPublished
  /\ BootstrapHasKey
  /\ BootstrapKnows

-----------------------------------------------------------------------------

\* The scripts and the service resolve the same account when a key was exported
\* (compose-mode.sh:69-76).
LEMMA SameAccount ==
  ASSUME opts \in Options, ExportedKey # "none"
  PROVE  Checked = Serving
  BY DEF Options, Checked, Serving, ScriptsKey

LEMMA CheckedIsAccount ==
  ASSUME opts \in Options
  PROVE  Checked \in Accounts /\ ScriptsKey \in Accounts \cup {"none"}
  BY DEF Options, Checked, ScriptsKey, ExportedKey, TestAccount, Accounts

\* The settings never change, and with them the keys.
LEMMA OptsConstant ==
  ASSUME UNCHANGED opts
  PROVE  /\ Checked' = Checked /\ ScriptsKey' = ScriptsKey /\ Serving' = Serving
         /\ ExportedKey' = ExportedKey /\ \A done : Succeeded(done)' = Succeeded(done)
  BY DEF Checked, Serving, ScriptsKey, ExportedKey, TestAccount, Succeeded

LEMMA InitAccount == ClaimerInit => AccountInv
  <1> SUFFICES ASSUME ClaimerInit
               PROVE  AccountInv
    OBVIOUS
  <1>1. \A a \in Accounts : account[a] \in {Priors[opts.prior], Priors.new}
    BY DEF ClaimerInit
  <1>2. opts.prior \in {"new", "private", "genesis", "public"}
    BY DEF ClaimerInit, Options, Priors
  <1>3. AccountTypeOK
    <2>1. /\ Priors.new \in Fates /\ Priors.private \in Fates
          /\ Priors.genesis \in Fates /\ Priors.public \in Fates
      BY DEF Priors, Fates
    <2>2. account \in [Accounts -> Fates]
      BY <1>1, <1>2, <2>1 DEF ClaimerInit
    <2> QED
      BY <2>2 DEF ClaimerInit, AccountTypeOK, Pipes, PipePlaces
  <1>4. InitMeansPublish /\ IndexedIsPublished
    BY <1>1, <1>2 DEF ClaimerInit, InitMeansPublish, IndexedIsPublished, Priors
  <1> QED
    BY <1>3, <1>4 DEF ClaimerInit, AccountInv, PreflightLasts, ProductionHasKey, BootstrapKnows, BootstrapHasKey,
                      Deployments

-----------------------------------------------------------------------------

\* What a step of the scripts has to show: it changes the place in the run only, and the
\* place it goes to keeps its promise.
LEMMA StayKeeps ==
  ASSUME AccountInv, Stay, pipe' \in Pipes,
         pipe'.at \in {"up", "claiming"} /\ opts.require => account[Checked].indexed,
         pipe'.at = "claiming" /\ opts.production => ExportedKey # "none",
         pipe'.at \in Deployments \cup {"first", "last", "booted"} => ScriptsKey \in Accounts,
         pipe'.booted \/ pipe'.at = "booted"
           => ScriptsKey \in Accounts /\ Succeeded(account[ScriptsKey].done)
  PROVE  AccountInv'
  BY OptsConstant
     DEF Stay, AccountInv, AccountTypeOK, PreflightLasts, ProductionHasKey, InitMeansPublish, IndexedIsPublished,
         BootstrapHasKey, BootstrapKnows

LEMMA MineKeeps ==
  ASSUME AccountInv, MineDeployment
  PROVE  AccountInv'
  <1>1. PICK sent \in pool :
          /\ pool' = pool \ {sent}
          /\ IF Does(sent.tx) \cap account[sent.who].done = {}
             THEN account' = [account EXCEPT ![sent.who] =
                    [done |-> @.done \cup Does(sent.tx), indexed |-> TRUE]]
             ELSE UNCHANGED account
          /\ UNCHANGED <<opts, pipe>>
    BY DEF MineDeployment
  <1>2. sent.who \in Accounts /\ account[sent.who] \in Fates
    BY DEF AccountInv, AccountTypeOK
  <1>3. "publish" \in Does(sent.tx) /\ Does(sent.tx) \subseteq {"init", "publish"}
    BY DEF Does
  <1>4. CASE UNCHANGED account
    BY <1>1, <1>4, OptsConstant
       DEF AccountInv, AccountTypeOK, PreflightLasts, ProductionHasKey, InitMeansPublish, IndexedIsPublished,
           BootstrapHasKey, BootstrapKnows
  <1>5. CASE account' = [account EXCEPT ![sent.who] =
               [done |-> @.done \cup Does(sent.tx), indexed |-> TRUE]]
    <2>1. AccountTypeOK'
      BY <1>1, <1>2, <1>3, <1>5 DEF AccountInv, AccountTypeOK, Fates
    <2>2. \A a \in Accounts :
            /\ account[a].indexed => account'[a].indexed
            /\ account[a].done \subseteq account'[a].done
            /\ account'[a] # account[a] => account'[a].indexed /\ "publish" \in account'[a].done
      BY <1>2, <1>3, <1>5 DEF AccountInv, AccountTypeOK, Fates
    <2>3. (InitMeansPublish /\ IndexedIsPublished)'
      BY <1>1, <2>2 DEF AccountInv, InitMeansPublish, IndexedIsPublished
    <2>4. (PreflightLasts /\ ProductionHasKey /\ BootstrapHasKey)'
      BY <1>1, <2>2, OptsConstant, CheckedIsAccount
         DEF AccountInv, AccountTypeOK, PreflightLasts, ProductionHasKey, BootstrapHasKey
    <2>5. \A a \in Accounts : Succeeded(account[a].done) => Succeeded(account'[a].done)
      BY <2>2 DEF Succeeded
    <2>6. BootstrapKnows'
      BY <1>1, <2>5, OptsConstant DEF AccountInv, BootstrapKnows, Succeeded
    <2> QED
      BY <2>1, <2>3, <2>4, <2>6 DEF AccountInv
  <1> QED
    BY <1>1, <1>4, <1>5

LEMMA DeploymentKeeps ==
  ASSUME AccountInv, NEW tx \in Deployments,
         SendDeployment(tx) \/ DeploymentConflicts(tx) \/ DeploymentFails(tx)
           \/ DeploymentMined(tx)
  PROVE  AccountInv'
  <1>1. pipe.at = tx /\ ScriptsKey \in Accounts
    BY DEF SendDeployment, DeploymentConflicts, DeploymentFails, DeploymentMined, AccountInv,
           BootstrapHasKey
  <1>2. account[ScriptsKey] \in Fates
    BY <1>1 DEF AccountInv, AccountTypeOK
  <1>3. CASE SendDeployment(tx)
    <2>1. pipe' = [pipe EXCEPT !.waits = TRUE] /\ UNCHANGED <<opts, account>>
      BY <1>3 DEF SendDeployment
    <2>2. pipe' \in Pipes /\ pipe'.at = pipe.at /\ pipe'.booted = pipe.booted
      BY <2>1 DEF AccountInv, AccountTypeOK, Pipes
    <2>3. \A sent \in pool' : sent.who \in Accounts
      BY <1>1, <1>3 DEF SendDeployment, AccountInv, AccountTypeOK
    <2> QED
      BY <2>1, <2>2, <2>3, OptsConstant
         DEF AccountInv, AccountTypeOK, PreflightLasts, ProductionHasKey, InitMeansPublish, IndexedIsPublished,
             BootstrapHasKey, BootstrapKnows
  <1>4. CASE DeploymentConflicts(tx)
    <2>1. account[ScriptsKey].done # {}
      BY <1>4 DEF DeploymentConflicts, Conflicts
    <2>2. Succeeded(account[ScriptsKey].done)
      BY <1>1, <1>2, <2>1 DEF AccountInv, InitMeansPublish, Succeeded, Fates
    <2>3. pipe' = [pipe EXCEPT !.at = AfterConflict(tx), !.waits = FALSE] /\ Stay
      BY <1>4 DEF DeploymentConflicts, PipeTo
    <2>4. AfterConflict(tx) \in {"skip", "first", "booted"}
      BY DEF AfterConflict, Deployments
    <2> QED
      BY <1>1, <2>2, <2>3, <2>4, StayKeeps
         DEF AccountInv, AccountTypeOK, Pipes, PipePlaces, BootstrapKnows, Deployments
  <1>5. CASE DeploymentFails(tx)
    <2>1. PICK place : pipe' = [pipe EXCEPT !.at = place, !.waits = FALSE]
                       /\ place \in {"first", "own", "last", "skip"}
      BY <1>5 DEF DeploymentFails, PipeTo, AfterFailure, AfterConflict, Deployments
    <2>2. Stay
      BY <1>5 DEF DeploymentFails
    <2> QED
      BY <1>1, <2>1, <2>2, StayKeeps
         DEF AccountInv, AccountTypeOK, Pipes, PipePlaces, BootstrapKnows, Deployments
  <1>6. CASE DeploymentMined(tx)
    <2>1. Succeeded(account[ScriptsKey].done)
      BY <1>6 DEF DeploymentMined, Does, Succeeded
    <2>2. pipe' = [pipe EXCEPT !.at = AfterSuccess(tx), !.waits = FALSE] /\ Stay
      BY <1>6 DEF DeploymentMined, PipeTo
    <2>3. AfterSuccess(tx) \in {"first", "booted"}
      BY DEF AfterSuccess
    <2> QED
      BY <1>1, <2>1, <2>2, <2>3, StayKeeps DEF AccountInv, AccountTypeOK, Pipes, PipePlaces
  <1> QED
    BY <1>3, <1>4, <1>5, <1>6

LEMMA NextAccount ==
  ASSUME AccountInv, [ClaimerNext]_claimerVars
  PROVE  AccountInv'
  <1> USE DEF PipeTo
  <1>1. CASE Start
    BY <1>1, StayKeeps DEF Start, AccountInv, AccountTypeOK, Pipes, PipePlaces, BootstrapKnows,
                           Deployments
  <1>2. CASE Bootstrap
    <2>1. CASE ScriptsKey = "none"
      BY <1>2, <2>1, StayKeeps DEF Bootstrap, AccountInv, AccountTypeOK, Pipes, PipePlaces,
                                   BootstrapKnows, Deployments
    <2>2. CASE ScriptsKey # "none"
      <3>1. ScriptsKey \in Accounts
        BY <2>2, CheckedIsAccount DEF AccountInv, AccountTypeOK
      <3>2. CASE account[ScriptsKey].indexed
        <4>1. pipe' = [pipe EXCEPT !.at = "preflight", !.booted = TRUE] /\ Stay
          BY <1>2, <2>2, <3>2 DEF Bootstrap
        <4>2. Succeeded(account[ScriptsKey].done)
          BY <3>1, <3>2 DEF AccountInv, IndexedIsPublished, Succeeded
        <4> QED
          BY <3>1, <4>1, <4>2, StayKeeps DEF AccountInv, AccountTypeOK, Pipes, PipePlaces, Deployments
      <3>3. CASE ~account[ScriptsKey].indexed
        <4>1. PICK place \in {"stopped", "last", "first", "wallet"} :
                pipe' = [pipe EXCEPT !.at = place, !.waits = FALSE] /\ Stay
          BY <1>2, <2>2, <3>3 DEF Bootstrap
        <4> QED
          BY <3>1, <4>1, StayKeeps DEF AccountInv, AccountTypeOK, Pipes, PipePlaces, BootstrapKnows,
                                       Deployments
      <3> QED
        BY <3>2, <3>3
    <2> QED
      BY <2>1, <2>2
  <1>3. CASE CheckWallet \/ CheckLast
    <2>1. ScriptsKey \in Accounts
      BY <1>3 DEF CheckWallet, CheckLast, AccountInv, BootstrapHasKey
    <2>2. account[ScriptsKey].indexed => Succeeded(account[ScriptsKey].done)
      BY <2>1 DEF AccountInv, IndexedIsPublished, Succeeded
    <2>3. PICK place \in {"booted", "sponsored", "own", "stopped"} :
            /\ pipe' = [pipe EXCEPT !.at = place, !.waits = FALSE] /\ Stay
            /\ place = "booted" => account[ScriptsKey].indexed
      BY <1>3 DEF CheckWallet, CheckLast, IsPublished, FirstFallback
    <2> QED
      BY <2>1, <2>2, <2>3, StayKeeps DEF AccountInv, AccountTypeOK, Pipes, PipePlaces, BootstrapKnows,
                                         Deployments
  <1>4. CASE Booted
    BY <1>4, StayKeeps DEF Booted, AccountInv, AccountTypeOK, Pipes, PipePlaces, BootstrapKnows,
                           Deployments
  <1>5. CASE Preflight
    <2>1. PICK place \in {"up", "stopped"} :
            /\ pipe' = [pipe EXCEPT !.at = place, !.waits = FALSE] /\ Stay
            /\ place = "up" /\ opts.require => account[Checked].indexed
      BY <1>5 DEF Preflight
    <2> QED
      BY <2>1, StayKeeps DEF AccountInv, AccountTypeOK, Pipes, PipePlaces, BootstrapKnows, Deployments
  <1>6. CASE CreateAutoClaimer
    <2>1. PICK place \in {"claiming", "stopped"} :
            /\ pipe' = [pipe EXCEPT !.at = place, !.waits = FALSE] /\ Stay
            /\ place = "claiming" /\ opts.production => ExportedKey # "none"
      BY <1>6 DEF CreateAutoClaimer
    <2> QED
      BY <1>6, <2>1, StayKeeps DEF CreateAutoClaimer, AccountInv, AccountTypeOK, Pipes, PipePlaces,
                                   BootstrapKnows, Deployments, PreflightLasts, ProductionHasKey
  <1>7. CASE RunAgain
    <2>1. pipe.run + 1 \in Nat
      BY DEF AccountInv, AccountTypeOK, Pipes
    <2>2. /\ Stay
          /\ pipe' = [pipe EXCEPT !.at = "start", !.run = pipe.run + 1, !.booted = FALSE]
      BY <1>7 DEF RunAgain
    <2>3. pipe' \in Pipes /\ pipe'.at = "start" /\ ~pipe'.booted
      BY <2>1, <2>2 DEF AccountInv, AccountTypeOK, Pipes, PipePlaces
    <2> QED
      BY <2>2, <2>3, StayKeeps DEF Deployments
  <1>8. CASE MineDeployment
    BY <1>8, MineKeeps
  <1>9. ASSUME NEW tx \in Deployments,
               SendDeployment(tx) \/ DeploymentConflicts(tx) \/ DeploymentFails(tx)
                 \/ DeploymentMined(tx)
        PROVE  AccountInv'
    BY <1>9, DeploymentKeeps
  <1>10. CASE UNCHANGED claimerVars
    BY <1>10, StayKeeps DEF claimerVars, Stay, AccountInv, AccountTypeOK, PreflightLasts, ProductionHasKey,
                            BootstrapHasKey, BootstrapKnows
  <1> QED
    BY <1>1, <1>2, <1>3, <1>4, <1>5, <1>6, <1>7, <1>8, <1>9, <1>10 DEF ClaimerNext

LEMMA AccountInvSuffices == AccountInv => ClaimerIsThere
  <1> SUFFICES ASSUME AccountInv
               PROVE  ClaimerIsThere
    OBVIOUS
  <1>1. pipe.at = "claiming" /\ opts.require =>
          \/ account[Serving].indexed
          \/ ExportedKey = "none" /\ ~opts.production /\ Checked # Serving
    BY SameAccount DEF AccountInv, AccountTypeOK, PreflightLasts, ProductionHasKey
  <1>2. pipe.booted => Succeeded(account[ScriptsKey].done)
    BY DEF AccountInv, BootstrapKnows
  <1> QED
    BY <1>1, <1>2 DEF ClaimerIsThere, Succeeded

\* What the scripts promise of the claimer's account (compose-mode.sh:45, bootstrap-topup-
\* autoclaim-account.ts:656-677) and what they do not, for all settings, any number of
\* runs and every order in which what they sent is mined: the service's account is known
\* to the node but for one without a key outside production, and an account whose
\* bootstrap succeeded is published but for one that was only initialised.
THEOREM ClaimerThere == ClaimerSpec => []ClaimerIsThere
  <1>1. AccountInv /\ [ClaimerNext]_claimerVars => AccountInv'
    BY NextAccount
  <1> QED
    BY InitAccount, <1>1, AccountInvSuffices, PTL DEF ClaimerSpec

-----------------------------------------------------------------------------
(* The operator's account on L1.                                           *)
(*                                                                         *)
(* OneDepositPerBridge counts transactions, which no step does.  What the  *)
(* steps keep is that all that a call ever sent, until it is told "already *)
(* known", is the transaction of the nonce it holds, and that a call which *)
(* sent something never goes back to sending.                              *)

CallPlaces ==
  {"idle", "nonce", "send", "lost", "receipt", "bridged", "failed",
   "enough", "dryRun", "done", "reread", "loop", "final", "funded"}
Calls == [at : CallPlaces, nonce : Nat, attempt : Nat, mint : Nat, turn : Nat,
          way : {"none", "direct", "handler"}]

Transactions == [by : Senders, moves : {"none", "deposit", "direct", "handler"},
                 amount : Nat, fate : {"unsent", "pooled", "mined", "reverted"}]

L1TypeOK ==
  /\ mints \in {"direct", "handler", "none"}
  /\ juice \in Nat
  /\ l1tx \in [Nonces -> Transactions]
  /\ call \in [Senders -> Calls]
  /\ known \subseteq Senders

\* The script mints before it sends, a bridge deposits.
WaysAreSet ==
  /\ \A b \in Bridges : call[b].way = "none"
  /\ call[script].at \notin {"idle", "enough", "dryRun"} => call[script].way # "none"

\* What is in the pool or mined was sent with the nonce its call holds.
HoldsWhatItSent ==
  \A b \in Bridges \ known, n \in Nonces :
    l1tx[n].by = b =>
      /\ n = call[b].nonce
      /\ call[b].at \in {"lost", "receipt", "bridged", "failed"}

ReceiptIsOfNonce ==
  \A b \in Bridges :
    /\ call[b].at \in {"lost", "receipt", "bridged"} => call[b].nonce \in Nonces
    /\ call[b].at = "bridged" => l1tx[call[b].nonce].fate = "mined"

L1Inv == L1TypeOK /\ WaysAreSet /\ HoldsWhatItSent /\ ReceiptIsOfNonce

LEMMA NoncesAreFinite ==
  \A S \in SUBSET Nonces : IsFiniteSet(S) /\ Cardinality(S) \in 0..MaxNonce
<1> SUFFICES ASSUME NEW S \in SUBSET Nonces
             PROVE  IsFiniteSet(S) /\ Cardinality(S) \in 0..MaxNonce
  OBVIOUS
<1>1. MaxNonce \in Nat \ {0}
  BY L1Assumption
<1>2. IsFiniteSet(Nonces) /\ Cardinality(Nonces) = MaxNonce
  BY <1>1, FS_Interval DEF Nonces
<1> QED
  BY <1>1, <1>2, FS_Subset, FS_CardinalityType

\* A set of numbers has a least one.  (The library's theorem takes an operator, so that
\* this one comes from the well-foundedness of inclusion.)
LEMMA LeastNumber ==
  ASSUME NEW T \in SUBSET Nat, T # {}
  PROVE  \E n \in T : \A m \in T : n <= m
<1> DEFINE below == {0..n : n \in T}
           inside == StrictSubsetOrdering(Nat)
           finite == FiniteSubsetsOf(Nat)
<1>1. IsWellFoundedOn(inside, finite)
  BY FS_StrictSubsetOrderingWellFounded
<1>2. below # {} /\ below \subseteq finite
  <2>1. \A n \in T : 0..n \in SUBSET Nat /\ IsFiniteSet(0..n)
    BY FS_Interval
  <2> QED
    BY <2>1 DEF FiniteSubsetsOf
<1>3. \E S \in below : \A U \in below : <<U, S>> \notin inside
  <2> HIDE DEF below, inside, finite
  <2> QED
    BY <1>1, <1>2, WFMin
<1>4. PICK n \in T : \A m \in T : <<0..m, 0..n>> \notin inside
  BY <1>3
<1>5. ASSUME NEW m \in T, m < n
      PROVE  FALSE
  <2>1. 0..m \in SUBSET Nat /\ 0..n \in SUBSET Nat /\ 0..m \subseteq 0..n
    BY <1>5
  <2>2. n \in 0..n /\ n \notin 0..m
    BY <1>5
  <2>3. 0..m # 0..n
    BY <2>2
  <2> QED
    BY <1>4, <2>1, <2>3 DEF StrictSubsetOrdering
<1> QED
  BY <1>5

\* The pool has a next nonce for the account, after those that are mined and those that
\* wait in sequence.
LEMMA PendingNonceExists ==
  LatestNonce \in 0..MaxNonce /\ PendingNonce \in LatestNonce..MaxNonce
<1>1. MaxNonce \in Nat \ {0}
  BY L1Assumption
<1>2. LatestNonce \in 0..MaxNonce
  BY NoncesAreFinite DEF LatestNonce, Mined
<1> DEFINE gaps == {n \in LatestNonce..MaxNonce : n \notin Pooled}
<1>3. gaps \subseteq Nat /\ MaxNonce \in gaps
  BY <1>1, <1>2 DEF Pooled, Nonces
<1>4. PICK n \in gaps : \A m \in gaps : n <= m
  <2> HIDE DEF gaps
  <2> QED
    BY <1>3, LeastNumber
<1>5. \A k \in LatestNonce..n - 1 : k \in Pooled
  BY <1>1, <1>2, <1>4
<1>6. \E k \in LatestNonce..MaxNonce : k \notin Pooled /\ LatestNonce..k - 1 \subseteq Pooled
  BY <1>4, <1>5
<1> QED
  BY <1>2, <1>6, Zenon DEF PendingNonce

LEMMA InitL1 == L1Init => L1Inv
<1> SUFFICES ASSUME L1Init
             PROVE  L1Inv
  OBVIOUS
<1>1. Unsent \in Transactions /\ FreshCall \in Calls
  BY DEF Unsent, Transactions, Senders, FreshCall, Calls, CallPlaces
<1>2. L1TypeOK
  BY <1>1, L1Assumption DEF L1Init, L1TypeOK
<1>3. \A n \in Nonces : l1tx[n].by = script
  BY DEF L1Init, Unsent
<1>4. WaysAreSet /\ HoldsWhatItSent /\ ReceiptIsOfNonce
  BY <1>3, L1Assumption
     DEF L1Init, FreshCall, WaysAreSet, HoldsWhatItSent, ReceiptIsOfNonce, Senders
<1> QED
  BY <1>2, <1>4 DEF L1Inv

\* A step of one call that leaves the pool and the chain alone.
LEMMA CallKeeps ==
  ASSUME L1Inv, NEW s \in Senders, UNCHANGED <<mints, juice, l1tx>>,
         known' \in {known, known \cup {s}},
         NEW new \in Calls, call' = [call EXCEPT ![s] = new],
         s \in Bridges => new.way = "none",
         s = script /\ new.at \notin {"idle", "enough", "dryRun"} => new.way # "none",
         s \in Bridges => (new.at \in {"lost", "receipt", "bridged"} => new.nonce \in Nonces),
         s \in Bridges => (new.at = "bridged" => l1tx[new.nonce].fate = "mined"),
         s \in Bridges \ known' =>
           \/ \A n \in Nonces : l1tx[n].by # s
           \/ new.nonce = call[s].nonce /\ new.at \in {"lost", "receipt", "bridged", "failed"}
  PROVE  L1Inv'
<1> USE DEF L1Inv, L1TypeOK
<1>1. L1TypeOK'
  OBVIOUS
<1>2. call'[s] = new /\ \A x \in Senders : x # s => call'[x] = call[x]
  OBVIOUS
<1>3. script \in Senders /\ Bridges \subseteq Senders
  BY DEF Senders
<1>4. WaysAreSet'
  BY <1>2, <1>3, L1Assumption DEF WaysAreSet
<1>5. ReceiptIsOfNonce'
  BY <1>2, <1>3 DEF ReceiptIsOfNonce
<1>6. HoldsWhatItSent'
  BY <1>2, <1>3 DEF HoldsWhatItSent
<1> QED
  BY <1>1, <1>4, <1>5, <1>6

LEMMA MineKeepsL1 ==
  ASSUME L1Inv, NEW n \in Nonces, Mine(n)
  PROVE  L1Inv'
<1> USE DEF L1Inv, L1TypeOK
<1>1. l1tx[n] \in Transactions /\ l1tx[n].fate = "pooled"
  BY DEF Mine, Pooled
<1>2. PICK fate \in {"mined", "reverted"} : l1tx' = [l1tx EXCEPT ![n].fate = fate]
  BY DEF Mine
<1>3. /\ l1tx' \in [Nonces -> Transactions]
      /\ \A m \in Nonces : l1tx'[m].by = l1tx[m].by
      /\ \A m \in Nonces \ {n} : l1tx'[m] = l1tx[m]
  BY <1>1, <1>2 DEF Transactions
<1>4. juice' \in Nat /\ UNCHANGED <<mints, call, known>>
  BY <1>1 DEF Mine, Works, Transactions
<1>5. WaysAreSet' /\ HoldsWhatItSent'
  BY <1>3, <1>4 DEF WaysAreSet, HoldsWhatItSent
<1>6. ReceiptIsOfNonce'
  BY <1>1, <1>3, <1>4 DEF ReceiptIsOfNonce
<1> QED
  BY <1>3, <1>4, <1>5, <1>6

\* ... and that leaves its nonce alone too.
LEMMA MoveKeeps ==
  ASSUME L1Inv, NEW s \in Senders, UNCHANGED <<mints, juice, l1tx, known>>,
         NEW place \in CallPlaces, CallTo(s, place),
         s = script /\ place \notin {"idle", "enough", "dryRun"} => call[s].way # "none",
         s \in Bridges /\ place \in {"lost", "receipt", "bridged"} => call[s].nonce \in Nonces,
         s \in Bridges /\ place = "bridged" => l1tx[call[s].nonce].fate = "mined",
         s \in Bridges \ known =>
           \/ \A n \in Nonces : l1tx[n].by # s
           \/ place \in {"lost", "receipt", "bridged", "failed"}
  PROVE  L1Inv'
<1> DEFINE new == [call[s] EXCEPT !.at = place]
<1>1. call[s] \in Calls /\ call \in [Senders -> Calls] /\ (s \in Bridges => call[s].way = "none")
  BY DEF L1Inv, L1TypeOK, WaysAreSet
<1>2. call' = [call EXCEPT ![s] = new]
  BY <1>1 DEF CallTo
<1>3. /\ new \in Calls /\ new.at = place
      /\ new.way = call[s].way /\ new.nonce = call[s].nonce
  BY <1>1 DEF Calls
<1> HIDE DEF new
<1> QED
  BY <1>1, <1>2, <1>3, CallKeeps

\* What the places of a bridge say of what it sent.
LEMMA NothingSentYet ==
  ASSUME L1Inv, NEW b \in Bridges \ known, call[b].at \in {"idle", "nonce", "send"}
  PROVE  \A n \in Nonces : l1tx[n].by # b
BY DEF L1Inv, HoldsWhatItSent

LEMMA ConflictKeeps ==
  ASSUME L1Inv, NEW s \in Senders, NEW conflict, Conflict(s, conflict),
         call[s].at \in {"send", "lost"},
         s \in Bridges \ known /\ call[s].at = "lost" =>
           conflict \in {"alreadyKnown", "nonceTooLow"}
  PROVE  L1Inv'
<1>1. call[s] \in Calls
  BY DEF L1Inv, L1TypeOK
<1>2. /\ s \in Bridges => call[s].way = "none"
      /\ s = script => call[s].way # "none"
  BY DEF L1Inv, WaysAreSet
<1>3. known' \in {known, known \cup {s}} /\ UNCHANGED <<mints, juice, l1tx>>
  BY DEF Conflict
<1>4. CASE TriesAfter(s, conflict)
  <2> DEFINE new == [call[s] EXCEPT !.at = "nonce", !.attempt = call[s].attempt + 1]
  <2>1. call' = [call EXCEPT ![s] = new]
    BY <1>1, <1>4 DEF Conflict
  <2>2. new \in Calls /\ new.at = "nonce" /\ new.way = call[s].way
    <3> DEFINE moved == [call[s] EXCEPT !.at = "nonce"]
    <3>1. moved \in Calls /\ moved.at = "nonce" /\ moved.way = call[s].way
      BY <1>1 DEF Calls, CallPlaces
    <3>2. new = [moved EXCEPT !.attempt = call[s].attempt + 1] /\ call[s].attempt + 1 \in Nat
      BY <1>1 DEF Calls
    <3> HIDE DEF moved, new
    <3> QED
      BY <3>1, <3>2 DEF Calls
  <2>3. s \in Bridges \ known' => \A n \in Nonces : l1tx[n].by # s
    <3> SUFFICES ASSUME s \in Bridges \ known'
                 PROVE  \A n \in Nonces : l1tx[n].by # s
      OBVIOUS
    <3>1. conflict \notin {"alreadyKnown", "nonceTooLow"} /\ s \notin known
      BY <1>3, <1>4 DEF TriesAfter, Conflict
    <3>2. call[s].at = "send"
      BY <3>1
    <3> QED
      BY <3>1, <3>2, NothingSentYet
  <2> HIDE DEF new
  <2> QED
    BY <1>2, <1>3, <2>1, <2>2, <2>3, CallKeeps
<1>5. CASE ~TriesAfter(s, conflict)
  <2> DEFINE new == [call[s] EXCEPT !.at = GivesUp(s)]
  <2>1. call' = [call EXCEPT ![s] = new]
    BY <1>1, <1>5 DEF Conflict
  <2>2. GivesUp(s) \in {"failed", "reread"} /\ (s \in Bridges => GivesUp(s) = "failed")
    BY <1>2 DEF GivesUp
  <2>3. /\ new \in Calls /\ new.at = GivesUp(s)
        /\ new.way = call[s].way /\ new.nonce = call[s].nonce
    BY <1>1, <2>2 DEF Calls, CallPlaces
  <2> HIDE DEF new
  <2> QED
    BY <1>2, <1>3, <2>1, <2>2, <2>3, CallKeeps
<1> QED
  BY <1>4, <1>5

LEMMA SendAcceptedKeeps ==
  ASSUME L1Inv, NEW s \in Senders, SendAccepted(s)
  PROVE  L1Inv'
<1> USE DEF L1Inv, L1TypeOK
<1> DEFINE k == call[s].nonce
           tx == [by |-> s, moves |-> Moves(s), amount |-> MovedBy(s), fate |-> "pooled"]
<1>1. k \in Nonces /\ (l1tx[k].fate = "unsent" \/ l1tx[k].fate \notin {"mined", "pooled"})
  BY DEF SendAccepted, Mined, Pooled
<1>2. /\ call[s] \in Calls /\ call[s].at = "send"
      /\ s \in Bridges => call[s].way = "none"
      /\ s = script => call[s].way \in {"direct", "handler"}
  BY DEF SendAccepted, WaysAreSet, Calls
<1>3. tx \in Transactions
  <2>1. Moves(s) \in {"deposit", "direct", "handler"}
    BY <1>2 DEF Moves, Senders, Calls
  <2>2. MovedBy(s) \in Nat
    BY <1>2, <2>1, L1Assumption DEF MovedBy, Calls
  <2> QED
    BY <2>1, <2>2 DEF Transactions
<1>4. l1tx' = [l1tx EXCEPT ![k] = tx] /\ UNCHANGED <<mints, juice, known>>
  BY DEF SendAccepted
<1>5. PICK place \in {"receipt", "lost"} : call' = [call EXCEPT ![s].at = place]
  BY DEF SendAccepted, CallTo
<1>6. /\ call' \in [Senders -> Calls] /\ call'[s].at = place
      /\ call'[s].nonce = k /\ call'[s].way = call[s].way
      /\ \A x \in Senders \ {s} : call'[x] = call[x]
  BY <1>2, <1>5 DEF Calls, CallPlaces
<1>7. /\ l1tx' \in [Nonces -> Transactions] /\ l1tx'[k].by = s
      /\ \A n \in Nonces \ {k} : l1tx'[n] = l1tx[n]
  BY <1>1, <1>3, <1>4
<1>8. script \in Senders /\ Bridges \subseteq Senders
  BY DEF Senders
<1> HIDE DEF tx
<1>9. L1TypeOK'
  BY <1>4, <1>6, <1>7
<1>10. WaysAreSet'
  BY <1>2, <1>6, <1>8 DEF WaysAreSet
<1>11. ReceiptIsOfNonce'
  BY <1>1, <1>6, <1>7, <1>8 DEF ReceiptIsOfNonce
<1>12. HoldsWhatItSent'
  <2> SUFFICES ASSUME NEW b \in Bridges \ known, NEW n \in Nonces, l1tx'[n].by = b
               PROVE  n = call'[b].nonce
                      /\ call'[b].at \in {"lost", "receipt", "bridged", "failed"}
    BY <1>4 DEF HoldsWhatItSent
  <2>1. CASE n = k
    BY <1>5, <1>6, <1>7, <2>1
  <2>2. CASE n # k
    <3>1. l1tx[n].by = b
      BY <1>7, <2>2
    <3>2. b # s
      BY <1>2, <3>1, NothingSentYet
    <3> QED
      BY <1>6, <1>8, <3>1, <3>2 DEF HoldsWhatItSent
  <2> QED
    BY <2>1, <2>2
<1> QED
  BY <1>9, <1>10, <1>11, <1>12

LEMMA ReadNonceKeeps ==
  ASSUME L1Inv, NEW s \in Senders, ReadNonce(s)
  PROVE  L1Inv'
<1>1. PICK n \in {PendingNonce, LatestNonce} :
        call' = [call EXCEPT ![s].at = "send", ![s].nonce = n]
  BY DEF ReadNonce
<1>2. n \in Nat
  BY PendingNonceExists, L1Assumption
<1>3. call[s] \in Calls /\ call \in [Senders -> Calls]
  BY DEF L1Inv, L1TypeOK
<1> DEFINE moved == [call[s] EXCEPT !.at = "send"]
           new == [moved EXCEPT !.nonce = n]
<1>4. call' = [call EXCEPT ![s] = new]
  BY <1>1, <1>3
<1>5. moved \in Calls /\ moved.at = "send" /\ moved.way = call[s].way
  BY <1>3 DEF Calls, CallPlaces
<1> HIDE DEF moved
<1>6. new \in Calls /\ new.at = "send" /\ new.way = call[s].way
  BY <1>2, <1>5 DEF Calls
<1>7. /\ s \in Bridges => call[s].way = "none"
      /\ s = script => call[s].way # "none"
  BY DEF L1Inv, WaysAreSet, ReadNonce
<1>8. s \in Bridges \ known => \A m \in Nonces : l1tx[m].by # s
  BY NothingSentYet DEF ReadNonce
<1> HIDE DEF new
<1> QED
  BY <1>4, <1>6, <1>7, <1>8, CallKeeps DEF ReadNonce

LEMMA ScriptKeeps ==
  ASSUME L1Inv, StartScript \/ ScriptReceipt \/ RereadBalance \/ HandlerTurn \/ FinalCheck
  PROVE  L1Inv'
<1>1. /\ script \in Senders /\ script \notin Bridges
      /\ UNCHANGED <<mints, juice, l1tx, known>>
  BY L1Assumption DEF Senders, StartScript, ScriptReceipt, RereadBalance, HandlerTurn, FinalCheck
<1>2. call[script] \in Calls /\ call \in [Senders -> Calls] /\ juice \in Nat
  BY <1>1 DEF L1Inv, L1TypeOK
<1>3. call[script].at \notin {"idle", "enough", "dryRun"} => call[script].way # "none"
  BY DEF L1Inv, WaysAreSet
<1>4. ASSUME NEW place \in CallPlaces, CallTo(script, place),
             place \notin {"idle", "enough", "dryRun"} =>
               call[script].at \notin {"idle", "enough", "dryRun"}
      PROVE  L1Inv'
  BY <1>1, <1>3, <1>4, MoveKeeps
<1>5. ASSUME NEW new \in Calls, call' = [call EXCEPT ![script] = new], new.way # "none"
      PROVE  L1Inv'
  BY <1>1, <1>5, CallKeeps
<1>6. CASE StartScript
  <2>1. CASE call' = [call EXCEPT ![script].at = "nonce", ![script].way = "direct",
                                  ![script].mint = Target - juice] /\ juice < Target
    <3> DEFINE moved == [call[script] EXCEPT !.at = "nonce"]
               minting == [moved EXCEPT !.way = "direct"]
               new == [minting EXCEPT !.mint = Target - juice]
    <3>1. call' = [call EXCEPT ![script] = new]
      BY <1>2, <2>1
    <3>2. moved \in Calls
      BY <1>2 DEF Calls, CallPlaces
    <3> HIDE DEF moved
    <3>3. minting \in Calls /\ minting.way = "direct"
      BY <3>2 DEF Calls
    <3>4. Target - juice \in Nat
      BY <1>2, <2>1, L1Assumption
    <3> HIDE DEF minting
    <3>5. new \in Calls /\ new.way = "direct"
      BY <3>3, <3>4 DEF Calls
    <3> HIDE DEF new
    <3> QED
      BY <1>5, <3>1, <3>5
  <2> QED
    BY <1>4, <1>6, <2>1 DEF StartScript, CallPlaces
<1>7. CASE ScriptReceipt \/ FinalCheck
  BY <1>4, <1>7 DEF ScriptReceipt, FinalCheck, JudgeFinal, CallPlaces
<1>8. CASE RereadBalance
  <2> DEFINE moved == [FreshCall EXCEPT !.at = "loop"]
             new == [moved EXCEPT !.way = "handler"]
  <2>1. moved \in Calls
    BY DEF FreshCall, Calls, CallPlaces
  <2> HIDE DEF moved
  <2>2. new \in Calls /\ new.way = "handler"
    BY <2>1 DEF Calls
  <2>3. call' = [call EXCEPT ![script] = new] => L1Inv'
    <3> HIDE DEF new
    <3> QED
      BY <1>5, <2>2
  <2>4. ASSUME NEW place \in {"funded", "failed"}, CallTo(script, place),
               call[script].at \in {"done", "reread"}
        PROVE  L1Inv'
    BY <1>4, <2>4 DEF CallPlaces
  <2> QED
    BY <1>8, <2>3, <2>4 DEF RereadBalance, JudgeFinal, moved
<1>9. CASE HandlerTurn
  <2>1. CASE juice >= Target
    BY <1>4, <1>9, <2>1 DEF HandlerTurn, CallPlaces
  <2>2. CASE ~(juice >= Target)
    <3> DEFINE first == call[script].turn = 0
               place == IF first THEN "nonce" ELSE "send"
               next == IF first THEN 0 ELSE call[script].nonce + 1
               moved == [call[script] EXCEPT !.at = place]
               counted == [moved EXCEPT !.nonce = next]
               anew == [counted EXCEPT !.attempt = 1]
               new == [anew EXCEPT !.turn = call[script].turn + 1]
    <3>1. call' = [call EXCEPT ![script] = new]
      BY <1>2, <1>9, <2>2 DEF HandlerTurn
    <3>2. place \in {"nonce", "send"} /\ next \in Nat /\ call[script].turn + 1 \in Nat
      BY <1>2 DEF Calls
    <3> HIDE DEF place, next
    <3>3. moved \in Calls /\ moved.way = call[script].way
      BY <1>2, <3>2 DEF Calls, CallPlaces
    <3> HIDE DEF moved
    <3>4. counted \in Calls /\ counted.way = call[script].way
      BY <3>2, <3>3 DEF Calls
    <3> HIDE DEF counted
    <3>5. anew \in Calls /\ anew.way = call[script].way
      BY <3>4 DEF Calls
    <3> HIDE DEF anew
    <3>6. new \in Calls /\ new.way = call[script].way
      BY <3>2, <3>5 DEF Calls
    <3> HIDE DEF new
    <3> QED
      BY <1>3, <1>5, <1>9, <3>1, <3>6 DEF HandlerTurn
  <2> QED
    BY <2>1, <2>2
<1> QED
  BY <1>6, <1>7, <1>8, <1>9

LEMMA NextL1 == L1Inv /\ [L1Next]_l1Vars => L1Inv'
<1> SUFFICES ASSUME L1Inv, [L1Next]_l1Vars
             PROVE  L1Inv'
  OBVIOUS
<1>1. ASSUME NEW s \in Senders, SendRefused(s) \/ SendAgain(s)
      PROVE  L1Inv'
  BY <1>1, ConflictKeeps DEF SendRefused, SendAgain
<1>2. ASSUME NEW s \in Senders, SendFails(s)
      PROVE  L1Inv'
  <2>1. /\ s \in Bridges => call[s].way = "none"
        /\ s = script => call[s].way # "none"
    BY <1>2 DEF SendFails, L1Inv, WaysAreSet
  <2>2. GivesUp(s) \in {"failed", "reread"} /\ (s \in Bridges => GivesUp(s) = "failed")
    BY <2>1 DEF GivesUp
  <2> QED
    BY <1>2, <2>1, <2>2, MoveKeeps DEF SendFails, CallPlaces
<1>3. ASSUME NEW b \in Bridges, StartBridge(b) \/ BridgeSubmitted(b)
      PROVE  L1Inv'
  <2>1. b \in Senders /\ b # script
    BY L1Assumption DEF Senders
  <2>2. CASE StartBridge(b)
    BY <2>1, <2>2, NothingSentYet, MoveKeeps DEF StartBridge, CallPlaces
  <2>3. CASE BridgeSubmitted(b)
    BY <2>1, <2>3, MoveKeeps DEF BridgeSubmitted, CallPlaces, L1Inv, ReceiptIsOfNonce
  <2> QED
    BY <1>3, <2>2, <2>3
<1>4. CASE UNCHANGED l1Vars
  BY <1>4 DEF l1Vars, L1Inv, L1TypeOK, WaysAreSet, HoldsWhatItSent, ReceiptIsOfNonce
<1> QED
  BY <1>1, <1>2, <1>3, <1>4, MineKeepsL1, ReadNonceKeeps, SendAcceptedKeeps, ScriptKeeps
     DEF L1Next

\* A top-up deposits once, although it is retried and the script sends from the same
\* account, and a bridge that returns a claim returns the one of a deposit that exists
\* (bridge.ts:52): for any number of calls, nonces and retries.
THEOREM BridgesDepositOnce == L1Spec => []OneDepositPerBridge
<1>1. ASSUME L1Inv
      PROVE  OneDepositPerBridge
  <2> SUFFICES ASSUME NEW b \in Bridges \ known
               PROVE  Cardinality({n \in Mined \cup Pooled :
                                     l1tx[n].by = b /\ l1tx[n].fate # "reverted"}) <= 1
    BY <1>1 DEF L1Inv, ReceiptIsOfNonce, OneDepositPerBridge
  <2> DEFINE own == {n \in Mined \cup Pooled : l1tx[n].by = b /\ l1tx[n].fate # "reverted"}
  <2>1. own \subseteq {call[b].nonce}
    BY <1>1 DEF L1Inv, HoldsWhatItSent, Mined, Pooled
  <2>2. own = {} \/ own = {call[b].nonce}
    BY <2>1
  <2> HIDE DEF own
  <2>3. Cardinality(own) = 0 \/ Cardinality(own) = 1
    BY <2>2, FS_EmptySet, FS_Singleton
  <2> QED
    BY <2>3 DEF own
<1> QED
  BY <1>1, InitL1, NextL1, PTL DEF L1Spec

-----------------------------------------------------------------------------
(* The claims that fund the claimer and the target.                        *)
(*                                                                         *)
(* Several transactions of one message may be in the pool.  What a step    *)
(* keeps is that a claim was paid only for a message that is claimed, once; *)
(* and that whatever the script has sent is paid by the payer it has       *)
(* chosen, which it never chooses again.                                   *)

BeforeClaim == {"start", "bridged", "waiting", "balances"}
FundPlaces == BeforeClaim \cup {"skipped", "claim", "sent", "success", "failed"}
Funds == [at : FundPlaces, attempt : Nat, selfPay : BOOLEAN]
AutoPlaces == {"idle", "sponsor", "claimer", "claimed", "failed"}
Autos == [at : AutoPlaces, sent : BOOLEAN, calls : Nat, off : BOOLEAN]
Claims == [msg : Messages, payer : Payers, claims : {1, 2}, by : Nat]

FundingTypeOK ==
  /\ args \in [key : BOOLEAN, address : BOOLEAN, otherPayer : BOOLEAN,
               skipClaim : BOOLEAN, sponsored : BOOLEAN]
  /\ message \in [Messages -> {"none", "deposited", "ready", "claimed"}]
  /\ balance \in [Payers -> Nat]
  /\ claimTx \subseteq Claims
  /\ fund \in Funds
  /\ auto \in Autos
  /\ paid \in [Messages -> SUBSET [payer : Payers, by : Nat]]

PaidOnce ==
  \A m \in Messages : paid[m] # {} => message[m] = "claimed" /\ \E p \in paid[m] : paid[m] = {p}

PayerIsChosen ==
  /\ fund.at \in {"waiting", "balances", "claim", "sent", "success"} => FeePayer # "none"
  /\ \A tx \in claimTx : tx.msg = "funding" => fund.at \notin BeforeClaim /\ tx.payer = Sender
  /\ \A p \in paid["funding"] : fund.at \notin BeforeClaim /\ p.payer = Sender

ReportsWhatWasPaid ==
  /\ fund.at = "success" => [payer |-> Sender, by |-> fund.attempt] \in paid["funding"]
  /\ auto.at = "claimed" => paid["topup"] # {}

FundingInv == FundingTypeOK /\ PaidOnce /\ PayerIsChosen /\ ReportsWhatWasPaid

LEMMA InitFunding == FundingInit => FundingInv
<1> SUFFICES ASSUME FundingInit
             PROVE  FundingInv
  OBVIOUS
<1>1. Fee \in Nat
  BY FundingAssumption
<1>2. FundingTypeOK
  BY <1>1 DEF FundingInit, FundingTypeOK, Messages, Payers, Funds, FundPlaces, BeforeClaim,
              Autos, AutoPlaces
<1> QED
  BY <1>2 DEF FundingInit, FundingInv, PaidOnce, PayerIsChosen, ReportsWhatWasPaid, Messages,
              BeforeClaim

\* A step of the script that neither sends nor reports anything.
LEMMA FundMoveKeeps ==
  ASSUME FundingInv, Rest, message' \in [Messages -> {"none", "deposited", "ready", "claimed"}],
         message'["topup"] = message["topup"],
         message'["funding"] = message["funding"] \/ fund.at \in BeforeClaim,
         fund' \in Funds,
         fund'.selfPay = fund.selfPay \/ fund.at \in BeforeClaim,
         fund'.at \in BeforeClaim => fund.at \in BeforeClaim,
         fund'.at \in {"waiting", "balances", "claim", "sent", "success"} => FeePayer # "none",
         fund'.at = "success" =>
           /\ fund.at \notin BeforeClaim /\ fund'.selfPay = fund.selfPay
           /\ \E p \in paid["funding"] : p.by = fund'.attempt
  PROVE  FundingInv'
<1> USE DEF FundingInv, FundingTypeOK
<1>1. FeePayer' = FeePayer /\ UNCHANGED <<args, balance, claimTx, auto, paid>>
  BY DEF Rest, FeePayer
<1>2. fund.at \notin BeforeClaim => Sender' = Sender
  BY <1>1 DEF Sender
<1>3. fund.at \in BeforeClaim =>
        paid["funding"] = {} /\ \A tx \in claimTx : tx.msg # "funding"
  BY DEF PayerIsChosen
<1>4. PaidOnce'
  BY <1>1, <1>3 DEF PaidOnce, Messages
<1>5. PayerIsChosen'
  BY <1>1, <1>2, <1>3 DEF PayerIsChosen
<1>6. ReportsWhatWasPaid'
  <2>1. fund'.at = "success" => [payer |-> Sender', by |-> fund'.attempt] \in paid["funding"]
    <3> SUFFICES ASSUME fund'.at = "success"
                 PROVE  [payer |-> Sender', by |-> fund'.attempt] \in paid["funding"]
      OBVIOUS
    <3>1. PICK p \in paid["funding"] : p.by = fund'.attempt
      OBVIOUS
    <3>2. p.payer = Sender' /\ p \in [payer : Payers, by : Nat]
      BY <1>2 DEF PayerIsChosen, Messages
    <3>3. p = [payer |-> Sender', by |-> fund'.attempt]
      BY <3>1, <3>2
    <3> QED
      BY <3>1, <3>3
  <2> QED
    BY <1>1, <2>1 DEF ReportsWhatWasPaid
<1> QED
  BY <1>1, <1>4, <1>5, <1>6

\* A step of claim() that at most sends.
LEMMA AutoMoveKeeps ==
  ASSUME FundingInv, AutoRest, auto' \in Autos,
         claimTx' \subseteq Claims, \A tx \in claimTx' \ claimTx : tx.msg = "topup",
         auto'.at = "claimed" => paid["topup"] # {}
  PROVE  FundingInv'
<1> USE DEF FundingInv, FundingTypeOK
<1>1. FeePayer' = FeePayer /\ Sender' = Sender /\ UNCHANGED <<args, message, balance, fund, paid>>
  BY DEF AutoRest, Sender, FeePayer
<1>2. PaidOnce' /\ ReportsWhatWasPaid'
  BY <1>1 DEF PaidOnce, ReportsWhatWasPaid
<1>3. PayerIsChosen'
  BY <1>1 DEF PayerIsChosen
<1> QED
  BY <1>1, <1>2, <1>3

LEMMA MineClaimKeeps ==
  ASSUME FundingInv, MineClaim
  PROVE  FundingInv'
<1> USE DEF FundingInv, FundingTypeOK
<1>1. PICK tx \in claimTx :
        /\ claimTx' = claimTx \ {tx}
        /\ IF Includable(tx)
           THEN /\ message' = [message EXCEPT ![tx.msg] = "claimed"]
                /\ paid' = [paid EXCEPT ![tx.msg] =
                              @ \cup {[payer |-> tx.payer, by |-> tx.by]}]
                /\ LET charged == [balance EXCEPT ![tx.payer] = @ - Fee]
                   IN  balance' = IF tx.msg = "funding"
                                  THEN [charged EXCEPT !["claimer"] = @ + Deposit] ELSE charged
           ELSE UNCHANGED <<message, paid, balance>>
        /\ UNCHANGED <<args, fund, auto>>
  BY DEF MineClaim
<1>2. FeePayer' = FeePayer /\ Sender' = Sender
  BY <1>1 DEF Sender, FeePayer
<1>3. tx \in Claims /\ {Fee, Deposit} \subseteq Nat
  BY FundingAssumption
<1>4. CASE ~Includable(tx)
  BY <1>1, <1>2, <1>4 DEF PaidOnce, PayerIsChosen, ReportsWhatWasPaid
<1>5. CASE Includable(tx)
  <2> DEFINE p == [payer |-> tx.payer, by |-> tx.by]
  <2>1. /\ tx.msg \in Messages /\ tx.payer \in Payers /\ tx.by \in Nat
        /\ message[tx.msg] = "ready" /\ balance[tx.payer] >= Fee
    BY <1>3, <1>5 DEF Claims, Includable, Payable
  <2>2. paid[tx.msg] = {}
    BY <2>1 DEF PaidOnce
  <2>3. paid' = [paid EXCEPT ![tx.msg] = {p}] /\ message' = [message EXCEPT ![tx.msg] = "claimed"]
    BY <1>1, <1>5, <2>1, <2>2
  <2>4. balance' \in [Payers -> Nat]
    <3> DEFINE charged == [balance EXCEPT ![tx.payer] = balance[tx.payer] - Fee]
    <3>1. charged \in [Payers -> Nat]
      BY <1>3, <2>1
    <3>2. balance' = IF tx.msg = "funding"
                     THEN [charged EXCEPT !["claimer"] = charged["claimer"] + Deposit]
                     ELSE charged
      BY <1>1, <1>5
    <3> HIDE DEF charged
    <3> QED
      BY <1>3, <3>1, <3>2 DEF Payers
  <2>5. FundingTypeOK'
    BY <1>1, <2>1, <2>3, <2>4 DEF Messages
  <2>6. PaidOnce'
    BY <2>1, <2>3 DEF PaidOnce
  <2>7. PayerIsChosen'
    <3>1. \A q \in paid'["funding"] : fund.at \notin BeforeClaim /\ q.payer = Sender
      BY <1>1, <2>1, <2>3 DEF PayerIsChosen, Messages
    <3> QED
      BY <1>1, <1>2, <3>1 DEF PayerIsChosen
  <2>8. ReportsWhatWasPaid'
    BY <1>1, <1>2, <2>1, <2>2, <2>3 DEF ReportsWhatWasPaid, Messages
  <2> QED
    BY <2>5, <2>6, <2>7, <2>8
<1> QED
  BY <1>4, <1>5

LEMMA ScriptStepKeeps ==
  ASSUME FundingInv,
         SubmitBridge \/ AfterBridge \/ WaitForBridgeMessage \/ SelfPayMode
         \/ FundingClaimMined \/ ClaimAttemptFails
  PROVE  FundingInv'
<1> USE DEF FundingInv, FundingTypeOK
<1>1. ASSUME NEW place \in FundPlaces, FundTo(place)
      PROVE  fund' \in Funds /\ fund'.at = place
             /\ fund'.attempt = fund.attempt /\ fund'.selfPay = fund.selfPay
  BY <1>1 DEF FundTo, Funds
<1>2. FeePayer \in {"other", "claimer", "none"}
  BY DEF FeePayer
<1>3. CASE SubmitBridge
  <2>1. fund.at = "start" /\ Rest /\ message' \in [Messages -> {"none", "deposited", "ready", "claimed"}]
        /\ message'["topup"] = message["topup"]
    BY <1>3 DEF SubmitBridge, Messages
  <2>2. FundTo("bridged") \/ FundTo("failed")
    BY <1>3 DEF SubmitBridge
  <2> QED
    BY <1>1, <2>1, <2>2, FundMoveKeeps DEF FundPlaces, BeforeClaim
<1>4. CASE AfterBridge
  <2>1. PICK place \in {"skipped", "failed", "waiting"} :
          FundTo(place) /\ (place = "waiting" => FeePayer # "none")
    BY <1>4 DEF AfterBridge
  <2> QED
    BY <1>1, <1>4, <2>1, FundMoveKeeps DEF AfterBridge, FundPlaces, BeforeClaim
<1>5. CASE WaitForBridgeMessage
  <2>1. PICK place \in {"balances", "failed"} : FundTo(place)
    BY <1>5 DEF WaitForBridgeMessage
  <2>2. FeePayer # "none"
    BY <1>5 DEF WaitForBridgeMessage, PayerIsChosen
  <2> QED
    BY <1>1, <1>5, <2>1, <2>2, FundMoveKeeps DEF WaitForBridgeMessage, FundPlaces, BeforeClaim
<1>6. CASE SelfPayMode
  <2> DEFINE self == balance[FeePayer] = 0 /\ args.key
             chosen == [fund EXCEPT !.selfPay = self]
  <2>1. PICK place \in {"failed", "claim"} : fund' = [chosen EXCEPT !.at = place]
    BY <1>6 DEF SelfPayMode
  <2>2. self \in BOOLEAN
    OBVIOUS
  <2>3. chosen \in Funds
    <3> HIDE DEF self
    <3> QED
      BY <2>2 DEF Funds
  <2> HIDE DEF chosen
  <2>4. fund' \in Funds /\ fund'.at = place
    BY <2>1, <2>3 DEF Funds, FundPlaces
  <2>5. FeePayer # "none"
    BY <1>6 DEF SelfPayMode, PayerIsChosen
  <2> QED
    BY <1>6, <2>4, <2>5, FundMoveKeeps DEF SelfPayMode, FundPlaces, BeforeClaim
<1>7. CASE FundingClaimMined
  <2>1. fund' \in Funds /\ fund'.at = "success" /\ fund'.attempt = fund.attempt
        /\ fund'.selfPay = fund.selfPay
    BY <1>1, <1>7 DEF FundingClaimMined, FundPlaces
  <2>2. fund.at \notin BeforeClaim /\ FeePayer # "none"
    BY <1>7 DEF FundingClaimMined, PayerIsChosen, BeforeClaim
  <2>3. \E p \in paid["funding"] : p.by = fund'.attempt
    BY <1>7, <2>1 DEF FundingClaimMined, AttemptMined
  <2> QED
    BY <1>7, <2>1, <2>2, <2>3, FundMoveKeeps DEF FundingClaimMined, BeforeClaim
<1>8. CASE ClaimAttemptFails
  <2>1. CASE fund' = [fund EXCEPT !.at = "failed"]
    BY <1>8, <2>1, FundMoveKeeps DEF ClaimAttemptFails, Funds, FundPlaces, BeforeClaim
  <2>2. CASE fund' = [fund EXCEPT !.at = "claim", !.attempt = @ + 1]
    <3> DEFINE moved == [fund EXCEPT !.at = "claim"]
    <3>1. moved \in Funds /\ moved.at = "claim" /\ moved.selfPay = fund.selfPay
      BY DEF Funds, FundPlaces
    <3>2. fund' = [moved EXCEPT !.attempt = fund.attempt + 1] /\ fund.attempt + 1 \in Nat
      BY <2>2 DEF Funds
    <3> HIDE DEF moved
    <3>3. fund' \in Funds /\ fund'.at = "claim" /\ fund'.selfPay = fund.selfPay
      BY <3>1, <3>2 DEF Funds
    <3>4. FeePayer # "none"
      BY <1>8 DEF ClaimAttemptFails, PayerIsChosen
    <3> QED
      BY <1>8, <3>3, <3>4, FundMoveKeeps DEF ClaimAttemptFails, BeforeClaim
  <2> QED
    BY <1>8, <2>1, <2>2 DEF ClaimAttemptFails, RetryClaim
<1> QED
  BY <1>3, <1>4, <1>5, <1>6, <1>7, <1>8

LEMMA SendFundingClaimKeeps ==
  ASSUME FundingInv, SendFundingClaim
  PROVE  FundingInv'
<1> USE DEF FundingInv, FundingTypeOK
<1>1. /\ fund.at = "claim" /\ claimTx' = claimTx \cup {FundingClaim}
      /\ fund' = [fund EXCEPT !.at = "sent"]
      /\ UNCHANGED <<args, message, balance, auto, paid>>
  BY DEF SendFundingClaim, FundTo
<1>2. fund' \in Funds /\ fund'.at = "sent" /\ fund'.selfPay = fund.selfPay
  BY <1>1 DEF Funds, FundPlaces
<1>3. FeePayer' = FeePayer /\ Sender' = Sender
  BY <1>1, <1>2 DEF FeePayer, Sender
<1>4. Sender \in Payers
  BY <1>1 DEF PayerIsChosen, Sender, FeePayer, Payers
<1>5. FundingClaim \in Claims /\ FundingClaim.payer = Sender
  BY <1>4 DEF FundingClaim, Claims, Messages, Funds
<1>6. PaidOnce' /\ ReportsWhatWasPaid'
  BY <1>1, <1>2 DEF PaidOnce, ReportsWhatWasPaid
<1>7. PayerIsChosen'
  BY <1>1, <1>2, <1>3, <1>5 DEF PayerIsChosen, BeforeClaim
<1> QED
  BY <1>1, <1>2, <1>5, <1>6, <1>7

LEMMA ServiceStepKeeps ==
  ASSUME FundingInv,
         \/ StartClaim \/ SponsoredFails \/ OwnClaimFails
         \/ \E payer \in {"sponsor", "claimer"} : SendClaim(payer) \/ ClaimMined(payer)
  PROVE  FundingInv'
<1>1. auto \in Autos /\ claimTx \subseteq Claims
  BY DEF FundingInv, FundingTypeOK
<1>2. CASE StartClaim
  <2> DEFINE counted == [auto EXCEPT !.calls = auto.calls + 1]
             unsent == [counted EXCEPT !.sent = FALSE]
  <2>1. PICK place \in {"sponsor", "claimer"} : auto' = [unsent EXCEPT !.at = place]
    BY <1>1, <1>2 DEF StartClaim
  <2>2. counted \in Autos
    BY <1>1 DEF Autos
  <2> HIDE DEF counted
  <2>3. unsent \in Autos
    BY <2>2 DEF Autos
  <2> HIDE DEF unsent
  <2>4. auto' \in Autos /\ auto'.at # "claimed"
    BY <2>1, <2>3 DEF Autos, AutoPlaces
  <2> QED
    BY <1>1, <1>2, <2>4, AutoMoveKeeps DEF StartClaim
<1>3. CASE SponsoredFails
  <2>1. PICK off \in {auto.off, TRUE} :
          auto' = [auto EXCEPT !.at = "claimer", !.sent = FALSE, !.off = off]
    BY <1>3 DEF SponsoredFails
  <2> DEFINE moved == [auto EXCEPT !.at = "claimer"]
             unsent == [moved EXCEPT !.sent = FALSE]
  <2>2. auto' = [unsent EXCEPT !.off = off]
    BY <2>1
  <2>3. moved \in Autos /\ moved.at = "claimer"
    BY <1>1 DEF Autos, AutoPlaces
  <2> HIDE DEF moved
  <2>4. unsent \in Autos /\ unsent.at = "claimer"
    BY <2>3 DEF Autos
  <2>5. off \in BOOLEAN
    BY <1>1 DEF Autos
  <2> HIDE DEF unsent
  <2>6. auto' \in Autos /\ auto'.at = "claimer"
    BY <2>2, <2>4, <2>5 DEF Autos
  <2> QED
    BY <1>1, <1>3, <2>6, AutoMoveKeeps DEF SponsoredFails
<1>4. CASE OwnClaimFails
  <2>1. auto' \in Autos /\ auto'.at = "failed"
    BY <1>1, <1>4 DEF OwnClaimFails, Autos, AutoPlaces
  <2> QED
    BY <1>1, <1>4, <2>1, AutoMoveKeeps DEF OwnClaimFails
<1>5. ASSUME NEW payer \in {"sponsor", "claimer"}, SendClaim(payer)
      PROVE  FundingInv'
  <2>1. auto' \in Autos /\ auto'.at = auto.at /\ auto.at # "claimed"
    BY <1>1, <1>5 DEF SendClaim, Autos
  <2>2. AutoClaim(payer) \in Claims /\ AutoClaim(payer).msg = "topup"
    BY <1>1, FundingAssumption DEF AutoClaim, Claims, Messages, Payers, Autos
  <2>3. claimTx' = claimTx \cup {AutoClaim(payer)} /\ AutoRest
    BY <1>5 DEF SendClaim
  <2> HIDE DEF AutoClaim
  <2> QED
    BY <1>1, <2>1, <2>2, <2>3, AutoMoveKeeps
<1>6. ASSUME NEW payer \in {"sponsor", "claimer"}, ClaimMined(payer)
      PROVE  FundingInv'
  <2>1. auto' \in Autos /\ paid["topup"] # {}
    BY <1>1, <1>6 DEF ClaimMined, Autos, AutoPlaces
  <2> QED
    BY <1>1, <1>6, <2>1, AutoMoveKeeps DEF ClaimMined
<1> QED
  BY <1>2, <1>3, <1>4, <1>5, <1>6

LEMMA NextFunding == FundingInv /\ [FundingNext]_fundingVars => FundingInv'
<1> SUFFICES ASSUME FundingInv, [FundingNext]_fundingVars
             PROVE  FundingInv'
  OBVIOUS
<1>1. CASE MessageReady \/ UNCHANGED fundingVars
  <2>1. UNCHANGED <<args, balance, claimTx, fund, auto, paid>>
    BY <1>1 DEF MessageReady, fundingVars
  <2>2. FeePayer' = FeePayer /\ Sender' = Sender
    BY <2>1 DEF FeePayer, Sender
  <2>3. /\ message' \in [Messages -> {"none", "deposited", "ready", "claimed"}]
        /\ \A m \in Messages : message[m] = "claimed" => message'[m] = "claimed"
    BY <1>1 DEF MessageReady, fundingVars, FundingInv, FundingTypeOK
  <2> QED
    BY <2>1, <2>2, <2>3
       DEF FundingInv, FundingTypeOK, PaidOnce, PayerIsChosen, ReportsWhatWasPaid
<1> QED
  BY <1>1, MineClaimKeeps, ScriptStepKeeps, SendFundingClaimKeeps, ServiceStepKeeps
     DEF FundingNext

\* A claim is reported only when it was paid, by the payer and the call that report it,
\* and of all that retries and fallbacks send for a message only one transaction is
\* paid (fund-claimer-l2.ts:694): for any number of retries and calls.
THEOREM ReportedClaimsPaid == FundingSpec => []ClaimsReportedTruly
<1>1. ASSUME FundingInv
      PROVE  ClaimsReportedTruly
  <2>1. ASSUME NEW m \in Messages
        PROVE  Cardinality(paid[m]) <= 1
    <3>1. paid[m] = {} \/ \E p \in paid[m] : paid[m] = {p}
      BY <1>1 DEF FundingInv, PaidOnce
    <3>2. Cardinality(paid[m]) = 0 \/ Cardinality(paid[m]) = 1
      BY <3>1, FS_EmptySet, FS_Singleton
    <3> QED
      BY <3>2
  <2> QED
    BY <1>1, <2>1 DEF FundingInv, PaidOnce, ReportsWhatWasPaid, ClaimsReportedTruly, Messages
<1> QED
  BY <1>1, InitFunding, NextFunding, PTL DEF FundingSpec

-----------------------------------------------------------------------------
(* Deployment jobs.                                                        *)
(*                                                                         *)
(* An attempt that leaves the class out is not lost by a job that nothing  *)
(* else happened to, and one that publishes it is lost to a published      *)
(* class once at most: then the class is published, classes last, and the  *)
(* next answer says so or is bad luck.  It needs that the instance a job   *)
(* sends was not sent before, neither by itself nor by a transaction that  *)
(* is still in the pool, and that its own transaction, once out of the     *)
(* pool, left its instance or had a class.  A manifest needs that a job    *)
(* gets past a contract only when it is deployed, which holds of every     *)
(* job, whatever happens to it.                                            *)

Kinds == {"fpc", "tokens"}
JobPlaces ==
  {"preflight", "tokens", "phase", "send", "await", "manifest", "verify", "configure",
   "register", "done", "failed"}
JobStates ==
  [kind : Kinds, at : JobPlaces, token : Nat, phase : Nat, attempt : Nat, skipClass : BOOLEAN,
   unlucky : Nat]
Names == {"fpc", "erc20", "portal", "initialize", "mint", "deposit",
          "bridge", "token", "counter", "ready", "faucet"}
Instances == Jobs \X Nat \X Names

DeployTypeOK ==
  /\ job \in [Jobs -> JobStates]
  /\ pending \subseteq [for : Instances, class : BOOLEAN]
  /\ deployed \subseteq Instances

InStack(j) == job[j].phase \in DOMAIN Phases(job[j].kind)
AtPhase(j) == job[j].at \in {"phase", "send", "await"}
Deploying(j) == job[j].at \in {"send", "await"}
\* A job that deploys the FPC counts no tokens.
OneToken(r) ==
  /\ r.at \in {"tokens", "register"} => r.kind = "tokens"
  /\ r.kind = "fpc" => r.token = 1
PlacesOfKind(j) ==
  /\ InStack(j) /\ OneToken(job[j])
  /\ job[j].at \in {"preflight", "verify", "configure"} => job[j].kind = "fpc"
  /\ job[j].at = "preflight" => job[j].phase = 1 /\ job[j].attempt = 0 /\ job[j].unlucky = 0

\* No transaction for the instance was sent.
Fresh(i) == i \notin deployed /\ \A tx \in pending : tx.for # i

\* The stacks a job has not begun, and what it has not reached in the one it is at.
StacksAhead(j) ==
  /\ job[j].at \in {"preflight", "tokens"} =>
       \A t \in Nat, c \in Names : t >= job[j].token => Fresh(<<j, t, c>>)
  /\ AtPhase(j) \/ job[j].at = "manifest" =>
       \A t \in Nat, c \in Names : t > job[j].token => Fresh(<<j, t, c>>)
PhasesAhead(j) ==
  AtPhase(j) =>
    \A q \in DOMAIN Phases(job[j].kind) :
      q > job[j].phase => Fresh(<<j, job[j].token, Phases(job[j].kind)[q]>>)

\* All attempts but one were unlucky; after that one the class is published, and then a
\* job publishes it only when it was told that it is not.
AttemptKnows(j) ==
  AtPhase(j) => /\ job[j].attempt <= job[j].unlucky + 1
                /\ job[j].attempt = job[j].unlucky + 1 => Phase(j) \in classes
                /\ Deploying(j) /\ ~job[j].skipClass => job[j].attempt <= job[j].unlucky

\* The transaction of the attempt that is awaited is the only one for its instance, and
\* out of the pool it left its instance, unless it had a class to publish.
SentOnce(j) ==
  /\ job[j].at \in {"phase", "send"} => Fresh(Instance(j))
  /\ job[j].at = "await" =>
       /\ \A tx \in pending : tx.for = Instance(j) => tx = Tx(j)
       /\ Tx(j) \in pending \/ Instance(j) \in deployed \/ ~job[j].skipClass

Undisturbed(j) == StacksAhead(j) /\ PhasesAhead(j) /\ AttemptKnows(j) /\ SentOnce(j)

\* Who leaves the class out has seen it published.
SkippedIsPublished ==
  /\ \A j \in Jobs : Deploying(j) /\ job[j].skipClass => Phase(j) \in classes
  /\ \A tx \in pending : ~tx.class => tx.for[3] \in classes
DeployedIsPublished == \A i \in deployed : i[3] \in classes

\* A faucet is sent when the deposit that funds it has landed.
FaucetIsFunded ==
  /\ \A tx \in pending : tx.for[3] = "faucet" => <<tx.for[1], tx.for[2]>> \in landed
  /\ \A i \in deployed : i[3] = "faucet" => <<i[1], i[2]>> \in landed

\* What a job has got past is deployed.
PassedIsDeployed(j) ==
  \A q \in DOMAIN Phases(job[j].kind) :
    /\ Phases(job[j].kind)[q] \in Contracts(job[j].kind)
    /\ (AtPhase(j) /\ q < job[j].phase) \/ job[j].at = "manifest"
    => <<j, job[j].token, Phases(job[j].kind)[q]>> \in deployed

ManifestIsTrue ==
  \A j \in Jobs, t \in Nat :
    <<"manifest", j, t>> \in written => \A c \in Contracts(job[j].kind) : <<j, t, c>> \in deployed
IsDeployedFpc(m) == m \in Jobs /\ <<m, 1, "fpc">> \in deployed
PathIsTrue ==
  /\ atPath \notin {"none", "earlier"} => IsDeployedFpc(atPath)
  /\ \A c \in configured : c[2] # "earlier" => IsDeployedFpc(c[2])

DeployInv ==
  /\ DeployTypeOK
  /\ RaceCostsOneAttempt
  /\ \A j \in Jobs : PlacesOfKind(j) /\ PassedIsDeployed(j)
  /\ \A j \in Jobs : j \notin mishaps => Undisturbed(j)
  /\ SkippedIsPublished /\ DeployedIsPublished /\ FaucetIsFunded
  /\ ManifestIsTrue /\ PathIsTrue

LEMMA StackFacts ==
  ASSUME NEW k \in Kinds
  PROVE  /\ Len(Phases(k)) \in Nat \ {0}
         /\ DOMAIN Phases(k) = 1..Len(Phases(k))
         /\ \A q \in DOMAIN Phases(k) : Phases(k)[q] \in Names
         /\ \A p, q \in DOMAIN Phases(k) : Phases(k)[p] = Phases(k)[q] => p = q
         /\ \A c \in Contracts(k) : \E q \in DOMAIN Phases(k) : Phases(k)[q] = c
<1>1. /\ Len(Stack) = 10 /\ DOMAIN Stack = 1..10
      /\ Stack[1] = "erc20" /\ Stack[2] = "portal" /\ Stack[3] = "initialize"
      /\ Stack[4] = "mint" /\ Stack[5] = "deposit" /\ Stack[6] = "bridge"
      /\ Stack[7] = "token" /\ Stack[8] = "counter" /\ Stack[9] = "ready"
      /\ Stack[10] = "faucet"
  BY DEF Stack
<1>2. \A q \in 1..10 : q = 1 \/ q = 2 \/ q = 3 \/ q = 4 \/ q = 5 \/ q = 6 \/ q = 7
                         \/ q = 8 \/ q = 9 \/ q = 10
  OBVIOUS
<1>3. CASE k = "fpc"
  <2>1. Phases(k) = <<"fpc">> /\ Contracts(k) = {"fpc"}
    BY <1>3 DEF Phases, Contracts
  <2>2. Len(<<"fpc">>) = 1 /\ DOMAIN <<"fpc">> = 1..1 /\ <<"fpc">>[1] = "fpc"
    OBVIOUS
  <2>3. \A q \in 1..1 : q = 1
    OBVIOUS
  <2> QED BY <2>1, <2>2, <2>3 DEF Names
<1>4. CASE k = "tokens"
  <2>1. Phases(k) = Stack /\ Contracts(k) = {"bridge", "token", "counter", "faucet"}
    BY <1>4 DEF Phases, Contracts
  <2>2. ASSUME NEW q \in 1..10  PROVE Stack[q] \in Names
    BY <1>1, <1>2 DEF Names
  <2>3. ASSUME NEW p \in 1..10, NEW q \in 1..10, Stack[p] = Stack[q]  PROVE p = q
    BY <1>1, <1>2, <2>3
  <2>4. \A c \in Contracts(k) : \E q \in 1..10 : Stack[q] = c
    BY <1>1, <2>1
  <2>5. Len(Phases(k)) = 10 /\ DOMAIN Phases(k) = 1..10
    BY <1>1, <2>1
  <2>6. \A p, q \in 1..10 : Stack[p] = Stack[q] => p = q
    BY <2>3
  <2> QED BY <2>1, <2>2, <2>4, <2>5, <2>6
<1> QED BY <1>3, <1>4 DEF Kinds

\* A step of one job that leaves the chain as it is, or lets a deposit land.
LEMMA JobMoves ==
  ASSUME DeployInv, NEW k \in Jobs, NEW r \in JobStates,
         job' = [job EXCEPT ![k] = r], r.kind = job[k].kind,
         UNCHANGED <<classes, deployed, pending>>,
         landed \subseteq landed', mishaps \subseteq mishaps',
         r.at = "failed" => k \in mishaps' \/ r.unlucky >= MAX_RETRIES,
         PlacesOfKind(k)', PassedIsDeployed(k)',
         k \notin mishaps' => Undisturbed(k)',
         (Deploying(k) /\ job[k].skipClass => Phase(k) \in classes)',
         ManifestIsTrue', PathIsTrue'
  PROVE  DeployInv'
<1> USE DEF DeployInv
<1>1. job \in [Jobs -> JobStates] /\ job' \in [Jobs -> JobStates] /\ job'[k] = r
  BY DEF DeployTypeOK
<1>2. \A j \in Jobs : j # k => job'[j] = job[j]
  BY <1>1
<1>3. DeployTypeOK'
  BY <1>1 DEF DeployTypeOK
<1>4. RaceCostsOneAttempt'
  BY <1>1, <1>2 DEF RaceCostsOneAttempt
<1>5. ASSUME NEW j \in Jobs, j # k
      PROVE  /\ PlacesOfKind(j)' /\ PassedIsDeployed(j)'
             /\ j \notin mishaps' => Undisturbed(j)'
             /\ (Deploying(j) /\ job[j].skipClass => Phase(j) \in classes)'
  <2>1. job'[j] = job[j]
    BY <1>2, <1>5
  <2>2. PlacesOfKind(j)'
    BY <2>1 DEF PlacesOfKind, InStack
  <2>3. PassedIsDeployed(j)'
    BY <2>1 DEF PassedIsDeployed, AtPhase
  <2>4. Undisturbed(j) => Undisturbed(j)'
    BY <2>1 DEF Undisturbed, StacksAhead, PhasesAhead, AttemptKnows, SentOnce, AtPhase,
                Deploying, Fresh, Instance, Phase, Tx
  <2>5. (Deploying(j) /\ job[j].skipClass => Phase(j) \in classes)'
    BY <2>1 DEF SkippedIsPublished, Deploying, Phase
  <2> QED BY <2>2, <2>3, <2>4, <2>5
<1>6. \A j \in Jobs : PlacesOfKind(j)' /\ PassedIsDeployed(j)'
  BY <1>5
<1>7. \A j \in Jobs : j \notin mishaps' => Undisturbed(j)'
  BY <1>5
<1>8. SkippedIsPublished'
  BY <1>5 DEF SkippedIsPublished
<1>9. DeployedIsPublished' /\ FaucetIsFunded'
  BY DEF DeployedIsPublished, FaucetIsFunded
<1> QED BY <1>3, <1>4, <1>6, <1>7, <1>8, <1>9

\* Nothing is written.
LEMMA NothingWritten ==
  ASSUME DeployInv, NEW k \in Jobs, NEW r, job' = [job EXCEPT ![k] = r],
         r.kind = job[k].kind, UNCHANGED <<deployed, written, atPath, configured>>
  PROVE  ManifestIsTrue' /\ PathIsTrue'
<1>1. \A j \in Jobs : job'[j].kind = job[j].kind
  BY DEF DeployInv, DeployTypeOK
<1> QED BY <1>1 DEF DeployInv, ManifestIsTrue, PathIsTrue, IsDeployedFpc

\* A job that ends, or gets where no contract is deployed any more.
Rests(r) ==
  /\ r.at \in {"verify", "configure", "register", "done", "failed"}
  /\ r.at \in {"verify", "configure"} => r.kind = "fpc"

LEMMA JobRests ==
  ASSUME DeployInv, NEW k \in Jobs, NEW r \in JobStates,
         job' = [job EXCEPT ![k] = r], r.kind = job[k].kind, r.phase = job[k].phase,
         Rests(r), OneToken(r), UNCHANGED <<classes, deployed, pending>>,
         landed \subseteq landed', mishaps \subseteq mishaps',
         r.at = "failed" => k \in mishaps',
         ManifestIsTrue', PathIsTrue'
  PROVE  DeployInv'
<1>1. job \in [Jobs -> JobStates] /\ job'[k] = r
  BY DEF DeployInv, DeployTypeOK
<1>2. PlacesOfKind(k)'
  BY <1>1 DEF DeployInv, PlacesOfKind, InStack, Rests
<1>3. ~AtPhase(k)' /\ ~Deploying(k)' /\ r.at \notin {"preflight", "tokens", "manifest"}
  BY <1>1 DEF AtPhase, Deploying, Rests
<1>4. PassedIsDeployed(k)'
  BY <1>1, <1>3 DEF PassedIsDeployed
<1>5. Undisturbed(k)'
  <2>1. job'[k].at \notin {"phase", "send", "await"}
    BY <1>1, <1>3 DEF AtPhase
  <2> QED BY <1>1, <1>3, <2>1 DEF Undisturbed, StacksAhead, PhasesAhead, AttemptKnows, SentOnce
<1> QED BY <1>2, <1>3, <1>4, <1>5, JobMoves

\* A job begins a stack.
LEMMA JobBegins ==
  ASSUME DeployInv, NEW k \in Jobs, job[k].at \in {"preflight", "tokens"},
         NEW r \in JobStates, job' = [job EXCEPT ![k] = r], r.kind = job[k].kind,
         r.token = job[k].token, r.at = "phase", r.phase = 1, r.attempt = 0, r.unlucky = 0,
         UNCHANGED <<classes, deployed, landed, pending, written, atPath, configured, mishaps>>
  PROVE  DeployInv'
<1>1. job \in [Jobs -> JobStates] /\ job'[k] = r /\ job[k] \in JobStates
  BY DEF DeployInv, DeployTypeOK
<1>2. /\ job[k].kind \in Kinds /\ job[k].token \in Nat /\ r.kind \in Kinds
  BY <1>1 DEF JobStates
<1>3. /\ 1 \in DOMAIN Phases(r.kind)
      /\ \A q \in DOMAIN Phases(r.kind) : Phases(r.kind)[q] \in Names /\ q \in Nat \ {0}
  BY <1>2, StackFacts
<1>4. PlacesOfKind(k)'
  BY <1>1, <1>3 DEF PlacesOfKind, InStack, OneToken, DeployInv
<1>5. PassedIsDeployed(k)'
  BY <1>1, <1>3 DEF PassedIsDeployed
<1>6. k \notin mishaps' => Undisturbed(k)'
  <2> SUFFICES ASSUME k \notin mishaps  PROVE Undisturbed(k)'
    OBVIOUS
  <2>1. \A t \in Nat, c \in Names : t >= r.token => Fresh(<<k, t, c>>)'
    BY DEF DeployInv, Undisturbed, StacksAhead, Fresh
  <2>2. StacksAhead(k)'
    BY <1>1, <1>2, <2>1 DEF StacksAhead
  <2>3. \A q \in DOMAIN Phases(r.kind) : Fresh(<<k, r.token, Phases(r.kind)[q]>>)'
    BY <1>2, <1>3, <2>1
  <2>4. PhasesAhead(k)'
    BY <1>1, <2>3 DEF PhasesAhead
  <2>5. AttemptKnows(k)'
    BY <1>1 DEF AttemptKnows
  <2>6. SentOnce(k)'
    BY <1>1, <1>3, <2>3 DEF SentOnce, Instance, Phase
  <2> QED BY <2>2, <2>4, <2>5, <2>6 DEF Undisturbed
<1>7. ~Deploying(k)'
  BY <1>1 DEF Deploying
<1>8. ManifestIsTrue' /\ PathIsTrue'
  BY NothingWritten
<1> QED BY <1>4, <1>5, <1>6, <1>7, <1>8, JobMoves

\* A job gets past a phase, whose contract, if there is one, is deployed.
LEMMA JobPasses ==
  ASSUME DeployInv, NEW k \in Jobs, AtPhase(k),
         Phase(k) \in Contracts(job[k].kind) => Instance(k) \in deployed,
         job' = [job EXCEPT ![k] = AfterPhase(k)],
         UNCHANGED <<classes, deployed, landed, pending, written, atPath, configured>>,
         mishaps \subseteq mishaps'
  PROVE  DeployInv'
<1> DEFINE r == AfterPhase(k)
           ph == Phases(job[k].kind)
<1>1. job \in [Jobs -> JobStates] /\ job'[k] = r /\ job[k] \in JobStates
  BY DEF DeployInv, DeployTypeOK
<1>2. /\ job[k].kind \in Kinds /\ job[k].token \in Nat /\ job[k].phase \in Nat
  BY <1>1 DEF JobStates
<1>3. /\ Len(ph) \in Nat \ {0} /\ DOMAIN ph = 1..Len(ph) /\ \A q \in DOMAIN ph : ph[q] \in Names
      /\ job[k].phase \in DOMAIN ph
  BY <1>2, StackFacts DEF DeployInv, PlacesOfKind, InStack, OneToken
<1>4. /\ r.kind = job[k].kind /\ r.token = job[k].token
      /\ \/ /\ r.at = "phase" /\ r.phase = job[k].phase + 1 /\ r.attempt = 0 /\ r.unlucky = 0
            /\ r.phase \in DOMAIN ph
         \/ r.at = "manifest" /\ r.phase = Len(ph) /\ job[k].phase = Len(ph)
  BY <1>1, <1>2, <1>3 DEF AfterPhase, JobStates
<1>5. r \in JobStates
  <2> DEFINE at == [job[k] EXCEPT !.at = "phase"]
             on == [at EXCEPT !.phase = job[k].phase + 1]
             zero == [on EXCEPT !.attempt = 0]
             new == [zero EXCEPT !.unlucky = 0]
             out == [job[k] EXCEPT !.at = "manifest"]
  <2>1. at \in JobStates
    BY <1>1 DEF JobStates, JobPlaces
  <2>2. on \in JobStates
    <3> HIDE DEF at
    <3> QED BY <2>1, <1>2 DEF JobStates
  <2>6. zero \in JobStates
    <3> HIDE DEF on
    <3> QED BY <2>2 DEF JobStates
  <2>3. new \in JobStates
    <3> HIDE DEF zero
    <3> QED BY <2>6 DEF JobStates
  <2>4. out \in JobStates
    BY <1>1 DEF JobStates, JobPlaces
  <2>5. r = new \/ r = out
    BY <1>1 DEF AfterPhase, JobStates
  <2> QED BY <2>3, <2>4, <2>5
<1> HIDE DEF r
<1>6. job' = [job EXCEPT ![k] = r]
  BY DEF r
<1>7. PlacesOfKind(k)'
  BY <1>1, <1>3, <1>4 DEF PlacesOfKind, InStack, OneToken, DeployInv
<1>8. PassedIsDeployed(k)'
  <2> SUFFICES ASSUME NEW q \in DOMAIN ph, ph[q] \in Contracts(job[k].kind),
                      (AtPhase(k)' /\ q < r.phase) \/ r.at = "manifest"
               PROVE  <<k, job[k].token, ph[q]>> \in deployed
    BY <1>1, <1>4 DEF PassedIsDeployed
  <2>1. q \in Nat /\ (q < job[k].phase \/ q = job[k].phase)
    BY <1>1, <1>2, <1>3, <1>4 DEF AtPhase
  <2>2. CASE q < job[k].phase
    BY <2>2 DEF DeployInv, PassedIsDeployed
  <2>3. CASE q = job[k].phase
    BY <2>3 DEF Instance, Phase
  <2> QED BY <2>1, <2>2, <2>3
<1>9. k \notin mishaps' => Undisturbed(k)'
  <2> SUFFICES ASSUME k \notin mishaps  PROVE Undisturbed(k)'
    OBVIOUS
  <2>1. Undisturbed(k)
    BY DEF DeployInv
  <2>2. StacksAhead(k)'
    BY <1>1, <1>4, <2>1 DEF Undisturbed, StacksAhead, Fresh
  <2>3. \A q \in DOMAIN ph : q > job[k].phase => Fresh(<<k, job[k].token, ph[q]>>)'
    BY <1>1, <1>4, <2>1 DEF Undisturbed, PhasesAhead, Fresh
  <2>4. PhasesAhead(k)'
    BY <1>1, <1>2, <1>3, <1>4, <2>3 DEF PhasesAhead, AtPhase
  <2>5. AttemptKnows(k)'
    BY <1>1, <1>4 DEF AttemptKnows, AtPhase
  <2>6. SentOnce(k)'
    BY <1>1, <1>2, <1>3, <1>4, <2>3 DEF SentOnce, Instance, Phase
  <2> QED BY <2>2, <2>4, <2>5, <2>6 DEF Undisturbed
<1>10. ~Deploying(k)' /\ r.at # "failed"
  BY <1>1, <1>4 DEF Deploying
<1>11. ManifestIsTrue' /\ PathIsTrue'
  BY <1>4, <1>6, NothingWritten
<1> QED BY <1>4, <1>5, <1>6, <1>7, <1>8, <1>9, <1>10, <1>11, JobMoves

\* An attempt that is retried.  Without a mishap it had a class to publish, and no
\* transaction of the job was sent or is left.
LEMMA JobRetries ==
  ASSUME DeployInv, NEW k \in Jobs, Deploying(k), NEW u \in Nat, Retry(k, u),
         UNCHANGED <<classes, deployed, landed, pending, written, atPath, configured>>,
         mishaps \subseteq mishaps',
         \/ k \in mishaps'
         \/ LosesRace(k) /\ u = job[k].unlucky + (IF Phase(k) \in classes THEN 0 ELSE 1)
  PROVE  DeployInv'
<1> DEFINE again == [job[k] EXCEPT !.at = "phase", !.attempt = job[k].attempt + 1, !.unlucky = u]
           over == [job[k] EXCEPT !.at = "failed", !.unlucky = u]
           r == IF job[k].attempt < MAX_RETRIES THEN again ELSE over
<1>1. job \in [Jobs -> JobStates] /\ job'[k] = r /\ job[k] \in JobStates
  BY DEF DeployInv, DeployTypeOK, Retry
<1>2. /\ job[k].kind \in Kinds /\ job[k].token \in Nat /\ job[k].phase \in Nat
      /\ job[k].attempt \in Nat /\ job[k].unlucky \in Nat
  BY <1>1 DEF JobStates
<1>3. r \in JobStates
  <2> DEFINE at == [job[k] EXCEPT !.at = "phase"]
             next == [at EXCEPT !.attempt = job[k].attempt + 1]
             new == [next EXCEPT !.unlucky = u]
             end == [job[k] EXCEPT !.at = "failed"]
             lost == [end EXCEPT !.unlucky = u]
  <2>1. at \in JobStates /\ end \in JobStates
    BY <1>1 DEF JobStates, JobPlaces
  <2>2. next \in JobStates
    <3> HIDE DEF at
    <3> QED BY <2>1, <1>2 DEF JobStates
  <2>3. new \in JobStates
    <3> HIDE DEF next
    <3> QED BY <2>2 DEF JobStates
  <2>4. lost \in JobStates
    <3> HIDE DEF end
    <3> QED BY <2>1 DEF JobStates
  <2>5. again = new /\ over = lost
    BY <1>1 DEF JobStates
  <2> QED BY <2>3, <2>4, <2>5
<1>4. /\ r.kind = job[k].kind /\ r.token = job[k].token /\ r.phase = job[k].phase
      /\ r.unlucky = u
      /\ \/ r.at = "phase" /\ r.attempt = job[k].attempt + 1
         \/ r.at = "failed" /\ job[k].attempt >= 3
  BY <1>1, <1>2 DEF JobStates, MAX_RETRIES
<1>5. job' = [job EXCEPT ![k] = r]
  BY DEF Retry
<1> HIDE DEF r
<1>6. PlacesOfKind(k)'
  BY <1>1, <1>4 DEF DeployInv, PlacesOfKind, InStack, OneToken
<1>7. PassedIsDeployed(k)'
  BY <1>1, <1>4 DEF DeployInv, PassedIsDeployed, AtPhase, Deploying
<1>8. ASSUME k \notin mishaps'
      PROVE  Undisturbed(k)' /\ (r.at = "failed" => r.unlucky >= MAX_RETRIES)
  <2>1. Undisturbed(k) /\ AtPhase(k)
    BY <1>8 DEF DeployInv, AtPhase, Deploying
  <2>2. ~job[k].skipClass /\ Fresh(Instance(k))
    <3>1. CASE job[k].at = "send"
      <4>1. Fresh(Instance(k)) /\ Tx(k).for = Instance(k) /\ Tx(k).class = ~job[k].skipClass
        BY <2>1, <3>1 DEF Undisturbed, SentOnce, Tx
      <4>2. Clashes(Tx(k)) \/ Rivals(Tx(k)) # {}
        BY <1>8, <3>1 DEF LosesRace
      <4> QED BY <4>1, <4>2 DEF Clashes, Rivals, Fresh
    <3>2. CASE job[k].at = "await"
      BY <1>8, <2>1, <3>2 DEF LosesRace, Undisturbed, SentOnce, Fresh, Deploying
    <3> QED BY <3>1, <3>2 DEF Deploying
  <2>3. job[k].attempt <= job[k].unlucky
    BY <2>1, <2>2 DEF Undisturbed, AttemptKnows
  <2>4. /\ u = job[k].unlucky + (IF Phase(k) \in classes THEN 0 ELSE 1)
    BY <1>8
  <2>5. r.at = "failed" => r.unlucky >= MAX_RETRIES
    BY <1>2, <1>4, <2>3, <2>4 DEF MAX_RETRIES
  <2>6. StacksAhead(k)' /\ PhasesAhead(k)'
    BY <1>1, <1>4, <2>1 DEF Undisturbed, StacksAhead, PhasesAhead, Fresh, AtPhase
  <2>7. AttemptKnows(k)'
    <3>1. Phase(k)' = Phase(k)
      BY <1>1, <1>4 DEF Phase
    <3>2. CASE r.at = "failed"
      BY <1>1, <3>2 DEF AttemptKnows, AtPhase
    <3>3. CASE r.at = "phase" /\ r.attempt = job[k].attempt + 1
      BY <1>1, <1>2, <1>4, <2>3, <2>4, <3>1, <3>3 DEF AttemptKnows, Deploying
    <3> QED BY <1>4, <3>2, <3>3
  <2>8. SentOnce(k)'
    BY <1>1, <1>4, <2>2 DEF SentOnce, Instance, Phase, Fresh
  <2> QED BY <2>5, <2>6, <2>7, <2>8 DEF Undisturbed
<1>9. ~Deploying(k)'
  BY <1>1, <1>4 DEF Deploying
<1>10. ManifestIsTrue' /\ PathIsTrue'
  BY <1>4, <1>5, NothingWritten
<1> QED BY <1>3, <1>4, <1>5, <1>6, <1>7, <1>8, <1>9, <1>10, JobMoves

\* A job goes on to its next token, having begun none of the stacks from there on.
LEMMA JobGoesOn ==
  ASSUME DeployInv, NEW k \in Jobs, NEW place \in {"tokens", "register"},
         NextToken(k, place), job[k].kind = "tokens" \/ place = job[k].at,
         job[k].at \in {"tokens", "manifest", "register"},
         place = "tokens" => job[k].at # "register",
         UNCHANGED <<classes, deployed, landed, pending, mishaps>>,
         ManifestIsTrue', PathIsTrue'
  PROVE  DeployInv'
<1> DEFINE r == [job[k] EXCEPT !.at = place, !.token = job[k].token + 1]
<1>1. job \in [Jobs -> JobStates] /\ job'[k] = r /\ job[k] \in JobStates
  BY DEF DeployInv, DeployTypeOK, NextToken
<1>2. job[k].token \in Nat
  BY <1>1 DEF JobStates
<1>3. r \in JobStates
  <2> DEFINE at == [job[k] EXCEPT !.at = place]
             new == [at EXCEPT !.token = job[k].token + 1]
  <2>1. at \in JobStates
    BY <1>1 DEF JobStates, JobPlaces
  <2>2. new \in JobStates
    <3> HIDE DEF at
    <3> QED BY <2>1, <1>2 DEF JobStates
  <2>3. r = new
    BY <1>1 DEF JobStates
  <2> QED BY <2>2, <2>3
<1>4. /\ r.kind = job[k].kind /\ r.token = job[k].token + 1 /\ r.phase = job[k].phase
      /\ r.at = place
  BY <1>1 DEF JobStates
<1>5. job' = [job EXCEPT ![k] = r]
  BY DEF NextToken
<1> HIDE DEF r
<1>6. PlacesOfKind(k)'
  BY <1>1, <1>4 DEF DeployInv, PlacesOfKind, InStack, OneToken
<1>7. PassedIsDeployed(k)'
  BY <1>1, <1>4 DEF PassedIsDeployed, AtPhase
<1>8. k \notin mishaps' => Undisturbed(k)'
  <2> SUFFICES ASSUME k \notin mishaps  PROVE Undisturbed(k)'
    OBVIOUS
  <2>1. StacksAhead(k)
    BY DEF DeployInv, Undisturbed
  <2>2. place = "tokens" => \A t \in Nat, c \in Names : t >= r.token => Fresh(<<k, t, c>>)
    BY <1>2, <1>4, <2>1 DEF StacksAhead
  <2>3. StacksAhead(k)'
    BY <1>1, <1>4, <2>2 DEF StacksAhead, Fresh, AtPhase
  <2> QED BY <1>1, <1>4, <2>3
          DEF Undisturbed, PhasesAhead, AttemptKnows, SentOnce, AtPhase
<1>9. ~Deploying(k)' /\ r.at # "failed"
  BY <1>1, <1>4 DEF Deploying
<1> QED BY <1>3, <1>4, <1>5, <1>6, <1>7, <1>8, <1>9, JobMoves

\* A job that fails, or is done.
LEMMA JobEnds ==
  ASSUME DeployInv, NEW k \in Jobs, NEW place \in JobPlaces, JobTo(k, place),
         place \in {"configure", "done", "failed"}, 
         place = "configure" => job[k].kind = "fpc",
         UNCHANGED <<classes, deployed, landed, pending>>,
         mishaps \subseteq mishaps', place = "failed" => k \in mishaps',
         ManifestIsTrue', PathIsTrue'
  PROVE  DeployInv'
<1> DEFINE r == [job[k] EXCEPT !.at = place]
<1>1. job \in [Jobs -> JobStates] /\ job[k] \in JobStates
  BY DEF DeployInv, DeployTypeOK
<1>2. r \in JobStates
  BY <1>1 DEF JobStates
<1>3. job' = [job EXCEPT ![k] = r]
  BY <1>1 DEF JobTo
<1>4. r.kind = job[k].kind /\ r.phase = job[k].phase /\ r.at = place
  BY <1>1 DEF JobStates
<1>5. Rests(r) /\ OneToken(r)
  BY <1>1, <1>4 DEF Rests, OneToken, DeployInv, PlacesOfKind, JobStates
<1> HIDE DEF r
<1> QED BY <1>2, <1>3, <1>4, <1>5, JobRests

\* A job that fails without having written anything.
LEMMA JobFails ==
  ASSUME DeployInv, NEW k \in Jobs, Fails(k), UNCHANGED <<classes, deployed, landed, pending, written, atPath, configured>>
  PROVE  DeployInv'
<1>1. JobTo(k, "failed") /\ mishaps \subseteq mishaps' /\ k \in mishaps'
  BY DEF Fails
<1>2. [job[k] EXCEPT !.at = "failed"].kind = job[k].kind
  BY DEF DeployInv, DeployTypeOK, JobStates
<1>3. job' = [job EXCEPT ![k] = [job[k] EXCEPT !.at = "failed"]]
  BY <1>1 DEF JobTo, DeployInv, DeployTypeOK
<1>4. ManifestIsTrue' /\ PathIsTrue'
  BY <1>2, <1>3, NothingWritten
<1> QED BY <1>1, <1>4, JobEnds DEF JobPlaces

LEMMA DeployStarts == DeployInit => DeployInv
<1> SUFFICES ASSUME DeployInit  PROVE DeployInv
  OBVIOUS
<1>1. PICK kind \in [Jobs -> Kinds] : job = [j \in Jobs |-> FreshJob(kind[j])]
  BY DEF DeployInit, Kinds
<1>2. ASSUME NEW j \in Jobs
      PROVE  /\ job[j] \in JobStates /\ job[j].kind \in Kinds /\ job[j].phase = 1
             /\ job[j].attempt = 0 /\ job[j].unlucky = 0 /\ job[j].at \in {"preflight", "tokens"}
             /\ OneToken(job[j])
             /\ job[j].at = "preflight" => job[j].kind = "fpc"
  <2>1. job[j] = FreshJob(kind[j]) /\ kind[j] \in Kinds
    BY <1>1
  <2> QED BY <2>1 DEF FreshJob, JobStates, JobPlaces, Kinds, OneToken
<1>3. DeployTypeOK
  BY <1>1, <1>2 DEF DeployTypeOK, DeployInit
<1>4. RaceCostsOneAttempt
  BY <1>2 DEF RaceCostsOneAttempt
<1>5. ASSUME NEW j \in Jobs  PROVE PlacesOfKind(j) /\ PassedIsDeployed(j) /\ Undisturbed(j)
  <2>1. 1 \in DOMAIN Phases(job[j].kind)
    BY <1>2, StackFacts
  <2>2. \A i : Fresh(i)
    BY DEF DeployInit, Fresh
  <2>3. PlacesOfKind(j) /\ PassedIsDeployed(j)
    BY <1>2, <2>1 DEF PlacesOfKind, PassedIsDeployed, InStack, AtPhase
  <2>4. Undisturbed(j)
    BY <1>2, <2>2 DEF Undisturbed, StacksAhead, PhasesAhead, AttemptKnows, SentOnce, AtPhase
  <2> QED BY <2>3, <2>4
<1>6. SkippedIsPublished /\ DeployedIsPublished /\ FaucetIsFunded
  BY <1>2 DEF DeployInit, SkippedIsPublished, DeployedIsPublished, FaucetIsFunded, Deploying
<1>7. ManifestIsTrue /\ PathIsTrue
  BY DEF DeployInit, ManifestIsTrue, PathIsTrue
<1> QED BY <1>3, <1>4, <1>5, <1>6, <1>7 DEF DeployInv

\* What is read before a step is decided.
LEMMA PreflightKeeps ==
  ASSUME DeployInv, NEW k \in Jobs, PreflightJob(k)
  PROVE  DeployInv'
<1> DEFINE rec(place) == [job[k] EXCEPT !.at = place]
<1>1. /\ job \in [Jobs -> JobStates] /\ job[k] \in JobStates /\ job[k].at = "preflight"
      /\ job[k].kind = "fpc" /\ job[k].phase = 1 /\ job[k].attempt = 0 /\ job[k].unlucky = 0
      /\ UNCHANGED <<set, written, atPath, configured>>
      /\ UNCHANGED <<classes, deployed, landed, pending>>
  BY DEF DeployInv, DeployTypeOK, PlacesOfKind, PreflightJob, Chain, Files
<1>2. ASSUME NEW place \in {"failed", "configure", "phase"}
      PROVE  rec(place) \in JobStates /\ rec(place).kind = job[k].kind
  BY <1>1 DEF JobStates, JobPlaces
<1>3. CASE Fails(k)
  BY <1>1, <1>3, JobFails
<1>4. ASSUME NEW place \in {"failed", "configure", "phase"}, JobTo(k, place),
             mishaps' = mishaps \cup (IF job'[k].at = "failed" THEN {k} ELSE {})
      PROVE  DeployInv'
  <2>1. /\ job' = [job EXCEPT ![k] = rec(place)]
        /\ job'[k].at = place
    BY <1>1, <1>4 DEF JobTo
  <2>2. ManifestIsTrue' /\ PathIsTrue'
    BY <1>1, <1>2, <2>1, NothingWritten
  <2>3. CASE place = "phase"
    <3>1. rec(place).token = job[k].token /\ rec(place).at = "phase" /\ rec(place).phase = 1
          /\ rec(place).attempt = 0 /\ rec(place).unlucky = 0
      BY <1>1, <2>3 DEF JobStates
    <3>2. mishaps' = mishaps
      BY <1>4, <2>1, <2>3
    <3> HIDE DEF rec
    <3> QED BY <1>1, <1>2, <2>1, <3>1, <3>2, JobBegins
  <2>4. CASE place # "phase"
    <3>1. mishaps \subseteq mishaps' /\ (place = "failed" => k \in mishaps')
      BY <1>4, <2>1
    <3> HIDE DEF rec
    <3> QED BY <1>1, <1>4, <2>2, <2>4, <3>1, JobEnds DEF JobPlaces
  <2> QED BY <2>3, <2>4
<1> QED BY <1>3, <1>4 DEF PreflightJob

LEMMA ResolveKeeps ==
  ASSUME DeployInv, NEW k \in Jobs, ResolveToken(k)
  PROVE  DeployInv'
<1>1. /\ job \in [Jobs -> JobStates] /\ job[k] \in JobStates /\ job[k].at = "tokens"
      /\ UNCHANGED <<set, written, atPath, configured>>
      /\ UNCHANGED <<classes, deployed, landed, pending>>
  BY DEF DeployInv, DeployTypeOK, ResolveToken, Chain, Files
<1>2. job[k].kind = "tokens" \/ job[k].kind = "fpc"
  BY <1>1 DEF JobStates, Kinds
<1>3. CASE Fails(k)
  BY <1>1, <1>3, JobFails
<1>4. CASE NextToken(k, "tokens") /\ UNCHANGED mishaps
  <2>1. [job[k] EXCEPT !.at = "tokens", !.token = job[k].token + 1].kind = job[k].kind
    BY <1>1 DEF JobStates
  <2>2. ManifestIsTrue' /\ PathIsTrue'
    BY <1>1, <1>4, <2>1, NothingWritten DEF NextToken
  <2> QED BY <1>1, <1>4, <2>2, JobGoesOn
<1>5. CASE job' = [job EXCEPT ![k] = [job[k] EXCEPT !.at = "phase", !.phase = 1, !.attempt = 0, !.unlucky = 0]]
           /\ UNCHANGED mishaps
  <2> DEFINE at == [job[k] EXCEPT !.at = "phase"]
             first == [at EXCEPT !.phase = 1]
             zero == [first EXCEPT !.attempt = 0]
             new == [zero EXCEPT !.unlucky = 0]
  <2>1. at \in JobStates
    BY <1>1 DEF JobStates, JobPlaces
  <2>2. first \in JobStates
    <3> HIDE DEF at
    <3> QED BY <2>1 DEF JobStates
  <2>5. zero \in JobStates
    <3> HIDE DEF first
    <3> QED BY <2>2 DEF JobStates
  <2>3. new \in JobStates
    <3> HIDE DEF zero
    <3> QED BY <2>5 DEF JobStates
  <2>4. /\ new.kind = job[k].kind /\ new.token = job[k].token
        /\ new.at = "phase" /\ new.phase = 1 /\ new.attempt = 0 /\ new.unlucky = 0
        /\ job' = [job EXCEPT ![k] = new]
    BY <1>1, <1>5 DEF JobStates
  <2> HIDE DEF new
  <2> QED BY <1>1, <1>5, <2>3, <2>4, JobBegins
<1>6. CASE job' = [job EXCEPT ![k] = [job[k] EXCEPT !.at = "register", !.token = 1]]
           /\ UNCHANGED mishaps
  <2> DEFINE at == [job[k] EXCEPT !.at = "register"]
             new == [at EXCEPT !.token = 1]
  <2>1. at \in JobStates
    BY <1>1 DEF JobStates, JobPlaces
  <2>2. new \in JobStates
    <3> HIDE DEF at
    <3> QED BY <2>1 DEF JobStates
  <2>3. /\ new.kind = job[k].kind /\ new.phase = job[k].phase /\ new.at = "register"
        /\ job' = [job EXCEPT ![k] = new]
    BY <1>1, <1>6 DEF JobStates
  <2> HIDE DEF new
  <2>4. ManifestIsTrue' /\ PathIsTrue'
    BY <1>1, <2>3, NothingWritten
  <2>5. OneToken(job[k])
    BY DEF DeployInv, PlacesOfKind
  <2>6. OneToken(new) /\ Rests(new) /\ new.at # "failed"
    BY <1>1, <2>3, <2>5 DEF OneToken, Rests
  <2> QED BY <1>1, <1>6, <2>2, <2>3, <2>4, <2>6, JobRests
<1> QED BY <1>3, <1>4, <1>5, <1>6 DEF ResolveToken

LEMMA L1PhaseKeeps ==
  ASSUME DeployInv, NEW k \in Jobs, L1Phase(k) \/ WaitForDeposit(k)
  PROVE  DeployInv'
<1>1. /\ UNCHANGED <<classes, deployed, landed, pending, written, atPath, configured>>
      /\ \/ AtPhase(k) /\ job' = [job EXCEPT ![k] = AfterPhase(k)] /\ mishaps \subseteq mishaps'
         \/ Fails(k)
  BY DEF L1Phase, WaitForDeposit, Chain, Files, Mishap, At, AtPhase
<1>2. Phase(k) \in L1Phases \cup {"ready"}
  BY DEF L1Phase, WaitForDeposit, At
<1>3. Phase(k) \notin Contracts(job[k].kind)
  BY <1>2 DEF L1Phases, Contracts
<1> QED BY <1>1, <1>3, JobPasses, JobFails

LEMMA LandsKeeps ==
  ASSUME DeployInv, NEW k \in Jobs, DepositLands(k)
  PROVE  DeployInv'
<1> USE DEF DeployInv
<1>1. /\ UNCHANGED <<set, job, classes, deployed, onL1, pending, written, atPath, configured,
                     mishaps>>
      /\ landed \subseteq landed'
  BY DEF DepositLands, Files
<1>2. DeployTypeOK' /\ RaceCostsOneAttempt'
  BY <1>1 DEF DeployTypeOK, RaceCostsOneAttempt
<1>3. \A j \in Jobs : PlacesOfKind(j)' /\ PassedIsDeployed(j)'
  BY <1>1 DEF PlacesOfKind, PassedIsDeployed, InStack, AtPhase
<1>4. \A j \in Jobs : j \notin mishaps' => Undisturbed(j)'
  BY <1>1 DEF Undisturbed, StacksAhead, PhasesAhead, AttemptKnows, SentOnce, AtPhase,
              Deploying, Fresh, Instance, Phase, Tx
<1>5. SkippedIsPublished' /\ DeployedIsPublished' /\ FaucetIsFunded'
  BY <1>1 DEF SkippedIsPublished, DeployedIsPublished, FaucetIsFunded, Deploying, Phase
<1>6. ManifestIsTrue' /\ PathIsTrue'
  BY <1>1 DEF ManifestIsTrue, PathIsTrue, IsDeployedFpc
<1> QED BY <1>2, <1>3, <1>4, <1>5, <1>6

LEMMA ReadKeeps ==
  ASSUME DeployInv, NEW k \in Jobs, ReadClass(k)
  PROVE  DeployInv'
<1>0. PICK lags \in {FALSE, Phase(k) \in classes} :
        job' = [job EXCEPT ![k] =
          [job[k] EXCEPT !.at = "send", !.skipClass = ClassPublished(k) /\ ~lags,
                         !.unlucky = job[k].unlucky + (IF lags THEN 1 ELSE 0)]]
  BY DEF ReadClass
<1> DEFINE skip == ClassPublished(k) /\ ~lags
           u == job[k].unlucky + (IF lags THEN 1 ELSE 0)
           r == [job[k] EXCEPT !.at = "send", !.skipClass = skip, !.unlucky = u]
<1>1. /\ job \in [Jobs -> JobStates] /\ job[k] \in JobStates /\ job[k].at = "phase"
      /\ UNCHANGED <<set, written, atPath, configured, mishaps>>
      /\ UNCHANGED <<classes, deployed, landed, pending>>
  BY DEF DeployInv, DeployTypeOK, ReadClass, At, Chain, Files
<1>2. job' = [job EXCEPT ![k] = r] /\ job'[k] = r
  BY <1>0, <1>1
<1>10. /\ skip \in BOOLEAN /\ u \in Nat /\ job[k].unlucky \in Nat /\ job[k].attempt \in Nat
       /\ skip => Phase(k) \in classes
       /\ u >= job[k].unlucky
       /\ ~skip => Phase(k) \notin classes \/ u = job[k].unlucky + 1
  BY <1>1 DEF ClassPublished, JobStates
<1> HIDE DEF skip, u
<1>3. r \in JobStates
  <2> DEFINE at == [job[k] EXCEPT !.at = "send"]
             told == [at EXCEPT !.skipClass = skip]
             new == [told EXCEPT !.unlucky = u]
  <2>1. at \in JobStates
    BY <1>1 DEF JobStates, JobPlaces
  <2>2. told \in JobStates
    <3> HIDE DEF at
    <3> QED BY <2>1, <1>10 DEF JobStates
  <2>3. new \in JobStates
    <3> HIDE DEF told
    <3> QED BY <2>2, <1>10 DEF JobStates
  <2>4. r = new
    BY <1>1 DEF JobStates
  <2> QED BY <2>3, <2>4
<1>4. /\ r.kind = job[k].kind /\ r.token = job[k].token /\ r.phase = job[k].phase
      /\ r.at = "send" /\ r.attempt = job[k].attempt /\ r.skipClass = skip /\ r.unlucky = u
  BY <1>1 DEF JobStates
<1> HIDE DEF r
<1>5. PlacesOfKind(k)'
  BY <1>1, <1>2, <1>4 DEF DeployInv, PlacesOfKind, InStack, OneToken
<1>6. PassedIsDeployed(k)'
  BY <1>1, <1>2, <1>4 DEF DeployInv, PassedIsDeployed, AtPhase
<1>7. (Deploying(k) /\ job[k].skipClass => Phase(k) \in classes)'
  BY <1>1, <1>2, <1>4, <1>10 DEF Phase
<1>8. k \notin mishaps' => Undisturbed(k)'
  <2> SUFFICES ASSUME k \notin mishaps  PROVE Undisturbed(k)'
    BY <1>1
  <2>1. Undisturbed(k) /\ AtPhase(k)
    BY <1>1 DEF DeployInv, AtPhase
  <2>2. StacksAhead(k)' /\ PhasesAhead(k)'
    BY <1>1, <1>2, <1>4, <2>1 DEF Undisturbed, StacksAhead, PhasesAhead, Fresh, AtPhase
  <2>3. AttemptKnows(k)'
    <3>1. Phase(k)' = Phase(k)
      BY <1>2, <1>4 DEF Phase
    <3>2. /\ job[k].attempt <= job[k].unlucky + 1
          /\ job[k].attempt = job[k].unlucky + 1 => Phase(k) \in classes
      BY <2>1 DEF Undisturbed, AttemptKnows
    <3> QED BY <1>1, <1>2, <1>4, <1>10, <3>1, <3>2 DEF AttemptKnows
  <2>4. SentOnce(k)'
    BY <1>1, <1>2, <1>4, <2>1 DEF Undisturbed, SentOnce, Instance, Phase, Fresh
  <2> QED BY <2>2, <2>3, <2>4 DEF Undisturbed
<1>9. ManifestIsTrue' /\ PathIsTrue'
  BY <1>1, <1>2, <1>4, NothingWritten
<1> QED BY <1>1, <1>2, <1>3, <1>4, <1>5, <1>6, <1>7, <1>8, <1>9, JobMoves

LEMMA RetriesKeep ==
  ASSUME DeployInv, NEW k \in Jobs, LosesRace(k) \/ Misreported(k) \/ DeployFails(k)
  PROVE  DeployInv'
<1>1. UNCHANGED <<classes, deployed, landed, pending, written, atPath, configured>> /\ Deploying(k)
  BY DEF LosesRace, Misreported, DeployFails, Deploying, Chain, Files
<1>5. job[k].unlucky \in Nat
  BY DEF DeployInv, DeployTypeOK, JobStates
<1>2. CASE LosesRace(k)
  <2> DEFINE u == job[k].unlucky + (IF Phase(k) \in classes THEN 0 ELSE 1)
  <2>1. u \in Nat /\ Retry(k, u) /\ UNCHANGED mishaps
    BY <1>2, <1>5 DEF LosesRace
  <2> QED BY <1>1, <1>2, <2>1, JobRetries
<1>3. CASE Misreported(k)
  BY <1>1, <1>3, <1>5, JobRetries DEF Misreported, Mishap
<1>4. CASE DeployFails(k)
  BY <1>1, <1>4, JobFails DEF DeployFails
<1> QED BY <1>2, <1>3, <1>4

LEMMA DeploysKeeps ==
  ASSUME DeployInv, NEW k \in Jobs, Deploys(k)
  PROVE  DeployInv'
<1>1. /\ AtPhase(k) /\ Instance(k) \in deployed /\ job' = [job EXCEPT ![k] = AfterPhase(k)]
      /\ UNCHANGED <<classes, deployed, landed, pending, written, atPath, configured, mishaps>>
  BY DEF Deploys, IsDeployed, AtPhase, Chain, Files
<1> QED BY <1>1, JobPasses

\* What sending does to the jobs that do not send, and to what the sender has not reached.
LEMMA SendKeeps ==
  ASSUME DeployInv, NEW k \in Jobs, SendDeploy(k)
  PROVE  DeployInv'
<1> DEFINE r == [job[k] EXCEPT !.at = "await"]
<1>1. /\ job \in [Jobs -> JobStates] /\ job[k] \in JobStates /\ job[k].at = "send"
      /\ UNCHANGED <<set, classes, deployed, onL1, landed, written, atPath, configured, mishaps>>
      /\ Instance(k) \notin deployed /\ Executes(k)
      /\ \E evicted \in {{}, Rivals(Tx(k))} : pending' = (pending \ evicted) \cup {Tx(k)}
  BY DEF DeployInv, DeployTypeOK, SendDeploy, Files
<1>15. /\ pending' \subseteq pending \cup {Tx(k)} /\ Tx(k) \in pending'
       /\ \A tx \in pending : tx.for # Tx(k).for /\ ~tx.class => tx \in pending'
  BY <1>1 DEF Rivals
<1>2. job' = [job EXCEPT ![k] = r] /\ job'[k] = r /\ r \in JobStates
  BY <1>1 DEF SendDeploy, JobTo, JobStates, JobPlaces
<1>3. /\ r.kind = job[k].kind /\ r.token = job[k].token /\ r.phase = job[k].phase
      /\ r.at = "await" /\ r.attempt = job[k].attempt /\ r.skipClass = job[k].skipClass
      /\ r.unlucky = job[k].unlucky
  BY <1>1 DEF JobStates
<1> HIDE DEF r
<1>4. /\ job[k].kind \in Kinds /\ job[k].token \in Nat /\ job[k].phase \in Nat
      /\ job[k].skipClass \in BOOLEAN
  BY <1>1 DEF JobStates
<1>5. /\ job[k].phase \in DOMAIN Phases(job[k].kind)
      /\ Phase(k) \in Names
      /\ \A q \in DOMAIN Phases(job[k].kind) :
           q \in Nat /\ (q # job[k].phase => Phases(job[k].kind)[q] # Phase(k))
  BY <1>4, StackFacts DEF DeployInv, PlacesOfKind, InStack, Phase
<1>6. /\ Tx(k).for = <<k, job[k].token, Phase(k)>> /\ Tx(k).class = ~job[k].skipClass
      /\ Tx(k) \in [for : Instances, class : BOOLEAN]
  BY <1>4, <1>5 DEF Tx, Instance, Instances
<1>7. \A j \in Jobs : j # k => job'[j] = job[j]
  BY <1>1, <1>2
<1>8. DeployTypeOK' /\ RaceCostsOneAttempt'
  <2>1. pending' \subseteq [for : Instances, class : BOOLEAN]
    BY <1>6, <1>15 DEF DeployInv, DeployTypeOK
  <2>2. job' \in [Jobs -> JobStates]
    BY <1>1, <1>2
  <2> QED BY <1>1, <1>2, <1>3, <1>7, <2>1, <2>2 DEF DeployInv, DeployTypeOK, RaceCostsOneAttempt
<1>9. ASSUME NEW j \in Jobs  PROVE PlacesOfKind(j)' /\ PassedIsDeployed(j)'
  <2>1. CASE j = k
    BY <1>1, <1>2, <1>3, <2>1
       DEF DeployInv, PlacesOfKind, PassedIsDeployed, InStack, AtPhase, OneToken
  <2>2. CASE j # k
    BY <1>1, <1>7, <2>2 DEF DeployInv, PlacesOfKind, PassedIsDeployed, InStack, AtPhase
  <2> QED BY <2>1, <2>2
<1>10. ASSUME NEW j \in Jobs, NEW t, NEW c, Fresh(<<j, t, c>>), <<j, t, c>> # Tx(k).for
       PROVE  Fresh(<<j, t, c>>)'
  BY <1>1, <1>10, <1>15 DEF Fresh
<1>11. ASSUME NEW j \in Jobs, j \notin mishaps'  PROVE Undisturbed(j)'
  <2>1. Undisturbed(j)
    BY <1>1, <1>11 DEF DeployInv
  <2>2. CASE j = k
    <3>1. AtPhase(k)
      BY <1>1 DEF AtPhase
    <3>2. StacksAhead(k)'
      BY <1>1, <1>2, <1>3, <1>4, <1>6, <1>10, <2>1, <2>2, <3>1
         DEF Undisturbed, StacksAhead
    <3>3. PhasesAhead(k)'
      BY <1>1, <1>2, <1>3, <1>4, <1>5, <1>6, <1>10, <2>1, <2>2, <3>1
         DEF Undisturbed, PhasesAhead
    <3>4. AttemptKnows(k)'
      BY <1>1, <1>2, <1>3, <2>1, <2>2, <3>1 DEF Undisturbed, AttemptKnows, Phase, Deploying
    <3>5. SentOnce(k)'
      <4>1. Tx(k)' = Tx(k) /\ Instance(k)' = Instance(k) /\ Tx(k).for = Instance(k)
        BY <1>2, <1>3 DEF Tx, Instance, Phase
      <4>2. \A tx \in pending : tx.for # Instance(k)
        BY <1>1, <2>1, <2>2 DEF Undisturbed, SentOnce, Fresh
      <4> QED BY <1>2, <1>3, <1>15, <4>1, <4>2 DEF SentOnce
    <3> QED BY <2>2, <3>2, <3>3, <3>4, <3>5 DEF Undisturbed
  <2>3. CASE j # k
    <3>1. job'[j] = job[j]
      BY <1>7, <2>3
    <3>2. StacksAhead(j)' /\ PhasesAhead(j)'
      BY <1>6, <1>10, <2>1, <2>3, <3>1 DEF Undisturbed, StacksAhead, PhasesAhead, AtPhase
    <3>3. AttemptKnows(j)'
      BY <1>1, <2>1, <3>1 DEF Undisturbed, AttemptKnows, Phase, Deploying, AtPhase
    <3>4. SentOnce(j)'
      <4>1. Tx(j)' = Tx(j) /\ Instance(j)' = Instance(j) /\ Phase(j)' = Phase(j)
        BY <3>1 DEF Tx, Instance, Phase
      <4>2. Tx(j).for = Instance(j) /\ Tx(j).class = ~job[j].skipClass /\ Instance(j) # Tx(k).for
        BY <1>6, <2>3 DEF Tx, Instance
      <4>3. Fresh(Instance(j)) => Fresh(Instance(j))'
        BY <1>1, <1>15, <4>1, <4>2 DEF Fresh
      <4>4. SentOnce(j)
        BY <2>1 DEF Undisturbed
      <4>5. job[j].skipClass /\ Tx(j) \in pending => Tx(j) \in pending'
        BY <1>15, <4>2
      <4>6. \A tx \in pending' : tx.for = Instance(j) => tx \in pending
        BY <1>15, <4>2
      <4> QED BY <1>1, <3>1, <4>1, <4>3, <4>4, <4>5, <4>6 DEF SentOnce
    <3> QED BY <3>2, <3>3, <3>4 DEF Undisturbed
  <2> QED BY <2>2, <2>3
<1>12. SkippedIsPublished'
  <2>1. job[k].skipClass => Phase(k) \in classes
    BY <1>1 DEF DeployInv, SkippedIsPublished, Deploying
  <2>2. ASSUME NEW j \in Jobs, Deploying(j)', job'[j].skipClass  PROVE (Phase(j) \in classes)'
    <3>1. CASE j = k
      BY <1>1, <1>2, <1>3, <2>1, <2>2, <3>1 DEF Phase
    <3>2. CASE j # k
      BY <1>1, <1>7, <2>2, <3>2 DEF DeployInv, SkippedIsPublished, Deploying, Phase
    <3> QED BY <3>1, <3>2
  <2>3. \A tx \in pending' : ~tx.class => tx.for[3] \in classes'
    BY <1>1, <1>6, <1>15, <2>1 DEF DeployInv, SkippedIsPublished
  <2> QED BY <2>2, <2>3 DEF SkippedIsPublished
<1>13. DeployedIsPublished' /\ FaucetIsFunded'
  BY <1>1, <1>6, <1>15 DEF DeployInv, DeployedIsPublished, FaucetIsFunded, Executes, Deposited
<1>14. ManifestIsTrue' /\ PathIsTrue'
  BY <1>1, <1>2, <1>3, NothingWritten
<1> QED BY <1>8, <1>9, <1>11, <1>12, <1>13, <1>14 DEF DeployInv

\* A transaction leaves the pool, into a block or dropped.
LEMMA MineDeployKeeps ==
  ASSUME DeployInv, MineDeploy
  PROVE  DeployInv'
<1>1. PICK tx \in pending :
        /\ pending' = pending \ {tx}
        /\ IF Clashes(tx) THEN UNCHANGED <<classes, deployed>>
           ELSE /\ classes' = IF tx.class THEN classes \cup {tx.for[3]} ELSE classes
                /\ deployed' = deployed \cup {tx.for}
        /\ UNCHANGED <<set, job, onL1, landed, written, atPath, configured, mishaps>>
  BY DEF MineDeploy, Files
<1>2. /\ classes \subseteq classes' /\ deployed \subseteq deployed'
      /\ deployed' \subseteq deployed \cup {tx.for} /\ pending' \subseteq pending
      /\ tx.for \in deployed' \/ (tx.class /\ tx.for[3] \in classes)
  BY <1>1 DEF Clashes
<1>3. DeployTypeOK' /\ RaceCostsOneAttempt'
  <2>1. tx.for \in Instances
    BY DEF DeployInv, DeployTypeOK
  <2> QED BY <1>1, <1>2, <2>1 DEF DeployInv, DeployTypeOK, RaceCostsOneAttempt
<1>4. \A j \in Jobs : PlacesOfKind(j)' /\ PassedIsDeployed(j)'
  BY <1>1, <1>2 DEF DeployInv, PlacesOfKind, PassedIsDeployed, InStack, AtPhase
<1>5. ASSUME NEW j \in Jobs, j \notin mishaps'  PROVE Undisturbed(j)'
  <2>1. Undisturbed(j)
    BY <1>1, <1>5 DEF DeployInv
  <2>2. \A i : Fresh(i) => Fresh(i)'
    BY <1>1, <1>2 DEF Fresh
  <2>3. StacksAhead(j)' /\ PhasesAhead(j)'
    BY <1>1, <2>1, <2>2 DEF Undisturbed, StacksAhead, PhasesAhead, AtPhase
  <2>4. AttemptKnows(j)'
    BY <1>1, <1>2, <2>1 DEF Undisturbed, AttemptKnows, Phase, Deploying, AtPhase
  <2>5. job[j].at \in {"phase", "send"} => Fresh(Instance(j))'
    BY <1>1, <2>1, <2>2 DEF Undisturbed, SentOnce, Instance, Phase
  <2>6. ASSUME job[j].at = "await"
        PROVE  /\ \A other \in pending' : other.for = Instance(j) => other = Tx(j)
               /\ Tx(j) \in pending' \/ Instance(j) \in deployed'
                    \/ ~job[j].skipClass
    <3>1. \A other \in pending' : other.for = Instance(j) => other = Tx(j)
      BY <1>2, <2>1, <2>6 DEF Undisturbed, SentOnce
    <3>2. CASE tx = Tx(j)
      BY <1>2, <3>1, <3>2 DEF Tx, Instance
    <3>3. CASE tx # Tx(j)
      BY <1>1, <1>2, <2>1, <2>6, <3>1, <3>3 DEF Undisturbed, SentOnce
    <3> QED BY <3>1, <3>2, <3>3
  <2>7. SentOnce(j)'
    BY <1>1, <2>5, <2>6 DEF SentOnce, Instance, Phase, Tx
  <2> QED BY <2>3, <2>4, <2>7 DEF Undisturbed
<1>6. SkippedIsPublished'
  BY <1>1, <1>2 DEF DeployInv, SkippedIsPublished, Deploying, Phase
<1>7. DeployedIsPublished'
  BY <1>1 DEF DeployInv, DeployedIsPublished, SkippedIsPublished
<1>8. FaucetIsFunded'
  BY <1>1, <1>2 DEF DeployInv, FaucetIsFunded
<1>9. ManifestIsTrue' /\ PathIsTrue'
  BY <1>1, <1>2 DEF DeployInv, ManifestIsTrue, PathIsTrue, IsDeployedFpc
<1> QED BY <1>3, <1>4, <1>5, <1>6, <1>7, <1>8, <1>9 DEF DeployInv

LEMMA ManifestKeeps ==
  ASSUME DeployInv, NEW k \in Jobs, WriteManifest(k)
  PROVE  DeployInv'
<1>1. /\ job \in [Jobs -> JobStates] /\ job[k] \in JobStates /\ job[k].at = "manifest"
      /\ job[k].kind \in Kinds /\ UNCHANGED <<classes, deployed, landed, pending>>
  BY DEF DeployInv, DeployTypeOK, WriteManifest, Chain, JobStates
<1>2. CASE Fails(k) /\ UNCHANGED <<written, atPath>>
  BY <1>1, <1>2, JobFails DEF WriteManifest
<1>3. CASE /\ ~(job[k].kind = "fpc" /\ ~set.handler)
           /\ written' = written \cup {<<"manifest", k, job[k].token>>}
           /\ IF job[k].kind = "tokens" THEN NextToken(k, "tokens")
              ELSE job' = [job EXCEPT ![k].at = IF set.skipVerify THEN "configure" ELSE "verify",
                                      ![k].attempt = 1]
           /\ atPath' = IF job[k].kind = "fpc" /\ ~set.pathOfArgs THEN k ELSE atPath
           /\ UNCHANGED <<mishaps, configured>>
  <2>1. \A c \in Contracts(job[k].kind) : <<k, job[k].token, c>> \in deployed
    <3>1. \A c \in Contracts(job[k].kind) :
            \E q \in DOMAIN Phases(job[k].kind) : Phases(job[k].kind)[q] = c
      BY <1>1, StackFacts
    <3> QED BY <1>1, <3>1 DEF DeployInv, PassedIsDeployed
  <2>2. ASSUME NEW r, job' = [job EXCEPT ![k] = r], r.kind = job[k].kind
        PROVE  ManifestIsTrue' /\ PathIsTrue'
    <3>1. \A j \in Jobs : job'[j].kind = job[j].kind
      BY <1>1, <2>2
    <3>2. ManifestIsTrue'
      BY <1>1, <1>3, <2>1, <3>1 DEF DeployInv, ManifestIsTrue
    <3>3. PathIsTrue'
      <4>1. job[k].kind = "fpc" => IsDeployedFpc(k)
        BY <2>1 DEF DeployInv, PlacesOfKind, OneToken, Contracts, IsDeployedFpc
      <4>2. \A m : IsDeployedFpc(m) => IsDeployedFpc(m)'
        BY <1>1 DEF IsDeployedFpc
      <4> QED BY <1>3, <4>1, <4>2 DEF DeployInv, PathIsTrue
    <3> QED BY <3>2, <3>3
  <2>3. CASE job[k].kind = "tokens"
    <3>1. [job[k] EXCEPT !.at = "tokens", !.token = job[k].token + 1].kind = job[k].kind
      BY <1>1 DEF JobStates
    <3>2. ManifestIsTrue' /\ PathIsTrue'
      BY <1>3, <2>2, <2>3, <3>1 DEF NextToken
    <3> QED BY <1>1, <1>3, <2>3, <3>2, JobGoesOn
  <2>4. CASE job[k].kind = "fpc"
    <3> DEFINE at == [job[k] EXCEPT !.at = IF set.skipVerify THEN "configure" ELSE "verify"]
               new == [at EXCEPT !.attempt = 1]
    <3>1. at \in JobStates /\ at.at \in {"configure", "verify"}
      BY <1>1 DEF JobStates, JobPlaces
    <3>2. new \in JobStates
      <4> HIDE DEF at
      <4> QED BY <3>1 DEF JobStates
    <3>3. /\ new.kind = job[k].kind /\ new.phase = job[k].phase /\ new.at \in {"configure", "verify"}
          /\ new.token = job[k].token
      BY <1>1, <3>1 DEF JobStates
    <3>4. job' = [job EXCEPT ![k] = new]
      BY <1>1, <1>3, <2>4 DEF JobStates
    <3> HIDE DEF new
    <3>5. ManifestIsTrue' /\ PathIsTrue'
      BY <2>2, <3>3, <3>4
    <3> QED BY <1>1, <1>3, <2>4, <3>2, <3>3, <3>4, <3>5, JobRests
           DEF Rests, OneToken, DeployInv, PlacesOfKind
  <2> QED BY <1>1, <2>3, <2>4 DEF Kinds
<1> QED BY <1>2, <1>3 DEF WriteManifest

LEMMA VerifyKeeps ==
  ASSUME DeployInv, NEW k \in Jobs, Verify(k)
  PROVE  DeployInv'
<1>1. /\ job \in [Jobs -> JobStates] /\ job[k] \in JobStates /\ job[k].at = "verify"
      /\ job[k].kind = "fpc" /\ UNCHANGED <<classes, deployed, landed, pending, written, atPath, configured>>
  BY DEF DeployInv, DeployTypeOK, Verify, Chain, PlacesOfKind, Files
<1>2. ASSUME NEW place \in {"configure", "failed"}, JobTo(k, place), mishaps \subseteq mishaps',
             place = "failed" => k \in mishaps'
      PROVE  DeployInv'
  <2>1. [job[k] EXCEPT !.at = place].kind = job[k].kind
    BY <1>1 DEF JobStates
  <2>2. job' = [job EXCEPT ![k] = [job[k] EXCEPT !.at = place]]
    BY <1>1, <1>2 DEF JobTo
  <2>3. ManifestIsTrue' /\ PathIsTrue'
    BY <1>1, <2>1, <2>2, NothingWritten
  <2> QED BY <1>1, <1>2, <2>3, JobEnds DEF JobPlaces
<1>3. ASSUME job' = [job EXCEPT ![k].attempt = job[k].attempt + 1], mishaps \subseteq mishaps'
      PROVE  DeployInv'
  <2> DEFINE r == [job[k] EXCEPT !.attempt = job[k].attempt + 1]
  <2>1. job[k].attempt \in Nat
    BY <1>1 DEF JobStates
  <2>2. r \in JobStates
    BY <1>1, <2>1 DEF JobStates
  <2>3. r.kind = job[k].kind /\ r.phase = job[k].phase /\ r.at = "verify" /\ r.token = job[k].token
    BY <1>1 DEF JobStates
  <2>4. job' = [job EXCEPT ![k] = r]
    BY <1>1, <1>3
  <2> HIDE DEF r
  <2>5. ManifestIsTrue' /\ PathIsTrue'
    BY <1>1, <2>3, <2>4, NothingWritten
  <2>6. OneToken(job[k])
    BY DEF DeployInv, PlacesOfKind
  <2>7. OneToken(r) /\ Rests(r) /\ r.at # "failed"
    BY <1>1, <2>3, <2>6 DEF OneToken, Rests
  <2> QED BY <1>1, <1>3, <2>2, <2>3, <2>4, <2>5, <2>7, JobRests
<1>4. CASE Fails(k)
  BY <1>1, <1>4, JobFails
<1> QED BY <1>2, <1>3, <1>4 DEF Verify

LEMMA ConfigureKeeps ==
  ASSUME DeployInv, NEW k \in Jobs, Configure(k)
  PROVE  DeployInv'
<1>1. /\ job \in [Jobs -> JobStates] /\ job[k] \in JobStates /\ job[k].kind = "fpc"
      /\ UNCHANGED <<classes, deployed, landed, pending, written, atPath>>
  BY DEF DeployInv, DeployTypeOK, Configure, Chain, PlacesOfKind
<1>2. CASE Fails(k) /\ UNCHANGED configured
  BY <1>1, <1>2, JobFails
<1>3. CASE /\ JobTo(k, "done") /\ UNCHANGED mishaps
           /\ \/ atPath # "none" /\ configured' = configured \cup {<<k, atPath>>}
              \/ UNCHANGED configured
  <2>1. \A j \in Jobs : job'[j].kind = job[j].kind
    BY <1>1, <1>3 DEF JobTo, JobStates
  <2>2. ManifestIsTrue'
    BY <1>1, <2>1 DEF DeployInv, ManifestIsTrue
  <2>3. PathIsTrue'
    BY <1>1, <1>3 DEF DeployInv, PathIsTrue, IsDeployedFpc
  <2> QED BY <1>1, <1>3, <2>2, <2>3, JobEnds DEF JobPlaces
<1> QED BY <1>2, <1>3 DEF Configure

LEMMA RegisterKeeps ==
  ASSUME DeployInv, NEW k \in Jobs, Register(k)
  PROVE  DeployInv'
<1>1. /\ job \in [Jobs -> JobStates] /\ job[k] \in JobStates /\ job[k].at = "register"
      /\ UNCHANGED <<classes, deployed, landed, pending, atPath, configured>>
  BY DEF DeployInv, DeployTypeOK, Register, Chain
<1>2. ASSUME \A j \in Jobs : job'[j].kind = job[j].kind,
             \E t : written' = written \cup {<<"policy", k, t>>}
      PROVE  ManifestIsTrue' /\ PathIsTrue'
  BY <1>1, <1>2 DEF DeployInv, ManifestIsTrue, PathIsTrue, IsDeployedFpc
<1>3. CASE JobTo(k, "done") /\ UNCHANGED <<written, mishaps>>
  <2>1. [job[k] EXCEPT !.at = "done"].kind = job[k].kind
    BY <1>1 DEF JobStates
  <2>2. job' = [job EXCEPT ![k] = [job[k] EXCEPT !.at = "done"]]
    BY <1>1, <1>3 DEF JobTo
  <2>3. ManifestIsTrue' /\ PathIsTrue'
    BY <1>1, <1>3, <2>1, <2>2, NothingWritten
  <2> QED BY <1>1, <1>3, <2>3, JobEnds DEF JobPlaces
<1>4. CASE NextToken(k, "register") /\ written' = written \cup {<<"policy", k, job[k].token>>}
           /\ UNCHANGED mishaps
  <2>1. \A j \in Jobs : job'[j].kind = job[j].kind
    BY <1>1, <1>4 DEF NextToken, JobStates
  <2>2. ManifestIsTrue' /\ PathIsTrue'
    BY <1>2, <1>4, <2>1
  <2> QED BY <1>1, <1>4, <2>2, JobGoesOn
<1>5. CASE Fails(k) /\ UNCHANGED written
  BY <1>1, <1>5, JobFails
<1> QED BY <1>3, <1>4, <1>5 DEF Register

LEMMA DeployStep == DeployInv /\ [DeployNext]_deployVars => DeployInv'
<1> SUFFICES ASSUME DeployInv, [DeployNext]_deployVars  PROVE DeployInv'
  OBVIOUS
<1>1. CASE MineDeploy
  BY <1>1, MineDeployKeeps
<1>2. ASSUME NEW k \in Jobs,
             \/ PreflightJob(k) \/ ResolveToken(k) \/ L1Phase(k) \/ WaitForDeposit(k)
             \/ DepositLands(k) \/ ReadClass(k) \/ SendDeploy(k) \/ LosesRace(k)
             \/ Misreported(k) \/ DeployFails(k) \/ Deploys(k) \/ WriteManifest(k)
             \/ Verify(k) \/ Configure(k) \/ Register(k)
      PROVE  DeployInv'
  BY <1>2, PreflightKeeps, ResolveKeeps, L1PhaseKeeps, LandsKeeps, ReadKeeps, SendKeeps,
     RetriesKeep, DeploysKeeps, ManifestKeeps, VerifyKeeps, ConfigureKeeps, RegisterKeeps
<1>3. CASE UNCHANGED deployVars
  BY <1>3 DEF deployVars, DeployInv, OneToken, IsDeployedFpc, DeployTypeOK, RaceCostsOneAttempt, PlacesOfKind,
     PassedIsDeployed, InStack, AtPhase, Undisturbed, StacksAhead, PhasesAhead, AttemptKnows,
     SentOnce, Deploying, Fresh, Instance, Phase, Tx, SkippedIsPublished, DeployedIsPublished,
     FaucetIsFunded, ManifestIsTrue, PathIsTrue
<1> QED BY <1>1, <1>2, <1>3 DEF DeployNext

LEMMA DeployInvariant == DeploySpec => []DeployInv
<1> QED BY DeployStarts, DeployStep, PTL DEF DeploySpec

\* Whatever the order in which any number of jobs read, send and lose, and the blocks take
\* their transactions, one that fails has met something beside the race, or was refused or
\* misled while the race was not decided, at all attempts but one (deployContract).
THEOREM DecidedRacesCostOne == DeploySpec => []RaceCostsOneAttempt
<1>1. DeployInv => RaceCostsOneAttempt
  BY DEF DeployInv
<1> QED BY <1>1, DeployInvariant, PTL

\* What a manifest names is deployed, with its class, and a faucet is deployed with its
\* funds, whatever happened to the job (index.ts, test-token.ts); what a configuration
\* names was deployed by a job, or comes from the manifest of an earlier run.
THEOREM ManifestsAreTrue == DeploySpec => []ManifestsNameContracts
<1>1. DeployInv => ManifestsNameContracts
  <2> SUFFICES ASSUME DeployInv  PROVE ManifestsNameContracts
    OBVIOUS
  <2>1. ASSUME NEW j \in Jobs, NEW t \in 1..MaxTokens
        PROVE  /\ <<"manifest", j, t>> \in written =>
                    \A c \in Contracts(job[j].kind) : <<j, t, c>> \in deployed /\ c \in classes
               /\ <<j, t, "faucet">> \in deployed => <<j, t>> \in landed
    <3>1. <<"manifest", j, t>> \in written =>
             \A c \in Contracts(job[j].kind) : <<j, t, c>> \in deployed
      <4>1. t \in Nat
        BY DeploymentAssumption
      <4> QED BY <4>1 DEF DeployInv, ManifestIsTrue
    <3> QED BY <3>1 DEF DeployInv, DeployedIsPublished, FaucetIsFunded
  <2>2. \A c \in configured : c[2] # "earlier" => c[2] \in Jobs /\ <<c[2], 1, "fpc">> \in deployed
    BY DEF DeployInv, PathIsTrue, IsDeployedFpc
  <2> QED BY <2>1, <2>2 DEF ManifestsNameContracts
<1> QED BY <1>1, DeployInvariant, PTL
=============================================================================
