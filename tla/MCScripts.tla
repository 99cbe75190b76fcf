------------------------------- MODULE MCScripts -------------------------------
(***************************************************************************)
(* The operator's programs around the services, for TLC.  The four groups  *)
(* share no state, so that a behaviour runs one of them, the others being  *)
(* held at one initial state: the sum of their states, not the product.    *)
(***************************************************************************)
EXTENDS OperatorL1, ClaimerAccount, ClaimerFunding, Deployment, TLC

VARIABLE group   \* the group that runs

vars == <<group, l1Vars, claimerVars, fundingVars, deployVars>>

\* The settings of a deployment, and those of a bootstrap, that leave nothing out.
UsualSet == [deployerKey |-> "inline", operatorKey |-> "inline", operatorMatches |-> TRUE,
             preflightOnly |-> FALSE, skipVerify |-> FALSE, handler |-> TRUE, register |-> TRUE,
             pathOfArgs |-> FALSE, skipConfig |-> FALSE]
UsualOpts == [claimerKey |-> TRUE, operatorKey |-> FALSE, useOperator |-> "0",
              testIndex |-> 0, sponsor |-> "unset", sponsorServes |-> TRUE, mode |-> "auto", bootstrap |-> TRUE,
              require |-> TRUE, production |-> TRUE, known |-> "claimer", prior |-> "new"]
UsualArgs == [key |-> TRUE, address |-> FALSE, otherPayer |-> FALSE,
              skipClaim |-> FALSE, sponsored |-> TRUE]

\* Settings that make no difference are given one value.
TellingOpts ==
  /\ opts.prior = "new" => opts.known = "claimer"
  /\ ~opts.bootstrap => opts.mode = "auto" /\ opts.prior # "private"
  /\ opts.claimerKey => opts.testIndex = 0 /\ opts.known \in {"claimer", "operator"}
  /\ ~opts.require => opts.production
  /\ ~opts.sponsorServes => opts.sponsor = "missing"

\* Jobs of one kind, as the others share no class.
AllOf(kind) == {[j \in Jobs |-> FreshJob(kind)]}
StartsWith(set0, path, jobs) ==
  /\ set = set0 /\ job \in jobs /\ atPath \in path /\ configured = {}
  /\ classes = {} /\ deployed = {} /\ onL1 = {} /\ landed = {}
  /\ pending = {} /\ written = {} /\ mishaps = {}

L1Off == mints = "none" /\ juice = 0 /\ L1Init
ClaimerOff == opts = UsualOpts /\ ClaimerInit
FundingOff == args = UsualArgs /\ balance = [p \in Payers |-> 0] /\ FundingInit
DeployOff == StartsWith(UsualSet, {"none"}, AllOf("fpc"))

\* Jobs that deploy tokens; and jobs that deploy the FPC, with every setting of
\* deploy-fpc.sh.
JobsInit ==
  /\ group = "deployment" /\ L1Off /\ ClaimerOff /\ FundingOff
  /\ \/ StartsWith(UsualSet, {"none"}, AllOf("tokens"))
     \/ \E s \in Settings : ~s.register /\ StartsWith(s, {"none", "earlier"}, AllOf("fpc"))

Init ==
  \/ group = "l1" /\ L1Init /\ ClaimerOff /\ FundingOff /\ DeployOff
  \/ group = "account" /\ ClaimerInit /\ TellingOpts /\ L1Off /\ FundingOff /\ DeployOff
  \/ group = "funding" /\ FundingInit /\ L1Off /\ ClaimerOff /\ DeployOff
  \/ JobsInit

Next ==
  /\ UNCHANGED group
  /\ \/ group = "l1" /\ L1Next /\ UNCHANGED <<claimerVars, fundingVars, deployVars>>
     \/ group = "account" /\ ClaimerNext /\ UNCHANGED <<l1Vars, fundingVars, deployVars>>
     \/ group = "funding" /\ FundingNext /\ UNCHANGED <<l1Vars, claimerVars, deployVars>>
     \/ group = "deployment" /\ DeployNext /\ UNCHANGED <<l1Vars, claimerVars, fundingVars>>

Spec == Init /\ [][Next]_vars

Symmetry == Permutations(Jobs)
=============================================================================
