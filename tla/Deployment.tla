------------------------------ MODULE Deployment ------------------------------
(***************************************************************************)
(* Deployment jobs that run at the same time: deploy-fpc.sh, which deploys *)
(* the FPC (contract-deployment/src/index.ts), verifies it (verify.ts) and *)
(* generates the configuration of the services, and configure-token.ts,    *)
(* which deploys the stack of every token without an address (test-        *)
(* token.ts) and registers all tokens at the attestation service.          *)
(*                                                                         *)
(* A contract is an instance of a class, whose publication leaves a        *)
(* nullifier: jobs that deploy from the same artifact race for it, and     *)
(* deployContract (deploy-utils.ts) is there to survive that.  The         *)
(* instance leaves one too; its address is fixed before the first attempt. *)
(*                                                                         *)
(* The pool of a node takes no two transactions with a nullifier in        *)
(* common: it refuses the second or evicts the first.  A node may show a   *)
(* class later than the chain has it.                                      *)
(*                                                                         *)
(* deploy-fpc.sh looks for the manifest at one path, which all jobs with   *)
(* its environment share, and the runs before them.                        *)
(*                                                                         *)
(* External: the chains, the pool and the node.  What they may do to a job *)
(* beside the race is a mishap and is recorded as one.  Bound: a job that  *)
(* does not fail of its first mishap fails of its second.                  *)
(***************************************************************************)
EXTENDS Naturals, Sequences

CONSTANTS
  Jobs,           \* deployment jobs
  MaxTokens,      \* bound: tokens in the configuration of a job
  MaxVerify       \* bound: maxAttempts of verifyDeployment (20)

ASSUME DeploymentAssumption ==
  {MaxTokens, MaxVerify} \subseteq Nat \ {0} /\ {"none", "earlier"} \cap Jobs = {}

MAX_RETRIES == 3

Stack == <<"erc20", "portal", "initialize", "mint", "deposit",
           "bridge", "token", "counter", "ready", "faucet">>
Phases(kind) == IF kind = "fpc" THEN <<"fpc">> ELSE Stack
L1Phases == {"erc20", "portal", "initialize", "mint", "deposit"}
Contracts(kind) == IF kind = "fpc" THEN {"fpc"} ELSE {"bridge", "token", "counter", "faucet"}

VARIABLES
  set,         \* the environment and the arguments all jobs are run with
  job,         \* job[j]: its kind, where it is, token, phase, attempt, what it read
  classes,     \* contract classes that are published
  deployed,    \* instances <<job, token, contract>> that are deployed and initialised
  onL1,        \* phases <<job, token, phase>> that took effect on L1
  landed,      \* deposits <<job, token>> whose message is on L2
  pending,     \* deployment transactions in the pool
  written,     \* manifests and registrations <<kind, job, token>>
  atPath,      \* whose manifest is where deploy-fpc.sh looks: a job's, "earlier" or "none"
  configured,  \* configurations: <<the job that generated it, whose manifest it is from>>
  mishaps      \* history: jobs that something happened to beside the race

deployVars ==
  <<set, job, classes, deployed, onL1, landed, pending, written, atPath, configured, mishaps>>

\* pathOfArgs: --out or --data-dir; index.ts follows them, deploy-fpc.sh does not.
Settings == [deployerKey : {"inline", "ref"}, operatorKey : {"inline", "ref"},
             operatorMatches : BOOLEAN, preflightOnly : BOOLEAN, skipVerify : BOOLEAN,
             handler : BOOLEAN, register : BOOLEAN, pathOfArgs : BOOLEAN, skipConfig : BOOLEAN]

FreshJob(kind) ==
  [kind |-> kind, at |-> IF kind = "fpc" THEN "preflight" ELSE "tokens", token |-> 1,
   phase |-> 1, attempt |-> 0, skipClass |-> FALSE,
   unlucky |-> 0]      \* history: attempts at the contract that the race alone does not explain

DeployInit ==
  /\ set \in Settings
  /\ \E kind \in [Jobs -> {"fpc", "tokens"}] : job = [j \in Jobs |-> FreshJob(kind[j])]
  /\ classes = {} /\ deployed = {} /\ onL1 = {} /\ landed = {}
  /\ pending = {} /\ written = {} /\ mishaps = {}
  /\ atPath \in {"none", "earlier"} /\ configured = {}

-----------------------------------------------------------------------------

Phase(j) == Phases(job[j].kind)[job[j].phase]
Instance(j) == <<j, job[j].token, Phase(j)>>
Deposited(j) == <<j, job[j].token>>

JobTo(j, place) == job' = [job EXCEPT ![j].at = place]
Chain == <<classes, deployed, onL1, landed, pending>>
Files == <<set, written, atPath, configured>>
Fails(j) == JobTo(j, "failed") /\ mishaps' = mishaps \cup {j}
Mishap(j) == j \notin mishaps /\ mishaps' = mishaps \cup {j}

\* The next phase of the stack, or what follows the last one.
AfterPhase(j) ==
  IF job[j].phase < Len(Phases(job[j].kind))
  THEN [job[j] EXCEPT !.at = "phase", !.phase = job[j].phase + 1, !.attempt = 0, !.unlucky = 0]
  ELSE [job[j] EXCEPT !.at = "manifest"]

At(j, phases) == job[j].at = "phase" /\ Phase(j) \in phases

\* main of index.ts up to the deployment.  --preflight-only with a reference to the
\* operator's key ends before the operator is compared.
PreflightJob(j) ==
  /\ job[j].at = "preflight"
  /\ \/ JobTo(j, IF set.deployerKey = "ref" THEN "failed"
                 ELSE IF set.operatorKey = "ref"
                      THEN IF set.preflightOnly THEN "configure" ELSE "failed"
                 ELSE IF ~set.operatorMatches THEN "failed"
                 ELSE IF set.preflightOnly THEN "configure" ELSE "phase")
        /\ mishaps' = mishaps \cup (IF job'[j].at = "failed" THEN {j} ELSE {})
     \/ Fails(j)                                              \* no node
  /\ UNCHANGED Files /\ UNCHANGED Chain

\* The job goes on to its next token, at this place.
NextToken(j, place) ==
  job' = [job EXCEPT ![j] = [job[j] EXCEPT !.at = place, !.token = job[j].token + 1]]

\* main of configure-token.ts, phase 1: a token with an address is taken as it is.
ResolveToken(j) ==
  /\ job[j].at = "tokens"
  /\ \/ job' = [job EXCEPT ![j] =
          IF job[j].token > MaxTokens THEN [job[j] EXCEPT !.at = "register", !.token = 1]
          ELSE [job[j] EXCEPT !.at = "phase", !.phase = 1, !.attempt = 0, !.unlucky = 0]]
        /\ UNCHANGED mishaps
     \/ /\ job[j].token <= MaxTokens
        /\ NextToken(j, "tokens")                             \* it has an address
        /\ UNCHANGED mishaps
     \/ Fails(j)                                              \* no L1 key, no node
  /\ UNCHANGED Files /\ UNCHANGED Chain

\* A phase on L1.  The receipts of "initialize" and of "mint" are not looked at, so
\* that a transaction which reverts goes unnoticed until the deposit fails.
L1Phase(j) ==
  /\ At(j, L1Phases)
  /\ \/ /\ Phase(j) = "deposit" =>
             {<<j, job[j].token, p>> : p \in {"initialize", "mint"}} \subseteq onL1
        /\ onL1' = onL1 \cup {Instance(j)}
        /\ job' = [job EXCEPT ![j] = AfterPhase(j)] /\ UNCHANGED mishaps
     \/ /\ Phase(j) \in {"initialize", "mint"}
        /\ job' = [job EXCEPT ![j] = AfterPhase(j)]
        /\ Mishap(j) /\ UNCHANGED onL1
     \/ Fails(j) /\ UNCHANGED onL1
  /\ UNCHANGED Files /\ UNCHANGED <<classes, deployed, landed, pending>>

\* waitForL1ToL2MessageReady: whether it came in time is not looked at.
WaitForDeposit(j) ==
  /\ At(j, {"ready"})
  /\ job' = [job EXCEPT ![j] = AfterPhase(j)]
  /\ IF Deposited(j) \in landed THEN UNCHANGED mishaps ELSE Mishap(j)
  /\ UNCHANGED Files /\ UNCHANGED Chain

DepositLands(j) ==
  /\ \E t \in 1..MaxTokens :
       <<j, t, "deposit">> \in onL1 /\ <<j, t>> \notin landed /\ landed' = landed \cup {<<j, t>>}
  /\ UNCHANGED Files /\ UNCHANGED <<job, classes, deployed, onL1, pending, mishaps>>

-----------------------------------------------------------------------------

\* deployContract.  Each attempt asks whether the class is published by now; the answer
\* may lag.
FirstAnswer(j) == \* mutant: the answer of the first attempt is kept
  IF job[j].attempt = 0 THEN Phase(j) \in classes ELSE job[j].skipClass
ClassPublished(j) == Phase(j) \in classes

ReadClass(j) ==
  /\ At(j, Contracts(job[j].kind))
  /\ \E lags \in {FALSE, Phase(j) \in classes} :
       job' = [job EXCEPT ![j] =
         [job[j] EXCEPT !.at = "send", !.skipClass = ClassPublished(j) /\ ~lags,
                        !.unlucky = job[j].unlucky + (IF lags THEN 1 ELSE 0)]]
  /\ UNCHANGED Files /\ UNCHANGED mishaps /\ UNCHANGED Chain

\* A race, as the error tells, and an error of the world state are retried.
Retry(j, unlucky) ==
  job' = [job EXCEPT ![j] =
    IF job[j].attempt < MAX_RETRIES
    THEN [job[j] EXCEPT !.at = "phase", !.attempt = job[j].attempt + 1, !.unlucky = unlucky]
    ELSE [job[j] EXCEPT !.at = "failed", !.unlucky = unlucky]]

Tx(j) == [for |-> Instance(j), class |-> ~job[j].skipClass]
Clashes(tx) == tx.for \in deployed \/ (tx.class /\ tx.for[3] \in classes)
Rivals(tx) ==
  {other \in pending \ {tx} :
     other.for = tx.for \/ (other.class /\ tx.class /\ other.for[3] = tx.for[3])}

\* The batches: the bridge is configured with its deployment; the faucet is funded
\* with its own, by the claim of the deposit through the bridge.
Executes(j) == Phase(j) = "faucet" => Deposited(j) \in landed

\* A class that was published in the meantime may be noticed only by the block.
SendDeploy(j) ==
  /\ job[j].at = "send" /\ Instance(j) \notin deployed /\ Executes(j)
  /\ \E evicted \in {{}, Rivals(Tx(j))} : pending' = (pending \ evicted) \cup {Tx(j)}
  /\ JobTo(j, "await")
  /\ UNCHANGED Files /\ UNCHANGED <<classes, deployed, onL1, landed, mishaps>>

\* "Existing nullifier" when it is simulated, "Nullifier conflict" with another one in the
\* pool, "dropped by P2P node" when it is waited for.  A class that is published decides
\* the race; until then the job has only been unlucky.
LosesRace(j) ==
  /\ \/ job[j].at = "send" /\ (Clashes(Tx(j)) \/ Rivals(Tx(j)) # {})
     \/ job[j].at = "await" /\ Tx(j) \notin pending /\ Instance(j) \notin deployed
  /\ Retry(j, job[j].unlucky + (IF Phase(j) \in classes THEN 0 ELSE 1))
  /\ UNCHANGED Files /\ UNCHANGED mishaps /\ UNCHANGED Chain

\* The node calls a transaction dropped that is not, or misses a block it should know.
Misreported(j) ==
  /\ job[j].at \in {"send", "await"}
  /\ Retry(j, job[j].unlucky) /\ Mishap(j)
  /\ UNCHANGED Files /\ UNCHANGED Chain

\* Any other error is thrown on: the claim of the faucet that finds no message, a
\* payment that fails, a time that is over.
DeployFails(j) ==
  /\ job[j].at \in {"send", "await"}
  /\ Fails(j)
  /\ UNCHANGED Files /\ UNCHANGED Chain

SentIsDeployed(j) == Tx(j) \in pending \cup {Tx(j)} \* mutant: the receipt is not waited for
IsDeployed(j) == Instance(j) \in deployed
Deploys(j) ==
  /\ job[j].at = "await" /\ IsDeployed(j)
  /\ job' = [job EXCEPT ![j] = AfterPhase(j)]
  /\ UNCHANGED Files /\ UNCHANGED mishaps /\ UNCHANGED Chain

\* A block takes a transaction, or drops it when a nullifier of it exists.
MineDeploy ==
  \E tx \in pending :
    /\ pending' = pending \ {tx}
    /\ IF Clashes(tx) THEN UNCHANGED <<classes, deployed>>
       ELSE /\ classes' = IF tx.class THEN classes \cup {tx.for[3]} ELSE classes
            /\ deployed' = deployed \cup {tx.for}
    /\ UNCHANGED Files /\ UNCHANGED <<job, onL1, landed, mishaps>>

-----------------------------------------------------------------------------

\* The manifest is written when all is deployed.  index.ts asks for the handler of the
\* fee asset only then: without one the FPC is deployed and no manifest says where.
WriteManifest(j) ==
  /\ job[j].at = "manifest"
  /\ IF job[j].kind = "fpc" /\ ~set.handler THEN Fails(j) /\ UNCHANGED <<written, atPath>>
     ELSE /\ written' = written \cup {<<"manifest", j, job[j].token>>}
          /\ IF job[j].kind = "tokens" THEN NextToken(j, "tokens")
             ELSE job' = [job EXCEPT ![j].at = IF set.skipVerify THEN "configure" ELSE "verify",
                                     ![j].attempt = 1]
          /\ atPath' = IF job[j].kind = "fpc" /\ ~set.pathOfArgs THEN j ELSE atPath
          /\ UNCHANGED mishaps
  /\ UNCHANGED <<set, configured>> /\ UNCHANGED Chain

\* verifyDeployment: what the node does not show yet is asked for again;
\* immutables that differ, and an error that is no matter of time, end it.
Verify(j) ==
  /\ job[j].at = "verify"
  /\ \/ <<j, 1, "fpc">> \in deployed /\ "fpc" \in classes
        /\ JobTo(j, "configure") /\ UNCHANGED mishaps
     \/ /\ IF job[j].attempt < MaxVerify
           THEN job' = [job EXCEPT ![j].attempt = job[j].attempt + 1]
           ELSE JobTo(j, "failed")
        /\ mishaps' = mishaps \cup {j}
     \/ Fails(j)
  /\ UNCHANGED Files /\ UNCHANGED Chain

\* deploy-fpc.sh, after index.js that succeeded (set -e): from the manifest that is at the
\* path, whoever wrote it.
Configure(j) ==
  /\ job[j].at = "configure"
  /\ \/ /\ ~set.skipConfig /\ atPath # "none"
        /\ configured' = configured \cup {<<j, atPath>>}
        /\ JobTo(j, "done") /\ UNCHANGED mishaps
     \/ /\ set.skipConfig \/ atPath = "none"
        /\ JobTo(j, "done") /\ UNCHANGED <<configured, mishaps>>
     \/ /\ ~set.skipConfig /\ atPath # "none"              \* generate-service-configs.sh fails
        /\ Fails(j) /\ UNCHANGED configured
  /\ UNCHANGED <<set, written, atPath>> /\ UNCHANGED Chain

\* configure-token.ts, phase 2: the service is healthy in time, and takes one policy
\* after the other.  A refusal leaves the ones before it.
Register(j) ==
  /\ job[j].at = "register"
  /\ \/ /\ ~set.register \/ job[j].token > MaxTokens
        /\ JobTo(j, "done") /\ UNCHANGED <<written, mishaps>>
     \/ /\ set.register /\ job[j].token <= MaxTokens
        /\ NextToken(j, "register")
        /\ written' = written \cup {<<"policy", j, job[j].token>>}
        /\ UNCHANGED mishaps
     \/ set.register /\ Fails(j) /\ UNCHANGED written
  /\ UNCHANGED <<set, atPath, configured>> /\ UNCHANGED Chain

DeployNext ==
  \/ MineDeploy
  \/ \E j \in Jobs :
       \/ PreflightJob(j) \/ ResolveToken(j) \/ L1Phase(j) \/ WaitForDeposit(j)
       \/ DepositLands(j) \/ ReadClass(j) \/ SendDeploy(j) \/ LosesRace(j)
       \/ Misreported(j) \/ DeployFails(j) \/ Deploys(j) \/ WriteManifest(j)
       \/ Verify(j) \/ Configure(j) \/ Register(j)

DeploySpec == DeployInit /\ [][DeployNext]_deployVars

-----------------------------------------------------------------------------

\* A race that is decided costs a job one attempt.  One that fails has met something
\* else, or was unlucky MAX_RETRIES times: refused or evicted for a transaction that was
\* not mined yet, or told that a published class is not (deploy-utils.ts:44, the retries
\* that ask for the class again).
RaceCostsOneAttempt ==
  \A j \in Jobs : job[j].at = "failed" => j \in mishaps \/ job[j].unlucky >= MAX_RETRIES

\* What later programs read is true: a manifest that exists names contracts that are
\* deployed with their classes; the funds of a faucet come with its deployment, once its
\* deposit has landed; and a configuration, whoever generated it from whatever was at the
\* path, names a contract that a job deployed or that of an earlier run.
ManifestsNameContracts ==
  /\ \A j \in Jobs, t \in 1..MaxTokens :
       /\ <<"manifest", j, t>> \in written =>
            \A c \in Contracts(job[j].kind) : <<j, t, c>> \in deployed /\ c \in classes
       /\ <<j, t, "faucet">> \in deployed => <<j, t>> \in landed
  /\ \A c \in configured : c[2] # "earlier" => c[2] \in Jobs /\ <<c[2], 1, "fpc">> \in deployed

\* deploy-fpc.sh:31, "Generate service configs if manifest was written (skipped for
\* preflight-only)": what it looks at is whether a file is there.
ConfiguredIfWritten == \A c \in configured : <<"manifest", c[1], 1>> \in written
=============================================================================
