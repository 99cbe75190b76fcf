# Verification of aztec-fpc

TLA+ models of aztec-fpc, the configurations that check them with TLC, and theorems
about them that TLAPS checks. They cover the **payment path** (attestation service, FPC contract
and the network between them), the **top-up service** that keeps the FPC in Fee Juice, the
**way of the token** (bridge, faucet, the SDK's cold starts), the **process of the
attestation service** (settings, credentials, the operator's wallet) and the **operator's
programs** around them (L1 funding, the claimer's account, deployment).
Paths below are relative to the repository; line numbers are those of the commit the
models were written from (`PROJECT.json` maps every definition to its lines).

    tlc -workers 2 -config MCFpc_payments.cfg MCFpc      # one run
    tlapm FpcProofs.tla                                  # one module's proofs


## 1. The system

A user of Aztec who has no Fee Juice pays transaction fees in a token the operator of
a *fee payment contract* (FPC) accepts. The FPC is the fee payer; the user pays the
operator in the token, at a price that the operator's attestation service quotes and
signs. A user with no tokens on L2 at all, only a deposit on its way from L1, claims
the deposit and pays out of it in the same transaction (*cold start*). The FPC's own
Fee Juice comes from L1; the top-up service bridges more when the balance is low.

    wallet / SDK --- GET /quote ----> attestation service --- LMDB (asset policies)
        |                                  | signs with the operator's key
        | proves fee_entrypoint or         v
        | cold_start_entrypoint  ----> FPC contract ---> Token, TokenBridge
        v                                  | pays the fee in Fee Juice
    network (blocks, nullifiers, gas) <----'
        ^ Fee Juice
        |--- claim --- top-up service --- LMDB (the deposit under way), lock file
                           '--- bridges on L1 (Fee Juice portal)

### Components

| Component | Source | State | Operations |
|---|---|---|---|
| FPC contract | `contracts/fpc/src/main.nr` | config (operator, its key), nullifiers of quotes | `fee_entrypoint`, `cold_start_entrypoint`, the quote assertions, `pay_fee` |
| Attestation service | `services/attestation/src/server.ts`, `signer.ts`, `asset-policy-store.ts` | asset policies in LMDB, requests being handled | `/quote`, `/cold-start-quote`, admin upsert and removal of policies, start |
| Attestation process | `services/attestation/src/index.ts`, `config.ts`, `secret-provider.ts`, `server.ts` | settings, rate limiter | start or refuse to, authorize, count, answer |
| Operator treasury | `services/attestation/src/operator-treasury.ts` | one wallet, created once and cached; senders it registered | balances, `sweep`, registration of senders |
| Top-up cycle | `services/topup/src/index.ts`, `checker.ts`, `reconcile.ts` | cycle in flight, bridge in flight, shutdown flag | tick, reconcile, check, bridge, persist, settle, stop |
| Confirmation loop | `services/topup/src/confirm.ts` | readiness of the message, balance growth, claim attempted | poll, readiness check beside the polls, claim, decide, time out |
| Bridge record, lock file | `services/topup/src/state.ts` | one LMDB entry; a file with a PID | save, load, clear; acquire, release |
| L1 bridge | `services/topup/src/bridge.ts` | none kept | deposit, with retries on conflicts of nonces |
| Automatic claimer | `services/topup/src/autoclaim.ts` | sponsoring switched off or not | resolve an account, sponsored claim with a fallback |
| Claimer funding | `services/topup/src/fund-claimer-l2.ts` | none kept | bridge to the claimer, wait, claim with retries |
| Ops server | `services/topup/src/ops.ts` | counters, last results, readiness | health, readiness, metrics |
| SDK | `sdk/src/payment-method.ts` | none kept | `createPaymentMethod`, `executeColdStart` (up to three attempts) |
| Token bridge | `contracts/token_bridge/src/main.nr` | config | `set_config`, claims and exits, public and private |
| Faucet | `contracts/faucet/src/main.nr` | last drip per recipient | `drip`, `admin_drip` |
| Claimer's account | `scripts/services/compose-mode.sh`, `bootstrap-topup-autoclaim-account.ts`, `preflight-topup-autoclaim.ts` | none kept | export a key, deploy the account, check it |
| L1 funding | `scripts/services/fund-l1-fee-juice.ts` | none kept | mint until the target is reached |
| Contract deployment | `contract-deployment/src`, `scripts/contract/deploy-fpc.sh` | manifests, service configs | deploy with retries, verify, configure, register policies |
| Other scripts, profiling, examples, bindings | `scripts`, `profiling`, `examples`, `codegen` | files | tests, demonstrations, measurements |

### How they interact

* Wallet and service speak HTTP. The service's handlers run on one event loop and
  interleave at their awaits: the node call for the block time, the registration of the
  sender, the signer, the LMDB write.
* Service and contract share nothing but the operator's key: what one signs the other
  recomputes and verifies. They have to agree on the preimages, on the longest validity
  (3600 seconds on both sides) and on the width of the amounts.
* A private function of the contract runs on the user's machine against a past block;
  its effects appear when the transaction is included, maybe much later, maybe never.
* The attestation service's requests share one wallet: the first that needs it starts its
  initialisation, all await the same promise. A quote waits until its sender is registered.
* Users' claims by hand, other users' cold starts and the FPC compete for the messages of
  the token portal.
* The top-up service and the L1 funding script send from one account of L1. Shell scripts,
  bootstrap, preflight and service each resolve the claimer's account by themselves.
  Deployment jobs that run in parallel share the classes of their contracts.
* The top-up service sees the world only through calls: the balance of the FPC, the
  state of a message, a receipt of L1. The balance also moves for other reasons (fees,
  external credits).

### What is hard

* **Top-up**: a deposit is made on L1 *before* its claim secret can be on disk; the
  process may be killed at any await; a confirmation outlasts the check interval, so
  ticks overlap cycles; claims are retried while an earlier one may be in the pool;
  growth of a shared balance is the evidence for a credit; stop requests arrive
  anywhere.
* **Lock file**: read and write are two steps, and nothing keeps starts from overlapping; PIDs
  are reused; in a container the service is always PID 1.
* **Attestation**: a price is read before an await and signed after it; the count that
  protects the last asset is read before the write it protects is applied; a restart
  seeds the store when it is empty, one put after the other; the two quote formats are signed
  under one domain separator.
* **FPC**: a quote may be proven twice and sent twice; prices, base fees, expiry and the
  user's balance move between proof and inclusion; the app phase may revert after the
  FPC has become fee payer.

* **Treasury**: an initialisation that many requests await and that may fail; sweeps that
  read one balance, time out and land later.
* **Cold starts**: the text of an error decides on another attempt, whether or not the one
  before was sent; a receipt may come late or never.
* **Operator's programs**: retries of transactions that may have gone through (nonces,
  claims, account deployments, class publications) or that a competitor in the pool keeps out;
  values that one program checks and another one uses; files that runs share.

The full list, each hazard at its line and with the properties that would notice it
going wrong, is under `hazards` in `PROJECT.json`.

### What makes each component correct

* *FPC*: a quote pays once; the operator gets what the quote says whenever the FPC is
  charged; the contract passes on what it claims; no payment at an outdated price.
* *Attestation*: the price is rounded in the operator's favour and by less than one unit;
  the contract accepts what the service signs; policies change by admin requests only, and a
  removal leaves what it counted.
* *Top-up*: one deposit at a time; its secret is never lost once it is on disk, and the
  record is never overwritten; "confirmed" means credited; low balances get answered;
  a stop request ends the process.
* *Lock*: instances share a directory only by the races the file cannot exclude, and a lock
  left by a dead one keeps nobody out.
* *Treasury*: one wallet; it finds every payment; what is reported as swept was moved.
  *Process*: in production nobody gets a quote without the credentials of the mode, and
  nobody more than the limit that was not crowded out of the limiter.
* *Token bridge*: every token on L2 is backed on L1. *Faucet*: at most one drip per
  cooldown. *SDK*: of what a call sends one transaction takes effect at most, what it returns is
  true, and it ends.
* *Operator's programs*: one deposit per bridge; the claimer that claims is there; a claim
  reported was made; a race that is decided costs a deployment one attempt, and manifests
  name what is there.


## 2. Modules

    FeeJuiceBridge                 L1, messages, balance of the FPC   (external)
      `- BridgeConfirmation        confirm.ts
           `- TopupService         index.ts, checker.ts, reconcile.ts, state.ts
                `- TopupProperties   safety, fairness, liveness, refinement
                     |- MCTopup        instances for TLC
                     `- TopupProofs    theorems
    BridgeLedger                   abstract: what the service promises about deposits
    ProcessLock                    state.ts (lock file), start of index.ts
      |- MCLock
      `- LockProofs                theorems

    Quotes                         preimages, prices, operator's signature, blocks
      |- AttestationService        server.ts, asset-policy-store.ts
      |    |- AttestationClients - MCAttestation     with clients and admin
      |    |    `- AdminProofs       theorems
      |    `- AttestationProofs      lemmas
      `- FpcContract               main.nr and the network's rules
           (with AttestationService)
           `- FpcSystem            the payment path as one system, refinement
                |- MCFpc
                `- FpcProofs         theorems
    FeePayments                    abstract: what the FPC promises about fees

    TokenBridge                    token_bridge/main.nr, the portal, the Token
      |- Faucet                    faucet/main.nr
      `- ColdStartClient           payment-method.ts
           (with Faucet)
           `- TokenFlow            the way of the token as one system
                |- MCTokens
                `- ColdStartProofs   theorems

    AttestationConfig              config.ts, secret-provider.ts: what settings mean
      `- OperatorTreasury          operator-treasury.ts
           `- AttestationApi       index.ts, server.ts: the process and its routes
                |- MCApi
                `- ApiProofs         theorems

    OperatorL1                     bridge.ts, fund-l1-fee-juice.ts
    ClaimerAccount                 compose-mode.sh, bootstrap, preflight, autoclaim.ts
    ClaimerFunding                 fund-claimer-l2.ts, autoclaim.ts
    Deployment                     contract-deployment, deploy-fpc.sh
      |- MCScripts                 the last four, one at a time
      `- ScriptProofs              theorems

### Top-up service

`TopupService` has one action per stretch of code between two awaits; a call to the node,
L1 or LMDB takes effect in the step that receives its answer. `pc[c]` is the place of
cycle `c`, `job[c]` what its local variables hold (deposit, baseline, who waits for it),
`conf[c]` the state of its confirmation, `inFlight` is `loopState.inFlightCheck`,
`bridgeInFlight` the checker's own flag, `stopping` the abort signal with the checker's
flag, `store` the LMDB entry.

| Code | Actions |
|---|---|
| timer, `createCycleRunner` (`index.ts:480-500`) | `Tick`, `EndCycle` |
| `reconcilePersistedBridgeState` | `FindNoRecord`, `DropCorruptRecord`, `EvictRecord`, `EvictFails`, `ReconcileRecord`, `ReconcileConfirmed`, `ReconcileClearFails`, `ReconcileUnconfirmed` |
| `checkAndTopUp` | `StartCheck`, `SkipCheck`, `BalanceSuffices`, `BalanceUnknown`, `StartBridge`, `SendBridge`, `BridgeMined`, `BridgeAgain`, `BridgeFails`, `BridgeLost`, `Persist`, `PersistFails`, `TopupConfirmed`, `TopupUnconfirmed` |
| `waitForFeeJuiceBridgeConfirmation` | `Attempt`, `SubmitClaim`, `ClaimReturns`, `PollBalance`, `PollFails`, `Decide`, `WakeUp`, `DeadlinePasses`, `Expire`; beside it `MessageCheckSettles` |
| signals and supervisor | `RequestShutdown`, `FinishShutdown`, `Crash`, `Start` |
| outside the repository | `MessageArrives`, `ClaimLands`, `ClaimDropped`, `FeeCharged`, `ExternalCredit`, `ManualClaim`, `RecordAges`, `RecordCorrupts` |

A deposit stands for its message hash, leaf index and claim secret, which never part.
`bridgeFeeJuice` is two awaits: `SendBridge` hands the deposit over, L1 mines it in its own
time, `BridgeMined` is the step in which the receipt is back. A kill between the two strands
a deposit that no record names; so do a bridge that throws after sending (`BridgeLost`) and
one that tries again beside what it sent (`BridgeAgain`). What may go wrong is chosen with the
constant `Faults`; the header of the module lists the kinds. Time is not counted: a sleep may end with the deadline passed, a record may get
old.

`BridgeLedger` is the abstract specification: a set of deposits and the one being looked
after. `Strict` lets a deposit on record go only when it was credited; `Lenient` lets one
be given up but never overwritten or joined by another. `TopupService` implements them
under `stage <- status, watched <- the deposit on record`.

`ProcessLock` is a module of its own because nothing but the process's life ties it to the
cycle: `Spawn`, `FindNoOwner`, `Refuse`, `WriteLock`, `FinishStart`, `StartFails`, `Stop`,
`Kill`, and other processes that take and free PIDs. Starts may overlap at will. The history
variable `slips` records what the file cannot exclude: two instances between its read and its
write (`raced`), an owner in another PID namespace (`unseen`).

### Payment path

`Quotes` holds what both sides share. A hash is the record of its preimage and a
signature is membership in `signed`; prices (`computeFinalRate`, `ceilDiv`) are the code's
integer arithmetic on the whole of `Nat`, with the contract's 128-bit bound as the
constant `U128Max`.

| Code | Actions |
|---|---|
| `/quote`, `/cold-start-quote` (`server.ts`) | `AskQuote` (the block time is back), `PriceQuote` or `RejectQuote` (policy read, amounts checked), `SignQuote`, `SignFails` |
| `PUT`, `DELETE /admin/asset-policies` | `Upsert`, `Remove`, with the write queued; `ApplyWrite`, `WriteFails` are LMDB |
| process, config seeding | `Restart`, `Seed` (each put is durable by itself) |
| `fee_entrypoint` | `ProveFeeEntrypoint` (private part, on the user's machine), `IncludeFee` |
| `cold_start_entrypoint` | `ProveColdStart`, `IncludeColdStart`, `ColdStartReverts` |
| network, users | `NextBlock`, `DepositLands`, `BaseFeeMoves`, `FeeJuiceArrives`, `UserSpends` |

A proof is made against any block so far (`anchor \in 0..clock`), with any quote ever
signed, and any argument the caller may choose: other people's quotes, either entrypoint,
any deposit. Inclusion checks what the network checks: expiry, the nullifiers, the notes,
the price of gas, the Fee Juice of the FPC. The FPC's own address may be a user, as nothing
excludes it: it gets quotes, and anybody may name it in a cold start; it proves nothing itself
(`Senders`). The setup phase survives a revert, the app phase
does not. `FpcSystem` joins the service and the contract with clients that ask for the
fees of the moment, as the SDK does. `owed` and `basis` are history variables: what
the charged transactions owe, and by which policy, read when, a quote was priced, with what was
answered and what was signed: with `quote_format` `rate_quote` these differ (`SignedForm`).

`MintReverts` says whether the one public call of a cold start, the one that raises the
token's total supply, may revert; see the findings.

`FeePayments` is the abstract specification: no requests, handlers, proofs or reverts. The
FPC is charged for a quote and the operator is paid in one step (`PayFromBalance`,
`PayFromDeposit`), once for each quote offered, in its time, for no more Fee Juice than it
says; with `MintReverts` a cold start may `Lose`. `FpcSystem` implements it under
`offered <- signed`, `spent <- spentQuotes`, `redeemed <- consumed`, `purse <- feeJuice`,
`held <- Holdings`, the balances of users and operator: everything between the
request for a quote and the inclusion of the transaction is a stutter or an `Offer`.

### Way of the token

A deposit in the portal stands for its message and its claim secret; a message without a
recipient is private and whoever knows the secret may claim it. A public call is one step;
a private one is proven first and waits in `pool`. `ColdStartClient` is
`executeColdStart` from its quote to its receipt, `sent[k][n]` what became of the transaction
of attempt `n` of call `k`. Whatever throws, a proof, the sending or the wait for the receipt,
another attempt follows if the text of the error says so (`missing`); all share one quote.

| Code | Actions |
|---|---|
| `token_bridge/main.nr` | `SetConfig`, `ClaimPublic`, `ProveClaimPrivate`, `IncludeClaim`, `ExitPublic`, `ProveExitPrivate`, `IncludeExit` |
| `faucet/main.nr` | `Drip`, `AdminDrip` |
| `executeColdStart` | `StartColdStart`, `StartFails`, `ProofFound`, `ProofFails`, `SendTx`, `SendFails`, `PollReceipt`, `WaitFails` |
| outside the repository | `DepositOnL1`, `MessageLands`, `WithdrawOnL1`, `Shield`, `NewBlock`, `DropCall`, `IncludeTx`, `TxReverts`, `TxDropped` |

`FpcContract` and `ColdStartClient` divide the cold start between them: what the contract
checks and pays is in the one, what becomes of the client's calls and of the
message they compete for is in the other.

### Process of the attestation service

`AttestationConfig` is a module without variables: which settings load (`ConfigLoads`), where
the key comes from (`OperatorSecret`), who is let in (`IsQuoteAuthorized`), by what a
request is counted (`RateLimitKey`). `req[r].at` in `OperatorTreasury` and
`AttestationApi` is the await a request stands at; `init` is the promise of `initialize()`,
`senderAliases` the process's list of senders, `walletSenders` the one on disk. The admin routes
are not rate-limited. `rivals` and `crowded` are history: who was counted between two requests
of another, and who saw as many as the limiter tracks keys.

| Code | Actions |
|---|---|
| `main` (`index.ts`) | `Start`, `StartFails`, `Crash` |
| `onRequest` hooks, limiter | `AskForQuote` (counted or refused), `WindowEnds`, `AnswerUnauthorized` |
| `/quote`, `/cold-start-quote` | `AnswerError`, `AcceptQuery`, `IssueQuote`, `SigningFails` |
| `/admin/balances`, `/admin/sweep` | `AskAdmin`, `AskTreasury`, `Finish` |
| `OperatorTreasury` | `GetContext`, `InitReady`, `InitFails`, `ContextGiven`, `ContextRefused`, `RegisterSender`, `RegisterFails`, `ReadBalance`, `SendSweep`, `SweepMined`, `SweepLost`, `SweepFails`, `ReportSweep` |
| outside the repository | `Pay`, `IncludeSweep`, `DropSweep` |

### Operator's programs

| Module | Code | Actions |
|---|---|---|
| `OperatorL1` | `bridgeFeeJuice` | `StartBridge`, `BridgeSubmitted` |
| | `fund-l1-fee-juice.ts` | `StartScript`, `ScriptReceipt`, `RereadBalance`, `HandlerTurn`, `FinalCheck` |
| | both | `ReadNonce`, `SendRefused`, `SendAccepted`, `SendAgain`, `SendFails`; L1 is `Mine` |
| `ClaimerAccount` | `compose-mode.sh` | `Start`, `RunAgain` |
| | bootstrap | `Bootstrap`, `SendDeployment`, `DeploymentConflicts`, `DeploymentFails`, `DeploymentMined`, `CheckWallet`, `CheckLast`, `Booted` |
| | preflight, service | `Preflight`, `CreateAutoClaimer`; the network is `MineDeployment` |
| `ClaimerFunding` | `fund-claimer-l2.ts` | `SubmitBridge`, `AfterBridge`, `WaitForBridgeMessage`, `SelfPayMode`, `SendFundingClaim`, `FundingClaimMined`, `ClaimAttemptFails` |
| | `claim()` of the service | `StartClaim`, `SendClaim`, `ClaimMined`, `SponsoredFails`, `OwnClaimFails` |
| `Deployment` | one job | `PreflightJob`, `ResolveToken`, `L1Phase`, `WaitForDeposit`, `ReadClass`, `SendDeploy`, `LosesRace`, `Misreported`, `DeployFails`, `Deploys`, `WriteManifest`, `Verify`, `Configure`, `Register` |
| | outside the repository | `DepositLands`, `MineDeploy` |

A program is the sequence of its awaits; what a setting selects is chosen in the initial
state. In each the network may include what was sent after its sender gave up on it.

In `Deployment` a node may show a class later than the chain has it (`lags`), the pool refuses or
evicts a transaction that clashes with one in it, and a job's `unlucky` counts the attempts that
the race alone does not explain. `atPath` is the manifest at the one path that `deploy-fpc.sh`
looks at, whoever wrote it; `configured` says which job generated a configuration from whose.


## 3. What the runs check

All runs finish; the passing ones visit every reachable state of their instance, and
between them they take every action of the next-state relations.

| Run | States | What it shows |
|---|---|---|
| `topup_safety` | 64,713 | Without external credits, store failures and evictions, but with kills, stops, failing nodes, claims and bridges, and claims by hand: cycles never overlap in a bridge; what is confirmed was credited; a deposit is lost only between its sending and its record; otherwise one deposit is under way; the strict ledger is implemented. |
| `topup_faults` | 1,033,432 | With every fault at once: the deposit under confirmation is the one on disk, no deposit is made over a record, the lenient ledger is implemented. |
| `topup_live` | 12,219 | Liveness: stop requests end the process, deposits get claimed, records get settled, a low balance gets answered; and no secret is lost without a kill. |
| `lock_host` | 7,156 | On one host, with starts that overlap: two instances serve only after a race between read and write, and stale locks keep nobody out. |
| `attestation` | 127,360 | Handlers, overlapping admin requests, failing writes, kills and restarts in the middle of the seeding, with rate quotes: what empties the store is a removal that counted what is no more, policies survive restarts, prices are rounded up by less than one unit. |
| `fpc_payments` | 1,389,376 | The payment path: a quote pays once, what is signed is accepted until it expires, what strands in the FPC was paid to it as a user, the operator is short only by reverted cold starts, no price older than the validity is paid; the atomic payments are implemented. |
| `token_flow` | 206,186 | Deposits, exits, drips, claims by hand and cold starts that compete and are repeated after sending: the supply stays backed, drips keep their distance, one transaction of a call takes effect at most, what a call returns was claimed by it alone, and it always ends. |
| `attestation_process` | 1,907,102 | 125 settings, two requests at a time, failing initialisations, sweeps that land late, crashes: one wallet, payments are found, sweeps are reported truly, production is guarded, who gets more than the limit was crowded out. |
| `operations` | 3,262,254 | The operator's programs: one deposit per bridge, the claimer is there, claims are reported truly, a race for a class that is decided costs one attempt, manifests and configurations name contracts. |
| `topup_false_confirm`, `topup_persist_fails`, `fpc_cold_loss` | | Each finds the behaviour of one finding (section 6). |

Every property of a passing run has been seen to fail: `mutants` in `PROJECT.json` names
for each a slip in one definition (a dropped guard, an off-by-one, a forgotten `finally`)
with which TLC finds it violated. The slipped definitions stand beside the real ones,
marked `mutant`; nothing uses them.

### Bounds, and why they are enough

* *Top-up.* Two or three deposits (`Deposits`), whose identity is used again once a
  claimed one is referred to by nobody: runs are unbounded in the number of top-ups, and
  what is bounded is how many are unclaimed at a time: three are one on record, one lost
  and one more. Two cycles are a running one and a tick beside it (`Cycles`); liveness
  uses one, because the next tick finds the cycle free or waits. Balances start in
  `0..CreditCap` with a threshold of 2 and a top-up of 2 or 3 (the code demands at least the
  threshold), so that one deposit lifts the balance over the threshold, fees take it back
  below, and growth by fees and by credits cross. `CreditCap` also bounds external
  credits.
* *Lock.* Two instances and four PIDs: both alive, another process, one PID to spare.
* *Attestation.* Two assets (a last one and another), two requests (a race needs two),
  rates of 3/2 and of 1 with 2 % that do not divide the amounts asked for, amounts on both
  sides of `U128Max`, deposits on both sides of the price, two block times, rate quotes
  (`fpc_payments` has amount quotes).
* *Payment path.* Two users and the FPC as a third, one asset, one deposit, two transactions, at most two quotes
  (`MaxQuotes`), three block times with validity 1 = `MaxTtl` (the boundary), two gas
  prices of which one is zero, a fee of half a token that rounds up. Two transactions are
  what replaying needs; two quotes are one for each entrypoint or user.

* *Way of the token.* One user, deposits of two and of one (`Amount`): a cold start splits the
  one and uses up the other. Two calls of two attempts each for one deposit, or one call and two
  deposits (`CallOrDeposit`); two attempts for the code's three, as the second already follows one
  that was sent; one private call in the pool beside them (`MaxPool`); two block times (`MaxClock`), a cooldown
  of one and quotes that expire with their block (`Validity` 0): every boundary is met.
* *Attestation process.* Every combination of profile, mode and credentials, of providers
  and sources of the key, a limiter with room for all keys and with less, and four treasuries
  (`AllCandidates`). Two requests at a time, two payments, two sweeps of one unit, two
  addresses: what two sweeps need to read one balance, and two registrations to overlap.
* *Operator's programs.* The four groups share no variable, so that a behaviour runs one of
  them. Three nonces, one bridge and one run of the script, a target of three reached by
  mints of two; two runs of `compose-mode.sh` (what the first sent lands in the second); two
  claim retries, two calls of `claim()`; two token jobs of one token each, or two FPC jobs with every
  setting of `deploy-fpc.sh`, with and without a manifest of an earlier run (`JobsInit`): each loses
  races to the other, refused in the pool or by a block. What a job met beside the race is in
  `mishaps`.

`MCFpc_payments`, `MCTokens_flow`, `MCApi_process` and `MCScripts_operations` say
`CHECK_DEADLOCK FALSE`: at the bound of time, payments or nonces, or when the programs
have ended, nothing is left to do. No other passing run does.
Symmetry is used for sets of identities in safety runs only, never in `topup_live`, `lock_host`
or `token_flow`.

### Fairness

`topup_live` assumes of the code (`CodeFairness`): the timer ticks, a continuation whose
promise settled runs, the end of a shutdown is reached, the supervisor starts a process
that is down. Of the world (`WorldFairness`): messages arrive, records age, a claim that is
sent again and again lands in the end (strong fairness: each may be dropped), a node that
fails now and then also answers now and then, deadlines pass. These are the event loop,
the timeouts the clients have, and a rollup that makes progress. Nothing is assumed of
faults, fees, stop requests, credits. Three of the properties say "if the
service is left running": nobody owes progress to a process that is stopped again and
again. Records that are evicted unclaimed after a day are outside `topup_live`
(`ageClaimed`): such a deposit is given up by design.

`lock_host` assumes that a supervisor restarts, that starts do not always fail, that
unrelated processes end; and states recovery for behaviours in which kills stop and the
system does not insist on handing out the one PID in the stale file.

`token_flow` assumes of every call that its event loop runs on, that a proof ends, one way or
the other, and that the deadline of the wait comes (`Fairness`, weak, of `ClientStep`). Nothing
is assumed of the network: `CallsSettle` holds when no block is ever added.


## 4. What is proved

The theorems hold for every value of the constants that the named assumptions allow; TLC
evaluates the assumptions in the runs. Most say what the code enforces (`loadConfig` refuses a
top-up below the threshold, the schemas refuse rates of zero, `config.ts` a validity above the
contract's limit), type a constant, or keep a model value apart from data. The others are
restrictions of the models, which nothing in the code enforces:

* `FpcAssumption`: the operator is not a user of its own service, as `owed` could not tell its
  purchases from its income, and is not the FPC's own address. `TreasuryAssumption`: the FPC is
  not among the users who ask for quotes by `/quote`; there it stands for cold starts.
* `ClientAssumption`: a cold start is modelled for deposits that cover its price; the others the
  service refuses (`RejectQuote` in `AttestationService`).
* `BridgeAssumption`, `AttestationAssumption`, `ApiAssumption`, `TreasuryAssumption`: holders,
  deposits, assets, addresses and notes are finitely many.

No assumption is made on supported assets (the configuration may have none), on admin requests
(they overlap), on starts of the top-up service (they overlap) or on the number of identities
that ask the limiter.

**`TopupProofs`** (any number of deposits and cycles, any amounts). For any set of faults:
`TypeCorrect`, `OneBridge`, `WatchedPersisted`, `NeverOverRecord` and `LedgerKept`, by which
the service implements the lenient ledger. `NoBridgeOverRecord` is not inductive:
nothing in the bridge step looks at the store. The invariant that carries it is

    IInv == TypeOK /\ Alone /\ JobHasDeposit /\ NothingOnRecord /\ WatchedIsPersisted

`Alone`: only the cycle in flight is anywhere but idle, so no other cycle can write a record
while this one bridges. `NothingOnRecord`: from the end of a reconciliation to the next
write the store holds no entry, which is what every path out of the reconciliation has
to establish. `JobHasDeposit` and `WatchedIsPersisted` tie the memory of a cycle to the
store through the confirmation, and with them `Release` and `Watch` of the ledger.

Without external credits and with entries that are neither corrupted nor evicted
(`KeptRecords`; kills, failing writes, manual and lost claims and fees stay):
`ConfirmedIsCredited`, `OneIsUnderWay` and `StrictLedgerKept`. They add

    CreditInv == RecordInv /\ CycleInv

`RecordInv`: whatever can still be credited is on record, hence a balance above the
baseline of the record means that its deposit was credited. `CycleInv` follows this
through a cycle: no growth before there is a record (`BridgingFromBase`), growth
once seen stays true although fees take the balance down again (`GrownIsCredit`), and nothing is
confirmed without (`DecidesOnGrowth`). `external` is excluded because with it the first
of them is false, which is the finding of `topup_false_confirm`. Under the same condition,
`OnlyBeforePersistLost`: a deposit loses its secret in no step but one in which a cycle stands
between its sending and its record, the wait for the receipt included; and if neither
kills, failing writes nor bridges that throw after sending occur, `SecretsAreKept`.

**`FpcProofs`** (any number of users, assets, deposits, quotes, transactions, any
prices, any validity up to the contract's limit).

    IInv == TypeOK /\ AttestInv /\ ChainInv

`AttestInv` follows a quote through a handler to the signature: what is priced is sound
(`Sound`: amounts in range, the price of its policy, a moment within the validity of the
read), and what is signed was priced. `ChainInv` follows it from there: a proof carries a
signed quote, pays in the setup phase or out of a deposit of the same asset and amount
(`TxSound`); what was included is nullified (`IncludedSound`); a cold start reverts only if
it may (`RevertsAllowed`). The theorems:

* `QuotesPayOnce`: from `IncludedSound`, as inclusion needs the nullifier to be absent.
* `FpcKeepsOwn`: from `TxSound` and the lemma `ColdStartShares`. Until a cold start that names
  the contract as its user is included, the contract holds nothing. That the deposit's
  asset is the quote's is itself a consequence: the contract takes bridge and asset as
  arguments, and only because it holds nothing can it not pay out what the claim did not
  bring. The two facts are proved together.
* `ShortfallExplained`: the operator holds what all charged transactions owe, unless a cold
  start's app phase reverted.
* `QuotesAccepted`: what the service answers, the contract accepts in every block until it
  expires, the longest validity included: cold-start quotes in either format, others with
  `amount_quote`.
* `StaleNeverPaid`: from `Sound` and the expiry of the transaction, across the await
  between read and signature.
* `QuotesPricedUp`: from `CeilDivCovers`, the least number of parts that cover an amount.
* `PaymentsImplemented`: every step is one of `FeePayments` or changes nothing it sees. What
  the charge, the shares and the exception need is in `IInv`; one more invariant
  (`ProofFits`) says that a proof pays for the gas and for the entrypoint that its quote is for.
* `TypeCorrect`: among the rest, no balance, debt or Fee Juice goes below zero.

**`AdminProofs`** (any assets, policies and requests, any supported assets or none, kills at any
point). `AttestTypeCorrect` (part of `TypeOK`), `QuotesPricedUp` while policies change, in either
format, and

* `EmptiedByRacesOnly`: what empties the store is a removal that counted other assets than it
  leaves. `StoreInv` has it: a removal that waits has seen another asset, so that it empties only a
  store that is not what it saw.
* `AdminPoliciesKept`: a policy in the store changes by the write at the head of the queue and by
  nothing else. The seeding is the hard part: it puts only what the store lacks, as no request is
  taken before it is over and a restart seeds only an empty store (`StoreInv`).

`AttestationProofs` holds the lemmas the last two share.

**`ColdStartProofs`** (any holders, deposits, calls and attempts). `OneIsPaid` and
`ResultIsTrue`. A call may leave a transaction of each attempt with the node; what is included or
reverted has spent its quote (`EffectsSpend`), the attempts share one quote from the request to the
receipt (`AskedFirst`), and no spent quote is admitted: so one takes effect. That only one call's
transaction is mined for a deposit (`MinedOnce`) needs that each mined one has consumed the message
(`MinedClaims`), which stays consumed.

`EscrowIsEnough`: the escrow is the public and the private supply, the deposits in flight and the
exits that wait. It is inductive with the types and with `AmountsKept`, that a message is claimed
for what was deposited (`MoneyInv`), but it is about sums over functions, which are folds over
sets. The library's induction over sets takes an operator; `SetInduction` states it for sets of
sets and is proved from a minimal counterexample. From it come the lemmas that a sum of naturals
is one (`SumOfNats`) and changes by what one summand changes (`SumChanges`). They need
finite sets of holders and deposits, and nothing else does. `ExitsCanBePaid` follows: the portal
holds at least what its exit messages say.
`CooldownHolds`: the last drip lies at least one cooldown after the epoch for each drip so far
(`DripInv`), across changes of time between the private and the public part of a call.

**`ApiProofs`** (any settings, requests, senders, payments, addresses). `WalletIsOne` needs
`OneStart`: a wallet is there or being made, never two of these, and none without the promise.
`PaymentsFound` needs `Registered`: whatever the process lists or has handed a quote to is
known to the wallet on disk, as long as nothing failed. `GuardHolds` needs `Guarded`: the settings
loaded, and a request past the check passed it.

`SweepsAreTrue`: `MinedIsExact` says of the world that the notes a mined sweep spent are its
notes and nobody else's; `SweepPromise` of a request that the sweep it awaits has the amount
it was asked for, is in the pool from then on, and that one past its receipt was mined; a
request that is answered as a bad one has sent nothing. `LimitHolds`: what is admitted in a window
is at most what is counted, unless the key was given up meanwhile. `InOrder`: whoever is tracked
behind a key asked since; the key that is given up is the first of a full list (`FirstIsCrowded`,
`TouchCounts`), so that at least as many others asked as the limiter tracks. Nothing is assumed
of how many there are, but that they are finitely many.

**`ScriptProofs`** (every setting; any number of runs, bridges, nonces, retries, calls and jobs).

* `ClaimerThere`: the account a preflight found stays indexed (`PreflightLasts`), and it is the one
  that serves when a key was exported (`SameAccount`), as production demands
  (`ProductionHasKey`), or when both take one test account; an indexed account is published
  (`IndexedIsPublished`); one that was not initialised before is initialised only together with its
  publication (`InitMeansPublish`), so that a conflict, as well as a receipt, means that it is
  published (`BootstrapKnows`). The two exceptions the property names are observations below.
* `BridgesDepositOnce`: whatever of a bridge is in the pool or mined was sent with the nonce its call
  holds now (`HoldsWhatItSent`), as a call takes another one only after a refusal; a nonce is
  mined once. Bridges told "already known" are excepted (section 6).
* `ReportedClaimsPaid`: a message is consumed by the transaction that is paid and by no other
  (`PaidOnce`); what is reported is the payer and the call whose transaction it was.
* `DecidedRacesCostOne`: for a job that met nothing beside the race (`mishaps`), the transaction it
  awaits is the only one for its instance and, out of the pool, left its instance or had a class
  to publish (`SentOnce`); all attempts but one were unlucky, and after that one the class is
  published (`AttemptKnows`), so that the next answer says so or is bad luck again. That a job finds
  its instances free needs that stacks and phases ahead of it are untouched (`StacksAhead`,
  `PhasesAhead`). The code gives no more: three attempts may each meet a competitor that is still
  pending, and then the job fails of the race.
* `ManifestsAreTrue`: what a job has got past is deployed (`PassedIsDeployed`), whoever deployed
  it; a skipped class was seen published (`SkippedIsPublished`); a faucet is sent when its deposit
  has landed (`FaucetIsFunded`); the manifest at the shared path is an earlier run's or names what a
  job deployed (`PathIsTrue`), and with it every configuration.

**`LockProofs`** (any instances, PIDs, kills and PID reuse, on one host and in containers).
`SharedBySlipsOnly`: two instances serve only after a slip, and until then the file names the one
that serves. `Orderly`, which holds without slips, proves the two together: at most one writes, nobody
serves beside a writer, and an instance may start because the file names nobody alive, hence
nobody serves.

### Only model-checked

Every invariant and every action property of the passing runs is a theorem (`FreshQuotesAccepted`
and the top-up properties under the conditions named above). Liveness is not, and
with it every fairness condition: `StopsWhenAsked`, `DepositsGetClaimed`, `LowBalanceIsAnswered`,
`RecordsGetSettled` (`topup_live`), `RestartSucceeds` (`lock_host`) and `CallsSettle` (`token_flow`)
rest on which actions are enabled, and the provers at hand do not reason about `ENABLED`. The three
violations are behaviours, which a run shows.


## 5. What is not modelled, and why

* **Time** other than block timestamps: intervals, back-offs and timeouts only appear as
  "it may be over now". Of the top-up service, no property depends on how long.
* **Cryptography**: hashes have no collisions, signatures no forgeries.
* **Wallets that lag.** `FreshQuotesAccepted` is about a wallet that is in sync. A proof
  against an older anchor block is modelled, and at the longest validity it is refused when
  the anchor is older than the block the service priced at: the limit of 3600 seconds is
  counted from the anchor. A shorter validity leaves slack.
* **Top-up cycle and its parts.** In `TopupService` a bridge is sent, mined, lost or repeated, and a
  claim is sent or not; `OperatorL1` and `ClaimerFunding` show how each comes
  about. That the detailed ones refine the outcomes of the cycle is argued, not checked.
* **Ops state** of the top-up service: counters and results that no other part reads, besides
  the health answers. Its configuration is validated like the attestation service's.
* **Metrics, request parsing**: reporting and parsing, apart from what the schemas refuse (in
  `Payable`, the assumptions, and the well-formedness of a request).
* **Token, portals, inbox, Fee Juice, wallets, L1**: external. A balance stands for notes.
* **Other scripts** (life-cycle tests, smoke tests, generation of configuration files),
  **examples, profiling, noop and counter contracts, generated bindings**: tests,
  measurements, text and targets for them; no state of the running system.


## 6. Findings

| Run | Where | What the code does |
|---|---|---|
| `topup_false_confirm` | `services/topup/src/confirm.ts:275` | The comment at 271 requires growth *and* readiness "to avoid false confirmation from external deposits". Growth from an external credit, seen by a poll, confirms when the readiness answer arrives between the claim step and the decision of one attempt. The claim was never sent; the record, and the secret with it, is cleared. |
| `topup_persist_fails` | `services/topup/src/index.ts:299` | "crashing forces reconciliation on restart" (298): a failing write is caught by `checkAndTopUp` and logged. Nothing crashes, the next cycle finds no record and makes a second deposit. |
| `fpc_cold_loss` | `contracts/fpc/src/main.nr:226` | The app phase of a cold start enqueues a public call (the rise of the total supply); if it reverts, for want of gas for one, the FPC has paid and the operator is not. Line 206 says nothing is left that could revert. |

### Observations

Behaviour met while modelling that no run is kept for. Where a property is named, a configuration
of the module that checks it finds the behaviour in seconds.

* *Lock* (`services/topup/src/state.ts:31`): the README calls the file a lock that "prevents
  concurrent instances". Two that start together both find no owner, and both serve
  (`MutualExclusion`, `MCLock`).
* *Lock in a container* (`services/topup/src/state.ts:19`): a killed container restarts as
  PID 1, finds a 1 in the lock file, finds itself alive and refuses to start, until somebody
  removes the file (`RestartSucceeds`, `MCLock`, `Containers = TRUE`, `Pids = {p1}`).
* *The last asset* (`services/attestation/src/asset-policy-store.ts:94`): two overlapping
  removals both count two assets; the store ends empty (`LastAssetStays`, `MCAttestation`) and is
  filled with the configuration at the next start, although its README calls it
  "authoritative" after the first admin request (`StoreIsAuthoritative`).
* *Rate quotes* (`services/attestation/src/server.ts:343`): the rate is signed in the places and under
  the domain separator of the amounts, while the answer carries the amounts. The contract refuses
  the fresh answer, and would take the rate for amounts (`FreshQuotesAccepted`, `MCFpc`,
  `QuoteFormat = "rate_quote"`).
* *The FPC as a user* (`contracts/fpc/src/main.nr:232`): neither the entrypoint nor
  `request-schemas.ts:106` excludes it; the user's share of such a cold start stays in the
  contract (`FpcHoldsNothing`, `MCFpc`).
* *Shared manifest* (`scripts/contract/deploy-fpc.sh:36`): a run with `--preflight-only` after another
  one generates the configuration from the manifest it finds, while line 31 says it is skipped
  (`ConfiguredIfWritten`, `MCScripts`).
* *Bootstrap* (`scripts/services/bootstrap-topup-autoclaim-account.ts:568`): for an account that was
  initialised and never published every deployment conflicts, which is reported as success
  (`BootstrapMeansPublished`, `MCScripts`).
* *Quote and deposit* (`contracts/fpc/src/main.nr:226`): the secret passed to the bridge need not
  be the one whose hash is in the quote, although 181 says the quote binds a deposit. Another
  deposit of the same amount passes; the operator is paid all the same.
* *Attestation service.* A failed initialisation of the treasury is cached for the life of the
  process, and a quote waits as long as one that hangs. `treasury.stop()` is called by nobody.
  `operator_account_salt` without `operator_address` gives the treasury another account than
  the verified operator. A failing block query (`server.ts:598`) is answered 500 and not counted.
  The limiter forgets a key it evicts: at least `maxTrackedKeys` others between two requests of a
  client set its count back. A sweep that timed out is answered 500 though it may be mined.
* *L1.* A bridge told "already known" is tried again with a new secret, beside the deposit that
  is known, which `services/topup/src/bridge.ts:57` calls safe (`OneDepositOutstanding`, `MCTopup`,
  `Faults = {"l1Lost"}`). The funding script may mint
  twice after "nonce too low".
* *Claims.* Self-payment consumes the message in the payment and again in the call, so that such
  a transaction can never be included. A bridge whose claim then fails, is skipped or
  lacks a fee payer strands its deposit: the secret was only in memory. A claim mined late is
  reported as failed.
* *Claimer's account.* `TOPUP_AUTOCLAIM_USE_OPERATOR_SECRET_KEY=true` is accepted by
  bootstrap and preflight, while `compose-mode.sh:73` compares with `1`: the service then claims with
  the test account. A test account other than the first is checked, and the first is used
  (`PreflightChecksTheClaimer`, `MCScripts`).
* *Deployment.* The receipts of `initialize` and `mint`, and the answer of the wait for the deposit,
  are not looked at (`test-token.ts`). A deployment that landed and was reported as
  dropped makes every retry fail. A missing fee asset handler is noticed after the FPC was deployed
  and before its manifest is written. `configure-token` run again deploys its tokens again.


## 7. Plan

Done: the services, the contracts, the SDK and the operator's programs; every safety property of
the passing runs proved; two abstract specifications, `BridgeLedger` and `FeePayments`, with the
refinements checked and proved. What would add most, in this order:

1. **Refinements inside the top-up service**: `OperatorL1` and `ClaimerFunding` as
   implementations of the outcomes that `TopupService` chooses from; an abstract deposit and
   claim between the two, proved from `L1Inv` and `FundingInv`.
2. **The process lock and the cycle together**: that no two services bridge for the same record
   without a slip, from `SharedBySlipsOnly` and `OneBridge`.
3. **The client's part of `TokenFlow` against the contract's of `FpcSystem`**: the cold start that
   the one sends is the one that the other charges.
4. **Ops state** and start-up of the top-up service.
