---------------------------- MODULE TopupService ----------------------------
(***************************************************************************)
(* The top-up service (services/topup): a process that watches the Fee     *)
(* Juice balance of its target and bridges more from L1 when the balance   *)
(* is low.                                                                 *)
(*                                                                         *)
(* Every timer tick starts a cycle: first reconcile the deposit persisted  *)
(* in LMDB, if there is one (reconcile.ts), then check the balance and     *)
(* bridge (checker.ts), persist the deposit with its claim secret, wait    *)
(* for its confirmation (BridgeConfirmation) and clear the record.  What   *)
(* the process keeps in memory dies with it; the record does not.          *)
(*                                                                         *)
(* A step of a cycle is the code between two awaits.  A call to the node,  *)
(* to L1 or to LMDB takes effect in the step that receives its answer.     *)
(*                                                                         *)
(* Faults that this module knows, besides those of FeeJuiceBridge:         *)
(*   "crash"         the process is killed at any point                    *)
(*   "node"          a call to the Aztec node fails                        *)
(*   "messageCheck"  the readiness check of a message fails                *)
(*   "l1"            a bridge fails before anything is mined on L1         *)
(*   "l1Lost"        an error hides from the service a deposit it has sent *)
(*   "store"         an LMDB write or removal fails                        *)
(*   "corrupt"       the persisted entry becomes unreadable                *)
(*   "manualClaim"   somebody claims the deposit on record by hand         *)
(*   "age"           the persisted entry gets older than 24 hours          *)
(*   "ageClaimed"    ... but not while its deposit is unclaimed            *)
(*                                                                         *)
(* Deposits bounds how many deposits are unclaimed or referenced at one    *)
(* time: the identity of a claimed one that nobody refers to is reused.    *)
(* When none is free the bridge can only fail, as it does when the         *)
(* operator has no Fee Juice left on L1.                                   *)
(***************************************************************************)
EXTENDS BridgeConfirmation

CONSTANTS
  Threshold,    \* config.threshold
  NoCycle,      \* stands for "no cycle"
  NoRecord,     \* the store has no entry
  Corrupt       \* the store has an entry that fails validation

\* loadConfig refuses a top-up amount below the threshold.
ASSUME TopupAssumption ==
  /\ Threshold \in Nat \ {0}
  /\ TopUpAmount >= Threshold
  /\ NoCycle \notin Cycles

VARIABLES
  proc,           \* is the process "up" or "down"
  inFlight,       \* loopState.inFlightCheck: the cycle that runs
  bridgeInFlight, \* the checker's own guard
  store           \* the LMDB entry

vars == <<bridgeVars, confirmVars, proc, inFlight, bridgeInFlight, store>>

\* The deposit, the balance read before it was made, and whether it is older
\* than RECONCILIATION_MAX_AGE_MS.  amount, secret and hashes belong to dep.
Records == [dep : Deposits, base : Nat, stale : BOOLEAN]
HasRecord == store \notin {NoRecord, Corrupt}

ASSUME StoreAssumption ==
  /\ NoRecord # Corrupt
  /\ {NoRecord, Corrupt} \cap Records = {}

\* Places of a cycle outside a confirmation.  Each is an await:
\*   "reconcile" the store is read        "balance" getBalance
\*   "check"     checkAndTopUp starts     "bridge"  bridgeFeeJuice
\*   "receipt"   bridgeFeeJuice waits for  "persist" the store is written
\*               its receipt
Places == {"idle", "reconcile", "check", "balance", "bridge", "receipt", "persist"}
            \cup Confirming

TypeOK ==
  /\ BridgeTypeOK
  /\ pc \in [Cycles -> Places]
  /\ job \in [Cycles -> Jobs]
  /\ conf \in [Cycles -> Confs]
  /\ stopping \in BOOLEAN
  /\ proc \in {"down", "up"}
  /\ inFlight \in Cycles \cup {NoCycle}
  /\ bridgeInFlight \in BOOLEAN
  /\ store \in Records \cup {NoRecord, Corrupt}

Idle ==
  /\ pc = [c \in Cycles |-> "idle"]
  /\ job = [c \in Cycles |-> NoJob]
  /\ conf = [c \in Cycles |-> FreshConf]
  /\ stopping = FALSE
  /\ inFlight = NoCycle
  /\ bridgeInFlight = FALSE

Init ==
  /\ BridgeInit
  /\ Idle
  /\ proc = "down"
  /\ store = NoRecord

-----------------------------------------------------------------------------
(* What the cycle's steps are made of.                                     *)

procVars == <<proc, inFlight, bridgeInFlight>>

\* Nobody can still refer to d, so its identity may stand for a new deposit.
Fresh(d) ==
  /\ status[d] \in {"unused", "claimed"}
  /\ d \notin claimTxs
  /\ \A c \in Cycles : job[c].dep # d
  /\ HasRecord => store.dep # d

\* The record is older than options.maxAgeMs.
NeverTooOld == FALSE \* mutant: the runner passes no maxAgeMs
TooOld == store.stale

\* Every way out of a cycle ends in the finally of createCycleRunner.
EndCycleHalfway(c) == \* mutant: no finally
  /\ pc' = [pc EXCEPT ![c] = "idle"]
  /\ job' = [job EXCEPT ![c] = NoJob]
  /\ conf' = [conf EXCEPT ![c] = FreshConf]
  /\ UNCHANGED inFlight
EndCycle(c) ==
  /\ pc' = [pc EXCEPT ![c] = "idle"]
  /\ job' = [job EXCEPT ![c] = NoJob]
  /\ conf' = [conf EXCEPT ![c] = FreshConf]
  /\ inFlight' = NoCycle

\* ... and every way out of a bridge in the finally of checkAndTopUp too.
EndBridgeHalfway(c) == \* mutant: no finally
  EndCycle(c) /\ UNCHANGED bridgeInFlight
EndBridge(c) ==
  /\ EndCycle(c)
  /\ bridgeInFlight' = FALSE

\* The cycle calls waitForFeeJuiceBridgeConfirmation for this job.
StartConfirmation(c, mode, dep, base) ==
  /\ job' = [job EXCEPT ![c] = [mode |-> mode, dep |-> dep, base |-> base]]
  /\ conf' = [conf EXCEPT ![c] = FreshConf]
  /\ Goto(c, FirstPlace)

\* bridgeStateStore.clear().
ClearStore == store' = NoRecord

-----------------------------------------------------------------------------
(* The cycle: createCycleRunner and reconcilePersistedBridgeState.         *)

\* A tick while a cycle runs only waits for that cycle.
TickReentrant(c) == \* mutant: inFlightCheck is not consulted
  /\ proc = "up"
  /\ ~stopping
  /\ pc[c] = "idle"
  /\ inFlight' = c
  /\ Goto(c, "reconcile")
  /\ UNCHANGED <<bridgeVars, job, conf, stopping, proc, bridgeInFlight, store>>
Tick(c) ==
  /\ proc = "up"
  /\ ~stopping
  /\ inFlight = NoCycle
  /\ pc[c] = "idle"
  /\ inFlight' = c
  /\ Goto(c, "reconcile")
  /\ UNCHANGED <<bridgeVars, job, conf, stopping, proc, bridgeInFlight, store>>

FindNoRecord(c) ==
  /\ pc[c] = "reconcile"
  /\ store = NoRecord
  /\ Goto(c, "check")
  /\ UNCHANGED <<bridgeVars, job, conf, stopping, procVars, store>>

\* An unreadable entry is removed, and forgotten about if that fails.
DropCorruptRecord(c) ==
  /\ pc[c] = "reconcile"
  /\ store = Corrupt
  /\ ClearStore \/ ("store" \in Faults /\ UNCHANGED store)
  /\ Goto(c, "check")
  /\ UNCHANGED <<bridgeVars, job, conf, stopping, procVars>>

\* An entry that is too old is removed, whatever became of its deposit.
EvictRecord(c) ==
  /\ pc[c] = "reconcile"
  /\ HasRecord /\ TooOld
  /\ ClearStore
  /\ Goto(c, "check")
  /\ UNCHANGED <<bridgeVars, job, conf, stopping, procVars>>

\* If the removal throws, so does the reconciliation: the cycle is over.
EvictFailureIgnored(c) == \* mutant: the failed removal is only logged
  /\ "store" \in Faults
  /\ pc[c] = "reconcile"
  /\ HasRecord /\ TooOld
  /\ Goto(c, "check")
  /\ UNCHANGED <<bridgeVars, job, conf, stopping, procVars, store>>
EvictFails(c) ==
  /\ "store" \in Faults
  /\ pc[c] = "reconcile"
  /\ HasRecord /\ TooOld
  /\ EndCycle(c)
  /\ UNCHANGED <<bridgeVars, stopping, proc, bridgeInFlight, store>>

ReconcileFromNow(c) == \* mutant: the baseline is read again
  /\ pc[c] = "reconcile"
  /\ HasRecord /\ ~TooOld
  /\ StartConfirmation(c, "reconcile", store.dep, balance)
  /\ UNCHANGED <<bridgeVars, stopping, procVars, store>>
ReconcileRecord(c) ==
  /\ pc[c] = "reconcile"
  /\ HasRecord /\ ~TooOld
  /\ StartConfirmation(c, "reconcile", store.dep, store.base)
  /\ UNCHANGED <<bridgeVars, stopping, procVars, store>>

\* The confirmation of a reconciliation is over.  Only a confirmed deposit
\* lets the cycle go on to the balance check.
ReconcileConfirmed(c) ==
  /\ pc[c] = "confirmed" /\ job[c].mode = "reconcile"
  /\ ClearStore
  /\ job' = [job EXCEPT ![c] = NoJob]
  /\ conf' = [conf EXCEPT ![c] = FreshConf]
  /\ Goto(c, "check")
  /\ UNCHANGED <<bridgeVars, stopping, procVars>>

ReconcileClearFails(c) ==
  /\ "store" \in Faults
  /\ pc[c] = "confirmed" /\ job[c].mode = "reconcile"
  /\ EndCycle(c)
  /\ UNCHANGED <<bridgeVars, stopping, proc, bridgeInFlight, store>>

ReconcileTimeoutIgnored(c) == \* mutant: only an abort stops the cycle
  /\ pc[c] = "timedOut" /\ job[c].mode = "reconcile"
  /\ job' = [job EXCEPT ![c] = NoJob]
  /\ conf' = [conf EXCEPT ![c] = FreshConf]
  /\ Goto(c, "check")
  /\ UNCHANGED <<bridgeVars, stopping, procVars, store>>
ReconcileUnconfirmed(c) ==
  /\ pc[c] \in Outcomes \ {"confirmed"} /\ job[c].mode = "reconcile"
  /\ EndCycle(c)
  /\ UNCHANGED <<bridgeVars, stopping, proc, bridgeInFlight, store>>

-----------------------------------------------------------------------------
(* The cycle: checkAndTopUp.                                               *)

StartCheck(c) ==
  /\ pc[c] = "check"
  /\ ~stopping /\ ~bridgeInFlight
  /\ Goto(c, "balance")
  /\ UNCHANGED <<bridgeVars, job, conf, stopping, procVars, store>>

SkipCheck(c) ==
  /\ pc[c] = "check"
  /\ stopping \/ bridgeInFlight
  /\ EndCycle(c)
  /\ UNCHANGED <<bridgeVars, stopping, proc, bridgeInFlight, store>>

\* The balance is back.  A stop request that came in meanwhile still counts.
BalanceSuffices(c) ==
  /\ pc[c] = "balance"
  /\ balance >= Threshold \/ stopping
  /\ EndCycle(c)
  /\ UNCHANGED <<bridgeVars, stopping, proc, bridgeInFlight, store>>

BalanceUnknown(c) ==
  /\ "node" \in Faults
  /\ pc[c] = "balance"
  /\ EndCycle(c)
  /\ UNCHANGED <<bridgeVars, stopping, proc, bridgeInFlight, store>>

StartBridge(c) ==
  /\ pc[c] = "balance"
  /\ balance < Threshold /\ ~stopping
  /\ bridgeInFlight' = TRUE
  /\ job' = [job EXCEPT ![c].base = balance]
  /\ Goto(c, "bridge")
  /\ UNCHANGED <<bridgeVars, conf, stopping, proc, inFlight, store>>

\* bridgeFeeJuice: the secret is made and the deposit is sent.
SendBridge(c) ==
  /\ pc[c] = "bridge"
  /\ \E d \in Deposits :
       /\ Fresh(d)
       /\ SendDeposit(d)
       /\ job' = [job EXCEPT ![c].dep = d]
  /\ Goto(c, "receipt")
  /\ UNCHANGED <<balance, claimTxs, conf, stopping, procVars, store>>

\* ... it is mined, and its receipt is back.
BridgeMined(c) ==
  /\ pc[c] = "receipt"
  /\ status[job[c].dep] \in {"pending", "ready"}
  /\ Goto(c, "persist")
  /\ UNCHANGED <<bridgeVars, job, conf, stopping, procVars, store>>

\* bridgeFeeJuice throws, and the checker only logs it.  Nothing was sent, or what was
\* sent came to nothing ...
BridgeFails(c) ==
  /\ \/ /\ pc[c] = "bridge"
        /\ "l1" \in Faults \/ \A d \in Deposits : ~Fresh(d)
     \/ pc[c] = "receipt" /\ status[job[c].dep] = "unused"
  /\ EndBridge(c)
  /\ UNCHANGED <<bridgeVars, stopping, proc, store>>

\* ... or it was mined or may yet be, and the secret is gone with the error ("nonce too
\* low", a receipt that does not come in time).
BridgeLost(c) ==
  /\ "l1Lost" \in Faults
  /\ pc[c] = "receipt"
  /\ EndBridge(c)
  /\ UNCHANGED <<bridgeVars, stopping, proc, store>>

\* After "already known" it tries again, with another secret.  Attempts are not counted;
\* the nonces behind this are those of OperatorL1.
BridgeAgain(c) ==
  /\ "l1Lost" \in Faults
  /\ pc[c] = "receipt"
  /\ job' = [job EXCEPT ![c].dep = NoDeposit]
  /\ Goto(c, "bridge")
  /\ UNCHANGED <<bridgeVars, conf, stopping, procVars, store>>

\* onBridgeSubmitted, then the confirmation starts.
PersistNothing(c) == \* mutant: the onBridgeSubmitted hook is not wired up
  /\ pc[c] = "persist"
  /\ StartConfirmation(c, "topup", job[c].dep, job[c].base)
  /\ UNCHANGED <<bridgeVars, stopping, procVars, store>>
Persist(c) ==
  /\ pc[c] = "persist"
  /\ store' = [dep |-> job[c].dep, base |-> job[c].base, stale |-> FALSE]
  /\ StartConfirmation(c, "topup", job[c].dep, job[c].base)
  /\ UNCHANGED <<bridgeVars, stopping, procVars>>

\* The write throws: checkAndTopUp catches and logs it, and its result, the
\* claim secret included, is dropped with the cycle.
PersistFails(c) ==
  /\ "store" \in Faults
  /\ pc[c] = "persist"
  /\ EndBridge(c)
  /\ UNCHANGED <<bridgeVars, stopping, proc, store>>

\* onBridgeSettled: the record of a confirmed deposit is cleared, and a
\* removal that fails is only logged.
TopupConfirmed(c) ==
  /\ pc[c] = "confirmed" /\ job[c].mode = "topup"
  /\ ClearStore \/ ("store" \in Faults /\ UNCHANGED store)
  /\ EndBridge(c)
  /\ UNCHANGED <<bridgeVars, stopping, proc>>

\* Any other outcome keeps the record for the next reconciliation.
TopupAlwaysClears(c) == \* mutant: the record goes whatever the outcome
  /\ pc[c] \in Outcomes \ {"confirmed"} /\ job[c].mode = "topup"
  /\ ClearStore
  /\ EndBridge(c)
  /\ UNCHANGED <<bridgeVars, stopping, proc>>
TopupUnconfirmed(c) ==
  /\ pc[c] \in Outcomes \ {"confirmed"} /\ job[c].mode = "topup"
  /\ EndBridge(c)
  /\ UNCHANGED <<bridgeVars, stopping, proc, store>>

-----------------------------------------------------------------------------
(* The process and its store.                                              *)

Start ==
  /\ proc = "down"
  /\ proc' = "up"
  /\ UNCHANGED <<bridgeVars, confirmVars, inFlight, bridgeInFlight, store>>

\* requestShutdown, up to its first await.
RequestShutdown ==
  /\ proc = "up"
  /\ ~stopping
  /\ stopping' = TRUE
  /\ UNCHANGED <<bridgeVars, pc, job, conf, procVars, store>>

\* ... and after it: the cycle in flight is over, the process ends.
FinishShutdownHastily == \* mutant: the cycle in flight is not awaited
  /\ stopping
  /\ proc' = "down"
  /\ pc' = [c \in Cycles |-> "idle"]
  /\ job' = [c \in Cycles |-> NoJob]
  /\ conf' = [c \in Cycles |-> FreshConf]
  /\ stopping' = FALSE
  /\ inFlight' = NoCycle
  /\ bridgeInFlight' = FALSE
  /\ UNCHANGED <<bridgeVars, store>>
FinishShutdown ==
  /\ stopping
  /\ inFlight = NoCycle
  /\ proc' = "down"
  /\ stopping' = FALSE
  /\ UNCHANGED <<bridgeVars, pc, job, conf, inFlight, bridgeInFlight, store>>

Crash ==
  /\ "crash" \in Faults
  /\ proc = "up"
  /\ proc' = "down"
  /\ pc' = [c \in Cycles |-> "idle"]
  /\ job' = [c \in Cycles |-> NoJob]
  /\ conf' = [c \in Cycles |-> FreshConf]
  /\ stopping' = FALSE
  /\ inFlight' = NoCycle
  /\ bridgeInFlight' = FALSE
  /\ UNCHANGED <<bridgeVars, store>>

\* The operator claims the deposit on record by hand: always when automatic
\* claims are off, and in the "manual recovery" the eviction log calls for.
ManualClaim ==
  /\ "manualClaim" \in Faults
  /\ HasRecord /\ status[store.dep] = "ready"
  /\ claimTxs' = claimTxs \cup {store.dep}
  /\ UNCHANGED <<status, balance, confirmVars, procVars, store>>

RecordAges ==
  /\ HasRecord /\ ~store.stale
  /\ \/ "age" \in Faults
     \/ "ageClaimed" \in Faults /\ status[store.dep] = "claimed"
  /\ store' = [store EXCEPT !.stale = TRUE]
  /\ UNCHANGED <<bridgeVars, confirmVars, procVars>>

RecordCorrupts ==
  /\ "corrupt" \in Faults
  /\ HasRecord
  /\ store' = Corrupt
  /\ UNCHANGED <<bridgeVars, confirmVars, procVars>>

-----------------------------------------------------------------------------

ReconcileStep(c) ==
  \/ FindNoRecord(c) \/ DropCorruptRecord(c) \/ EvictRecord(c) \/ EvictFails(c)
  \/ ReconcileRecord(c) \/ ReconcileConfirmed(c) \/ ReconcileClearFails(c)
  \/ ReconcileUnconfirmed(c)

CheckStep(c) ==
  \/ StartCheck(c) \/ SkipCheck(c)
  \/ BalanceSuffices(c) \/ BalanceUnknown(c) \/ StartBridge(c)
  \/ SendBridge(c) \/ BridgeMined(c) \/ BridgeFails(c) \/ BridgeLost(c) \/ BridgeAgain(c)
  \/ Persist(c) \/ PersistFails(c)
  \/ TopupConfirmed(c) \/ TopupUnconfirmed(c)

\* A step of the code of cycle c.
CycleStep(c) ==
  \/ ReconcileStep(c)
  \/ CheckStep(c)
  \/ ConfirmStep(c) /\ UNCHANGED <<procVars, store>>

SettleCheck(c) == MessageCheckSettles(c) /\ UNCHANGED <<procVars, store>>

WorldStep == BridgeNext /\ UNCHANGED <<confirmVars, procVars, store>>

ProcessStep ==
  \/ Start \/ RequestShutdown \/ FinishShutdown \/ Crash
  \/ ManualClaim \/ RecordAges \/ RecordCorrupts

Next ==
  \/ \E c \in Cycles : Tick(c) \/ CycleStep(c) \/ SettleCheck(c)
  \/ WorldStep
  \/ ProcessStep

Spec == Init /\ [][Next]_vars
=============================================================================
