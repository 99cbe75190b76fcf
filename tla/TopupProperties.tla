-------------------------- MODULE TopupProperties --------------------------
(***************************************************************************)
(* What the top-up service promises, and the fairness its promises need.   *)
(***************************************************************************)
EXTENDS TopupService, FiniteSets

-----------------------------------------------------------------------------
(* Safety.                                                                 *)

\* Deposits whose claim secret the service still has: in the store, or in the
\* memory of a cycle that waits for its receipt, is about to persist or is confirming.
Unrecorded == {"receipt", "persist"}
Tracked ==
  (IF HasRecord THEN {store.dep} ELSE {})
    \cup {job[c].dep : c \in {x \in Cycles : pc[x] \in Unrecorded \cup Confirming}}

\* Sent, not credited, and nobody can claim them any more unless a claim
\* transaction is under way.
Lost == (Outstanding \ Tracked) \ claimTxs

\* Two cycles are never both between the decision to bridge and the record of
\* the bridge, however the ticks fall (createCycleRunner, checkAndTopUp).
OneBridgeAtATime ==
  \A c1, c2 \in Cycles :
    {pc[c1], pc[c2]} \subseteq {"bridge", "receipt", "persist"} => c1 = c2

\* While a cycle confirms a deposit, the store holds that deposit with that
\* baseline: a crash at any point of a confirmation loses nothing, and a
\* reconciliation after it compares with the same baseline.  (An entry that
\* rots meanwhile is the one exception.)
WatchedIsPersisted ==
  \A c \in Cycles :
    pc[c] \in Confirming =>
      \/ store = Corrupt
      \/ HasRecord /\ store.dep = job[c].dep /\ store.base = job[c].base

\* The service never bridges while a deposit is on record: it would overwrite
\* the only copy of that deposit's secret (index.ts skips the check).
NoBridgeOverRecord ==
  [][\A d \in Deposits :
       status[d] \in {"unused", "claimed"} /\ status'[d] = "sent" => ~HasRecord]_vars

\* A confirmed deposit was credited: growth of the balance is never taken for
\* a deposit that did not arrive (confirm.ts, pollUntilConfirmed).
ConfirmedMeansCredited ==
  \A c \in Cycles : pc[c] = "confirmed" => status[job[c].dep] = "claimed"

\* The service never has two deposits on their way.
OneDepositOutstanding == Cardinality(Outstanding) <= 1

\* ... and if a kill has made it lose some, one besides those.
OneDepositUnderWay == Cardinality(Outstanding \ Lost) <= 1

\* Stops, restarts and failing calls never make a deposit lose its secret.
NothingLost == Lost = {}

\* Nor does a kill or a bridge that throws, of any deposit but the one that was sent and
\* is not on record yet: nothing that was ever on record is lost (checker.ts:96-97).
LostOnlyBeforePersist ==
  [][Lost' \subseteq Lost \cup {job[c].dep : c \in {x \in Cycles : pc[x] \in Unrecorded}}]_vars

-----------------------------------------------------------------------------
(* What the service implements.                                            *)

\* The deposit on record; an unreadable entry records nothing.
Watched == IF HasRecord THEN store.dep ELSE NoDeposit

Strict == INSTANCE BridgeLedger WITH
  stage <- status, watched <- Watched, MayAbandon <- FALSE

Lenient == INSTANCE BridgeLedger WITH
  stage <- status, watched <- Watched, MayAbandon <- TRUE

\* Without external credits, store failures and evictions the service keeps the
\* strict ledger, through any number of kills, stops, restarts, node failures,
\* manual and dropped claims: a record goes only when its deposit was credited.
KeepsStrictLedger == Strict!LedgerSpec

\* Whatever fails, the deposit on record is never overwritten and no other is
\* made beside it.
KeepsLedger == Lenient!LedgerSpec

-----------------------------------------------------------------------------
(* Fairness.  The event loop runs every continuation whose promise settled, *)
(* the timer keeps ticking, calls return (the clients have timeouts), the   *)
(* rollup makes progress, and the supervisor restarts a process that ended. *)
(* Nothing is assumed of faults, stop requests, fees or external credits.   *)

Running == proc = "up" /\ ~stopping

\* L1 and the rollup make progress, a claim transaction is mined; time passes.
WorldFairness ==
  /\ \A d \in Deposits :
       /\ WF_vars(DepositMined(d) /\ UNCHANGED <<confirmVars, procVars, store>>)
       /\ WF_vars(MessageArrives(d) /\ UNCHANGED <<confirmVars, procVars, store>>)
       /\ SF_vars(ClaimLands(d) /\ UNCHANGED <<confirmVars, procVars, store>>)
  /\ WF_vars(RecordAges)

\* A node that fails now and then also answers now and then: balances are
\* read, and readiness answers come before the next attempt (a confirmation
\* lasts minutes, an answer takes seconds).  Deadlines pass.
AnswersComeThrough(c) ==
  /\ SF_vars(StartBridge(c) \/ BalanceSuffices(c))
  /\ SF_vars(PollBalance(c) /\ UNCHANGED <<procVars, store>>)
  /\ SF_vars(pc[c] = "attempt" /\ SettleCheck(c) /\ conf'[c].check = "ready")
  /\ SF_vars(DeadlinePasses(c) /\ UNCHANGED <<procVars, store>>)

CodeFairness ==
  /\ WF_vars(Start)
  /\ WF_vars(FinishShutdown)
  /\ WF_vars(\E c \in Cycles : Tick(c))
  /\ \A c \in Cycles :
       /\ WF_vars(CycleStep(c))
       /\ AnswersComeThrough(c)

FairSpec == Spec /\ WorldFairness /\ CodeFairness

-----------------------------------------------------------------------------
(* Liveness.                                                               *)

\* A stop request ends the process, whatever it was doing (registerShutdown-
\* Handlers waits for the cycle in flight, every wait of which is abortable
\* or bounded).
StopsWhenAsked == stopping ~> proc = "down"

\* If the service is left running, no record stays for ever: the deposit is
\* confirmed, or the record is evicted when it is a day old.
RecordsGetSettled == <>[]Running => (HasRecord ~> ~HasRecord)

\* If the service is left running, every deposit it made is claimed.
DepositsGetClaimed ==
  <>[]Running => \A d \in Deposits : d \in Outstanding ~> status[d] = "claimed"

\* If the service is left running, a low balance does not stay unanswered: it
\* recovers, a deposit is on record, or L1 funds are exhausted.
LowBalanceIsAnswered ==
  <>[]Running =>
    (balance < Threshold ~>
       balance >= Threshold \/ HasRecord \/ \A d \in Deposits : ~Fresh(d))
=============================================================================
