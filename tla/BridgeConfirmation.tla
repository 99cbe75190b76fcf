------------------------- MODULE BridgeConfirmation -------------------------
(***************************************************************************)
(* waitForFeeJuiceBridgeConfirmation (services/topup/src/confirm.ts): the  *)
(* loop in which one cycle of the service waits for its deposit, claims it *)
(* when its message is ready, and decides from the balance of the target   *)
(* whether the deposit arrived.                                            *)
(*                                                                         *)
(* A cycle runs at most one confirmation at a time, so everything here is  *)
(* indexed by the cycle.  The readiness check runs beside the loop and may *)
(* settle between any two of its steps.  Time is not modelled: a sleep may *)
(* end with the deadline passed, and the first attempt is always made.     *)
(*                                                                         *)
(* Not modelled here: what a claim does inside (the sponsored payment and  *)
(* its fallback), the polling intervals, and the counters of the result.   *)
(***************************************************************************)
EXTENDS FeeJuiceBridge

CONSTANTS
  Cycles,       \* runs of the service's cycle, one per timer tick
  AutoClaim,    \* TRUE when TOPUP_AUTOCLAIM_ENABLED is not "0"
  NoDeposit     \* stands for "no deposit"

ASSUME ConfirmationAssumption ==
  /\ AutoClaim \in BOOLEAN
  /\ NoDeposit \notin Deposits

VARIABLES
  pc,           \* pc[c]: where cycle c is
  job,          \* job[c]: the deposit cycle c looks after
  conf,         \* conf[c]: BridgeConfirmationState of cycle c
  stopping      \* the abort signal, set with the checker's own stop flag

confirmVars == <<pc, job, conf, stopping>>

\* Places inside the loop, and the four ways it can end.
Loop == {"attempt", "claim", "poll", "decide", "sleep", "expired"}
Outcomes == {"confirmed", "timedOut", "aborted", "threw"}
Confirming == Loop \cup Outcomes

\* mode: who waits, reconcile.ts ("reconcile") or checker.ts ("topup");
\* base: the balance above which the deposit counts as credited.
NoJob == [mode |-> "topup", dep |-> NoDeposit, base |-> 0]
Jobs == [mode : {"topup", "reconcile"},
         dep  : Deposits \cup {NoDeposit},
         base : Nat]

\* check: the readiness check is "pending" (also when it answered "not in
\*        time"), found the message "ready", or "failed";
\* tried: messageReadyActionAttempted;  read: successfulReads > 0;
\* grown: maxObservedBalance > baselineBalance.
FreshConf == [check |-> "pending", tried |-> FALSE, read |-> FALSE, grown |-> FALSE]
Confs == [check : {"pending", "ready", "failed"},
          tried : BOOLEAN, read : BOOLEAN, grown : BOOLEAN]

-----------------------------------------------------------------------------

Goto(c, place) == pc' = [pc EXCEPT ![c] = place]

\* Where a confirmation starts: an abort signal raised earlier ends it before
\* the first poll.  Used by the step that calls the confirmation.
FirstPlace == IF stopping THEN "aborted" ELSE "attempt"

\* The readiness check answers, beside the loop.
MessageCheckSettles(c) ==
  /\ pc[c] \in Loop
  /\ conf[c].check = "pending"
  /\ \E answer \in {"ready", "failed"} :
       /\ answer = "ready" => status[job[c].dep] \in {"ready", "claimed"}
       /\ answer = "failed" => "messageCheck" \in Faults
       /\ conf' = [conf EXCEPT ![c].check = answer]
  /\ UNCHANGED <<bridgeVars, pc, job, stopping>>

\* The message-ready action is due once per confirmation, and never again
\* after an attempt, whether that attempt succeeded or not.
ClaimDueToTopupOnly(c) == \* mutant: a reconciliation is given no claim callback
  AutoClaim /\ conf[c].check = "ready" /\ ~conf[c].tried /\ job[c].mode = "topup"
ClaimDue(c) == AutoClaim /\ conf[c].check = "ready" /\ ~conf[c].tried

\* Top of the loop: stop on an abort, else claim if that is due, else poll.
Attempt(c) ==
  /\ pc[c] = "attempt"
  /\ ~(ClaimDue(c) /\ ~stopping)
  /\ Goto(c, IF stopping THEN "aborted" ELSE "poll")
  /\ UNCHANGED <<bridgeVars, job, conf, stopping>>

\* autoClaimer.claim sends a claim transaction; a deposit whose message is
\* already consumed fails in simulation and nothing is sent.
SubmitClaim(c) ==
  /\ pc[c] = "attempt"
  /\ ClaimDue(c)
  /\ ~stopping
  /\ conf' = [conf EXCEPT ![c].tried = TRUE]
  /\ claimTxs' = IF status[job[c].dep] = "ready"
                 THEN claimTxs \cup {job[c].dep} ELSE claimTxs
  /\ Goto(c, "claim")
  /\ UNCHANGED <<status, balance, job, stopping>>

\* The claim returns or throws, and the loop goes on either way: once its
\* transaction is mined or gone, or when waiting for it timed out.
ClaimReturns(c) ==
  /\ pc[c] = "claim"
  /\ "claim" \in Faults \/ job[c].dep \notin claimTxs
  /\ Goto(c, "poll")
  /\ UNCHANGED <<bridgeVars, job, conf, stopping>>

\* A balance is read; growth is kept, so a later fall does not undo it.
RecordPoll(c, grows) ==
  /\ pc[c] = "poll"
  /\ LET grown == conf[c].grown \/ grows
     IN  /\ conf' = [conf EXCEPT ![c].read = TRUE, ![c].grown = grown]
         /\ Goto(c, IF grown THEN "decide" ELSE "sleep")
  /\ UNCHANGED <<bridgeVars, job, stopping>>

PollBalanceNotLess(c) == \* mutant: no fall counts as growth
  RecordPoll(c, balance >= job[c].base)
PollBalance(c) == RecordPoll(c, balance > job[c].base)

PollFails(c) ==
  /\ "node" \in Faults
  /\ pc[c] = "poll"
  /\ Goto(c, "sleep")
  /\ UNCHANGED <<bridgeVars, job, conf, stopping>>

\* Growth confirms the deposit if its message is ready, or if there is no
\* telling because the readiness check failed.
Decide(c) ==
  /\ pc[c] = "decide"
  /\ Goto(c, IF conf[c].check # "pending" THEN "confirmed" ELSE "sleep")
  /\ UNCHANGED <<bridgeVars, job, conf, stopping>>

\* waitForNextPoll, and the deadline of the loop.
WakeUp(c) ==
  /\ pc[c] = "sleep"
  /\ Goto(c, IF stopping THEN "aborted" ELSE "attempt")
  /\ UNCHANGED <<bridgeVars, job, conf, stopping>>

DeadlinePasses(c) ==
  /\ pc[c] = "sleep"
  /\ Goto(c, "expired")
  /\ UNCHANGED <<bridgeVars, job, conf, stopping>>

\* Nothing was read and nothing is known: that is an error, not a timeout.
Expire(c) ==
  /\ pc[c] = "expired"
  /\ Goto(c, IF ~conf[c].read /\ conf[c].check # "ready" THEN "threw" ELSE "timedOut")
  /\ UNCHANGED <<bridgeVars, job, conf, stopping>>

ConfirmStep(c) ==
  \/ Attempt(c) \/ SubmitClaim(c) \/ ClaimReturns(c)
  \/ PollBalance(c) \/ PollFails(c) \/ Decide(c)
  \/ WakeUp(c) \/ DeadlinePasses(c) \/ Expire(c)
=============================================================================
