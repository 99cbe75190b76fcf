---------------------------- MODULE BridgeLedger ----------------------------
(***************************************************************************)
(* What the top-up service promises about deposits, without the process,   *)
(* the cycles, the confirmations or the ticks: one deposit is looked after *)
(* at a time, and no other is made meanwhile.                              *)
(*                                                                         *)
(* With MayAbandon = FALSE a deposit on record is let go of only when it   *)
(* was credited, and what is put on record is on its way.  With MayAbandon *)
(* = TRUE it is what remains when every fault may happen: a deposit may be *)
(* given up, but the one on record is never overwritten and never joined   *)
(* by another.                                                             *)
(***************************************************************************)
CONSTANTS Deposits, NoDeposit, MayAbandon

VARIABLES
  stage,    \* where each deposit stands, as FeeJuiceBridge's status
  watched   \* the deposit on record, or NoDeposit

ledgerVars == <<stage, watched>>

LedgerInit ==
  /\ stage = [d \in Deposits |-> "unused"]
  /\ watched = NoDeposit

Settled(d) == stage[d] \in {"unused", "claimed"}

\* A deposit is sent.
Submit(d) ==
  /\ watched = NoDeposit
  /\ Settled(d)
  /\ stage' = [stage EXCEPT ![d] = "sent"]
  /\ UNCHANGED watched

\* It is made, or comes to nothing; the one on record was made.
Make(d) ==
  /\ stage[d] = "sent"
  /\ \E outcome \in {"pending", "unused"} : stage' = [stage EXCEPT ![d] = outcome]
  /\ UNCHANGED watched

\* It is put on record.
Watch(d) ==
  /\ watched = NoDeposit
  /\ MayAbandon \/ stage[d] \in {"pending", "ready"}
  /\ watched' = d
  /\ UNCHANGED stage

Arrive(d) ==
  /\ stage[d] = "pending"
  /\ stage' = [stage EXCEPT ![d] = "ready"]
  /\ UNCHANGED watched

Credit(d) ==
  /\ stage[d] = "ready"
  /\ stage' = [stage EXCEPT ![d] = "claimed"]
  /\ UNCHANGED watched

\* The record is given up.
Release(d) ==
  /\ watched = d
  /\ MayAbandon \/ stage[d] = "claimed"
  /\ watched' = NoDeposit
  /\ UNCHANGED stage

LedgerNext ==
  \E d \in Deposits : Submit(d) \/ Make(d) \/ Watch(d) \/ Arrive(d) \/ Credit(d) \/ Release(d)

LedgerSpec == LedgerInit /\ [][LedgerNext]_ledgerVars
=============================================================================
