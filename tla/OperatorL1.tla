------------------------------ MODULE OperatorL1 ------------------------------
(***************************************************************************)
(* The operator's account on L1 and the two programs that send from it at  *)
(* the same time: bridgeFeeJuice of the top-up service (topup/src/         *)
(* bridge.ts) and the script that keeps the account in Fee Juice           *)
(* (scripts/services/fund-l1-fee-juice.ts).  Both try again when L1        *)
(* answers with a conflict of nonces, in different ways.                   *)
(*                                                                         *)
(* A call is at one await: "nonce" (the next nonce is read), "send" (the   *)
(* transaction is handed over), "lost" (handed over and taken, and the     *)
(* answer got lost, so that the transport hands it over again), "receipt". *)
(*                                                                         *)
(* External: L1 and its pool.  A transaction is known by its nonce, as the *)
(* pool takes no second one for a nonce; it moves Fee Juice when it is     *)
(* mined, in the order of the nonces.                                      *)
(***************************************************************************)
EXTENDS Naturals, FiniteSets

CONSTANTS
  MaxNonce,       \* bound: transactions the account sends
  Bridges,        \* calls of bridgeFeeJuice
  script,         \* the run of the script
  Target,         \* targetBalanceWei
  MintAmount,     \* mintAmount of the FeeAssetHandler
  BridgeAmount    \* the top-up amount

ASSUME L1Assumption ==
  /\ script \notin Bridges
  /\ {Target, MintAmount, BridgeAmount, MaxNonce} \subseteq Nat \ {0}

MAX_NONCE_RETRY_ATTEMPTS == 3
Nonces == 0..MaxNonce - 1
Senders == Bridges \cup {script}

VARIABLES
  mints,    \* what the account may do: "direct", "handler" or "none"
  juice,    \* Fee Juice of the account on L1
  l1tx,     \* l1tx[n]: whose the transaction of nonce n is, what it moves, its fate
  call,     \* call[s]: where the bridge call or the script is
  known     \* history: calls that were told "already known"

l1Vars == <<mints, juice, l1tx, call, known>>

FreshCall == [at |-> "idle", nonce |-> 0, attempt |-> 1, mint |-> 0, turn |-> 0, way |-> "none"]
Unsent == [by |-> script, moves |-> "none", amount |-> 0, fate |-> "unsent"]

L1Init ==
  /\ mints \in {"direct", "handler", "none"}
  /\ juice \in {0, BridgeAmount}
  /\ l1tx = [n \in Nonces |-> Unsent]
  /\ call = [s \in Senders |-> FreshCall]
  /\ known = {}

-----------------------------------------------------------------------------

Mined == {n \in Nonces : l1tx[n].fate \in {"mined", "reverted"}}
Pooled == {n \in Nonces : l1tx[n].fate = "pooled"}

\* getTransactionCount, latest and pending.
LatestNonce == Cardinality(Mined)
PendingNonce ==
  CHOOSE n \in LatestNonce..MaxNonce :
    n \notin Pooled /\ LatestNonce..n - 1 \subseteq Pooled

Moves(s) == IF s = script THEN call[s].way ELSE "deposit"
MovedBy(s) ==
  CASE Moves(s) = "deposit" -> BridgeAmount
    [] Moves(s) = "direct" -> call[s].mint
    [] Moves(s) = "handler" -> MintAmount

\* A deposit needs the Fee Juice to be there, a mint the right to mint.
Works(tx) == IF tx.moves = "deposit" THEN juice >= tx.amount ELSE tx.moves = mints

Mine(n) ==
  /\ n \in Pooled /\ n = LatestNonce
  /\ l1tx' = [l1tx EXCEPT ![n].fate = IF Works(l1tx[n]) THEN "mined" ELSE "reverted"]
  /\ juice' = IF ~Works(l1tx[n]) THEN juice
              ELSE IF l1tx[n].moves = "deposit" THEN juice - l1tx[n].amount
              ELSE juice + l1tx[n].amount
  /\ UNCHANGED <<mints, call, known>>

-----------------------------------------------------------------------------

CallTo(s, place) == call' = [call EXCEPT ![s].at = place]

\* viem reads the pending count; readPendingNonce falls back to the latest one.
ReadNonce(s) ==
  /\ call[s].at = "nonce"
  /\ \E n \in {PendingNonce} \cup (IF s = script THEN {LatestNonce} ELSE {}) :
       call' = [call EXCEPT ![s].at = "send", ![s].nonce = n]
  /\ UNCHANGED <<mints, juice, l1tx, known>>

\* What a conflict does to a call.  bridgeFeeJuice stops at "nonce too low", as the
\* original was likely mined; the script refreshes its nonce and tries again.  When
\* the direct mint fails for good, the script goes on to the handler.
GivesUp(s) == IF call[s].way = "direct" THEN "reread" ELSE "failed"
TriesAlways(s, conflict) == \* mutant: every conflict is retried
  call[s].attempt < MAX_NONCE_RETRY_ATTEMPTS
TriesAfter(s, conflict) ==
  /\ s \in Bridges => conflict # "nonceTooLow"
  /\ call[s].attempt < MAX_NONCE_RETRY_ATTEMPTS

Conflict(s, conflict) ==
  /\ call' = [call EXCEPT ![s] =
       IF TriesAfter(s, conflict)
       THEN [call[s] EXCEPT !.at = "nonce", !.attempt = call[s].attempt + 1]
       ELSE [call[s] EXCEPT !.at = GivesUp(s)]]
  /\ known' = IF conflict = "alreadyKnown" THEN known \cup {s} ELSE known
  /\ UNCHANGED <<mints, juice, l1tx>>

SendRefused(s) ==
  /\ call[s].at = "send"
  /\ \/ call[s].nonce < LatestNonce /\ Conflict(s, "nonceTooLow")
     \/ call[s].nonce \in Pooled /\ Conflict(s, "replacement")

\* The transaction is in the pool, whether the call learns of it or not.
SendAccepted(s) ==
  /\ call[s].at = "send"
  /\ call[s].nonce \in Nonces \ (Mined \cup Pooled)
  /\ l1tx' = [l1tx EXCEPT ![call[s].nonce] =
       [by |-> s, moves |-> Moves(s), amount |-> MovedBy(s), fate |-> "pooled"]]
  /\ \E place \in {"receipt", "lost"} : CallTo(s, place)
  /\ UNCHANGED <<mints, juice, known>>

\* Handed over again: it is known, or its nonce is used up, by itself.
SendAgain(s) ==
  /\ call[s].at = "lost"
  /\ Conflict(s, IF call[s].nonce \in Pooled THEN "alreadyKnown" ELSE "nonceTooLow")

\* Any other error, of a send or of waiting: no funds, no answer, a revert foreseen.
SendFails(s) ==
  /\ call[s].at \in {"nonce", "send", "lost", "receipt"}
  /\ CallTo(s, GivesUp(s))
  /\ UNCHANGED <<mints, juice, l1tx, known>>

-----------------------------------------------------------------------------

\* bridgeFeeJuice: each attempt deposits for a claim secret of its own, and the call
\* returns the one of its last attempt.
StartBridge(b) ==
  /\ b \in Bridges /\ call[b].at = "idle"
  /\ CallTo(b, "nonce")
  /\ UNCHANGED <<mints, juice, l1tx, known>>

BridgeSubmitted(b) ==
  /\ b \in Bridges /\ call[b].at = "receipt"
  /\ l1tx[call[b].nonce].fate = "mined"
  /\ CallTo(b, "bridged")
  /\ UNCHANGED <<mints, juice, l1tx, known>>

\* main(): nothing to do, or the deficit is minted.
StartScript ==
  /\ call[script].at = "idle"
  /\ \/ CallTo(script, IF juice >= Target THEN "enough" ELSE "dryRun")
     \/ /\ juice < Target
        /\ call' = [call EXCEPT ![script].at = "nonce", ![script].way = "direct",
                                 ![script].mint = Target - juice]
  /\ UNCHANGED <<mints, juice, l1tx, known>>

\* A receipt that says success ends the direct mint and the loop's turn; one that
\* says reverted is an error like the others.
Confirmed(s) == l1tx[call[s].nonce].fate = "mined"

ScriptReceipt ==
  /\ call[script].at = "receipt" /\ Confirmed(script)
  /\ CallTo(script, IF call[script].way = "direct" THEN "done" ELSE "loop")
  /\ UNCHANGED <<mints, juice, l1tx, known>>

\* The final balance is read: that decides, or the handler is tried.
JudgeFinal == IF juice >= Target THEN "funded" ELSE "failed"

RereadBalance ==
  /\ call[script].at \in {"done", "reread"}
  /\ IF call[script].at = "done" \/ juice >= Target THEN CallTo(script, JudgeFinal)
     ELSE \/ CallTo(script, "failed")        \* no handler, or its amount cannot be read
          \/ call' = [call EXCEPT ![script] = [FreshCall EXCEPT !.at = "loop", !.way = "handler"]]
  /\ UNCHANGED <<mints, juice, l1tx, known>>

\* The first turn reads the nonce, the next ones count on from the last.
HandlerTurn ==
  /\ call[script].at = "loop"
  /\ IF juice >= Target THEN CallTo(script, "final")
     ELSE LET first == call[script].turn = 0
          IN  call' = [call EXCEPT ![script] = [call[script] EXCEPT
                !.at = IF first THEN "nonce" ELSE "send",
                !.nonce = IF first THEN 0 ELSE call[script].nonce + 1,
                !.attempt = 1, !.turn = call[script].turn + 1]]
  /\ UNCHANGED <<mints, juice, l1tx, known>>

FinalCheck ==
  /\ call[script].at = "final"
  /\ CallTo(script, JudgeFinal)
  /\ UNCHANGED <<mints, juice, l1tx, known>>

L1Next ==
  \/ \E n \in Nonces : Mine(n)
  \/ \E s \in Senders :
       ReadNonce(s) \/ SendRefused(s) \/ SendAccepted(s) \/ SendAgain(s) \/ SendFails(s)
  \/ \E b \in Bridges : StartBridge(b) \/ BridgeSubmitted(b)
  \/ StartScript \/ ScriptReceipt \/ RereadBalance \/ HandlerTurn \/ FinalCheck

L1Spec == L1Init /\ [][L1Next]_l1Vars

-----------------------------------------------------------------------------

\* A top-up deposits once, although it is retried and the script sends from the same
\* account (bridge.ts:52, "retrying would create a duplicate bridge").  A call that
\* is told "already known" is left out: it tries again beside the deposit that is
\* known.  And a call that returns a claim returns the one of a deposit that exists.
OneDepositPerBridge ==
  \A b \in Bridges :
    /\ b \notin known =>
         Cardinality({n \in Mined \cup Pooled : l1tx[n].by = b /\ l1tx[n].fate # "reverted"}) <= 1
    /\ call[b].at = "bridged" => l1tx[call[b].nonce].fate = "mined"
=============================================================================
