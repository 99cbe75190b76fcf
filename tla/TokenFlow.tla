----------------------------- MODULE TokenFlow -----------------------------
(***************************************************************************)
(* The way of an accepted token as one system: deposits and exits through  *)
(* the bridge, the faucet, and the SDK's cold starts, which compete for    *)
(* messages with claims by hand.                                           *)
(***************************************************************************)
EXTENDS Faucet, ColdStartClient

vars == <<bridgeVars, faucetVars, clientVars>>

Init == BridgeInit /\ FaucetInit /\ ClientInit

\* Public deposits fund the faucet (test-token.ts); users' own are private.
BridgeStep ==
  \/ SetConfig
  \/ \E d \in Deposits :
       \/ \E to \in {faucet, NoHolder} : DepositOnL1(d, to)
       \/ MessageLands(d)
       \/ \E to \in Users \cup {faucet} : ClaimPublic(d, to, Amount[d])
       \/ \E to \in Users : ProveClaimPrivate(d, to, Amount[d])
  \/ \E u \in Users :
       \/ ExitPublic(u, 1)
       \/ ProveExitPrivate(u, 1)
       \/ Shield(u, 1)
  \/ \E t \in pool : IncludeClaim(t) \/ IncludeExit(t) \/ DropCall(t)
  \/ WithdrawOnL1(1)
  \/ NewBlock

FaucetStep ==
  \E u \in Users :
    \/ Drip(u)
    \/ AdminDrip(u, 1)

Next ==
  \/ BridgeStep /\ UNCHANGED <<faucetVars, clientVars>>
  \/ FaucetStep /\ UNCHANGED clientVars
  \/ \E k \in Calls :
       \/ /\ \/ \E u \in Users, d \in Deposits : StartColdStart(k, u, d)
             \/ StartFails(k)
             \/ ClientStep(k)
          /\ UNCHANGED <<bridgeVars, faucetVars>>
       \/ /\ \E n \in Attempts : IncludeTx(k, n) \/ TxReverts(k, n) \/ TxDropped(k, n)
          /\ UNCHANGED faucetVars

\* The client's event loop runs on, proofs end and the deadline comes.
Fairness ==
  \A k \in Calls :
    WF_vars(ClientStep(k) /\ UNCHANGED <<bridgeVars, faucetVars>>)

Spec == Init /\ [][Next]_vars /\ Fairness

-----------------------------------------------------------------------------

InFlight == {d \in Deposits : message[d].stage \in {"sent", "landed"}}

\* Every token on L2, in a message or owed to an exit is backed by one in the
\* portal, and none is locked there for nobody: no deposit is claimed twice,
\* whoever claims it and however, and nothing leaves without being burned.
EscrowBacksSupply ==
  escrow = SumFunction(public) + SumFunction(private)
             + SumFunctionOnSet(Amount, InFlight) + withdrawals
=============================================================================
