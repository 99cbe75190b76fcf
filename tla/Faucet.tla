------------------------------- MODULE Faucet -------------------------------
(***************************************************************************)
(* The faucet (contracts/faucet/src/main.nr): gives every recipient a fixed *)
(* amount out of its public balance, at most once per cooldown; the admin  *)
(* gives any amount at any time.  A call that fails an assertion, or finds *)
(* the balance too low, reverts and leaves no trace.                       *)
(***************************************************************************)
EXTENDS TokenBridge

CONSTANTS
  faucet,           \* the contract's own account
  drip_amount,
  cooldown_seconds

ASSUME FaucetAssumption ==
  /\ faucet \in Holders
  /\ drip_amount \in Nat \ {0}
  /\ cooldown_seconds \in Nat

VARIABLES
  last_drip,        \* last_drip[h]: timestamp of the last drip to h
  drips             \* history: drips[h]: times at which h got a drip, and how often

faucetVars == <<last_drip, drips>>

\* Time starts late enough for a first drip, as unix time does.
Now == clock + cooldown_seconds

FaucetInit ==
  /\ last_drip = [h \in Holders |-> 0]
  /\ drips = [h \in Holders |-> 0]

TransferPublic(from, to, amount) ==
  public' = Credit(Debit(public, from, amount), to, amount)

CooldownNearlyOver(h) == Now - last_drip[h] + 1 >= cooldown_seconds \* mutant: one second early
CooldownOver(h) == Now - last_drip[h] >= cooldown_seconds

Drip(recipient) ==
  /\ cooldown_seconds > 0 => CooldownOver(recipient)
  /\ last_drip' = IF cooldown_seconds > 0 THEN [last_drip EXCEPT ![recipient] = Now]
                  ELSE last_drip
  /\ public[faucet] >= drip_amount
  /\ TransferPublic(faucet, recipient, drip_amount)
  /\ drips' = [drips EXCEPT ![recipient] = @ + 1]
  /\ UNCHANGED <<clock, configured, message, private, escrow, withdrawals, pool>>

\* Leaves last_drip alone.
AdminDrip(recipient, amount) ==
  /\ amount > 0
  /\ public[faucet] >= amount
  /\ TransferPublic(faucet, recipient, amount)
  /\ UNCHANGED <<clock, configured, message, private, escrow, withdrawals, pool,
                 faucetVars>>

-----------------------------------------------------------------------------

\* Up to any moment a recipient has had at most the first drip and one for each
\* whole cooldown since, whatever the admin gave it in between (main.nr: "Minimum
\* seconds between successive drips for the same recipient").
DripsAreSpaced ==
  \A h \in Holders :
    cooldown_seconds > 0 => drips[h] <= 1 + clock \div cooldown_seconds
=============================================================================
