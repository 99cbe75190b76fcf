---------------------------- MODULE FeePayments ----------------------------
(***************************************************************************)
(* What the FPC promises about fees, without requests, proofs, pools,      *)
(* reverts or a contract in between: charging the FPC for a quote and      *)
(* paying the operator what the quote says are one step, out of the user's *)
(* balance or out of one deposit, the rest of which is the user's; it      *)
(* happens once for a quote, not after the quote's time, and costs the FPC *)
(* no more Fee Juice than the quote was for.  The FPC keeps nothing of a   *)
(* deposit, unless it is the user itself.                                  *)
(*                                                                         *)
(* With MintReverts a cold start may be charged for and pay nothing.       *)
(***************************************************************************)
EXTENDS Integers

CONSTANTS Users, operator, fpc, Assets, Claims, Deposited, MintReverts

VARIABLES
  time,      \* of the latest block
  offered,   \* quotes the operator asks for
  spent,     \* quotes the FPC was charged for
  redeemed,  \* deposits that paid for a cold start
  purse,     \* Fee Juice of the FPC
  held       \* held[a][x]: tokens of a user, of the operator or of the FPC

paymentVars == <<time, offered, spent, redeemed, purse, held>>

Parties == Users \cup {operator, fpc}

PaymentInit ==
  /\ time = 0
  /\ offered = {} /\ spent = {} /\ redeemed = {}
  /\ purse = 0
  /\ \A a \in Assets : held[a][operator] = 0 /\ held[a][fpc] = 0

-----------------------------------------------------------------------------

TimePasses ==
  /\ time' = time + 1
  /\ UNCHANGED <<offered, spent, redeemed, purse, held>>

Offer ==
  /\ offered \subseteq offered'
  /\ UNCHANGED <<time, spent, redeemed, purse, held>>

Refill ==
  /\ purse' > purse
  /\ UNCHANGED <<time, offered, spent, redeemed, held>>

\* A user spends a token elsewhere.
SpendElsewhere(a, u) ==
  /\ held[a][u] > 0
  /\ held' = [held EXCEPT ![a] = [held[a] EXCEPT ![u] = held[a][u] - 1]]
  /\ UNCHANGED <<time, offered, spent, redeemed, purse>>

Charge(q) ==
  /\ q \in offered \ spent
  /\ time <= q.until
  /\ purse - purse' \in 0..q.fj /\ purse' >= 0
  /\ spent' = spent \cup {q}
  /\ UNCHANGED <<time, offered>>

\* payer hands over amount of the asset: the operator gets what the quote says,
\* the user the rest.  It must have been the payer's.
Share(before, q, payer, amount) ==
  LET gets(x) == (IF x = q.user THEN amount - q.aa ELSE 0)
                   + (IF x = operator THEN q.aa ELSE 0)
                   - (IF x = payer THEN amount ELSE 0)
  IN /\ held' = [before EXCEPT ![q.asset] =
                   [x \in Parties |-> before[q.asset][x] + gets(x)]]
     /\ held'[q.asset][payer] >= 0

PayFromBalance(q) ==
  /\ Charge(q)
  /\ q.domain = "FPC"
  /\ q.user # fpc
  /\ Share(held, q, q.user, q.aa)
  /\ UNCHANGED redeemed

\* What the deposit brings is the FPC's for a moment.
PayFromDeposit(q, c) ==
  LET came == Deposited[c]
      brought == [held EXCEPT ![came.asset] =
                    [x \in Parties |-> held[came.asset][x] + IF x = fpc THEN came.amount ELSE 0]]
  IN /\ Charge(q)
     /\ q.domain = "FPCs"
     /\ c \notin redeemed
     /\ came.amount = q.amount
     /\ q.amount >= q.aa
     /\ Share(brought, q, fpc, q.amount)
     /\ redeemed' = redeemed \cup {c}

Lose(q) ==
  /\ MintReverts
  /\ Charge(q)
  /\ q.domain = "FPCs"
  /\ UNCHANGED <<redeemed, held>>

PaymentNext ==
  \/ TimePasses \/ Offer \/ Refill
  \/ \E a \in Assets, u \in Users \ {fpc} : SpendElsewhere(a, u)
  \/ \E q \in offered :
       \/ PayFromBalance(q)
       \/ \E c \in Claims : PayFromDeposit(q, c)
       \/ Lose(q)

PaymentSpec == PaymentInit /\ [][PaymentNext]_paymentVars
=============================================================================
