--------------------------- MODULE ColdStartProofs ---------------------------
(***************************************************************************)
(* A cold start of the SDK takes effect once at most, however many of its   *)
(* attempts were sent, and is reported truly, while others claim by hand,  *)
(* deposit, exit and use the faucet: for any number of calls, users,       *)
(* deposits and attempts.                                                  *)
(*                                                                         *)
(* OneTakesEffect needs that what was included has spent the quote that    *)
(* all attempts of the call share; ResultMeansClaimed that a message, once *)
(* consumed, stays so, and that two transactions for one message are not   *)
(* both mined.                                                             *)
(***************************************************************************)
EXTENDS TokenFlow, FiniteSetTheorems, WellFoundedInduction, TLAPS

Fates == {"not sent", "pooled", "mined", "reverted", "dropped"}
CallType == [at : Places, attempt : Attempts, quote : SUBSET Quotes]

FlowTypeOK ==
  /\ clock \in 0..MaxClock
  /\ message \in [Deposits -> Messages]
  /\ call \in [Calls -> CallType]
  /\ sent \in [Calls -> [Attempts -> Fates]]

Asked(k) == \E q \in Quotes : call[k].quote = {q}

AskedFirst ==
  \A k \in Calls :
    /\ call[k].at \in {"proving", "sending", "waiting"} => Asked(k)
    /\ \A n \in Attempts :
         sent[k][n] # "not sent" => Asked(k) /\ call[k].at # "idle"

Effective == {"mined", "reverted"}

\* What was included has spent the quote of its call.
EffectsSpend ==
  \A k \in Calls, n \in Attempts : sent[k][n] \in Effective => Quote(k) \in spentQuotes

MinedClaims ==
  \A k \in Calls, n \in Attempts :
    sent[k][n] = "mined" => message[Quote(k).deposit].stage = "consumed"

\* A transaction of the call has claimed the deposit.
Takes(k, d) == (\E n \in Attempts : sent[k][n] = "mined") /\ Quote(k).deposit = d

MinedOnce ==
  \A j, k \in Calls, d \in Deposits : Takes(j, d) /\ Takes(k, d) => j = k

ReturnedIsMined == \A k \in Calls : call[k].at = "returned" => Tx(k) = "mined"

IInv ==
  /\ FlowTypeOK /\ AskedFirst /\ EffectsSpend /\ OneTakesEffect
  /\ MinedClaims /\ MinedOnce /\ ReturnedIsMined

-----------------------------------------------------------------------------

LEMMA QuoteIs ==
  ASSUME NEW k \in Calls, Asked(k)
  PROVE  Quote(k) \in Quotes /\ call[k].quote = {Quote(k)}
  BY DEF Asked, Quote

LEMMA DepositIs ==
  ASSUME NEW k \in Calls, Asked(k)
  PROVE  Quote(k).deposit \in Deposits
  BY QuoteIs DEF Quotes

\* The quote of a call is what the call says it is.
LEMMA QuoteLasts ==
  ASSUME NEW k \in Calls, call'[k].quote = call[k].quote
  PROVE  Quote(k)' = Quote(k) /\ (Asked(k) => Asked(k)')
  BY DEF Quote, Asked

LEMMA InitIInv == Init => IInv
  <1> SUFFICES ASSUME Init
               PROVE  IInv
    OBVIOUS
  <1>1. message \in [Deposits -> Messages]
    BY BridgeAssumption DEF Init, BridgeInit, Messages, Stages
  <1>2. 1 \in Attempts
    BY ClientAssumption DEF Attempts
  <1>a. clock \in 0..MaxClock
    BY BridgeAssumption DEF Init, BridgeInit
  <1>3. call \in [Calls -> CallType] /\ sent \in [Calls -> [Attempts -> Fates]]
    BY <1>2 DEF Init, ClientInit, CallType, Places, Fates
  <1>4. /\ \A k \in Calls : call[k].at = "idle"
        /\ \A k \in Calls, n \in Attempts : sent[k][n] = "not sent"
    BY DEF Init, ClientInit
  <1>5. AskedFirst /\ EffectsSpend /\ MinedClaims /\ MinedOnce /\ ReturnedIsMined
    BY <1>4 DEF AskedFirst, EffectsSpend, Effective, MinedClaims, MinedOnce, Takes, ReturnedIsMined
  <1>6. OneTakesEffect
    BY <1>4 DEF OneTakesEffect
  <1> QED
    BY <1>1, <1>a, <1>3, <1>5, <1>6 DEF IInv, FlowTypeOK

\* A message that is consumed stays so.
StaysConsumed ==
  \A d \in Deposits : message[d].stage = "consumed" => message'[d].stage = "consumed"

\* What others do.
LEMMA OthersKeep ==
  ASSUME IInv, UNCHANGED clientVars, clock' \in 0..MaxClock, message' \in [Deposits -> Messages], StaysConsumed
  PROVE  IInv'
  <1>1. \A k \in Calls : Quote(k)' = Quote(k) /\ (Asked(k) => Asked(k)') /\ Tx(k)' = Tx(k)
    BY QuoteLasts DEF clientVars, Tx
  <1>2. MinedClaims'
    BY <1>1, DepositIs DEF IInv, AskedFirst, MinedClaims, StaysConsumed, clientVars
  <1>3. MinedOnce'
    <2>1. MinedOnce
      BY DEF IInv
    <2>2. ASSUME NEW j \in Calls, NEW d \in Deposits
          PROVE  Takes(j, d)' <=> Takes(j, d)
      BY <1>1 DEF Takes, clientVars
    <2> QED
      BY <2>1, <2>2 DEF MinedOnce
  <1>6. AskedFirst'
    BY <1>1 DEF IInv, AskedFirst, clientVars
  <1>4. EffectsSpend' /\ ReturnedIsMined'
    BY <1>1 DEF IInv, EffectsSpend, ReturnedIsMined, clientVars
  <1>7. OneTakesEffect'
    BY DEF IInv, OneTakesEffect, clientVars
  <1>5. FlowTypeOK'
    BY DEF IInv, FlowTypeOK, clientVars
  <1> QED
    BY <1>2, <1>3, <1>4, <1>5, <1>6, <1>7 DEF IInv

LEMMA MessageSteps ==
  ASSUME FlowTypeOK, NEW d, NEW stage \in Stages,
         message' = SetStage(d, stage),
         stage = "consumed" \/ message[d].stage # "consumed"
  PROVE  message' \in [Deposits -> Messages] /\ StaysConsumed
  BY DEF FlowTypeOK, SetStage, Messages, StaysConsumed

LEMMA BridgeKeeps ==
  ASSUME IInv, BridgeStep, UNCHANGED clientVars
  PROVE  IInv'
  <1>0. FlowTypeOK
    BY DEF IInv
  <1>a. clock' \in 0..MaxClock
    <2>1. clock \in 0..MaxClock /\ MaxClock \in Nat
      BY <1>0, BridgeAssumption DEF FlowTypeOK
    <2>2. CASE NewBlock
      BY <2>1, <2>2 DEF NewBlock
    <2>3. ASSUME ~NewBlock
          PROVE  UNCHANGED clock
      BY <2>3
         DEF BridgeStep, SetConfig, DepositOnL1, MessageLands, ClaimPublic, ProveClaimPrivate,
             IncludeClaim, ExitPublic, ProveExitPrivate, IncludeExit, Shield, DropCall,
             WithdrawOnL1
    <2> QED
      BY <2>1, <2>2, <2>3
  <1>1. ASSUME NEW d \in Deposits, NEW to \in {faucet, NoHolder}, DepositOnL1(d, to)
        PROVE  message' \in [Deposits -> Messages] /\ StaysConsumed
    <2>1. to \in Holders \cup {NoHolder}
      BY FaucetAssumption
    <2> QED
      BY <1>0, <1>1, <2>1 DEF DepositOnL1, FlowTypeOK, Messages, Stages, StaysConsumed
  <1>2. ASSUME NEW d, NEW stage \in {"landed", "consumed"}, message' = SetStage(d, stage),
               stage = "consumed" \/ message[d].stage # "consumed"
        PROVE  message' \in [Deposits -> Messages] /\ StaysConsumed
    BY <1>0, <1>2, MessageSteps DEF Stages
  <1>3. CASE UNCHANGED message
    BY <1>0, <1>3, <1>a, OthersKeep DEF FlowTypeOK, StaysConsumed
  <1>4. ASSUME NEW d \in Deposits, MessageLands(d)
        PROVE  IInv'
    BY <1>2, <1>4, <1>a, OthersKeep DEF MessageLands
  <1>5. ASSUME NEW d \in Deposits, NEW to, ClaimPublic(d, to, Amount[d])
        PROVE  IInv'
    BY <1>2, <1>5, <1>a, OthersKeep DEF ClaimPublic
  <1>6. ASSUME NEW t \in pool, IncludeClaim(t)
        PROVE  IInv'
    BY <1>2, <1>6, <1>a, OthersKeep DEF IncludeClaim
  <1>7. ASSUME NEW d \in Deposits, NEW to \in {faucet, NoHolder}, DepositOnL1(d, to)
        PROVE  IInv'
    BY <1>1, <1>7, <1>a, OthersKeep
  <1> QED
    BY <1>3, <1>4, <1>5, <1>6, <1>7
       DEF BridgeStep, SetConfig, ProveClaimPrivate, ExitPublic, ProveExitPrivate, Shield,
           IncludeExit, DropCall, WithdrawOnL1, NewBlock, balances

LEMMA FaucetKeeps ==
  ASSUME IInv, FaucetStep, UNCHANGED clientVars
  PROVE  IInv'
  <1>1. UNCHANGED <<clock, message>>
    BY DEF FaucetStep, Drip, AdminDrip
  <1> QED
    BY <1>1, OthersKeep DEF IInv, FlowTypeOK, StaysConsumed

-----------------------------------------------------------------------------

\* The transaction claims the deposit of its call.
Claims(k) ==
  /\ message[Quote(k).deposit].stage # "consumed"
  /\ message'[Quote(k).deposit].stage = "consumed"

\* The transaction spends the quote of its call.
Spends(k) == Quote(k) \notin spentQuotes /\ Quote(k) \in spentQuotes'

OneEffect(row) ==
  \A m, n \in Attempts : row[m] \in Effective /\ row[n] \in Effective => m = n

LEMMA OneEffectEach ==
  ASSUME OneTakesEffect, NEW k \in Calls
  PROVE  OneEffect(sent[k])
  BY DEF OneTakesEffect, OneEffect, Effective

\* A step of one call, or of one of its transactions.
LEMMA CallMoves ==
  ASSUME IInv, NEW k \in Calls, NEW c \in CallType, NEW row \in [Attempts -> Fates],
         call' = [call EXCEPT ![k] = c], sent' = [sent EXCEPT ![k] = row],
         UNCHANGED clock, message' \in [Deposits -> Messages], StaysConsumed,
         c.at \in {"proving", "sending", "waiting"} => Asked(k)',
         \A n \in Attempts : row[n] # "not sent" =>
           c.quote = call[k].quote /\ Asked(k) /\ c.at # "idle",
         \A n \in Attempts : row[n] = "mined" => sent[k][n] = "mined" \/ Claims(k),
         \A n \in Attempts : row[n] \in Effective => sent[k][n] \in Effective \/ Spends(k),
         OneEffect(row), spentQuotes \subseteq spentQuotes',
         c.at = "returned" => row[c.attempt] = "mined"
  PROVE  IInv'
  <1>1. \A j \in Calls :
          /\ call'[j] = IF j = k THEN c ELSE call[j]
          /\ sent'[j] = IF j = k THEN row ELSE sent[j]
    BY DEF IInv, FlowTypeOK
  <1>a. /\ call'[k] = c /\ sent'[k] = row
        /\ \A j \in Calls \ {k} : call'[j] = call[j] /\ sent'[j] = sent[j]
    BY <1>1
  <1>2. ASSUME NEW j \in Calls, call'[j].quote = call[j].quote
        PROVE  Quote(j)' = Quote(j) /\ (Asked(j) => Asked(j)')
    BY <1>2, QuoteLasts
  <1>3. ASSUME NEW j \in Calls, NEW n \in Attempts, sent'[j][n] \in Effective
        PROVE  /\ Quote(j)' = Quote(j) /\ Asked(j) /\ call'[j].quote = call[j].quote
               /\ sent'[j][n] = "mined" => sent[j][n] = "mined" \/ (j = k /\ Claims(k))
               /\ sent[j][n] \in Effective \/ (j = k /\ Spends(k))
    <2>1. CASE j = k
      <3>1. call'[j] = c /\ sent'[j] = row
        BY <1>a, <2>1
      <3>2. row[n] \in Effective /\ row[n] # "not sent"
        BY <1>3, <3>1 DEF Effective
      <3>3. c.quote = call[k].quote /\ Asked(k)
        BY <3>2
      <3>4. /\ row[n] = "mined" => sent[k][n] = "mined" \/ Claims(k)
            /\ sent[k][n] \in Effective \/ Spends(k)
        BY <3>2
      <3>5. call'[j].quote = call[j].quote
        BY <2>1, <3>1, <3>3
      <3>6. Quote(j)' = Quote(j)
        BY <1>2, <3>5
      <3> QED
        BY <2>1, <3>1, <3>3, <3>4, <3>5, <3>6
    <2>2. CASE j # k
      <3>1. call'[j] = call[j] /\ sent'[j] = sent[j]
        BY <1>a, <2>2
      <3>2. AskedFirst
        BY DEF IInv
      <3>3. Quote(j)' = Quote(j)
        BY <1>2, <3>1
      <3>4. sent[j][n] \in Effective /\ sent[j][n] = sent'[j][n]
        BY <1>3, <3>1
      <3>5. Asked(j)
        BY <3>2, <3>4 DEF AskedFirst, Effective
      <3> QED
        BY <3>1, <3>3, <3>4, <3>5
    <2> QED
      BY <2>1, <2>2
  <1>4. FlowTypeOK'
    BY DEF IInv, FlowTypeOK
  <1>5. AskedFirst'
    <2>1. AskedFirst
      BY DEF IInv
    <2>2. ASSUME NEW j \in Calls
          PROVE  /\ call'[j].at \in {"proving", "sending", "waiting"} => Asked(j)'
                 /\ \A n \in Attempts :
                      sent'[j][n] # "not sent" => Asked(j)' /\ call'[j].at # "idle"
      <3>1. CASE j = k
        <4>1. call'[k] = c /\ sent'[k] = row
          BY <1>a
        <4>2. call'[k].at \in {"proving", "sending", "waiting"} => Asked(k)'
          BY <4>1
        <4>3. ASSUME NEW n \in Attempts, sent'[k][n] # "not sent"
              PROVE  Asked(k)' /\ call'[k].at # "idle"
          <5>1. row[n] # "not sent"
            BY <4>1, <4>3
          <5>2. c.quote = call[k].quote /\ Asked(k) /\ c.at # "idle"
            BY <5>1
          <5> QED
            BY <1>2, <4>1, <5>2
        <4> QED
          BY <3>1, <4>2, <4>3
      <3>2. CASE j # k
        <4>1. call'[j] = call[j] /\ sent'[j] = sent[j]
          BY <1>a, <3>2
        <4>2. Asked(j) => Asked(j)'
          BY <1>2, <4>1
        <4> QED
          BY <2>1, <4>1, <4>2 DEF AskedFirst
      <3> QED
        BY <3>1, <3>2
    <2> QED
      BY <2>2 DEF AskedFirst
  <1>6. EffectsSpend' /\ OneTakesEffect'
    <2>1. EffectsSpend /\ OneTakesEffect
      BY DEF IInv
    <2>2. ASSUME NEW j \in Calls, NEW n \in Attempts, sent'[j][n] \in Effective
          PROVE  Quote(j)' \in spentQuotes'
      BY <1>3, <2>1, <2>2 DEF EffectsSpend, Spends
    <2>3. ASSUME NEW j \in Calls, NEW m \in Attempts, NEW n \in Attempts,
                 {sent'[j][m], sent'[j][n]} \subseteq Effective
          PROVE  m = n
      <3>0. sent'[j][m] \in Effective /\ sent'[j][n] \in Effective
        BY <2>3
      <3>1. CASE j = k
        <4>1. row[m] \in Effective /\ row[n] \in Effective
          BY <1>a, <3>0, <3>1
        <4> QED
          BY <4>1 DEF OneEffect
      <3>2. CASE j # k
        <4>1. sent'[j] = sent[j]
          BY <1>a, <3>2
        <4>2. OneEffect(sent[j])
          BY <2>1, OneEffectEach
        <4> QED
          BY <3>0, <4>1, <4>2 DEF OneEffect
      <3> QED
        BY <3>1, <3>2
    <2> QED
      BY <2>2, <2>3 DEF EffectsSpend, OneTakesEffect, Effective
  <1>7. MinedClaims'
    <2>1. MinedClaims
      BY DEF IInv
    <2>2. SUFFICES ASSUME NEW j \in Calls, NEW n \in Attempts, sent'[j][n] = "mined"
                   PROVE  message'[Quote(j)'.deposit].stage = "consumed"
      BY DEF MinedClaims
    <2>3. Quote(j)' = Quote(j) /\ Asked(j)
      BY <1>3, <2>2 DEF Effective
    <2>4. CASE sent[j][n] = "mined"
      <3>1. message[Quote(j).deposit].stage = "consumed"
        BY <2>1, <2>4 DEF MinedClaims
      <3> QED
        BY <2>3, <3>1, DepositIs DEF StaysConsumed
    <2>5. CASE j = k /\ Claims(k)
      BY <2>3, <2>5 DEF Claims
    <2> QED
      BY <1>3, <2>2, <2>4, <2>5 DEF Effective
  <1>8. MinedOnce'
    <2>1. MinedOnce /\ MinedClaims
      BY DEF IInv
    <2>2. ASSUME NEW j \in Calls, NEW d \in Deposits, Takes(j, d)'
          PROVE  Takes(j, d) \/ (j = k /\ Claims(k) /\ d = Quote(k).deposit)
      <3>1. PICK n \in Attempts : sent'[j][n] = "mined"
        BY <2>2 DEF Takes
      <3>2. Quote(j)'.deposit = d
        BY <2>2 DEF Takes
      <3>3. Quote(j)' = Quote(j) /\ (sent[j][n] = "mined" \/ (j = k /\ Claims(k)))
        BY <1>3, <3>1 DEF Effective
      <3> QED
        BY <3>2, <3>3 DEF Takes
    <2>3. ASSUME NEW j \in Calls, NEW d \in Deposits, Takes(j, d)
          PROVE  message[d].stage = "consumed"
      BY <2>1, <2>3 DEF Takes, MinedClaims
    <2>4. Claims(k) => message[Quote(k).deposit].stage # "consumed"
      BY DEF Claims
    <2>5. ASSUME NEW i \in Calls, NEW j \in Calls, NEW d \in Deposits, Takes(i, d)', Takes(j, d)'
          PROVE  i = j
      <3>1. Takes(i, d) \/ (i = k /\ Claims(k) /\ d = Quote(k).deposit)
        BY <2>2, <2>5
      <3>2. Takes(j, d) \/ (j = k /\ Claims(k) /\ d = Quote(k).deposit)
        BY <2>2, <2>5
      <3>3. Takes(i, d) /\ Takes(j, d) => i = j
        BY <2>1 DEF MinedOnce
      <3>4. Takes(i, d) \/ Takes(j, d) => message[d].stage = "consumed"
        BY <2>3
      <3> QED
        BY <2>4, <3>1, <3>2, <3>3, <3>4
    <2> QED
      BY <2>5 DEF MinedOnce
  <1>9. ReturnedIsMined'
    <2>1. ReturnedIsMined
      BY DEF IInv
    <2>2. ASSUME NEW j \in Calls, call'[j].at = "returned"
          PROVE  sent'[j][call'[j].attempt] = "mined"
      <3>1. CASE j = k
        BY <1>a, <2>2, <3>1
      <3>2. CASE j # k
        <4>1. call'[j] = call[j] /\ sent'[j] = sent[j]
          BY <1>a, <3>2
        <4> QED
          BY <2>1, <2>2, <4>1 DEF ReturnedIsMined, Tx
      <3> QED
        BY <3>1, <3>2
    <2> QED
      BY <2>2 DEF ReturnedIsMined, Tx
  <1> QED
    BY <1>4, <1>5, <1>6, <1>7, <1>8, <1>9 DEF IInv

\* Where a call is, and what it has sent.
LEMMA AtCall ==
  ASSUME IInv, NEW k \in Calls
  PROVE  /\ call[k] \in CallType /\ sent[k] \in [Attempts -> Fates]
         /\ call[k].at \in {"proving", "sending", "waiting"} => Asked(k)
         /\ call[k].at = "idle" => \A n \in Attempts : sent[k][n] = "not sent"
         /\ \A n \in Attempts : sent[k][n] # "not sent" => Asked(k)
         /\ OneEffect(sent[k])
         /\ call = [call EXCEPT ![k] = call[k]] /\ sent = [sent EXCEPT ![k] = sent[k]]
  <1>1. OneEffect(sent[k])
    BY OneEffectEach DEF IInv
  <1> QED
    BY <1>1 DEF IInv, FlowTypeOK, AskedFirst

LEMMA MessageKeeps ==
  ASSUME IInv, UNCHANGED message
  PROVE  message' \in [Deposits -> Messages] /\ StaysConsumed
  BY DEF IInv, FlowTypeOK, StaysConsumed

\* The call moves on and its transactions stay what they are.
LEMMA OnlyGoes ==
  ASSUME IInv, NEW k \in Calls, NEW c \in CallType,
         call' = [call EXCEPT ![k] = c], UNCHANGED <<sent, spentQuotes, clock, message>>,
         c.quote = call[k].quote, Asked(k) \/ c.at = "threw", c.at # "idle",
         c.at = "returned" => sent[k][c.attempt] = "mined"
  PROVE  IInv'
  <1>1. /\ sent[k] \in [Attempts -> Fates] /\ sent' = [sent EXCEPT ![k] = sent[k]]
        /\ \A n \in Attempts : sent[k][n] # "not sent" => Asked(k)
        /\ OneEffect(sent[k]) /\ spentQuotes \subseteq spentQuotes'
    BY AtCall
  <1>2. message' \in [Deposits -> Messages] /\ StaysConsumed
    BY MessageKeeps
  <1>3. call'[k] = c
    BY DEF IInv, FlowTypeOK
  <1>a. call'[k].quote = call[k].quote
    BY <1>3
  <1>4. Asked(k) => Asked(k)'
    BY <1>a, QuoteLasts
  <1>5. c.at \in {"proving", "sending", "waiting"} => Asked(k)'
    BY <1>4
  <1>6. \A n \in Attempts : sent[k][n] # "not sent" =>
          c.quote = call[k].quote /\ Asked(k) /\ c.at # "idle"
    BY <1>1
  <1>7. \A n \in Attempts : sent[k][n] = "mined" => sent[k][n] = "mined" \/ Claims(k)
    OBVIOUS
  <1>8. UNCHANGED clock
    OBVIOUS
  <1> QED
    BY <1>1, <1>2, <1>5, <1>6, <1>7, <1>8, CallMoves

\* A transaction of a call that has sent one becomes something else.
LEMMA OnlyBecomes ==
  ASSUME IInv, NEW k \in Calls, NEW n \in Attempts, NEW fate \in Fates,
         sent[k][n] = "pooled", UNCHANGED <<call, clock>>, Becomes(k, n, fate),
         message' \in [Deposits -> Messages], StaysConsumed, spentQuotes \subseteq spentQuotes',
         fate = "mined" => Claims(k), fate \in Effective => Spends(k)
  PROVE  IInv'
  <1> DEFINE row == [sent[k] EXCEPT ![n] = fate]
  <1>1. /\ call[k] \in CallType /\ sent[k] \in [Attempts -> Fates]
        /\ call' = [call EXCEPT ![k] = call[k]]
        /\ Asked(k) /\ call[k].at # "idle" /\ OneEffect(sent[k])
    BY AtCall DEF IInv, AskedFirst
  <1>2. row \in [Attempts -> Fates] /\ sent' = [sent EXCEPT ![k] = row]
    BY <1>1 DEF Becomes
  <1>3. Asked(k)'
    <2>1. call'[k].quote = call[k].quote
      OBVIOUS
    <2> QED
      BY <1>1, <2>1, QuoteLasts
  <1>4. \A m \in Attempts : row[m] = IF m = n THEN fate ELSE sent[k][m]
    BY <1>1
  <1>5. \A m \in Attempts : row[m] # "not sent" =>
          call[k].quote = call[k].quote /\ Asked(k) /\ call[k].at # "idle"
    BY <1>1
  <1>8. UNCHANGED clock
    OBVIOUS
  <1>6. \A m \in Attempts : row[m] = "mined" => sent[k][m] = "mined" \/ Claims(k)
    BY <1>4
  <1>7. call[k].at = "returned" => row[call[k].attempt] = "mined"
    BY <1>4, <1>1 DEF IInv, ReturnedIsMined, Tx, CallType
  <1>9. \A m \in Attempts : row[m] \in Effective => sent[k][m] \in Effective \/ Spends(k)
    BY <1>4
  <1>10. OneEffect(row)
    <2>1. ASSUME fate \in Effective
          PROVE  \A m \in Attempts : sent[k][m] \notin Effective
      BY <2>1 DEF Spends, IInv, EffectsSpend
    <2> QED
      BY <1>1, <1>4, <2>1 DEF OneEffect
  <1> HIDE DEF row
  <1> QED
    BY <1>1, <1>2, <1>3, <1>5, <1>6, <1>7, <1>8, <1>9, <1>10, CallMoves

LEMMA StartKeeps ==
  ASSUME IInv, NEW k \in Calls, UNCHANGED bridgeVars,
         StartFails(k) \/ \E u \in Users, d \in Deposits : StartColdStart(k, u, d)
  PROVE  IInv'
  <1>1. /\ call[k] \in CallType /\ sent[k] \in [Attempts -> Fates]
        /\ \A n \in Attempts : sent[k][n] = "not sent"
        /\ sent' = [sent EXCEPT ![k] = sent[k]] /\ OneEffect(sent[k])
        /\ spentQuotes \subseteq spentQuotes'
    BY AtCall DEF StartFails, StartColdStart
  <1>2. UNCHANGED <<clock, message>>
    BY DEF bridgeVars
  <1>3. message' \in [Deposits -> Messages] /\ StaysConsumed
    BY <1>2, MessageKeeps
  <1>4. CASE StartFails(k)
    <2> DEFINE c == [call[k] EXCEPT !.at = "threw"]
    <2>1. c \in CallType /\ c.quote = call[k].quote /\ c.at = "threw"
      BY <1>1 DEF CallType, Places
    <2>2. call' = [call EXCEPT ![k] = c] /\ UNCHANGED sent
      BY <1>4 DEF StartFails, Go
    <2> HIDE DEF c
    <2> QED
      BY <1>1, <1>2, <1>4, <2>1, <2>2, OnlyGoes DEF StartFails
  <1>5. ASSUME NEW u \in Users, NEW d \in Deposits, StartColdStart(k, u, d)
        PROVE  IInv'
    <2> DEFINE q == [user |-> u, deposit |-> d, until |-> clock + Validity]
               c == [at |-> "proving", attempt |-> 1, quote |-> {q}]
    <2>1. q \in Quotes
      BY BridgeAssumption, ClientAssumption DEF IInv, FlowTypeOK, Quotes
    <2>2. c \in CallType
      BY <2>1, ClientAssumption DEF CallType, Places, Attempts
    <2>3. call' = [call EXCEPT ![k] = c]
      BY <1>5 DEF StartColdStart
    <2>4. call'[k].quote = {q}
      BY <2>3 DEF IInv, FlowTypeOK
    <2>5. Asked(k)'
      BY <2>1, <2>4 DEF Asked
    <2>6. c.at = "proving"
      OBVIOUS
    <2>7. UNCHANGED clock
      BY <1>2
    <2> HIDE DEF c, q
    <2>8. \A n \in Attempts : sent[k][n] # "not sent" =>
            c.quote = call[k].quote /\ Asked(k) /\ c.at # "idle"
      BY <1>1
    <2>9. c.at = "returned" => sent[k][c.attempt] = "mined"
      BY <2>6
    <2>10. /\ \A n \in Attempts : sent[k][n] = "mined" => sent[k][n] = "mined" \/ Claims(k)
           /\ \A n \in Attempts :
                sent[k][n] \in Effective => sent[k][n] \in Effective \/ Spends(k)
      OBVIOUS
    <2> QED
      BY <1>1, <1>3, <2>2, <2>3, <2>5, <2>7, <2>8, <2>9, <2>10, CallMoves
  <1> QED
    BY <1>4, <1>5

\* A call whose place was left: it goes on with another attempt, or it throws.
LEMMA FailsTo ==
  ASSUME IInv, NEW k \in Calls, NEW missing \in BOOLEAN, AttemptFails(k, missing)
  PROVE  \E c \in CallType :
           /\ call' = [call EXCEPT ![k] = c] /\ c.quote = call[k].quote
           /\ c.at \in {"threw", "proving"}
  <1>1. call[k] \in CallType
    BY AtCall
  <1>2. CASE missing /\ call[k].attempt < COLD_START_MAX_ATTEMPTS
    <2> DEFINE c == [call[k] EXCEPT !.at = "proving", !.attempt = @ + 1]
    <2>1. call[k].attempt + 1 \in Attempts
      BY <1>1, <1>2, ClientAssumption DEF CallType, Attempts
    <2>2. c \in CallType /\ c.quote = call[k].quote /\ c.at = "proving"
      BY <1>1, <2>1 DEF CallType, Places
    <2>3. call' = [call EXCEPT ![k] = c]
      BY <1>1, <1>2 DEF AttemptFails, IInv, FlowTypeOK
    <2> QED
      BY <1>2, <2>2, <2>3
  <1>3. CASE ~(missing /\ call[k].attempt < COLD_START_MAX_ATTEMPTS)
    <2> DEFINE c == [call[k] EXCEPT !.at = "threw"]
    <2>1. c \in CallType /\ c.quote = call[k].quote /\ c.at = "threw"
      BY <1>1 DEF CallType, Places
    <2>2. call' = [call EXCEPT ![k] = c]
      BY <1>3 DEF AttemptFails, Go
    <2> QED
      BY <2>1, <2>2
  <1> QED
    BY <1>2, <1>3

LEMMA ClientKeeps ==
  ASSUME IInv, NEW k \in Calls, UNCHANGED bridgeVars, ClientStep(k)
  PROVE  IInv'
  <1>0. UNCHANGED <<clock, message>>
    BY DEF bridgeVars
  <1>1. /\ call[k] \in CallType /\ sent[k] \in [Attempts -> Fates]
        /\ call[k].at \in {"proving", "sending", "waiting"} => Asked(k)
        /\ OneEffect(sent[k]) /\ call[k].attempt \in Attempts
        /\ \A n \in Attempts : sent[k][n] # "not sent" => Asked(k)
    BY AtCall DEF CallType
  <1>a. message' \in [Deposits -> Messages] /\ StaysConsumed
    BY <1>0, MessageKeeps
  <1>2. CASE ProofFound(k)
    <2> DEFINE c == [call[k] EXCEPT !.at = "sending"]
    <2>1. c \in CallType /\ c.quote = call[k].quote /\ c.at = "sending"
      BY <1>1 DEF CallType, Places
    <2>2. /\ call' = [call EXCEPT ![k] = c] /\ UNCHANGED <<sent, spentQuotes>>
          /\ call[k].at = "proving"
      BY <1>2 DEF ProofFound, Go
    <2> HIDE DEF c
    <2> QED
      BY <1>0, <1>1, <2>1, <2>2, OnlyGoes
  <1>3. ASSUME NEW missing \in BOOLEAN, AttemptFails(k, missing),
               call[k].at \in {"proving", "waiting"}, UNCHANGED <<sent, spentQuotes>>
        PROVE  IInv'
    <2>1. PICK c \in CallType : /\ call' = [call EXCEPT ![k] = c]
                                /\ c.quote = call[k].quote
                                /\ c.at \in {"threw", "proving"}
      BY <1>3, FailsTo
    <2> QED
      BY <1>0, <1>1, <1>3, <2>1, OnlyGoes
  <1>4. ASSUME NEW missing \in BOOLEAN, PollReceipt(k, missing), Tx(k) = "mined"
        PROVE  IInv'
    <2> DEFINE c == [call[k] EXCEPT !.at = "returned"]
    <2>1. c \in CallType /\ c.quote = call[k].quote /\ c.at = "returned"
             /\ c.attempt = call[k].attempt
      BY <1>1 DEF CallType, Places
    <2>2. /\ call' = [call EXCEPT ![k] = c] /\ UNCHANGED <<sent, spentQuotes>>
          /\ call[k].at = "waiting"
      BY <1>4 DEF PollReceipt, ReceiptEnds, Go
    <2>3. sent[k][c.attempt] = "mined"
      BY <1>4, <2>1 DEF Tx
    <2> HIDE DEF c
    <2> QED
      BY <1>0, <1>1, <2>1, <2>2, <2>3, OnlyGoes
  <1>5. ASSUME NEW missing \in BOOLEAN,
               \/ ProofFails(k, missing) \/ WaitFails(k, missing)
               \/ PollReceipt(k, missing) /\ Tx(k) # "mined"
        PROVE  IInv'
    BY <1>3, <1>5 DEF ProofFails, WaitFails, PollReceipt, ReceiptEnds
  <1>6. ASSUME NEW fate \in {"not sent", "pooled"}, NEW c \in CallType,
               call[k].at = "sending", Becomes(k, call[k].attempt, fate),
               call' = [call EXCEPT ![k] = c], c.quote = call[k].quote,
               c.at \in {"proving", "waiting", "threw"}, UNCHANGED spentQuotes
        PROVE  IInv'
    <2> DEFINE row == [sent[k] EXCEPT ![call[k].attempt] = fate]
    <2>1. row \in [Attempts -> Fates] /\ sent' = [sent EXCEPT ![k] = row]
      BY <1>1, <1>6 DEF Becomes, Fates
    <2>2. \A n \in Attempts : row[n] = IF n = call[k].attempt THEN fate ELSE sent[k][n]
      BY <1>1
    <2>3. /\ \A n \in Attempts : row[n] = "mined" => sent[k][n] = "mined" \/ Claims(k)
          /\ \A n \in Attempts :
               row[n] \in Effective => sent[k][n] \in Effective \/ Spends(k)
          /\ OneEffect(row) /\ spentQuotes \subseteq spentQuotes'
      BY <1>1, <1>6, <2>2 DEF Effective, OneEffect
    <2>4. Asked(k)
      BY <1>1, <1>6
    <2>5. Asked(k)'
      <3>1. call'[k].quote = call[k].quote
        BY <1>6 DEF IInv, FlowTypeOK
      <3> QED
        BY <2>4, <3>1, QuoteLasts
    <2>6. \A n \in Attempts : row[n] # "not sent" =>
            c.quote = call[k].quote /\ Asked(k) /\ c.at # "idle"
      BY <1>6, <2>4
    <2>7. c.at # "returned"
      BY <1>6
    <2> HIDE DEF row
    <2> QED
      BY <1>0, <1>a, <1>6, <2>1, <2>3, <2>5, <2>6, <2>7, CallMoves
  <1>7. CASE SendTx(k)
    <2> DEFINE c == [call[k] EXCEPT !.at = "waiting"]
    <2>1. c \in CallType /\ c.quote = call[k].quote /\ c.at = "waiting"
      BY <1>1 DEF CallType, Places
    <2>2. /\ call' = [call EXCEPT ![k] = c] /\ call[k].at = "sending"
          /\ Becomes(k, call[k].attempt, "pooled") /\ UNCHANGED spentQuotes
      BY <1>7 DEF SendTx, Go
    <2> HIDE DEF c
    <2> QED
      BY <1>6, <2>1, <2>2
  <1>8. ASSUME NEW missing \in BOOLEAN, SendFails(k, missing)
        PROVE  IInv'
    <2>1. PICK fate \in {"not sent", "pooled"} : Becomes(k, call[k].attempt, fate)
      BY <1>8 DEF SendFails
    <2>2. call[k].at = "sending" /\ AttemptFails(k, missing) /\ UNCHANGED spentQuotes
      BY <1>8 DEF SendFails
    <2>3. PICK c \in CallType : /\ call' = [call EXCEPT ![k] = c]
                                /\ c.quote = call[k].quote
                                /\ c.at \in {"threw", "proving"}
      BY <2>2, FailsTo
    <2> QED
      BY <1>6, <2>1, <2>2, <2>3
  <1> QED
    BY <1>2, <1>4, <1>5, <1>7, <1>8 DEF ClientStep

\* A transaction that is included finds its message unclaimed and claims it.
LEMMA TxKeeps ==
  ASSUME IInv, NEW k \in Calls, NEW n \in Attempts,
         IncludeTx(k, n) \/ TxReverts(k, n) \/ TxDropped(k, n)
  PROVE  IInv'
  <1>1. sent[k][n] = "pooled" /\ UNCHANGED <<call, clock>>
    BY DEF IncludeTx, TxReverts, TxDropped, Admissible, bridgeVars
  <1>2. Quote(k).deposit \in Deposits
    BY <1>1, AtCall, DepositIs
  <1>3. CASE IncludeTx(k, n)
    <2> DEFINE d == Quote(k).deposit
    <2>1. message[d].stage = "landed" /\ message' = SetStage(d, "consumed")
      BY <1>3 DEF IncludeTx, Admissible, Consumable
    <2>2. message' \in [Deposits -> Messages] /\ StaysConsumed
      BY <2>1, MessageSteps DEF IInv, Stages
    <2>3. Claims(k)
      BY <1>2, <2>1 DEF Claims, SetStage, IInv, FlowTypeOK, Messages
    <2>4. Becomes(k, n, "mined") /\ "mined" \in Fates
      BY <1>3 DEF IncludeTx, Fates
    <2>5. Spends(k) /\ spentQuotes \subseteq spentQuotes'
      BY <1>3 DEF IncludeTx, Admissible, Spends
    <2> QED
      BY <1>1, <2>2, <2>3, <2>4, <2>5, OnlyBecomes
  <1>4. ASSUME NEW fate \in {"reverted", "dropped"}, Becomes(k, n, fate), UNCHANGED message,
               spentQuotes \subseteq spentQuotes', fate = "reverted" => Spends(k)
        PROVE  IInv'
    <2>1. message' \in [Deposits -> Messages] /\ StaysConsumed
      BY <1>4, MessageKeeps
    <2>2. fate \in Fates /\ fate # "mined" /\ (fate \in Effective => fate = "reverted")
      BY DEF Fates, Effective
    <2> QED
      BY <1>1, <1>4, <2>1, <2>2, OnlyBecomes
  <1>5. CASE TxReverts(k, n)
    <2>1. Spends(k) /\ spentQuotes \subseteq spentQuotes' /\ UNCHANGED message
      BY <1>5 DEF TxReverts, Admissible, Spends, bridgeVars
    <2> QED
      BY <1>4, <1>5, <2>1 DEF TxReverts
  <1>6. CASE TxDropped(k, n)
    BY <1>4, <1>6 DEF TxDropped, bridgeVars
  <1> QED
    BY <1>3, <1>5, <1>6

LEMMA NextIInv == IInv /\ [Next]_vars => IInv'
  <1> SUFFICES ASSUME IInv, [Next]_vars
               PROVE  IInv'
    OBVIOUS
  <1>1. CASE BridgeStep /\ UNCHANGED <<faucetVars, clientVars>>
    BY <1>1, BridgeKeeps
  <1>2. CASE FaucetStep /\ UNCHANGED clientVars
    BY <1>2, FaucetKeeps
  <1>3. ASSUME NEW k \in Calls, UNCHANGED bridgeVars,
               \/ \E u \in Users, d \in Deposits : StartColdStart(k, u, d)
               \/ StartFails(k)
               \/ ClientStep(k)
        PROVE  IInv'
    BY <1>3, StartKeeps, ClientKeeps
  <1>4. ASSUME NEW k \in Calls, NEW n \in Attempts,
               IncludeTx(k, n) \/ TxReverts(k, n) \/ TxDropped(k, n)
        PROVE  IInv'
    BY <1>4, TxKeeps
  <1>5. CASE UNCHANGED vars
    <2>1. UNCHANGED <<clientVars, clock, message>>
      BY <1>5 DEF vars, bridgeVars
    <2> QED
      BY <2>1, MessageKeeps, OthersKeep DEF IInv, FlowTypeOK
  <1> QED
    BY <1>1, <1>2, <1>3, <1>4, <1>5 DEF Next

LEMMA Invariance == Spec => []IInv
  BY InitIInv, NextIInv, PTL DEF Spec

-----------------------------------------------------------------------------

\* Whatever a call leaves with the node, one transaction of it takes effect at
\* most: its attempts share a quote (payment-method.ts:122-180).
THEOREM OneIsPaid == Spec => []OneTakesEffect
  BY Invariance, PTL DEF IInv

\* What executeColdStart returns was included and not reverted, and the deposit
\* was claimed by no other call (payment-method.ts:264-284, main.nr:203-242).
THEOREM ResultIsTrue == Spec => []ResultMeansClaimed
  <1>1. IInv => ResultMeansClaimed
    <2> SUFFICES ASSUME IInv, NEW k \in Calls, call[k].at = "returned"
                 PROVE  /\ Tx(k) = "mined"
                        /\ message[Quote(k).deposit].stage = "consumed"
                        /\ \A j \in Calls, n \in Attempts :
                             sent[j][n] = "mined" /\ Quote(j).deposit = Quote(k).deposit
                               => j = k
      BY DEF ResultMeansClaimed
    <2>1. Tx(k) = "mined" /\ call[k].attempt \in Attempts
      BY AtCall DEF IInv, ReturnedIsMined, CallType
    <2>2. sent[k][call[k].attempt] = "mined"
      BY <2>1 DEF Tx
    <2>3. message[Quote(k).deposit].stage = "consumed"
      BY <2>1, <2>2 DEF IInv, MinedClaims
    <2>4. ASSUME NEW j \in Calls, NEW n \in Attempts, sent[j][n] = "mined",
                 Quote(j).deposit = Quote(k).deposit
          PROVE  j = k
      <3>1. Asked(j) /\ Asked(k)
        BY <2>1, <2>2, <2>4 DEF IInv, AskedFirst
      <3>2. Takes(j, Quote(k).deposit) /\ Takes(k, Quote(k).deposit)
        BY <2>1, <2>2, <2>4 DEF Takes
      <3> QED
        BY <3>1, <3>2, DepositIs DEF IInv, MinedOnce
    <2> QED
      BY <2>1, <2>3, <2>4
  <1> QED
    BY <1>1, Invariance, PTL

-----------------------------------------------------------------------------
(* Sums.  SumFunctionOnSet adds in the order in which CHOOSE takes elements *)
(* out.  That it has a value, that the order makes no difference, and how   *)
(* it changes with one element are shown by induction over the subsets of a *)
(* finite set, as sets: the library's induction theorems take an operator.  *)

LEMMA SetInduction ==
  ASSUME NEW T, IsFiniteSet(T), NEW Good,
         \A s \in SUBSET T : (\A x \in s : s \ {x} \in Good) => s \in Good
  PROVE  \A s \in SUBSET T : s \in Good
<1> DEFINE Bad == {s \in SUBSET T : s \notin Good}
           inside == StrictSubsetOrdering(T)
           finite == FiniteSubsetsOf(T)
<1> SUFFICES ASSUME Bad # {}  PROVE FALSE
  OBVIOUS
<1>1. IsWellFoundedOn(inside, finite)
  BY FS_StrictSubsetOrderingWellFounded
<1>2. Bad \subseteq finite
  BY FS_Subset DEF FiniteSubsetsOf
<1>3. PICK s \in Bad : \A u \in Bad : <<u, s>> \notin inside
  <2> HIDE DEF Bad, inside, finite
  <2> QED BY <1>1, <1>2, WFMin
<1>4. ASSUME NEW x \in s  PROVE s \ {x} \in Good
  <2>1. <<s \ {x}, s>> \in inside
    BY <1>3, <1>4 DEF StrictSubsetOrdering
  <2> QED BY <1>3, <2>1
<1> QED BY <1>3, <1>4

Chosen(s) == CHOOSE x \in s : TRUE

\* g[s] is the sum of f over s, for every subset s of T.
Adds(g, f, T) ==
  \A s \in SUBSET T : g[s] = IF s = {} THEN 0 ELSE f[Chosen(s)] + g[s \ {Chosen(s)}]

Numbers(f, T) == \A x \in T : f[x] \in Int

LEMMA AddsPart ==
  ASSUME NEW T, NEW f, NEW g, Adds(g, f, T), NEW S \in SUBSET T
  PROVE  Adds(g, f, S)
  BY DEF Adds

LEMMA AddsOnce ==
  ASSUME NEW T, IsFiniteSet(T), NEW f, NEW g, NEW h, Adds(g, f, T), Adds(h, f, T)
  PROVE  \A s \in SUBSET T : g[s] = h[s]
<1> DEFINE Good == {s \in SUBSET T : g[s] = h[s]}
<1>1. ASSUME NEW s \in SUBSET T, \A x \in s : s \ {x} \in Good  PROVE s \in Good
  <2>1. CASE s = {}
    BY <2>1 DEF Adds
  <2>2. CASE s # {}
    <3>1. Chosen(s) \in s
      BY <2>2 DEF Chosen
    <3>2. g[s \ {Chosen(s)}] = h[s \ {Chosen(s)}]
      BY <1>1, <3>1
    <3> QED BY <2>2, <3>2 DEF Adds
  <2> QED BY <2>1, <2>2
<1>2. \A s \in SUBSET T : s \in Good
  <2> HIDE DEF Good
  <2> QED BY <1>1, SetInduction
<1> QED BY <1>2

LEMMA AddsExists ==
  ASSUME NEW T, IsFiniteSet(T), NEW f, Numbers(f, T)
  PROVE  \E g \in [SUBSET T -> Int] : Adds(g, f, T)
<1> DEFINE Sums(s) == {g \in [SUBSET s -> Int] : Adds(g, f, s)}
           Good == {s \in SUBSET T : Sums(s) # {}}
<1>1. ASSUME NEW s \in SUBSET T, \A x \in s : s \ {x} \in Good  PROVE s \in Good
  <2>1. CASE s = {}
    <3> DEFINE g == [u \in {{}} |-> 0]
    <3>1. SUBSET s = {{}}
      BY <2>1
    <3>2. g \in [SUBSET s -> Int]
      BY <3>1
    <3>3. Adds(g, f, s)
      BY <3>1 DEF Adds
    <3> QED BY <3>2, <3>3
  <2>2. CASE s # {}
    <3> DEFINE of(x) == CHOOSE g \in Sums(s \ {x}) : TRUE
               left(u) == CHOOSE x \in s : x \notin u
               c == Chosen(s)
               g == [u \in SUBSET s |-> IF u = s THEN f[c] + of(c)[s \ {c}] ELSE of(left(u))[u]]
    <3>1. ASSUME NEW x \in s  PROVE of(x) \in [SUBSET (s \ {x}) -> Int] /\ Adds(of(x), f, s \ {x})
      <4>1. Sums(s \ {x}) # {}
        BY <1>1
      <4>2. of(x) \in Sums(s \ {x})
        <5> HIDE DEF Sums
        <5> QED BY <4>1
      <4> QED BY <4>2
    <3>2. c \in s /\ f[c] \in Int
      BY <1>1, <2>2 DEF Chosen, Numbers
    <3>3. ASSUME NEW u \in SUBSET s, u # s
          PROVE  left(u) \in s /\ u \in SUBSET (s \ {left(u)})
      <4>1. \E x \in s : x \notin u
        BY <3>3
      <4> QED BY <3>3, <4>1
    <3> HIDE DEF of, left, c, Good, Sums
    <3>4. g \in [SUBSET s -> Int]
      <4>1. of(c)[s \ {c}] \in Int
        BY <3>1, <3>2
      <4>2. ASSUME NEW u \in SUBSET s, u # s  PROVE of(left(u))[u] \in Int
        <5> DEFINE x == left(u)
        <5>1. x \in s /\ u \in SUBSET (s \ {x})
          BY <3>3, <4>2
        <5> HIDE DEF x
        <5>2. of(x) \in [SUBSET (s \ {x}) -> Int]
          BY <3>1, <5>1
        <5>3. of(x)[u] \in Int
          BY <5>1, <5>2
        <5> QED BY <5>3 DEF x
      <4> QED BY <3>2, <4>1, <4>2
    <3>5. \* Any two of the smaller sums agree where both are defined.
          ASSUME NEW x \in s, NEW y \in s, NEW u \in SUBSET s, x \notin u, y \notin u
          PROVE  of(x)[u] = of(y)[u]
      <4>1. Adds(of(x), f, u) /\ Adds(of(y), f, u)
        <5>1. u \in SUBSET (s \ {x}) /\ u \in SUBSET (s \ {y})
          BY <3>5
        <5>2. Adds(of(x), f, s \ {x}) /\ Adds(of(y), f, s \ {y})
          BY <3>1
        <5> QED BY <5>1, <5>2, AddsPart
      <4>2. IsFiniteSet(u)
        BY <1>1, FS_Subset
      <4> QED BY <4>1, <4>2, AddsOnce
    <3>6. ASSUME NEW u \in SUBSET s
          PROVE  g[u] = IF u = {} THEN 0 ELSE f[Chosen(u)] + g[u \ {Chosen(u)}]
      <4>1. CASE u = s
        <5>1. left(s \ {c}) = c
          <6>1. s \ {c} # s /\ s \ {c} \in SUBSET s
            BY <3>2
          <6> QED BY <3>2, <3>3, <6>1
        <5>2. g[s \ {c}] = of(c)[s \ {c}]
          BY <3>2, <5>1
        <5>3. g[s] = f[c] + of(c)[s \ {c}]
          OBVIOUS
        <5> QED BY <2>2, <4>1, <5>2, <5>3 DEF c
      <4>2. CASE u # s
        <5> DEFINE x == left(u)
                   less == u \ {Chosen(u)}
        <5>1. x \in s /\ u \in SUBSET (s \ {x}) /\ g[u] = of(x)[u]
          BY <3>3, <4>2
        <5>2. Adds(of(x), f, s \ {x})
          BY <3>1, <5>1
        <5>3. of(x)[u] = IF u = {} THEN 0 ELSE f[Chosen(u)] + of(x)[less]
          BY <5>1, <5>2 DEF Adds
        <5>4. CASE u # {}
          <6>1. less \in SUBSET s /\ less # s /\ x \notin less
            BY <4>2, <5>1
          <6>2. left(less) \in s /\ left(less) \notin less /\ g[less] = of(left(less))[less]
            BY <3>3, <6>1
          <6>3. of(left(less))[less] = of(x)[less]
            BY <3>5, <5>1, <6>1, <6>2
          <6> HIDE DEF g, x, less
          <6> QED BY <5>1, <5>3, <5>4, <6>2, <6>3 DEF less
        <5> QED BY <5>1, <5>3, <5>4
      <4> QED BY <4>1, <4>2
    <3>7. Adds(g, f, s)
      <4> HIDE DEF g
      <4> QED BY <3>6 DEF Adds
    <3> QED BY <3>4, <3>7 DEF Good, Sums
  <2> QED BY <2>1, <2>2
<1>2. \A s \in SUBSET T : s \in Good
  <2> HIDE DEF Good
  <2> QED BY <1>1, SetInduction
<1> QED BY <1>2

\* g is the sum of f over the subsets of T, and the operator gives it.
SumsTo(g, f, T) ==
  /\ g \in [SUBSET T -> Int]
  /\ Adds(g, f, T)
  /\ \A S \in SUBSET T : SumFunctionOnSet(f, S) = g[S]

LEMMA SumAdds ==
  ASSUME NEW T, IsFiniteSet(T), NEW f, Numbers(f, T)
  PROVE  \E g : SumsTo(g, f, T)
<1>1. PICK g \in [SUBSET T -> Int] : Adds(g, f, T)
  BY AddsExists
<1>2. ASSUME NEW S \in SUBSET T  PROVE SumFunctionOnSet(f, S) = g[S]
  <2> DEFINE body(h) == [s \in SUBSET S |-> IF s = {} THEN 0
                                            ELSE f[Chosen(s)] + h[s \ {Chosen(s)}]]
             iter == CHOOSE h : h = body(h)
             part == [s \in SUBSET S |-> g[s]]
  <2>1. SumFunctionOnSet(f, S) = iter[S]
    BY DEF SumFunctionOnSet, FoldFunctionOnSet, MapThenFoldSet, Chosen
  <2>2. part = body(part)
    <3>1. ASSUME NEW s \in SUBSET S
          PROVE  part[s] = IF s = {} THEN 0 ELSE f[Chosen(s)] + part[s \ {Chosen(s)}]
      BY <1>1 DEF Adds
    <3> QED BY <3>1
  <2>3. iter = body(iter)
    <3> HIDE DEF body, part
    <3> QED BY <2>2
  <2> HIDE DEF iter
  <2>4. Adds(iter, f, S)
    <3>1. ASSUME NEW s \in SUBSET S
          PROVE  iter[s] = IF s = {} THEN 0 ELSE f[Chosen(s)] + iter[s \ {Chosen(s)}]
      BY <2>3
    <3> QED BY <3>1 DEF Adds
  <2>5. Adds(g, f, S)
    BY <1>1 DEF Adds
  <2>6. IsFiniteSet(S)
    BY FS_Subset
  <2>7. iter[S] = g[S]
    BY <2>4, <2>5, <2>6, AddsOnce
  <2> QED BY <2>1, <2>7
<1> QED BY <1>1, <1>2 DEF SumsTo

\* Any element may be taken out first.
LEMMA SumTakesOut ==
  ASSUME NEW T, IsFiniteSet(T), NEW f, Numbers(f, T)
  PROVE  /\ \A S \in SUBSET T : SumFunctionOnSet(f, S) \in Int
         /\ \A S \in SUBSET T : \A y \in S :
              SumFunctionOnSet(f, S) = f[y] + SumFunctionOnSet(f, S \ {y})
<1>0. PICK g : SumsTo(g, f, T)
  BY SumAdds
<1>1. /\ g \in [SUBSET T -> Int] /\ Adds(g, f, T)
      /\ \A S \in SUBSET T : SumFunctionOnSet(f, S) = g[S]
  BY <1>0 DEF SumsTo
<1> DEFINE Good == {S \in SUBSET T : \A y \in S : g[S] = f[y] + g[S \ {y}]}
<1>2. ASSUME NEW S \in SUBSET T, \A x \in S : S \ {x} \in Good  PROVE S \in Good
  <2> SUFFICES ASSUME NEW y \in S  PROVE g[S] = f[y] + g[S \ {y}]
    OBVIOUS
  <2> DEFINE c == Chosen(S)
  <2>1. c \in S /\ g[S] = f[c] + g[S \ {c}]
    BY <1>1 DEF Adds, Chosen
  <2> HIDE DEF c
  <2>2. CASE y = c
    BY <2>1, <2>2
  <2>3. CASE y # c
    <3> DEFINE both == (S \ {c}) \ {y}
    <3>1. g[S \ {c}] = f[y] + g[both]
      BY <1>2, <2>1, <2>3
    <3>2. g[S \ {y}] = f[c] + g[(S \ {y}) \ {c}]
      BY <1>2, <2>1, <2>3
    <3>3. (S \ {y}) \ {c} = both
      OBVIOUS
    <3>4. f[c] \in Int /\ f[y] \in Int /\ g[both] \in Int
      BY <1>1, <2>1 DEF Numbers
    <3>5. g[S \ {y}] = f[c] + g[both]
      BY <3>2, <3>3
    <3> HIDE DEF both
    <3> QED BY <2>1, <3>1, <3>4, <3>5
  <2> QED BY <2>2, <2>3
<1>3. \A S \in SUBSET T : S \in Good
  <2> HIDE DEF Good
  <2> QED BY <1>2, SetInduction
<1>4. ASSUME NEW S \in SUBSET T, NEW y \in S
      PROVE  SumFunctionOnSet(f, S) = f[y] + SumFunctionOnSet(f, S \ {y})
  <2>1. S \ {y} \in SUBSET T
    OBVIOUS
  <2>2. SumFunctionOnSet(f, S) = g[S] /\ SumFunctionOnSet(f, S \ {y}) = g[S \ {y}]
    BY <1>1, <2>1
  <2>3. g[S] = f[y] + g[S \ {y}]
    BY <1>3
  <2> QED BY <2>2, <2>3
<1> QED BY <1>1, <1>4

\* A sum depends on what is summed alone.
LEMMA SumOfSame ==
  ASSUME NEW S, IsFiniteSet(S), NEW f, NEW h, Numbers(f, S), \A x \in S : h[x] = f[x]
  PROVE  SumFunctionOnSet(f, S) = SumFunctionOnSet(h, S)
<1>0. Numbers(h, S)
  BY DEF Numbers
<1>1. PICK g : SumsTo(g, f, S)
  BY SumAdds
<1>2. PICK k : SumsTo(k, h, S)
  BY <1>0, SumAdds
<1>3. Adds(k, f, S)
  <2>1. \A s \in SUBSET S : s # {} => Chosen(s) \in s
    BY DEF Chosen
  <2> QED BY <1>2, <2>1 DEF Adds, SumsTo
<1>4. g[S] = k[S]
  BY <1>1, <1>3, AddsOnce DEF SumsTo
<1> QED BY <1>1, <1>2, <1>4 DEF SumsTo

\* The sum of a function changes by what one of its values changes.
LEMMA SumChanges ==
  ASSUME NEW T, IsFiniteSet(T), NEW f \in [T -> Int], NEW y \in T, NEW v \in Int
  PROVE  /\ SumFunction(f) \in Int
         /\ SumFunction([f EXCEPT ![y] = v]) = SumFunction(f) - f[y] + v
<1> DEFINE h == [f EXCEPT ![y] = v]
<1>1. h \in [T -> Int] /\ h[y] = v /\ \A x \in T \ {y} : h[x] = f[x]
  OBVIOUS
<1> HIDE DEF h
<1>0. Numbers(f, T) /\ Numbers(h, T) /\ Numbers(f, T \ {y})
  BY <1>1 DEF Numbers
<1>2. /\ SumFunction(f) = SumFunctionOnSet(f, T)
      /\ SumFunction(h) = SumFunctionOnSet(h, T)
  BY <1>1 DEF SumFunction
<1>3. /\ SumFunctionOnSet(f, T) \in Int /\ SumFunctionOnSet(f, T \ {y}) \in Int
      /\ SumFunctionOnSet(f, T) = f[y] + SumFunctionOnSet(f, T \ {y})
  BY <1>0, SumTakesOut
<1>4. SumFunctionOnSet(h, T) = h[y] + SumFunctionOnSet(h, T \ {y})
  BY <1>0, SumTakesOut
<1>5. SumFunctionOnSet(f, T \ {y}) = SumFunctionOnSet(h, T \ {y})
  <2>1. IsFiniteSet(T \ {y})
    BY FS_RemoveElement
  <2> QED BY <1>0, <1>1, <2>1, SumOfSame
<1> QED BY <1>1, <1>2, <1>3, <1>4, <1>5 DEF h

LEMMA ZerosAddUp ==
  ASSUME NEW S, IsFiniteSet(S), NEW f, \A x \in S : f[x] = 0
  PROVE  SumFunctionOnSet(f, S) = 0
<1>1. PICK g : SumsTo(g, f, S)
  BY SumAdds DEF Numbers
<1> DEFINE Good == {s \in SUBSET S : g[s] = 0}
<1>2. ASSUME NEW s \in SUBSET S, \A x \in s : s \ {x} \in Good  PROVE s \in Good
  <2>0. g[s] = IF s = {} THEN 0 ELSE f[Chosen(s)] + g[s \ {Chosen(s)}]
    BY <1>1 DEF SumsTo, Adds
  <2>1. CASE s = {}
    BY <2>0, <2>1
  <2>2. CASE s # {}
    <3>1. Chosen(s) \in s
      BY <2>2 DEF Chosen
    <3>2. f[Chosen(s)] = 0 /\ g[s \ {Chosen(s)}] = 0
      BY <1>2, <3>1
    <3> QED BY <2>0, <2>2, <3>2
  <2> QED BY <2>1, <2>2
<1>3. \A s \in SUBSET S : s \in Good
  <2> HIDE DEF Good
  <2> QED BY <1>2, SetInduction
<1> QED BY <1>1, <1>3 DEF SumsTo

LEMMA SumOfNats ==
  ASSUME NEW S, IsFiniteSet(S), NEW f, \A x \in S : f[x] \in Nat
  PROVE  SumFunctionOnSet(f, S) \in Nat
<1>1. PICK g : SumsTo(g, f, S)
  BY SumAdds DEF Numbers
<1> DEFINE Good == {s \in SUBSET S : g[s] \in Nat}
<1>2. ASSUME NEW s \in SUBSET S, \A x \in s : s \ {x} \in Good  PROVE s \in Good
  <2>0. g[s] = IF s = {} THEN 0 ELSE f[Chosen(s)] + g[s \ {Chosen(s)}]
    BY <1>1 DEF SumsTo, Adds
  <2>1. CASE s = {}
    BY <2>0, <2>1
  <2>2. CASE s # {}
    <3>1. Chosen(s) \in s
      BY <2>2 DEF Chosen
    <3>2. f[Chosen(s)] \in Nat /\ g[s \ {Chosen(s)}] \in Nat
      BY <1>2, <3>1
    <3> QED BY <2>0, <2>2, <3>2
  <2> QED BY <2>1, <2>2
<1>3. \A s \in SUBSET S : s \in Good
  <2> HIDE DEF Good
  <2> QED BY <1>2, SetInduction
<1> QED BY <1>1, <1>3 DEF SumsTo

-----------------------------------------------------------------------------
(* The money.  A step that moves tokens changes two of the four sums that   *)
(* the escrow backs, or one of them and the escrow.                         *)

\* What a private call in the pool says.
PoolTypeOK ==
  \A t \in pool :
    /\ t.call = "claim" => t.deposit \in Deposits
    /\ t.holder \in Holders /\ t.amount \in Nat

MoneyTypeOK ==
  /\ public \in [Holders -> Nat] /\ private \in [Holders -> Nat]
  /\ escrow \in Int /\ withdrawals \in Nat
  /\ PoolTypeOK

\* A message is claimed for what was deposited.
AmountsKept == \A d \in Deposits : message[d].amount = Amount[d]

MoneyInv == MoneyTypeOK /\ AmountsKept /\ EscrowBacksSupply

Held(held) == SumFunction(held)
Promised == SumFunctionOnSet(Amount, InFlight)

LEMMA Backed ==
  EscrowBacksSupply <=> escrow = Held(public) + Held(private) + Promised + withdrawals
  BY DEF EscrowBacksSupply, Held, Promised

LEMMA HeldChanges ==
  ASSUME NEW held \in [Holders -> Nat], NEW h \in Holders, NEW n \in Nat
  PROVE  /\ Held(held) \in Int
         /\ Credit(held, h, n) \in [Holders -> Nat]
         /\ Held(Credit(held, h, n)) = Held(held) + n
         /\ held[h] >= n => /\ Debit(held, h, n) \in [Holders -> Nat]
                            /\ Held(Debit(held, h, n)) = Held(held) - n
  <1>1. IsFiniteSet(Holders) /\ held \in [Holders -> Int] /\ held[h] \in Int
    BY BridgeAssumption
  <1>2. held[h] + n \in Int /\ held[h] - n \in Int
    BY <1>1
  <1>3. /\ SumFunction(held) \in Int
        /\ SumFunction([held EXCEPT ![h] = held[h] + n]) = SumFunction(held) - held[h] + (held[h] + n)
        /\ SumFunction([held EXCEPT ![h] = held[h] - n]) = SumFunction(held) - held[h] + (held[h] - n)
    BY <1>1, <1>2, SumChanges
  <1>4. /\ Credit(held, h, n) = [held EXCEPT ![h] = held[h] + n]
        /\ Debit(held, h, n) = [held EXCEPT ![h] = held[h] - n]
    BY DEF Credit, Debit
  <1>5. Credit(held, h, n) \in [Holders -> Nat]
    BY <1>4
  <1>6. held[h] >= n => Debit(held, h, n) \in [Holders -> Nat]
    BY <1>4
  <1> QED
    BY <1>1, <1>3, <1>4, <1>5, <1>6 DEF Held

LEMMA AmountIs == /\ IsFiniteSet(Deposits) /\ Numbers(Amount, Deposits)
                  /\ \A d \in Deposits : Amount[d] \in Nat
  BY BridgeAssumption DEF Numbers

LEMMA PromisedIs ==
  /\ Promised \in Int
  /\ \A d \in InFlight : Promised = Amount[d] + SumFunctionOnSet(Amount, InFlight \ {d})
  <1>1. InFlight \in SUBSET Deposits
    BY DEF InFlight
  <1> QED
    BY <1>1, AmountIs, SumTakesOut DEF Promised

\* A message that is consumed was promised.
LEMMA PromiseKept ==
  ASSUME FlowTypeOK, AmountsKept, NEW d \in Deposits,
         message[d].stage = "landed", message' = SetStage(d, "consumed")
  PROVE  AmountsKept' /\ Promised' = Promised - Amount[d]
  <1>1. \A e \in Deposits :
          /\ message'[e].stage = IF e = d THEN "consumed" ELSE message[e].stage
          /\ message'[e].amount = message[e].amount
    BY DEF FlowTypeOK, Messages, SetStage
  <1>2. d \in InFlight /\ InFlight' = InFlight \ {d}
    BY <1>1 DEF InFlight
  <1>3. Promised' = SumFunctionOnSet(Amount, InFlight \ {d})
    BY <1>2 DEF Promised
  <1>4. Promised = Amount[d] + Promised' /\ Promised' \in Int
    <2>1. InFlight \ {d} \in SUBSET Deposits
      BY DEF InFlight
    <2>2. SumFunctionOnSet(Amount, InFlight \ {d}) \in Int
      BY <2>1, AmountIs, SumTakesOut
    <2> QED
      BY <1>2, <1>3, <2>2, PromisedIs
  <1>5. AmountsKept'
    BY <1>1 DEF AmountsKept
  <1> QED
    BY <1>4, <1>5, AmountIs

\* A deposit is promised.
LEMMA PromiseMade ==
  ASSUME FlowTypeOK, AmountsKept, NEW d \in Deposits, NEW to, DepositOnL1(d, to)
  PROVE  AmountsKept' /\ Promised' = Promised + Amount[d]
  <1>1. \A e \in Deposits :
          /\ message'[e].stage = IF e = d THEN "sent" ELSE message[e].stage
          /\ message'[e].amount = message[e].amount
    BY DEF FlowTypeOK, Messages, DepositOnL1
  <1>2. d \notin InFlight /\ InFlight' = InFlight \cup {d}
    BY <1>1 DEF InFlight, DepositOnL1
  <1>3. Promised' = SumFunctionOnSet(Amount, InFlight \cup {d})
    BY <1>2 DEF Promised
  <1>4. InFlight \cup {d} \in SUBSET Deposits /\ (InFlight \cup {d}) \ {d} = InFlight
    BY <1>2 DEF InFlight
  <1>5. SumFunctionOnSet(Amount, InFlight \cup {d})
          = Amount[d] + SumFunctionOnSet(Amount, (InFlight \cup {d}) \ {d})
    BY <1>4, AmountIs, SumTakesOut
  <1>6. Promised' = Amount[d] + Promised
    BY <1>3, <1>4, <1>5 DEF Promised
  <1>7. AmountsKept'
    BY <1>1 DEF AmountsKept
  <1> QED
    BY <1>6, <1>7, PromisedIs, AmountIs

\* A message that moves, or none.
LEMMA PromiseStays ==
  ASSUME FlowTypeOK, AmountsKept,
         UNCHANGED message \/ \E d \in Deposits : MessageLands(d)
  PROVE  AmountsKept' /\ Promised' = Promised
  <1>1. \A e \in Deposits :
          /\ message'[e].stage \in {"sent", "landed"} <=> message[e].stage \in {"sent", "landed"}
          /\ message'[e].amount = message[e].amount
    BY DEF FlowTypeOK, Messages, MessageLands, SetStage
  <1>2. InFlight' = InFlight
    BY <1>1 DEF InFlight
  <1> QED
    BY <1>1, <1>2 DEF AmountsKept, Promised

LEMMA InitMoney == Init => MoneyInv
  <1> SUFFICES ASSUME Init
               PROVE  MoneyInv
    OBVIOUS
  <1>1. MoneyTypeOK
    BY DEF Init, BridgeInit, MoneyTypeOK, PoolTypeOK
  <1>2. AmountsKept
    BY DEF Init, BridgeInit, AmountsKept
  <1>3. InFlight = {}
    BY DEF Init, BridgeInit, InFlight
  <1>4. Promised = 0
    <2>1. PICK g : SumsTo(g, Amount, Deposits)
      BY AmountIs, SumAdds
    <2>2. {} \in SUBSET Deposits
      OBVIOUS
    <2> QED
      BY <1>3, <2>1, <2>2 DEF Promised, SumsTo, Adds
  <1>5. Held(public) = 0 /\ Held(private) = 0
    <2>1. ASSUME NEW held, held = [h \in Holders |-> 0]
          PROVE  Held(held) = 0
      BY <2>1, ZerosAddUp, BridgeAssumption DEF Held, SumFunction
    <2> QED
      BY <2>1 DEF Init, BridgeInit
  <1>6. EscrowBacksSupply
    BY <1>4, <1>5, Backed DEF Init, BridgeInit
  <1> QED
    BY <1>1, <1>2, <1>6 DEF MoneyInv

LEMMA HeldIs ==
  ASSUME NEW held \in [Holders -> Nat]
  PROVE  Held(held) \in Nat
  BY SumOfNats, BridgeAssumption DEF Held, SumFunction

\* What leaves the sum of the parts where the escrow is keeps the invariant.
LEMMA MoneyMoves ==
  ASSUME MoneyInv, AmountsKept', PoolTypeOK',
         public' \in [Holders -> Nat], private' \in [Holders -> Nat],
         escrow' \in Int, withdrawals' \in Nat, Promised' \in Int,
         escrow' = escrow + (Held(public') - Held(public)) + (Held(private') - Held(private))
                     + (Promised' - Promised) + (withdrawals' - withdrawals)
  PROVE  MoneyInv'
  <1>1. MoneyTypeOK'
    BY DEF MoneyTypeOK
  <1>2. /\ Held(public) \in Int /\ Held(private) \in Int
        /\ Held(public') \in Int /\ Held(private') \in Int
        /\ escrow \in Int /\ withdrawals \in Int /\ Promised \in Int
    BY HeldIs, PromisedIs DEF MoneyInv, MoneyTypeOK
  <1>3. escrow = Held(public) + Held(private) + Promised + withdrawals
    BY Backed DEF MoneyInv
  <1>4. escrow' = Held(public') + Held(private') + Promised' + withdrawals'
    <2>1. withdrawals' \in Int
      OBVIOUS
    <2> QED
      BY <1>2, <1>3, <2>1
  <1>5. EscrowBacksSupply'
    BY <1>4 DEF EscrowBacksSupply, Held, Promised
  <1> QED
    BY <1>1, <1>5 DEF MoneyInv

LEMMA MoneyIs ==
  ASSUME MoneyInv
  PROVE  /\ public \in [Holders -> Nat] /\ private \in [Holders -> Nat]
         /\ escrow \in Int /\ withdrawals \in Nat /\ PoolTypeOK /\ AmountsKept
         /\ Held(public) \in Int /\ Held(private) \in Int /\ Promised \in Int
  BY HeldIs, PromisedIs DEF MoneyInv, MoneyTypeOK

LEMMA PoolShrinks ==
  ASSUME PoolTypeOK, pool' \subseteq pool
  PROVE  PoolTypeOK'
  BY DEF PoolTypeOK

\* A claim brings tokens from a message to a holder.
LEMMA ClaimMoves ==
  ASSUME MoneyInv, FlowTypeOK, NEW d \in Deposits, NEW to \in Holders,
         message[d].stage = "landed", message' = SetStage(d, "consumed"), pool' \subseteq pool,
         UNCHANGED <<escrow, withdrawals>>,
         \/ public' = Credit(public, to, Amount[d]) /\ UNCHANGED private
         \/ private' = Credit(private, to, Amount[d]) /\ UNCHANGED public
  PROVE  MoneyInv'
  <1>1. Amount[d] \in Nat
    BY AmountIs
  <1>2. AmountsKept' /\ Promised' = Promised - Amount[d]
    BY MoneyIs, PromiseKept
  <1>3. PoolTypeOK'
    BY MoneyIs, PoolShrinks
  <1>4. CASE public' = Credit(public, to, Amount[d]) /\ UNCHANGED private
    <2>1. public' \in [Holders -> Nat] /\ Held(public') = Held(public) + Amount[d]
      BY <1>1, <1>4, MoneyIs, HeldChanges
    <2> QED
      BY <1>1, <1>2, <1>3, <1>4, <2>1, MoneyIs, MoneyMoves
  <1>5. CASE private' = Credit(private, to, Amount[d]) /\ UNCHANGED public
    <2>1. private' \in [Holders -> Nat] /\ Held(private') = Held(private) + Amount[d]
      BY <1>1, <1>5, MoneyIs, HeldChanges
    <2> QED
      BY <1>1, <1>2, <1>3, <1>5, <2>1, MoneyIs, MoneyMoves
  <1> QED
    BY <1>4, <1>5

\* An exit burns what it owes.
LEMMA ExitMoves ==
  ASSUME MoneyInv, FlowTypeOK, NEW h \in Holders, NEW n \in Nat,
         UNCHANGED <<message, escrow>>, pool' \subseteq pool, withdrawals' = withdrawals + n,
         \/ public[h] >= n /\ public' = Debit(public, h, n) /\ UNCHANGED private
         \/ private[h] >= n /\ private' = Debit(private, h, n) /\ UNCHANGED public
  PROVE  MoneyInv'
  <1>1. AmountsKept' /\ Promised' = Promised
    BY MoneyIs, PromiseStays
  <1>2. PoolTypeOK'
    BY MoneyIs, PoolShrinks
  <1>3. withdrawals' \in Nat
    BY MoneyIs
  <1>4. CASE public[h] >= n /\ public' = Debit(public, h, n) /\ UNCHANGED private
    <2>1. public' \in [Holders -> Nat] /\ Held(public') = Held(public) - n
      BY <1>4, MoneyIs, HeldChanges
    <2> QED
      BY <1>1, <1>2, <1>3, <1>4, <2>1, MoneyIs, MoneyMoves
  <1>5. CASE private[h] >= n /\ private' = Debit(private, h, n) /\ UNCHANGED public
    <2>1. private' \in [Holders -> Nat] /\ Held(private') = Held(private) - n
      BY <1>5, MoneyIs, HeldChanges
    <2> QED
      BY <1>1, <1>2, <1>3, <1>5, <2>1, MoneyIs, MoneyMoves
  <1> QED
    BY <1>4, <1>5

\* No balance, message or escrow moves.
LEMMA MoneyStays ==
  ASSUME MoneyInv, FlowTypeOK, UNCHANGED <<balances, escrow, withdrawals>>,
         UNCHANGED message \/ \E d \in Deposits : MessageLands(d), PoolTypeOK'
  PROVE  MoneyInv'
  <1>1. AmountsKept' /\ Promised' = Promised
    BY MoneyIs, PromiseStays
  <1>2. public' = public /\ private' = private
    BY DEF balances
  <1> QED
    BY <1>1, <1>2, MoneyIs, MoneyMoves

LEMMA BridgeMoney ==
  ASSUME MoneyInv, FlowTypeOK, BridgeStep
  PROVE  MoneyInv'
  <1>0. /\ PoolTypeOK /\ Users \subseteq Holders /\ faucet \in Holders
        /\ \A d \in Deposits : Amount[d] \in Nat
    BY MoneyIs, ClientAssumption, FaucetAssumption, AmountIs
  <1>1. CASE SetConfig \/ NewBlock
    <2>1. UNCHANGED <<balances, escrow, withdrawals, message, pool>>
      BY <1>1 DEF SetConfig, NewBlock
    <2> QED
      BY <1>0, <2>1, PoolShrinks, MoneyStays
  <1>2. ASSUME NEW d \in Deposits, NEW to \in {faucet, NoHolder}, DepositOnL1(d, to)
        PROVE  MoneyInv'
    <2>1. AmountsKept' /\ Promised' = Promised + Amount[d]
      BY <1>2, MoneyIs, PromiseMade
    <2>2. escrow' = escrow + Amount[d] /\ public' = public /\ private' = private
             /\ withdrawals' = withdrawals /\ pool' = pool
      BY <1>2 DEF DepositOnL1, balances
    <2> QED
      BY <1>0, <2>1, <2>2, PoolShrinks, MoneyIs, MoneyMoves
  <1>3. ASSUME NEW d \in Deposits, MessageLands(d)
        PROVE  MoneyInv'
    <2>1. UNCHANGED <<balances, escrow, withdrawals, pool>>
      BY <1>3 DEF MessageLands
    <2> QED
      BY <1>0, <1>3, <2>1, PoolShrinks, MoneyStays
  <1>4. ASSUME NEW d \in Deposits, NEW to \in Users \cup {faucet}, ClaimPublic(d, to, Amount[d])
        PROVE  MoneyInv'
    <2>1. to \in Holders
      BY <1>0
    <2> QED
      BY <1>4, <2>1, ClaimMoves DEF ClaimPublic, Consumable
  <1>5. ASSUME NEW d \in Deposits, NEW to \in Users, ProveClaimPrivate(d, to, Amount[d])
        PROVE  MoneyInv'
    <2>1. PoolTypeOK'
      BY <1>0, <1>5 DEF ProveClaimPrivate, PoolTypeOK
    <2> QED
      BY <1>5, <2>1, MoneyStays DEF ProveClaimPrivate
  <1>6. ASSUME NEW u \in Users, ExitPublic(u, 1)
        PROVE  MoneyInv'
    <2>1. u \in Holders /\ 1 \in Nat
      BY <1>0
    <2> QED
      BY <1>6, <2>1, ExitMoves DEF ExitPublic
  <1>7. ASSUME NEW u \in Users, ProveExitPrivate(u, 1)
        PROVE  MoneyInv'
    <2>1. PoolTypeOK'
      BY <1>0, <1>7 DEF ProveExitPrivate, PoolTypeOK
    <2> QED
      BY <1>7, <2>1, MoneyStays DEF ProveExitPrivate
  <1>8. ASSUME NEW u \in Users, Shield(u, 1)
        PROVE  MoneyInv'
    <2>1. u \in Holders /\ 1 \in Nat
      BY <1>0
    <2>2. public' \in [Holders -> Nat] /\ Held(public') = Held(public) - 1
      BY <1>8, <2>1, MoneyIs, HeldChanges DEF Shield
    <2>3. private' \in [Holders -> Nat] /\ Held(private') = Held(private) + 1
      BY <1>8, <2>1, MoneyIs, HeldChanges DEF Shield
    <2>4. UNCHANGED <<message, escrow, withdrawals, pool>>
      BY <1>8 DEF Shield
    <2>5. AmountsKept' /\ Promised' = Promised /\ PoolTypeOK'
      BY <2>4, MoneyIs, PromiseStays, PoolShrinks
    <2>6. /\ escrow' \in Int /\ withdrawals' \in Nat /\ Promised' \in Int
          /\ escrow' = escrow + (Held(public') - Held(public)) + (Held(private') - Held(private))
                         + (Promised' - Promised) + (withdrawals' - withdrawals)
      BY <2>2, <2>3, <2>4, <2>5, MoneyIs
    <2> QED
      BY <2>2, <2>3, <2>5, <2>6, MoneyMoves
  <1>9. ASSUME NEW t \in pool, IncludeClaim(t)
        PROVE  MoneyInv'
    <2>1. t.deposit \in Deposits /\ t.holder \in Holders
      BY <1>0, <1>9 DEF IncludeClaim, PoolTypeOK
    <2>2. t.amount = Amount[t.deposit] /\ message[t.deposit].stage = "landed"
      BY <1>9, <2>1, MoneyIs DEF IncludeClaim, Consumable, AmountsKept
    <2> QED
      BY <1>9, <2>1, <2>2, ClaimMoves DEF IncludeClaim
  <1>10. ASSUME NEW t \in pool, IncludeExit(t)
         PROVE  MoneyInv'
    <2>1. t.holder \in Holders /\ t.amount \in Nat
      BY <1>0 DEF PoolTypeOK
    <2> QED
      BY <1>10, <2>1, ExitMoves DEF IncludeExit, Burn
  <1>11. ASSUME NEW t \in pool, DropCall(t)
         PROVE  MoneyInv'
    <2>1. PoolTypeOK'
      BY <1>0, <1>11, PoolShrinks DEF DropCall
    <2> QED
      BY <1>11, <2>1, MoneyStays DEF DropCall
  <1>12. CASE WithdrawOnL1(1)
    <2>1. /\ withdrawals' = withdrawals - 1 /\ escrow' = escrow - 1 /\ 1 <= withdrawals
          /\ public' = public /\ private' = private /\ UNCHANGED <<message, pool>>
      BY <1>12 DEF WithdrawOnL1, balances
    <2>2. AmountsKept' /\ Promised' = Promised /\ PoolTypeOK'
      BY <2>1, MoneyIs, PromiseStays, PoolShrinks
    <2> QED
      BY <2>1, <2>2, MoneyIs, MoneyMoves
  <1> QED
    BY <1>1, <1>2, <1>3, <1>4, <1>5, <1>6, <1>7, <1>8, <1>9, <1>10, <1>11, <1>12 DEF BridgeStep

\* The faucet moves tokens within the public balances, its own included.
LEMMA FaucetMoney ==
  ASSUME MoneyInv, FlowTypeOK, FaucetStep
  PROVE  MoneyInv'
  <1>1. PICK to \in Holders, n \in Nat :
          /\ public[faucet] >= n /\ TransferPublic(faucet, to, n)
          /\ UNCHANGED <<message, private, escrow, withdrawals, pool>>
    BY ClientAssumption, FaucetAssumption DEF FaucetStep, Drip, AdminDrip
  <1> DEFINE less == Debit(public, faucet, n)
  <1>2. less \in [Holders -> Nat] /\ Held(less) = Held(public) - n
    BY <1>1, MoneyIs, HeldChanges, FaucetAssumption
  <1>3. public' = Credit(less, to, n)
    BY <1>1 DEF TransferPublic
  <1> HIDE DEF less
  <1>4. public' \in [Holders -> Nat] /\ Held(public') = Held(less) + n
    BY <1>2, <1>3, HeldChanges
  <1>5. AmountsKept' /\ Promised' = Promised /\ PoolTypeOK'
    BY <1>1, MoneyIs, PromiseStays, PoolShrinks
  <1> QED
    BY <1>1, <1>2, <1>4, <1>5, MoneyIs, MoneyMoves

\* The operator's part of a cold start and the user's are what was deposited.
LEMMA ColdStartMoney ==
  ASSUME MoneyInv, IInv, NEW k \in Calls, NEW n \in Attempts, IncludeTx(k, n)
  PROVE  MoneyInv'
  <1> DEFINE q == Quote(k)
             fee == aaPaymentAmount
             rest == Amount[q.deposit] - fee
             more == Credit(private, q.user, rest)
  <1>1. q \in Quotes
    <2>a. sent[k][n] = "pooled"
      BY DEF IncludeTx, Admissible
    <2>1. sent[k][n] # "not sent"
      BY <2>a, Zenon
    <2>2. Asked(k)
      BY <2>1, ZenonT(30) DEF IInv, AskedFirst
    <2> QED
      BY <2>2, QuoteIs
  <1>2. q.deposit \in Deposits /\ q.user \in Holders
    BY <1>1, ClientAssumption DEF Quotes
  <1>3. fee \in Nat /\ rest \in Nat /\ operator \in Holders /\ rest + fee = Amount[q.deposit]
    BY <1>2, ClientAssumption, AmountIs
  <1>4. /\ message[q.deposit].stage = "landed" /\ message' = SetStage(q.deposit, "consumed")
        /\ private' = Credit(more, operator, fee)
        /\ UNCHANGED <<public, escrow, withdrawals, pool>>
    BY DEF IncludeTx, Admissible, Consumable
  <1> HIDE DEF q
  <1>5. more \in [Holders -> Nat] /\ Held(more) = Held(private) + rest
    BY <1>2, <1>3, MoneyIs, HeldChanges
  <1> HIDE DEF more, fee
  <1>6. private' \in [Holders -> Nat] /\ Held(private') = Held(more) + fee
    BY <1>3, <1>4, <1>5, HeldChanges
  <1>7. AmountsKept' /\ Promised' = Promised - Amount[q.deposit]
    BY <1>2, <1>4, MoneyIs, PromiseKept DEF IInv
  <1>8. PoolTypeOK'
    BY <1>4, MoneyIs, PoolShrinks
  <1>9. Amount[q.deposit] \in Nat
    BY <1>2, AmountIs
  <1> HIDE DEF rest
  <1> QED
    BY <1>3, <1>4, <1>5, <1>6, <1>7, <1>8, <1>9, MoneyIs, MoneyMoves

LEMMA NextMoney == IInv /\ MoneyInv /\ [Next]_vars => MoneyInv'
  <1> SUFFICES ASSUME IInv, MoneyInv, [Next]_vars
               PROVE  MoneyInv'
    OBVIOUS
  <1>0. FlowTypeOK
    BY DEF IInv
  <1>1. CASE BridgeStep
    BY <1>0, <1>1, BridgeMoney
  <1>2. CASE FaucetStep
    BY <1>0, <1>2, FaucetMoney
  <1>3. CASE \E k \in Calls, n \in Attempts : IncludeTx(k, n)
    BY <1>3, ColdStartMoney
  <1>4. CASE UNCHANGED bridgeVars
    <2>1. UNCHANGED <<balances, escrow, withdrawals, message, pool>>
      BY <1>4 DEF bridgeVars, balances
    <2> QED
      BY <1>0, <2>1, MoneyIs, PoolShrinks, MoneyStays
  <1> QED
    BY <1>1, <1>2, <1>3, <1>4 DEF Next, vars, TxReverts, TxDropped

LEMMA MoneyInvariance == Spec => []MoneyInv
  BY InitMoney, NextMoney, Invariance, PTL DEF Spec

-----------------------------------------------------------------------------

\* Whoever claims, exits, drips or starts, and in whatever order, the portal holds
\* exactly what was deposited and not yet withdrawn (main.nr of the bridge).
THEOREM EscrowIsEnough == Spec => []EscrowBacksSupply
  BY MoneyInvariance, PTL DEF MoneyInv

\* The portal can pay every exit it has a message for.
THEOREM ExitsCanBePaid == Spec => [](withdrawals <= escrow)
  <1>1. MoneyInv => withdrawals <= escrow
    <2> SUFFICES ASSUME MoneyInv
                 PROVE  withdrawals <= escrow
      OBVIOUS
    <2>1. Promised \in Nat
      <3>1. IsFiniteSet(InFlight) /\ \A d \in InFlight : Amount[d] \in Nat
        BY AmountIs, FS_Subset DEF InFlight
      <3> QED
        BY <3>1, SumOfNats DEF Promised
    <2>2. Held(public) \in Nat /\ Held(private) \in Nat /\ withdrawals \in Nat
      BY MoneyIs, HeldIs
    <2>3. escrow = Held(public) + Held(private) + Promised + withdrawals
      BY Backed DEF MoneyInv
    <2> QED
      BY <2>1, <2>2, <2>3
  <1> QED
    BY <1>1, MoneyInvariance, PTL

-----------------------------------------------------------------------------
(* The faucet's cooldown.  A recipient that has had n drips has had the last *)
(* of them no earlier than n cooldowns after the epoch, and time starts one  *)
(* cooldown after it.                                                        *)

CooldownKept(h) ==
  /\ last_drip[h] \in Nat /\ drips[h] \in Nat
  /\ last_drip[h] <= Now
  /\ drips[h] * cooldown_seconds <= last_drip[h]

DripInv ==
  cooldown_seconds > 0 =>
    /\ last_drip \in [Holders -> Nat] /\ drips \in [Holders -> Nat]
    /\ \A h \in Holders : CooldownKept(h)

LEMMA InitDrips == Init => DripInv
  <1> SUFFICES ASSUME Init
               PROVE  DripInv
    OBVIOUS
  <1>1. cooldown_seconds \in Nat /\ 0 * cooldown_seconds = 0
    BY FaucetAssumption
  <1> QED
    BY <1>1 DEF Init, BridgeInit, FaucetInit, DripInv, CooldownKept, Now

LEMMA OneMore ==
  ASSUME NEW n \in Nat, NEW c \in Nat
  PROVE  (n + 1) * c = n * c + c /\ n * c \in Nat
  OBVIOUS

LEMMA NextDrips == IInv /\ DripInv /\ [Next]_vars => DripInv'
  <1> SUFFICES ASSUME IInv, DripInv, [Next]_vars, cooldown_seconds > 0
               PROVE  DripInv'
    BY DEF DripInv
  <1>0. /\ last_drip \in [Holders -> Nat] /\ drips \in [Holders -> Nat]
        /\ \A h \in Holders : CooldownKept(h)
        /\ cooldown_seconds \in Nat /\ clock \in Nat /\ Now \in Nat
    BY FaucetAssumption, BridgeAssumption DEF DripInv, IInv, FlowTypeOK, Now
  <1>1. ASSUME NEW u \in Users, Drip(u)
        PROVE  DripInv'
    <2>1. u \in Holders /\ Now' = Now
      BY <1>1, ClientAssumption DEF Drip, Now
    <2>2. /\ last_drip' = [last_drip EXCEPT ![u] = Now] /\ drips' = [drips EXCEPT ![u] = drips[u] + 1]
          /\ Now - last_drip[u] >= cooldown_seconds
      BY <1>1 DEF Drip, CooldownOver
    <2>3. /\ last_drip' \in [Holders -> Nat] /\ drips' \in [Holders -> Nat]
      BY <1>0, <2>1, <2>2
    <2>4. CooldownKept(u)'
      <3>1. last_drip'[u] = Now /\ drips'[u] = drips[u] + 1
        BY <1>0, <2>1, <2>2
      <3>2. last_drip[u] \in Nat /\ drips[u] \in Nat /\ drips[u] * cooldown_seconds <= last_drip[u]
        BY <1>0, <2>1 DEF CooldownKept
      <3>3. /\ (drips[u] + 1) * cooldown_seconds = drips[u] * cooldown_seconds + cooldown_seconds
            /\ drips[u] * cooldown_seconds \in Nat
        BY <1>0, <3>2, OneMore
      <3> DEFINE had == drips[u] * cooldown_seconds
                 has == (drips[u] + 1) * cooldown_seconds
      <3>4. has <= Now
        <4> HIDE DEF had, has
        <4>1. had \in Nat /\ had <= last_drip[u] /\ has = had + cooldown_seconds
          BY <3>2, <3>3 DEF had, has
        <4> QED
          BY <1>0, <2>2, <3>2, <4>1
      <3>5. drips'[u] * cooldown_seconds <= last_drip'[u]
        BY <3>1, <3>4
      <3> QED
        BY <1>0, <2>1, <3>1, <3>2, <3>5 DEF CooldownKept
    <2>5. ASSUME NEW h \in Holders, h # u
          PROVE  CooldownKept(h)'
      <3>1. last_drip'[h] = last_drip[h] /\ drips'[h] = drips[h]
        BY <1>0, <2>1, <2>2, <2>5
      <3> QED
        BY <1>0, <2>1, <3>1 DEF CooldownKept
    <2> QED
      BY <2>3, <2>4, <2>5 DEF DripInv
  <1>2. CASE UNCHANGED faucetVars /\ Now' \in Int /\ Now' >= Now
    <2>1. ASSUME NEW h \in Holders
          PROVE  CooldownKept(h)'
      <3>1. last_drip[h] \in Nat /\ last_drip[h] <= Now /\ CooldownKept(h)
        BY <1>0 DEF CooldownKept
      <3>2. last_drip[h] <= Now'
        BY <1>0, <1>2, <3>1
      <3> QED
        BY <1>2, <3>1, <3>2 DEF CooldownKept, faucetVars
    <2> QED
      BY <1>0, <1>2, <2>1 DEF DripInv, faucetVars
  <1>3. ASSUME UNCHANGED <<faucetVars, clock>>
        PROVE  DripInv'
    <2>1. Now' = Now
      BY <1>3 DEF Now
    <2> QED
      BY <1>0, <1>2, <1>3, <2>1
  <1>4. CASE BridgeStep /\ UNCHANGED faucetVars
    <2>1. CASE NewBlock
      <3>1. Now' = Now + 1
        BY <1>0, <2>1 DEF NewBlock, Now
      <3> QED
        BY <1>0, <1>2, <1>4, <3>1
    <2>2. CASE ~NewBlock
      <3>1. UNCHANGED clock
        BY <1>4, <2>2
           DEF BridgeStep, SetConfig, DepositOnL1, MessageLands, ClaimPublic, ProveClaimPrivate,
               IncludeClaim, ExitPublic, ProveExitPrivate, IncludeExit, Shield, DropCall,
               WithdrawOnL1
      <3> QED
        BY <1>3, <1>4, <3>1
    <2> QED
      BY <2>1, <2>2
  <1>5. ASSUME NEW u \in Users, AdminDrip(u, 1)
        PROVE  DripInv'
    BY <1>3, <1>5 DEF AdminDrip
  <1>6. CASE UNCHANGED <<bridgeVars, faucetVars>>
    BY <1>3, <1>6 DEF bridgeVars
  <1>7. ASSUME NEW k \in Calls, NEW n \in Attempts, UNCHANGED faucetVars,
               IncludeTx(k, n) \/ TxReverts(k, n) \/ TxDropped(k, n)
        PROVE  DripInv'
    BY <1>3, <1>7 DEF IncludeTx, TxReverts, TxDropped, bridgeVars
  <1> QED
    BY <1>1, <1>4, <1>5, <1>6, <1>7 DEF Next, FaucetStep, vars

LEMMA AtMost ==
  ASSUME NEW n \in Nat, NEW t \in Nat, NEW c \in Nat \ {0}, n * c <= t + c
  PROVE  n <= 1 + t \div c
  <1>1. /\ t \div c \in Nat /\ t % c \in 0..(c - 1)
        /\ t = c * (t \div c) + (t % c)
    OBVIOUS
  <1> DEFINE q == t \div c
  <1> HIDE DEF q
  <1>2. q \in Nat /\ t < c * q + c /\ c * q \in Nat
    BY <1>1 DEF q
  <1>3. SUFFICES ASSUME n >= q + 2
                 PROVE  FALSE
    BY <1>2 DEF q
  <1>4. n * c >= (q + 2) * c
    BY <1>2, <1>3
  <1>5. (q + 2) * c = c * q + c + c /\ n * c \in Nat
    BY <1>2
  <1> QED
    BY <1>2, <1>4, <1>5

\* One drip, and one for each whole cooldown since, is all that a recipient gets
\* (faucet main.nr: "Minimum seconds between successive drips").
THEOREM CooldownHolds == Spec => []DripsAreSpaced
  <1>1. IInv /\ DripInv => DripsAreSpaced
    <2> SUFFICES ASSUME IInv, DripInv, NEW h \in Holders, cooldown_seconds > 0
                 PROVE  drips[h] <= 1 + clock \div cooldown_seconds
      BY DEF DripsAreSpaced
    <2>1. cooldown_seconds \in Nat \ {0} /\ clock \in Nat
      BY FaucetAssumption, BridgeAssumption DEF IInv, FlowTypeOK
    <2>2. drips[h] \in Nat /\ last_drip[h] \in Nat /\ last_drip[h] <= clock + cooldown_seconds
             /\ drips[h] * cooldown_seconds <= last_drip[h]
      BY DEF DripInv, CooldownKept, Now
    <2>3. drips[h] * cooldown_seconds \in Nat
      BY <2>1, <2>2, OneMore
    <2> DEFINE had == drips[h] * cooldown_seconds
    <2>4. had <= clock + cooldown_seconds
      <3>1. had \in Nat /\ had <= last_drip[h]
        BY <2>2, <2>3
      <3> HIDE DEF had
      <3> QED
        BY <2>1, <2>2, <3>1
    <2> QED
      BY <2>1, <2>2, <2>4, AtMost
  <1> QED
    BY <1>1, InitDrips, NextDrips, Invariance, PTL DEF Spec
=============================================================================
