---------------------------- MODULE TopupProofs ----------------------------
(***************************************************************************)
(* Proofs about the top-up service, for any number of cycles and deposits, *)
(* any amounts and any set of faults.                                      *)
(***************************************************************************)
EXTENDS TopupProperties, FiniteSetTheorems, TLAPS

\* Cycles do not overlap: only the one in flight is anywhere but idle.
Alone == \A c \in Cycles : pc[c] # "idle" => inFlight = c

\* Once a deposit was sent, the cycle that sent it knows which one.
JobHasDeposit ==
  \A c \in Cycles : pc[c] \in Unrecorded \cup Confirming => job[c].dep \in Deposits

\* From the end of the reconciliation to the write of the new record the store
\* holds no readable entry.
NothingOnRecord ==
  \A c \in Cycles : pc[c] \in {"check", "balance", "bridge"} \cup Unrecorded => ~HasRecord

IInv == TypeOK /\ Alone /\ JobHasDeposit /\ NothingOnRecord /\ WatchedIsPersisted

LEMMA InitIInv == Init => IInv
<1> SUFFICES ASSUME Init PROVE IInv
  OBVIOUS
<1> USE DEF Init, Idle
<1>1. TypeOK
  <2>1. BridgeTypeOK
    BY BridgeAssumption DEF BridgeInit, BridgeTypeOK, Stages
  <2>2. pc \in [Cycles -> Places]
    BY DEF Places
  <2>3. NoJob \in Jobs /\ FreshConf \in Confs
    BY DEF NoJob, Jobs, FreshConf, Confs
  <2> QED BY <2>1, <2>2, <2>3 DEF TypeOK
<1>2. Alone /\ JobHasDeposit /\ NothingOnRecord /\ WatchedIsPersisted
  BY DEF Alone, JobHasDeposit, NothingOnRecord, WatchedIsPersisted, Unrecorded, Confirming,
     Loop, Outcomes
<1> QED BY <1>1, <1>2 DEF IInv

LEMMA TypeStep == TypeOK /\ JobHasDeposit /\ [Next]_vars => TypeOK'
<1> SUFFICES ASSUME TypeOK, JobHasDeposit, [Next]_vars
             PROVE  TypeOK'
  OBVIOUS
<1> USE BridgeAssumption, ConfirmationAssumption, TopupAssumption
    DEF TypeOK, BridgeTypeOK
<1>0. NoJob \in Jobs /\ FreshConf \in Confs
  BY DEF NoJob, Jobs, FreshConf, Confs
<1>1. ASSUME NEW c \in Cycles, FindNoRecord(c)
      PROVE  TypeOK'
  BY <1>0, <1>1 DEF FindNoRecord, bridgeVars, Goto, procVars, Places,
     Confirming, Loop, Outcomes
<1>2. ASSUME NEW c \in Cycles, DropCorruptRecord(c)
      PROVE  TypeOK'
  BY <1>0, <1>2 DEF DropCorruptRecord, bridgeVars, Goto, procVars, ClearStore,
     Places, Confirming, Loop, Outcomes
<1>3. ASSUME NEW c \in Cycles, EvictRecord(c)
      PROVE  TypeOK'
  BY <1>0, <1>3 DEF EvictRecord, bridgeVars, Goto, procVars, ClearStore,
     Places, Confirming, Loop, Outcomes
<1>4. ASSUME NEW c \in Cycles, EvictFails(c)
      PROVE  TypeOK'
  BY <1>0, <1>4 DEF EvictFails, bridgeVars, EndCycle, Places, Confirming,
     Loop, Outcomes
<1>5. ASSUME NEW c \in Cycles, ReconcileRecord(c)
      PROVE  TypeOK'
  BY <1>0, <1>5 DEF ReconcileRecord, bridgeVars, Goto, procVars,
     StartConfirmation, FirstPlace, Places, Confirming, Loop, Outcomes,
     HasRecord, Records, Jobs
<1>6. ASSUME NEW c \in Cycles, ReconcileConfirmed(c)
      PROVE  TypeOK'
  BY <1>0, <1>6 DEF ReconcileConfirmed, bridgeVars, Goto, procVars,
     ClearStore, Places, Confirming, Loop, Outcomes
<1>7. ASSUME NEW c \in Cycles, ReconcileClearFails(c)
      PROVE  TypeOK'
  BY <1>0, <1>7 DEF ReconcileClearFails, bridgeVars, EndCycle, Places,
     Confirming, Loop, Outcomes
<1>8. ASSUME NEW c \in Cycles, ReconcileUnconfirmed(c)
      PROVE  TypeOK'
  BY <1>0, <1>8 DEF ReconcileUnconfirmed, bridgeVars, EndCycle, Places,
     Confirming, Loop, Outcomes
<1>9. ASSUME NEW c \in Cycles, StartCheck(c)
      PROVE  TypeOK'
  BY <1>0, <1>9 DEF StartCheck, bridgeVars, Goto, procVars, Places,
     Confirming, Loop, Outcomes
<1>10. ASSUME NEW c \in Cycles, SkipCheck(c)
      PROVE  TypeOK'
  BY <1>0, <1>10 DEF SkipCheck, bridgeVars, EndCycle, Places, Confirming,
     Loop, Outcomes
<1>11. ASSUME NEW c \in Cycles, BalanceSuffices(c)
      PROVE  TypeOK'
  BY <1>0, <1>11 DEF BalanceSuffices, bridgeVars, EndCycle, Places,
     Confirming, Loop, Outcomes
<1>12. ASSUME NEW c \in Cycles, BalanceUnknown(c)
      PROVE  TypeOK'
  BY <1>0, <1>12 DEF BalanceUnknown, bridgeVars, EndCycle, Places, Confirming,
     Loop, Outcomes
<1>13. ASSUME NEW c \in Cycles, StartBridge(c)
      PROVE  TypeOK'
  BY <1>0, <1>13 DEF StartBridge, bridgeVars, Goto, Places, Confirming, Loop,
     Outcomes, HasRecord, Records, Jobs
<1>14. ASSUME NEW c \in Cycles, BridgeMined(c)
      PROVE  TypeOK'
  BY <1>14 DEF BridgeMined, bridgeVars, Goto, procVars, Places
<1>15. ASSUME NEW c \in Cycles, BridgeFails(c)
      PROVE  TypeOK'
  BY <1>0, <1>15 DEF BridgeFails, bridgeVars, EndBridge, EndCycle, Places,
     Confirming, Loop, Outcomes
<1>16. ASSUME NEW c \in Cycles, BridgeLost(c)
      PROVE  TypeOK'
  BY <1>0, <1>16 DEF BridgeLost, bridgeVars, EndBridge, EndCycle, Places,
     Confirming, Loop, Outcomes
<1>17. ASSUME NEW c \in Cycles, Persist(c)
      PROVE  TypeOK'
  BY <1>0, <1>17 DEF Persist, bridgeVars, Goto, procVars, StartConfirmation,
     FirstPlace, Places, Confirming, Loop, Outcomes, Records, Jobs, JobHasDeposit, Unrecorded
<1>18. ASSUME NEW c \in Cycles, PersistFails(c)
      PROVE  TypeOK'
  BY <1>0, <1>18 DEF PersistFails, bridgeVars, EndBridge, EndCycle, Places,
     Confirming, Loop, Outcomes
<1>19. ASSUME NEW c \in Cycles, TopupConfirmed(c)
      PROVE  TypeOK'
  BY <1>0, <1>19 DEF TopupConfirmed, bridgeVars, EndBridge, EndCycle,
     ClearStore, Places, Confirming, Loop, Outcomes
<1>20. ASSUME NEW c \in Cycles, TopupUnconfirmed(c)
      PROVE  TypeOK'
  BY <1>0, <1>20 DEF TopupUnconfirmed, bridgeVars, EndBridge, EndCycle,
     Places, Confirming, Loop, Outcomes
<1>21. ASSUME NEW c \in Cycles, Attempt(c), UNCHANGED <<procVars, store>>
      PROVE  TypeOK'
  BY <1>0, <1>21 DEF Attempt, bridgeVars, procVars, Goto, Places, Confirming,
     Loop, Outcomes
<1>22. ASSUME NEW c \in Cycles, SubmitClaim(c), UNCHANGED <<procVars, store>>
      PROVE  TypeOK'
  <2>1. job[c].dep \in Deposits
    BY <1>22 DEF SubmitClaim, JobHasDeposit, Confirming, Loop
  <2> QED
  BY <2>1, <1>22 DEF SubmitClaim, bridgeVars, procVars, Goto, Places,
     Confirming, Loop, Outcomes, Confs
<1>23. ASSUME NEW c \in Cycles, ClaimReturns(c), UNCHANGED <<procVars, store>>
      PROVE  TypeOK'
  BY <1>0, <1>23 DEF ClaimReturns, bridgeVars, procVars, Goto, Places,
     Confirming, Loop, Outcomes
<1>24. ASSUME NEW c \in Cycles, PollBalance(c), UNCHANGED <<procVars, store>>
      PROVE  TypeOK'
  BY <1>0, <1>24 DEF PollBalance, bridgeVars, procVars, RecordPoll, Goto,
     Places, Confirming, Loop, Outcomes, Confs
<1>25. ASSUME NEW c \in Cycles, PollFails(c), UNCHANGED <<procVars, store>>
      PROVE  TypeOK'
  BY <1>0, <1>25 DEF PollFails, bridgeVars, procVars, Goto, Places,
     Confirming, Loop, Outcomes
<1>26. ASSUME NEW c \in Cycles, Decide(c), UNCHANGED <<procVars, store>>
      PROVE  TypeOK'
  BY <1>0, <1>26 DEF Decide, bridgeVars, procVars, Goto, Places, Confirming,
     Loop, Outcomes
<1>27. ASSUME NEW c \in Cycles, WakeUp(c), UNCHANGED <<procVars, store>>
      PROVE  TypeOK'
  BY <1>0, <1>27 DEF WakeUp, bridgeVars, procVars, Goto, Places, Confirming,
     Loop, Outcomes
<1>28. ASSUME NEW c \in Cycles, DeadlinePasses(c), UNCHANGED <<procVars, store>>
      PROVE  TypeOK'
  BY <1>0, <1>28 DEF DeadlinePasses, bridgeVars, procVars, Goto, Places,
     Confirming, Loop, Outcomes
<1>29. ASSUME NEW c \in Cycles, Expire(c), UNCHANGED <<procVars, store>>
      PROVE  TypeOK'
  BY <1>0, <1>29 DEF Expire, bridgeVars, procVars, Goto, Places, Confirming,
     Loop, Outcomes
<1>30. ASSUME NEW c \in Cycles, Tick(c)
      PROVE  TypeOK'
  BY <1>0, <1>30 DEF Tick, bridgeVars, Goto, Places, Confirming, Loop,
     Outcomes
<1>31. ASSUME NEW c \in Cycles, SettleCheck(c)
      PROVE  TypeOK'
  BY <1>0, <1>31 DEF SettleCheck, MessageCheckSettles, bridgeVars, procVars,
     Places, Confirming, Loop, Outcomes, Confs
<1>32. CASE WorldStep
  BY <1>32 DEF WorldStep, BridgeNext, DepositMined, DepositDropped, MessageArrives, ClaimLands,
     ClaimDropped, FeeCharged, ExternalCredit, confirmVars, procVars, Stages
<1>33. CASE Start
  BY <1>0, <1>33 DEF Start, bridgeVars, confirmVars, procVars, Places
<1>34. CASE RequestShutdown
  BY <1>0, <1>34 DEF RequestShutdown, bridgeVars, confirmVars, procVars,
     Places
<1>35. CASE FinishShutdown
  BY <1>0, <1>35 DEF FinishShutdown, bridgeVars, confirmVars, procVars, Places
<1>36. CASE Crash
  BY <1>0, <1>36 DEF Crash, bridgeVars, confirmVars, procVars, Places
<1>37. CASE ManualClaim
  BY <1>0, <1>37 DEF ManualClaim, bridgeVars, confirmVars, procVars,
     HasRecord, Records
<1>38. CASE RecordAges
  BY <1>0, <1>38 DEF RecordAges, bridgeVars, confirmVars, procVars, HasRecord,
     Records
<1>39. CASE RecordCorrupts
  BY <1>0, <1>39 DEF RecordCorrupts, bridgeVars, confirmVars, procVars,
     HasRecord
<1>40. CASE UNCHANGED vars
  BY <1>40 DEF vars, bridgeVars, confirmVars, Stages
<1>41. ASSUME NEW c \in Cycles, SendBridge(c)
      PROVE  TypeOK'
  BY <1>0, <1>41 DEF SendBridge, Goto, procVars, SendDeposit, Stages, Places, Jobs
<1>42. ASSUME NEW c \in Cycles, BridgeAgain(c)
      PROVE  TypeOK'
  BY <1>0, <1>42 DEF BridgeAgain, bridgeVars, Goto, procVars, Places, Jobs
<1> QED
  BY <1>1, <1>2, <1>3, <1>4, <1>5, <1>6, <1>7, <1>8, <1>9, <1>10, <1>11,
     <1>12, <1>13, <1>14, <1>15, <1>16, <1>17, <1>18, <1>19, <1>20, <1>21,
     <1>22, <1>23, <1>24, <1>25, <1>26, <1>27, <1>28, <1>29, <1>30, <1>31,
     <1>32, <1>33, <1>34, <1>35, <1>36, <1>37, <1>38, <1>39, <1>40, <1>41, <1>42
     DEF Next,
     CycleStep, ReconcileStep, CheckStep, ConfirmStep, ProcessStep

\* The rest of the invariant.
Control == Alone /\ JobHasDeposit /\ NothingOnRecord /\ WatchedIsPersisted

\* A record is neither "no entry" nor an unreadable one.
LEMMA RecordsAreRecords ==
  \A r \in Records : r \notin {NoRecord, Corrupt}
BY StoreAssumption

LEMMA ControlStep == TypeOK /\ Control /\ [Next]_vars => Control'
<1> SUFFICES ASSUME TypeOK, Control, [Next]_vars
             PROVE  Control'
  OBVIOUS
<1> USE ConfirmationAssumption, TopupAssumption
    DEF TypeOK, BridgeTypeOK, Control, Alone, JobHasDeposit, NothingOnRecord,
        WatchedIsPersisted, Unrecorded
<1>0. NoCycle \notin Cycles
  BY TopupAssumption
<1>1. ASSUME NEW c \in Cycles, FindNoRecord(c)
      PROVE  Control'
  BY <1>0, <1>1 DEF FindNoRecord, bridgeVars, Goto, procVars, Places,
     Confirming, Loop, Outcomes, HasRecord
<1>2. ASSUME NEW c \in Cycles, DropCorruptRecord(c)
      PROVE  Control'
  BY <1>0, <1>2 DEF DropCorruptRecord, bridgeVars, Goto, procVars, ClearStore,
     Places, Confirming, Loop, Outcomes, HasRecord
<1>3. ASSUME NEW c \in Cycles, EvictRecord(c)
      PROVE  Control'
  BY <1>0, <1>3 DEF EvictRecord, bridgeVars, Goto, procVars, ClearStore,
     Places, Confirming, Loop, Outcomes, HasRecord
<1>4. ASSUME NEW c \in Cycles, EvictFails(c)
      PROVE  Control'
  BY <1>0, <1>4 DEF EvictFails, bridgeVars, EndCycle, Places, Confirming,
     Loop, Outcomes, HasRecord
<1>5. ASSUME NEW c \in Cycles, ReconcileRecord(c)
      PROVE  Control'
  BY <1>0, <1>5 DEF ReconcileRecord, bridgeVars, Goto, procVars,
     StartConfirmation, FirstPlace, Places, Confirming, Loop, Outcomes,
     HasRecord, Records, Jobs
<1>6. ASSUME NEW c \in Cycles, ReconcileConfirmed(c)
      PROVE  Control'
  BY <1>0, <1>6 DEF ReconcileConfirmed, bridgeVars, Goto, procVars,
     ClearStore, Places, Confirming, Loop, Outcomes, HasRecord
<1>7. ASSUME NEW c \in Cycles, ReconcileClearFails(c)
      PROVE  Control'
  BY <1>0, <1>7 DEF ReconcileClearFails, bridgeVars, EndCycle, Places,
     Confirming, Loop, Outcomes, HasRecord
<1>8. ASSUME NEW c \in Cycles, ReconcileUnconfirmed(c)
      PROVE  Control'
  BY <1>0, <1>8 DEF ReconcileUnconfirmed, bridgeVars, EndCycle, Places,
     Confirming, Loop, Outcomes, HasRecord
<1>9. ASSUME NEW c \in Cycles, StartCheck(c)
      PROVE  Control'
  BY <1>0, <1>9 DEF StartCheck, bridgeVars, Goto, procVars, Places,
     Confirming, Loop, Outcomes, HasRecord
<1>10. ASSUME NEW c \in Cycles, SkipCheck(c)
      PROVE  Control'
  BY <1>0, <1>10 DEF SkipCheck, bridgeVars, EndCycle, Places, Confirming,
     Loop, Outcomes, HasRecord
<1>11. ASSUME NEW c \in Cycles, BalanceSuffices(c)
      PROVE  Control'
  BY <1>0, <1>11 DEF BalanceSuffices, bridgeVars, EndCycle, Places,
     Confirming, Loop, Outcomes, HasRecord
<1>12. ASSUME NEW c \in Cycles, BalanceUnknown(c)
      PROVE  Control'
  BY <1>0, <1>12 DEF BalanceUnknown, bridgeVars, EndCycle, Places, Confirming,
     Loop, Outcomes, HasRecord
<1>13. ASSUME NEW c \in Cycles, StartBridge(c)
      PROVE  Control'
  BY <1>0, <1>13 DEF StartBridge, bridgeVars, Goto, Places, Confirming, Loop,
     Outcomes, HasRecord, Records, Jobs
<1>14. ASSUME NEW c \in Cycles, BridgeMined(c)
      PROVE  Control'
  BY <1>0, <1>14 DEF BridgeMined, bridgeVars, Goto, procVars, Unrecorded,
     Places, Confirming, Loop, Outcomes, HasRecord
<1>15. ASSUME NEW c \in Cycles, BridgeFails(c)
      PROVE  Control'
  BY <1>0, <1>15 DEF BridgeFails, bridgeVars, EndBridge, EndCycle, Places,
     Confirming, Loop, Outcomes, HasRecord
<1>16. ASSUME NEW c \in Cycles, BridgeLost(c)
      PROVE  Control'
  BY <1>0, <1>16 DEF BridgeLost, bridgeVars, EndBridge, EndCycle,
     Places, Confirming, Loop, Outcomes, HasRecord
<1>17. ASSUME NEW c \in Cycles, Persist(c)
      PROVE  Control'
  <2>1. pc[c] = "persist" /\ job[c].dep \in Deposits /\ job[c].base \in Nat
    BY <1>17 DEF Persist, Jobs
  <2>2. store' = [dep |-> job[c].dep, base |-> job[c].base, stale |-> FALSE]
    BY <1>17 DEF Persist
  <2>3. HasRecord'
    BY <2>1, <2>2, RecordsAreRecords DEF Records, HasRecord
  <2>4. /\ pc'[c] \in Confirming
        /\ job'[c].dep = job[c].dep /\ job'[c].base = job[c].base
        /\ \A x \in Cycles : x # c => pc'[x] = pc[x] /\ job'[x] = job[x]
    BY <1>17 DEF Persist, Goto, StartConfirmation, FirstPlace, Confirming, Loop, Outcomes
  <2>5. \A x \in Cycles : x # c => pc[x] = "idle"
    BY <1>0, <2>1
  <2>6. pc' = [pc EXCEPT ![c] = FirstPlace] /\ inFlight' = inFlight
    BY <1>17 DEF Persist, Goto, StartConfirmation, procVars
  <2> QED
    BY <2>1, <2>2, <2>3, <2>4, <2>5, <2>6 DEF Confirming, Loop, Outcomes
<1>18. ASSUME NEW c \in Cycles, PersistFails(c)
      PROVE  Control'
  BY <1>0, <1>18 DEF PersistFails, bridgeVars, EndBridge, EndCycle, Places,
     Confirming, Loop, Outcomes, HasRecord
<1>19. ASSUME NEW c \in Cycles, TopupConfirmed(c)
      PROVE  Control'
  BY <1>0, <1>19 DEF TopupConfirmed, bridgeVars, EndBridge, EndCycle,
     ClearStore, Places, Confirming, Loop, Outcomes, HasRecord
<1>20. ASSUME NEW c \in Cycles, TopupUnconfirmed(c)
      PROVE  Control'
  BY <1>0, <1>20 DEF TopupUnconfirmed, bridgeVars, EndBridge, EndCycle,
     Places, Confirming, Loop, Outcomes, HasRecord
<1>21. ASSUME NEW c \in Cycles, Attempt(c), UNCHANGED <<procVars, store>>
      PROVE  Control'
  BY <1>0, <1>21 DEF Attempt, bridgeVars, procVars, Goto, Places, Confirming,
     Loop, Outcomes, HasRecord
<1>22. ASSUME NEW c \in Cycles, SubmitClaim(c), UNCHANGED <<procVars, store>>
      PROVE  Control'
  BY <1>0, <1>22 DEF SubmitClaim, bridgeVars, procVars, Goto, Places,
     Confirming, Loop, Outcomes, HasRecord, Confs
<1>23. ASSUME NEW c \in Cycles, ClaimReturns(c), UNCHANGED <<procVars, store>>
      PROVE  Control'
  BY <1>0, <1>23 DEF ClaimReturns, bridgeVars, procVars, Goto, Places,
     Confirming, Loop, Outcomes, HasRecord
<1>24. ASSUME NEW c \in Cycles, PollBalance(c), UNCHANGED <<procVars, store>>
      PROVE  Control'
  BY <1>0, <1>24 DEF PollBalance, bridgeVars, procVars, RecordPoll, Goto,
     Places, Confirming, Loop, Outcomes, HasRecord, Confs
<1>25. ASSUME NEW c \in Cycles, PollFails(c), UNCHANGED <<procVars, store>>
      PROVE  Control'
  BY <1>0, <1>25 DEF PollFails, bridgeVars, procVars, Goto, Places,
     Confirming, Loop, Outcomes, HasRecord
<1>26. ASSUME NEW c \in Cycles, Decide(c), UNCHANGED <<procVars, store>>
      PROVE  Control'
  BY <1>0, <1>26 DEF Decide, bridgeVars, procVars, Goto, Places, Confirming,
     Loop, Outcomes, HasRecord
<1>27. ASSUME NEW c \in Cycles, WakeUp(c), UNCHANGED <<procVars, store>>
      PROVE  Control'
  BY <1>0, <1>27 DEF WakeUp, bridgeVars, procVars, Goto, Places, Confirming,
     Loop, Outcomes, HasRecord
<1>28. ASSUME NEW c \in Cycles, DeadlinePasses(c), UNCHANGED <<procVars, store>>
      PROVE  Control'
  BY <1>0, <1>28 DEF DeadlinePasses, bridgeVars, procVars, Goto, Places,
     Confirming, Loop, Outcomes, HasRecord
<1>29. ASSUME NEW c \in Cycles, Expire(c), UNCHANGED <<procVars, store>>
      PROVE  Control'
  BY <1>0, <1>29 DEF Expire, bridgeVars, procVars, Goto, Places, Confirming,
     Loop, Outcomes, HasRecord
<1>30. ASSUME NEW c \in Cycles, Tick(c)
      PROVE  Control'
  BY <1>0, <1>30 DEF Tick, bridgeVars, Goto, Places, Confirming, Loop,
     Outcomes, HasRecord
<1>31. ASSUME NEW c \in Cycles, SettleCheck(c)
      PROVE  Control'
  BY <1>0, <1>31 DEF SettleCheck, MessageCheckSettles, bridgeVars, procVars,
     Places, Confirming, Loop, Outcomes, HasRecord, Confs
<1>32. CASE WorldStep
  BY <1>32 DEF WorldStep, BridgeNext, DepositMined, DepositDropped, MessageArrives, ClaimLands,
     ClaimDropped, FeeCharged, ExternalCredit, confirmVars, procVars,
     HasRecord
<1>33. CASE Start
  BY <1>0, <1>33 DEF Start, bridgeVars, confirmVars, procVars, HasRecord,
     Records, Confirming, Loop, Outcomes
<1>34. CASE RequestShutdown
  BY <1>0, <1>34 DEF RequestShutdown, bridgeVars, confirmVars, procVars,
     HasRecord, Records, Confirming, Loop, Outcomes
<1>35. CASE FinishShutdown
  BY <1>0, <1>35 DEF FinishShutdown, bridgeVars, confirmVars, procVars,
     HasRecord, Records, Confirming, Loop, Outcomes
<1>36. CASE Crash
  BY <1>0, <1>36 DEF Crash, bridgeVars, confirmVars, procVars, HasRecord,
     Records, Confirming, Loop, Outcomes
<1>37. CASE ManualClaim
  BY <1>0, <1>37 DEF ManualClaim, bridgeVars, confirmVars, procVars,
     HasRecord, Records, Confirming, Loop, Outcomes
<1>38. CASE RecordAges
  <2>1. store \in Records
    BY <1>38 DEF RecordAges, HasRecord
  <2>2. store' \in Records /\ store'.dep = store.dep /\ store'.base = store.base
    BY <1>38, <2>1 DEF RecordAges, Records
  <2>3. HasRecord' /\ HasRecord
    BY <1>38, <2>2, RecordsAreRecords DEF RecordAges, HasRecord
  <2>4. \A c \in Cycles : pc'[c] = pc[c] /\ job'[c] = job[c]
    BY <1>38 DEF RecordAges, confirmVars
  <2>5. inFlight' = inFlight
    BY <1>38 DEF RecordAges, procVars
  <2>6. store # Corrupt
    BY <2>3 DEF HasRecord
  <2> QED
    BY <2>2, <2>3, <2>4, <2>5, <2>6
<1>39. CASE RecordCorrupts
  BY <1>0, <1>39 DEF RecordCorrupts, bridgeVars, confirmVars, procVars,
     HasRecord, Records, Confirming, Loop, Outcomes
<1>40. CASE UNCHANGED vars
  BY <1>40 DEF vars, bridgeVars, confirmVars, HasRecord
<1>41. ASSUME NEW c \in Cycles, SendBridge(c)
      PROVE  Control'
  BY <1>0, <1>41 DEF SendBridge, Goto, procVars, Places, Confirming, Loop, Outcomes,
     HasRecord, Jobs
<1>42. ASSUME NEW c \in Cycles, BridgeAgain(c)
      PROVE  Control'
  BY <1>0, <1>42 DEF BridgeAgain, bridgeVars, Goto, procVars, Places, Confirming, Loop,
     Outcomes, HasRecord, Jobs
<1> QED
  BY <1>1, <1>2, <1>3, <1>4, <1>5, <1>6, <1>7, <1>8, <1>9, <1>10, <1>11,
     <1>12, <1>13, <1>14, <1>15, <1>16, <1>17, <1>18, <1>19, <1>20, <1>21,
     <1>22, <1>23, <1>24, <1>25, <1>26, <1>27, <1>28, <1>29, <1>30, <1>31,
     <1>32, <1>33, <1>34, <1>35, <1>36, <1>37, <1>38, <1>39, <1>40, <1>41, <1>42
     DEF Next,
     CycleStep, ReconcileStep, CheckStep, ConfirmStep, ProcessStep

LEMMA Invariance == Spec => []IInv
<1>1. IInv <=> TypeOK /\ Control
  BY DEF IInv, Control
<1>2. IInv /\ [Next]_vars => IInv'
  <2> SUFFICES ASSUME IInv, [Next]_vars PROVE IInv'
    OBVIOUS
  <2>1. TypeOK /\ JobHasDeposit /\ Control
    BY DEF IInv, Control
  <2> QED BY <2>1, TypeStep, ControlStep DEF IInv, Control
<1> QED BY <1>2, InitIInv, PTL DEF Spec

\* Every variable keeps its type, and the store holds a record, an unreadable
\* entry or nothing.
THEOREM TypeCorrect == Spec => []TypeOK
BY Invariance, PTL DEF IInv

\* Ticks that come while a cycle runs never lead to a second bridge.
THEOREM OneBridge == Spec => []OneBridgeAtATime
<1>1. IInv => OneBridgeAtATime
  BY DEF IInv, Alone, OneBridgeAtATime
<1> QED BY <1>1, Invariance, PTL

\* A deposit under confirmation is in the store, with its baseline, unless the
\* entry has rotted.
THEOREM WatchedPersisted == Spec => []WatchedIsPersisted
BY Invariance, PTL DEF IInv

-----------------------------------------------------------------------------

\* Deposits are made by cycles that bridge.
LEMMA WhoMakesDeposits ==
  ASSUME IInv, [Next]_vars, NEW d \in Deposits,
         status[d] \in {"unused", "claimed"}, status'[d] = "sent"
  PROVE  \E c \in Cycles : pc[c] = "bridge"
<1> USE DEF IInv, TypeOK, BridgeTypeOK
<1>1. ASSUME NEW c \in Cycles, CheckStep(c), pc[c] # "bridge"
      PROVE  FALSE
  BY <1>1 DEF CheckStep, StartCheck, SkipCheck, BalanceSuffices, BalanceUnknown,
     StartBridge, SendBridge, BridgeMined, BridgeFails, BridgeLost, BridgeAgain, Persist, PersistFails,
     TopupConfirmed, TopupUnconfirmed, bridgeVars
<1>2. ASSUME NEW c \in Cycles, ReconcileStep(c)
      PROVE  FALSE
  BY <1>2 DEF ReconcileStep, FindNoRecord, DropCorruptRecord, EvictRecord,
     EvictFails, ReconcileRecord, ReconcileConfirmed, ReconcileClearFails,
     ReconcileUnconfirmed, bridgeVars
<1>3. ASSUME NEW c \in Cycles, ConfirmStep(c)
      PROVE  FALSE
  BY <1>3 DEF ConfirmStep, Attempt, SubmitClaim, ClaimReturns, PollBalance,
     RecordPoll, PollFails, Decide, WakeUp, DeadlinePasses, Expire, bridgeVars
<1>4. ASSUME NEW c \in Cycles, Tick(c) \/ SettleCheck(c)
      PROVE  FALSE
  BY <1>4 DEF Tick, SettleCheck, MessageCheckSettles, bridgeVars
<1>5. ASSUME WorldStep
      PROVE  FALSE
  BY <1>5 DEF WorldStep, BridgeNext, DepositMined, DepositDropped, MessageArrives, ClaimLands, ClaimDropped,
     FeeCharged, ExternalCredit
<1>6. ASSUME ProcessStep
      PROVE  FALSE
  BY <1>6 DEF ProcessStep, Start, RequestShutdown, FinishShutdown, Crash,
     ManualClaim, RecordAges, RecordCorrupts, bridgeVars
<1>7. ASSUME UNCHANGED vars
      PROVE  FALSE
  BY <1>7 DEF vars, bridgeVars
<1> QED
  BY <1>1, <1>2, <1>3, <1>4, <1>5, <1>6, <1>7 DEF Next, CycleStep

\* No deposit is made while another is on record.
THEOREM NeverOverRecord == Spec => NoBridgeOverRecord
<1>1. ASSUME IInv, [Next]_vars, NEW d \in Deposits,
             status[d] \in {"unused", "claimed"}, status'[d] = "sent"
      PROVE  ~HasRecord
  <2>1. PICK c \in Cycles : pc[c] = "bridge"
    BY <1>1, WhoMakesDeposits
  <2> QED BY <1>1, <2>1 DEF IInv, NothingOnRecord
<1>2. IInv /\ [Next]_vars =>
        [\A d \in Deposits :
           status[d] \in {"unused", "claimed"} /\ status'[d] = "sent" => ~HasRecord]_vars
  BY <1>1
<1> QED BY <1>2, Invariance, PTL DEF Spec, NoBridgeOverRecord

-----------------------------------------------------------------------------
(* The service implements the ledger of BridgeLedger, whatever fails.      *)

LedgerStep == [Lenient!LedgerNext]_(Lenient!ledgerVars)

LEMMA QuietStep ==
  ASSUME status' = status, store' = store
  PROVE  LedgerStep
BY DEF LedgerStep, Lenient!ledgerVars, Watched, HasRecord

\* A store without a record holds no deposit back; one with a record gives it
\* up.
LEMMA ReleasingStep ==
  ASSUME TypeOK, status' = status, ~HasRecord'
  PROVE  LedgerStep
<1>1. Watched' = NoDeposit
  BY DEF Watched
<1>2. CASE ~HasRecord
  BY <1>1, <1>2 DEF LedgerStep, Lenient!ledgerVars, Watched
<1>3. CASE HasRecord
  <2>1. store.dep \in Deposits
    BY <1>3 DEF HasRecord, TypeOK, Records
  <2>2. Lenient!Release(store.dep)
    BY <1>1, <1>3 DEF Lenient!Release, Watched
  <2> QED BY <2>1, <2>2 DEF LedgerStep, Lenient!LedgerNext
<1> QED BY <1>2, <1>3

LEMMA SubmittingStep ==
  ASSUME NEW d \in Deposits, ~HasRecord, Fresh(d), SendDeposit(d), store' = store
  PROVE  LedgerStep
<1>1. Lenient!Submit(d)
  BY DEF Lenient!Submit, Lenient!Settled, Watched, HasRecord, Fresh, SendDeposit
<1> QED BY <1>1 DEF LedgerStep, Lenient!LedgerNext

LEMMA ReconcileImplements ==
  ASSUME IInv, NEW c \in Cycles, ReconcileStep(c)
  PROVE  LedgerStep
<1> USE DEF bridgeVars
<1>1. CASE FindNoRecord(c) \/ EvictFails(c) \/ ReconcileRecord(c)
           \/ ReconcileClearFails(c) \/ ReconcileUnconfirmed(c)
  BY <1>1, QuietStep DEF FindNoRecord, EvictFails, ReconcileRecord,
     ReconcileClearFails, ReconcileUnconfirmed
<1>2. CASE DropCorruptRecord(c) \/ EvictRecord(c) \/ ReconcileConfirmed(c)
  <2>1. TypeOK /\ status' = status /\ ~HasRecord'
    BY <1>2 DEF IInv, DropCorruptRecord, EvictRecord, ReconcileConfirmed,
       ClearStore, HasRecord
  <2> QED BY <2>1, ReleasingStep
<1> QED BY <1>1, <1>2 DEF ReconcileStep

LEMMA CheckImplements ==
  ASSUME IInv, NEW c \in Cycles, CheckStep(c)
  PROVE  LedgerStep
<1> USE DEF bridgeVars
<1>1. CASE StartCheck(c) \/ SkipCheck(c) \/ BalanceSuffices(c) \/ BalanceUnknown(c)
           \/ StartBridge(c) \/ BridgeMined(c) \/ BridgeFails(c) \/ BridgeLost(c)
           \/ BridgeAgain(c) \/ PersistFails(c) \/ TopupUnconfirmed(c)
  BY <1>1, QuietStep DEF StartCheck, SkipCheck, BalanceSuffices, BalanceUnknown,
     StartBridge, BridgeMined, BridgeFails, BridgeLost, BridgeAgain, PersistFails,
     TopupUnconfirmed, procVars
<1>2. CASE SendBridge(c)
  <2>1. ~HasRecord /\ store' = store
    BY <1>2 DEF IInv, NothingOnRecord, SendBridge
  <2>2. PICK d \in Deposits : Fresh(d) /\ SendDeposit(d)
    BY <1>2 DEF SendBridge
  <2> QED BY <2>1, <2>2, SubmittingStep
<1>3. CASE Persist(c)
  <2>1. job[c].dep \in Deposits /\ job[c].base \in Nat /\ ~HasRecord
    BY <1>3 DEF IInv, TypeOK, JobHasDeposit, NothingOnRecord, Unrecorded, Persist, Jobs
  <2>2. /\ store' = [dep |-> job[c].dep, base |-> job[c].base, stale |-> FALSE]
        /\ status' = status
    BY <1>3 DEF Persist
  <2>3. HasRecord' /\ store'.dep = job[c].dep
    BY <2>1, <2>2, RecordsAreRecords DEF HasRecord, Records
  <2>4. Lenient!Watch(job[c].dep)
    BY <2>1, <2>2, <2>3 DEF Lenient!Watch, Watched
  <2> QED BY <2>1, <2>4 DEF LedgerStep, Lenient!LedgerNext
<1>4. CASE TopupConfirmed(c)
  <2>1. TypeOK /\ status' = status
    BY <1>4 DEF IInv, TopupConfirmed
  <2>2. CASE ClearStore
    BY <2>1, <2>2, ReleasingStep DEF ClearStore, HasRecord
  <2>3. CASE store' = store
    BY <2>1, <2>3, QuietStep
  <2> QED BY <1>4, <2>2, <2>3 DEF TopupConfirmed
<1> QED BY <1>1, <1>2, <1>3, <1>4 DEF CheckStep

LEMMA WorldImplements ==
  ASSUME IInv, WorldStep
  PROVE  LedgerStep
<1>1. Watched' = Watched
  BY DEF WorldStep, Watched, HasRecord
<1>2. ASSUME NEW d \in Deposits, MessageArrives(d)
      PROVE  LedgerStep
  <2>1. Lenient!Arrive(d)
    BY <1>1, <1>2 DEF MessageArrives, Lenient!Arrive
  <2> QED BY <2>1 DEF LedgerStep, Lenient!LedgerNext
<1>3. ASSUME NEW d \in Deposits, ClaimLands(d)
      PROVE  LedgerStep
  <2>1. Lenient!Credit(d)
    BY <1>1, <1>3 DEF ClaimLands, Lenient!Credit
  <2> QED BY <2>1 DEF LedgerStep, Lenient!LedgerNext
<1>4. ASSUME status' = status
      PROVE  LedgerStep
  BY <1>4, QuietStep DEF WorldStep
<1>5. ASSUME NEW d \in Deposits, DepositMined(d) \/ DepositDropped(d)
      PROVE  LedgerStep
  <2>1. Lenient!Make(d)
    BY <1>1, <1>5 DEF DepositMined, DepositDropped, Lenient!Make
  <2> QED BY <2>1 DEF LedgerStep, Lenient!LedgerNext
<1> QED
  BY <1>2, <1>3, <1>4, <1>5
     DEF WorldStep, BridgeNext, ClaimDropped, FeeCharged, ExternalCredit

LEMMA ProcessImplements ==
  ASSUME IInv, ProcessStep
  PROVE  LedgerStep
<1> USE DEF bridgeVars
<1>1. CASE Start \/ RequestShutdown \/ FinishShutdown \/ Crash \/ ManualClaim
  BY <1>1, QuietStep DEF Start, RequestShutdown, FinishShutdown, Crash, ManualClaim
<1>2. CASE RecordAges
  <2>1. store \in Records
    BY <1>2 DEF IInv, TypeOK, RecordAges, HasRecord
  <2>2. store' \in Records /\ store'.dep = store.dep /\ status' = status
    BY <1>2, <2>1 DEF RecordAges, Records
  <2>3. Watched' = Watched
    BY <2>1, <2>2, RecordsAreRecords DEF Watched, HasRecord
  <2> QED BY <2>2, <2>3 DEF LedgerStep, Lenient!ledgerVars
<1>3. CASE RecordCorrupts
  <2>1. TypeOK /\ status' = status /\ ~HasRecord'
    BY <1>3 DEF IInv, RecordCorrupts, HasRecord
  <2> QED BY <2>1, ReleasingStep
<1> QED BY <1>1, <1>2, <1>3 DEF ProcessStep

LEMMA StepImplements == IInv /\ [Next]_vars => LedgerStep
<1> SUFFICES ASSUME IInv, [Next]_vars PROVE LedgerStep
  OBVIOUS
<1>1. ASSUME NEW c \in Cycles, Tick(c) \/ SettleCheck(c)
      PROVE  LedgerStep
  BY <1>1, QuietStep DEF Tick, SettleCheck, MessageCheckSettles, bridgeVars, procVars
<1>2. ASSUME NEW c \in Cycles, ConfirmStep(c), UNCHANGED <<procVars, store>>
      PROVE  LedgerStep
  BY <1>2, QuietStep DEF ConfirmStep, Attempt, SubmitClaim, ClaimReturns,
     PollBalance, RecordPoll, PollFails, Decide, WakeUp, DeadlinePasses, Expire,
     bridgeVars
<1>3. CASE UNCHANGED vars
  BY <1>3, QuietStep DEF vars, bridgeVars
<1> QED
  BY <1>1, <1>2, <1>3, ReconcileImplements, CheckImplements, WorldImplements,
     ProcessImplements DEF Next, CycleStep

\* Whatever fails, the service keeps the lenient ledger: the deposit on record
\* is never overwritten and no other is made beside it.
THEOREM LedgerKept == Spec => KeepsLedger
<1>1. Init => Lenient!LedgerInit
  BY DEF Init, BridgeInit, Lenient!LedgerInit, Watched, HasRecord
<1>2. IInv /\ [Next]_vars => [Lenient!LedgerNext]_(Lenient!ledgerVars)
  BY StepImplements DEF LedgerStep
<1> QED BY <1>1, <1>2, Invariance, PTL DEF Spec, KeepsLedger, Lenient!LedgerSpec

-----------------------------------------------------------------------------
(* What a growth of the balance means, when nobody else sends Fee Juice to  *)
(* the target and the entry on record neither rots nor is evicted for its   *)
(* age: all other faults may happen, kills, failing writes and bridges that *)
(* are mined without the service knowing included.                         *)

KeptRecords == Faults \cap {"external", "corrupt", "age"} = {}

Readable == store # Corrupt

\* Only the entry of a deposit that was credited gets old.
StaleIsClaimed == HasRecord => (store.stale => status[store.dep] = "claimed")

\* Whatever can still be credited is on record: a claim needs the secret, which is in
\* the store from before the first claim to the credit.
ClaimsAreOnRecord ==
  \A d \in claimTxs : status[d] = "ready" /\ HasRecord /\ store.dep = d

\* So the balance exceeds the baseline only by what the deposit on record brought,
GrowthIsCredit == HasRecord => (balance > store.base => status[store.dep] = "claimed")

\* and does not exceed it before there is a record.
BridgingFromBase ==
  \A c \in Cycles : pc[c] \in {"bridge"} \cup Unrecorded => balance <= job[c].base

\* What is about to be recorded was mined.
Made(d) == status[d] \in {"pending", "ready"}
PersistsWhatIsOut == \A c \in Cycles : pc[c] = "persist" => Made(job[c].dep)

\* What a confirmation has seen stays true although the balance may fall again.
GrownIsCredit ==
  \A c \in Cycles : pc[c] \in Confirming /\ conf[c].grown => status[job[c].dep] = "claimed"

DecidesOnGrowth == \A c \in Cycles : pc[c] \in {"decide", "confirmed"} => conf[c].grown

RecordInv == Readable /\ StaleIsClaimed /\ ClaimsAreOnRecord /\ GrowthIsCredit
CycleInv == BridgingFromBase /\ PersistsWhatIsOut /\ GrownIsCredit /\ DecidesOnGrowth
CreditInv == RecordInv /\ CycleInv

LEMMA InitCredit == Init => CreditInv
BY StoreAssumption
   DEF Init, Idle, BridgeInit, CreditInv, RecordInv, CycleInv, Readable, StaleIsClaimed,
       ClaimsAreOnRecord, GrowthIsCredit, BridgingFromBase, PersistsWhatIsOut, GrownIsCredit,
       DecidesOnGrowth, Unrecorded, Confirming, Loop, Outcomes, HasRecord

\* A cycle that confirms has its deposit and its baseline on record.
LEMMA ConfirmingIsOnRecord ==
  ASSUME IInv, CreditInv, NEW c \in Cycles, pc[c] \in Confirming
  PROVE  HasRecord /\ store.dep = job[c].dep /\ store.base = job[c].base
BY DEF IInv, WatchedIsPersisted, CreditInv, RecordInv, Readable

\* Once the deposit on record is credited, nothing is left to be credited.
LEMMA NothingToCredit ==
  ASSUME CreditInv, ~HasRecord \/ status[store.dep] = "claimed"
  PROVE  claimTxs = {}
BY DEF CreditInv, RecordInv, ClaimsAreOnRecord

\* The places of a cycle that CycleInv speaks of.
PlaceKept(c) ==
  /\ pc[c] \in {"bridge"} \cup Unrecorded => balance <= job[c].base
  /\ pc[c] = "persist" => Made(job[c].dep)
  /\ pc[c] \in Confirming /\ conf[c].grown => status[job[c].dep] = "claimed"
  /\ pc[c] \in {"decide", "confirmed"} => conf[c].grown

LEMMA PlacesKept == CycleInv <=> \A c \in Cycles : PlaceKept(c)
BY DEF CycleInv, BridgingFromBase, PersistsWhatIsOut, GrownIsCredit, DecidesOnGrowth, PlaceKept

\* A step of one cycle only.
OthersStay(c) ==
  \A x \in Cycles \ {c} : pc'[x] = pc[x] /\ job'[x] = job[x] /\ conf'[x] = conf[x]

\* A step that leaves the world and the store alone.
LEMMA QuietCredit ==
  ASSUME CreditInv, NEW c \in Cycles, OthersStay(c), UNCHANGED <<bridgeVars, store>>,
         PlaceKept(c)'
  PROVE  CreditInv'
<1>1. RecordInv'
  BY DEF CreditInv, RecordInv, Readable, StaleIsClaimed, ClaimsAreOnRecord, GrowthIsCredit,
         bridgeVars, HasRecord
<1>2. \A x \in Cycles : PlaceKept(x)'
  BY PlacesKept DEF CreditInv, PlaceKept, OthersStay, bridgeVars, Made, Unrecorded
<1> QED
  BY <1>1, <1>2, PlacesKept DEF CreditInv, CycleInv, BridgingFromBase, PersistsWhatIsOut,
     GrownIsCredit, DecidesOnGrowth, PlaceKept

\* The record goes when its deposit was credited, or was not there.
LEMMA ClearingCredit ==
  ASSUME CreditInv, NEW c \in Cycles, OthersStay(c), UNCHANGED bridgeVars, ClearStore,
         HasRecord => status[store.dep] = "claimed",
         PlaceKept(c)'
  PROVE  CreditInv'
<1>1. claimTxs = {}
  BY NothingToCredit
<1>2. RecordInv'
  BY <1>1, StoreAssumption
     DEF RecordInv, Readable, StaleIsClaimed, ClaimsAreOnRecord, GrowthIsCredit, bridgeVars,
         HasRecord, ClearStore
<1>3. \A x \in Cycles : PlaceKept(x)'
  BY PlacesKept DEF CreditInv, PlaceKept, OthersStay, bridgeVars, Made, Unrecorded
<1> QED
  BY <1>2, <1>3 DEF CreditInv, CycleInv, BridgingFromBase, PersistsWhatIsOut,
     GrownIsCredit, DecidesOnGrowth, PlaceKept

LEMMA ReconcileCredit ==
  ASSUME IInv, CreditInv, NEW c \in Cycles, ReconcileStep(c)
  PROVE  CreditInv'
<1> USE DEF IInv, TypeOK, PlaceKept, Confirming, Loop, Outcomes, Unrecorded
<1>1. CASE FindNoRecord(c)
  BY <1>1, QuietCredit DEF FindNoRecord, Goto, OthersStay
<1>2. CASE DropCorruptRecord(c)
  BY <1>2 DEF DropCorruptRecord, CreditInv, RecordInv, Readable
<1>3. CASE EvictRecord(c)
  <2>1. status[store.dep] = "claimed"
    BY <1>3 DEF EvictRecord, TooOld, CreditInv, RecordInv, StaleIsClaimed
  <2>2. OthersStay(c) /\ ClearStore /\ pc'[c] = "check"
    BY <1>3 DEF EvictRecord, Goto, OthersStay
  <2> QED
    BY <1>3, <2>1, <2>2, ClearingCredit DEF EvictRecord
<1>4. CASE EvictFails(c) \/ ReconcileClearFails(c) \/ ReconcileUnconfirmed(c)
  <2>1. EndCycle(c) /\ UNCHANGED <<bridgeVars, store>>
    BY <1>4 DEF EvictFails, ReconcileClearFails, ReconcileUnconfirmed
  <2>2. OthersStay(c) /\ pc'[c] = "idle"
    BY <2>1 DEF EndCycle, OthersStay
  <2> QED
    BY <2>1, <2>2, QuietCredit
<1>5. CASE ReconcileRecord(c)
  <2>1. OthersStay(c) /\ conf'[c] = FreshConf /\ pc'[c] \in {"aborted", "attempt"}
    BY <1>5 DEF ReconcileRecord, StartConfirmation, Goto, FirstPlace, OthersStay
  <2> QED
    BY <1>5, <2>1, QuietCredit DEF ReconcileRecord, FreshConf
<1>6. CASE ReconcileConfirmed(c)
  <2>1. status[store.dep] = "claimed"
    BY <1>6, ConfirmingIsOnRecord
       DEF ReconcileConfirmed, CreditInv, CycleInv, GrownIsCredit, DecidesOnGrowth
  <2>2. OthersStay(c) /\ pc'[c] = "check" /\ ClearStore
    BY <1>6 DEF ReconcileConfirmed, Goto, OthersStay
  <2> QED
    BY <1>6, <2>1, <2>2, ClearingCredit DEF ReconcileConfirmed
<1> QED
  BY <1>1, <1>2, <1>3, <1>4, <1>5, <1>6 DEF ReconcileStep

LEMMA CheckCredit ==
  ASSUME IInv, CreditInv, NEW c \in Cycles, CheckStep(c)
  PROVE  CreditInv'
<1> USE DEF IInv, TypeOK, PlaceKept, Confirming, Loop, Outcomes, Unrecorded
<1>1. CASE StartCheck(c)
  BY <1>1, QuietCredit DEF StartCheck, Goto, OthersStay
<1>2. CASE SkipCheck(c) \/ BalanceSuffices(c) \/ BalanceUnknown(c) \/ BridgeFails(c)
           \/ BridgeLost(c) \/ PersistFails(c) \/ TopupUnconfirmed(c)
  <2>1. EndCycle(c) /\ UNCHANGED <<bridgeVars, store>>
    BY <1>2 DEF SkipCheck, BalanceSuffices, BalanceUnknown, BridgeFails, BridgeLost,
       PersistFails, TopupUnconfirmed, EndBridge
  <2>2. OthersStay(c) /\ pc'[c] = "idle"
    BY <2>1 DEF EndCycle, OthersStay
  <2> QED
    BY <2>1, <2>2, QuietCredit
<1>3. CASE StartBridge(c)
  <2>1. pc'[c] = "bridge" /\ job'[c].base = balance /\ OthersStay(c)
    BY <1>3 DEF StartBridge, Goto, OthersStay, Jobs
  <2>2. balance' = balance /\ balance \in Nat
    BY <1>3 DEF StartBridge, bridgeVars, BridgeTypeOK
  <2> QED
    BY <1>3, <2>1, <2>2, QuietCredit DEF StartBridge
<1>4. CASE SendBridge(c)
  <2>1. PICK d \in Deposits :
          /\ Fresh(d) /\ SendDeposit(d) /\ UNCHANGED <<balance, claimTxs, store>>
          /\ pc' = [pc EXCEPT ![c] = "receipt"]
          /\ job' = [job EXCEPT ![c].dep = d]
          /\ conf' = conf
    BY <1>4 DEF SendBridge, Goto
  <2>2. pc[c] = "bridge" /\ ~HasRecord /\ HasRecord' = HasRecord
    BY <1>4, <2>1 DEF SendBridge, NothingOnRecord, HasRecord
  <2>3. RecordInv'
    BY <2>1, <2>2, NothingToCredit
       DEF CreditInv, RecordInv, Readable, StaleIsClaimed, ClaimsAreOnRecord, GrowthIsCredit
  <2>4. \A x \in Cycles : x # c => pc[x] = "idle" /\ pc'[x] = "idle"
    BY <2>1, <2>2 DEF Alone
  <2>5. PlaceKept(c)'
    <3>1. pc'[c] = "receipt" /\ job'[c].base = job[c].base
      BY <2>1 DEF Jobs
    <3>2. balance <= job[c].base
      BY <2>2 DEF CreditInv, CycleInv, BridgingFromBase
    <3> QED
      BY <2>1, <3>1, <3>2
  <2>6. \A x \in Cycles : PlaceKept(x)'
    BY <2>4, <2>5 DEF Unrecorded
  <2> QED
    BY <2>3, <2>6 DEF CreditInv, CycleInv, BridgingFromBase, PersistsWhatIsOut,
       GrownIsCredit, DecidesOnGrowth
<1>5. CASE Persist(c)
  <2>1. /\ store' = [dep |-> job[c].dep, base |-> job[c].base, stale |-> FALSE]
        /\ UNCHANGED bridgeVars
        /\ pc[c] = "persist" /\ job[c].dep \in Deposits /\ job[c].base \in Nat
    BY <1>5 DEF Persist, JobHasDeposit, Jobs
  <2>2. HasRecord' /\ store' # Corrupt
    BY <2>1, RecordsAreRecords DEF Records, HasRecord
  <2>3. claimTxs = {} /\ balance <= job[c].base /\ job[c].base \in Nat /\ balance \in Nat
    BY <2>1, NothingToCredit
       DEF NothingOnRecord, CreditInv, CycleInv, BridgingFromBase, BridgeTypeOK
  <2>4. RecordInv'
    BY <2>1, <2>2, <2>3
       DEF RecordInv, Readable, StaleIsClaimed, ClaimsAreOnRecord, GrowthIsCredit, bridgeVars
  <2>5. OthersStay(c) /\ conf'[c] = FreshConf /\ pc'[c] \in {"aborted", "attempt"}
    BY <1>5 DEF Persist, StartConfirmation, Goto, FirstPlace, OthersStay
  <2>6. \A x \in Cycles : x # c => pc[x] = "idle"
    BY <2>1 DEF Alone
  <2>7. \A x \in Cycles : PlaceKept(x)'
    BY <2>5, <2>6 DEF OthersStay, FreshConf
  <2> QED
    BY <2>4, <2>7 DEF CreditInv, CycleInv, BridgingFromBase, PersistsWhatIsOut,
       GrownIsCredit, DecidesOnGrowth
<1>6. CASE TopupConfirmed(c)
  <2>1. status[store.dep] = "claimed"
    BY <1>6, ConfirmingIsOnRecord
       DEF TopupConfirmed, CreditInv, CycleInv, GrownIsCredit, DecidesOnGrowth
  <2>2. OthersStay(c) /\ pc'[c] = "idle" /\ UNCHANGED bridgeVars
    BY <1>6 DEF TopupConfirmed, EndBridge, EndCycle, OthersStay
  <2>3. CASE ClearStore
    BY <2>1, <2>2, <2>3, ClearingCredit
  <2>4. CASE store' = store
    BY <2>2, <2>4, QuietCredit
  <2> QED
    BY <1>6, <2>3, <2>4 DEF TopupConfirmed
<1>7. CASE BridgeMined(c) \/ BridgeAgain(c)
  <2>1. /\ OthersStay(c) /\ UNCHANGED <<bridgeVars, store>>
        /\ pc[c] = "receipt" /\ job'[c].base = job[c].base
        /\ \/ pc'[c] = "persist" /\ job'[c].dep = job[c].dep /\ Made(job[c].dep)
           \/ pc'[c] = "bridge"
    BY <1>7 DEF BridgeMined, BridgeAgain, Goto, OthersStay, Jobs, Made
  <2>2. balance <= job[c].base
    BY <2>1 DEF CreditInv, CycleInv, BridgingFromBase
  <2> QED
    BY <2>1, <2>2, QuietCredit DEF bridgeVars, Made
<1> QED
  BY <1>1, <1>2, <1>3, <1>4, <1>5, <1>6, <1>7 DEF CheckStep

LEMMA ConfirmCredit ==
  ASSUME IInv, CreditInv, NEW c \in Cycles, ConfirmStep(c), UNCHANGED <<procVars, store>>
  PROVE  CreditInv'
<1> USE DEF IInv, TypeOK, PlaceKept, Confirming, Loop, Outcomes, Unrecorded
<1>1. CASE Attempt(c) \/ ClaimReturns(c) \/ PollFails(c) \/ WakeUp(c) \/ DeadlinePasses(c)
           \/ Expire(c)
  <2>1. /\ OthersStay(c) /\ UNCHANGED <<bridgeVars, job, conf>>
        /\ pc[c] \in Confirming /\ pc'[c] \in Confirming \ {"decide", "confirmed"}
    BY <1>1 DEF Attempt, ClaimReturns, PollFails, WakeUp, DeadlinePasses, Expire, Goto,
       OthersStay
  <2>2. PlaceKept(c)
    BY PlacesKept DEF CreditInv
  <2> QED
    BY <2>1, <2>2, QuietCredit DEF bridgeVars
<1>2. CASE SubmitClaim(c)
  <2>1. HasRecord /\ store.dep = job[c].dep
    BY <1>2, ConfirmingIsOnRecord DEF SubmitClaim
  <2>2. /\ claimTxs' \subseteq IF status[job[c].dep] = "ready"
                               THEN claimTxs \cup {job[c].dep} ELSE claimTxs
        /\ UNCHANGED <<status, balance, job, store>>
        /\ pc'[c] = "claim" /\ pc[c] = "attempt" /\ OthersStay(c)
        /\ conf'[c].grown = conf[c].grown
    BY <1>2 DEF SubmitClaim, Goto, OthersStay, Confs
  <2>3. RecordInv'
    BY <2>1, <2>2
       DEF CreditInv, RecordInv, Readable, StaleIsClaimed, ClaimsAreOnRecord, GrowthIsCredit,
           HasRecord
  <2>4. \A x \in Cycles : PlaceKept(x)
    BY PlacesKept DEF CreditInv
  <2>5. \A x \in Cycles : PlaceKept(x)'
    BY <2>2, <2>4 DEF OthersStay, Made
  <2> QED
    BY <2>3, <2>5 DEF CreditInv, CycleInv, BridgingFromBase, PersistsWhatIsOut,
       GrownIsCredit, DecidesOnGrowth
<1>3. CASE PollBalance(c)
  <2>1. HasRecord /\ store.dep = job[c].dep /\ store.base = job[c].base
    BY <1>3, ConfirmingIsOnRecord DEF PollBalance, RecordPoll
  <2>2. balance > job[c].base => status[job[c].dep] = "claimed"
    BY <2>1 DEF CreditInv, RecordInv, GrowthIsCredit
  <2>3. conf[c].grown => status[job[c].dep] = "claimed"
    BY <1>3 DEF PollBalance, RecordPoll, CreditInv, CycleInv, GrownIsCredit
  <2>4. /\ OthersStay(c) /\ UNCHANGED <<bridgeVars, job>>
        /\ conf'[c].grown = (conf[c].grown \/ balance > job[c].base)
        /\ pc'[c] = IF conf[c].grown \/ balance > job[c].base THEN "decide" ELSE "sleep"
    BY <1>3 DEF PollBalance, RecordPoll, Goto, OthersStay, Confs
  <2> QED
    BY <2>2, <2>3, <2>4, QuietCredit DEF bridgeVars
<1>4. CASE Decide(c)
  <2>1. /\ OthersStay(c) /\ UNCHANGED <<bridgeVars, job, conf>>
        /\ pc[c] = "decide" /\ pc'[c] \in {"confirmed", "sleep"}
    BY <1>4 DEF Decide, Goto, OthersStay
  <2>2. PlaceKept(c)
    BY PlacesKept DEF CreditInv
  <2> QED
    BY <2>1, <2>2, QuietCredit DEF bridgeVars
<1> QED
  BY <1>1, <1>2, <1>3, <1>4 DEF ConfirmStep

LEMMA StartCredit ==
  ASSUME IInv, CreditInv, NEW c \in Cycles, Tick(c) \/ SettleCheck(c)
  PROVE  CreditInv'
<1> USE DEF IInv, TypeOK
<1>1. CASE Tick(c)
  BY <1>1, QuietCredit DEF PlaceKept, Unrecorded, Confirming, Loop, Outcomes, Tick, Goto,
     OthersStay
<1>2. CASE SettleCheck(c)
  <2>1. /\ OthersStay(c) /\ UNCHANGED <<bridgeVars, job, pc, store>>
        /\ conf'[c].grown = conf[c].grown
    BY <1>2 DEF SettleCheck, MessageCheckSettles, OthersStay, Confs
  <2>2. PlaceKept(c)
    BY PlacesKept DEF CreditInv
  <2>3. PlaceKept(c)'
    BY <2>1, <2>2 DEF PlaceKept, bridgeVars, Made
  <2> QED
    BY <2>1, <2>3, QuietCredit
<1> QED
  BY <1>1, <1>2

LEMMA WorldCredit ==
  ASSUME IInv, CreditInv, KeptRecords, WorldStep
  PROVE  CreditInv'
<1> USE DEF IInv, TypeOK, BridgeTypeOK
<1>1. UNCHANGED <<pc, job, conf, store>> /\ HasRecord' = HasRecord
  BY DEF WorldStep, confirmVars, HasRecord
<1>2. HasRecord => store \in Records
  BY DEF HasRecord
<1>3. ASSUME NEW d \in Deposits, ClaimLands(d)
      PROVE  CreditInv'
  <2>1. HasRecord /\ store.dep = d /\ claimTxs = {d} /\ claimTxs' = {}
    BY <1>3 DEF ClaimLands, CreditInv, RecordInv, ClaimsAreOnRecord
  <2>2. /\ status'[d] = "claimed" /\ \A e \in Deposits \ {d} : status'[e] = status[e]
        /\ status[d] = "ready"
    BY <1>3 DEF ClaimLands
  <2>3. RecordInv'
    BY <1>1, <2>1, <2>2
       DEF CreditInv, RecordInv, Readable, StaleIsClaimed, ClaimsAreOnRecord, GrowthIsCredit
  <2>4. \A c \in Cycles : pc[c] \notin {"bridge"} \cup Unrecorded
    BY <2>1 DEF NothingOnRecord
  <2>5. \A c \in Cycles : pc[c] \in Confirming => job[c].dep = d
    BY <2>1, ConfirmingIsOnRecord
  <2> QED
    BY <1>1, <2>2, <2>3, <2>4, <2>5
       DEF Unrecorded, CreditInv, CycleInv, BridgingFromBase, PersistsWhatIsOut, GrownIsCredit,
           DecidesOnGrowth
<1>4. ASSUME NEW d \in Deposits, DepositMined(d) \/ DepositDropped(d) \/ MessageArrives(d)
      PROVE  CreditInv'
  <2>1. /\ status[d] \in {"sent", "pending"} /\ UNCHANGED <<balance, claimTxs>>
        /\ \A e \in Deposits \ {d} : status'[e] = status[e]
        /\ status[d] = "pending" => status'[d] = "ready"
    BY <1>4 DEF DepositMined, DepositDropped, MessageArrives
  <2>2. RecordInv'
    <3>1. \A e \in claimTxs : e # d /\ e \in Deposits
      BY <2>1 DEF CreditInv, RecordInv, ClaimsAreOnRecord
    <3>2. HasRecord => store.dep \in Deposits
      BY <1>2 DEF Records
    <3> QED
      BY <1>1, <2>1, <3>1, <3>2
         DEF CreditInv, RecordInv, Readable, StaleIsClaimed, ClaimsAreOnRecord, GrowthIsCredit
  <2>3. \A c \in Cycles : pc[c] \in {"persist"} \cup Confirming => job[c].dep \in Deposits
    BY DEF JobHasDeposit, Unrecorded
  <2> QED
    BY <1>1, <2>1, <2>2, <2>3
       DEF CreditInv, CycleInv, BridgingFromBase, PersistsWhatIsOut, GrownIsCredit,
           DecidesOnGrowth, Made
<1>5. ASSUME UNCHANGED status, balance' <= balance, balance' \in Nat, claimTxs' \subseteq claimTxs
      PROVE  CreditInv'
  <2>1. RecordInv'
    BY <1>1, <1>2, <1>5
       DEF CreditInv, RecordInv, Readable, StaleIsClaimed, ClaimsAreOnRecord, GrowthIsCredit,
           Records
  <2>2. \A c \in Cycles : job[c].base \in Nat
    BY DEF Jobs
  <2> QED
    BY <1>1, <1>5, <2>1, <2>2
       DEF CreditInv, CycleInv, BridgingFromBase, PersistsWhatIsOut, GrownIsCredit,
           DecidesOnGrowth, Made
<1>6. ASSUME NEW d \in Deposits, ClaimDropped(d)
      PROVE  CreditInv'
  BY <1>5, <1>6 DEF ClaimDropped
<1>7. CASE FeeCharged
  BY <1>5, <1>7 DEF FeeCharged
<1>8. ~ExternalCredit
  BY DEF KeptRecords, ExternalCredit
<1> QED
  BY <1>3, <1>4, <1>6, <1>7, <1>8 DEF WorldStep, BridgeNext

LEMMA ProcessCredit ==
  ASSUME IInv, CreditInv, KeptRecords, ProcessStep
  PROVE  CreditInv'
<1> USE DEF IInv, TypeOK
<1>1. \A c \in Cycles : PlaceKept(c)
  BY PlacesKept DEF CreditInv
<1>2. ASSUME UNCHANGED <<bridgeVars, store>>,
             \A c \in Cycles : \/ pc'[c] = "idle"
                               \/ pc'[c] = pc[c] /\ job'[c] = job[c] /\ conf'[c] = conf[c]
      PROVE  CreditInv'
  <2>1. RecordInv'
    BY <1>2 DEF CreditInv, RecordInv, Readable, StaleIsClaimed, ClaimsAreOnRecord,
       GrowthIsCredit, bridgeVars, HasRecord
  <2> QED
    BY <1>1, <1>2, <2>1
       DEF CreditInv, CycleInv, BridgingFromBase, PersistsWhatIsOut, GrownIsCredit,
           DecidesOnGrowth, PlaceKept, bridgeVars, Made, Unrecorded, Confirming, Loop,
           Outcomes
<1>3. CASE Start \/ RequestShutdown \/ FinishShutdown
  BY <1>2, <1>3 DEF Start, RequestShutdown, FinishShutdown, confirmVars
<1>4. CASE Crash
  BY <1>2, <1>4 DEF Crash
<1>5. ASSUME UNCHANGED <<status, balance, pc, job, conf>>, RecordInv'
      PROVE  CreditInv'
  BY <1>5 DEF CreditInv, CycleInv, BridgingFromBase, PersistsWhatIsOut, GrownIsCredit,
     DecidesOnGrowth, Made
<1>6. CASE ManualClaim
  BY <1>5, <1>6
     DEF ManualClaim, confirmVars, CreditInv, RecordInv, Readable, StaleIsClaimed,
         ClaimsAreOnRecord, GrowthIsCredit, HasRecord
<1>7. CASE RecordAges
  <2>1. store \in Records /\ status[store.dep] = "claimed"
    BY <1>7 DEF RecordAges, HasRecord, KeptRecords
  <2>2. store' \in Records /\ store'.dep = store.dep /\ store'.base = store.base
    BY <1>7, <2>1 DEF RecordAges, Records
  <2>3. HasRecord' /\ HasRecord
    BY <1>7, <2>2, RecordsAreRecords DEF RecordAges, HasRecord
  <2>4. UNCHANGED <<bridgeVars, pc, job, conf>>
    BY <1>7 DEF RecordAges, confirmVars
  <2>5. RecordInv'
    BY <2>1, <2>2, <2>3, <2>4, RecordsAreRecords
       DEF CreditInv, RecordInv, Readable, StaleIsClaimed, ClaimsAreOnRecord, GrowthIsCredit,
           bridgeVars
  <2> QED
    BY <1>5, <2>4, <2>5 DEF bridgeVars
<1>8. ~RecordCorrupts
  BY DEF KeptRecords, RecordCorrupts
<1> QED
  BY <1>3, <1>4, <1>6, <1>7, <1>8 DEF ProcessStep

\* The two invariants together.
LEMMA CreditInvariance ==
  ASSUME KeptRecords
  PROVE  Spec => []CreditInv
<1>1. IInv /\ CreditInv /\ [Next]_vars => CreditInv'
  <2> SUFFICES ASSUME IInv, CreditInv, [Next]_vars
               PROVE  CreditInv'
    OBVIOUS
  <2>1. CASE UNCHANGED vars
    BY <2>1 DEF vars, bridgeVars, confirmVars, CreditInv, RecordInv, Readable, StaleIsClaimed,
       ClaimsAreOnRecord, GrowthIsCredit, CycleInv, BridgingFromBase, PersistsWhatIsOut,
       GrownIsCredit, DecidesOnGrowth, HasRecord, Made
  <2> QED
    BY <2>1, StartCredit, ReconcileCredit, CheckCredit, ConfirmCredit, WorldCredit,
       ProcessCredit DEF Next, CycleStep
<1> QED
  BY InitCredit, <1>1, Invariance, PTL DEF Spec

\* A confirmed deposit was credited, whatever happened to the balance before and
\* after: growth is never taken for a deposit that did not arrive.
THEOREM ConfirmedIsCredited ==
  ASSUME KeptRecords
  PROVE  Spec => []ConfirmedMeansCredited
<1>1. CreditInv => ConfirmedMeansCredited
  BY DEF CreditInv, CycleInv, GrownIsCredit, DecidesOnGrowth, ConfirmedMeansCredited,
     Confirming, Outcomes
<1> QED
  BY <1>1, CreditInvariance, PTL

\* Besides the deposits that lost their secret there is never more than one on its way.
THEOREM OneIsUnderWay ==
  ASSUME KeptRecords
  PROVE  Spec => []OneDepositUnderWay
<1>1. ASSUME IInv, CreditInv
      PROVE  OneDepositUnderWay
  <2> DEFINE under == Outstanding \ Lost
  <2>1. \A d \in under :
          \/ HasRecord /\ d = store.dep
          \/ \E c \in Cycles : pc[c] \in Unrecorded /\ d = job[c].dep
    BY <1>1, ConfirmingIsOnRecord
       DEF Lost, Tracked, CreditInv, RecordInv, ClaimsAreOnRecord
  <2>2. \A c \in Cycles : pc[c] \in Unrecorded => ~HasRecord /\ inFlight = c
    BY <1>1 DEF IInv, NothingOnRecord, Alone, Unrecorded
  <2>3. \A d, e \in under : d = e
    BY <2>1, <2>2
  <2>4. under = {} \/ \E d \in under : under = {d}
    BY <2>3
  <2>5. Cardinality(under) = 0 \/ Cardinality(under) = 1
    BY <2>4, FS_EmptySet, FS_Singleton
  <2> QED
    BY <2>5 DEF OneDepositUnderWay
<1> QED
  BY <1>1, Invariance, CreditInvariance, PTL

-----------------------------------------------------------------------------
(* The strict ledger: what is on record is on its way, and it goes from    *)
(* the record only when it was credited.                                   *)

\* Five steps of a cycle touch the store, and two disturbances of the entry itself.
LEMMA WhoWritesTheStore ==
  ASSUME [Next]_vars
  PROVE  \/ store' = store \/ RecordAges \/ RecordCorrupts
         \/ \E c \in Cycles : \/ DropCorruptRecord(c) \/ EvictRecord(c) \/ ReconcileConfirmed(c)
                              \/ Persist(c) \/ TopupConfirmed(c)
<1>1. ASSUME NEW c \in Cycles, CheckStep(c), store' # store
      PROVE  Persist(c) \/ TopupConfirmed(c)
  BY <1>1 DEF CheckStep, StartCheck, SkipCheck, BalanceSuffices, BalanceUnknown,
     StartBridge, SendBridge, BridgeMined, BridgeFails, BridgeLost, BridgeAgain, PersistFails, TopupUnconfirmed
<1>2. ASSUME NEW c \in Cycles, ReconcileStep(c), store' # store
      PROVE  DropCorruptRecord(c) \/ EvictRecord(c) \/ ReconcileConfirmed(c)
  BY <1>2 DEF ReconcileStep, FindNoRecord, EvictFails, ReconcileRecord,
     ReconcileClearFails, ReconcileUnconfirmed
<1>3. ASSUME NEW c \in Cycles, Tick(c) \/ SettleCheck(c)
      PROVE  store' = store
  BY <1>3 DEF Tick, SettleCheck
<1>4. ASSUME ProcessStep, store' # store
      PROVE  RecordAges \/ RecordCorrupts
  BY <1>4 DEF ProcessStep, Start, RequestShutdown, FinishShutdown, Crash, ManualClaim
<1> QED
  BY <1>1, <1>2, <1>3, <1>4 DEF Next, CycleStep, WorldStep, vars

\* The deposit on record stays there until it was credited.
LEMMA RecordStaysUntilCredited ==
  ASSUME IInv, CreditInv, KeptRecords, [Next]_vars, HasRecord, status[store.dep] # "claimed"
  PROVE  HasRecord' /\ store'.dep = store.dep
<1>1. CASE store' = store
  BY <1>1 DEF HasRecord
<1>2. CASE RecordAges
  <2>1. store \in Records
    BY DEF IInv, TypeOK, HasRecord
  <2>2. store' \in Records /\ store'.dep = store.dep
    BY <1>2, <2>1 DEF RecordAges, Records
  <2> QED
    BY <2>2, RecordsAreRecords DEF HasRecord
<1>3. CASE RecordCorrupts
  BY <1>3 DEF KeptRecords, RecordCorrupts
<1>4. ASSUME NEW c \in Cycles,
             DropCorruptRecord(c) \/ EvictRecord(c) \/ ReconcileConfirmed(c)
             \/ Persist(c) \/ TopupConfirmed(c)
      PROVE  FALSE
  <2>1. ~DropCorruptRecord(c) /\ ~Persist(c)
    BY DEF DropCorruptRecord, Persist, HasRecord, IInv, NothingOnRecord, Unrecorded
  <2>2. ~EvictRecord(c)
    BY DEF EvictRecord, TooOld, CreditInv, RecordInv, StaleIsClaimed
  <2>3. pc[c] = "confirmed"
    BY <1>4, <2>1, <2>2 DEF ReconcileConfirmed, TopupConfirmed
  <2> QED
    BY <2>3, ConfirmingIsOnRecord
       DEF CreditInv, CycleInv, GrownIsCredit, DecidesOnGrowth, Confirming, Outcomes
<1> QED
  BY <1>1, <1>2, <1>3, <1>4, WhoWritesTheStore

\* What is put on record is on its way.
LEMMA RecordedIsOut ==
  ASSUME IInv, CreditInv, [Next]_vars, ~HasRecord, HasRecord'
  PROVE  \E c \in Cycles : /\ Persist(c) /\ Made(job[c].dep)
                           /\ store'.dep = job[c].dep /\ status' = status
<1>1. PICK c \in Cycles : Persist(c)
  BY WhoWritesTheStore
     DEF HasRecord, RecordAges, RecordCorrupts, DropCorruptRecord, EvictRecord,
         ReconcileConfirmed, TopupConfirmed, ClearStore
<1>2. store'.dep = job[c].dep /\ status' = status /\ pc[c] = "persist"
  BY <1>1 DEF Persist, bridgeVars
<1>3. Made(job[c].dep)
  BY <1>2 DEF CreditInv, CycleInv, PersistsWhatIsOut
<1> QED
  BY <1>1, <1>2, <1>3

\* Every step of the lenient ledger is one of the strict ledger, if it gives up only
\* what was credited and records only what is out.
LEMMA StrictWhenKept ==
  ASSUME LedgerStep,
         Watched # NoDeposit /\ Watched' = NoDeposit => status[Watched] = "claimed",
         Watched = NoDeposit /\ Watched' # NoDeposit => Made(Watched')
  PROVE  [Strict!LedgerNext]_(Strict!ledgerVars)
<1> USE ConfirmationAssumption
<1>1. ASSUME NEW d \in Deposits, Lenient!Watch(d)
      PROVE  Strict!Watch(d)
  BY <1>1 DEF Lenient!Watch, Strict!Watch, Made
<1>2. ASSUME NEW d \in Deposits, Lenient!Release(d)
      PROVE  Strict!Release(d)
  BY <1>2 DEF Lenient!Release, Strict!Release
<1>3. ASSUME NEW d \in Deposits,
             Lenient!Submit(d) \/ Lenient!Make(d) \/ Lenient!Arrive(d) \/ Lenient!Credit(d)
      PROVE  Strict!Submit(d) \/ Strict!Make(d) \/ Strict!Arrive(d) \/ Strict!Credit(d)
  BY <1>3 DEF Lenient!Submit, Strict!Submit, Lenient!Make, Strict!Make, Lenient!Arrive, Strict!Arrive,
     Lenient!Credit, Strict!Credit, Lenient!Settled, Strict!Settled
<1> QED
  BY <1>1, <1>2, <1>3
     DEF LedgerStep, Lenient!LedgerNext, Lenient!ledgerVars, Strict!LedgerNext,
         Strict!ledgerVars

\* Without external credits and without an entry that rots or is evicted for its age
\* the service keeps the strict ledger, through kills, stops, restarts, failing calls
\* and writes, manual and dropped claims.
THEOREM StrictLedgerKept ==
  ASSUME KeptRecords
  PROVE  Spec => KeepsStrictLedger
<1>1. Init => Strict!LedgerInit
  BY DEF Init, BridgeInit, Strict!LedgerInit, Watched, HasRecord
<1>2. IInv /\ CreditInv /\ [Next]_vars => [Strict!LedgerNext]_(Strict!ledgerVars)
  <2> SUFFICES ASSUME IInv, CreditInv, [Next]_vars
               PROVE  [Strict!LedgerNext]_(Strict!ledgerVars)
    OBVIOUS
  <2>1. HasRecord => store.dep \in Deposits
    BY DEF IInv, TypeOK, HasRecord, Records
  <2>2. Watched # NoDeposit /\ Watched' = NoDeposit => status[Watched] = "claimed"
    BY <2>1, RecordStaysUntilCredited, ConfirmationAssumption DEF Watched
  <2>3. Watched = NoDeposit /\ Watched' # NoDeposit => Made(Watched')
    BY <2>1, RecordedIsOut, ConfirmationAssumption DEF Watched
  <2> QED
    BY <2>2, <2>3, StepImplements, StrictWhenKept
<1> QED
  BY <1>1, <1>2, Invariance, CreditInvariance, PTL DEF Spec, KeepsStrictLedger,
     Strict!LedgerSpec

-----------------------------------------------------------------------------
(* Which deposits lose their secret.                                       *)

\* A deposit is under way from when its transaction is sent, and the cycle that sent it
\* knows its secret.
LEMMA WhoPutsDepositsOut ==
  ASSUME IInv, [Next]_vars, NEW d \in Deposits, d \in Outstanding', d \notin Outstanding
  PROVE  \E c \in Cycles : job'[c].dep = d /\ pc'[c] = "receipt"
<1> USE DEF IInv, TypeOK, BridgeTypeOK, Outstanding, Stages
<1>1. status'[d] # status[d] /\ status[d] \in {"unused", "claimed"}
  OBVIOUS
<1>2. ASSUME NEW c \in Cycles, CheckStep(c)
      PROVE  SendBridge(c)
  BY <1>1, <1>2 DEF CheckStep, StartCheck, SkipCheck, BalanceSuffices, BalanceUnknown,
     StartBridge, BridgeMined, BridgeFails, BridgeLost, BridgeAgain, Persist, PersistFails,
     TopupConfirmed, TopupUnconfirmed, bridgeVars
<1>3. ASSUME NEW c \in Cycles, SendBridge(c)
      PROVE  job'[c].dep = d /\ pc'[c] = "receipt"
  <2>1. PICK e \in Deposits : /\ status' = [status EXCEPT ![e] = "sent"]
                              /\ job' = [job EXCEPT ![c].dep = e]
    BY <1>3 DEF SendBridge, SendDeposit
  <2>2. e = d /\ job'[c].dep = e
    BY <1>1, <2>1 DEF Jobs
  <2> QED
    BY <1>3, <2>2 DEF SendBridge, Goto
<1>4. ASSUME NEW c \in Cycles, ReconcileStep(c) \/ Tick(c) \/ SettleCheck(c) \/ ConfirmStep(c)
      PROVE  FALSE
  BY <1>1, <1>4
     DEF ReconcileStep, FindNoRecord, DropCorruptRecord, EvictRecord, EvictFails,
         ReconcileRecord, ReconcileConfirmed, ReconcileClearFails, ReconcileUnconfirmed,
         Tick, SettleCheck, MessageCheckSettles, ConfirmStep, Attempt, SubmitClaim,
         ClaimReturns, PollBalance, RecordPoll, PollFails, Decide, WakeUp, DeadlinePasses,
         Expire, bridgeVars
<1>5. ~WorldStep
  BY <1>1 DEF WorldStep, BridgeNext, DepositMined, DepositDropped, MessageArrives, ClaimLands,
     ClaimDropped, FeeCharged, ExternalCredit
<1>6. ~ProcessStep
  BY <1>1 DEF ProcessStep, Start, RequestShutdown, FinishShutdown, Crash,
     ManualClaim, RecordAges, RecordCorrupts, bridgeVars
<1>7. ~UNCHANGED vars
  BY <1>1 DEF vars, bridgeVars
<1> QED
  BY <1>2, <1>3, <1>4, <1>5, <1>6, <1>7 DEF Next, CycleStep

\* What is out and not lost is on record, or about to be.
LEMMA NotLostIsTracked ==
  ASSUME IInv, CreditInv, NEW d \in Outstanding \ Lost
  PROVE  \/ HasRecord /\ d = store.dep
         \/ \E c \in Cycles : pc[c] \in Unrecorded /\ d = job[c].dep
BY ConfirmingIsOnRecord DEF Lost, Tracked, CreditInv, RecordInv, ClaimsAreOnRecord

\* A step loses only the deposit that a cycle has sent and not yet put on record.
LEMMA LosingStep ==
  ASSUME IInv, CreditInv, KeptRecords, [Next]_vars, NEW d \in Lost', d \notin Lost
  PROVE  \E c \in Cycles : pc[c] \in Unrecorded /\ job[c].dep = d
<1>1. d \in Deposits /\ d \in Outstanding' /\ d \notin Tracked'
  BY DEF Lost, Outstanding
<1>2. d \in Outstanding
  <2> SUFFICES ASSUME d \notin Outstanding
               PROVE  FALSE
    OBVIOUS
  <2>1. \E c \in Cycles : job'[c].dep = d /\ pc'[c] = "receipt"
    BY <1>1, WhoPutsDepositsOut
  <2> QED
    BY <1>1, <2>1 DEF Tracked, Unrecorded
<1>3. CASE HasRecord /\ d = store.dep
  <2>1. status[store.dep] # "claimed"
    BY <1>2, <1>3 DEF Outstanding
  <2>2. HasRecord' /\ store'.dep = d
    BY <1>3, <2>1, RecordStaysUntilCredited
  <2> QED
    BY <1>1, <2>2 DEF Tracked
<1> QED
  BY <1>2, <1>3, NotLostIsTracked

\* A deposit loses its secret only between the sending of its transaction and its record,
\* whatever else happens: kills while the receipt is awaited, bridges whose error hides
\* what they sent, failing writes.
THEOREM OnlyBeforePersistLost ==
  ASSUME KeptRecords
  PROVE  Spec => LostOnlyBeforePersist
<1>1. IInv /\ CreditInv /\ [Next]_vars =>
        [Lost' \subseteq Lost \cup {job[c].dep : c \in {x \in Cycles : pc[x] \in Unrecorded}}]_vars
  BY LosingStep
<1> QED
  BY <1>1, Invariance, CreditInvariance, PTL DEF Spec, LostOnlyBeforePersist

\* Without kills, failing writes and misleading errors a cycle leaves those places with
\* the record made, or when its deposit came to nothing.
LEMMA PersistCompletes ==
  ASSUME IInv, CreditInv, Faults \cap {"crash", "store", "l1Lost"} = {}, [Next]_vars,
         NEW c \in Cycles, pc[c] \in Unrecorded
  PROVE  \/ pc'[c] \in Unrecorded /\ job'[c].dep = job[c].dep
         \/ HasRecord' /\ store'.dep = job[c].dep
         \/ job[c].dep \notin Outstanding'
<1> USE DEF IInv, TypeOK, Unrecorded
<1>1. ASSUME NEW x \in Cycles, Tick(x) \/ CycleStep(x) \/ SettleCheck(x)
      PROVE  (x = c /\ CycleStep(x)) \/ SettleCheck(x)
  BY <1>1, TopupAssumption
     DEF Alone, Tick, CycleStep, ReconcileStep, CheckStep, ConfirmStep, SettleCheck,
         FindNoRecord, DropCorruptRecord, EvictRecord, EvictFails, ReconcileRecord,
         ReconcileConfirmed, ReconcileClearFails, ReconcileUnconfirmed, StartCheck,
         SkipCheck, BalanceSuffices, BalanceUnknown, StartBridge, SendBridge, BridgeMined,
         BridgeFails, BridgeLost, BridgeAgain, Persist, PersistFails, TopupConfirmed,
         TopupUnconfirmed, Attempt, SubmitClaim, ClaimReturns, PollBalance, RecordPoll,
         PollFails, Decide, WakeUp, DeadlinePasses, Expire, Outcomes
<1>2. CASE CycleStep(c)
  <2>1. Persist(c) \/ BridgeMined(c) \/ BridgeFails(c)
    BY <1>2
       DEF CycleStep, ReconcileStep, CheckStep, ConfirmStep,
           FindNoRecord, DropCorruptRecord, EvictRecord, EvictFails, ReconcileRecord,
           ReconcileConfirmed, ReconcileClearFails, ReconcileUnconfirmed, StartCheck,
           SkipCheck, BalanceSuffices, BalanceUnknown, StartBridge, SendBridge,
           BridgeLost, BridgeAgain, PersistFails, TopupConfirmed, TopupUnconfirmed, Attempt,
           SubmitClaim, ClaimReturns, PollBalance, RecordPoll, PollFails, Decide, WakeUp,
           DeadlinePasses, Expire, Outcomes
  <2>2. CASE Persist(c)
    <3>1. store' = [dep |-> job[c].dep, base |-> job[c].base, stale |-> FALSE]
      BY <2>2 DEF Persist
    <3>2. job[c].dep \in Deposits /\ job[c].base \in Nat
      BY DEF JobHasDeposit, Jobs
    <3> QED
      BY <3>1, <3>2, RecordsAreRecords DEF HasRecord, Records
  <2>3. CASE BridgeMined(c)
    BY <2>3 DEF BridgeMined, Goto
  <2>4. CASE BridgeFails(c)
    BY <2>4 DEF BridgeFails, Outstanding, bridgeVars
  <2> QED
    BY <2>1, <2>2, <2>3, <2>4
<1>3. ASSUME NEW x \in Cycles, SettleCheck(x)
      PROVE  pc' = pc /\ job' = job
  BY <1>3 DEF SettleCheck, MessageCheckSettles
<1>4. CASE WorldStep \/ UNCHANGED vars
  BY <1>4 DEF WorldStep, vars, confirmVars
<1>5. CASE ProcessStep
  BY <1>5, TopupAssumption
     DEF Alone, ProcessStep, Start, RequestShutdown, FinishShutdown, Crash, ManualClaim,
         RecordAges, RecordCorrupts, confirmVars
<1> QED
  BY <1>1, <1>2, <1>3, <1>4, <1>5 DEF Next

\* Stops, restarts, failing calls and dropped claims never make a deposit lose its secret.
THEOREM SecretsAreKept ==
  ASSUME KeptRecords, Faults \cap {"crash", "store", "l1Lost"} = {}
  PROVE  Spec => []NothingLost
<1>1. Init => NothingLost
  BY DEF Init, BridgeInit, NothingLost, Lost, Outstanding
<1>2. ASSUME IInv, CreditInv, NothingLost, [Next]_vars
      PROVE  NothingLost'
  <2> SUFFICES ASSUME NEW d \in Lost'
               PROVE  FALSE
    BY DEF NothingLost
  <2>1. PICK c \in Cycles : pc[c] \in Unrecorded /\ job[c].dep = d
    BY <1>2, LosingStep DEF NothingLost
  <2>2. d \in Tracked' \/ d \notin Outstanding'
    BY <1>2, <2>1, PersistCompletes DEF Tracked
  <2> QED
    BY <2>2 DEF Lost
<1> QED
  BY <1>1, <1>2, Invariance, CreditInvariance, PTL DEF Spec
=============================================================================
