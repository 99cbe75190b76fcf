----------------------------- MODULE LockProofs -----------------------------
(***************************************************************************)
(* What the lock file of the top-up service gives, for any number of       *)
(* instances and PIDs, on one host or in containers: until two starts race *)
(* between the read and the write, or an instance serves unseen in another *)
(* namespace, one instance serves and the file names it.                   *)
(*                                                                         *)
(* SharedOnlyBySlips is not inductive.  What carries it is that the file   *)
(* names whoever serves, that one instance at most is about to write, and  *)
(* that nobody serves while it does: it has found no owner alive.          *)
(***************************************************************************)
EXTENDS ProcessLock, TLAPS

OneWrites == \A i, j \in Instances : at[i] = "writing" /\ at[j] = "writing" => i = j

WriterIsAlone == \A i, j \in Instances : at[i] = "writing" => ~Holding(j)

NamesHolder == \A i \in Instances : Holding(i) => file = pid[i]

Orderly == OneWrites /\ WriterIsAlone /\ NamesHolder /\ MutualExclusion

IInv == TypeOK /\ (slips = {} => Orderly)

LEMMA InitIInv == Init => IInv
  BY LockAssumption
     DEF Init, IInv, TypeOK, Lives, Orderly, OneWrites, WriterIsAlone, Holding,
         NamesHolder, MutualExclusion

\* An instance that finds no owner alive and does not slip serves beside nobody.
LEMMA NoOwnerNobodyServes ==
  ASSUME TypeOK, Orderly, NEW i \in Instances, ~OwnerAlive(i), Slip(i) = {}
  PROVE  \A j \in Instances : ~Holding(j)
  <1> SUFFICES ASSUME NEW j \in Instances, Holding(j)
               PROVE  FALSE
    OBVIOUS
  <1>1. ~Containers
    BY DEF Slip
  <1>2. file = pid[j] /\ pid[j] \in Pids
    BY DEF Orderly, NamesHolder, TypeOK
  <1>3. Alive(j)
    BY DEF Holding, Alive
  <1>4. file \in LivePids(i)
    BY <1>1, <1>2, <1>3 DEF LivePids
  <1> QED
    BY <1>2, <1>4, LockAssumption DEF OwnerAlive

LEMMA NextTypeOK ==
  ASSUME TypeOK, [Next]_vars
  PROVE  TypeOK'
  <1> USE DEF TypeOK, Lives
  <1>1. ASSUME NEW i \in Instances,
               Spawn(i) \/ FindNoOwner(i) \/ Refuse(i) \/ WriteLock(i)
                 \/ FinishStart(i) \/ StartFails(i) \/ Stop(i) \/ Kill(i)
        PROVE  TypeOK'
    BY <1>1 DEF Spawn, FindNoOwner, Slip, Refuse, WriteLock, FinishStart, StartFails, Stop,
                Release, Kill
  <1>2. CASE OtherStarts \/ OtherEnds
    BY <1>2 DEF OtherStarts, OtherEnds
  <1>3. CASE UNCHANGED vars
    BY <1>3 DEF vars
  <1> QED
    BY <1>1, <1>2, <1>3 DEF Next

LEMMA NextOrderly ==
  ASSUME TypeOK, Orderly, [Next]_vars, slips' = {}
  PROVE  Orderly'
  <1> USE DEF TypeOK, Lives, Orderly, OneWrites, WriterIsAlone, Holding, NamesHolder,
              MutualExclusion
  <1>1. ASSUME NEW i \in Instances, Spawn(i)
        PROVE  Orderly'
    <2>1. PICK p \in Pids : pid' = [pid EXCEPT ![i] = p]
      BY <1>1 DEF Spawn
    <2>2. at[i] = "down" /\ at' = [at EXCEPT ![i] = "reading"] /\ file' = file
      BY <1>1 DEF Spawn
    <2> QED
      BY <2>1, <2>2
  <1>2. ASSUME NEW i \in Instances, FindNoOwner(i)
        PROVE  Orderly'
    <2>1. Slip(i) = {} /\ ~OwnerAlive(i)
      BY <1>2 DEF FindNoOwner
    <2>2. \A j \in Instances : at[j] \notin {"starting", "running"}
      BY <2>1, NoOwnerNobodyServes
    <2>3. \A j \in Instances : at[j] # "writing"
      BY <2>1 DEF Slip
    <2> QED
      BY <1>2, <2>2, <2>3 DEF FindNoOwner
  <1>3. ASSUME NEW i \in Instances, Refuse(i) \/ Kill(i)
        PROVE  Orderly'
    BY <1>3 DEF Refuse, Kill, Alive
  <1>4. ASSUME NEW i \in Instances, WriteLock(i)
        PROVE  Orderly'
    BY <1>4 DEF WriteLock
  <1>5. ASSUME NEW i \in Instances, FinishStart(i)
        PROVE  Orderly'
    BY <1>5 DEF FinishStart
  <1>6. ASSUME NEW i \in Instances, StartFails(i) \/ Stop(i)
        PROVE  Orderly'
    <2>1. file' = NoFile /\ at' = [at EXCEPT ![i] = "down"] /\ pid' = pid
      BY <1>6 DEF StartFails, Stop, Release
    <2>2. Holding(i)
      BY <1>6 DEF StartFails, Stop
    <2> QED
      BY <2>1, <2>2
  <1>7. CASE OtherStarts \/ OtherEnds
    BY <1>7 DEF OtherStarts, OtherEnds
  <1>8. CASE UNCHANGED vars
    BY <1>8 DEF vars
  <1> QED
    BY <1>1, <1>2, <1>3, <1>4, <1>5, <1>6, <1>7, <1>8 DEF Next

LEMMA SlipsStay == [Next]_vars => slips \subseteq slips'
  BY DEF Next, vars, Spawn, FindNoOwner, Refuse, WriteLock, FinishStart, StartFails, Stop,
         Release, Kill, OtherStarts, OtherEnds

\* On one host or in containers, for any number of instances and PIDs, whoever is killed
\* and whatever PIDs are reused: two instances serve from one data_dir only after two
\* starts have raced between the read and the write of the lock file, or one has missed
\* an owner of another namespace; until then the file names the one that serves
\* (state.ts:15-36).
THEOREM SharedBySlipsOnly == Spec => []SharedOnlyBySlips /\ []FileNamesHolder
  <1>1. IInv /\ [Next]_vars => IInv'
    BY NextTypeOK, NextOrderly, SlipsStay DEF IInv
  <1>2. IInv => SharedOnlyBySlips /\ FileNamesHolder
    BY DEF IInv, Orderly, NamesHolder, SharedOnlyBySlips, FileNamesHolder
  <1> QED
    BY InitIInv, <1>1, <1>2, PTL DEF Spec
=============================================================================
