---------------------------- MODULE ProcessLock ----------------------------
(***************************************************************************)
(* The PID lock file of the top-up service (services/topup/src/state.ts    *)
(* and main in index.ts): instances that share one data_dir start, find    *)
(* or do not find the lock file, write it, run, and remove it when they    *)
(* stop.  A killed instance leaves it behind.                              *)
(*                                                                         *)
(* The operating system gives a starting process a PID that no live        *)
(* process of its PID namespace has, and may reuse the PIDs of dead ones.  *)
(* Instances share a namespace when they run on one host, and each has its *)
(* own when they run in containers, where the service is PID 1             *)
(* (services/topup/Dockerfile).  A live process of another user counts as  *)
(* dead in isProcessAlive; none is modelled.                               *)
(***************************************************************************)
EXTENDS Naturals, FiniteSets

CONSTANTS
  Instances,     \* service processes on one data_dir, restarted for ever
  Pids,          \* PIDs a namespace can hand out
  Containers,    \* TRUE: every instance has a PID namespace of its own
  NoFile         \* the lock file does not exist

ASSUME LockAssumption == Containers \in BOOLEAN /\ NoFile \notin Pids

VARIABLES
  at,       \* at[i]: where instance i is in its life
  pid,      \* pid[i]: its PID while it lives
  others,   \* PIDs of live processes that are not the service
  file,     \* content of the lock file: a PID or NoFile
  slips     \* history: "raced": two instances had found no owner before either wrote;
            \* "unseen": one found none while another served in its own namespace

vars == <<at, pid, others, file, slips>>

\* "down":    not running           "starting": between lock and handlers
\* "reading": acquireProcessLock    "running":  serving
\* "writing": found no live owner
Lives == {"down", "reading", "writing", "starting", "running"}

TypeOK ==
  /\ at \in [Instances -> Lives]
  /\ pid \in [Instances -> Pids]
  /\ others \in SUBSET Pids
  /\ file \in Pids \cup {NoFile}
  /\ slips \in SUBSET {"raced", "unseen"}

Init ==
  /\ at = [i \in Instances |-> "down"]
  /\ pid \in [Instances -> Pids]
  /\ others = {}
  /\ file = NoFile
  /\ slips = {}

Alive(i) == at[i] # "down"
Holding(i) == at[i] \in {"starting", "running"}

\* Live PIDs of the namespace instance i runs in.
LivePids(i) ==
  others \cup {pid[j] : j \in {k \in Instances : Alive(k) /\ (Containers => k = i)}}

-----------------------------------------------------------------------------

Spawn(i) ==
  /\ at[i] = "down"
  /\ \E p \in Pids \ LivePids(i) : pid' = [pid EXCEPT ![i] = p]
  /\ at' = [at EXCEPT ![i] = "reading"]
  /\ UNCHANGED <<others, file, slips>>

\* isProcessAlive of the PID in the file, by kill(pid, 0) in i's namespace.
OwnerAlwaysDead(i) == FALSE \* mutant: a failing and a succeeding kill are mixed up
OwnerUnquestioned(i) == file # NoFile \* mutant: any lock file counts
OwnerAlive(i) == file # NoFile /\ file \in LivePids(i)

Slip(i) ==
  (IF \E j \in Instances : at[j] = "writing" THEN {"raced"} ELSE {})
    \cup (IF Containers /\ \E j \in Instances : Holding(j) THEN {"unseen"} ELSE {})

\* The file is read.  Nobody keeps it from changing before it is written.
FindNoOwner(i) ==
  /\ at[i] = "reading"
  /\ ~OwnerAlive(i)
  /\ at' = [at EXCEPT ![i] = "writing"]
  /\ slips' = slips \cup Slip(i)
  /\ UNCHANGED <<pid, others, file>>

\* acquireProcessLock throws before the try block of main: the file stays.
Refuse(i) ==
  /\ at[i] = "reading"
  /\ OwnerAlive(i)
  /\ at' = [at EXCEPT ![i] = "down"]
  /\ UNCHANGED <<pid, others, file, slips>>

WriteLock(i) ==
  /\ at[i] = "writing"
  /\ file' = pid[i]
  /\ at' = [at EXCEPT ![i] = "starting"]
  /\ UNCHANGED <<pid, others, slips>>

FinishStart(i) ==
  /\ at[i] = "starting"
  /\ at' = [at EXCEPT ![i] = "running"]
  /\ UNCHANGED <<pid, others, file, slips>>

\* releaseProcessLock removes the file, whatever it says: after a failed
\* start, and at the end of a graceful shutdown.
Release(i) ==
  /\ file' = NoFile
  /\ at' = [at EXCEPT ![i] = "down"]
  /\ UNCHANGED <<pid, others, slips>>

StartFails(i) == at[i] = "starting" /\ Release(i)
Stop(i) == at[i] = "running" /\ Release(i)

\* SIGKILL, or a signal before the handlers are registered.
Kill(i) ==
  /\ Alive(i)
  /\ at' = [at EXCEPT ![i] = "down"]
  /\ UNCHANGED <<pid, others, file, slips>>

\* Other processes of the host come and go; they leave PIDs for every instance
\* and one to spare.
OtherStarts ==
  /\ ~Containers
  /\ Cardinality(others) + Cardinality(Instances) + 1 < Cardinality(Pids)
  /\ \E p \in Pids : (\A i \in Instances : p \notin LivePids(i)) /\ others' = others \cup {p}
  /\ UNCHANGED <<at, pid, file, slips>>

OtherEnds ==
  /\ \E p \in others : others' = others \ {p}
  /\ UNCHANGED <<at, pid, file, slips>>

Next ==
  \/ \E i \in Instances :
       \/ Spawn(i) \/ FindNoOwner(i) \/ Refuse(i) \/ WriteLock(i)
       \/ FinishStart(i) \/ StartFails(i) \/ Stop(i) \/ Kill(i)
  \/ OtherStarts \/ OtherEnds

Spec == Init /\ [][Next]_vars

-----------------------------------------------------------------------------

\* Two instances never serve from one data_dir (services/topup/README.md: the lock
\* file "prevents concurrent instances").  acquireProcessLock reads and writes it in two
\* steps, so it does not.
MutualExclusion ==
  \A i, j \in Instances : Holding(i) /\ Holding(j) => i = j

\* What the lock file does give: two instances serve together only if two starts once
\* overlapped between the read and the write, or an instance served unseen in a
\* namespace of its own.  Neither kills, failed starts and stops, which remove the file
\* whatever it says, nor the reuse of PIDs bring it about.
SharedOnlyBySlips == slips # {} \/ MutualExclusion

\* The file names the instance that serves, so the next one to start sees it
\* and nobody else's stop or failed start has removed it.
FileNamesHolder == slips # {} \/ \A i \in Instances : Holding(i) => file = pid[i]

\* A supervisor restarts what is down, starts do not always fail, and unrelated
\* processes end.
Fairness ==
  /\ \A i \in Instances :
       /\ WF_vars(Spawn(i))
       /\ WF_vars(FindNoOwner(i) \/ Refuse(i))
       /\ WF_vars(WriteLock(i))
       /\ SF_vars(FinishStart(i))
  /\ WF_vars(OtherEnds)

FairSpec == Spec /\ Fairness

\* From some time on no instance is killed: one that goes down has released
\* the lock file, or was refused.
KillsStop ==
  <>[][\A i \in Instances :
         Alive(i) /\ at'[i] = "down" =>
           \/ Holding(i) /\ file' = NoFile
           \/ at[i] = "reading" /\ OwnerAlive(i)]_vars

\* ... and the system does not hand out the PID of the dead owner, to the service
\* or to anybody else, while it has another one.
PidsMoveOn ==
  <>[][/\ file \notin others' \ others
       /\ \A i \in Instances :
            at[i] = "down" /\ at'[i] = "reading" => pid'[i] # file \/ Pids = {file}]_vars

\* Then a lock file that a dead instance left behind keeps nobody out: somebody
\* serves again and again (state.test.ts: "overwrites stale lock from dead
\* process").  On one host; in a container the service always has PID 1, the one in the
\* file, and takes itself for the owner.
RestartSucceeds ==
  KillsStop /\ PidsMoveOn => []<>(\E i \in Instances : at[i] = "running")
=============================================================================
