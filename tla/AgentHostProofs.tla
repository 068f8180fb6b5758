-------------------------- MODULE AgentHostProofs --------------------------
(***************************************************************************)
(* Proofs about MutationLock and AgentHost, for any number of clients and  *)
(* inodes.                                                                 *)
(*                                                                         *)
(* The lock's inductive invariant says that an open file leads to an inode *)
(* that at most one process has locked, and that, as long as the file was  *)
(* not unlinked under a process, every open file is the one at the path.   *)
(* Two holders would then hold the same inode.                             *)
(***************************************************************************)
EXTENDS AgentHost, TLAPS

-----------------------------------------------------------------------------
(* The lock.                                                               *)

FilesOpen ==
  \A p \in Procs : fd[p] # NoInode <=> phase[p] \in {"opened", "holding"}

OneHolderPerInode ==
  \A p, q \in Procs :
    phase[p] = "holding" /\ phase[q] = "holding" /\ fd[p] = fd[q] => p = q

OneInode == ~raced => \A p \in Procs : fd[p] # NoInode => fd[p] = path

LockInv == LockTypeOK /\ FilesOpen /\ OneHolderPerInode /\ OneInode

(* The invariant of the lock, to begin with.                               *)
LEMMA LockInitInv == LockInit => LockInv
BY DEF LockInit, LockInv, LockTypeOK, Phases, FilesOpen, OneHolderPerInode,
       OneInode

(* Each operation of the lock preserves the invariant.                     *)
LEMMA LockNextInv == LockInv /\ [LockNext]_lockVars => LockInv'
<1> SUFFICES ASSUME LockInv, [LockNext]_lockVars
             PROVE  LockInv'
  OBVIOUS
<1> USE NoInodeAssumption DEF LockInv, LockTypeOK, Phases
<1>1. ASSUME NEW p \in Procs, Open(p)
      PROVE  LockInv'
  <2>1. PICK i \in Inodes : /\ IF path # NoInode THEN i = path ELSE i \notin InUse
                            /\ path' = i
                            /\ fd' = [fd EXCEPT ![p] = i]
    BY <1>1 DEF Open
  <2>2. phase[p] = "out" /\ phase' = [phase EXCEPT ![p] = "opened"] /\ raced' = raced
    BY <1>1 DEF Open
  <2>3. LockTypeOK'
    BY <2>1, <2>2
  <2>4. FilesOpen'
    BY <2>1, <2>2 DEF FilesOpen
  <2>5. OneHolderPerInode'
    BY <2>1, <2>2 DEF OneHolderPerInode
  <2>6. OneInode'
    BY <2>1, <2>2 DEF OneInode
  <2> QED BY <2>3, <2>4, <2>5, <2>6
<1>2. ASSUME NEW p \in Procs, Acquire(p)
      PROVE  LockInv'
  BY <1>2 DEF Acquire, Locked, FilesOpen, OneHolderPerInode, OneInode
<1>3. ASSUME NEW p \in Procs, Refuse(p) \/ Release(p) \/ Die(p)
      PROVE  LockInv'
  <2>1. /\ fd' = [fd EXCEPT ![p] = NoInode]
        /\ \E s \in {"out", "released"} : phase' = [phase EXCEPT ![p] = s]
        /\ UNCHANGED <<path, raced>>
    BY <1>3 DEF Refuse, Release, Die
  <2> QED
    BY <2>1 DEF FilesOpen, OneHolderPerInode, OneInode
<1>4. ASSUME NEW p \in Procs, Unlink(p)
      PROVE  LockInv'
  BY <1>4 DEF Unlink, FilesOpen, OneHolderPerInode, OneInode
<1>5. CASE UNCHANGED lockVars
  BY <1>5 DEF lockVars, FilesOpen, OneHolderPerInode, OneInode
<1> QED
  BY <1>1, <1>2, <1>3, <1>4, <1>5 DEF LockNext

(* Two holders of the lock take an unlink in between.                      *)
LEMMA LockInvExcludes == LockInv => ExclusiveUnlessUnlinkRace
BY DEF LockInv, FilesOpen, OneHolderPerInode, OneInode,
       ExclusiveUnlessUnlinkRace, MutualExclusion

(* Whatever processes take the lock and die, at most one holds it until    *)
(* one of them unlinks the file while another has it open.                 *)
THEOREM LockExcludes == LockSpec => []ExclusiveUnlessUnlinkRace
<1>1. LockSpec => []LockInv
  BY LockInitInv, LockNextInv, PTL DEF LockSpec
<1> QED
  BY <1>1, LockInvExcludes, PTL

-----------------------------------------------------------------------------
(* The host: its steps are steps of the lock, or leave it alone.           *)

LEMMA HostStepIsLockStep == [Next]_vars => [LockNext]_lockVars
<1> SUFFICES ASSUME [Next]_vars
             PROVE  [LockNext]_lockVars
  OBVIOUS
<1>1. CASE UNCHANGED vars
  BY <1>1 DEF vars
<1>2. ASSUME NEW c \in Clients,
             OpenLock(c) \/ TakeLock(c) \/ LockError(c) \/ ReleaseLock(c)
               \/ UnlinkLock(c)
      PROVE  LockNext
  BY <1>2 DEF OpenLock, TakeLock, LockError, ReleaseLock, UnlinkLock,
              LockNext, Clients
<1>3. ASSUME NEW c \in Clients, Kill(c)
      PROVE  [LockNext]_lockVars
  BY <1>3 DEF Kill, LockNext, Clients
<1>4. ASSUME NEW c \in Clients,
             Upload(c) \/ Load(c) \/ Apply(c) \/ WriteResult(c)
               \/ WriteDesired(c) \/ Download(c)
      PROVE  UNCHANGED lockVars
  BY <1>4 DEF Upload, Load, Apply, WriteResult, WriteDesired, Download
<1> QED
  BY <1>1, <1>2, <1>3, <1>4 DEF Next, Advance

(* An agent works on the server only between taking the lock and giving it *)
(* back.                                                                   *)
StageMatchesPhase ==
  \A c \in Clients :
    /\ stage[c] \in {"applying", "applied"} <=> phase[c] = "holding"
    /\ stage[c] = "opened" <=> phase[c] = "opened"
    /\ stage[c] = "released" <=> phase[c] = "released"

(* What an agent at work has read of the state is what the state is.       *)
MemoryIsFresh ==
  ~raced => \A c \in Clients : stage[c] = "applying" => memory[c] = state

(* An agent past the upload has a plan, and one past the apply a result.   *)
PlanInHand ==
  \A c \in Clients :
    /\ stage[c] = "uploaded" => planFile \in Clients
    /\ stage[c] \in {"loaded", "opened", "applying"} => loaded[c] \in Clients

ResultInHand ==
  \A c \in Clients :
    /\ stage[c] \in {"applied", "released", "unlinked"} =>
         outcome[c] \in Result /\ outcome[c].plan \in applied
    /\ stage[c] = "resulted" => lastResult # NoResult

HostInv ==
  /\ LockInv
  /\ TypeOK
  /\ StageMatchesPhase
  /\ MemoryIsFresh
  /\ PlanInHand
  /\ ResultInHand
  /\ NoLostUpdateUnlessUnlinkRace
  /\ ResultIsOfAnApply

(* The invariant of the host, to begin with.                               *)
LEMMA HostInitInv == Init => HostInv
<1> SUFFICES ASSUME Init
             PROVE  HostInv
  OBVIOUS
<1>1. LockInv
  BY LockInitInv DEF Init
<1>2. TypeOK
  BY <1>1, MaxJobsAssumption
     DEF Init, TypeOK, LockInv, Stages, Plan, NoResult
<1>3. /\ StageMatchesPhase /\ MemoryIsFresh /\ PlanInHand /\ ResultInHand
      /\ NoLostUpdateUnlessUnlinkRace /\ ResultIsOfAnApply
  BY DEF Init, LockInit, Clients, StageMatchesPhase, MemoryIsFresh, PlanInHand,
         ResultInHand, NoLostUpdateUnlessUnlinkRace, ResultIsOfAnApply
<1> QED
  BY <1>1, <1>2, <1>3 DEF HostInv

(* Every handler preserves the host's invariant; that it preserves the     *)
(* lock's is HostStepIsLockStep.                                           *)
LEMMA HostNextInv == HostInv /\ [Next]_vars => HostInv'
<1> SUFFICES ASSUME HostInv, [Next]_vars
             PROVE  HostInv'
  OBVIOUS
<1>1. LockInv'
  BY HostStepIsLockStep, LockNextInv DEF HostInv
<1>2. LockTypeOK' /\ (~raced' => MutualExclusion') /\ (~raced => MutualExclusion)
  <2>1. LockInv => ExclusiveUnlessUnlinkRace
    BY LockInvExcludes
  <2>2. LockInv' => ExclusiveUnlessUnlinkRace'
    BY LockInvExcludes, PTL
  <2> QED
    BY <1>1, <2>1, <2>2 DEF HostInv, LockInv, ExclusiveUnlessUnlinkRace
<1> DEFINE Rest == /\ TypeOK /\ StageMatchesPhase /\ MemoryIsFresh
                   /\ PlanInHand /\ ResultInHand
                   /\ NoLostUpdateUnlessUnlinkRace /\ ResultIsOfAnApply
<1> SUFFICES Rest'
  BY <1>1 DEF HostInv
<1> USE NoneAssumption, MaxJobsAssumption
    DEF HostInv, TypeOK, LockTypeOK, Phases, Stages, Clients, Plan, Result,
        NoResult, StageMatchesPhase, MemoryIsFresh, PlanInHand, ResultInHand,
        NoLostUpdateUnlessUnlinkRace, ResultIsOfAnApply, Goes
<1>3. ASSUME NEW c \in Clients, Upload(c)
      PROVE  Rest'
  BY <1>3 DEF Upload, lockVars, agentVars
<1>4. ASSUME NEW c \in Clients, Load(c)
      PROVE  Rest'
  BY <1>4 DEF Load, lockVars, fileVars
<1>5. ASSUME NEW c \in Clients, OpenLock(c)
      PROVE  Rest'
  BY <1>2, <1>5 DEF OpenLock, Open, fileVars, agentVars
<1>6. ASSUME NEW c \in Clients, TakeLock(c)
      PROVE  Rest'
  BY <1>2, <1>6 DEF TakeLock, Acquire, fileVars
<1>7. ASSUME NEW c \in Clients, LockError(c)
      PROVE  Rest'
  BY <1>2, <1>7 DEF LockError, Refuse, fileVars, agentVars
<1>8. ASSUME NEW c \in Clients, Apply(c)
      PROVE  Rest'
  BY <1>2, <1>8 DEF Apply, lockVars, fileVars, MutualExclusion
<1>9. ASSUME NEW c \in Clients, ReleaseLock(c)
      PROVE  Rest'
  BY <1>2, <1>9 DEF ReleaseLock, Release, fileVars, agentVars
<1>10. ASSUME NEW c \in Clients, UnlinkLock(c)
       PROVE  Rest'
  BY <1>2, <1>10 DEF UnlinkLock, Unlink, fileVars, agentVars
<1>11. ASSUME NEW c \in Clients, WriteResult(c)
       PROVE  Rest'
  BY <1>11 DEF WriteResult, lockVars, agentVars
<1>12. ASSUME NEW c \in Clients, WriteDesired(c)
       PROVE  Rest'
  BY <1>12 DEF WriteDesired, lockVars, agentVars
<1>13. ASSUME NEW c \in Clients, Kill(c)
       PROVE  Rest'
  BY <1>2, <1>13 DEF Kill, Die, lockVars, fileVars, agentVars
<1>14. ASSUME NEW c \in Clients, Download(c)
       PROVE  Rest'
  BY <1>14 DEF Download, lockVars, fileVars
<1>15. CASE UNCHANGED vars
  BY <1>15 DEF vars, lockVars, hostVars, fileVars, agentVars
<1> QED
  BY <1>3, <1>4, <1>5, <1>6, <1>7, <1>8, <1>9, <1>10, <1>11, <1>12, <1>13,
     <1>14, <1>15 DEF Next, Advance

(* The invariant holds in every state of the host.                         *)
THEOREM HostInvariance == Spec => []HostInv
BY HostInitInv, HostNextInv, PTL DEF Spec

(* The host's type invariant.                                              *)
THEOREM HostTypeCorrect == Spec => []TypeOK
BY HostInvariance, PTL DEF HostInv

(* Agents exclude each other until a lock file is unlinked under one.      *)
THEOREM AgentsExclude == Spec => []ExclusiveUnlessUnlinkRace
<1>1. HostInv => ExclusiveUnlessUnlinkRace
  BY LockInvExcludes DEF HostInv
<1> QED
  BY <1>1, HostInvariance, PTL

(* Until then, no apply loses what another has recorded.                   *)
THEOREM NoLostUpdate == Spec => []NoLostUpdateUnlessUnlinkRace
BY HostInvariance, PTL DEF HostInv

(* The result file speaks of an apply that took place.                     *)
THEOREM ResultsAreReal == Spec => []ResultIsOfAnApply
BY HostInvariance, PTL DEF HostInv

(* Whoever is refused the lock is another client than its holder: a process *)
(* that has locked an inode holds it until it gives it back or dies.       *)
LEMMA RefusalHasHolder ==
  ASSUME HostInv, NEW c \in Clients, LockError(c)
  PROVE  \E d \in Clients \ {c} : stage[d] \in {"applying", "applied"}
<1>1. phase[c] = "opened" /\ Locked(c)
  BY DEF LockError, Refuse
<1>2. PICK d \in Clients \ {c} : phase[d] = "holding"
  BY <1>1 DEF Locked, Clients
<1>3. stage[d] \in {"applying", "applied"}
  BY <1>2 DEF HostInv, StageMatchesPhase
<1> QED
  BY <1>3

(* A lock file that a killed agent left behind refuses nobody: an apply is *)
(* refused only while another client's agent is between taking the lock    *)
(* and giving it back.                                                     *)
THEOREM RefusalsAreJustified == Spec => RefusedOnlyWhileHeld
<1> DEFINE Justified ==
      \A c \in Clients :
        LockError(c) => \E d \in Clients \ {c} : stage[d] \in {"applying", "applied"}
<1>1. HostInv => [Justified]_vars
  BY RefusalHasHolder
<1> QED
  BY <1>1, HostInvariance, PTL DEF RefusedOnlyWhileHeld
=============================================================================
