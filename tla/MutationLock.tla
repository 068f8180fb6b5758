---------------------------- MODULE MutationLock ----------------------------
(***************************************************************************)
(* MutationLock (agent/loft_cli_agent/lock.py): the file lock that keeps   *)
(* two applies from running on one server.  The lock is flock's: it is on  *)
(* the inode, and goes when its holder closes the file or dies.  The file  *)
(* is created when it is missing and unlinked on a clean exit, so the name *)
(* need not lead to the inode that a process has open.                     *)
(***************************************************************************)
EXTENDS Naturals, FiniteSets

CONSTANTS
  Procs,    \* the processes that take the lock
  Inodes    \* inode numbers; one is reused when nothing leads to it

CONSTANT NoInode

ASSUME NoInodeAssumption == NoInode \notin Inodes

VARIABLES
  path,     \* the inode the lock file's name leads to, or NoInode
  fd,       \* self._fd: the inode each process has open, or NoInode
  phase,    \* where each process is in __enter__ and __exit__
  raced     \* history: the file was unlinked while others had it open

lockVars == <<path, fd, phase, raced>>

Phases == {"out", "opened", "holding", "released"}

LockInit ==
  /\ path \in Inodes \cup {NoInode}
  /\ fd = [p \in Procs |-> NoInode]
  /\ phase = [p \in Procs |-> "out"]
  /\ raced = FALSE

InUse == {path} \cup {fd[p] : p \in Procs}

(* Mutant: the lock is a shared one (LOCK_SH), which excludes nobody.      *)
LockedShared(p) == FALSE

(* flock is held on the inode by another open file.                        *)
Locked(p) ==
  \E q \in Procs \ {p} : phase[q] = "holding" /\ fd[q] = fd[p]

(* os.open(path, O_CREAT | O_RDWR).                                        *)
Open(p) ==
  /\ phase[p] = "out"
  /\ \E i \in Inodes :
       /\ IF path # NoInode THEN i = path ELSE i \notin InUse
       /\ path' = i
       /\ fd' = [fd EXCEPT ![p] = i]
  /\ phase' = [phase EXCEPT ![p] = "opened"]
  /\ UNCHANGED raced

(* flock(LOCK_EX | LOCK_NB) succeeds; the holder's pid is written.         *)
Acquire(p) ==
  /\ phase[p] = "opened"
  /\ ~Locked(p)
  /\ phase' = [phase EXCEPT ![p] = "holding"]
  /\ UNCHANGED <<path, fd, raced>>

(* flock fails: close, and LockError.                                      *)
Refuse(p) ==
  /\ phase[p] = "opened"
  /\ Locked(p)
  /\ phase' = [phase EXCEPT ![p] = "out"]
  /\ fd' = [fd EXCEPT ![p] = NoInode]
  /\ UNCHANGED <<path, raced>>

(* __exit__: LOCK_UN and close.                                            *)
Release(p) ==
  /\ phase[p] = "holding"
  /\ phase' = [phase EXCEPT ![p] = "released"]
  /\ fd' = [fd EXCEPT ![p] = NoInode]
  /\ UNCHANGED <<path, raced>>

(* unlink(missing_ok=True), of whatever the name leads to by now.          *)
Unlink(p) ==
  /\ phase[p] = "released"
  /\ phase' = [phase EXCEPT ![p] = "out"]
  /\ path' = NoInode
  /\ raced' = (raced \/ \E q \in Procs : fd[q] # NoInode)
  /\ UNCHANGED fd

(* Mutant: a dead process keeps the lock, as with a bare pid file.         *)
DieLocked(p) == phase[p] # "out" /\ UNCHANGED lockVars

(* The process dies: the kernel closes its file; the name stays.           *)
Die(p) ==
  /\ phase[p] # "out"
  /\ phase' = [phase EXCEPT ![p] = "out"]
  /\ fd' = [fd EXCEPT ![p] = NoInode]
  /\ UNCHANGED <<path, raced>>

LockNext ==
  \E p \in Procs :
    Open(p) \/ Acquire(p) \/ Refuse(p) \/ Release(p) \/ Unlink(p) \/ Die(p)

LockSpec == LockInit /\ [][LockNext]_lockVars

-----------------------------------------------------------------------------
LockTypeOK ==
  /\ path \in Inodes \cup {NoInode}
  /\ fd \in [Procs -> Inodes \cup {NoInode}]
  /\ phase \in [Procs -> Phases]
  /\ raced \in BOOLEAN

(* "Only one mutation (apply) can run at a time on a managed server."      *)
MutualExclusion ==
  \A p, q \in Procs :
    phase[p] = "holding" /\ phase[q] = "holding" => p = q

(* The lock excludes, whatever processes die, as long as no process        *)
(* unlinks the file while another has it open.                             *)
ExclusiveUnlessUnlinkRace == ~raced => MutualExclusion
=============================================================================
