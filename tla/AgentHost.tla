----------------------------- MODULE AgentHost -----------------------------
(***************************************************************************)
(* Clients that apply to one managed server in agent mode:                 *)
(* AgentTransport.apply_plan (client/loft_cli/runtime/agent_transport.py)  *)
(* uploads a plan, runs `loft-cli-agent apply` (agent/loft_cli_agent/      *)
(* cli.py) and downloads the result.  The plan, the runtime state, the     *)
(* result and the desired state are single files on the server; only the   *)
(* state is read and written under the mutation lock.                      *)
(*                                                                         *)
(* A plan is the client it comes from, and what it leaves in the runtime   *)
(* state is that it was applied (AgentExecutor has the steps).             *)
(***************************************************************************)
EXTENDS MutationLock

CONSTANT MaxJobs    \* bound on applies

Clients == Procs

None == "none"

ASSUME NoneAssumption == None \notin Procs
ASSUME MaxJobsAssumption == MaxJobs \in Nat

VARIABLES
  stage,       \* where each client's apply is
  jobs,        \* how many applies were started
  planFile,    \* desired/plan.json
  loaded,      \* the plan each agent process has read
  state,       \* runtime-state.json: the plans recorded as applied
  memory,      \* each agent's copy of it
  outcome,     \* what each agent process has to report
  lastResult,  \* last-result.json
  desired,     \* desired/desired-state.json
  report,      \* what apply_plan returned to each client
  ranHere,     \* history: the agent of this apply ran its client's own plan
  applied      \* history: the plans whose apply has saved its state

fileVars == <<planFile, lastResult, desired>>
agentVars == <<loaded, memory, outcome>>
hostVars == <<stage, jobs, fileVars, agentVars, state, report, ranHere, applied>>
vars == <<lockVars, hostVars>>

Plan == Clients \cup {None}
Result == [plan : Clients, status : {"success", "failed"}]
NoResult == [plan |-> None, status |-> None]

Stages == {"idle", "uploaded", "loaded", "opened", "applying", "applied",
           "released", "unlinked", "resulted", "exited"}

Init ==
  /\ LockInit
  /\ stage = [c \in Clients |-> "idle"]
  /\ jobs = 0
  /\ planFile = None
  /\ loaded = [c \in Clients |-> None]
  /\ state = {}
  /\ memory = [c \in Clients |-> {}]
  /\ outcome = [c \in Clients |-> NoResult]
  /\ lastResult = NoResult
  /\ desired = None
  /\ report = [c \in Clients |-> NoResult]
  /\ ranHere = [c \in Clients |-> FALSE]
  /\ applied = {}

Goes(c, from, to) ==
  /\ stage[c] = from
  /\ stage' = [stage EXCEPT ![c] = to]

(* Mutant: the agent is invoked without the plan having been uploaded.     *)
UploadNothing(c) ==
  /\ Goes(c, "idle", "uploaded")
  /\ jobs < MaxJobs
  /\ jobs' = jobs + 1
  /\ ranHere' = [ranHere EXCEPT ![c] = FALSE]
  /\ report' = [report EXCEPT ![c] = NoResult]
  /\ UNCHANGED <<lockVars, agentVars, fileVars, state, applied>>

(* apply_plan: the plan is uploaded to the one path for plans.             *)
Upload(c) ==
  /\ Goes(c, "idle", "uploaded")
  /\ jobs < MaxJobs
  /\ jobs' = jobs + 1
  /\ planFile' = c
  /\ ranHere' = [ranHere EXCEPT ![c] = FALSE]
  /\ report' = [report EXCEPT ![c] = NoResult]
  /\ UNCHANGED <<lockVars, agentVars, lastResult, desired, state, applied>>

(* The agent starts and reads the plan, before it takes the lock.          *)
Load(c) ==
  /\ Goes(c, "uploaded", "loaded")
  /\ loaded' = [loaded EXCEPT ![c] = planFile]
  /\ UNCHANGED <<lockVars, jobs, fileVars, memory, outcome, state, report,
                 ranHere, applied>>

OpenLock(c) ==
  /\ Goes(c, "loaded", "opened")
  /\ Open(c)
  /\ UNCHANGED <<jobs, fileVars, agentVars, state, report, ranHere, applied>>

(* Mutant: the state is not read under the lock.                           *)
TakeLockBlind(c) ==
  /\ Goes(c, "opened", "applying")
  /\ Acquire(c)
  /\ UNCHANGED <<jobs, fileVars, agentVars, state, report, ranHere, applied>>

(* The lock is taken, and AgentExecutor's constructor reads the state.     *)
TakeLock(c) ==
  /\ Goes(c, "opened", "applying")
  /\ Acquire(c)
  /\ memory' = [memory EXCEPT ![c] = state]
  /\ UNCHANGED <<jobs, fileVars, loaded, outcome, state, report, ranHere,
                 applied>>

(* LockError: the agent exits with 1 and writes nothing.                   *)
LockError(c) ==
  /\ Goes(c, "opened", "exited")
  /\ Refuse(c)
  /\ UNCHANGED <<jobs, fileVars, agentVars, state, report, ranHere, applied>>

(* The plan is carried out and the state saved.                            *)
Apply(c) ==
  /\ Goes(c, "applying", "applied")
  /\ \E s \in {"success", "failed"} :
       outcome' = [outcome EXCEPT ![c] = [plan |-> loaded[c], status |-> s]]
  /\ state' = memory[c] \cup {loaded[c]}
  /\ applied' = applied \cup {loaded[c]}
  /\ ranHere' = [ranHere EXCEPT ![c] = (loaded[c] = c)]
  /\ UNCHANGED <<lockVars, jobs, fileVars, loaded, memory, report>>

ReleaseLock(c) ==
  /\ Goes(c, "applied", "released")
  /\ Release(c)
  /\ UNCHANGED <<jobs, fileVars, agentVars, state, report, ranHere, applied>>

UnlinkLock(c) ==
  /\ Goes(c, "released", "unlinked")
  /\ Unlink(c)
  /\ UNCHANGED <<jobs, fileVars, agentVars, state, report, ranHere, applied>>

(* Mutant: the result names the plan that the plan file holds by now.      *)
WriteResultOfFile(c) ==
  /\ Goes(c, "unlinked", "resulted")
  /\ lastResult' = [outcome[c] EXCEPT !.plan = planFile]
  /\ UNCHANGED <<lockVars, jobs, planFile, desired, agentVars, state, report,
                 ranHere, applied>>

(* The rest of the agent's apply command, outside the lock.                *)
WriteResult(c) ==
  /\ Goes(c, "unlinked", "resulted")
  /\ lastResult' = outcome[c]
  /\ UNCHANGED <<lockVars, jobs, planFile, desired, agentVars, state, report,
                 ranHere, applied>>

(* The plan file is read once more.                                        *)
WriteDesired(c) ==
  /\ Goes(c, "resulted", "exited")
  /\ desired' = planFile
  /\ UNCHANGED <<lockVars, jobs, planFile, lastResult, agentVars, state,
                 report, ranHere, applied>>

(* The agent process is killed.                                            *)
Kill(c) ==
  /\ stage[c] \notin {"idle", "uploaded", "exited"}
  /\ stage' = [stage EXCEPT ![c] = "exited"]
  /\ IF phase[c] = "out" THEN UNCHANGED lockVars ELSE Die(c)
  /\ UNCHANGED <<jobs, fileVars, agentVars, state, report, ranHere, applied>>

(* Mutant: the client waits until the result is of its own plan.           *)
DownloadOwn(c) ==
  /\ lastResult.plan = c
  /\ Goes(c, "exited", "idle")
  /\ report' = [report EXCEPT ![c] = lastResult]
  /\ loaded' = [loaded EXCEPT ![c] = None]
  /\ memory' = [memory EXCEPT ![c] = {}]
  /\ outcome' = [outcome EXCEPT ![c] = NoResult]
  /\ UNCHANGED <<lockVars, jobs, fileVars, state, ranHere, applied>>

(* Back in apply_plan: the result file is downloaded; the agent's exit     *)
(* code is not looked at.                                                  *)
Download(c) ==
  /\ Goes(c, "exited", "idle")
  /\ report' = [report EXCEPT ![c] = lastResult]
  /\ loaded' = [loaded EXCEPT ![c] = None]
  /\ memory' = [memory EXCEPT ![c] = {}]
  /\ outcome' = [outcome EXCEPT ![c] = NoResult]
  /\ UNCHANGED <<lockVars, jobs, fileVars, state, ranHere, applied>>

Advance(c) ==
  \/ Load(c)
  \/ OpenLock(c)
  \/ TakeLock(c)
  \/ LockError(c)
  \/ Apply(c)
  \/ ReleaseLock(c)
  \/ UnlinkLock(c)
  \/ WriteResult(c)
  \/ WriteDesired(c)
  \/ Download(c)

Next == \E c \in Clients : Upload(c) \/ Advance(c) \/ Kill(c)

(* A started apply goes on: what the agent executes has timeouts (agent    *)
(* executor.py:236) and the lock is never waited for.  The client's own    *)
(* SSH commands have none (ssh.py:82-85): that its download returns is an  *)
(* assumption.  Nobody has to start an apply.                              *)
Spec ==
  /\ Init
  /\ [][Next]_vars
  /\ \A c \in Clients : WF_vars(Advance(c))

-----------------------------------------------------------------------------
(* Properties.                                                             *)

TypeOK ==
  /\ LockTypeOK
  /\ stage \in [Clients -> Stages]
  /\ jobs \in 0..MaxJobs
  /\ {planFile, desired} \subseteq Plan
  /\ loaded \in [Clients -> Plan]
  /\ state \subseteq Clients
  /\ memory \in [Clients -> SUBSET Clients]
  /\ outcome \in [Clients -> Result \cup {NoResult}]
  /\ lastResult \in Result \cup {NoResult}
  /\ report \in [Clients -> Result \cup {NoResult}]
  /\ ranHere \in [Clients -> BOOLEAN]
  /\ applied \subseteq Clients

(* No apply overwrites what another has recorded in the runtime state,     *)
(* unless the lock file was unlinked under a process.                      *)
NoLostUpdateUnlessUnlinkRace == ~raced => state = applied

(* The result file only ever speaks of a plan that was carried out, and    *)
(* the desired state only of one that was uploaded, whoever was killed.    *)
ResultIsOfAnApply ==
  /\ lastResult # NoResult => lastResult.plan \in applied
  /\ desired # None => lastResult # NoResult

(* A started apply comes back to its client, held up by no other client,   *)
(* and by no lock file that a killed agent left behind, provided that the  *)
(* client's own SSH commands return.                                       *)
JobEnds == \A c \in Clients : stage[c] # "idle" ~> stage[c] = "idle"

(* An apply is refused only while another client's is under way: a lock    *)
(* file that a killed agent left behind refuses nobody.                    *)
RefusedOnlyWhileHeld ==
  [][\A c \in Clients :
       LockError(c) => \E d \in Clients \ {c} : stage[d] \in {"applying", "applied"}]_vars

(* What apply_plan returns as a success is the result of an agent that ran *)
(* this client's plan in this apply ("Upload plan to target and invoke the *)
(* agent to execute it.  Returns the agent's apply result").               *)
ReportIsOfOwnRun ==
  \A c \in Clients : report[c].status = "success" => ranHere[c]
=============================================================================
