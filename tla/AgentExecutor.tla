--------------------------- MODULE AgentExecutor ---------------------------
(***************************************************************************)
(* AgentExecutor (agent/loft_cli_agent/executor.py) on a managed server,   *)
(* one apply after another under the mutation lock: which steps run, which *)
(* are skipped as unchanged, what the runtime state remembers of them, and *)
(* what `loft-cli-agent doctor` makes of it.  The agent may be killed at   *)
(* any moment; the state is read when it starts and written when it ends.  *)
(*                                                                         *)
(* A step's command, file content and target path, which the code hashes   *)
(* together with its id, are a number: the revision they come from.        *)
(***************************************************************************)
EXTENDS Steps

CONSTANTS
  Plans,       \* the plans that clients send
  Policies,    \* what policy.yaml may say: [StepIds -> Decisions]
  MaxApplies   \* bound on applies

Decisions == {"auto_apply", "deny", "require_approval"}

AgentStep == [ id : StepIds, scope : Scopes, gate : BOOLEAN,
               deps : SUBSET (Nat \ {0}), always : BOOLEAN, content : Nat ]

ASSUME AgentPlansAssumption ==
  /\ Plans \subseteq Seq(AgentStep)
  /\ Policies \subseteq [StepIds -> Decisions]
  /\ MaxApplies \in Nat

VARIABLES
  plan,        \* the plan being applied
  policy,      \* self._policy
  resources,   \* self._state.resources, in memory
  disk,        \* resources of runtime-state.json
  results,     \* step_results: the status of each position handled
  abortedAt,   \* aborted_at; 0 is None
  status,      \* "idle", "running", then AgentApplyResult.status
  host,        \* what each step's last execution left on the server
  executed,    \* history: the <<id, content>> that were executed
  succeeded,   \* history: those that were executed with success
  everFailed,  \* history: some execution failed
  rolledBack,  \* history: a plan asked for less than had been executed
  applies      \* how many applies were started

vars == <<plan, policy, resources, disk, results, abortedAt, status, host,
          executed, succeeded, everFailed, rolledBack, applies>>

-----------------------------------------------------------------------------
(* The runtime state maps ids to what was recorded of them.                *)

NoResource == [content |-> 0, status |-> "absent"]

Resource == [content : Nat, status : {"applied", "failed"}] \cup {NoResource}

NoResources == [id \in StepIds |-> NoResource]

Known(rs, id) == rs[id] # NoResource

(* Mutant: content is not compared.                                        *)
ResourceUnknown(rs, step) == ~Known(rs, step.id)

(* resource_changed: the recorded status plays no part.                    *)
ResourceChanged(rs, step) ==
  ~Known(rs, step.id) \/ rs[step.id].content # step.content

(* Mutants: the outcome is stored as it is; everything is "applied"; the   *)
(* first record stays.                                                     *)
UpdateWithOutcome(rs, step, outcome) ==
  [rs EXCEPT ![step.id] = [content |-> step.content, status |-> outcome]]

UpdateAlwaysApplied(rs, step, outcome) ==
  [rs EXCEPT ![step.id] = [content |-> step.content, status |-> "applied"]]

UpdateOnce(rs, step, outcome) ==
  IF Known(rs, step.id) THEN rs
  ELSE [rs EXCEPT ![step.id] =
          [content |-> step.content,
           status  |-> IF outcome = "success" THEN "applied" ELSE "failed"]]

UpdateResource(rs, step, outcome) ==
  [rs EXCEPT ![step.id] =
     [content |-> step.content,
      status  |-> IF outcome = "success" THEN "applied" ELSE "failed"]]

(* Steps that are never skipped as unchanged.                              *)
IsAlways(step) == step.always \/ step.gate \/ step.scope = "verify"

(* The steps of a plan that the agent runs: local ones are the client's.   *)
OnServer(p) == {i \in DOMAIN p : p[i].scope # "local"}

-----------------------------------------------------------------------------
Init ==
  /\ plan = <<>>
  /\ policy \in Policies
  /\ resources = NoResources
  /\ disk = NoResources
  /\ results = <<>>
  /\ abortedAt = 0
  /\ status = "idle"
  /\ host = [id \in StepIds |-> 0]
  /\ executed = {}
  /\ succeeded = {}
  /\ everFailed = FALSE
  /\ rolledBack = FALSE
  /\ applies = 0

(* The constructor and the start of apply.                                 *)
Start(p, rules) ==
  /\ status # "running"
  /\ applies < MaxApplies
  /\ applies' = applies + 1
  /\ plan' = p
  /\ policy' = rules
  /\ resources' = disk
  /\ results' = <<>>
  /\ abortedAt' = 0
  /\ status' = "running"
  /\ rolledBack' = (rolledBack \/
       \E i \in OnServer(p), e \in executed :
          e[1] = p[i].id /\ e[2] > p[i].content)
  /\ UNCHANGED <<disk, host, executed, succeeded, everFailed>>

(* The loop over the server's steps.                                       *)
Todo == OnServer(plan) \ DOMAIN results

At == CHOOSE i \in Todo : \A j \in Todo : i <= j

Looping == status = "running" /\ abortedAt = 0 /\ Todo # {}

Record(outcome) ==
  results' = [i \in DOMAIN results \cup {At} |->
                IF i = At THEN outcome ELSE results[i]]

(* Mutant: the runtime state is asked instead of this apply's results.     *)
HasFailedRecord(i) ==
  \E d \in plan[i].deps \cap DOMAIN results :
    resources[plan[d].id].status = "failed"

HasFailedDependency(i) ==
  \E d \in plan[i].deps : d \in DOMAIN results /\ results[d] = "failed"

(* What every branch that executes nothing leaves alone.                   *)
KeepsHost == UNCHANGED <<plan, policy, resources, disk, status, host, executed,
                         succeeded, everFailed, rolledBack, applies>>

SkipDependent ==
  /\ Looping
  /\ HasFailedDependency(At)
  /\ Record("skipped")
  /\ abortedAt' = IF plan[At].gate THEN At ELSE 0
  /\ KeepsHost

SkipUnchanged ==
  /\ Looping
  /\ ~HasFailedDependency(At)
  /\ ~IsAlways(plan[At])
  /\ ~ResourceChanged(resources, plan[At])
  /\ Record("unchanged")
  /\ UNCHANGED abortedAt
  /\ KeepsHost

Due ==
  /\ Looping
  /\ ~HasFailedDependency(At)
  /\ IsAlways(plan[At]) \/ ResourceChanged(resources, plan[At])

(* Mutant: a refused gate does not abort.                                  *)
RefuseAndGoOn ==
  /\ Due
  /\ policy[plan[At].id] # "auto_apply"
  /\ Record("failed")
  /\ UNCHANGED abortedAt
  /\ KeepsHost

(* Denied, or in want of an approval token: loft-cli-agent apply builds    *)
(* the executor without tokens.                                            *)
RefuseByPolicy ==
  /\ Due
  /\ policy[plan[At].id] # "auto_apply"
  /\ Record("failed")
  /\ abortedAt' = IF plan[At].gate THEN At ELSE 0
  /\ KeepsHost

(* _execute_step.  A command that fails may have had its effect.           *)
Execute(outcome) ==
  /\ Due
  /\ policy[plan[At].id] = "auto_apply"
  /\ Record(outcome)
  /\ resources' = UpdateResource(resources, plan[At], outcome)
  /\ abortedAt' = IF outcome = "failed" /\ (At = 1 \/ plan[At].gate)
                    THEN At ELSE 0
  /\ LET done == [host EXCEPT ![plan[At].id] = plan[At].content]
         this == {<<plan[At].id, plan[At].content>>}
     IN  /\ IF outcome = "success" THEN host' = done ELSE host' \in {host, done}
         /\ executed' = executed \cup this
         /\ succeeded' = IF outcome = "success" THEN succeeded \cup this
                                                ELSE succeeded
  /\ everFailed' = (everFailed \/ outcome = "failed")
  /\ UNCHANGED <<plan, policy, disk, status, rolledBack, applies>>

FailedAt == {i \in DOMAIN results : results[i] = "failed"}

(* After the loop: save_state, by a rename, and the verdict.               *)
Finish ==
  /\ status = "running"
  /\ ~Looping
  /\ disk' = resources
  /\ status' = IF abortedAt # 0 \/ FailedAt # {} THEN "failed" ELSE "success"
  /\ UNCHANGED <<plan, policy, resources, results, abortedAt, host, executed,
                 succeeded, everFailed, rolledBack, applies>>

(* The agent is killed, or the server restarts, in the middle of an apply. *)
Crash ==
  /\ status = "running"
  /\ status' = "idle"
  /\ plan' = <<>>
  /\ results' = <<>>
  /\ abortedAt' = 0
  /\ resources' = disk
  /\ UNCHANGED <<policy, disk, host, executed, succeeded, everFailed,
                 rolledBack, applies>>

Next ==
  \/ \E p \in Plans, rules \in Policies : Start(p, rules)
  \/ SkipDependent
  \/ SkipUnchanged
  \/ RefuseByPolicy
  \/ \E outcome \in {"success", "failed"} : Execute(outcome)
  \/ Finish
  \/ Crash

Spec == Init /\ [][Next]_vars

-----------------------------------------------------------------------------
(* loft-cli-agent doctor: the desired plan against the runtime state.      *)

Tracked(p) == {i \in OnServer(p) : ~IsAlways(p[i])}

Missing(p, rs) == {p[i].id : i \in {k \in Tracked(p) : ~Known(rs, p[k].id)}}

Drifted(p, rs) ==
  {p[i].id : i \in {k \in Tracked(p) : Known(rs, p[k].id)
                                       /\ rs[p[k].id].content # p[k].content}}

Orphaned(p, rs) ==
  {id \in StepIds : Known(rs, id)} \ {p[i].id : i \in OnServer(p)}

-----------------------------------------------------------------------------
(* Properties.                                                             *)

Outcomes == {"success", "failed", "skipped", "unchanged"}

TypeOK ==
  /\ plan \in Seq(AgentStep)
  /\ policy \in [StepIds -> Decisions]
  /\ resources \in [StepIds -> Resource]
  /\ disk \in [StepIds -> Resource]
  /\ DOMAIN results \subseteq OnServer(plan)
  /\ \A i \in DOMAIN results : results[i] \in Outcomes
  /\ abortedAt \in {0} \cup DOMAIN results
  /\ status \in {"idle", "running", "success", "failed"}
  /\ host \in [StepIds -> Nat]
  /\ executed \subseteq StepIds \X Nat
  /\ succeeded \subseteq executed
  /\ everFailed \in BOOLEAN
  /\ rolledBack \in BOOLEAN
  /\ applies \in 0..MaxApplies

(* What the runtime state says of a step is true, in memory and on disk,   *)
(* whatever was refused by policy, skipped or killed on the way: the       *)
(* recorded content was executed, and with success if it is "applied".     *)
RecordsAreTrue ==
  \A rs \in {resources, disk}, id \in StepIds :
    Known(rs, id) =>
      /\ <<id, rs[id].content>> \in executed
      /\ rs[id].status = "applied" => <<id, rs[id].content>> \in succeeded

(* A gate or first step that fails, by its command or by policy, or a gate *)
(* whose dependency failed, is the last step of the apply; a step behind   *)
(* it is not even skipped.  Only a refusal of the first step by policy     *)
(* lets the plan go on.                                                    *)
NothingBehindGate ==
  \A i, j \in DOMAIN results :
    plan[i].gate /\ results[i] \in {"failed", "skipped"} => j <= i

(* The agent runs no step whose dependency on the server failed in the     *)
(* same apply, and none of them counts as unchanged.                       *)
DependentsAreSkipped ==
  \A i \in DOMAIN results, d \in DOMAIN results :
    d \in plan[i].deps /\ d < i /\ results[d] = "failed" =>
      results[i] = "skipped"

(* Ids need not be unique in a plan: two checks of one type share an id,   *)
(* and so do uploads to /etc/a/b and /etc/a_b.  The runtime state has one  *)
(* entry for all of them.                                                  *)
Alone(p, i) == \A j \in OnServer(p) : p[j].id = p[i].id => j = i

(* Rolling forward converges: if no command failed so far and no plan went *)
(* back to an older revision, an apply that reports success leaves the     *)
(* content of every step with an id of its own on the server, also after   *)
(* applies that were killed half-way or stopped by policy.                 *)
SuccessConverges ==
  status = "success" /\ ~everFailed /\ ~rolledBack =>
    \A i \in OnServer(plan) :
      Alone(plan, i) => host[plan[i].id] = plan[i].content

(* What apply calls done, doctor calls done: after an apply that reports   *)
(* success no step of that plan is missing, and none with an id of its own *)
(* is drifted ("Apply is idempotent"), whatever came before.               *)
DoctorAgrees ==
  status = "success" =>
    /\ Missing(plan, disk) = {}
    /\ \A i \in Tracked(plan) :
         Alone(plan, i) => plan[i].id \notin Drifted(plan, disk)

(* A step that was never applied is not skipped as unchanged               *)
(* (resource_changed: "Return True if the resource has changed or was      *)
(* never applied").                                                        *)
UnchangedWasApplied ==
  \A i \in DOMAIN results :
    results[i] = "unchanged" => <<plan[i].id, plan[i].content>> \in succeeded

(* A step runs only when the steps it depends on have succeeded            *)
(* ("depends_on: List of step indices that must succeed before this step   *)
(* runs").                                                                 *)
DependenciesSucceeded ==
  \A i \in DOMAIN results : results[i] = "success" =>
    \A d \in plan[i].deps :
      d \in DOMAIN results /\ results[d] \in {"success", "unchanged"}
=============================================================================
