--------------------------- MODULE ClientExecutor ---------------------------
(***************************************************************************)
(* Executor.apply (client/loft_cli/runtime/executor.py): one pass over the *)
(* plan, over SSH and on the local machine.  One action is one iteration   *)
(* of the loop; Finish is the code after it.                               *)
(*                                                                         *)
(* What a handler does to the world is not modelled here (BootstrapApply   *)
(* adds it); it ends in one of three outcomes.  A built-in handler succeeds *)
(* or fails (a raised exception and an unknown kind are failures), and one  *)
(* that an addon registered may also report "skipped".                     *)
(*                                                                         *)
(* The loop's branch for steps behind an abort is not an action: every     *)
(* assignment to aborted_at is followed by a break, so no iteration finds  *)
(* it set.                                                                 *)
(***************************************************************************)
EXTENDS Steps

CONSTANT Plans      \* the plans that may be applied

ASSUME PlansAssumption == Plans \subseteq Seq(Step)

Outcomes == {"success", "failed", "skipped"}
Verdicts == {"success", "success_with_local_warnings", "failed"}

VARIABLES
  plan,           \* self._plan.steps
  dryRun,         \* the dry_run argument
  results,        \* step_results, in order: one status per iteration
  ran,            \* history: positions whose handler was called
  abortedAt,      \* aborted_at, as a position; 0 is None
  gateSkippedAt,  \* gate_skipped_at, as a position; 0 is None
  remoteFailed,   \* remote_failed
  localWarnings,  \* local_warnings
  status          \* "running" in the loop, then ApplyResult.status

execVars == <<plan, dryRun, results, ran, abortedAt, gateSkippedAt,
              remoteFailed, localWarnings, status>>

-----------------------------------------------------------------------------
(* The loop's position and its tests.                                      *)

At == Len(results) + 1

Looping ==
  /\ status = "running"
  /\ abortedAt = 0
  /\ At <= Len(plan)

(* Mutant: only the step before is looked at.                              *)
HasFailedNeighbour(i) ==
  \E d \in plan[i].deps : d = i - 1 /\ results[d] = "failed"

(* next((r for r in results if r.step_index == dep_idx), None): a          *)
(* dependency that was skipped, or has no result, does not count.          *)
HasFailedDependency(i) ==
  \E d \in plan[i].deps : d \in DOMAIN results /\ results[d] = "failed"

(* Mutant: the preflight step is not critical.                             *)
FatalGateOnly(i) == plan[i].gate /\ plan[i].scope # "local"

(* A failure that ends the loop: the preflight step, or a gate that is not *)
(* local.  A local gate only warns.                                        *)
Fatal(i) == i = 1 \/ (plan[i].gate /\ plan[i].scope # "local")

-----------------------------------------------------------------------------
(* The start of apply with plan p: the assignments before the loop.        *)
Begin(p, dry) ==
  /\ plan = p
  /\ dryRun = dry
  /\ results = <<>>
  /\ ran = {}
  /\ abortedAt = 0
  /\ gateSkippedAt = 0
  /\ remoteFailed = FALSE
  /\ localWarnings = FALSE
  /\ status = "running"

Init == \E p \in Plans, dry \in BOOLEAN : Begin(p, dry)

(* Mutant: aborted_at is off by one.                                       *)
SkipDependentOffByOne ==
  /\ Looping
  /\ HasFailedDependency(At)
  /\ results' = Append(results, "skipped")
  /\ abortedAt' = IF plan[At].gate THEN At + 1 ELSE 0
  /\ UNCHANGED <<plan, dryRun, ran, gateSkippedAt, remoteFailed,
                 localWarnings, status>>

(* A step whose dependency failed is skipped; if it is a gate, of any      *)
(* scope, the plan is aborted.                                             *)
SkipDependent ==
  /\ Looping
  /\ HasFailedDependency(At)
  /\ results' = Append(results, "skipped")
  /\ abortedAt' = IF plan[At].gate THEN At ELSE 0
  /\ UNCHANGED <<plan, dryRun, ran, gateSkippedAt, remoteFailed,
                 localWarnings, status>>

(* Behind a skipped gate every step is skipped, without failing the plan.  *)
SkipBehindGate ==
  /\ Looping
  /\ ~HasFailedDependency(At)
  /\ gateSkippedAt # 0
  /\ results' = Append(results, "skipped")
  /\ UNCHANGED <<plan, dryRun, ran, abortedAt, gateSkippedAt, remoteFailed,
                 localWarnings, status>>

(* Mutant: gate_skipped_at is never consulted.                             *)
MayExecuteBehindGate == Looping /\ ~HasFailedDependency(At)

MayExecute ==
  /\ Looping
  /\ ~HasFailedDependency(At)
  /\ gateSkippedAt = 0

(* Mutant: gate_skipped_at is set by every skipped step.                   *)
ExecuteStepEverySkipGates(outcome) ==
  /\ MayExecute
  /\ dryRun => outcome = "success"
  /\ results' = Append(results, outcome)
  /\ ran' = IF dryRun THEN ran ELSE ran \cup {At}
  /\ gateSkippedAt' = IF outcome = "skipped" THEN At ELSE gateSkippedAt
  /\ abortedAt' = IF outcome = "failed" /\ Fatal(At) THEN At ELSE abortedAt
  /\ localWarnings' =
       (localWarnings \/ (outcome = "failed" /\ ~Fatal(At)
                                             /\ plan[At].scope = "local"))
  /\ remoteFailed' =
       (remoteFailed \/ (outcome = "failed" /\ ~Fatal(At)
                                            /\ plan[At].scope # "local"))
  /\ UNCHANGED <<plan, dryRun, status>>

(* _execute_step and the handling of its result.                           *)
ExecuteStep(outcome) ==
  /\ MayExecute
  /\ dryRun => outcome = "success"
  /\ results' = Append(results, outcome)
  /\ ran' = IF dryRun THEN ran ELSE ran \cup {At}
  /\ gateSkippedAt' =
       IF outcome = "skipped" /\ plan[At].gate THEN At ELSE gateSkippedAt
  /\ abortedAt' = IF outcome = "failed" /\ Fatal(At) THEN At ELSE abortedAt
  /\ localWarnings' =
       (localWarnings \/ (outcome = "failed" /\ ~Fatal(At)
                                             /\ plan[At].scope = "local"))
  /\ remoteFailed' =
       (remoteFailed \/ (outcome = "failed" /\ ~Fatal(At)
                                            /\ plan[At].scope # "local"))
  /\ UNCHANGED <<plan, dryRun, status>>

(* Mutants: local warnings are tested before failures; a remote failure    *)
(* counts as a warning.                                                    *)
FinalStatusLocalFirst ==
  IF localWarnings THEN "success_with_local_warnings"
  ELSE IF abortedAt # 0 \/ remoteFailed THEN "failed"
  ELSE "success"

FinalStatusLenient ==
  IF abortedAt # 0 THEN "failed"
  ELSE IF remoteFailed \/ localWarnings THEN "success_with_local_warnings"
  ELSE "success"

FinalStatus ==
  IF abortedAt # 0 \/ remoteFailed THEN "failed"
  ELSE IF localWarnings THEN "success_with_local_warnings"
  ELSE "success"

Finish ==
  /\ status = "running"
  /\ ~Looping
  /\ status' = FinalStatus
  /\ UNCHANGED <<plan, dryRun, results, ran, abortedAt, gateSkippedAt,
                 remoteFailed, localWarnings>>

Next ==
  \/ SkipDependent
  \/ SkipBehindGate
  \/ \E outcome \in Outcomes : ExecuteStep(outcome)
  \/ Finish

Spec == Init /\ [][Next]_execVars

-----------------------------------------------------------------------------
(* Properties.                                                             *)

TypeOK ==
  /\ plan \in Seq(Step)
  /\ dryRun \in BOOLEAN
  /\ results \in Seq(Outcomes)
  /\ Len(results) <= Len(plan)
  /\ ran \subseteq DOMAIN results
  /\ abortedAt \in {0} \cup DOMAIN results
  /\ gateSkippedAt \in {0} \cup DOMAIN results
  /\ remoteFailed \in BOOLEAN
  /\ localWarnings \in BOOLEAN
  /\ status \in Verdicts \cup {"running"}

(* No handler is called for a step one of whose dependencies, standing     *)
(* before it, failed ("steps in depends_on that failed cause the dependent *)
(* step to be skipped").                                                   *)
NoDependentOfFailureRan ==
  \A i \in ran : \A d \in plan[i].deps : d < i => results[d] # "failed"

(* Once a gate has failed on the server side, been skipped, or been cut    *)
(* off from its dependency, or the preflight has failed, no later step's   *)
(* handler is called: a follow-on step cannot take the way back.           *)
Stops(i) ==
  \/ results[i] = "failed" /\ Fatal(i)
  \/ results[i] = "skipped" /\ plan[i].gate

NothingRanBehindStop ==
  \A i \in DOMAIN results : Stops(i) => \A j \in ran : j <= i

(* The reported status tells what happened: "success" hides no failure,    *)
(* "success_with_local_warnings" is a local failure and nothing worse, and *)
(* "failed" is never reported without a failed step.                       *)
FailedAt == {i \in DOMAIN results : results[i] = "failed"}

VerdictIsTruthful ==
  /\ status = "success" => FailedAt = {}
  /\ status = "success_with_local_warnings" =>
       /\ FailedAt # {}
       /\ \A i \in FailedAt : plan[i].scope = "local" /\ i # 1
  /\ status = "failed" => FailedAt # {}

(* A reported success, with local warnings or without, covers the plan: a  *)
(* step is not left out but behind an earlier gate whose handler said      *)
(* "skipped", or, if the step is no gate itself, because a local step it   *)
(* depends on failed.  An addon's skipped step that is no gate holds       *)
(* nothing back, neither what follows it nor what depends on it.           *)
BehindSkippedGate(i) ==
  \E g \in ran : g < i /\ plan[g].gate /\ results[g] = "skipped"

BehindLocalFailure(i) ==
  /\ ~plan[i].gate
  /\ \E d \in plan[i].deps :
       d < i /\ results[d] = "failed" /\ plan[d].scope = "local"

SuccessCoversPlan ==
  status \in {"success", "success_with_local_warnings"} /\ ~dryRun =>
    \A i \in DOMAIN plan :
      i \in ran \/ BehindSkippedGate(i) \/ BehindLocalFailure(i)

(* The executor implements the contract.                                   *)
Contract == INSTANCE ApplyContract WITH
  done    <- {i \in ran : results[i] = "success"},
  bad     <- {i \in ran : results[i] = "failed"},
  verdict <- status

ImplementsContract == Contract!Spec
=============================================================================
