--------------------------- MODULE ApplyContract ---------------------------
(***************************************************************************)
(* What an apply promises the operator, whichever executor carries it out: *)
(* steps are performed in plan order, never after a failed stopper (the    *)
(* preflight step or a gate that is not local), never when a step they     *)
(* depend on has failed, and the verdict reported at the end tells the     *)
(* truth about what failed.  ClientExecutor implements this specification; *)
(* the skipping of steps, which has no effect on a host, is invisible.     *)
(***************************************************************************)
EXTENDS Steps

CONSTANT Plans      \* the plans that may be applied

VARIABLES
  plan,     \* the plan being applied
  done,     \* positions performed with success
  bad,      \* positions performed and failed
  verdict   \* "running", then the reported status

vars == <<plan, done, bad, verdict>>

(* Failures after which nothing more may be performed.                     *)
Stopper(i) == i = 1 \/ (plan[i].gate /\ plan[i].scope # "local")

Init ==
  /\ plan \in Plans
  /\ done = {}
  /\ bad = {}
  /\ verdict = "running"

MayPerform(i) ==
  /\ verdict = "running"
  /\ \A j \in done \cup bad : j < i
  /\ \A j \in bad : ~Stopper(j)
  /\ plan[i].deps \cap bad = {}

Perform(i) ==
  /\ MayPerform(i)
  /\ \/ done' = done \cup {i} /\ bad' = bad
     \/ bad' = bad \cup {i} /\ done' = done
  /\ UNCHANGED <<plan, verdict>>

(* The verdicts that are truthful about the failures so far.  A gate that  *)
(* could not run because its dependency failed makes the apply "failed"    *)
(* even when that dependency is local.                                     *)
Truthful(v) ==
  CASE v = "success" -> bad = {}
    [] v = "success_with_local_warnings" ->
         bad # {} /\ \A j \in bad : plan[j].scope = "local" /\ j # 1
    [] v = "failed" -> bad # {}
    [] OTHER -> FALSE

Report(v) ==
  /\ verdict = "running"
  /\ Truthful(v)
  /\ verdict' = v
  /\ UNCHANGED <<plan, done, bad>>

Next ==
  \/ \E i \in 1..Len(plan) : Perform(i)
  \/ \E v \in {"success", "success_with_local_warnings", "failed"} : Report(v)

Spec == Init /\ [][Next]_vars
=============================================================================
