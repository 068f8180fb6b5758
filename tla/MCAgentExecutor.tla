-------------------------- MODULE MCAgentExecutor --------------------------
(* AgentExecutor on small plans in two revisions: a first step, a file, a     *)
(* gate, a step for what the file configures; the tail of a bootstrap plan,   *)
(* where a remote step depends on a local one; and steps that share an id.    *)
EXTENDS AgentExecutor

MCStepIds == {"connect", "file", "check", "service", "tunnel", "cleanup",
              "upload"}

AStep(id, scope, gate, deps, always, content) ==
  [id |-> id, scope |-> scope, gate |-> gate, deps |-> deps,
   always |-> always, content |-> content]

Connect == AStep("connect", "remote", FALSE, {}, FALSE, 1)
File(on, rev) == AStep("file", "remote", FALSE, on, FALSE, rev)
Check(on) == AStep("check", "verify", TRUE, on, FALSE, 1)
Service(on, always, rev) == AStep("service", "remote", FALSE, on, always, rev)

(* A file, a gate that needs it, a service that needs both.                   *)
Guarded(rev) ==
  <<Connect, File({1}, rev), Check({2}), Service({2, 3}, FALSE, rev)>>

(* No gate; the service is started on every apply.                            *)
Always(rev) == <<File({}, rev), Service({1}, TRUE, 1)>>

(* The end of a bootstrap plan.                                               *)
Restriction ==
  <<Connect, AStep("tunnel", "local", FALSE, {}, FALSE, 1),
    AStep("cleanup", "remote", FALSE, {2}, FALSE, 1)>>

(* Two uploads whose paths make one id, and two checks of one type.           *)
Twins ==
  <<AStep("upload", "remote", FALSE, {}, FALSE, 1),
    AStep("upload", "remote", FALSE, {}, FALSE, 2), Check({}), Check({1})>>

MCPlans == {Guarded(r) : r \in 1..2} \cup {Always(r) : r \in 1..2} \cup {Restriction, Twins}

MCPolicies ==
  LET Open == [id \in MCStepIds |-> "auto_apply"]
  IN  {Open, [Open EXCEPT !["file"] = "deny"],
       [Open EXCEPT !["check"] = "require_approval"]}
=============================================================================
