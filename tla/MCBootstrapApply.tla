-------------------------- MODULE MCBootstrapApply --------------------------
(* Bootstrap specs and situations for TLC: login port 22, ssh port 2222 (or   *)
(* 22 again), two applies.                                                    *)
EXTENDS BootstrapApply

MCPorts == {22, 2222}

Plain ==
  [pubkeys |-> TRUE, disablePassword |-> TRUE, wireguard |-> FALSE,
   provider |-> FALSE, loginPort |-> 22, sshPort |-> 2222,
   loginByKey |-> FALSE]

(* No tunnel: with and without pubkeys, with the port kept, by key.           *)
PlainSpecs ==
  {Plain, [Plain EXCEPT !.sshPort = 22], [Plain EXCEPT !.loginByKey = TRUE],
   [Plain EXCEPT !.disablePassword = FALSE],
   [Plain EXCEPT !.pubkeys = FALSE, !.disablePassword = FALSE,
                 !.provider = TRUE]}

TunnelSpecs ==
  {[Plain EXCEPT !.wireguard = TRUE, !.provider = p] : p \in BOOLEAN}

Situation(s, udp, client, firewall, pubkeyAuth) ==
  [spec |-> s, udp |-> udp, client |-> client, firewall |-> firewall,
   pubkeyAuth |-> pubkeyAuth]

(* An image whose sshd refuses keys can only be entered with a password.      *)
MCSituations ==
  {Situation(s, TRUE, "ready", f, k) : s \in PlainSpecs, f \in BOOLEAN, k \in {TRUE}}
    \cup {Situation(Plain, TRUE, "ready", f, FALSE) : f \in BOOLEAN}
    \cup {Situation(s, u, c, FALSE, TRUE) :
            s \in TunnelSpecs, u \in BOOLEAN, c \in Clients}

MCPlans == {PlanOf(s.spec) : s \in MCSituations}

MCStepIds == UNION {{p[i].id : i \in DOMAIN p} : p \in MCPlans}

ASSUME \A s \in MCSituations : ValidSpec(s.spec)
=============================================================================
