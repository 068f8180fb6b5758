--------------------------- MODULE BootstrapPlan ---------------------------
(***************************************************************************)
(* The plan that _plan_bootstrap (client/loft_cli/compiler/planner.py)     *)
(* compiles from a bootstrap spec: which steps it has, in which order, of  *)
(* which scope, which are gates, and what they depend on.                  *)
(*                                                                         *)
(* A spec is a record of the fields that decide this:                      *)
(*   pubkeys         admin_user.pubkeys is not empty                       *)
(*   disablePassword ssh.disable_password_auth                             *)
(*   wireguard       wireguard.enabled (the keys are generated: no         *)
(*                   private_key_file)                                     *)
(*   provider        host.provider is set                                  *)
(*   loginPort       login.port                                            *)
(*   sshPort         ssh.port                                              *)
(*   loginByKey      root logs in with a key (else with a password)        *)
(* The goss generator succeeds, local.ssh_config and local.inventory are   *)
(* enabled (their default), and the lists firewall.allow_ports and checks  *)
(* are empty.                                                              *)
(***************************************************************************)
EXTENDS Steps

CONSTANT Ports      \* TCP ports sshd may listen on

BootstrapSpec ==
  [ pubkeys : BOOLEAN, disablePassword : BOOLEAN, wireguard : BOOLEAN,
    provider : BOOLEAN, loginPort : Ports, sshPort : Ports,
    loginByKey : BOOLEAN ]

(* validate_bootstrap's errors, over these fields.  Equal ports are only   *)
(* warned about.                                                           *)
ValidSpec(s) ==
  /\ s.pubkeys \/ s.provider
  /\ s.disablePassword => s.pubkeys

-----------------------------------------------------------------------------
(* _s: a step, with the ids of the steps it depends on.                    *)
Draft(id, scope, gate, needs) ==
  [id |-> id, scope |-> scope, gate |-> gate, needs |-> needs]

Remote(id)       == Draft(id, "remote", FALSE, {})
RemoteOn(id, on) == Draft(id, "remote", FALSE, {on})
Verify(id)       == Draft(id, "verify", FALSE, {})
VerifyOn(id, on) == Draft(id, "verify", FALSE, {on})
GateStep(id)     == Draft(id, "verify", TRUE, {})
LocalStep(id)    == Draft(id, "local", FALSE, {})

When(condition, steps) == IF condition THEN steps ELSE <<>>

Gate1 == "verify_admin_login_before_port_change"
Gate2 == "verify_admin_login_on_new_port"
TunnelGate == "verify_ssh_over_wireguard_tunnel"

AccessSteps ==
  << Remote("preflight_connect_root"),
     RemoteOn("detect_os", "preflight_connect_root"),
     Remote("apt_update"),
     Remote("install_base_packages"),
     Remote("create_admin_user"),
     Remote("configure_nopasswd_sudo"),
     Remote("secure_sudoers_file"),
     Remote("install_authorized_keys"),
     Remote("enable_pubkey_auth") >>

(* Mutants: no login on the new port is asked for; the new port is not     *)
(* opened.                                                                 *)
PortChangeWithoutGate2(s) ==
  When(s.pubkeys, <<GateStep(Gate1)>>)
    \o << Remote("write_sshd_config_candidate"),
          Remote("open_new_ssh_port_in_firewall"),
          Remote("validate_sshd_config"),
          Remote("reload_sshd") >>

PortChangeWithoutOpening(s) ==
  When(s.pubkeys, <<GateStep(Gate1)>>)
    \o << Remote("write_sshd_config_candidate"),
          Remote("validate_sshd_config"),
          Remote("reload_sshd"),
          GateStep(Gate2) >>

PortChangeSteps(s) ==
  When(s.pubkeys, <<GateStep(Gate1)>>)
    \o << Remote("write_sshd_config_candidate"),
          Remote("open_new_ssh_port_in_firewall"),
          Remote("validate_sshd_config"),
          Remote("reload_sshd"),
          GateStep(Gate2) >>

HardeningSteps ==
  << RemoteOn("disable_root_login", Gate2),
     RemoteOn("disable_password_auth", Gate2),
     Remote("ufw_default_deny_incoming"),
     Remote("ufw_default_allow_outgoing"),
     Remote("ufw_force_enable"),
     RemoteOn("reload_sshd_final", Gate2) >>

WireguardSteps ==
  << Remote("set_wireguard_dir_permissions"),
     Remote("write_wireguard_config"),
     Remote("open_wireguard_port_in_firewall"),
     Remote("load_wireguard_module"),
     Remote("enable_wireguard"),
     Verify("verify_wireguard") >>

GossSteps ==
  << Remote("ensure_goss_dir"),
     Remote("ship_goss_file"),
     VerifyOn("run_goss_validate", "ship_goss_file") >>

(* Mutant: the deletion does not depend on the tunnel.                     *)
RestrictionUnconditional ==
  << Remote("allow_ssh_on_wireguard"),
     LocalStep(TunnelGate),
     Remote("delete_open_ssh_rule") >>

(* The tunnel gate is LOCAL, of kind GATE, and carries gate=False.         *)
RestrictionSteps ==
  << Remote("allow_ssh_on_wireguard"),
     LocalStep(TunnelGate),
     RemoteOn("delete_open_ssh_rule", TunnelGate) >>

LocalSteps(s) ==
  << LocalStep("backup_local_ssh_config"),
     LocalStep("write_local_ssh_conf_d"),
     LocalStep("ensure_include_directive") >>
    \o When(s.wireguard, <<LocalStep("save_local_wireguard_state")>>)
    \o << LocalStep("open_or_init_local_inventory"),
          LocalStep("upsert_server_inventory"),
          LocalStep("record_run_metadata") >>

PlanBootstrap(s) ==
  AccessSteps \o PortChangeSteps(s) \o HardeningSteps
    \o When(s.wireguard, WireguardSteps)
    \o GossSteps
    \o When(s.wireguard, RestrictionSteps)
    \o LocalSteps(s)

(* plan(): the steps are numbered; depends_on holds the numbers.           *)
PlanOf(s) ==
  LET draft == PlanBootstrap(s)
      Numbers(ids) == {j \in DOMAIN draft : draft[j].id \in ids}
  IN  [i \in DOMAIN draft |->
         [id    |-> draft[i].id,   scope |-> draft[i].scope,
          gate  |-> draft[i].gate, deps  |-> Numbers(draft[i].needs)]]
=============================================================================
