--------------------------- MODULE BootstrapApply ---------------------------
(***************************************************************************)
(* `loft-cli apply` of a bootstrap spec in client mode, as often as the    *)
(* operator repeats it: cli._apply_single picks credentials and a port,    *)
(* Executor.apply (ClientExecutor) runs the plan of BootstrapPlan, and the *)
(* steps change the server's users, sshd, firewall and WireGuard and the   *)
(* client's WireGuard store.  The client may crash between two steps, and  *)
(* a step may fail, with or without its effect.                            *)
(*                                                                         *)
(* The question is whether the operator keeps a way into the server.       *)
(***************************************************************************)
EXTENDS ClientExecutor, BootstrapPlan, WireguardStore

CONSTANTS
  Situations,   \* the specs, networks, clients and images to start from
  MaxApplies,   \* bound on applies
  MaxFaults     \* bound on injected step failures

VARIABLES
  spec,      \* the bootstrap spec (BootstrapSpec)
  env,       \* udp: the network carries WireGuard's UDP;
             \* client: what the operator's machine has of sudo and wg-quick;
             \* firewall: the image's firewall is active from the start
  server,    \* the managed host
  store,     \* the client's WireGuard store for the host
  key,       \* the key pairs in this apply's NormalizedContext
  conn,      \* the user and port of this apply's transport, or NoConn
  session,   \* the transport's SSH connection is up
  verified,  \* history: this apply logged in through the tunnel
  applies,   \* how many applies were started
  faults,    \* how many step failures were injected
  faulted,   \* history: the steps they were injected into
  crashed    \* history: a client crashed

world == <<spec, env, server, store, key, conn, session, verified,
           applies, faults, faulted, crashed>>
vars == <<execVars, world>>

faultVars == <<faults, faulted>>

NoConn == [user |-> "none", port |-> 0]

Clients == {"ready", "no_wg_quick", "no_sudo"}

(* Root can log in to begin with, the way the spec says.                   *)
ASSUME SituationsAssumption ==
  \A s \in Situations :
    /\ s.spec \in BootstrapSpec
    /\ s.udp \in BOOLEAN /\ s.client \in Clients
    /\ s.firewall \in BOOLEAN /\ s.pubkeyAuth \in BOOLEAN
    /\ s.spec.loginByKey => s.pubkeyAuth

ASSUME BoundsAssumption == MaxApplies \in Nat /\ MaxFaults \in Nat

-----------------------------------------------------------------------------
(* The server.                                                             *)

(* conf is sshd_config, run what the daemon last loaded.  The firewall     *)
(* denies what is not allowed (ufw's default, and step                     *)
(* ufw_default_deny_incoming), once it is active.  The packages stand for  *)
(* ufw (an active firewall has it already) and wireguard-tools.            *)
FreshServer(s, firewall, pubkeyAuth) ==
  LET sshd == [port |-> s.loginPort, root |-> TRUE, password |-> TRUE,
               pubkey |-> pubkeyAuth]
  IN  [packages |-> FALSE,
       user |-> FALSE, sudo |-> FALSE, keys |-> FALSE,
       conf |-> sshd, run |-> sshd,
       active |-> firewall, open |-> {s.loginPort},
       wgUdp |-> FALSE, wgSsh |-> FALSE,
       wgConf |-> NoKey, wgRun |-> NoKey]

AdminAuth == server.user /\ server.keys /\ server.run.pubkey

RootAuth ==
  /\ server.run.root
  /\ IF spec.loginByKey THEN server.run.pubkey ELSE server.run.password

Passes(port) == server.active => port \in server.open

(* A TCP connection to the port reaches sshd.                              *)
TcpReachable(port) == server.run.port = port /\ Passes(port)

(* wg-quick up with a client.conf written for key k reaches sshd.          *)
TunnelReaches(k) ==
  /\ k # NoKey
  /\ server.wgRun = k
  /\ env.udp
  /\ server.active => server.wgUdp
  /\ server.wgSsh \/ Passes(server.run.port)

CanLogin(user, port) ==
  /\ TcpReachable(port)
  /\ CASE user = "root" -> RootAuth
       [] user = "admin" -> AdminAuth
       [] OTHER -> FALSE

-----------------------------------------------------------------------------
(* What the steps' commands do (runtime/steps/bootstrap.py, wireguard.py). *)

Reload(s) == [s EXCEPT !.run = s.conf]

SudoSteps ==
  {"apt_update", "install_base_packages", "create_admin_user",
   "configure_nopasswd_sudo", "secure_sudoers_file", "install_authorized_keys",
   "enable_pubkey_auth", "write_sshd_config_candidate",
   "open_new_ssh_port_in_firewall", "validate_sshd_config", "reload_sshd",
   "disable_root_login", "disable_password_auth", "ufw_default_deny_incoming",
   "ufw_default_allow_outgoing", "ufw_force_enable", "reload_sshd_final",
   "set_wireguard_dir_permissions", "write_wireguard_config",
   "open_wireguard_port_in_firewall", "load_wireguard_module",
   "enable_wireguard", "verify_wireguard", "allow_ssh_on_wireguard",
   "delete_open_ssh_rule"}

UfwSteps ==
  {"open_new_ssh_port_in_firewall", "ufw_default_deny_incoming",
   "ufw_default_allow_outgoing", "ufw_force_enable",
   "open_wireguard_port_in_firewall", "allow_ssh_on_wireguard",
   "delete_open_ssh_rule"}

WireguardToolSteps ==
  {"set_wireguard_dir_permissions", "write_wireguard_config",
   "enable_wireguard"}

(* With no pubkeys the step is an echo; so is disable_password_auth unless *)
(* asked for.                                                              *)
IsEcho(id) ==
  \/ id = "install_authorized_keys" /\ ~spec.pubkeys
  \/ id = "disable_password_auth" /\ ~(spec.disablePassword /\ spec.pubkeys)

(* The command exits with 0.  The admin account has no password, so its    *)
(* sudo needs the sudoers file.  wg-quick up refuses an interface that is  *)
(* already there.                                                          *)
Works(id) ==
  /\ id \in SudoSteps /\ ~IsEcho(id) => conn.user = "root" \/ server.sudo
  /\ id \in UfwSteps => server.packages \/ server.active
  /\ id \in WireguardToolSteps => server.packages
  /\ id = "install_authorized_keys" /\ spec.pubkeys => server.user
  /\ id = "enable_wireguard" =>
       server.wgRun = NoKey /\ server.wgConf # NoKey
  /\ id = "verify_wireguard" => server.wgRun # NoKey

Effect(id) ==
  CASE id = "install_base_packages" -> [server EXCEPT !.packages = TRUE]
    [] id = "create_admin_user" -> [server EXCEPT !.user = TRUE]
    [] id = "configure_nopasswd_sudo" -> [server EXCEPT !.sudo = TRUE]
    [] id = "install_authorized_keys" -> [server EXCEPT !.keys = spec.pubkeys]
    [] id = "enable_pubkey_auth" -> Reload([server EXCEPT !.conf.pubkey = TRUE])
    [] id = "write_sshd_config_candidate" ->
         [server EXCEPT !.conf.port = spec.sshPort]
    [] id = "open_new_ssh_port_in_firewall" ->
         [server EXCEPT !.open = @ \cup {spec.sshPort}]
    [] id \in {"reload_sshd", "reload_sshd_final"} -> Reload(server)
    [] id = "disable_root_login" -> [server EXCEPT !.conf.root = FALSE]
    [] id = "disable_password_auth" ->
         [server EXCEPT !.conf.password = @ /\ IsEcho(id)]
    [] id = "ufw_force_enable" -> [server EXCEPT !.active = TRUE]
    [] id = "write_wireguard_config" -> [server EXCEPT !.wgConf = key]
    [] id = "open_wireguard_port_in_firewall" -> [server EXCEPT !.wgUdp = TRUE]
    [] id = "enable_wireguard" -> [server EXCEPT !.wgRun = server.wgConf]
    [] id = "allow_ssh_on_wireguard" -> [server EXCEPT !.wgSsh = TRUE]
    [] id = "delete_open_ssh_rule" ->
         [server EXCEPT !.open = @ \ {spec.sshPort}]
    [] OTHER -> server

(* What a command that is cut short may leave: nothing, everything, or,    *)
(* for the one that edits and reloads, the edit alone.                     *)
Leftovers(id) ==
  {server, Effect(id)}
    \cup (IF id = "enable_pubkey_auth"
            THEN {[server EXCEPT !.conf.pubkey = TRUE]} ELSE {})

-----------------------------------------------------------------------------
InitApply ==
  /\ plan = <<>> /\ results = <<>> /\ ran = {}
  /\ dryRun = FALSE
  /\ abortedAt = 0 /\ gateSkippedAt = 0
  /\ remoteFailed = FALSE /\ localWarnings = FALSE
  /\ status = "none"
  /\ \E s \in Situations :
       /\ spec = s.spec
       /\ env = [udp |-> s.udp, client |-> s.client, firewall |-> s.firewall]
       /\ server = FreshServer(s.spec, s.firewall, s.pubkeyAuth)
  /\ store = EmptyStore
  /\ key = NoKey
  /\ conn = NoConn
  /\ session = FALSE
  /\ verified = FALSE
  /\ applies = 0 /\ faults = 0 /\ faulted = {} /\ crashed = FALSE

(* Mutant: with no port open the client goes on without one.               *)
CredentialsUnprobed ==
  IF TcpReachable(spec.loginPort)
    THEN [user |-> "root", port |-> spec.loginPort]
  ELSE IF TcpReachable(spec.sshPort)
    THEN [user |-> IF AdminAuth THEN "admin" ELSE "root", port |-> spec.sshPort]
  ELSE [user |-> "root", port |-> 0]

(* The credentials _apply_single settles on, or NoConn: login.port if it   *)
(* answers, else ssh.port, there as the admin if its key opens it.         *)
Credentials ==
  IF TcpReachable(spec.loginPort)
    THEN [user |-> "root", port |-> spec.loginPort]
  ELSE IF spec.sshPort # spec.loginPort /\ TcpReachable(spec.sshPort)
    THEN [user |-> IF spec.pubkeys /\ AdminAuth THEN "admin" ELSE "root",
          port |-> spec.sshPort]
  ELSE NoConn

(* An apply starts: the spec is normalized (and its keys saved), the plan  *)
(* compiled, the transport built.  With no port open the client exits.     *)
Start ==
  /\ status # "running"
  /\ applies < MaxApplies
  /\ applies' = applies + 1
  /\ key' = IF spec.wireguard
              THEN KeyFor(store, spec.provider, applies + 1) ELSE NoKey
  /\ store' = IF spec.wireguard THEN PersistKeys(store, key') ELSE store
  /\ conn' = Credentials
  /\ session' = FALSE
  /\ verified' = FALSE
  /\ plan' = IF conn' = NoConn THEN <<>> ELSE PlanOf(spec)
  /\ status' = IF conn' = NoConn THEN "none" ELSE "running"
  /\ results' = <<>> /\ ran' = {}
  /\ abortedAt' = 0 /\ gateSkippedAt' = 0
  /\ remoteFailed' = FALSE /\ localWarnings' = FALSE
  /\ UNCHANGED <<dryRun, spec, env, server, faultVars, crashed>>

StepId == plan[At].id

Fault ==
  /\ faults < MaxFaults
  /\ faults' = faults + 1
  /\ faulted' = faulted \cup {StepId}

(* _execute_ssh_command and _execute_ssh_upload, over a connection that is *)
(* opened when it is needed.                                               *)
Connected == session \/ CanLogin(conn.user, conn.port)

IsRemoteCommand ==
  Looping /\ plan[At].scope # "local" /\ ~plan[At].gate

RunRemote ==
  /\ IsRemoteCommand
  /\ LET works == Connected /\ Works(StepId)
     IN  \/ /\ works
            /\ ExecuteStep("success")
            /\ server' = Effect(StepId)
            /\ session' = TRUE
            /\ UNCHANGED faultVars
         \/ /\ ~works
            /\ ExecuteStep("failed")
            /\ session' = Connected
            /\ UNCHANGED <<server, faultVars>>
         \/ /\ works /\ Fault
            /\ ExecuteStep("failed")
            /\ server' \in Leftovers(StepId)
            /\ session' \in BOOLEAN
  /\ UNCHANGED <<spec, env, store, key, conn, verified, applies, crashed>>

(* _execute_gate, ssh_check: a login of its own as the admin.  On the      *)
(* fallback port, that port replaces the compiled one.                     *)
GatePort ==
  IF conn.port # spec.loginPort THEN conn.port
  ELSE IF StepId = Gate1 THEN spec.loginPort
  ELSE spec.sshPort

CheckLogin ==
  /\ Looping /\ plan[At].gate
  /\ \/ /\ CanLogin("admin", GatePort)
        /\ ExecuteStep("success")
        /\ UNCHANGED faultVars
     \/ /\ ~CanLogin("admin", GatePort)
        /\ ExecuteStep("failed")
        /\ UNCHANGED faultVars
     \/ /\ CanLogin("admin", GatePort) /\ Fault
        /\ ExecuteStep("failed")
  /\ UNCHANGED <<spec, env, server, store, key, conn, session, verified,
                 applies, crashed>>

(* _execute_gate, tunnel_ssh_gate: the WireGuard state is saved, then the  *)
(* directory is looked up by host name.  A missing client.conf, a sudo     *)
(* that cannot be run and a wg-quick that hangs are reported as success;   *)
(* a wg-quick that exits with an error and a login that fails are not.     *)
CheckTunnel ==
  /\ Looping /\ StepId = TunnelGate
  /\ store' = SaveState(store, spec.provider, key)
  /\ LET conf == FindDir(store').conf
         unavailable == conf = NoKey \/ env.client = "no_sudo"
         passes == env.client = "ready" /\ TunnelReaches(conf) /\ AdminAuth
     IN  \/ /\ unavailable
            /\ ExecuteStep("success")
            /\ UNCHANGED <<verified, faultVars>>
         \/ /\ ~unavailable /\ passes
            /\ ExecuteStep("success")
            /\ verified' = TRUE
            /\ UNCHANGED faultVars
         \/ /\ ~unavailable /\ ~passes
            /\ ExecuteStep("failed")
            /\ UNCHANGED <<verified, faultVars>>
         \/ /\ ~unavailable /\ Fault
            /\ \E outcome \in {"success", "failed"} : ExecuteStep(outcome)
            /\ UNCHANGED verified
  /\ UNCHANGED <<spec, env, server, key, conn, session, applies, crashed>>

(* The other local steps: ssh config, the store once more, the inventory.  *)
RunLocal ==
  /\ Looping /\ plan[At].scope = "local" /\ StepId # TunnelGate
  /\ \/ /\ ExecuteStep("success")
        /\ store' = IF StepId = "save_local_wireguard_state"
                      THEN SaveState(store, spec.provider, key) ELSE store
        /\ UNCHANGED faultVars
     \/ /\ Fault
        /\ ExecuteStep("failed")
        /\ UNCHANGED store
  /\ UNCHANGED <<spec, env, server, key, conn, session, verified, applies,
                 crashed>>

Skip   == SkipDependent /\ UNCHANGED world
Return == Finish /\ UNCHANGED world

(* The client process dies between two steps.                              *)
Crash ==
  /\ status = "running"
  /\ crashed' = TRUE
  /\ status' = "none"
  /\ plan' = <<>> /\ results' = <<>> /\ ran' = {}
  /\ abortedAt' = 0 /\ remoteFailed' = FALSE /\ localWarnings' = FALSE
  /\ conn' = NoConn /\ session' = FALSE /\ verified' = FALSE
  /\ UNCHANGED <<dryRun, gateSkippedAt, spec, env, server, store, key,
                 applies, faultVars>>

(* No built-in handler reports "skipped", so SkipBehindGate never applies. *)
ApplyNext ==
  \/ Start
  \/ RunRemote
  \/ CheckLogin
  \/ CheckTunnel
  \/ RunLocal
  \/ Skip
  \/ Return
  \/ Crash

ApplySpec == InitApply /\ [][ApplyNext]_vars

-----------------------------------------------------------------------------
(* Properties.                                                             *)

ApplyTypeOK ==
  /\ spec \in BootstrapSpec
  /\ env \in [udp : BOOLEAN, client : Clients, firewall : BOOLEAN]
  /\ server \in [packages : BOOLEAN,
                 user : BOOLEAN, sudo : BOOLEAN, keys : BOOLEAN,
                 conf : [port : Ports, root : BOOLEAN, password : BOOLEAN,
                         pubkey : BOOLEAN],
                 run : [port : Ports, root : BOOLEAN, password : BOOLEAN,
                        pubkey : BOOLEAN],
                 active : BOOLEAN, open : SUBSET Ports,
                 wgUdp : BOOLEAN, wgSsh : BOOLEAN,
                 wgConf : 0..MaxApplies, wgRun : 0..MaxApplies]
  /\ store \in StoreType(0..MaxApplies)
  /\ key \in 0..MaxApplies
  /\ conn \in {NoConn} \cup [user : {"root", "admin"}, port : Ports]
  /\ session \in BOOLEAN
  /\ applies \in 0..MaxApplies
  /\ faults \in 0..MaxFaults
  /\ status \in Verdicts \cup {"none", "running"}
  /\ status = "running" => conn # NoConn

(* Somebody who holds the operator's keys and files can log in, over the   *)
(* public address or through the tunnel.                                   *)
WayIn ==
  /\ AdminAuth \/ RootAuth
  /\ \/ Passes(server.run.port)
     \/ \E dir \in {"flat", "provided"} : TunnelReaches(store[dir].conf)

(* Whatever steps failed and wherever clients died: once sshd runs without *)
(* root login or passwords, it accepts the admin's key.  ("Steps that      *)
(* would lock you out of the server never execute unless the preceding     *)
(* gate passes.")                                                          *)
HardenedMeansAdminAuth ==
  ~server.run.root \/ ~server.run.password => AdminAuth

(* An apply that reports success, with or without local warnings, leaves   *)
(* an active firewall and an admin whose key and sudo work, and, if it     *)
(* tried the tunnel, a way in; earlier applies may have failed or died     *)
(* anywhere.                                                               *)
SuccessMeansControl ==
  status \in {"success", "success_with_local_warnings"} =>
    /\ server.active /\ server.sudo /\ AdminAuth
    /\ verified => WayIn

(* The steps that keep a way open and are no gates: when one of the first  *)
(* two fails the apply goes on to close the other way, and the last one    *)
(* reports success when it could not be carried out.                       *)
KeepersOfAccess ==
  {"open_new_ssh_port_in_firewall", "allow_ssh_on_wireguard", TunnelGate}

(* Whichever command fails, with, without or with half of its effect,      *)
(* unless it is one of these three, and wherever a client dies: on a       *)
(* client that can run wg-quick and with the host's state in the flat      *)
(* directory, there is a way in at every moment.  A server whose firewall  *)
(* was active before is excepted once a client has died on it (see         *)
(* GateFailureKeepsAccess).                                                *)
NeverLockedOut ==
  /\ faulted \cap KeepersOfAccess = {}
  /\ env.client # "no_sudo"
  /\ ~(spec.provider /\ spec.wireguard)
  /\ ~(crashed /\ env.firewall)
  => WayIn

(* The keys the server's interface came up with are the ones saved in the  *)
(* flat directory: an aborted apply never strands a running tunnel ("the   *)
(* server and client identities survive even if the subsequent apply is    *)
(* aborted before save_wireguard_state is reached").                       *)
RunningTunnelHasSavedKeys ==
  server.wgRun # NoKey /\ ~spec.provider => server.wgRun = store.flat.key

(* The open-to-all rule is deleted only in an apply that logged in through *)
(* the tunnel ("Only if this succeeds is the open SSH rule deleted").      *)
Reported(id, outcome) ==
  \E i \in DOMAIN results : plan[i].id = id /\ results[i] = outcome

OpenRuleDeletedOnlyVerified ==
  Reported("delete_open_ssh_rule", "success") => verified

(* The same, on a client where the tunnel can be tried, whatever else      *)
(* failed: the gate is not cut short, sudo runs, and the lookup by name    *)
(* finds what was just saved.                                              *)
VerifiedWhereTunnelCanBeTried ==
  TunnelGate \notin faulted /\ env.client # "no_sudo" /\ ~spec.provider =>
    OpenRuleDeletedOnlyVerified

(* When one of the two login gates fails the operator keeps root access    *)
(* ("If the gate fails, steps 11 and 12 are skipped.  You keep root access *)
(* and the server remains reachable").                                     *)
GateFailureKeepsAccess ==
  Reported(Gate1, "failed") \/ Reported(Gate2, "failed") => WayIn
=============================================================================
