------------------------ MODULE BootstrapApplyProofs ------------------------
(***************************************************************************)
(* Applies of a bootstrap spec, for every spec, network, client and image, *)
(* any number of applies and failures, and crashes anywhere: what is true  *)
(* of the server whatever went wrong.                                      *)
(***************************************************************************)
EXTENDS BootstrapApply, BootstrapPlanProofs

ServerType ==
  LET Sshd == [port : Ports, root : BOOLEAN, password : BOOLEAN, pubkey : BOOLEAN]
  IN  [packages : BOOLEAN, user : BOOLEAN, sudo : BOOLEAN, keys : BOOLEAN,
       conf : Sshd, run : Sshd, active : BOOLEAN, open : SUBSET Ports,
       wgUdp : BOOLEAN, wgSsh : BOOLEAN,
       wgConf : 0..MaxApplies, wgRun : 0..MaxApplies]

(* What can happen to the server: one command, that could be run, has its  *)
(* effect or a part of it.                                                 *)
Effected ==
  /\ IsRemoteCommand /\ ~HasFailedDependency(At)
  /\ Connected /\ Works(StepId)
  /\ server' \in Leftovers(StepId)

(* Only a command that could be run changes the server.                    *)
LEMMA ServerSteps ==
  ASSUME [ApplyNext]_vars
  PROVE  server' = server \/ Effected
  <1>1. CASE RunRemote
    BY <1>1 DEF RunRemote, Effected, ExecuteStep, MayExecute, Leftovers
  <1>2. CASE ~RunRemote
    BY <1>2 DEF ApplyNext, Start, CheckLogin, CheckTunnel, RunLocal, Skip, Return,
                Crash, vars, world
  <1> QED
    BY <1>1, <1>2

(* The spec, the surroundings and the mode of an apply never change.       *)
LEMMA KeptAlways ==
  ASSUME [ApplyNext]_vars
  PROVE  spec' = spec /\ env' = env /\ dryRun' = dryRun
  BY DEF ApplyNext, Start, RunRemote, CheckLogin, CheckTunnel, RunLocal, Skip, Return,
         Crash, vars, world, execVars, ExecuteStep, SkipDependent, Finish

-----------------------------------------------------------------------------
(* Types.                                                                  *)

(* The commands that change the server.                                    *)
ChangingIds ==
  {"install_base_packages", "create_admin_user", "configure_nopasswd_sudo",
   "install_authorized_keys", "enable_pubkey_auth", "write_sshd_config_candidate",
   "open_new_ssh_port_in_firewall", "reload_sshd", "reload_sshd_final",
   "disable_root_login", "disable_password_auth", "ufw_force_enable",
   "write_wireguard_config", "open_wireguard_port_in_firewall",
   "enable_wireguard", "allow_ssh_on_wireguard", "delete_open_ssh_rule"}

(* The other commands change nothing.                                      *)
LEMMA OtherEffect ==
  ASSUME NEW id, id \notin ChangingIds
  PROVE  Effect(id) = server
  BY DEF Effect, ChangingIds

(* The effect of a command is a server.                                    *)
LEMMA EffectType ==
  ASSUME server \in ServerType, spec \in BootstrapSpec, key \in 0..MaxApplies, NEW id
  PROVE  Effect(id) \in ServerType
  <1>1. CASE id = "install_base_packages"
    BY <1>1 DEF Effect, ServerType
  <1>2. CASE id = "create_admin_user"
    BY <1>2 DEF Effect, ServerType
  <1>3. CASE id = "configure_nopasswd_sudo"
    BY <1>3 DEF Effect, ServerType
  <1>4. CASE id = "install_authorized_keys"
    BY <1>4 DEF Effect, ServerType, BootstrapSpec
  <1>5. CASE id = "enable_pubkey_auth"
    BY <1>5 DEF Effect, ServerType, Reload
  <1>6. CASE id = "write_sshd_config_candidate"
    BY <1>6 DEF Effect, ServerType, BootstrapSpec
  <1>7. CASE id = "open_new_ssh_port_in_firewall"
    BY <1>7 DEF Effect, ServerType, BootstrapSpec
  <1>8. CASE id \in {"reload_sshd", "reload_sshd_final"}
    BY <1>8 DEF Effect, ServerType, Reload
  <1>9. CASE id = "disable_root_login"
    BY <1>9 DEF Effect, ServerType
  <1>10. CASE id = "disable_password_auth"
    BY <1>10 DEF Effect, ServerType
  <1>11. CASE id = "ufw_force_enable"
    BY <1>11 DEF Effect, ServerType
  <1>12. CASE id = "write_wireguard_config"
    BY <1>12 DEF Effect, ServerType
  <1>13. CASE id = "open_wireguard_port_in_firewall"
    BY <1>13 DEF Effect, ServerType
  <1>14. CASE id = "enable_wireguard"
    BY <1>14 DEF Effect, ServerType
  <1>15. CASE id = "allow_ssh_on_wireguard"
    BY <1>15 DEF Effect, ServerType
  <1>16. CASE id = "delete_open_ssh_rule"
    BY <1>16 DEF Effect, ServerType, BootstrapSpec
  <1>17. CASE id \notin ChangingIds
    BY <1>17, OtherEffect
  <1> QED
    BY <1>1, <1>2, <1>3, <1>4, <1>5, <1>6, <1>7, <1>8, <1>9, <1>10, <1>11, <1>12, <1>13, <1>14,
       <1>15, <1>16, <1>17 DEF ChangingIds

(* What a command changes, field by field.                                 *)
LEMMA EffectFields ==
  ASSUME server \in ServerType, spec \in BootstrapSpec, key \in 0..MaxApplies, NEW id
  PROVE  LET t == Effect(id)
         IN  /\ t.packages <=> server.packages \/ id = "install_base_packages"
             /\ t.user <=> server.user \/ id = "create_admin_user"
             /\ t.sudo <=> server.sudo \/ id = "configure_nopasswd_sudo"
             /\ id = "install_authorized_keys" => (t.keys <=> spec.pubkeys)
             /\ id # "install_authorized_keys" => (t.keys <=> server.keys)
             /\ t.conf.port = IF id = "write_sshd_config_candidate" THEN spec.sshPort
                              ELSE server.conf.port
             /\ t.conf.root <=> server.conf.root /\ id # "disable_root_login"
             /\ t.conf.password <=>
                  server.conf.password /\ (id = "disable_password_auth" => IsEcho(id))
             /\ t.conf.pubkey <=> server.conf.pubkey \/ id = "enable_pubkey_auth"
             /\ t.run = IF id \in {"enable_pubkey_auth", "reload_sshd", "reload_sshd_final"}
                          THEN t.conf ELSE server.run
             /\ t.active <=> server.active \/ id = "ufw_force_enable"
             /\ t.open = IF id = "open_new_ssh_port_in_firewall"
                            THEN server.open \cup {spec.sshPort}
                         ELSE IF id = "delete_open_ssh_rule"
                            THEN server.open \ {spec.sshPort}
                         ELSE server.open
             /\ t.wgUdp <=> server.wgUdp \/ id = "open_wireguard_port_in_firewall"
             /\ t.wgSsh <=> server.wgSsh \/ id = "allow_ssh_on_wireguard"
             /\ t.wgConf = IF id = "write_wireguard_config" THEN key ELSE server.wgConf
             /\ t.wgRun = IF id = "enable_wireguard" THEN server.wgConf ELSE server.wgRun
  <1>1. CASE id = "install_base_packages"
    BY <1>1 DEF Effect, ServerType
  <1>2. CASE id = "create_admin_user"
    BY <1>2 DEF Effect, ServerType
  <1>3. CASE id = "configure_nopasswd_sudo"
    BY <1>3 DEF Effect, ServerType
  <1>4. CASE id = "install_authorized_keys"
    BY <1>4 DEF Effect, ServerType, BootstrapSpec
  <1>5. CASE id = "enable_pubkey_auth"
    <2> DEFINE t == Effect(id)
               c == [server.conf EXCEPT !.pubkey = TRUE]
    <2>1. t = [server EXCEPT !.conf = c, !.run = c]
      BY <1>5 DEF Effect, ServerType, Reload
    <2>2. c.port = server.conf.port /\ c.root = server.conf.root
          /\ c.password = server.conf.password /\ c.pubkey
      BY DEF ServerType
    <2>3. t.conf = c /\ t.run = c
      BY <2>1 DEF ServerType
    <2>4. t.packages = server.packages /\ t.user = server.user /\ t.sudo = server.sudo
          /\ t.keys = server.keys /\ t.active = server.active /\ t.open = server.open
          /\ t.wgUdp = server.wgUdp /\ t.wgSsh = server.wgSsh
          /\ t.wgConf = server.wgConf /\ t.wgRun = server.wgRun
      BY <2>1 DEF ServerType
    <2> QED
      BY <1>5, <2>2, <2>3, <2>4
  <1>6. CASE id = "write_sshd_config_candidate"
    BY <1>6 DEF Effect, ServerType, BootstrapSpec
  <1>7. CASE id = "open_new_ssh_port_in_firewall"
    BY <1>7 DEF Effect, ServerType, BootstrapSpec
  <1>8. CASE id \in {"reload_sshd", "reload_sshd_final"}
    <2> DEFINE t == Effect(id)
    <2>1. t = [server EXCEPT !.run = server.conf]
      BY <1>8 DEF Effect, ServerType, Reload
    <2>2. t.conf = server.conf /\ t.run = server.conf
      BY <2>1 DEF ServerType
    <2>3. t.packages = server.packages /\ t.user = server.user /\ t.sudo = server.sudo
          /\ t.keys = server.keys /\ t.active = server.active /\ t.open = server.open
          /\ t.wgUdp = server.wgUdp /\ t.wgSsh = server.wgSsh
          /\ t.wgConf = server.wgConf /\ t.wgRun = server.wgRun
      BY <2>1 DEF ServerType
    <2> QED
      BY <1>8, <2>2, <2>3
  <1>9. CASE id = "disable_root_login"
    BY <1>9 DEF Effect, ServerType
  <1>10. CASE id = "disable_password_auth"
    <2> DEFINE t == Effect(id)
               c == [server.conf EXCEPT !.password = @ /\ IsEcho(id)]
    <2>1. t = [server EXCEPT !.conf = c]
      BY <1>10 DEF Effect, ServerType
    <2>2. c.port = server.conf.port /\ c.root = server.conf.root
          /\ c.pubkey = server.conf.pubkey
          /\ (c.password <=> server.conf.password /\ IsEcho(id))
      BY DEF ServerType
    <2>3. t.conf = c /\ t.run = server.run
      BY <2>1 DEF ServerType
    <2>4. t.packages = server.packages /\ t.user = server.user /\ t.sudo = server.sudo
          /\ t.keys = server.keys /\ t.active = server.active /\ t.open = server.open
          /\ t.wgUdp = server.wgUdp /\ t.wgSsh = server.wgSsh
          /\ t.wgConf = server.wgConf /\ t.wgRun = server.wgRun
      BY <2>1 DEF ServerType
    <2> QED
      BY <1>10, <2>2, <2>3, <2>4
  <1>11. CASE id = "ufw_force_enable"
    BY <1>11 DEF Effect, ServerType
  <1>12. CASE id = "write_wireguard_config"
    BY <1>12 DEF Effect, ServerType
  <1>13. CASE id = "open_wireguard_port_in_firewall"
    BY <1>13 DEF Effect, ServerType
  <1>14. CASE id = "enable_wireguard"
    BY <1>14 DEF Effect, ServerType
  <1>15. CASE id = "allow_ssh_on_wireguard"
    BY <1>15 DEF Effect, ServerType
  <1>16. CASE id = "delete_open_ssh_rule"
    BY <1>16 DEF Effect, ServerType, BootstrapSpec
  <1>17. CASE id \notin ChangingIds
    BY <1>17, OtherEffect DEF ChangingIds, ServerType
  <1> QED
    BY <1>1, <1>2, <1>3, <1>4, <1>5, <1>6, <1>7, <1>8, <1>9,
       <1>10, <1>11, <1>12, <1>13, <1>14, <1>15, <1>16, <1>17
       DEF ChangingIds

(* What is saved or looked up in the store is of its type.                 *)
LEMMA StoreTypes ==
  ASSUME NEW Keys, NoKey \in Keys, NEW st \in StoreType(Keys), NEW k \in Keys,
         NEW provider
  PROVE  /\ SaveState(st, provider, k) \in StoreType(Keys)
         /\ PersistKeys(st, k) \in StoreType(Keys)
         /\ KeyFor(st, provider, k) \in Keys
  BY DEF StoreType, SaveState, PersistKeys, KeyFor, DirName, WriteOnce

(* So is what a command leaves that is cut short.                          *)
LEMMA LeftoverType ==
  ASSUME server \in ServerType, spec \in BootstrapSpec, key \in 0..MaxApplies, NEW id,
         NEW t \in Leftovers(id)
  PROVE  t \in ServerType
  <1>1. [server EXCEPT !.conf.pubkey = TRUE] \in ServerType
    BY DEF ServerType
  <1> QED
    BY <1>1, EffectType DEF Leftovers

(* The types, to begin with.                                               *)
LEMMA InitTypes == InitApply => ApplyTypeOK
  <1> SUFFICES ASSUME InitApply PROVE ApplyTypeOK
    OBVIOUS
  <1>1. PICK s \in Situations :
          /\ spec = s.spec
          /\ env = [udp |-> s.udp, client |-> s.client, firewall |-> s.firewall]
          /\ server = FreshServer(s.spec, s.firewall, s.pubkeyAuth)
    BY DEF InitApply
  <1>2. spec \in BootstrapSpec /\ env \in [udp : BOOLEAN, client : Clients, firewall : BOOLEAN]
    BY <1>1, SituationsAssumption
  <1>3. server \in ServerType
    BY <1>1, <1>2, SituationsAssumption, BoundsAssumption
       DEF FreshServer, ServerType, BootstrapSpec, NoKey
  <1>4. store \in StoreType(0..MaxApplies) /\ key \in 0..MaxApplies
    <2>1. 0 \in 0..MaxApplies
      BY BoundsAssumption
    <2>2. NoDir \in [exists : BOOLEAN, key : 0..MaxApplies, conf : 0..MaxApplies]
      BY <2>1 DEF NoDir, NoKey
    <2> QED
      BY <2>1, <2>2 DEF InitApply, EmptyStore, StoreType, NoKey
  <1>5. applies \in 0..MaxApplies /\ faults \in 0..MaxFaults
    BY BoundsAssumption DEF InitApply
  <1>6. conn = NoConn /\ session = FALSE /\ status = "none"
    BY DEF InitApply
  <1> QED
    BY <1>2, <1>3, <1>4, <1>5, <1>6 DEF ApplyTypeOK, ServerType

(* The types, after any step.                                              *)
LEMMA TypesStep ==
  ASSUME ApplyTypeOK, [ApplyNext]_vars
  PROVE  ApplyTypeOK'
  <1>1. spec \in BootstrapSpec /\ server \in ServerType /\ key \in 0..MaxApplies
        /\ spec.provider \in BOOLEAN /\ spec.wireguard \in BOOLEAN
    BY DEF ApplyTypeOK, ServerType, BootstrapSpec
  <1>2. spec' = spec /\ env' = env
    BY KeptAlways
  <1>0. NoKey \in 0..MaxApplies /\ store \in StoreType(0..MaxApplies)
    BY BoundsAssumption DEF ApplyTypeOK, NoKey
  <1>3. server' \in ServerType
    BY <1>1, ServerSteps, LeftoverType DEF Effected
  <1>4. CASE Start
    <2>1. applies + 1 \in 0..MaxApplies /\ applies' = applies + 1
      BY <1>4, BoundsAssumption DEF Start, ApplyTypeOK
    <2>2. key' \in 0..MaxApplies
      BY <1>0, <1>4, <2>1, StoreTypes DEF Start
    <2>3. store' \in StoreType(0..MaxApplies)
      BY <1>0, <1>4, <2>2, StoreTypes DEF Start
    <2>4. conn' \in {NoConn} \cup [user : {"root", "admin"}, port : Ports]
      BY <1>1, <1>4 DEF Start, Credentials, BootstrapSpec
    <2>5. /\ status' \in {"none", "running"} /\ (status' = "running" => conn' # NoConn)
          /\ session' = FALSE /\ faults' = faults
      BY <1>4 DEF Start, faultVars
    <2> QED
      BY <1>2, <1>3, <2>1, <2>2, <2>3, <2>4, <2>5 DEF ApplyTypeOK, ServerType
  <1>5. CASE RunRemote
    <2>1. session' \in BOOLEAN
      BY <1>5 DEF RunRemote, Connected, CanLogin, TcpReachable, RootAuth, AdminAuth, ApplyTypeOK
    <2>2. faults' \in 0..MaxFaults
      BY <1>5, BoundsAssumption DEF RunRemote, Fault, faultVars, ApplyTypeOK
    <2>3. status' = status /\ UNCHANGED <<store, key, conn, applies>>
      BY <1>5 DEF RunRemote, ExecuteStep
    <2> QED
      BY <1>2, <1>3, <2>1, <2>2, <2>3 DEF ApplyTypeOK, ServerType
  <1>6. CASE CheckLogin \/ RunLocal \/ CheckTunnel
    <2>1. faults' \in 0..MaxFaults
      BY <1>6, BoundsAssumption DEF CheckLogin, RunLocal, CheckTunnel, Fault, faultVars, ApplyTypeOK
    <2>2. status' = status /\ UNCHANGED <<key, conn, applies, session>>
      BY <1>6 DEF CheckLogin, RunLocal, CheckTunnel, ExecuteStep
    <2>3. store' \in StoreType(0..MaxApplies)
      BY <1>0, <1>1, <1>6, StoreTypes DEF CheckLogin, RunLocal, CheckTunnel
    <2> QED
      BY <1>2, <1>3, <2>1, <2>2, <2>3 DEF ApplyTypeOK, ServerType
  <1>7. CASE Skip
    BY <1>7 DEF Skip, SkipDependent, world, ApplyTypeOK
  <1>8. CASE Return
    BY <1>8 DEF Return, Finish, FinalStatus, Verdicts, world, ApplyTypeOK
  <1>9. CASE Crash
    <2>1. /\ UNCHANGED <<store, key, applies, faults>>
          /\ status' = "none" /\ conn' = NoConn /\ session' = FALSE
      BY <1>9 DEF Crash, faultVars
    <2> QED
      BY <1>2, <1>3, <2>1 DEF ApplyTypeOK, ServerType
  <1>10. CASE UNCHANGED vars
    BY <1>10 DEF vars, world, execVars, ApplyTypeOK
  <1> QED
    BY <1>4, <1>5, <1>6, <1>7, <1>8, <1>9, <1>10 DEF ApplyNext

(* Every variable keeps its type, and an apply that runs has credentials.  *)
THEOREM ApplyTypeCorrect == ApplySpec => []ApplyTypeOK
  BY InitTypes, TypesStep, PTL DEF ApplySpec

-----------------------------------------------------------------------------
(* The results of an apply of a plan as compiled: no step is skipped that  *)
(* depends on nothing, a gate that did not succeed aborts, and success is  *)
(* reported of all steps or of none.                                       *)

ResultsInv ==
  /\ plan = <<>> \/ WellPlanned(plan, spec)
  /\ status = "running" => WellPlanned(plan, spec)
  /\ results \in Seq(Outcomes) /\ Len(results) <= Len(plan)
  /\ dryRun = FALSE /\ gateSkippedAt = 0
  /\ \A i \in DOMAIN results : results[i] = "skipped" => plan[i].deps # {}
  /\ abortedAt = 0 =>
       \A i \in DOMAIN results : plan[i].gate => results[i] = "success"
  /\ abortedAt = 0 /\ ~remoteFailed =>
       \A i \in DOMAIN results : results[i] = "failed" => plan[i].scope = "local"
  /\ status \in {"success", "success_with_local_warnings"} =>
       /\ abortedAt = 0 /\ ~remoteFailed
       /\ Len(results) = Len(plan) /\ WellPlanned(plan, spec)

(* One iteration of the loop.                                              *)
Advanced(outcome) ==
  /\ Looping /\ plan' = plan /\ status' = status
  /\ results' = Append(results, outcome)

(* An iteration of the loop skips or executes a step; no other action      *)
(* does.                                                                   *)
LEMMA ApplySteps ==
  ASSUME [ApplyNext]_vars
  PROVE  \/ Start \/ Crash \/ Return \/ UNCHANGED vars
         \/ SkipDependent
         \/ \E outcome \in {"success", "failed"} : ExecuteStep(outcome)
  BY DEF ApplyNext, RunRemote, CheckLogin, CheckTunnel, RunLocal, Skip

(* An iteration adds one result, for the step that the loop stands at.     *)
LEMMA AdvancedResults ==
  ASSUME ResultsInv, NEW o \in Outcomes, Advanced(o)
  PROVE  /\ WellPlanned(plan, spec)
         /\ results' \in Seq(Outcomes) /\ Len(results') <= Len(plan)
         /\ At \in DOMAIN plan /\ At \in Nat \ {0} /\ At \notin DOMAIN results
         /\ DOMAIN results' = DOMAIN results \cup {At}
         /\ DOMAIN results \subseteq DOMAIN plan
         /\ \A i \in DOMAIN results : i < At /\ results'[i] = results[i]
         /\ \A i \in DOMAIN plan : i < At => i \in DOMAIN results
         /\ results'[At] = o
  <1>1. WellPlanned(plan, spec) /\ plan \in Seq(Planned)
    BY DEF ResultsInv, Advanced, Looping, WellPlanned
  <1>2. Len(plan) \in Nat /\ DOMAIN plan = 1..Len(plan)
    BY <1>1
  <1>3. Len(results) \in Nat /\ DOMAIN results = 1..Len(results)
    BY DEF ResultsInv
  <1>4. At = Len(results) + 1 /\ At <= Len(plan)
    BY DEF Advanced, Looping, At
  <1>5. /\ results' \in Seq(Outcomes) /\ Len(results') = Len(results) + 1
        /\ DOMAIN results' = 1..(Len(results) + 1)
        /\ \A i \in 1..Len(results) : results'[i] = results[i]
        /\ results'[Len(results) + 1] = o
    BY AppendProperties, LenProperties DEF ResultsInv, Advanced
  <1> QED
    BY <1>1, <1>2, <1>3, <1>4, <1>5

(* An iteration, a start, an end or a crash keeps what is known of the     *)
(* results.                                                                *)
LEMMA ResultsStep ==
  ASSUME ApplyTypeOK, ResultsInv, [ApplyNext]_vars
  PROVE  ResultsInv'
  <1>1. spec' = spec /\ dryRun' = dryRun /\ spec \in BootstrapSpec
    BY KeptAlways DEF ApplyTypeOK
  <1>2. CASE Start
    <2>1. /\ plan' = <<>> \/ WellPlanned(plan', spec)
          /\ status' = "running" => WellPlanned(plan', spec)
      BY <1>1, <1>2, PlansAreSafe DEF Start
    <2>2. Len(plan') \in Nat
      BY <2>1, LenProperties DEF WellPlanned
    <2>3. /\ results' = <<>> /\ gateSkippedAt' = 0
          /\ status' \in {"none", "running"}
      BY <1>2 DEF Start
    <2> QED
      BY <1>1, <2>1, <2>2, <2>3 DEF ResultsInv
  <1>3. CASE Crash
    <2>1. plan' = <<>> /\ results' = <<>> /\ gateSkippedAt' = gateSkippedAt /\ status' = "none"
      BY <1>3 DEF Crash
    <2> QED
      BY <1>1, <2>1 DEF ResultsInv
  <1>4. CASE Return
    <2>1. /\ UNCHANGED <<plan, results, abortedAt, gateSkippedAt, remoteFailed>>
          /\ status' = FinalStatus /\ status = "running" /\ ~Looping
      BY <1>4 DEF Return, Finish
    <2>2. Len(results) \in Nat /\ Len(plan) \in Nat
      BY <2>1, LenProperties DEF ResultsInv, WellPlanned
    <2>3. /\ status' # "running"
          /\ status' \in {"success", "success_with_local_warnings"} =>
                /\ abortedAt = 0 /\ ~remoteFailed
                /\ Len(results) = Len(plan) /\ WellPlanned(plan, spec)
      BY <2>1, <2>2 DEF FinalStatus, Looping, At, ResultsInv
    <2> QED
      BY <1>1, <2>1, <2>3 DEF ResultsInv
  <1>5. CASE UNCHANGED vars
    BY <1>5 DEF vars, execVars, world, ResultsInv
  <1>6. CASE SkipDependent
    <2> DEFINE o == "skipped"
    <2>1. Advanced(o) /\ o \in Outcomes
      BY <1>6 DEF SkipDependent, Advanced, Outcomes
    <2>2. /\ WellPlanned(plan, spec)
          /\ results' \in Seq(Outcomes) /\ Len(results') <= Len(plan)
          /\ DOMAIN results' = DOMAIN results \cup {At} /\ At \in Nat \ {0}
          /\ \A i \in DOMAIN results : results'[i] = results[i]
          /\ results'[At] = o
      BY <2>1, AdvancedResults
    <2>3. /\ plan' = plan /\ status' = status /\ status = "running" /\ abortedAt = 0
          /\ gateSkippedAt' = gateSkippedAt /\ remoteFailed' = remoteFailed
          /\ abortedAt' = 0 => ~plan[At].gate
          /\ plan[At].deps # {}
      BY <1>6, <2>2 DEF SkipDependent, Looping, HasFailedDependency
    <2> QED
      BY <1>1, <2>2, <2>3 DEF ResultsInv
  <1>7. CASE \E outcome \in {"success", "failed"} : ExecuteStep(outcome)
    <2>1. PICK o \in {"success", "failed"} : ExecuteStep(o)
      BY <1>7
    <2>2. Advanced(o) /\ o \in Outcomes
      BY <2>1 DEF ExecuteStep, MayExecute, Advanced, Outcomes
    <2>3. /\ WellPlanned(plan, spec)
          /\ results' \in Seq(Outcomes) /\ Len(results') <= Len(plan)
          /\ DOMAIN results' = DOMAIN results \cup {At} /\ At \in Nat \ {0}
          /\ At \in DOMAIN plan
          /\ \A i \in DOMAIN results : results'[i] = results[i]
          /\ results'[At] = o
      BY <2>2, AdvancedResults
    <2>4. plan[At].gate => plan[At].scope # "local"
      BY <2>3 DEF WellPlanned, InOrder, Stage, AccessIds, Gate1, Gate2
    <2>5. /\ plan' = plan /\ status' = status /\ status = "running" /\ abortedAt = 0
          /\ gateSkippedAt' = gateSkippedAt
          /\ abortedAt' = 0 => o = "success" \/ ~Fatal(At)
          /\ abortedAt' = 0 /\ ~remoteFailed' =>
               ~remoteFailed /\ (o = "success" \/ plan[At].scope = "local")
      BY <2>1, <2>3 DEF ExecuteStep, MayExecute, Looping
    <2>6. abortedAt' = 0 => (plan[At].gate => o = "success")
      BY <2>4, <2>5 DEF Fatal
    <2> QED
      BY <1>1, <2>3, <2>5, <2>6 DEF ResultsInv
  <1> QED
    BY <1>2, <1>3, <1>4, <1>5, <1>6, <1>7, ApplySteps

(* In every apply the results are those that the loop may produce.         *)
THEOREM ResultsHold == ApplySpec => []ResultsInv
  <1>1. InitApply => ResultsInv
    BY DEF InitApply, ResultsInv
  <1> QED
    BY <1>1, ResultsStep, ApplyTypeCorrect, PTL DEF ApplySpec

-----------------------------------------------------------------------------
(* Keys: those of an apply are on disk before anything is done with them,  *)
(* and the ones on disk are never replaced.                                *)

KeysInv ==
  /\ status = "running" /\ spec.wireguard => key # NoKey
  /\ ~spec.provider =>
       /\ key # NoKey => store.flat.key = key
       /\ server.wgConf # NoKey => server.wgConf = store.flat.key
       /\ server.wgRun # NoKey => server.wgRun = store.flat.key

(* save_wireguard_state, directory by directory.                           *)
LEMMA SavedState ==
  ASSUME NEW Keys, NEW st \in StoreType(Keys), NEW provider \in BOOLEAN, NEW k
  PROVE  LET t == SaveState(st, provider, k)
         IN  /\ provider => /\ t.flat = st.flat
                            /\ t.provided.exists /\ t.provided.conf = k
             /\ ~provider => /\ t.provided = st.provided
                             /\ t.flat.exists /\ t.flat.conf = k
                             /\ t.flat.key = WriteOnce(st.flat.key, k)
  <1>1. CASE provider
    BY <1>1 DEF SaveState, DirName, StoreType
  <1>2. CASE ~provider
    BY <1>2 DEF SaveState, DirName, StoreType
  <1> QED
    BY <1>1, <1>2

(* persist_wireguard_keys writes the flat directory and keeps a key that   *)
(* is there.                                                               *)
LEMMA PersistedKeys ==
  ASSUME NEW Keys, NEW st \in StoreType(Keys), NEW k
  PROVE  LET t == PersistKeys(st, k)
         IN  /\ t.provided = st.provided /\ t.flat.exists
             /\ t.flat.conf = st.flat.conf
             /\ t.flat.key = WriteOnce(st.flat.key, k)
  BY DEF PersistKeys, StoreType

(* What becomes of the store.                                              *)
Saves == /\ Looping /\ StepId \in {TunnelGate, "save_local_wireguard_state"}
         /\ store' = SaveState(store, spec.provider, key)

(* After the start of an apply its keys stay, and the store changes by     *)
(* what is saved of them.                                                  *)
LEMMA StoreSteps ==
  ASSUME [ApplyNext]_vars
  PROVE  /\ Start \/ (key' = key /\ (store' = store \/ Saves))
         /\ status' = "running" => Start \/ status = "running"
  BY DEF ApplyNext, RunRemote, CheckLogin, CheckTunnel, RunLocal, Skip, Return, Crash,
         vars, world, execVars, Saves, ExecuteStep, SkipDependent, Finish, FinalStatus

(* Keys are generated only where none are saved, and are on disk before    *)
(* they are used.                                                          *)
LEMMA KeysStep ==
  ASSUME ApplyTypeOK, KeysInv, [ApplyNext]_vars
  PROVE  KeysInv'
  <1>1. /\ spec' = spec /\ spec.provider \in BOOLEAN /\ spec.wireguard \in BOOLEAN
        /\ server \in ServerType /\ spec \in BootstrapSpec /\ key \in 0..MaxApplies
        /\ store \in StoreType(0..MaxApplies) /\ applies \in Nat
    BY KeptAlways, BoundsAssumption DEF ApplyTypeOK, ServerType, BootstrapSpec
  <1>2. CASE Start
    <2>1. server' = server
      BY <1>2 DEF Start
    <2>2. CASE spec.wireguard
      <3>1. key' = KeyFor(store, spec.provider, applies + 1) /\ store' = PersistKeys(store, key')
        BY <1>2, <2>2 DEF Start
      <3>2. key' # NoKey
        BY <1>1, <3>1 DEF KeyFor, NoKey
      <3>3. store'.flat.key = WriteOnce(store.flat.key, key')
        BY <1>1, <3>1, PersistedKeys
      <3>4. ~spec.provider => key' = IF store.flat.key # NoKey THEN store.flat.key ELSE applies + 1
        BY <3>1 DEF KeyFor, DirName
      <3>5. ~spec.provider => store'.flat.key = key'
        BY <3>3, <3>4 DEF WriteOnce
      <3>6. ~spec.provider /\ store.flat.key # NoKey => store'.flat.key = store.flat.key
        BY <3>3 DEF WriteOnce
      <3> QED
        BY <1>1, <2>1, <3>2, <3>5, <3>6 DEF KeysInv
    <2>3. CASE ~spec.wireguard
      <3>1. key' = NoKey /\ store' = store
        BY <1>2, <2>3 DEF Start
      <3> QED
        BY <1>1, <2>1, <2>3, <3>1 DEF KeysInv
    <2> QED
      BY <1>1, <2>2, <2>3
  <1>3. CASE ~Start
    <2>1. /\ key' = key /\ (store' = store \/ Saves)
          /\ status' = "running" => status = "running"
      BY <1>3, StoreSteps
    <2>2. ~spec.provider =>
            /\ key # NoKey => store'.flat.key = key
            /\ store.flat.key # NoKey => store'.flat.key = store.flat.key
      BY <1>1, <2>1, SavedState DEF Saves, WriteOnce, KeysInv
    <2>3. server'.wgConf \in {server.wgConf, key} /\ server'.wgRun \in {server.wgRun, server.wgConf}
      <3>1. CASE server' = server
        BY <3>1
      <3>2. CASE server' = Effect(StepId)
        BY <1>1, <3>2, EffectFields
      <3>3. CASE server' = [server EXCEPT !.conf.pubkey = TRUE]
        BY <1>1, <3>3 DEF ServerType
      <3> QED
        BY <3>1, <3>2, <3>3, ServerSteps DEF Effected, Leftovers
    <2> QED
      BY <1>1, <2>1, <2>2, <2>3 DEF KeysInv
  <1> QED
    BY <1>2, <1>3

(* The keys in use are those on disk.                                      *)
THEOREM KeysHold == ApplySpec => []KeysInv
  <1>1. InitApply => KeysInv
    BY DEF InitApply, KeysInv, FreshServer, NoKey
  <1> QED
    BY <1>1, KeysStep, ApplyTypeCorrect, PTL DEF ApplySpec

(* A tunnel that came up on the server, in whichever apply, is of the keys *)
(* that are saved on the client, whatever failed or died since.            *)
THEOREM TunnelKeysAreSaved == ApplySpec => []RunningTunnelHasSavedKeys
  <1>1. KeysInv => RunningTunnelHasSavedKeys
    BY DEF KeysInv, RunningTunnelHasSavedKeys
  <1> QED
    BY <1>1, KeysHold, PTL

-----------------------------------------------------------------------------
(* What a result tells of the step, and what a step can rely on.           *)

(* A result that is reported was reported before, or is the one of this    *)
(* step.                                                                   *)
LEMMA Reports ==
  ASSUME ResultsInv, [ApplyNext]_vars, NEW id, NEW o, Reported(id, o)'
  PROVE  \/ Reported(id, o) /\ plan' = plan
         \/ Advanced(o) /\ o \in Outcomes /\ StepId = id
  <1>1. ASSUME NEW x \in Outcomes, Advanced(x)
        PROVE  \/ Reported(id, o) /\ plan' = plan
               \/ Advanced(o) /\ o \in Outcomes /\ StepId = id
    <2>1. /\ DOMAIN results' = DOMAIN results \cup {At}
          /\ \A i \in DOMAIN results : results'[i] = results[i]
          /\ results'[At] = x /\ plan' = plan
      BY <1>1, AdvancedResults DEF Advanced
    <2>2. PICK i \in DOMAIN results' : plan'[i].id = id /\ results'[i] = o
      BY DEF Reported
    <2> QED
      BY <1>1, <2>1, <2>2 DEF Reported, StepId
  <1>2. CASE Start \/ Crash
    BY <1>2 DEF Start, Crash, Reported
  <1>3. CASE Return \/ UNCHANGED vars
    BY <1>3 DEF Return, Finish, vars, execVars, Reported
  <1>4. CASE SkipDependent
    BY <1>1, <1>4 DEF SkipDependent, Advanced, Outcomes
  <1>5. CASE \E outcome \in {"success", "failed"} : ExecuteStep(outcome)
    BY <1>1, <1>5 DEF ExecuteStep, MayExecute, Advanced, Outcomes
  <1> QED
    BY <1>2, <1>3, <1>4, <1>5, ApplySteps

(* Two outcomes of one step are the same.                                  *)
LEMMA OneOutcome ==
  ASSUME ResultsInv, NEW o \in Outcomes, NEW x \in Outcomes, Advanced(o), Advanced(x)
  PROVE  o = x
  <1>1. results'[At] = o /\ results'[At] = x
    BY AdvancedResults
  <1> QED
    BY <1>1

(* A step that reports success was a command that worked, a login of the   *)
(* admin, the tunnel gate, or one of the local steps.                      *)
LEMMA Succeeds ==
  ASSUME ResultsInv, [ApplyNext]_vars, Advanced("success")
  PROVE  /\ ~HasFailedDependency(At)
         /\ \/ /\ IsRemoteCommand /\ Connected /\ Works(StepId)
               /\ server' = Effect(StepId) /\ session' = TRUE
            \/ plan[At].gate /\ CanLogin("admin", GatePort) /\ server' = server
            \/ CheckTunnel
            \/ RunLocal
  <1>1. status' = "running" /\ status = "running"
    BY DEF Advanced, Looping
  <1>2. results' # results
    <2>1. DOMAIN results' = DOMAIN results \cup {At} /\ At \notin DOMAIN results
      BY AdvancedResults DEF Outcomes
    <2> QED
      BY <2>1
  <1>3. ~Start /\ ~Crash /\ ~Return /\ ~UNCHANGED vars
    BY <1>1, <1>2 DEF Start, Crash, Return, Finish, vars, execVars
  <1>4. ~Skip /\ ~ExecuteStep("failed")
    <2>1. ~Advanced("skipped") /\ ~Advanced("failed")
      BY OneOutcome DEF Outcomes
    <2> QED
      BY <2>1 DEF Skip, SkipDependent, ExecuteStep, MayExecute, Advanced
  <1>5. CASE RunRemote
    BY <1>4, <1>5 DEF RunRemote, ExecuteStep, MayExecute
  <1>6. CASE CheckLogin
    BY <1>4, <1>6 DEF CheckLogin, ExecuteStep, MayExecute
  <1>7. CASE CheckTunnel
    BY <1>7 DEF CheckTunnel, ExecuteStep, MayExecute
  <1>8. CASE RunLocal
    BY <1>8 DEF RunLocal, ExecuteStep, MayExecute
  <1> QED
    BY <1>3, <1>4, <1>5, <1>6, <1>7, <1>8 DEF ApplyNext

(* A step that comes to its turn, with what it needs in the plan: that was *)
(* carried out, with success.                                              *)
LEMMA NeedIsMet ==
  ASSUME ResultsInv, Looping, ~HasFailedDependency(At), NEW id, Has(plan, id),
         Needs(StepId) = {id}, Stage(id) < Stage(StepId), Needs(id) = {}
  PROVE  Reported(id, "success")
  <1>1. WellPlanned(plan, spec) /\ plan \in Seq(Planned) /\ InOrder(plan)
    BY DEF ResultsInv, Looping, WellPlanned
  <1>2. PICK i \in DOMAIN plan : plan[i].id = id
    BY DEF Has
  <1>3. /\ Len(plan) \in Nat /\ DOMAIN plan = 1..Len(plan)
        /\ Len(results) \in Nat /\ DOMAIN results = 1..Len(results)
        /\ At = Len(results) + 1 /\ At \in DOMAIN plan
    BY <1>1, LenProperties DEF ResultsInv, Looping, At
  <1>4. i < At
    BY <1>1, <1>2, <1>3, EarlierStage DEF StepId
  <1>5. i \in DOMAIN results /\ results[i] \in Outcomes
    <2>1. i \in DOMAIN results
      BY <1>2, <1>3, <1>4
    <2> QED
      BY <2>1 DEF ResultsInv
  <1>6. i \in plan[At].deps /\ plan[i].deps = {}
    BY <1>1, <1>2, <1>3 DEF InOrder, StepId
  <1>7. results[i] # "failed" /\ results[i] # "skipped"
    BY <1>5, <1>6 DEF HasFailedDependency, ResultsInv
  <1> QED
    BY <1>2, <1>5, <1>7 DEF Reported, Outcomes

-----------------------------------------------------------------------------
(* The admin's key.                                                        *)

AdminInv ==
  /\ server.keys => spec.pubkeys
  /\ server.run.pubkey => server.conf.pubkey
  /\ Reported(Gate2, "success") => AdminAuth
  /\ ~server.conf.root \/ ~server.conf.password
       \/ ~server.run.root \/ ~server.run.password => AdminAuth

(* What one step may do to what AdminInv speaks of.                        *)
LEMMA SshdSteps ==
  ASSUME ApplyTypeOK, AdminInv, [ApplyNext]_vars
  PROVE  /\ server'.keys => spec.pubkeys
         /\ server'.run.pubkey => server'.conf.pubkey
         /\ AdminAuth => AdminAuth'
         /\ \/ Effected /\ StepId \in {"disable_root_login", "disable_password_auth"}
            \/ /\ server'.conf.root <=> server.conf.root
               /\ server'.conf.password <=> server.conf.password
         /\ ~server'.run.root => ~server.run.root \/ ~server'.conf.root
         /\ ~server'.run.password => ~server.run.password \/ ~server'.conf.password
  <1>1. /\ server \in ServerType /\ spec \in BootstrapSpec /\ key \in 0..MaxApplies
        /\ spec' = spec
    BY KeptAlways DEF ApplyTypeOK, ServerType
  <1>2. CASE server' = server
    BY <1>1, <1>2 DEF AdminInv, AdminAuth
  <1>3. CASE Effected /\ server' = Effect(StepId)
    BY <1>1, <1>3, EffectFields DEF AdminInv, AdminAuth
  <1>4. CASE Effected /\ server' = [server EXCEPT !.conf.pubkey = TRUE]
    <2> DEFINE c == [server.conf EXCEPT !.pubkey = TRUE]
    <2>1. /\ server' = [server EXCEPT !.conf = c] /\ c.pubkey
          /\ c.root = server.conf.root /\ c.password = server.conf.password
      BY <1>1, <1>4 DEF ServerType
    <2>2. /\ server'.conf = c /\ server'.run = server.run /\ server'.user = server.user
          /\ server'.keys = server.keys
      BY <1>1, <2>1 DEF ServerType
    <2> QED
      BY <1>1, <2>1, <2>2 DEF AdminInv, AdminAuth
  <1> QED
    BY <1>2, <1>3, <1>4, ServerSteps DEF Effected, Leftovers

(* What the two steps that harden sshd stand behind.                       *)
LEMMA Gate2Facts ==
  /\ Needs("disable_root_login") = {Gate2} /\ Needs("disable_password_auth") = {Gate2}
  /\ Needs(Gate2) = {} /\ Stage(Gate2) = 5
  /\ Stage("disable_root_login") = 6 /\ Stage("disable_password_auth") = 6
  BY DEF Needs, Stage, AccessIds, HardeningIds, Gate1, Gate2

(* No step closes root login or passwords without the proof that the admin *)
(* can log in, nor takes that login away.                                  *)
LEMMA AdminStep ==
  ASSUME ApplyTypeOK, ResultsInv, AdminInv, [ApplyNext]_vars
  PROVE  AdminInv'
  <1>1. spec' = spec
    BY KeptAlways
  <1>2. Reported(Gate2, "success")' => AdminAuth'
    <2>1. SUFFICES ASSUME Reported(Gate2, "success")' PROVE AdminAuth'
      OBVIOUS
    <2>2. CASE Reported(Gate2, "success")
      BY <2>2, SshdSteps DEF AdminInv
    <2>3. CASE Advanced("success") /\ StepId = Gate2
      <3>1. /\ WellPlanned(plan, spec) /\ At \in DOMAIN plan
            /\ plan[At].gate /\ plan[At].scope # "local"
        BY <2>3, AdvancedResults, Gate2Facts DEF Outcomes, WellPlanned, InOrder, StepId
      <3>2. CanLogin("admin", GatePort)
        BY <2>3, <3>1, Succeeds DEF IsRemoteCommand, CheckTunnel, RunLocal, Gate2, TunnelGate
      <3>3. AdminAuth
        BY <3>2 DEF CanLogin
      <3> QED
        BY <3>3, SshdSteps
    <2> QED
      BY <2>1, <2>2, <2>3, Reports
  <1>3. ASSUME Effected, StepId \in {"disable_root_login", "disable_password_auth"}
        PROVE  AdminAuth
    <2>1. Looping /\ ~HasFailedDependency(At)
      BY <1>3 DEF Effected, IsRemoteCommand
    <2>2. Has(plan, Gate2)
      BY <2>1 DEF ResultsInv, Looping, WellPlanned, IsComplete
    <2>3. Reported(Gate2, "success")
      BY <1>3, <2>1, <2>2, NeedIsMet, Gate2Facts
    <2> QED
      BY <2>3 DEF AdminInv
  <1> QED
    BY <1>1, <1>2, <1>3, SshdSteps DEF AdminInv

(* Whatever is closed, the admin can log in.                               *)
THEOREM AdminHolds == ApplySpec => []AdminInv
  <1>1. InitApply => AdminInv
    BY DEF InitApply, AdminInv, FreshServer, Reported
  <1> QED
    BY <1>1, AdminStep, ApplyTypeCorrect, ResultsHold, PTL DEF ApplySpec

(* Root login and passwords are closed only where the admin's key opens,   *)
(* whatever failed and wherever clients died.                              *)
THEOREM HardeningIsSafe == ApplySpec => []HardenedMeansAdminAuth
  <1>1. AdminInv => HardenedMeansAdminAuth
    BY DEF AdminInv, HardenedMeansAdminAuth
  <1> QED
    BY <1>1, AdminHolds, PTL

-----------------------------------------------------------------------------
(* What success means.                                                     *)

(* A remote step that reports success had its effect.                      *)
LEMMA EffectDone ==
  ASSUME ResultsInv, [ApplyNext]_vars, Advanced("success"),
         Stage(StepId) \notin {9, 11}, StepId \notin {Gate1, Gate2}
  PROVE  /\ IsRemoteCommand /\ ~HasFailedDependency(At)
         /\ Connected /\ Works(StepId) /\ server' = Effect(StepId)
  <1>1. WellPlanned(plan, spec) /\ At \in DOMAIN plan
    BY AdvancedResults DEF Outcomes
  <1>2. ~plan[At].gate /\ plan[At].scope # "local" /\ StepId # TunnelGate
    BY <1>1 DEF WellPlanned, InOrder, StepId, Stage, TunnelGate, AccessIds, HardeningIds,
                ServiceIds, Gate1, Gate2
  <1> QED
    BY <1>2, Succeeds DEF CheckTunnel, RunLocal

(* What stays, and which commands change what the tunnel depends on.       *)
LEMMA LastingEffects ==
  ASSUME ApplyTypeOK, [ApplyNext]_vars
  PROVE  /\ server.sudo => server'.sudo
         /\ server.active => server'.active
         /\ server.wgSsh => server'.wgSsh
         /\ server.wgUdp => server'.wgUdp
         /\ \/ Effected /\ StepId = "ufw_force_enable"
            \/ server'.active <=> server.active
         /\ \/ Effected /\ StepId = "enable_wireguard"
            \/ server'.wgRun = server.wgRun
  <1>1. server \in ServerType /\ spec \in BootstrapSpec /\ key \in 0..MaxApplies
    BY DEF ApplyTypeOK, ServerType
  <1>2. CASE Effected /\ server' = Effect(StepId)
    BY <1>1, <1>2, EffectFields
  <1>3. CASE server' = [server EXCEPT !.conf.pubkey = TRUE]
    BY <1>1, <1>3 DEF ServerType
  <1> QED
    BY <1>2, <1>3, ServerSteps DEF Effected, Leftovers

EffectsInv ==
  /\ Reported("configure_nopasswd_sudo", "success") => server.sudo
  /\ Reported("ufw_force_enable", "success") => server.active
  /\ Reported("allow_ssh_on_wireguard", "success") => server.wgSsh

(* What was reported as done stays done.                                   *)
LEMMA EffectsStep ==
  ASSUME ApplyTypeOK, ResultsInv, EffectsInv, [ApplyNext]_vars
  PROVE  EffectsInv'
  <1>1. server \in ServerType /\ spec \in BootstrapSpec /\ key \in 0..MaxApplies
    BY DEF ApplyTypeOK, ServerType
  <1>2. \A id \in {"configure_nopasswd_sudo", "ufw_force_enable", "allow_ssh_on_wireguard"} :
           Stage(id) \notin {9, 11} /\ id \notin {Gate1, Gate2}
    BY DEF Stage, AccessIds, HardeningIds, ServiceIds, Gate1, Gate2, TunnelGate
  <1>3. \A id \in {"configure_nopasswd_sudo", "ufw_force_enable", "allow_ssh_on_wireguard"} :
           Advanced("success") /\ StepId = id => server' = Effect(id)
    BY <1>2, EffectDone
  <1>4. Reported("configure_nopasswd_sudo", "success")' => server'.sudo
    <2>1. Effect("configure_nopasswd_sudo").sudo
      BY <1>1, EffectFields
    <2> QED
      BY <1>3, <2>1, Reports, LastingEffects DEF EffectsInv
  <1>5. Reported("ufw_force_enable", "success")' => server'.active
    <2>1. Effect("ufw_force_enable").active
      BY <1>1, EffectFields
    <2> QED
      BY <1>3, <2>1, Reports, LastingEffects DEF EffectsInv
  <1>6. Reported("allow_ssh_on_wireguard", "success")' => server'.wgSsh
    <2>1. Effect("allow_ssh_on_wireguard").wgSsh
      BY <1>1, EffectFields
    <2> QED
      BY <1>3, <2>1, Reports, LastingEffects DEF EffectsInv
  <1> QED
    BY <1>4, <1>5, <1>6 DEF EffectsInv

(* Sudo, the firewall and the rule for the tunnel are there once they are  *)
(* reported.                                                               *)
THEOREM EffectsHold == ApplySpec => []EffectsInv
  <1>1. InitApply => EffectsInv
    BY DEF InitApply, EffectsInv, Reported
  <1> QED
    BY <1>1, EffectsStep, ApplyTypeCorrect, ResultsHold, PTL DEF ApplySpec

(* A login through the tunnel was a login through the tunnel that the      *)
(* saved client.conf still describes: the steps behind it save the same    *)
(* file again and change nothing that the tunnel depends on.               *)
VerifiedInv ==
  verified =>
    /\ server.wgRun # NoKey /\ env.udp
    /\ server.active => server.wgUdp
    /\ \/ store.flat.conf = server.wgRun /\ (~spec.provider => key = server.wgRun)
       \/ store.provided.conf = server.wgRun /\ (spec.provider => key = server.wgRun)
    /\ \E i \in DOMAIN results : plan[i].id = TunnelGate

(* A login through the tunnel is recorded when it happens, and forgotten   *)
(* only with the apply.                                                    *)
LEMMA VerifiedSteps ==
  ASSUME [ApplyNext]_vars, verified'
  PROVE  \/ verified /\ ~Start /\ ~Crash
         \/ CheckTunnel /\ env.client = "ready" /\ TunnelReaches(FindDir(store').conf)
  BY DEF ApplyNext, Start, RunRemote, CheckLogin, CheckTunnel, RunLocal, Skip, Return,
         Crash, vars, world

(* What the login through the tunnel relied on stays to the end of the     *)
(* apply.                                                                  *)
LEMMA VerifiedStep ==
  ASSUME ApplyTypeOK, ResultsInv, VerifiedInv, [ApplyNext]_vars
  PROVE  VerifiedInv'
  <1>1. /\ server \in ServerType /\ spec' = spec /\ env' = env
        /\ spec.provider \in BOOLEAN /\ store \in StoreType(0..MaxApplies)
    BY KeptAlways DEF ApplyTypeOK, ServerType, BootstrapSpec
  <1>2. SUFFICES ASSUME verified'
        PROVE  /\ server'.wgRun # NoKey /\ env.udp
               /\ server'.active => server'.wgUdp
               /\ \/ /\ store'.flat.conf = server'.wgRun
                     /\ ~spec.provider => key' = server'.wgRun
                  \/ /\ store'.provided.conf = server'.wgRun
                     /\ spec.provider => key' = server'.wgRun
               /\ \E i \in DOMAIN results' : plan'[i].id = TunnelGate
    BY <1>1 DEF VerifiedInv
  <1>3. CASE CheckTunnel /\ env.client = "ready" /\ TunnelReaches(FindDir(store').conf)
    <2>1. /\ store' = SaveState(store, spec.provider, key) /\ key' = key
          /\ server' = server /\ Looping /\ StepId = TunnelGate
      BY <1>3 DEF CheckTunnel
    <2>2. /\ FindDir(store').conf # NoKey /\ server.wgRun = FindDir(store').conf
          /\ env.udp /\ (server.active => server.wgUdp)
      BY <1>3 DEF TunnelReaches
    <2>3. FindDir(store').conf \in {store'.flat.conf, store'.provided.conf}
      BY DEF FindDir
    <2>4. /\ ~spec.provider => store'.flat.conf = key
          /\ spec.provider => store'.provided.conf = key
      BY <1>1, <2>1, SavedState
    <2>5. \E i \in DOMAIN results' : plan'[i].id = TunnelGate
      <3>1. PICK o \in {"success", "failed"} : ExecuteStep(o)
        BY <1>3 DEF CheckTunnel
      <3>2. Advanced(o) /\ o \in Outcomes
        BY <3>1 DEF ExecuteStep, MayExecute, Advanced, Outcomes
      <3>3. At \in DOMAIN results' /\ plan' = plan
        BY <3>2, AdvancedResults DEF Advanced
      <3> QED
        BY <2>1, <3>3 DEF StepId
    <2> QED
      BY <2>1, <2>2, <2>3, <2>4, <2>5
  <1>4. CASE verified /\ ~Start /\ ~Crash
    <2>1. /\ key' = key /\ (store' = store \/ store' = SaveState(store, spec.provider, key))
      BY <1>4, StoreSteps DEF Saves
    <2>2. PICK i \in DOMAIN results : plan[i].id = TunnelGate
      BY <1>4 DEF VerifiedInv
    <2>3. i \in DOMAIN results' /\ plan'[i].id = TunnelGate
      <3>1. CASE \E o \in Outcomes : Advanced(o)
        BY <2>2, <3>1, AdvancedResults DEF Advanced
      <3>2. CASE plan' = plan /\ results' = results
        BY <2>2, <3>2
      <3> QED
        BY <1>4, <3>1, <3>2, ApplySteps
           DEF Return, Finish, vars, execVars, SkipDependent, ExecuteStep, MayExecute,
               Advanced, Outcomes
    <2>4. ~(Effected /\ StepId \in {"ufw_force_enable", "enable_wireguard"})
      <3>1. SUFFICES ASSUME Looping, StepId \in {"ufw_force_enable", "enable_wireguard"}
            PROVE  FALSE
        BY DEF Effected, IsRemoteCommand
      <3>2. WellPlanned(plan, spec) /\ InOrder(plan) /\ plan \in Seq(Planned)
        BY <3>1 DEF ResultsInv, Looping, WellPlanned
      <3>3. At \in DOMAIN plan /\ i \in DOMAIN plan /\ i < At
        <4>1. /\ Len(plan) \in Nat /\ DOMAIN plan = 1..Len(plan)
              /\ Len(results) \in Nat /\ DOMAIN results = 1..Len(results)
              /\ Len(results) <= Len(plan)
          BY <3>2, LenProperties DEF ResultsInv
        <4>2. At = Len(results) + 1 /\ At <= Len(plan)
          BY <3>1 DEF Looping, At
        <4> QED
          BY <2>2, <4>1, <4>2
      <3>4. Stage(TunnelGate) <= Stage(StepId)
        BY <2>2, <3>2, <3>3 DEF InOrder, StepId
      <3> QED
        BY <3>1, <3>4 DEF Stage, TunnelGate, AccessIds, HardeningIds, ServiceIds, Gate1, Gate2
    <2>5. /\ server'.wgRun = server.wgRun /\ (server'.active <=> server.active)
          /\ server.wgUdp => server'.wgUdp
      BY <2>4, LastingEffects
    <2>6. \/ /\ store'.flat.conf = server.wgRun
             /\ ~spec.provider => key = server.wgRun
          \/ /\ store'.provided.conf = server.wgRun
             /\ spec.provider => key = server.wgRun
      BY <1>1, <1>4, <2>1, SavedState DEF VerifiedInv
    <2> QED
      BY <1>4, <2>1, <2>3, <2>5, <2>6 DEF VerifiedInv
  <1> QED
    BY <1>2, <1>3, <1>4, VerifiedSteps

(* A verified tunnel is one that is still there.                           *)
THEOREM VerifiedHolds == ApplySpec => []VerifiedInv
  <1>1. InitApply => VerifiedInv
    BY DEF InitApply, VerifiedInv
  <1> QED
    BY <1>1, VerifiedStep, ApplyTypeCorrect, ResultsHold, PTL DEF ApplySpec

(* In an apply that reports success every step on the server that depends  *)
(* on nothing did.                                                         *)
LEMMA SuccessReports ==
  ASSUME ResultsInv, status \in {"success", "success_with_local_warnings"},
         NEW id, Has(plan, id), Needs(id) = {}, Stage(id) \notin {9, 11}
  PROVE  Reported(id, "success")
  <1>1. /\ abortedAt = 0 /\ ~remoteFailed /\ Len(results) = Len(plan)
        /\ WellPlanned(plan, spec)
    BY DEF ResultsInv
  <1>2. DOMAIN results = DOMAIN plan /\ results \in Seq(Outcomes)
    BY <1>1, LenProperties DEF ResultsInv, WellPlanned
  <1>3. PICK i \in DOMAIN plan : plan[i].id = id
    BY DEF Has
  <1>4. plan[i].scope # "local" /\ plan[i].deps = {}
    BY <1>1, <1>3 DEF WellPlanned, InOrder
  <1>5. results[i] \in Outcomes /\ results[i] # "failed" /\ results[i] # "skipped"
    BY <1>1, <1>2, <1>3, <1>4 DEF ResultsInv
  <1> QED
    BY <1>2, <1>3, <1>5 DEF Reported, Outcomes

(* The steps that give control depend on nothing and are carried out on    *)
(* the server.                                                             *)
LEMMA ControlFacts ==
  \A id \in {"configure_nopasswd_sudo", "ufw_force_enable", Gate2, "allow_ssh_on_wireguard"} :
     Needs(id) = {} /\ Stage(id) \notin {9, 11}
  BY DEF Stage, Needs, AccessIds, HardeningIds, ServiceIds, Gate1, Gate2, TunnelGate

(* An apply that reports success leaves the firewall up, the admin in      *)
(* control and, where it tried the tunnel, a way in, whatever the applies  *)
(* before it left behind.                                                  *)
THEOREM SuccessIsControl == ApplySpec => []SuccessMeansControl
  <1>1. ResultsInv /\ AdminInv /\ EffectsInv /\ VerifiedInv => SuccessMeansControl
    <2>1. SUFFICES ASSUME ResultsInv, AdminInv, EffectsInv, VerifiedInv,
                          status \in {"success", "success_with_local_warnings"}
                   PROVE  /\ server.active /\ server.sudo /\ AdminAuth
                          /\ verified => WayIn
      BY DEF SuccessMeansControl
    <2>2. WellPlanned(plan, spec)
      BY <2>1 DEF ResultsInv
    <2>3. /\ Has(plan, "configure_nopasswd_sudo") /\ Has(plan, "ufw_force_enable")
          /\ Has(plan, Gate2)
      BY <2>2 DEF WellPlanned, IsComplete
    <2>4. server.active /\ server.sudo /\ AdminAuth
      BY <2>1, <2>3, SuccessReports, ControlFacts DEF EffectsInv, AdminInv
    <2>5. ASSUME verified PROVE WayIn
      <3>1. PICK i \in DOMAIN results : plan[i].id = TunnelGate
        BY <2>1, <2>5 DEF VerifiedInv
      <3>2. DOMAIN results = DOMAIN plan
        BY <2>1, <2>2, LenProperties DEF ResultsInv, WellPlanned
      <3>3. Has(plan, TunnelGate) /\ Stage(TunnelGate) \in 8..10
        BY <3>1, <3>2 DEF Has, Stage, TunnelGate, AccessIds, HardeningIds, ServiceIds,
                          Gate1, Gate2
      <3>4. Has(plan, "allow_ssh_on_wireguard")
        BY <2>2, <3>3 DEF WellPlanned, IsComplete
      <3>5. server.wgSsh
        BY <2>1, <3>4, SuccessReports, ControlFacts DEF EffectsInv
      <3>6. /\ server.wgRun # NoKey /\ env.udp /\ (server.active => server.wgUdp)
            /\ store.flat.conf = server.wgRun \/ store.provided.conf = server.wgRun
        BY <2>1, <2>5 DEF VerifiedInv
      <3>7. \E dir \in {"flat", "provided"} : TunnelReaches(store[dir].conf)
        BY <3>5, <3>6 DEF TunnelReaches
      <3> QED
        BY <2>4, <3>7 DEF WayIn
    <2> QED
      BY <2>4, <2>5
  <1> QED
    BY <1>1, ResultsHold, AdminHolds, EffectsHold, VerifiedHolds, PTL

-----------------------------------------------------------------------------
(* Where the tunnel can be tried, success of its gate is a login.          *)
TunnelInv ==
  TunnelGate \notin faulted /\ env.client # "no_sudo" /\ ~spec.provider =>
    /\ Reported(TunnelGate, "success") => verified
    /\ Reported("delete_open_ssh_rule", "success") => verified

(* Behind a report of an apply the history only grows.                     *)
LEMMA HistorySteps ==
  ASSUME [ApplyNext]_vars
  PROVE  /\ faulted \subseteq faulted'
         /\ ~Start /\ ~Crash /\ verified => verified'
  BY DEF ApplyNext, Start, RunRemote, CheckLogin, CheckTunnel, RunLocal, Skip, Return,
         Crash, vars, world, Fault, faultVars

(* The deletion of the open rule stands behind the check of the tunnel.    *)
LEMMA TunnelStageFacts ==
  /\ Stage(TunnelGate) = 9 /\ Needs(TunnelGate) = {}
  /\ Stage("delete_open_ssh_rule") = 10 /\ Needs("delete_open_ssh_rule") = {TunnelGate}
  /\ "delete_open_ssh_rule" \notin {Gate1, Gate2}
  BY DEF Stage, Needs, TunnelGate, AccessIds, HardeningIds, ServiceIds, Gate1, Gate2

(* Where the tunnel can be tried, the check succeeds by a login, and the   *)
(* deletion follows only its success.                                      *)
LEMMA TunnelStep ==
  ASSUME ApplyTypeOK, ResultsInv, KeysInv, TunnelInv, [ApplyNext]_vars
  PROVE  TunnelInv'
  <1>1. /\ spec' = spec /\ env' = env /\ faulted \subseteq faulted'
        /\ store \in StoreType(0..MaxApplies) /\ spec.provider \in BOOLEAN
    BY KeptAlways, HistorySteps DEF ApplyTypeOK, BootstrapSpec
  <1>2. SUFFICES ASSUME TunnelGate \notin faulted', env.client # "no_sudo", ~spec.provider
        PROVE  /\ Reported(TunnelGate, "success")' => verified'
               /\ Reported("delete_open_ssh_rule", "success")' => verified'
    BY <1>1 DEF TunnelInv
  <1>3. /\ Reported(TunnelGate, "success") => verified
        /\ Reported("delete_open_ssh_rule", "success") => verified
    BY <1>1, <1>2 DEF TunnelInv
  <1>4. CASE Start \/ Crash
    BY <1>4 DEF Start, Crash, Reported
  <1>5. CASE ~Start /\ ~Crash
    <2>1. verified => verified'
      BY <1>5, HistorySteps
    <2>2. ASSUME Advanced("success"), StepId = TunnelGate
          PROVE  verified'
      <3>1. WellPlanned(plan, spec) /\ At \in DOMAIN plan
        BY <2>2, AdvancedResults DEF Outcomes
      <3>2. plan[At].scope = "local" /\ ~plan[At].gate /\ Has(plan, TunnelGate)
        BY <2>2, <3>1, TunnelStageFacts
           DEF WellPlanned, InOrder, StepId, Has, Gate1, Gate2, TunnelGate
      <3>3. CheckTunnel
        BY <2>2, <3>2, Succeeds DEF IsRemoteCommand, RunLocal
      <3>4. spec.wireguard /\ key # NoKey
        BY <2>2, <3>1, <3>2, TunnelStageFacts
           DEF WellPlanned, IsComplete, KeysInv, Advanced, Looping
      <3>5. store' = SaveState(store, spec.provider, key)
        BY <3>3 DEF CheckTunnel
      <3>6. store'.flat.exists /\ store'.flat.conf = key
        BY <1>1, <1>2, <3>5, SavedState
      <3>7. FindDir(store').conf = key
        BY <3>6 DEF FindDir
      <3>8. ~ExecuteStep("failed")
        BY <2>2, OneOutcome DEF ExecuteStep, MayExecute, Advanced, Outcomes
      <3>9. ~Fault
        BY <1>2, <2>2 DEF Fault
      <3> QED
        BY <1>2, <3>3, <3>4, <3>7, <3>8, <3>9 DEF CheckTunnel
    <2>3. ASSUME Advanced("success"), StepId = "delete_open_ssh_rule"
          PROVE  verified
      <3>1. IsRemoteCommand /\ ~HasFailedDependency(At)
        BY <2>3, EffectDone, TunnelStageFacts
      <3>2. WellPlanned(plan, spec) /\ At \in DOMAIN plan
        BY <2>3, AdvancedResults DEF Outcomes
      <3>3. Has(plan, "delete_open_ssh_rule")
        BY <2>3, <3>2 DEF Has, StepId
      <3>4. Has(plan, TunnelGate)
        BY <3>2, <3>3, TunnelStageFacts DEF WellPlanned, IsComplete
      <3>5. Reported(TunnelGate, "success")
        BY <2>3, <3>1, <3>4, NeedIsMet, TunnelStageFacts DEF IsRemoteCommand
      <3> QED
        BY <1>3, <3>5
    <2> QED
      BY <1>3, <2>1, <2>2, <2>3, Reports
  <1> QED
    BY <1>4, <1>5

(* Success of the check of the tunnel is a login, where it can be tried.   *)
THEOREM TunnelHolds == ApplySpec => []TunnelInv
  <1>1. InitApply => TunnelInv
    BY DEF InitApply, TunnelInv, Reported
  <1> QED
    BY <1>1, TunnelStep, ApplyTypeCorrect, ResultsHold, KeysHold, PTL DEF ApplySpec

(* The open rule is deleted only in an apply that logged in through the    *)
(* tunnel, on every client that can try it, whatever else failed.          *)
THEOREM DeletionIsVerified == ApplySpec => []VerifiedWhereTunnelCanBeTried
  <1>1. TunnelInv => VerifiedWhereTunnelCanBeTried
    BY DEF TunnelInv, VerifiedWhereTunnelCanBeTried, OpenRuleDeletedOnlyVerified
  <1> QED
    BY <1>1, TunnelHolds, PTL

-----------------------------------------------------------------------------
(* The way in.                                                             *)

(* Nothing that an apply still does can change the firewall.               *)
FirewallOutOfReach ==
  \/ ~Connected
  \/ conn.user # "root" /\ ~server.sudo
  \/ ~server.packages /\ ~server.active

BothOpen == {spec.loginPort, spec.sshPort} \subseteq server.open

TunnelStands ==
  /\ server.wgRun # NoKey /\ store.flat.conf = server.wgRun
  /\ env.udp /\ server.wgUdp /\ server.wgSsh

(* A server whose firewall was active before, as long as the new port is   *)
(* not open: sshd is where it was, root is still let in, and the apply     *)
(* that writes the new port has it before it to open it.                   *)
AsFound ==
  /\ env.firewall
  /\ spec.loginPort \in server.open
  /\ server.run.port = spec.loginPort /\ server.run.root /\ server.run.password
  /\ server.conf.root /\ server.conf.password
  /\ server.conf.port = spec.loginPort \/ (Looping /\ Stage(StepId) \in {2, 3})
  /\ status = "running" => conn = [user |-> "root", port |-> spec.loginPort]
  /\ Looping => Stage(StepId) <= 3

Premise ==
  /\ faulted \cap KeepersOfAccess = {}
  /\ env.client # "no_sudo"
  /\ ~(spec.provider /\ spec.wireguard)
  /\ ~(crashed /\ env.firewall)

AccessInv ==
  /\ server.run.port \in {spec.loginPort, spec.sshPort}
  /\ server.conf.port \in {spec.loginPort, spec.sshPort}
  /\ spec.loginPort \in server.open \/ spec.loginPort = spec.sshPort
  /\ spec.loginByKey => server.run.pubkey /\ server.conf.pubkey
  /\ ~spec.provider => store.provided.conf = NoKey

LockInv ==
  Premise =>
    /\ Looping /\ Stage(StepId) \in 4..9 =>
         spec.sshPort \in server.open \/ FirewallOutOfReach
    /\ Looping /\ Stage(StepId) \in {9, 10} =>
         server.wgSsh \/ FirewallOutOfReach
    /\ server.active => BothOpen \/ TunnelStands \/ AsFound

(* The steps that stages 3 and 8 consist of.                               *)
LEMMA LockStageFacts ==
  /\ Stage("open_new_ssh_port_in_firewall") = 3 /\ Stage("allow_ssh_on_wireguard") = 8
  /\ Needs("open_new_ssh_port_in_firewall") = {} /\ Needs("allow_ssh_on_wireguard") = {}
  /\ {"open_new_ssh_port_in_firewall", "allow_ssh_on_wireguard"} \cap {Gate1, Gate2} = {}
  /\ \A id : /\ Stage(id) = 3 => id = "open_new_ssh_port_in_firewall"
             /\ Stage(id) = 8 => id = "allow_ssh_on_wireguard"
             /\ Stage(id) \in 1..11
  BY DEF Stage, Needs, TunnelGate, AccessIds, HardeningIds, ServiceIds, Gate1, Gate2

(* The stages of the commands that change the server, and of the one that  *)
(* looks at the tunnel.                                                    *)
LEMMA ChangingStages ==
  /\ Stage("install_base_packages") = 1 /\ Stage("configure_nopasswd_sudo") = 1
  /\ Stage("enable_pubkey_auth") = 1 /\ Stage("write_sshd_config_candidate") = 2
  /\ Stage("reload_sshd") = 4 /\ Stage("reload_sshd_final") = 6
  /\ Stage("disable_root_login") = 6 /\ Stage("disable_password_auth") = 6
  /\ Stage("ufw_force_enable") = 6 /\ Stage("enable_wireguard") = 7
  /\ Stage("delete_open_ssh_rule") = 10 /\ Stage("save_local_wireguard_state") = 11
  BY DEF Stage, TunnelGate, AccessIds, HardeningIds, ServiceIds, LocalIds, Gate1, Gate2

(* A command of the firewall that takes effect was within reach.           *)
LEMMA FirewallReached ==
  ASSUME Connected, NEW id \in UfwSteps, Works(id)
  PROVE  ~FirewallOutOfReach
  <1>1. id \in SudoSteps /\ ~IsEcho(id)
    BY DEF UfwSteps, SudoSteps, IsEcho
  <1> QED
    BY <1>1 DEF Works, FirewallOutOfReach

(* How the loop comes to stand at a step.                                  *)
LEMMA LoopSteps ==
  ASSUME ResultsInv, [ApplyNext]_vars, Looping'
  PROVE  \/ Start
         \/ UNCHANGED vars
         \/ /\ \E o \in Outcomes : Advanced(o)
            /\ ~Start /\ ~Crash /\ conn' = conn /\ plan' = plan
            /\ Looping /\ At' = At + 1 /\ At \in Nat \ {0}
            /\ At \in DOMAIN plan /\ At + 1 \in DOMAIN plan
            /\ StepId = plan[At].id /\ StepId' = plan[At + 1].id
            /\ WellPlanned(plan, spec)
  <1>1. ~Crash /\ ~Return
    BY DEF Looping, Crash, Return, Finish, FinalStatus
  <1>2. ASSUME NEW o \in Outcomes, Advanced(o), ~Start
        PROVE  /\ Looping /\ At' = At + 1 /\ At \in Nat \ {0} /\ plan' = plan
               /\ At \in DOMAIN plan /\ At + 1 \in DOMAIN plan
               /\ StepId = plan[At].id /\ StepId' = plan[At + 1].id
               /\ WellPlanned(plan, spec)
    <2>1. /\ Looping /\ plan' = plan /\ At \in Nat \ {0} /\ At \in DOMAIN plan
          /\ WellPlanned(plan, spec)
      BY <1>2, AdvancedResults DEF Advanced
    <2>2. results \in Seq(Outcomes) /\ results' = Append(results, o)
      BY <1>2 DEF ResultsInv, Advanced
    <2>3. At' = At + 1
      BY <2>2, AppendProperties, LenProperties DEF At
    <2>4. At + 1 \in DOMAIN plan
      <3>1. At' <= Len(plan)
        BY <2>1 DEF Looping
      <3>2. DOMAIN plan = 1..Len(plan) /\ Len(plan) \in Nat
        BY <2>1, LenProperties DEF WellPlanned
      <3> QED
        BY <2>1, <2>3, <3>1, <3>2
    <2> QED
      BY <2>1, <2>3, <2>4 DEF StepId
  <1>3. Start \/ conn' = conn
    BY <1>1 DEF ApplyNext, RunRemote, CheckLogin, CheckTunnel, RunLocal, Skip, Return, vars, world
  <1>4. CASE SkipDependent
    <2>1. ~Start /\ Advanced("skipped") /\ "skipped" \in Outcomes
      BY <1>4 DEF SkipDependent, Looping, Start, Advanced, Outcomes
    <2> QED
      BY <1>1, <1>2, <1>3, <2>1
  <1>5. CASE \E outcome \in {"success", "failed"} : ExecuteStep(outcome)
    <2>1. PICK o \in {"success", "failed"} : ExecuteStep(o)
      BY <1>5
    <2>2. ~Start /\ Advanced(o) /\ o \in Outcomes
      BY <2>1 DEF ExecuteStep, MayExecute, Looping, Start, Advanced, Outcomes
    <2> QED
      BY <1>1, <1>2, <1>3, <2>2
  <1> QED
    BY <1>1, <1>4, <1>5, ApplySteps

(* Between a step of one stage and the next step, of a later one, all of   *)
(* the stages that the plan has in between have had their turn.            *)
LEMMA NoStageIsPassed ==
  ASSUME NEW p \in Seq(Planned), InOrder(p), NEW i \in Nat \ {0},
         i \in DOMAIN p, i + 1 \in DOMAIN p, NEW id, Has(p, id),
         Stage(id) < Stage(p[i + 1].id)
  PROVE  Stage(id) <= Stage(p[i].id)
  <1>1. PICK j \in DOMAIN p : p[j].id = id
    BY DEF Has
  <1>2. j < i + 1
    BY <1>1, EarlierStage
  <1>3. j \in Nat
    BY <1>1, LenProperties
  <1>4. j = i \/ j < i
    BY <1>2, <1>3
  <1>5. Stage(id) \in Nat
    BY LockStageFacts
  <1> QED
    BY <1>1, <1>4, <1>5 DEF InOrder

(* What is out of reach stays there: only the first steps give sudo or the *)
(* packages, and a connection that cannot be made changes nothing.         *)
LEMMA OutOfReachStays ==
  ASSUME ApplyTypeOK, ResultsInv, [ApplyNext]_vars, Looping, Looping', conn' = conn,
         Stage(StepId) > 1, FirewallOutOfReach
  PROVE  FirewallOutOfReach'
  <1>1. /\ server \in ServerType /\ spec \in BootstrapSpec /\ key \in 0..MaxApplies
        /\ spec' = spec /\ env' = env
    BY KeptAlways DEF ApplyTypeOK, ServerType
  <1>2. CASE ~Connected
    <2>1. server' = server
      BY <1>2, ServerSteps DEF Effected
    <2>2. session' = session \/ session' = FALSE
      BY <1>2 DEF ApplyNext, Start, RunRemote, CheckLogin, CheckTunnel, RunLocal, Skip,
                  Return, Crash, vars, world, Looping, Connected
    <2> QED
      BY <1>1, <1>2, <2>1, <2>2
         DEF FirewallOutOfReach, Connected, CanLogin, TcpReachable, Passes, RootAuth, AdminAuth
  <1>3. StepId \notin {"install_base_packages", "configure_nopasswd_sudo"}
    BY ChangingStages
  <1>4. /\ server'.sudo => server.sudo
        /\ server'.packages => server.packages
        /\ server'.active => server.active \/ (Effected /\ StepId = "ufw_force_enable")
    <2>1. CASE Effected /\ server' = Effect(StepId)
      BY <1>1, <1>3, <2>1, EffectFields
    <2>2. CASE server' = [server EXCEPT !.conf.pubkey = TRUE]
      BY <1>1, <2>2 DEF ServerType
    <2> QED
      BY <2>1, <2>2, ServerSteps DEF Effected, Leftovers
  <1>5. ~(Effected /\ StepId = "ufw_force_enable")
    BY FirewallReached DEF Effected, UfwSteps
  <1> QED
    BY <1>2, <1>4, <1>5 DEF FirewallOutOfReach

(* A step of the firewall that was not cut short either had its effect or  *)
(* left the firewall out of reach of the rest of the apply.                *)
LEMMA UfwStepDone ==
  ASSUME ApplyTypeOK, ResultsInv, [ApplyNext]_vars, NEW o \in Outcomes, Advanced(o),
         StepId \in {"open_new_ssh_port_in_firewall", "allow_ssh_on_wireguard"},
         StepId \notin faulted', ~Start, ~Crash, conn' = conn
  PROVE  server' = Effect(StepId) \/ FirewallOutOfReach'
  <1>1. /\ WellPlanned(plan, spec) /\ At \in DOMAIN plan
    BY AdvancedResults
  <1>2. /\ plan[At].deps = {} /\ ~plan[At].gate /\ plan[At].scope # "local"
        /\ StepId # TunnelGate
    <2>1. /\ Needs(StepId) = {} /\ StepId \notin {Gate1, Gate2} /\ StepId # TunnelGate
          /\ Stage(StepId) \notin {9, 11}
      <3>1. \/ StepId = "open_new_ssh_port_in_firewall" /\ Stage(StepId) = 3
            \/ StepId = "allow_ssh_on_wireguard" /\ Stage(StepId) = 8
        BY LockStageFacts
      <3>2. Needs(StepId) = {}
        BY <3>1, LockStageFacts
      <3> QED
        BY <3>1, <3>2 DEF TunnelGate, Gate1, Gate2
    <2>2. /\ plan[At].gate <=> StepId \in {Gate1, Gate2}
          /\ plan[At].scope = "local" <=> Stage(StepId) \in {9, 11}
          /\ plan[At].deps = {j \in DOMAIN plan : plan[j].id \in Needs(StepId)}
      BY <1>1 DEF WellPlanned, InOrder, StepId
    <2> QED
      BY <2>1, <2>2
  <1>3. ~HasFailedDependency(At) /\ IsRemoteCommand
    BY <1>2 DEF HasFailedDependency, IsRemoteCommand, Advanced
  <1>4. ~Fault
    BY DEF Fault
  <1>5. results' # results
    <2>1. DOMAIN results' = DOMAIN results \cup {At} /\ At \notin DOMAIN results
      BY AdvancedResults
    <2> QED
      BY <2>1
  <1>6. RunRemote
    BY <1>2, <1>3, <1>5 DEF ApplyNext, CheckLogin, CheckTunnel, RunLocal, Skip, SkipDependent,
                            Return, Finish, vars, execVars
  <1>7. CASE server' = Effect(StepId)
    BY <1>7
  <1>8. CASE ~(Connected /\ Works(StepId)) /\ server' = server /\ session' = Connected
    <2>1. spec' = spec /\ env' = env
      BY KeptAlways
    <2>2. CASE ~Connected
      BY <1>8, <2>1, <2>2
         DEF FirewallOutOfReach, Connected, CanLogin, TcpReachable, Passes, RootAuth, AdminAuth
    <2>3. CASE ~Works(StepId)
      <3>1. FirewallOutOfReach
        BY <2>3 DEF Works, FirewallOutOfReach, WireguardToolSteps
      <3> QED
        BY <1>8, <2>1, <2>2, <3>1 DEF FirewallOutOfReach
    <2> QED
      BY <1>8, <2>2, <2>3
  <1> QED
    BY <1>4, <1>6, <1>7, <1>8 DEF RunRemote

(* Ports stay those of the spec, key logins stay allowed, and a flat host  *)
(* has no other directory.                                                 *)
LEMMA AccessStep ==
  ASSUME ApplyTypeOK, AccessInv, [ApplyNext]_vars
  PROVE  AccessInv'
  <1>1. /\ server \in ServerType /\ spec \in BootstrapSpec /\ key \in 0..MaxApplies
        /\ spec' = spec /\ spec.provider \in BOOLEAN
        /\ store \in StoreType(0..MaxApplies)
    BY KeptAlways DEF ApplyTypeOK, ServerType, BootstrapSpec
  <1>2. /\ server'.run.port \in {spec.loginPort, spec.sshPort}
        /\ server'.conf.port \in {spec.loginPort, spec.sshPort}
        /\ spec.loginPort \in server'.open \/ spec.loginPort = spec.sshPort
        /\ spec.loginByKey => server'.run.pubkey /\ server'.conf.pubkey
    <2>1. CASE server' = server
      BY <2>1 DEF AccessInv
    <2>2. CASE server' = Effect(StepId)
      BY <1>1, <2>2, EffectFields DEF AccessInv
    <2>3. CASE server' = [server EXCEPT !.conf.pubkey = TRUE]
      <3> DEFINE c == [server.conf EXCEPT !.pubkey = TRUE]
      <3>1. server' = [server EXCEPT !.conf = c] /\ c.pubkey /\ c.port = server.conf.port
        BY <1>1, <2>3 DEF ServerType
      <3>2. server'.conf = c /\ server'.run = server.run /\ server'.open = server.open
        BY <1>1, <3>1 DEF ServerType
      <3> QED
        BY <3>1, <3>2 DEF AccessInv
    <2> QED
      BY <2>1, <2>2, <2>3, ServerSteps DEF Effected, Leftovers
  <1>3. ~spec.provider => store'.provided.conf = NoKey
    <2>1. CASE Start
      <3>1. store' = store \/ store' = PersistKeys(store, key')
        BY <2>1 DEF Start
      <3> QED
        BY <1>1, <3>1, PersistedKeys DEF AccessInv
    <2>2. CASE ~Start
      BY <1>1, <2>2, StoreSteps, SavedState DEF Saves, AccessInv
    <2> QED
      BY <2>1, <2>2
  <1> QED
    BY <1>1, <1>2, <1>3 DEF AccessInv

(* An apply begins with a step of the first stage.                         *)
LEMMA FirstStage ==
  ASSUME ApplyTypeOK, Start, Looping'
  PROVE  Stage(StepId') = 1
  <1>1. /\ WellPlanned(plan', spec) /\ results' = <<>> /\ status' = "running"
    BY PlansAreSafe DEF Start, Looping, ApplyTypeOK
  <1>2. /\ plan' \in Seq(Planned) /\ InOrder(plan')
        /\ Has(plan', "configure_nopasswd_sudo")
    BY <1>1 DEF WellPlanned, IsComplete
  <1>3. StepId' = plan'[1].id /\ 1 <= Len(plan')
    BY <1>1 DEF StepId, At, Looping
  <1>4. PICK i \in DOMAIN plan' : plan'[i].id = "configure_nopasswd_sudo"
    BY <1>2 DEF Has
  <1>5. i \in Nat \ {0} /\ 1 \in DOMAIN plan'
    BY <1>2, <1>3, LenProperties
  <1>6. i = 1 \/ 1 < i
    BY <1>5
  <1>7. Stage(plan'[1].id) <= 1
    BY <1>2, <1>4, <1>5, <1>6, ChangingStages DEF InOrder
  <1> QED
    BY <1>3, <1>7, LockStageFacts

(* Between the writing of the new port and its opening the apply goes on.  *)
LEMMA PortChangeGoesOn ==
  ASSUME ResultsInv, [ApplyNext]_vars, NEW o \in Outcomes, Advanced(o),
         Stage(StepId) \in {2, 3}
  PROVE  Looping'
  <1>1. /\ WellPlanned(plan, spec) /\ At \in DOMAIN plan /\ At \in Nat \ {0}
        /\ Looping /\ plan' = plan /\ status' = status /\ status = "running"
    BY AdvancedResults DEF Advanced, Looping
  <1>2. /\ plan \in Seq(Planned) /\ InOrder(plan) /\ Has(plan, Gate2)
        /\ Has(plan, "configure_nopasswd_sudo")
        /\ DOMAIN plan = 1..Len(plan) /\ Len(plan) \in Nat
    BY <1>1, LenProperties DEF WellPlanned, IsComplete
  <1>3. At # 1
    <2>1. PICK i \in DOMAIN plan : plan[i].id = "configure_nopasswd_sudo"
      BY <1>2 DEF Has
    <2>2. i < At
      BY <1>1, <1>2, <2>1, ChangingStages, EarlierStage DEF StepId
    <2> QED
      BY <1>2, <2>1, <2>2
  <1>4. At + 1 <= Len(plan)
    <2>1. PICK i \in DOMAIN plan : plan[i].id = Gate2
      BY <1>2 DEF Has
    <2>2. At < i
      BY <1>1, <1>2, <2>1, Gate2Facts, EarlierStage DEF StepId
    <2> QED
      BY <1>1, <1>2, <2>1, <2>2
  <1>5. At' = At + 1
    <2>1. results \in Seq(Outcomes) /\ results' = Append(results, o)
      BY DEF ResultsInv, Advanced
    <2> QED
      BY <2>1, AppendProperties, LenProperties DEF At
  <1>6. ~plan[At].gate
    <2>1. Stage(Gate1) = 1 /\ Stage(Gate2) = 5
      BY DEF Stage, AccessIds, HardeningIds, Gate1, Gate2
    <2>2. StepId \notin {Gate1, Gate2}
      BY <2>1
    <2> QED
      BY <1>1, <2>2 DEF WellPlanned, InOrder, StepId
  <1>7. abortedAt' = 0
    <2>1. CASE SkipDependent
      BY <1>6, <2>1 DEF SkipDependent
    <2>2. CASE \E outcome \in {"success", "failed"} : ExecuteStep(outcome)
      BY <1>1, <1>3, <1>6, <2>2 DEF ExecuteStep, Fatal, Looping
    <2>3. ~Start /\ ~Crash /\ ~Return
      BY <1>1 DEF Start, Crash, Return, Finish
    <2>4. results' # results
      <3>1. DOMAIN results' = DOMAIN results \cup {At} /\ At \notin DOMAIN results
        BY AdvancedResults
      <3> QED
        BY <3>1
    <2> QED
      BY <2>1, <2>2, <2>3, <2>4, ApplySteps DEF vars, execVars
  <1> QED
    BY <1>1, <1>4, <1>5, <1>7 DEF Looping

(* A tunnel that stands is not torn down.                                  *)
LEMMA TunnelStays ==
  ASSUME ApplyTypeOK, ResultsInv, KeysInv, Premise, TunnelStands, [ApplyNext]_vars
  PROVE  TunnelStands'
  <1>1. /\ spec' = spec /\ env' = env /\ store \in StoreType(0..MaxApplies)
        /\ spec.provider \in BOOLEAN
    BY KeptAlways DEF ApplyTypeOK, BootstrapSpec
  <1>2. ~(Effected /\ StepId = "enable_wireguard")
    BY DEF Effected, Works, TunnelStands
  <1>3. server'.wgRun = server.wgRun /\ server'.wgUdp /\ server'.wgSsh
    BY <1>2, LastingEffects DEF TunnelStands
  <1>4. store'.flat.conf = store.flat.conf
    <2>1. CASE Start
      <3>1. store' = store \/ store' = PersistKeys(store, key')
        BY <2>1 DEF Start
      <3> QED
        BY <1>1, <3>1, PersistedKeys
    <2>2. CASE store' = store
      BY <2>2
    <2>3. CASE Saves
      <3>1. At \in DOMAIN plan /\ WellPlanned(plan, spec)
        <4>1. WellPlanned(plan, spec) /\ At <= Len(plan)
          BY <2>3 DEF Saves, ResultsInv, Looping
        <4>2. Len(results) \in Nat /\ Len(plan) \in Nat /\ DOMAIN plan = 1..Len(plan)
          BY <4>1, LenProperties DEF WellPlanned, ResultsInv
        <4> QED
          BY <4>1, <4>2 DEF At
      <3>2. Has(plan, StepId)
        BY <3>1 DEF Has, StepId
      <3>3. spec.wireguard
        BY <2>3, <3>1, <3>2, TunnelStageFacts DEF WellPlanned, IsComplete, Saves
      <3>4. ~spec.provider /\ key # NoKey
        BY <2>3, <3>3 DEF Premise, KeysInv, Saves, Looping
      <3>5. store'.flat.conf = key
        BY <1>1, <2>3, <3>4, SavedState DEF Saves
      <3> QED
        BY <3>4, <3>5 DEF KeysInv, TunnelStands
    <2> QED
      BY <2>1, <2>2, <2>3, StoreSteps
  <1> QED
    BY <1>1, <1>3, <1>4 DEF TunnelStands

(* When the open rule goes, the tunnel stands.                             *)
LEMMA DeletedBehindTunnel ==
  ASSUME ApplyTypeOK, ResultsInv, VerifiedInv, TunnelInv, AccessInv, LockInv, Premise,
         server.active, Effected, StepId = "delete_open_ssh_rule"
  PROVE  TunnelStands
  <1>1. /\ Looping /\ ~HasFailedDependency(At) /\ Connected /\ Works(StepId)
        /\ ~FirewallOutOfReach
    BY FirewallReached DEF Effected, IsRemoteCommand, UfwSteps
  <1>2. At \in DOMAIN plan /\ WellPlanned(plan, spec)
    <2>1. WellPlanned(plan, spec) /\ At <= Len(plan)
      BY <1>1 DEF ResultsInv, Looping
    <2>2. Len(results) \in Nat /\ Len(plan) \in Nat /\ DOMAIN plan = 1..Len(plan)
      BY <2>1, LenProperties DEF WellPlanned, ResultsInv
    <2> QED
      BY <2>1, <2>2 DEF At
  <1>3. Has(plan, "delete_open_ssh_rule")
    BY <1>2 DEF Has, StepId
  <1>4. spec.wireguard /\ Has(plan, TunnelGate)
    BY <1>2, <1>3, TunnelStageFacts DEF WellPlanned, IsComplete
  <1>5. Reported(TunnelGate, "success")
    BY <1>1, <1>4, NeedIsMet, TunnelStageFacts
  <1>6. ~spec.provider /\ env.client # "no_sudo" /\ TunnelGate \notin faulted
    BY <1>4 DEF Premise, KeepersOfAccess
  <1>7. verified
    BY <1>5, <1>6 DEF TunnelInv
  <1>8. server.wgSsh
    BY <1>1, TunnelStageFacts DEF LockInv
  <1> QED
    BY <1>6, <1>7, <1>8 DEF VerifiedInv, AccessInv, TunnelStands

(* What is asked of the history holds before if it holds after.            *)
LEMMA PremiseKept ==
  ASSUME [ApplyNext]_vars, Premise'
  PROVE  Premise
  <1>1. crashed => crashed'
    BY DEF ApplyNext, Start, RunRemote, CheckLogin, CheckTunnel, RunLocal, Skip, Return,
           Crash, vars, world
  <1> QED
    BY <1>1, KeptAlways, HistorySteps DEF Premise

(* The new port is open, or the firewall out of reach, when it is closed   *)
(* to everything else; the same of the rule for the tunnel when the open   *)
(* one is deleted.                                                         *)
LEMMA OpenedInTime ==
  ASSUME ApplyTypeOK, ResultsInv, LockInv, [ApplyNext]_vars, Premise', Looping'
  PROVE  /\ Stage(StepId') \in 4..9 =>
              spec.sshPort \in server'.open \/ FirewallOutOfReach'
         /\ Stage(StepId') \in {9, 10} =>
              server'.wgSsh \/ FirewallOutOfReach'
  <1>1. /\ server \in ServerType /\ spec \in BootstrapSpec /\ key \in 0..MaxApplies
        /\ spec' = spec /\ Premise
    BY KeptAlways, PremiseKept DEF ApplyTypeOK, ServerType
  <1>2. CASE Start
    BY <1>2, FirstStage
  <1>3. CASE UNCHANGED vars
    <2>1. /\ StepId' = StepId /\ Looping /\ server' = server
          /\ (FirewallOutOfReach' <=> FirewallOutOfReach)
      BY <1>3 DEF vars, world, execVars, StepId, At, Looping, FirewallOutOfReach, Connected,
                  CanLogin, TcpReachable, Passes, RootAuth, AdminAuth
    <2> QED
      BY <1>1, <2>1 DEF LockInv
  <1>4. CASE /\ \E o \in Outcomes : Advanced(o)
             /\ ~Start /\ ~Crash /\ conn' = conn /\ plan' = plan
             /\ Looping /\ At' = At + 1 /\ At \in Nat \ {0}
             /\ At \in DOMAIN plan /\ At + 1 \in DOMAIN plan
             /\ StepId = plan[At].id /\ StepId' = plan[At + 1].id
             /\ WellPlanned(plan, spec)
    <2>1. /\ plan \in Seq(Planned) /\ InOrder(plan)
          /\ Has(plan, "open_new_ssh_port_in_firewall")
      BY <1>4 DEF WellPlanned, IsComplete
    <2>2. Stage(StepId) <= Stage(StepId')
      BY <1>4, <2>1 DEF InOrder
    <2>3. Stage(StepId) \in 1..11 /\ Stage(StepId') \in 1..11
      BY LockStageFacts
    <2>4. PICK o \in Outcomes : Advanced(o)
      BY <1>4
    <2>5. ASSUME Stage(StepId') \in 4..9
          PROVE  spec.sshPort \in server'.open \/ FirewallOutOfReach'
      <3>1. Stage(StepId) \in 3..9
        <4>1. 3 <= Stage(StepId)
          BY <1>4, <2>1, <2>5, LockStageFacts, NoStageIsPassed
        <4> QED
          BY <2>2, <2>3, <2>5, <4>1
      <3>2. CASE Stage(StepId) = 3
        <4>1. StepId = "open_new_ssh_port_in_firewall"
          BY <3>2, LockStageFacts
        <4>2. StepId \notin faulted'
          BY <4>1 DEF Premise, KeepersOfAccess
        <4>3. server' = Effect(StepId) \/ FirewallOutOfReach'
          BY <1>4, <2>4, <4>1, <4>2, UfwStepDone
        <4>4. spec.sshPort \in Effect("open_new_ssh_port_in_firewall").open
          BY <1>1, EffectFields
        <4> QED
          BY <4>1, <4>3, <4>4
      <3>3. CASE Stage(StepId) \in 4..9
        <4>1. spec.sshPort \in server.open \/ FirewallOutOfReach
          BY <1>1, <1>4, <3>3 DEF LockInv
        <4>2. StepId # "delete_open_ssh_rule"
          BY <3>3, ChangingStages
        <4>3. spec.sshPort \in server.open => spec.sshPort \in server'.open
          <5>1. CASE server' = Effect(StepId)
            BY <1>1, <4>2, <5>1, EffectFields
          <5>2. CASE server' = [server EXCEPT !.conf.pubkey = TRUE]
            BY <1>1, <5>2 DEF ServerType
          <5> QED
            BY <5>1, <5>2, ServerSteps DEF Effected, Leftovers
        <4>4. FirewallOutOfReach => FirewallOutOfReach'
          BY <1>4, <3>3, OutOfReachStays
        <4> QED
          BY <4>1, <4>3, <4>4
      <3> QED
        BY <3>1, <3>2, <3>3
    <2>6. ASSUME Stage(StepId') \in {9, 10}
          PROVE  server'.wgSsh \/ FirewallOutOfReach'
      <3>1. Has(plan, "allow_ssh_on_wireguard")
        <4>1. Has(plan, StepId')
          BY <1>4 DEF Has
        <4>2. spec.wireguard
          BY <1>4, <2>6, <4>1 DEF WellPlanned, IsComplete
        <4> QED
          BY <1>4, <4>2 DEF WellPlanned, IsComplete
      <3>2. Stage(StepId) \in 8..10
        <4>1. 8 <= Stage(StepId)
          BY <1>4, <2>1, <2>6, <3>1, LockStageFacts, NoStageIsPassed
        <4> QED
          BY <2>2, <2>3, <2>6, <4>1
      <3>3. CASE Stage(StepId) = 8
        <4>1. StepId = "allow_ssh_on_wireguard"
          BY <3>3, LockStageFacts
        <4>2. StepId \notin faulted'
          BY <4>1 DEF Premise, KeepersOfAccess
        <4>3. server' = Effect(StepId) \/ FirewallOutOfReach'
          BY <1>4, <2>4, <4>1, <4>2, UfwStepDone
        <4>4. Effect("allow_ssh_on_wireguard").wgSsh
          BY <1>1, EffectFields
        <4> QED
          BY <4>1, <4>3, <4>4
      <3>4. CASE Stage(StepId) \in {9, 10}
        <4>1. server.wgSsh \/ FirewallOutOfReach
          BY <1>1, <1>4, <3>4 DEF LockInv
        <4>2. FirewallOutOfReach => FirewallOutOfReach'
          BY <1>4, <3>4, OutOfReachStays
        <4> QED
          BY <4>1, <4>2, LastingEffects
      <3> QED
        BY <3>2, <3>3, <3>4
    <2> QED
      BY <2>5, <2>6
  <1> QED
    BY <1>2, <1>3, <1>4, LoopSteps

(* A server as it was found stays that way until the new port is open.     *)
LEMMA AsFoundStep ==
  ASSUME ApplyTypeOK, ResultsInv, AccessInv, AccessInv', LockInv, AsFound, server.active,
         [ApplyNext]_vars, Premise'
  PROVE  BothOpen' \/ AsFound'
  <1>1. /\ server \in ServerType /\ spec \in BootstrapSpec /\ key \in 0..MaxApplies
        /\ spec' = spec /\ env' = env /\ server'.active
    BY KeptAlways, LastingEffects DEF ApplyTypeOK, ServerType
  <1>2. CASE Start
    <2>1. server' = server /\ status # "running"
      BY <1>2 DEF Start
    <2>2. server.conf.port = spec.loginPort
      BY <2>1 DEF AsFound, Looping
    <2>3. conn' = [user |-> "root", port |-> spec.loginPort]
      BY <1>2 DEF Start, Credentials, TcpReachable, Passes, AsFound
    <2>4. Looping' => Stage(StepId') <= 3
      BY <1>2, FirstStage
    <2> QED
      BY <1>1, <2>1, <2>2, <2>3, <2>4 DEF AsFound
  <1>3. CASE Crash
    BY <1>1, <1>3 DEF Crash, Premise, AsFound
  <1>4. CASE Return
    <2>1. server' = server /\ conn' = conn /\ ~Looping /\ ~Looping' /\ status' # "running"
      BY <1>4 DEF Return, Finish, FinalStatus, world, Looping
    <2> QED
      BY <1>1, <2>1 DEF AsFound
  <1>5. CASE UNCHANGED vars
    <2>1. /\ StepId' = StepId /\ (Looping' <=> Looping) /\ server' = server
          /\ conn' = conn /\ status' = status
      BY <1>5 DEF vars, world, execVars, StepId, At, Looping
    <2> QED
      BY <1>1, <2>1 DEF AsFound
  <1>6. ASSUME NEW o \in Outcomes, Advanced(o), ~Start, ~Crash, conn' = conn
        PROVE  BothOpen' \/ AsFound'
    <2>1. /\ Looping /\ status' = status /\ status = "running"
          /\ Stage(StepId) <= 3 /\ Stage(StepId) \in 1..11
          /\ conn' = [user |-> "root", port |-> spec.loginPort]
      BY <1>6, LockStageFacts DEF AsFound, Advanced, Looping
    <2>2. /\ spec.loginPort \in server'.open
          /\ server'.run.port = spec.loginPort
          /\ server'.run.root /\ server'.run.password
          /\ server'.conf.root /\ server'.conf.password
          /\ server'.conf.port = spec.loginPort \/ Stage(StepId) \in {2, 3}
      <3>1. StepId \notin {"reload_sshd", "reload_sshd_final", "disable_root_login",
                           "disable_password_auth", "delete_open_ssh_rule"}
        BY <2>1, ChangingStages
      <3>2. StepId = "write_sshd_config_candidate" => Stage(StepId) = 2
        BY ChangingStages
      <3>3. StepId = "enable_pubkey_auth" => server.conf.port = spec.loginPort
        BY ChangingStages DEF AsFound
      <3>4. server.conf.port = spec.loginPort \/ Stage(StepId) \in {2, 3}
        BY DEF AsFound
      <3>5. CASE server' = server
        BY <3>4, <3>5 DEF AsFound
      <3>6. CASE server' = Effect(StepId)
        BY <1>1, <3>1, <3>2, <3>3, <3>4, <3>6, EffectFields DEF AsFound
      <3>7. CASE server' = [server EXCEPT !.conf.pubkey = TRUE]
        <4> DEFINE c == [server.conf EXCEPT !.pubkey = TRUE]
        <4>1. /\ server' = [server EXCEPT !.conf = c] /\ c.port = server.conf.port
              /\ c.root = server.conf.root /\ c.password = server.conf.password
          BY <1>1, <3>7 DEF ServerType
        <4>2. server'.conf = c /\ server'.run = server.run /\ server'.open = server.open
          BY <1>1, <4>1 DEF ServerType
        <4> QED
          BY <3>4, <4>1, <4>2 DEF AsFound
      <3> QED
        BY <3>5, <3>6, <3>7, ServerSteps DEF Effected, Leftovers
    <2>3. CASE ~Looping'
      <3>1. server'.conf.port = spec.loginPort
        BY <1>6, <2>2, <2>3, PortChangeGoesOn
      <3> QED
        BY <1>1, <2>1, <2>2, <2>3, <3>1 DEF AsFound
    <2>4. CASE Looping'
      <3>1. /\ plan' = plan /\ At \in Nat \ {0}
            /\ At \in DOMAIN plan /\ At + 1 \in DOMAIN plan
            /\ StepId = plan[At].id /\ StepId' = plan[At + 1].id
            /\ WellPlanned(plan, spec)
        <4>1. results' # results
          <5>1. DOMAIN results' = DOMAIN results \cup {At} /\ At \notin DOMAIN results
            BY <1>6, AdvancedResults
          <5> QED
            BY <5>1
        <4> QED
          BY <1>6, <2>4, <4>1, LoopSteps DEF vars, execVars
      <3>2. /\ plan \in Seq(Planned) /\ InOrder(plan) /\ Has(plan, Gate2)
        BY <3>1 DEF WellPlanned, IsComplete
      <3>3. Stage(StepId) <= Stage(StepId') /\ Stage(StepId') \in 1..11
        BY <3>1, <3>2, LockStageFacts DEF InOrder
      <3>4. Stage(StepId') <= 5
        BY <2>1, <3>1, <3>2, <3>3, Gate2Facts, NoStageIsPassed
      <3>5. CASE Stage(StepId') <= 3
        <4>1. server'.conf.port = spec.loginPort \/ Stage(StepId') \in {2, 3}
          BY <2>2, <3>3, <3>5
        <4> QED
          BY <1>1, <2>1, <2>2, <2>4, <3>5, <4>1 DEF AsFound
      <3>6. CASE Stage(StepId') \in 4..5
        <4>1. spec.sshPort \in server'.open \/ FirewallOutOfReach'
          BY <2>4, <3>6, OpenedInTime
        <4>2. Connected'
          <5>1. TcpReachable(spec.loginPort)'
            BY <1>1, <2>2 DEF TcpReachable, Passes
          <5>2. RootAuth'
            BY <1>1, <2>2 DEF RootAuth, AccessInv
          <5>3. conn'.user = "root" /\ conn'.port = spec.loginPort
            BY <2>1
          <5> QED
            BY <1>1, <5>1, <5>2, <5>3 DEF Connected, CanLogin, TcpReachable, Passes
        <4>3. ~FirewallOutOfReach'
          BY <1>1, <2>1, <4>2 DEF FirewallOutOfReach
        <4> QED
          BY <1>1, <2>2, <4>1, <4>3 DEF BothOpen
      <3> QED
        BY <3>3, <3>4, <3>5, <3>6
    <2> QED
      BY <2>3, <2>4
  <1>7. conn' = conn \/ Start \/ Crash
    BY DEF ApplyNext, RunRemote, CheckLogin, CheckTunnel, RunLocal, Skip, Return, vars, world
  <1>8. CASE SkipDependent
    <2>1. ~Start /\ ~Crash /\ Advanced("skipped") /\ "skipped" \in Outcomes
      BY <1>8 DEF SkipDependent, Looping, Start, Crash, Advanced, Outcomes
    <2> QED
      BY <1>6, <1>7, <2>1
  <1>9. CASE \E outcome \in {"success", "failed"} : ExecuteStep(outcome)
    <2>1. PICK o \in {"success", "failed"} : ExecuteStep(o)
      BY <1>9
    <2>2. ~Start /\ ~Crash /\ Advanced(o) /\ o \in Outcomes
      BY <2>1 DEF ExecuteStep, MayExecute, Looping, Start, Crash, Advanced, Outcomes
    <2> QED
      BY <1>6, <1>7, <2>2
  <1> QED
    BY <1>2, <1>3, <1>4, <1>5, <1>8, <1>9, ApplySteps

(* No step takes the last way in.                                          *)
LEMMA LockStep ==
  ASSUME ApplyTypeOK, ResultsInv, KeysInv, VerifiedInv, TunnelInv,
         AccessInv, AccessInv', LockInv, [ApplyNext]_vars
  PROVE  LockInv'
  <1>1. SUFFICES ASSUME Premise'
        PROVE  /\ Looping' /\ Stage(StepId') \in 4..9 =>
                    spec'.sshPort \in server'.open \/ FirewallOutOfReach'
               /\ Looping' /\ Stage(StepId') \in {9, 10} =>
                    server'.wgSsh \/ FirewallOutOfReach'
               /\ server'.active => BothOpen' \/ TunnelStands' \/ AsFound'
    BY DEF LockInv
  <1>2. /\ server \in ServerType /\ spec \in BootstrapSpec /\ key \in 0..MaxApplies
        /\ spec' = spec /\ Premise
    BY <1>1, KeptAlways, PremiseKept DEF ApplyTypeOK, ServerType
  <1>3. CASE ~server.active /\ server'.active
    <2>1. /\ Effected /\ StepId = "ufw_force_enable"
      BY <1>2, <1>3, LastingEffects DEF ServerType
    <2>2. Looping /\ Stage(StepId) \in 4..9 /\ ~FirewallOutOfReach
      BY <2>1, ChangingStages, FirewallReached DEF Effected, IsRemoteCommand, UfwSteps
    <2>3. BothOpen
      BY <1>2, <2>2 DEF LockInv, AccessInv, BothOpen
    <2>4. server'.open = server.open
      <3>1. CASE server' = Effect(StepId)
        BY <1>2, <2>1, <3>1, EffectFields
      <3> QED
        BY <1>3, <2>1, <3>1 DEF Effected, Leftovers
    <2> QED
      BY <1>1, <1>2, <2>3, <2>4, OpenedInTime DEF BothOpen
  <1>4. CASE server.active
    <2>1. CASE TunnelStands
      BY <1>1, <1>2, <2>1, TunnelStays, OpenedInTime
    <2>2. CASE AsFound
      BY <1>1, <1>2, <1>4, <2>2, AsFoundStep, OpenedInTime
    <2>3. CASE BothOpen
      <3>1. CASE Effected /\ StepId = "delete_open_ssh_rule"
        BY <1>1, <1>2, <1>4, <3>1, DeletedBehindTunnel, TunnelStays, OpenedInTime
      <3>2. CASE ~(Effected /\ StepId = "delete_open_ssh_rule")
        <4>1. server.open \subseteq server'.open
          <5>1. CASE Effected /\ server' = Effect(StepId)
            BY <1>2, <3>2, <5>1, EffectFields
          <5>2. CASE server' = [server EXCEPT !.conf.pubkey = TRUE]
            BY <1>2, <5>2 DEF ServerType
          <5> QED
            BY <5>1, <5>2, ServerSteps DEF Effected, Leftovers
        <4>2. BothOpen'
          BY <1>2, <2>3, <4>1 DEF BothOpen
        <4> QED
          BY <1>1, <1>2, <4>2, OpenedInTime
      <3> QED
        BY <3>1, <3>2
    <2> QED
      BY <1>2, <1>4, <2>1, <2>2, <2>3 DEF LockInv
  <1>5. CASE ~server'.active
    BY <1>1, <1>2, <1>5, OpenedInTime
  <1> QED
    BY <1>3, <1>4, <1>5

(* On a fresh server there is a way in.                                    *)
LEMMA LockInit == InitApply => AccessInv /\ LockInv
  <1> SUFFICES ASSUME InitApply PROVE AccessInv /\ LockInv
    OBVIOUS
  <1>1. PICK s \in Situations :
          /\ spec = s.spec
          /\ env = [udp |-> s.udp, client |-> s.client, firewall |-> s.firewall]
          /\ server = FreshServer(s.spec, s.firewall, s.pubkeyAuth)
    BY DEF InitApply
  <1>2. /\ s.spec.loginByKey => s.pubkeyAuth
        /\ status = "none" /\ store = EmptyStore
    BY SituationsAssumption DEF InitApply
  <1>3. /\ server.run.port = spec.loginPort /\ server.conf.port = spec.loginPort
        /\ server.open = {spec.loginPort} /\ server.run.root /\ server.run.password
        /\ server.conf.root /\ server.conf.password
        /\ (server.run.pubkey <=> s.pubkeyAuth) /\ (server.conf.pubkey <=> s.pubkeyAuth)
        /\ (server.active <=> env.firewall)
    BY <1>1 DEF FreshServer
  <1>4. AccessInv
    BY <1>1, <1>2, <1>3 DEF AccessInv, EmptyStore, NoDir
  <1>5. ~Looping /\ (env.firewall => AsFound)
    BY <1>2, <1>3 DEF Looping, AsFound
  <1> QED
    BY <1>3, <1>4, <1>5 DEF LockInv

(* The new port is open before sshd or the firewall needs it, or a tunnel  *)
(* stands, or the server is as it was found.                               *)
THEOREM LockHolds == ApplySpec => [](AccessInv /\ LockInv)
  <1>1. /\ ApplyTypeOK /\ ResultsInv /\ KeysInv /\ VerifiedInv /\ TunnelInv
        /\ AccessInv /\ LockInv /\ [ApplyNext]_vars
        => AccessInv' /\ LockInv'
    BY AccessStep, LockStep
  <1> QED
    BY <1>1, LockInit, ApplyTypeCorrect, ResultsHold, KeysHold, VerifiedHolds, TunnelHolds,
       PTL DEF ApplySpec

(* Whatever commands fail but the three that keep a way open, and wherever *)
(* clients die, there is a way in at every moment: on every client that    *)
(* can run wg-quick, for every spec whose state is in the flat directory,  *)
(* and on an image with an active firewall as long as no client has died.  *)
THEOREM AlwaysAWayIn == ApplySpec => []NeverLockedOut
  <1>1. AdminInv /\ AccessInv /\ LockInv => NeverLockedOut
    <2>1. SUFFICES ASSUME AdminInv, AccessInv, LockInv, Premise
                   PROVE  WayIn
      BY DEF NeverLockedOut, Premise
    <2>2. AdminAuth \/ RootAuth
      BY <2>1 DEF AdminInv, AccessInv, RootAuth
    <2>3. CASE ~server.active \/ BothOpen
      <3>1. Passes(server.run.port)
        BY <2>1, <2>3 DEF Passes, BothOpen, AccessInv
      <3> QED
        BY <2>2, <3>1 DEF WayIn
    <2>4. CASE AsFound
      <3>1. Passes(server.run.port)
        BY <2>4 DEF Passes, AsFound
      <3> QED
        BY <2>2, <3>1 DEF WayIn
    <2>5. CASE TunnelStands
      <3>1. TunnelReaches(store["flat"].conf)
        BY <2>5 DEF TunnelStands, TunnelReaches
      <3> QED
        BY <2>2, <3>1 DEF WayIn
    <2> QED
      BY <2>1, <2>3, <2>4, <2>5 DEF LockInv
  <1> QED
    BY <1>1, AdminHolds, LockHolds, PTL
=============================================================================
