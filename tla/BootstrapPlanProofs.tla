------------------------- MODULE BootstrapPlanProofs -------------------------
(***************************************************************************)
(* What every plan of _plan_bootstrap has in common, for every spec: which *)
(* steps it has, what they depend on, and the order of its stages.         *)
(***************************************************************************)
EXTENDS BootstrapPlan, SequenceTheorems, TLAPS

AccessIds ==
  {"preflight_connect_root", "detect_os", "apt_update", "install_base_packages",
   "create_admin_user", "configure_nopasswd_sudo", "secure_sudoers_file",
   "install_authorized_keys", "enable_pubkey_auth", Gate1}

HardeningIds ==
  {"disable_root_login", "disable_password_auth", "ufw_default_deny_incoming",
   "ufw_default_allow_outgoing", "ufw_force_enable", "reload_sshd_final"}

ServiceIds ==
  {"set_wireguard_dir_permissions", "write_wireguard_config",
   "open_wireguard_port_in_firewall", "load_wireguard_module",
   "enable_wireguard", "verify_wireguard",
   "ensure_goss_dir", "ship_goss_file", "run_goss_validate"}

LocalIds ==
  {"backup_local_ssh_config", "write_local_ssh_conf_d",
   "ensure_include_directive", "save_local_wireguard_state",
   "open_or_init_local_inventory", "upsert_server_inventory",
   "record_run_metadata"}

BootstrapIds ==
  AccessIds \cup HardeningIds \cup ServiceIds \cup LocalIds
    \cup {"write_sshd_config_candidate", "open_new_ssh_port_in_firewall",
          "validate_sshd_config", "reload_sshd", Gate2,
          "allow_ssh_on_wireguard", TunnelGate, "delete_open_ssh_rule"}

(* The stage of the apply that a step belongs to.                          *)
Stage(id) ==
  IF id \in AccessIds THEN 1
  ELSE IF id = "write_sshd_config_candidate" THEN 2
  ELSE IF id = "open_new_ssh_port_in_firewall" THEN 3
  ELSE IF id \in {"validate_sshd_config", "reload_sshd"} THEN 4
  ELSE IF id = Gate2 THEN 5
  ELSE IF id \in HardeningIds THEN 6
  ELSE IF id \in ServiceIds THEN 7
  ELSE IF id = "allow_ssh_on_wireguard" THEN 8
  ELSE IF id = TunnelGate THEN 9
  ELSE IF id = "delete_open_ssh_rule" THEN 10
  ELSE 11

(* The ids of the steps that a step depends on.                            *)
Needs(id) ==
  IF id = "detect_os" THEN {"preflight_connect_root"}
  ELSE IF id \in {"disable_root_login", "disable_password_auth",
                  "reload_sshd_final"} THEN {Gate2}
  ELSE IF id = "run_goss_validate" THEN {"ship_goss_file"}
  ELSE IF id = "delete_open_ssh_rule" THEN {TunnelGate}
  ELSE {}

(* A step of the draft, of these stages.                                   *)
DraftType ==
  [id : BootstrapIds, scope : Scopes, gate : BOOLEAN, needs : SUBSET BootstrapIds]

IsDraft(d, stages) ==
  /\ d.gate <=> d.id \in {Gate1, Gate2}
  /\ d.scope = "local" <=> Stage(d.id) \in {9, 11}
  /\ d.needs = Needs(d.id)
  /\ Stage(d.id) \in stages

DraftsOf(stages) == {d \in DraftType : IsDraft(d, stages)}

-----------------------------------------------------------------------------
(* Each constructor of steps gives steps of the stages of their ids.       *)

LEMMA RemoteDraft ==
  ASSUME NEW stages, NEW id \in BootstrapIds \ {Gate1, Gate2},
         Stage(id) \in stages, Stage(id) \notin {9, 11}, Needs(id) = {}
  PROVE  /\ Remote(id) \in DraftsOf(stages) /\ Remote(id).id = id
         /\ Verify(id) \in DraftsOf(stages) /\ Verify(id).id = id
  <1> DEFINE d == Draft(id, "remote", FALSE, {})
             e == Draft(id, "verify", FALSE, {})
  <1>1. /\ d \in DraftType /\ d.id = id /\ d.scope = "remote" /\ ~d.gate /\ d.needs = {}
        /\ e \in DraftType /\ e.id = id /\ e.scope = "verify" /\ ~e.gate /\ e.needs = {}
    BY DEF Draft, DraftType, Scopes
  <1>2. IsDraft(d, stages) /\ IsDraft(e, stages)
    BY <1>1 DEF IsDraft
  <1> QED
    BY <1>1, <1>2 DEF Remote, Verify, DraftsOf

(* The same with a step that it depends on.                                *)
LEMMA RemoteOnDraft ==
  ASSUME NEW stages, NEW id \in BootstrapIds \ {Gate1, Gate2}, NEW on \in BootstrapIds,
         Stage(id) \in stages, Stage(id) \notin {9, 11}, Needs(id) = {on}
  PROVE  /\ RemoteOn(id, on) \in DraftsOf(stages) /\ RemoteOn(id, on).id = id
         /\ VerifyOn(id, on) \in DraftsOf(stages) /\ VerifyOn(id, on).id = id
  <1> DEFINE d == Draft(id, "remote", FALSE, {on})
             e == Draft(id, "verify", FALSE, {on})
  <1>1. /\ d \in DraftType /\ d.id = id /\ d.scope = "remote" /\ ~d.gate /\ d.needs = {on}
        /\ e \in DraftType /\ e.id = id /\ e.scope = "verify" /\ ~e.gate /\ e.needs = {on}
    BY DEF Draft, DraftType, Scopes
  <1>2. IsDraft(d, stages) /\ IsDraft(e, stages)
    BY <1>1 DEF IsDraft
  <1> QED
    BY <1>1, <1>2 DEF RemoteOn, VerifyOn, DraftsOf

(* The two login gates.                                                    *)
LEMMA GateDraft ==
  ASSUME NEW stages, NEW id \in {Gate1, Gate2}, Stage(id) \in stages
  PROVE  GateStep(id) \in DraftsOf(stages) /\ GateStep(id).id = id
  <1> DEFINE d == Draft(id, "verify", TRUE, {})
  <1>0. id \in BootstrapIds /\ Needs(id) = {} /\ Stage(id) \notin {9, 11}
    BY DEF BootstrapIds, AccessIds, Needs, Gate1, Gate2, TunnelGate, Stage
  <1>1. d \in DraftType /\ d.id = id /\ d.scope = "verify" /\ d.gate /\ d.needs = {}
    BY <1>0 DEF Draft, DraftType, Scopes
  <1>2. IsDraft(d, stages)
    BY <1>0, <1>1 DEF IsDraft
  <1> QED
    BY <1>1, <1>2 DEF GateStep, DraftsOf

(* The local steps.                                                        *)
LEMMA LocalDraft ==
  ASSUME NEW stages, NEW id \in BootstrapIds \ {Gate1, Gate2},
         Stage(id) \in stages, Stage(id) \in {9, 11}, Needs(id) = {}
  PROVE  LocalStep(id) \in DraftsOf(stages) /\ LocalStep(id).id = id
  <1> DEFINE d == Draft(id, "local", FALSE, {})
  <1>1. d \in DraftType /\ d.id = id /\ d.scope = "local" /\ ~d.gate /\ d.needs = {}
    BY DEF Draft, DraftType, Scopes
  <1>2. IsDraft(d, stages)
    BY <1>1 DEF IsDraft
  <1> QED
    BY <1>1, <1>2 DEF LocalStep, DraftsOf

-----------------------------------------------------------------------------
(* Steps of a block: of these stages, in their order.                      *)
InStages(steps, stages) ==
  /\ steps \in Seq(DraftsOf(stages))
  /\ \A i, j \in DOMAIN steps : i < j => Stage(steps[i].id) <= Stage(steps[j].id)

(* A block of one stage is in order.                                       *)
LEMMA OneStage ==
  ASSUME NEW k \in Nat, NEW steps \in Seq(DraftsOf({k}))
  PROVE  InStages(steps, {k})
  <1>1. \A i \in DOMAIN steps : steps[i] \in DraftsOf({k})
    OBVIOUS
  <1> QED
    BY <1>1 DEF InStages, DraftsOf, IsDraft

(* So is an empty one.                                                     *)
LEMMA EmptyBlock == ASSUME NEW stages PROVE InStages(<<>>, stages)
  BY DEF InStages

(* A block under a condition is there or empty.                            *)
LEMMA WhenIs ==
  ASSUME NEW condition, NEW steps
  PROVE  When(condition, steps) \in {steps, <<>>}
  BY DEF When

(* A block of some stages is one of more stages.                           *)
LEMMA StagesWiden ==
  ASSUME NEW a, NEW S, NEW T, S \subseteq T, InStages(a, S)
  PROVE  InStages(a, T)
  <1>1. DraftsOf(S) \subseteq DraftsOf(T)
    BY DEF DraftsOf, IsDraft
  <1> QED
    BY <1>1, SeqMonotonic DEF InStages

(* Blocks are in order one behind the other if their stages are.           *)
LEMMA JoinedStages ==
  ASSUME NEW a, NEW b, NEW S \in SUBSET Nat, NEW T \in SUBSET Nat,
         InStages(a, S), InStages(b, T), \A m \in S, n \in T : m <= n
  PROVE  InStages(a \o b, S \cup T)
  <1> DEFINE U == S \cup T
  <1>1. InStages(a, U) /\ InStages(b, U)
    BY StagesWiden
  <1>2. /\ a \o b \in Seq(DraftsOf(U))
        /\ Len(a) \in Nat /\ Len(b) \in Nat
        /\ DOMAIN a = 1..Len(a) /\ DOMAIN b = 1..Len(b)
        /\ DOMAIN (a \o b) = 1..(Len(a) + Len(b))
        /\ \A i \in 1..(Len(a) + Len(b)) :
             (a \o b)[i] = IF i <= Len(a) THEN a[i] ELSE b[i - Len(a)]
    BY <1>1, ConcatProperties, LenProperties DEF InStages
  <1>3. \A i \in DOMAIN a : Stage(a[i].id) \in S
    BY DEF InStages, DraftsOf, IsDraft
  <1>4. \A i \in DOMAIN b : Stage(b[i].id) \in T
    BY DEF InStages, DraftsOf, IsDraft
  <1>5. ASSUME NEW i \in DOMAIN (a \o b), NEW j \in DOMAIN (a \o b), i < j
        PROVE  Stage((a \o b)[i].id) <= Stage((a \o b)[j].id)
    <2>1. CASE j <= Len(a)
      <3>1. i \in DOMAIN a /\ j \in DOMAIN a
        BY <1>2, <1>5, <2>1
      <3>2. (a \o b)[i] = a[i] /\ (a \o b)[j] = a[j]
        BY <1>2, <1>5, <2>1
      <3> QED
        BY <1>5, <3>1, <3>2 DEF InStages
    <2>2. CASE i <= Len(a) /\ ~(j <= Len(a))
      <3>1. i \in DOMAIN a /\ j - Len(a) \in DOMAIN b
        BY <1>2, <1>5, <2>2
      <3>2. (a \o b)[i] = a[i] /\ (a \o b)[j] = b[j - Len(a)]
        BY <1>2, <1>5, <2>2
      <3> QED
        BY <1>3, <1>4, <3>1, <3>2
    <2>3. CASE ~(i <= Len(a))
      <3>1. i - Len(a) \in DOMAIN b /\ j - Len(a) \in DOMAIN b /\ i - Len(a) < j - Len(a)
        BY <1>2, <1>5, <2>3
      <3>2. (a \o b)[i] = b[i - Len(a)] /\ (a \o b)[j] = b[j - Len(a)]
        BY <1>2, <1>5, <2>3
      <3> QED
        BY <3>1, <3>2 DEF InStages
    <2> QED
      BY <1>2, <1>5, <2>1, <2>2, <2>3
  <1> QED
    BY <1>2, <1>5 DEF InStages

-----------------------------------------------------------------------------
(* The blocks of _plan_bootstrap.                                          *)

LEMMA AccessBlock == InStages(AccessSteps, {1})
  <1>1. \A id \in AccessIds \ {Gate1, "detect_os"} :
           id \in BootstrapIds \ {Gate1, Gate2} /\ Stage(id) = 1 /\ Needs(id) = {}
    BY DEF AccessIds, BootstrapIds, Stage, Needs, Gate1, Gate2
  <1>2. /\ "detect_os" \in BootstrapIds \ {Gate1, Gate2} /\ Stage("detect_os") = 1
        /\ Needs("detect_os") = {"preflight_connect_root"}
        /\ "preflight_connect_root" \in BootstrapIds
    BY DEF AccessIds, BootstrapIds, Stage, Needs, Gate1, Gate2
  <1>3. \A id \in AccessIds \ {Gate1, "detect_os"} : Remote(id) \in DraftsOf({1})
    BY <1>1, RemoteDraft
  <1>4. RemoteOn("detect_os", "preflight_connect_root") \in DraftsOf({1})
    BY <1>2, RemoteOnDraft
  <1>5. AccessSteps \in Seq(DraftsOf({1}))
    BY <1>3, <1>4 DEF AccessSteps, AccessIds, Gate1
  <1> QED
    BY <1>5, OneStage

(* Hardening is of stage 6.                                                *)
LEMMA HardeningBlock == InStages(HardeningSteps, {6})
  <1> DEFINE Bound == {"disable_root_login", "disable_password_auth", "reload_sshd_final"}
  <1>1. \A id \in HardeningIds \ Bound :
           id \in BootstrapIds \ {Gate1, Gate2} /\ Stage(id) = 6 /\ Needs(id) = {}
    BY DEF HardeningIds, AccessIds, BootstrapIds, Stage, Needs, Gate1, Gate2
  <1>2. \A id \in Bound :
           id \in BootstrapIds \ {Gate1, Gate2} /\ Stage(id) = 6 /\ Needs(id) = {Gate2}
    BY DEF HardeningIds, AccessIds, BootstrapIds, Stage, Needs, Gate1, Gate2
  <1>3. \A id \in HardeningIds \ Bound : Remote(id) \in DraftsOf({6})
    BY <1>1, RemoteDraft
  <1>4. \A id \in Bound : RemoteOn(id, Gate2) \in DraftsOf({6})
    BY <1>2, RemoteOnDraft DEF BootstrapIds
  <1>5. HardeningSteps \in Seq(DraftsOf({6}))
    BY <1>3, <1>4 DEF HardeningSteps, HardeningIds
  <1> QED
    BY <1>5, OneStage

(* WireGuard and goss are of stage 7, and depend on little.                *)
LEMMA ServiceFacts ==
  \A id \in ServiceIds :
     /\ id \in BootstrapIds \ {Gate1, Gate2} /\ Stage(id) = 7
     /\ Needs(id) = IF id = "run_goss_validate" THEN {"ship_goss_file"} ELSE {}
  BY DEF ServiceIds, HardeningIds, AccessIds, BootstrapIds, Stage, Needs, Gate1, Gate2

(* The WireGuard steps are of stage 7.                                     *)
LEMMA WireguardBlock == InStages(WireguardSteps, {7})
  <1>1. \A id \in ServiceIds \ {"run_goss_validate"} :
           Remote(id) \in DraftsOf({7}) /\ Verify(id) \in DraftsOf({7})
    BY ServiceFacts, RemoteDraft
  <1>2. WireguardSteps \in Seq(DraftsOf({7}))
    BY <1>1 DEF WireguardSteps, ServiceIds
  <1> QED
    BY <1>2, OneStage

(* The goss steps are of stage 7.                                          *)
LEMMA GossBlock == InStages(GossSteps, {7})
  <1>1. \A id \in ServiceIds \ {"run_goss_validate"} : Remote(id) \in DraftsOf({7})
    BY ServiceFacts, RemoteDraft
  <1>2. VerifyOn("run_goss_validate", "ship_goss_file") \in DraftsOf({7})
    BY ServiceFacts, RemoteOnDraft DEF ServiceIds
  <1>3. GossSteps \in Seq(DraftsOf({7}))
    BY <1>1, <1>2 DEF GossSteps, ServiceIds
  <1> QED
    BY <1>3, OneStage

(* What is kept on the client is of stage 11 and depends on nothing.       *)
LEMMA LocalFacts ==
  \A id \in LocalIds :
     id \in BootstrapIds \ {Gate1, Gate2} /\ Stage(id) = 11 /\ Needs(id) = {}
  BY DEF LocalIds, ServiceIds, HardeningIds, AccessIds, BootstrapIds, Stage, Needs,
         Gate1, Gate2, TunnelGate

(* The local steps are of stage 11.                                        *)
LEMMA LocalBlock == ASSUME NEW s PROVE InStages(LocalSteps(s), {11})
  <1>1. \A id \in LocalIds : LocalStep(id) \in DraftsOf({11})
    BY LocalFacts, LocalDraft
  <1>2. <<LocalStep("save_local_wireguard_state")>> \in Seq(DraftsOf({11}))
    BY <1>1 DEF LocalIds
  <1>3. When(s.wireguard, <<LocalStep("save_local_wireguard_state")>>)
          \in Seq(DraftsOf({11}))
    <2> DEFINE saved == <<LocalStep("save_local_wireguard_state")>>
    <2>1. saved \in Seq(DraftsOf({11})) /\ <<>> \in Seq(DraftsOf({11}))
      BY <1>2
    <2>2. When(s.wireguard, saved) \in {saved, <<>>}
      BY WhenIs
    <2> QED
      BY <2>1, <2>2
  <1>4. << LocalStep("backup_local_ssh_config"),
          LocalStep("write_local_ssh_conf_d"),
          LocalStep("ensure_include_directive") >> \in Seq(DraftsOf({11}))
    BY <1>1 DEF LocalIds
  <1>5. << LocalStep("open_or_init_local_inventory"),
          LocalStep("upsert_server_inventory"),
          LocalStep("record_run_metadata") >> \in Seq(DraftsOf({11}))
    BY <1>1 DEF LocalIds
  <1>6. LocalSteps(s) \in Seq(DraftsOf({11}))
    BY <1>3, <1>4, <1>5, ConcatProperties DEF LocalSteps
  <1> QED
    BY <1>6, OneStage

(* The steps of these blocks stand in stages of their own, but for two.    *)
LEMMA PortChangeBlock == ASSUME NEW s PROVE InStages(PortChangeSteps(s), 1..5)
  <1> DEFINE change ==
        << Remote("write_sshd_config_candidate"),
           Remote("open_new_ssh_port_in_firewall"),
           Remote("validate_sshd_config"),
           Remote("reload_sshd"),
           GateStep(Gate2) >>
        gate == When(s.pubkeys, <<GateStep(Gate1)>>)
  <1>1. /\ \A id \in {"write_sshd_config_candidate", "open_new_ssh_port_in_firewall",
                      "validate_sshd_config", "reload_sshd"} :
              /\ id \in BootstrapIds \ {Gate1, Gate2} /\ Needs(id) = {}
              /\ Stage(id) \in 2..5 /\ Stage(id) \notin {9, 11}
        /\ Stage("write_sshd_config_candidate") = 2
        /\ Stage("open_new_ssh_port_in_firewall") = 3
        /\ Stage("validate_sshd_config") = 4 /\ Stage("reload_sshd") = 4
        /\ Stage(Gate2) = 5 /\ Stage(Gate1) = 1
    BY DEF BootstrapIds, AccessIds, Stage, Needs, Gate1, Gate2
  <1>2. /\ \A id \in {"write_sshd_config_candidate", "open_new_ssh_port_in_firewall",
                      "validate_sshd_config", "reload_sshd"} :
              Remote(id) \in DraftsOf(2..5) /\ Remote(id).id = id
        /\ GateStep(Gate2) \in DraftsOf(2..5) /\ GateStep(Gate2).id = Gate2
        /\ GateStep(Gate1) \in DraftsOf({1})
    BY <1>1, RemoteDraft, GateDraft
  <1>3. change \in Seq(DraftsOf(2..5))
    BY <1>2
  <1>4. InStages(change, 2..5)
    <2>1. DOMAIN change = 1..5
      OBVIOUS
    <2>2. /\ Stage(change[1].id) = 2 /\ Stage(change[2].id) = 3
          /\ Stage(change[3].id) = 4 /\ Stage(change[4].id) = 4
          /\ Stage(change[5].id) = 5
      BY <1>1, <1>2
    <2>3. \A i \in 1..5 : i = 1 \/ i = 2 \/ i = 3 \/ i = 4 \/ i = 5
      OBVIOUS
    <2> HIDE DEF change
    <2>4. \A i, j \in 1..5 : i < j => Stage(change[i].id) <= Stage(change[j].id)
      BY <2>2, <2>3
    <2> QED
      BY <1>3, <2>1, <2>4 DEF InStages
  <1>5. InStages(gate, {1})
    <2>1. <<GateStep(Gate1)>> \in Seq(DraftsOf({1}))
      BY <1>2
    <2> QED
      BY <2>1, OneStage, EmptyBlock, WhenIs
  <1>6. InStages(gate \o change, {1} \cup 2..5)
    BY <1>4, <1>5, JoinedStages
  <1>7. {1} \cup 2..5 = 1..5
    OBVIOUS
  <1> QED
    BY <1>6, <1>7 DEF PortChangeSteps

(* The restriction of SSH to the tunnel spans stages 8 to 10.              *)
LEMMA RestrictionBlock == InStages(RestrictionSteps, 8..10)
  <1>1. /\ "allow_ssh_on_wireguard" \in BootstrapIds \ {Gate1, Gate2}
        /\ Needs("allow_ssh_on_wireguard") = {} /\ Stage("allow_ssh_on_wireguard") = 8
        /\ TunnelGate \in BootstrapIds \ {Gate1, Gate2}
        /\ Needs(TunnelGate) = {} /\ Stage(TunnelGate) = 9
        /\ "delete_open_ssh_rule" \in BootstrapIds \ {Gate1, Gate2}
        /\ Needs("delete_open_ssh_rule") = {TunnelGate} /\ Stage("delete_open_ssh_rule") = 10
    BY DEF BootstrapIds, AccessIds, HardeningIds, ServiceIds, Stage, Needs,
           Gate1, Gate2, TunnelGate
  <1>2. Remote("allow_ssh_on_wireguard") \in DraftsOf(8..10)
          /\ Remote("allow_ssh_on_wireguard").id = "allow_ssh_on_wireguard"
    BY <1>1, RemoteDraft
  <1>3. LocalStep(TunnelGate) \in DraftsOf(8..10) /\ LocalStep(TunnelGate).id = TunnelGate
    BY <1>1, LocalDraft
  <1>4. RemoteOn("delete_open_ssh_rule", TunnelGate) \in DraftsOf(8..10)
          /\ RemoteOn("delete_open_ssh_rule", TunnelGate).id = "delete_open_ssh_rule"
    BY <1>1, RemoteOnDraft
  <1>5. RestrictionSteps \in Seq(DraftsOf(8..10)) /\ DOMAIN RestrictionSteps = 1..3
    BY <1>2, <1>3, <1>4 DEF RestrictionSteps
  <1>6. /\ Stage(RestrictionSteps[1].id) = 8 /\ Stage(RestrictionSteps[2].id) = 9
        /\ Stage(RestrictionSteps[3].id) = 10
    BY <1>1, <1>2, <1>3, <1>4 DEF RestrictionSteps
  <1>7. \A i \in 1..3 : i = 1 \/ i = 2 \/ i = 3
    OBVIOUS
  <1>8. \A i, j \in 1..3 :
           i < j => Stage(RestrictionSteps[i].id) <= Stage(RestrictionSteps[j].id)
    BY <1>6, <1>7
  <1> QED
    BY <1>5, <1>8 DEF InStages

-----------------------------------------------------------------------------
(* The draft, and the plan.                                                *)

LEMMA DraftStages == ASSUME NEW s PROVE InStages(PlanBootstrap(s), 1..11)
  <1> DEFINE W == When(s.wireguard, WireguardSteps)
             R == When(s.wireguard, RestrictionSteps)
             b1 == AccessSteps \o PortChangeSteps(s)
             b2 == b1 \o HardeningSteps
             b3 == b2 \o W
             b4 == b3 \o GossSteps
             b5 == b4 \o R
  <1>2. InStages(b1, {1} \cup 1..5)
    BY AccessBlock, PortChangeBlock, JoinedStages
  <1>3. InStages(b2, ({1} \cup 1..5) \cup {6})
    BY <1>2, HardeningBlock, JoinedStages
  <1>4. InStages(W, {7})
    BY WhenIs, WireguardBlock, EmptyBlock
  <1>5. InStages(b3, (({1} \cup 1..5) \cup {6}) \cup {7})
    BY <1>3, <1>4, JoinedStages
  <1>6. InStages(b4, ((({1} \cup 1..5) \cup {6}) \cup {7}) \cup {7})
    BY <1>5, GossBlock, JoinedStages
  <1>7. InStages(R, 8..10)
    BY WhenIs, RestrictionBlock, EmptyBlock
  <1>8. InStages(b5, (((({1} \cup 1..5) \cup {6}) \cup {7}) \cup {7}) \cup 8..10)
    BY <1>6, <1>7, JoinedStages
  <1>9. InStages(b5 \o LocalSteps(s),
                 ((((({1} \cup 1..5) \cup {6}) \cup {7}) \cup {7}) \cup 8..10) \cup {11})
    BY <1>8, LocalBlock, JoinedStages
  <1>10. ((((({1} \cup 1..5) \cup {6}) \cup {7}) \cup {7}) \cup 8..10) \cup {11} = 1..11
    OBVIOUS
  <1> QED
    BY <1>9, <1>10 DEF PlanBootstrap

(* The steps that a draft, or a plan, has.                                 *)
Has(steps, id) == \E i \in DOMAIN steps : steps[i].id = id

(* Joined blocks have the steps of both.                                   *)
LEMMA HasJoined ==
  ASSUME NEW S, NEW a \in Seq(S), NEW b \in Seq(S), NEW id
  PROVE  Has(a \o b, id) <=> Has(a, id) \/ Has(b, id)
  <1>1. /\ Len(a) \in Nat /\ Len(b) \in Nat
        /\ DOMAIN a = 1..Len(a) /\ DOMAIN b = 1..Len(b)
        /\ DOMAIN (a \o b) = 1..(Len(a) + Len(b))
        /\ \A i \in 1..(Len(a) + Len(b)) :
             (a \o b)[i] = IF i <= Len(a) THEN a[i] ELSE b[i - Len(a)]
    BY ConcatProperties, LenProperties
  <1>2. ASSUME NEW i \in DOMAIN (a \o b), (a \o b)[i].id = id
        PROVE  Has(a, id) \/ Has(b, id)
    <2>1. CASE i <= Len(a)
      BY <1>1, <1>2, <2>1 DEF Has
    <2>2. CASE ~(i <= Len(a))
      <3>1. i - Len(a) \in DOMAIN b /\ b[i - Len(a)].id = id
        BY <1>1, <1>2, <2>2
      <3> QED
        BY <3>1 DEF Has
    <2> QED
      BY <2>1, <2>2
  <1>3. ASSUME NEW i \in DOMAIN a, a[i].id = id
        PROVE  Has(a \o b, id)
    <2>1. i \in DOMAIN (a \o b) /\ (a \o b)[i] = a[i]
      BY <1>1
    <2> QED
      BY <1>3, <2>1 DEF Has
  <1>4. ASSUME NEW i \in DOMAIN b, b[i].id = id
        PROVE  Has(a \o b, id)
    <2>1. Len(a) + i \in DOMAIN (a \o b) /\ (a \o b)[Len(a) + i] = b[i]
      BY <1>1
    <2> QED
      BY <1>4, <2>1 DEF Has
  <1> QED
    BY <1>2, <1>3, <1>4 DEF Has

(* A block has only steps of its stages.                                   *)
LEMMA StagesHave ==
  ASSUME NEW steps, NEW stages, InStages(steps, stages), NEW id, Has(steps, id)
  PROVE  Stage(id) \in stages
  BY DEF InStages, DraftsOf, IsDraft, Has

(* An empty block has none.                                                *)
LEMMA EmptyHas == ASSUME NEW id PROVE ~Has(<<>>, id)
  BY DEF Has

(* The draft has the steps of its blocks.                                  *)
LEMMA DraftHas ==
  ASSUME NEW s, NEW id
  PROVE  Has(PlanBootstrap(s), id) <=>
           \/ Has(AccessSteps, id) \/ Has(PortChangeSteps(s), id)
           \/ Has(HardeningSteps, id) \/ Has(When(s.wireguard, WireguardSteps), id)
           \/ Has(GossSteps, id) \/ Has(When(s.wireguard, RestrictionSteps), id)
           \/ Has(LocalSteps(s), id)
  <1> DEFINE S == DraftsOf(1..11)
             W == When(s.wireguard, WireguardSteps)
             R == When(s.wireguard, RestrictionSteps)
             b1 == AccessSteps \o PortChangeSteps(s)
             b2 == b1 \o HardeningSteps
             b3 == b2 \o W
             b4 == b3 \o GossSteps
             b5 == b4 \o R
  <1>1. /\ InStages(W, {7}) /\ InStages(R, 8..10)
    BY WhenIs, WireguardBlock, RestrictionBlock, EmptyBlock
  <1>2. /\ AccessSteps \in Seq(S) /\ PortChangeSteps(s) \in Seq(S)
        /\ HardeningSteps \in Seq(S) /\ W \in Seq(S) /\ GossSteps \in Seq(S)
        /\ R \in Seq(S) /\ LocalSteps(s) \in Seq(S)
    <2>1. {1} \subseteq 1..11 /\ 1..5 \subseteq 1..11 /\ {6} \subseteq 1..11
          /\ {7} \subseteq 1..11 /\ 8..10 \subseteq 1..11 /\ {11} \subseteq 1..11
      OBVIOUS
    <2>2. /\ InStages(AccessSteps, 1..11) /\ InStages(PortChangeSteps(s), 1..11)
          /\ InStages(HardeningSteps, 1..11) /\ InStages(W, 1..11)
          /\ InStages(GossSteps, 1..11) /\ InStages(R, 1..11)
          /\ InStages(LocalSteps(s), 1..11)
      BY <1>1, <2>1, AccessBlock, PortChangeBlock, HardeningBlock, GossBlock,
         LocalBlock, StagesWiden
    <2> QED
      BY <2>2 DEF InStages
  <1> HIDE DEF W, R, S
  <1>3. b1 \in Seq(S) /\ (Has(b1, id) <=> Has(AccessSteps, id) \/ Has(PortChangeSteps(s), id))
    BY <1>2, ConcatProperties, HasJoined
  <1>4. b2 \in Seq(S) /\ (Has(b2, id) <=> Has(b1, id) \/ Has(HardeningSteps, id))
    BY <1>2, <1>3, ConcatProperties, HasJoined
  <1>5. b3 \in Seq(S) /\ (Has(b3, id) <=> Has(b2, id) \/ Has(W, id))
    BY <1>2, <1>4, ConcatProperties, HasJoined
  <1>6. b4 \in Seq(S) /\ (Has(b4, id) <=> Has(b3, id) \/ Has(GossSteps, id))
    BY <1>2, <1>5, ConcatProperties, HasJoined
  <1>7. b5 \in Seq(S) /\ (Has(b5, id) <=> Has(b4, id) \/ Has(R, id))
    BY <1>2, <1>6, ConcatProperties, HasJoined
  <1>8. Has(b5 \o LocalSteps(s), id) <=> Has(b5, id) \/ Has(LocalSteps(s), id)
    BY <1>2, <1>7, HasJoined
  <1> QED
    BY <1>3, <1>4, <1>5, <1>6, <1>7, <1>8 DEF PlanBootstrap, W, R

(* The steps that give access, prove it and close the others are there;    *)
(* those about the tunnel just when there is to be one.                    *)
LEMMA DraftHasSteps ==
  ASSUME NEW s \in BootstrapSpec
  PROVE  LET draft == PlanBootstrap(s)
         IN  /\ Has(draft, "configure_nopasswd_sudo")
             /\ Has(draft, "open_new_ssh_port_in_firewall")
             /\ Has(draft, Gate2)
             /\ Has(draft, "ufw_force_enable")
             /\ s.wireguard => /\ Has(draft, "allow_ssh_on_wireguard")
                               /\ Has(draft, TunnelGate)
             /\ \A id : Has(draft, id) /\ (Stage(id) \in 8..10
                           \/ id = "save_local_wireguard_state") => s.wireguard
  <1>1. Has(AccessSteps, "configure_nopasswd_sudo")
    <2>1. 6 \in DOMAIN AccessSteps /\ AccessSteps[6].id = "configure_nopasswd_sudo"
      BY DEF AccessSteps, Remote, Draft
    <2> QED
      BY <2>1 DEF Has
  <1>2. Has(PortChangeSteps(s), "open_new_ssh_port_in_firewall") /\ Has(PortChangeSteps(s), Gate2)
    <2> DEFINE change ==
        << Remote("write_sshd_config_candidate"),
           Remote("open_new_ssh_port_in_firewall"),
           Remote("validate_sshd_config"),
           Remote("reload_sshd"),
           GateStep(Gate2) >>
        gate == When(s.pubkeys, <<GateStep(Gate1)>>)
        S == {GateStep(Gate1)} \cup {change[i] : i \in 1..5}
    <2>1. 2 \in DOMAIN change /\ change[2].id = "open_new_ssh_port_in_firewall"
          /\ 5 \in DOMAIN change /\ change[5].id = Gate2
      BY DEF Remote, GateStep, Draft
    <2>2. Has(change, "open_new_ssh_port_in_firewall") /\ Has(change, Gate2)
      BY <2>1 DEF Has
    <2>3. change \in Seq(S)
      OBVIOUS
    <2>4. gate \in Seq(S)
      <3>1. <<GateStep(Gate1)>> \in Seq(S) /\ <<>> \in Seq(S)
        OBVIOUS
      <3>2. gate \in {<<GateStep(Gate1)>>, <<>>}
        BY WhenIs
      <3> QED
        BY <3>1, <3>2
    <2> HIDE DEF change, gate, S
    <2>5. Has(gate \o change, "open_new_ssh_port_in_firewall") /\ Has(gate \o change, Gate2)
      BY <2>2, <2>3, <2>4, HasJoined
    <2> QED
      BY <2>5 DEF PortChangeSteps, gate, change
  <1>3. Has(HardeningSteps, "ufw_force_enable")
    <2>1. 5 \in DOMAIN HardeningSteps /\ HardeningSteps[5].id = "ufw_force_enable"
      BY DEF HardeningSteps, Remote, Draft
    <2> QED
      BY <2>1 DEF Has
  <1>4. Has(RestrictionSteps, "allow_ssh_on_wireguard") /\ Has(RestrictionSteps, TunnelGate)
    <2>1. /\ 1 \in DOMAIN RestrictionSteps /\ RestrictionSteps[1].id = "allow_ssh_on_wireguard"
          /\ 2 \in DOMAIN RestrictionSteps /\ RestrictionSteps[2].id = TunnelGate
      BY DEF RestrictionSteps, Remote, LocalStep, Draft
    <2> QED
      BY <2>1 DEF Has
  <1>5. s.wireguard \in BOOLEAN
    BY DEF BootstrapSpec
  <1>6. s.wireguard => When(s.wireguard, RestrictionSteps) = RestrictionSteps
    BY DEF When
  <1>7. ASSUME NEW id, Has(PlanBootstrap(s), id), ~s.wireguard
        PROVE  Stage(id) \notin 8..10 /\ id # "save_local_wireguard_state"
    <2>1. /\ When(s.wireguard, RestrictionSteps) = <<>>
          /\ When(s.wireguard, WireguardSteps) = <<>>
          /\ When(s.wireguard, <<LocalStep("save_local_wireguard_state")>>) = <<>>
      BY <1>7 DEF When
    <2>2. \/ Has(AccessSteps, id) \/ Has(PortChangeSteps(s), id)
          \/ Has(HardeningSteps, id) \/ Has(GossSteps, id) \/ Has(LocalSteps(s), id)
      BY <1>7, <2>1, DraftHas, EmptyHas
    <2>3. CASE ~Has(LocalSteps(s), id)
      <3>1. Stage(id) \in {1} \/ Stage(id) \in 1..5 \/ Stage(id) \in {6} \/ Stage(id) \in {7}
        BY <2>2, <2>3, AccessBlock, PortChangeBlock, HardeningBlock, GossBlock, StagesHave
      <3>2. Stage("save_local_wireguard_state") = 11
        BY LocalFacts DEF LocalIds
      <3> QED
        BY <3>1, <3>2
    <2>4. CASE Has(LocalSteps(s), id)
      <3> DEFINE front == << LocalStep("backup_local_ssh_config"),
                             LocalStep("write_local_ssh_conf_d"),
                             LocalStep("ensure_include_directive") >>
                 back == << LocalStep("open_or_init_local_inventory"),
                            LocalStep("upsert_server_inventory"),
                            LocalStep("record_run_metadata") >>
                 S == {front[i] : i \in 1..3} \cup {back[i] : i \in 1..3}
      <3>1. Stage(id) = 11
        BY <2>4, LocalBlock, StagesHave
      <3>2. front \in Seq(S) /\ back \in Seq(S) /\ <<>> \in Seq(S)
        OBVIOUS
      <3>3. ~Has(front, "save_local_wireguard_state") /\ ~Has(back, "save_local_wireguard_state")
        BY DEF Has, LocalStep, Draft
      <3> HIDE DEF front, back, S
      <3>4. ~Has((front \o <<>>) \o back, "save_local_wireguard_state")
        BY <3>2, <3>3, HasJoined, EmptyHas, ConcatProperties
      <3>5. LocalSteps(s) = (front \o <<>>) \o back
        BY <2>1 DEF LocalSteps, front, back
      <3> QED
        BY <2>4, <3>1, <3>4, <3>5
    <2> QED
      BY <2>3, <2>4
  <1> QED
    BY <1>1, <1>2, <1>3, <1>4, <1>5, <1>6, <1>7, DraftHas

-----------------------------------------------------------------------------
(* What is common to all plans.                                            *)

Planned == [id : BootstrapIds, scope : Scopes, gate : BOOLEAN, deps : SUBSET (Nat \ {0})]

(* The gates are the two logins of the admin; the tunnel's check and the   *)
(* steps of the last stage are local; the steps depend on what they need;  *)
(* and the stages follow one another.                                      *)
InOrder(p) ==
  /\ \A i \in DOMAIN p :
       /\ p[i].gate <=> p[i].id \in {Gate1, Gate2}
       /\ p[i].scope = "local" <=> Stage(p[i].id) \in {9, 11}
       /\ p[i].deps = {j \in DOMAIN p : p[j].id \in Needs(p[i].id)}
  /\ \A i, j \in DOMAIN p : i < j => Stage(p[i].id) <= Stage(p[j].id)

IsComplete(p, s) ==
  /\ Has(p, "configure_nopasswd_sudo")
  /\ Has(p, "open_new_ssh_port_in_firewall")
  /\ Has(p, Gate2)
  /\ Has(p, "ufw_force_enable")
  /\ s.wireguard => Has(p, "allow_ssh_on_wireguard") /\ Has(p, TunnelGate)
  /\ \A id : Has(p, id) /\ (Stage(id) \in 8..10 \/ id = "save_local_wireguard_state")
                => s.wireguard

WellPlanned(p, s) == p \in Seq(Planned) /\ InOrder(p) /\ IsComplete(p, s)

(* Whatever the spec says, its plan has the steps that give access, prove  *)
(* it and close the others, in this order of stages, and every step that   *)
(* takes access away depends on the check of what is to replace it.        *)
THEOREM PlansAreSafe ==
  ASSUME NEW s \in BootstrapSpec
  PROVE  WellPlanned(PlanOf(s), s)
  <1> DEFINE draft == PlanBootstrap(s)
             n == Len(draft)
             p == PlanOf(s)
             Numbers(ids) == {j \in DOMAIN draft : draft[j].id \in ids}
  <1>1. draft \in Seq(DraftsOf(1..11)) /\ n \in Nat /\ DOMAIN draft = 1..n
    BY DraftStages, LenProperties DEF InStages
  <1>2. \A i \in 1..n : draft[i] \in DraftType /\ IsDraft(draft[i], 1..11)
    BY <1>1 DEF DraftsOf
  <1>3. p = [i \in 1..n |->
               [id |-> draft[i].id, scope |-> draft[i].scope,
                gate |-> draft[i].gate, deps |-> Numbers(draft[i].needs)]]
    BY <1>1 DEF PlanOf
  <1> HIDE DEF draft, n, p
  <1>4. \A i \in 1..n :
           /\ p[i] \in Planned
           /\ p[i].id = draft[i].id /\ p[i].scope = draft[i].scope
           /\ p[i].gate = draft[i].gate /\ p[i].deps = Numbers(draft[i].needs)
    BY <1>1, <1>2, <1>3 DEF Planned, DraftType
  <1>5. p \in Seq(Planned) /\ DOMAIN p = 1..n
    <2>1. p \in [1..n -> Planned]
      BY <1>3, <1>4
    <2> QED
      BY <1>1, <2>1, SeqDef
  <1>6. InOrder(p)
    <2>1. ASSUME NEW i \in DOMAIN p
          PROVE  /\ p[i].gate <=> p[i].id \in {Gate1, Gate2}
                 /\ p[i].scope = "local" <=> Stage(p[i].id) \in {9, 11}
                 /\ p[i].deps = {j \in DOMAIN p : p[j].id \in Needs(p[i].id)}
      <3>1. i \in 1..n
        BY <1>5, <2>1
      <3>2. /\ draft[i].gate <=> draft[i].id \in {Gate1, Gate2}
            /\ draft[i].scope = "local" <=> Stage(draft[i].id) \in {9, 11}
            /\ draft[i].needs = Needs(draft[i].id)
        BY <1>2, <3>1 DEF IsDraft
      <3>3. /\ p[i].id = draft[i].id /\ p[i].scope = draft[i].scope
            /\ p[i].gate = draft[i].gate /\ p[i].deps = Numbers(draft[i].needs)
        BY <1>4, <3>1
      <3>4. p[i].gate <=> p[i].id \in {Gate1, Gate2}
        BY <3>2, <3>3, Zenon
      <3>5. p[i].scope = "local" <=> Stage(p[i].id) \in {9, 11}
        BY <3>2, <3>3, Zenon
      <3>6. p[i].deps = {j \in DOMAIN p : p[j].id \in Needs(p[i].id)}
        <4>1. \A j \in 1..n : p[j].id = draft[j].id
          BY <1>4
        <4>2. p[i].deps = {j \in 1..n : draft[j].id \in Needs(draft[i].id)}
          BY <1>1, <3>2, <3>3
        <4> QED
          BY <1>5, <3>3, <4>1, <4>2
      <3> QED
        BY <3>4, <3>5, <3>6
    <2>2. \A i, j \in DOMAIN p : i < j => Stage(p[i].id) <= Stage(p[j].id)
      BY <1>1, <1>4, <1>5, DraftStages DEF InStages, draft
    <2> QED
      BY <2>1, <2>2 DEF InOrder
  <1>7. \A id : Has(p, id) <=> Has(draft, id)
    BY <1>1, <1>4, <1>5 DEF Has
  <1>8. IsComplete(p, s)
    BY <1>7, DraftHasSteps DEF IsComplete, draft
  <1> QED
    BY <1>5, <1>6, <1>8 DEF WellPlanned, p

(* A step of an earlier stage stands before.                               *)
LEMMA EarlierStage ==
  ASSUME NEW p \in Seq(Planned), InOrder(p), NEW i \in DOMAIN p, NEW j \in DOMAIN p,
         Stage(p[i].id) < Stage(p[j].id)
  PROVE  i < j
  <1>1. i \in Nat /\ j \in Nat
    BY LenProperties
  <1>2. Stage(p[i].id) \in Nat /\ Stage(p[j].id) \in Nat
    BY DEF Stage
  <1>3. i = j \/ j < i \/ i < j
    BY <1>1
  <1> QED
    BY <1>1, <1>2, <1>3 DEF InOrder
=============================================================================
