----------------------------- MODULE SpecPlans -----------------------------
(***************************************************************************)
(* The plans that client/loft_cli/compiler/planner.py compiles from specs  *)
(* of every kind but bootstrap (BootstrapPlan), one operator per block of  *)
(* steps.  r is the revision of the spec: what it changes is the content   *)
(* of files, images, package versions and passwords.                       *)
(*                                                                         *)
(* A step's id is <<resource, op, item>>: the prefix that a stack gives    *)
(* it, the constant part of its name and the element of the spec it names. *)
(* Its content stands for everything the agent hashes: the revision, or 1  *)
(* where no revision changes it, and 0 for an upload with nothing to       *)
(* upload.  No step of these kinds has a dependency; the inventory is on.  *)
(***************************************************************************)
EXTENDS Naturals, Sequences, SequencesExt

CONSTANT Items      \* what specs name: sites, containers, files, users, ...

New(op, item, kind, scope) ==
  [id |-> <<"", op, item>>, op |-> op, item |-> item, kind |-> kind,
   scope |-> scope, gate |-> FALSE, always |-> FALSE, content |-> 1]

Command(op, item) == New(op, item, "command", "remote")
Upload(op, item, r) == [New(op, item, "upload", "remote") EXCEPT !.content = r]
Verify(op, item) == New(op, item, "verify", "verify")
LocalDb(op) == New(op, "", "local", "local")

(* A GATE step is tagged "always".                                         *)
Gate(op, item) ==
  [New(op, item, "gate", "remote") EXCEPT !.gate = TRUE, !.always = TRUE]

Of(step, r) == [step EXCEPT !.content = r]
Always(step) == [step EXCEPT !.always = TRUE]

When(condition, steps) == IF condition THEN steps ELSE <<>>

ForEach(elements, Steps(_)) ==
  FlattenSeq([i \in DOMAIN elements |-> Steps(elements[i])])

Preflight == <<Command("preflight_connect_admin", "")>>

(* _encode_check_command: a check is its type.                             *)
PostflightChecks(types) ==
  ForEach(types, LAMBDA t : <<Verify("postflight", t)>>)

InventorySteps ==
  <<LocalDb("open_or_init_local_inventory"), LocalDb("update_metadata"),
    LocalDb("record_run")>>

-----------------------------------------------------------------------------
(* _plan_service.                                                          *)

NeedsDocker(s) == s.docker \/ s.containers # <<>>

PostgresSteps(s, r) ==
  << Command("install_pgdg_prerequisites", "postgres"),
     Command("add_pgdg_signing_key", "postgres"),
     Command("add_pgdg_source_list", "postgres"),
     Command("apt_update_pgdg", ""),
     Command("install_postgres", "postgres"),
     Of(Command("configure_postgres_listen", "listen"), r),
     Command("enable_postgres", "postgres") >>
    \o When(s.role, <<Of(Command("create_db_role", "role"), r)>>)
    \o When(s.database, <<Command("create_database", "database")>>)
    \o <<Verify("postgres_ready_check", "postgres")>>

SiteSteps(site, r) ==
  <<Upload("write_nginx_site", site, r), Command("enable_nginx_site", site)>>

NginxSteps(s, r) ==
  << Command("install_nginx", "nginx"),
     Command("enable_nginx", "nginx"),
     Command("remove_nginx_default_site", "default_site") >>
    \o ForEach(s.sites, LAMBDA site : SiteSteps(site, r))
    \o << Command("validate_nginx_config", "nginx"),
          Command("reload_nginx", "nginx"),
          Verify("nginx_config_check", "nginx") >>

DockerSteps ==
  << Command("install_docker", "docker"),
     Command("enable_docker", "docker"),
     Verify("docker_version_check", "docker") >>

ContainerSteps(c, r) ==
  << Of(Command("pull_image", c.name), r),
     Command("stop_container", c.name),
     Command("remove_container", c.name),
     Of(Command("run_container", c.name), r),
     Verify("container_running_check", c.name) >>
    \o When(c.healthcheck, <<Verify("http_health_check", c.name)>>)

PlanService(s, r) ==
  Preflight \o <<Command("detect_os", "")>>
    \o When(s.postgres \/ s.nginx \/ NeedsDocker(s), <<Command("apt_update", "")>>)
    \o When(s.postgres, PostgresSteps(s, r))
    \o When(s.nginx, NginxSteps(s, r))
    \o When(NeedsDocker(s), DockerSteps)
    \o ForEach(s.containers, LAMBDA c : ContainerSteps(c, r))
    \o InventorySteps

-----------------------------------------------------------------------------
(* _plan_file_template.  A template that was not rendered is uploaded      *)
(* empty.                                                                  *)
TemplateSteps(t, r) ==
  << Command("mkdir", t),
     Upload("upload", t, r),
     Command("chmod", t),
     Command("chown", t) >>

PlanFileTemplate(s, r) ==
  Preflight
    \o ForEach(s.templates, LAMBDA t : TemplateSteps(t, r))
    \o PostflightChecks(s.checks)
    \o InventorySteps

-----------------------------------------------------------------------------
(* _plan_compose_project.  Steps about the project have ids that do not    *)
(* name it, and commands that do: two projects (s.number) share the ids.   *)

Shared(step, number) ==
  [step EXCEPT !.id = <<"", step.op, "">>, !.content = @ + 10 * number]

ComposeFileSteps(s, r) ==
  <<Shared(Command("mkdir_project_dir", s.project), s.number)>>
    \o ForEach(s.directories, LAMBDA d : <<Command("mkdir_with_permissions", d)>>)
    \o ForEach(s.templates, LAMBDA t : <<Upload("upload_template", t, r)>>)
    \o ForEach(s.files, LAMBDA f :
         <<Upload("upload_file", f.name, r)>>
           \o When(~f.default, <<Command("chmod_file", f.name)>>))
    \o <<Shared(Upload("upload_compose_file", s.project, r), s.number)>>

(* The readiness probe is part of the health check's configuration, and    *)
(* planned only where that is enabled.  It and the post-deploy actions are *)
(* shell commands.                                                         *)
ComposeUpSteps(s) ==
  <<Shared(Command("compose_config_validate", s.project), s.number)>>
    \o When(s.pull, <<Shared(Command("compose_pull", s.project), s.number)>>)
    \o <<Shared(Command("compose_up", s.project), s.number)>>
    \o When(s.healthcheck,
         <<Shared(New("compose_health_check", s.project, "health", "verify"), s.number)>>)
    \o When(s.healthcheck /\ s.httpReady,
         <<Shared(Command("compose_http_ready", s.project), s.number)>>)
    \o ForEach(s.postDeploy, LAMBDA a : <<Shared(Command(a, s.project), s.number)>>)

PlanComposeProject(s, r) ==
  Preflight \o <<Command("apt_update", "")>> \o DockerSteps
    \o ComposeFileSteps(s, r)
    \o ComposeUpSteps(s)
    \o PostflightChecks(s.checks)
    \o InventorySteps

-----------------------------------------------------------------------------
(* _plan_postgres_ensure: a gate, then users (with their passwords),       *)
(* databases, extensions and grants.                                       *)
PlanPostgresEnsure(s, r) ==
  Preflight \o <<Gate("pg_isready_gate", "postgres")>>
    \o ForEach(s.users, LAMBDA u : <<Of(Command("ensure_user", u), r)>>)
    \o ForEach(s.databases, LAMBDA d : <<Command("ensure_database", d)>>)
    \o ForEach(s.extensions, LAMBDA e : <<Command("ensure_extension", e)>>)
    \o ForEach(s.grants, LAMBDA g : <<Command("ensure_grant", g)>>)
    \o PostflightChecks(s.checks)
    \o InventorySteps

(* _plan_backup_job, _plan_systemd_unit, _plan_systemd_timer.  Reload and  *)
(* (re)start are tagged "always".                                          *)

DaemonReload == <<Always(Command("systemd_daemon_reload", ""))>>

TimerStart(timer) ==
  <<Always(Command("enable_start_timer", timer)), Verify("verify_timer_active", timer)>>

PlanBackupJob(s, r) ==
  Preflight
    \o << Command("mkdir_backup_dest", s.script),
          Upload("write_backup_script", s.script, r),
          Command("chmod_backup_script", s.script),
          Upload("write_backup_service", s.service, r),
          Upload("write_backup_timer", s.timer, r) >>
    \o DaemonReload \o TimerStart(s.timer)
    \o PostflightChecks(s.checks)
    \o InventorySteps

PlanSystemdUnit(s, r) ==
  Preflight
    \o <<Upload("write_unit", s.unit, r)>>
    \o DaemonReload
    \o << Command("enable_unit", s.unit),
          Always(Command("restart_unit", s.unit)),
          Verify("verify_unit_active", s.unit) >>
    \o When(s.logrotate # "", <<Upload("write_logrotate", s.logrotate, r)>>)
    \o PostflightChecks(s.checks)
    \o InventorySteps

PlanSystemdTimer(s, r) ==
  Preflight
    \o <<Upload("write_service", s.service, r), Upload("write_timer", s.timer, r)>>
    \o DaemonReload \o TimerStart(s.timer)
    \o PostflightChecks(s.checks)
    \o InventorySteps

(* _plan_http_check.                                                       *)
PlanHttpCheck(s) ==
  Preflight \o <<Gate("http_check_gate", s.url)>>
    \o PostflightChecks(s.checks)
    \o InventorySteps

(* _plan_package: one command for all packages to be present, one for all  *)
(* to be absent.                                                           *)
PlanPackage(s, r) ==
  Preflight
    \o When(s.updateCache, <<Command("apt_update", "")>>)
    \o When(s.present # "", <<Shared(Of(Command("apt_install_packages", s.present), r), 0)>>)
    \o When(s.absent # "", <<Shared(Command("apt_remove_packages", s.absent), 0)>>)
    \o PostflightChecks(s.checks)
    \o InventorySteps

-----------------------------------------------------------------------------
(* _plan_stack and _plan_blueprint.  A resource has a name, a child spec,  *)
(* the names it depends on, and a flaw: its kind has no planner, its       *)
(* config is not valid, or its files are missing on the client as of       *)
(* revision 2 (what its normalizer raises is suppressed, and leaves        *)
(* nothing to upload).                                                     *)

(* Mutant: a resource is taken before those it depends on.                 *)
TopoSortPreorder(parts) == [i \in DOMAIN parts |-> parts[i]]

(* _topo_sort: depth first; a name is visited once, so that a cycle is cut *)
(* where it closes.                                                        *)
TopoSort(parts) ==
  LET Names == {parts[i].name : i \in DOMAIN parts}
      Find(n) == parts[CHOOSE i \in DOMAIN parts : parts[i].name = n]
      Visit[n \in STRING, st \in [visited : SUBSET STRING, result : Seq(STRING)]] ==
        IF n \in st.visited THEN st
        ELSE LET after[k \in Nat] ==
                   IF k = 0 THEN [st EXCEPT !.visited = @ \cup {n}]
                            ELSE Visit[Find(n).dependsOn[k], after[k - 1]]
             IN  IF n \notin Names THEN after[0]
                 ELSE [after[Len(Find(n).dependsOn)] EXCEPT !.result = Append(@, n)]
      state[k \in Nat] ==
        IF k = 0 THEN [visited |-> {}, result |-> <<>>]
                 ELSE Visit[parts[k].name, state[k - 1]]
      order == state[Len(parts)].result
  IN  [i \in DOMAIN order |-> Find(order[i])]

(* A child spec is planned by its kind's planner.                          *)
PlanSimple(s, r) ==
  CASE s.kind = "service" -> PlanService(s, r)
    [] s.kind = "file_template" -> PlanFileTemplate(s, r)
    [] s.kind = "compose_project" -> PlanComposeProject(s, r)
    [] s.kind = "postgres_ensure" -> PlanPostgresEnsure(s, r)
    [] s.kind = "backup_job" -> PlanBackupJob(s, r)
    [] s.kind = "systemd_unit" -> PlanSystemdUnit(s, r)
    [] s.kind = "systemd_timer" -> PlanSystemdTimer(s, r)
    [] s.kind = "http_check" -> PlanHttpCheck(s)
    [] s.kind = "package" -> PlanPackage(s, r)

Prefixed(step, name) ==
  [step EXCEPT !.id = <<name, step.id[2], step.id[3]>>]

(* An AGENT_COMMAND that echoes the error.                                 *)
ErrorStep(res) == <<Prefixed(New(res.flaw, "", "agent_command", "remote"), res.name)>>

Unrendered(step) == IF step.kind = "upload" THEN Of(step, 0) ELSE step

ResourceSteps(res, r) ==
  IF res.flaw \in {"no_planner", "invalid"} THEN ErrorStep(res)
  ELSE LET child == PlanSimple(res.spec, r)
       IN  [i \in DOMAIN child |->
              Prefixed(IF res.flaw = "unrendered" /\ r > 1
                         THEN Unrendered(child[i]) ELSE child[i], res.name)]

PlanStack(s, r) ==
  ForEach(TopoSort(s.resources), LAMBDA res : ResourceSteps(res, r))
    \o PostflightChecks(s.checks)
    \o <<LocalDb("open_or_init_local_inventory")>>

(* _plan_blueprint is the same code once more, with the blueprint's inputs *)
(* put into the config of each resource; includes are resolved before.     *)
PlanBlueprint(s, r) == PlanStack(s, r)

PlanOf(s, r) ==
  CASE s.kind = "stack" -> PlanStack(s, r)
    [] s.kind = "blueprint" -> PlanBlueprint(s, r)
    [] OTHER -> PlanSimple(s, r)

-----------------------------------------------------------------------------
(* validate_stack, as far as it concerns names: each is given once, each   *)
(* that is depended on exists, and nothing depends on itself.  What        *)
(* validate_blueprint looks at is only that names are given once.          *)

DependsOn(parts, a, b) ==
  \E i \in DOMAIN parts :
    parts[i].name = a /\ b \in {parts[i].dependsOn[k] : k \in DOMAIN parts[i].dependsOn}

(* _has_cycle: the depth-first search of TopoSort, with the path down to   *)
(* the node that is visited.                                               *)
HasCycle(parts) ==
  LET Deps(n) == {b \in {parts[i].name : i \in DOMAIN parts} :
                    DependsOn(parts, n, b)}
      CycleFrom[n \in STRING, path \in SUBSET STRING] ==
        n \in path \/ \E d \in Deps(n) : CycleFrom[d, path \cup {n}]
  IN  \E i \in DOMAIN parts : CycleFrom[parts[i].name, {}]

DistinctNames(parts) ==
  \A i, j \in DOMAIN parts : parts[i].name = parts[j].name => i = j

DependenciesExist(parts) ==
  \A i \in DOMAIN parts : \A d \in Range(parts[i].dependsOn) :
    \E j \in DOMAIN parts : parts[j].name = d

ValidStack(s) ==
  /\ DistinctNames(s.resources)
  /\ s.resources # <<>>
  /\ DependenciesExist(s.resources)
  /\ ~HasCycle(s.resources)

ValidBlueprint(s) == DistinctNames(s.resources)

ValidSpec(s) ==
  /\ s.kind = "stack" => ValidStack(s)
  /\ s.kind = "blueprint" => ValidBlueprint(s)
=============================================================================
