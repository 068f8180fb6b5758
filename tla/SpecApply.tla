----------------------------- MODULE SpecApply -----------------------------
(***************************************************************************)
(* `loft-cli apply` of specs of every kind but bootstrap, again and again, *)
(* in growing and falling revisions: cli._apply_single decides on a mode,  *)
(* lets the agent on the server carry out the plan (AgentExecutor), then   *)
(* runs the whole plan once more over SSH (ClientExecutor) and merges the  *)
(* two verdicts; in client mode there is only the run over SSH.  Steps     *)
(* change the server's files, services, containers and databases, through  *)
(* what the two executors make of a step.                                  *)
(*                                                                         *)
(* Accidents: a step fails, with or without its effect; the agent is       *)
(* killed; the client dies; the agent's state file becomes unreadable.     *)
(* No plan here has a dependency or a step that policy refuses, so that    *)
(* the actions for these cannot happen (AgentExecutor and ClientExecutor   *)
(* have them); a client that dies leaves no agent running (AgentHost).     *)
(***************************************************************************)
EXTENDS ClientExecutor, SpecPlans

CONSTANTS
  Situations,    \* what to start from: see MCSpecApply
  Sites, Units, Timers,   \* the items that are nginx sites, systemd units, and,
                          \* among these, timers
  AgentPlans,    \* the plans with what the agent looks at
  OpenPolicy,    \* a policy.yaml that lets every step be applied
  MaxApplies     \* bound on applies

(* A situation bounds its applies and accidents.                           *)
ASSUME SituationsAssumption ==
  \A s \in Situations :
    /\ s.applies \in 1..MaxApplies /\ s.accidents \in Nat
    /\ s.agents \subseteq {"absent", "same", "other"}
    /\ s.postgres \in 0..1
    /\ s.health \in {"none", "healthy", "unhealthy"}

ASSUME MaxAppliesAssumption == MaxApplies \in Nat

Daemons == {"nginx", "postgres", "docker"}

(* An item is one thing: a name stands for a site or a unit, not for both. *)
ASSUME ItemsAssumption ==
  /\ Timers \subseteq Units /\ Sites \cap Units = {}
  /\ Daemons \subseteq Items
  /\ (Daemons \cup {"listen"}) \cap (Sites \cup Units) = {}

VARIABLES
  situation,    \* the specs, and the behaviour of the containers in them
  agent,        \* the agent on the server: "absent", "same" or "other" version
  phase,        \* "idle", "agent" (it runs), "download", "local" (second pass)
  job,          \* the spec and revision (last) applied, and whether through the agent
  compiled,     \* its plan
  server,       \* the managed host
  lastResult,   \* last-result.json: its status, or "none"
  verdict,      \* what the last apply reported; "none" if nobody saw its end
  applies,      \* how many applies were started
  accidents,    \* how many accidents happened
  spoiled,      \* history: an accident happened in this apply
  cleanRuns     \* history: applies of this job in a row without an accident

VARIABLES agentPlan, policy, resources, disk, agentResults, agentAborted,
          agentStatus, host, executed, succeeded, everFailed, rolledBack,
          agentApplies

Agent == INSTANCE AgentExecutor WITH
  Plans <- AgentPlans, Policies <- {OpenPolicy}, plan <- agentPlan,
  results <- agentResults, abortedAt <- agentAborted, status <- agentStatus,
  applies <- agentApplies

agentVars == <<agentPlan, policy, resources, disk, agentResults, agentAborted,
               agentStatus, host, executed, succeeded, everFailed, rolledBack,
               agentApplies>>
history == <<accidents, spoiled, cleanRuns>>
vars == <<execVars, agentVars, situation, agent, phase, job, compiled, server,
          lastResult, verdict, applies, history>>

-----------------------------------------------------------------------------
(* The server.  For each item: the revision of its file (for what is       *)
(* installed or created: 1), whether the file has the mode asked for, the  *)
(* revision systemd has loaded (of a site: 1 when it is enabled; of a      *)
(* container: the revision that has the name), and the revision running.   *)

Bare == [i \in Items |-> 0]
BareServer == [file |-> Bare, mode |-> Bare, loaded |-> Bare, run |-> Bare]

Installed(x) == server.file[x] # 0
Running(x) == server.run[x] # 0

Rev(step) == step.content % 10

(* The effect that a step has when it succeeds, and when its command (a    *)
(* shell command for both executors) does: one pair for each module of     *)
(* runtime/steps/.                                                         *)

ModeSteps == {"chmod", "chmod_file", "chmod_backup_script"}

FileEffect(x) == [server EXCEPT !.mode[x] = 1]
FileWorks(x) == Installed(x)

Uploaded(x, c) == [server EXCEPT !.file[x] = c, !.mode[x] = 0]

(* What nginx serves after a (re)load: the enabled sites' files.           *)
NginxReloaded(s) ==
  [s EXCEPT !.run = [i \in Items |-> IF i \in Sites /\ s.loaded[i] # 0
                                       THEN s.file[i] ELSE @[i]]]

(* enable --now starts what is not running, and reloads nothing.           *)
Started(x) ==
  IF Running(x) THEN server
  ELSE LET s == [server EXCEPT !.run[x] = 1]
       IN  CASE x = "nginx" -> NginxReloaded(s)
             [] x = "postgres" -> [s EXCEPT !.run["listen"] = s.file["listen"]]
             [] OTHER -> s

NginxEffect(op, x) ==
  CASE op = "install_nginx" -> [server EXCEPT !.file[x] = 1]
    [] op = "enable_nginx" -> Started(x)
    [] op = "enable_nginx_site" -> [server EXCEPT !.loaded[x] = 1]
    [] op = "reload_nginx" -> NginxReloaded(server)
    [] OTHER -> server

NginxWorks(op) ==
  /\ op \in {"enable_nginx", "validate_nginx_config", "nginx_config_check"}
       => Installed("nginx")
  /\ op = "reload_nginx" => Running("nginx")

(* What creates swallows its errors.                                       *)
CreateSteps == {"create_db_role", "create_database"}

PostgresEffect(op, x, c) ==
  CASE op \in {"install_postgres", "configure_postgres_listen"} ->
         [server EXCEPT !.file[x] = c]
    [] op = "enable_postgres" -> Started(x)
    [] op \in CreateSteps /\ Running("postgres") /\ ~Installed(x) ->
         [server EXCEPT !.file[x] = c]
    [] OTHER -> server

PostgresWorks(op) ==
  /\ op \in {"enable_postgres", "configure_postgres_listen"} => Installed("postgres")
  /\ op = "postgres_ready_check" => Running("postgres")

EnsureSteps == {"ensure_user", "ensure_database", "ensure_extension", "ensure_grant"}

EnsureEffect(x, c) == [server EXCEPT !.file[x] = c]
EnsureWorks == Running("postgres")          \* "pg_isready_gate", too

DockerEffect(op, x) ==
  CASE op = "install_docker" -> [server EXCEPT !.file[x] = 1]
    [] op = "enable_docker" -> Started(x)
    [] OTHER -> server

DockerWorks(op) ==
  op \in {"enable_docker", "docker_version_check"} => Installed("docker")

(* docker rm needs a container that does not run.                          *)
ContainerEffect(op, x, c) ==
  CASE op = "stop_container" -> [server EXCEPT !.run[x] = 0]
    [] op = "remove_container" /\ ~Running(x) -> [server EXCEPT !.loaded[x] = 0]
    [] op = "run_container" ->
         [server EXCEPT !.loaded[x] = c,
                        !.run[x] = IF situation.dies THEN 0 ELSE c]
    [] OTHER -> server

(* docker run refuses a name in use, stop and remove swallow their errors, *)
(* and nobody listens to "http_check:<url>:<status>".                      *)
ContainerWorks(op, x) ==
  /\ op \in {"pull_image", "run_container"} => Running("docker")
  /\ op = "run_container" => server.loaded[x] = 0
  /\ op = "container_running_check" => server.loaded[x] # 0
  /\ op # "http_health_check"

ComposeSteps == {"compose_pull", "compose_up"}

ComposeEffect(op, x) ==
  IF op = "compose_up" THEN [server EXCEPT !.run[x] = server.file[x]] ELSE server

ComposeWorks(op, x) ==
  /\ op \in ComposeSteps \cup {"compose_config_validate"} => Installed(x)
  /\ op \in ComposeSteps => Running("docker")
  /\ op \in {"compose_http_ready", "post_deploy"} => Running(x)

(* A timer that runs takes what systemd loads; a service does not.         *)
SystemdEffect(op, x) ==
  CASE op = "systemd_daemon_reload" ->
         [server EXCEPT
            !.loaded = [i \in Items |-> IF i \in Units THEN server.file[i] ELSE @[i]],
            !.run = [i \in Items |-> IF i \in Timers /\ @[i] # 0
                                       THEN server.file[i] ELSE @[i]]]
    [] op = "enable_start_timer" /\ ~Running(x) ->
         [server EXCEPT !.run[x] = server.loaded[x]]
    [] op = "restart_unit" -> [server EXCEPT !.run[x] = server.loaded[x]]
    [] OTHER -> server

SystemdWorks(op, x) ==
  /\ op = "enable_unit" => Installed(x)
  /\ op \in {"restart_unit", "enable_start_timer"} => server.loaded[x] # 0
  /\ op \in {"verify_unit_active", "verify_timer_active"} => Running(x)

PackageEffect(op, x, c) ==
  [server EXCEPT !.file[x] = IF op = "apt_install_packages" THEN c ELSE 0]

(* The module of a step.                                                   *)
Family(op) ==
  CASE op \in ModeSteps \cup {"chown"} -> "file"
    [] op \in {"install_nginx", "enable_nginx", "enable_nginx_site", "reload_nginx",
               "validate_nginx_config", "nginx_config_check"} -> "nginx"
    [] op \in CreateSteps \cup {"install_postgres", "configure_postgres_listen",
               "enable_postgres", "postgres_ready_check"} -> "postgres"
    [] op \in EnsureSteps \cup {"pg_isready_gate"} -> "ensure"
    [] op \in {"install_docker", "enable_docker", "docker_version_check"} -> "docker"
    [] op \in {"pull_image", "stop_container", "remove_container", "run_container",
               "container_running_check", "http_health_check"} -> "container"
    [] op \in ComposeSteps \cup {"compose_config_validate", "compose_http_ready",
               "post_deploy"} -> "compose"
    [] op \in {"systemd_daemon_reload", "enable_start_timer", "restart_unit",
               "enable_unit", "verify_unit_active", "verify_timer_active"} -> "systemd"
    [] op \in {"apt_install_packages", "apt_remove_packages"} -> "package"
    [] OTHER -> "none"

Effect(step) ==
  LET x == step.item
      c == Rev(step)
      op == step.op
      family == Family(op)
  IN  CASE step.kind = "upload" -> IF c # 0 THEN Uploaded(x, c) ELSE server
        [] op \in ModeSteps -> FileEffect(x)
        [] op \in EnsureSteps -> EnsureEffect(x, c)
        [] family = "nginx" -> NginxEffect(op, x)
        [] family = "postgres" -> PostgresEffect(op, x, c)
        [] family = "docker" -> DockerEffect(op, x)
        [] family = "container" -> ContainerEffect(op, x, c)
        [] family = "compose" -> ComposeEffect(op, x)
        [] family = "systemd" -> SystemdEffect(op, x)
        [] family = "package" -> PackageEffect(op, x, c)
        [] OTHER -> server

CommandWorks(step) ==
  LET x == step.item
      op == step.op
      family == Family(op)
  IN  /\ family = "file" => FileWorks(x)
      /\ family = "nginx" => NginxWorks(op)
      /\ family = "postgres" => PostgresWorks(op)
      /\ family = "ensure" => EnsureWorks
      /\ family = "docker" => DockerWorks(op)
      /\ family = "container" => ContainerWorks(op, x)
      /\ family = "compose" => ComposeWorks(op, x)
      /\ family = "systemd" => SystemdWorks(op, x)

(* Executor's handlers.                                                    *)

ClientCheck(type) ==
  CASE type = "nginx_ready" -> Running("nginx")
    [] type = "postgres_ready" -> Running("postgres")
    [] OTHER -> TRUE

(* "healthy", or running without a health check.                           *)
ClientHealthy(project) ==
  Running(project) /\ situation.health \in {"none", "healthy"}

ClientWorks(step) ==
  CASE step.kind = "agent_command" -> FALSE          \* no handler registered
    [] step.op = "postflight" -> ClientCheck(step.item)
    [] step.kind = "health" -> ClientHealthy(step.item)
    [] OTHER -> CommandWorks(step)

(* AgentExecutor's.  It has nginx test its configuration, knows no check   *)
(* that logs in, asks whether docker's word for the health contains        *)
(* "healthy", and writes no empty file.                                    *)

AgentCheck(type) ==
  CASE type = "nginx_ready" -> Installed("nginx")
    [] type = "postgres_ready" -> Running("postgres")
    [] OTHER -> type # "ssh_reachable"

AgentHealthy(project) ==
  Running(project) /\ situation.health \in {"healthy", "unhealthy"}

AgentWorks(step) ==
  CASE step.kind = "agent_command" -> TRUE
    [] step.kind = "upload" -> Rev(step) # 0
    [] step.op = "postflight" -> AgentCheck(step.item)
    [] step.kind = "health" -> AgentHealthy(step.item)
    [] OTHER -> CommandWorks(step)

-----------------------------------------------------------------------------
(* The plans of a job.                                                     *)

ForClient(steps) ==
  [i \in DOMAIN steps |->
     [id |-> steps[i].id, scope |-> steps[i].scope, gate |-> steps[i].gate,
      deps |-> {}]]

ForAgent(steps) ==
  [i \in DOMAIN steps |->
     [id |-> steps[i].id, scope |-> steps[i].scope, gate |-> steps[i].gate,
      deps |-> {}, always |-> steps[i].always, content |-> steps[i].content]]

(* Mutant: the second pass runs the local steps only, as the comment above *)
(* its call has it ("Only execute LOCAL-scoped steps").                    *)
SecondPassLocal(steps) == SelectSeq(ForClient(steps), LAMBDA s : s.scope = "local")

SecondPass(steps) == ForClient(steps)

NoJob == [spec |-> [kind |-> "none"], rev |-> 0, agent |-> FALSE]

StepNamed(id) ==
  compiled[CHOOSE i \in DOMAIN compiled : compiled[i].id = id]

-----------------------------------------------------------------------------
(* What every plan here has, for the proofs: the planners see to the order *)
(* of steps, and a spec names each thing once and asks one thing of it (no *)
(* container is called "nginx", and no list of packages is just that).     *)

FileSteps ==
  CreateSteps \cup EnsureSteps \cup
  {"install_nginx", "install_postgres", "install_docker",
   "configure_postgres_listen", "apt_install_packages", "apt_remove_packages"}

WritesFile(step) == (step.kind = "upload" /\ Rev(step) # 0) \/ step.op \in FileSteps

Asked(step) == IF step.op = "apt_remove_packages" THEN 0 ELSE Rev(step)

(* What a step makes run, loads or stops.                                  *)
Role(op) ==
  CASE op = "enable_nginx_site" -> "site"
    [] op \in {"stop_container", "remove_container", "run_container"} -> "container"
    [] op = "compose_up" -> "project"
    [] op = "restart_unit" -> "unit"
    [] op = "enable_start_timer" -> "timer"
    [] op \in {"enable_nginx", "enable_postgres", "enable_docker"} -> "daemon"
    [] OTHER -> "none"

(* The operations that have an effect, or of which something is expected.  *)
Operations ==
  FileSteps \cup ModeSteps \cup
  {"enable_nginx_site", "stop_container", "remove_container", "run_container",
   "compose_up", "restart_unit", "enable_start_timer", "enable_nginx",
   "enable_postgres", "enable_docker", "enable_unit", "reload_nginx",
   "systemd_daemon_reload"}

IsPlanned(step) ==
  LET x == step.item
      role == Role(step.op)
  IN  /\ step.id \in StepIds
      /\ step.op \in Operations => step.kind = "command"
      /\ step.kind \in {"upload", "agent_command", "health", "local"} =>
           Family(step.op) = "none" /\ step.op # "postflight"
      /\ step.scope = "local" => step.kind = "local"
      /\ step.op = "postflight" \/ step.kind = "health" => step.scope = "verify"
      /\ step.gate => Family(step.op) # "container"
      /\ WritesFile(step) \/ step.op \in ModeSteps \cup {"enable_unit"} \/ role # "none"
           => x \in Items
      /\ Rev(step) \in 0..2 /\ (step.kind # "upload" => Rev(step) # 0)
      /\ step.op \in {"install_nginx", "install_docker"} => Rev(step) = 1
      /\ step.op \in {"install_postgres", "enable_postgres"} => x = "postgres"
      /\ step.op \in {"install_nginx", "enable_nginx"} => x = "nginx"
      /\ step.op \in {"install_docker", "enable_docker"} => x = "docker"
      /\ step.op = "apt_remove_packages" \/ role \in {"container", "project"} =>
           x \notin Daemons
      /\ role = "container" => step.scope = "remote" /\ ~step.always
      /\ role # "none" => x # "listen"
      /\ role = "site" => x \in Sites
      /\ role = "unit" => x \in Units \ Timers
      /\ role = "timer" => x \in Timers
      /\ role \in {"container", "project", "daemon"} => x \notin Sites \cup Units

(* The step at j stands behind all that write the file of step i.          *)
BehindFile(p, i, j) ==
  \A k \in DOMAIN p : p[k].item = p[i].item /\ WritesFile(p[k]) => k < j

WellOrdered(p) ==
  /\ \A i, k \in DOMAIN p : p[k].item = p[i].item =>
       /\ WritesFile(p[i]) /\ WritesFile(p[k]) => Asked(p[i]) = Asked(p[k])
       /\ p[i].op \in ModeSteps /\ p[k].kind = "upload" => k < i
       /\ p[i].op = "enable_unit" => p[k].op # "apt_remove_packages"
       /\ "none" \notin {Role(p[i].op), Role(p[k].op)} => Role(p[i].op) = Role(p[k].op)
       /\ p[i].op = "run_container" /\ Role(p[k].op) = "container" => k <= i
  /\ \A i \in DOMAIN p :
       /\ p[i].op \in CreateSteps => \E j \in 1..(i - 1) : p[j].op = "enable_postgres"
       /\ p[i].op = "enable_nginx_site" =>
            \E j \in DOMAIN p : p[j].op = "reload_nginx" /\ i < j /\ BehindFile(p, i, j)
       /\ p[i].op \in {"restart_unit", "enable_start_timer"} =>
            \E j \in 1..(i - 1) : p[j].op = "systemd_daemon_reload" /\ BehindFile(p, i, j)
       /\ p[i].op = "compose_up" => BehindFile(p, i, i)

(* The step at i stands behind one that does op, one that does it to the   *)
(* same thing, or the upload of that.                                      *)
Behind(p, i, op) == \E j \in 1..(i - 1) : p[j].op = op

BehindOwn(p, i, op) ==
  \E j \in 1..(i - 1) : p[j].op = op /\ p[j].item = p[i].item

BehindUpload(p, i) ==
  \E j \in 1..(i - 1) : p[j].kind = "upload" /\ p[j].item = p[i].item

(* Every step stands behind those that bring about what it needs.          *)
NeedsUpload(op) ==
  op \in ModeSteps \cup ComposeSteps \cup
    {"chown", "compose_config_validate", "enable_unit", "restart_unit",
     "enable_start_timer"}

Supplied(p) ==
  \A i \in DOMAIN p :
    LET op == p[i].op
    IN  /\ NeedsUpload(op) => BehindUpload(p, i)
        /\ op \in {"enable_nginx", "validate_nginx_config", "nginx_config_check"} =>
             Behind(p, i, "install_nginx")
        /\ op = "reload_nginx" => Behind(p, i, "enable_nginx")
        /\ op \in {"enable_postgres", "configure_postgres_listen"} =>
             Behind(p, i, "install_postgres")
        /\ op = "postgres_ready_check" => Behind(p, i, "enable_postgres")
        /\ op \in EnsureSteps => Behind(p, i, "pg_isready_gate")
        /\ op \in {"enable_docker", "docker_version_check"} =>
             Behind(p, i, "install_docker")
        /\ op \in ComposeSteps \cup {"pull_image", "run_container"} =>
             Behind(p, i, "enable_docker")
        /\ op = "remove_container" => BehindOwn(p, i, "stop_container")
        /\ op = "run_container" => BehindOwn(p, i, "remove_container")
        /\ op = "container_running_check" => BehindOwn(p, i, "run_container")
        /\ op \in {"compose_http_ready", "post_deploy"} \/ p[i].kind = "health" =>
             BehindOwn(p, i, "compose_up")
        /\ op = "verify_unit_active" => BehindOwn(p, i, "restart_unit")
        /\ op = "verify_timer_active" => BehindOwn(p, i, "enable_start_timer")

WellPlanned(p) ==
  /\ p \in Seq(Range(p))
  /\ \A i \in DOMAIN p : IsPlanned(p[i])
  /\ \A i, k \in DOMAIN p : p[i].id = p[k].id => i = k
  /\ WellOrdered(p) /\ Supplied(p)

ASSUME CompiledAssumption ==
  \A x \in Situations : \A s \in x.specs, r \in 1..2 :
    ValidSpec(s) => WellPlanned(PlanOf(s, r))

-----------------------------------------------------------------------------
InitApply ==
  /\ plan = <<>> /\ results = <<>> /\ ran = {}
  /\ dryRun = FALSE
  /\ abortedAt = 0 /\ gateSkippedAt = 0
  /\ remoteFailed = FALSE /\ localWarnings = FALSE
  /\ status = "none"
  /\ situation \in Situations
  /\ agent \in situation.agents
  /\ phase = "idle"
  /\ job = NoJob
  /\ compiled = <<>>
  /\ server = [BareServer EXCEPT !.file["postgres"] = situation.postgres,
                                 !.run["postgres"] = situation.postgres]
  /\ lastResult = "none"
  /\ verdict = "none"
  /\ applies = 0
  /\ accidents = 0 /\ spoiled = FALSE /\ cleanRuns = 0
  /\ Agent!Init

Accident ==
  /\ accidents < situation.accidents
  /\ accidents' = accidents + 1
  /\ spoiled' = TRUE
  /\ cleanRuns' = 0

-----------------------------------------------------------------------------
(* _apply_single: validation, then the decision on a mode.  "auto" looks   *)
(* for an agent and insists on its version; "agent" looks for nothing.     *)

Refused(s, mode) ==
  ~ValidSpec(s) \/ (mode = "auto" /\ agent = "other")

UsesAgent(mode) == mode = "agent" \/ (mode = "auto" /\ agent # "absent")

(* A new Executor.                                                         *)
Executor(steps, st) ==
  /\ plan' = steps
  /\ status' = st
  /\ results' = <<>> /\ ran' = {}
  /\ dryRun' = FALSE
  /\ abortedAt' = 0 /\ gateSkippedAt' = 0
  /\ remoteFailed' = FALSE /\ localWarnings' = FALSE

NoExecutor == Executor(<<>>, "none")

(* Mutant: the pass goes on with the executor that is there.               *)
BeginLocalPassAsIs(steps) ==
  /\ phase' = "local"
  /\ UNCHANGED execVars

BeginLocalPass(steps) ==
  /\ phase' = "local"
  /\ Executor(steps, "running")

(* The revision that is applied first is called 1.                         *)
Request(s, r, mode) ==
  /\ phase = "idle"
  /\ applies < situation.applies
  /\ applies = 0 => r = 1
  /\ applies' = applies + 1
  /\ UNCHANGED <<situation, agent, server, lastResult, accidents>>

Refuse(s, r, mode) ==
  /\ Request(s, r, mode)
  /\ Refused(s, mode)
  /\ verdict' = "refused"
  /\ job' = NoJob /\ compiled' = <<>> /\ cleanRuns' = 0
  /\ UNCHANGED <<execVars, agentVars, phase, spoiled>>

Start(s, r, mode) ==
  LET wanted == [spec |-> s, rev |-> r, agent |-> UsesAgent(mode)]
  IN  /\ Request(s, r, mode)
      /\ ~Refused(s, mode)
      /\ job' = wanted
      /\ compiled' = PlanOf(s, r)
      /\ verdict' = "none"
      /\ spoiled' = FALSE
      /\ cleanRuns' = IF job = wanted THEN cleanRuns ELSE 0
      /\ \/ /\ UsesAgent(mode) /\ agent # "absent"
            /\ Agent!Start(ForAgent(compiled'), OpenPolicy)
            /\ phase' = "agent"
            /\ UNCHANGED execVars
         \/ /\ UsesAgent(mode) /\ agent = "absent"
            /\ phase' = "download"
            /\ UNCHANGED <<execVars, agentVars>>
         \/ /\ ~UsesAgent(mode)
            /\ BeginLocalPass(ForClient(compiled'))
            /\ UNCHANGED agentVars

-----------------------------------------------------------------------------
(* A step is executed, by either executor: it works or not; or an accident *)
(* makes it fail, with or without its effect.  A local step (the inventory *)
(* is opened) works.                                                       *)

Result(works, step, outcome) ==
  \/ /\ works
     /\ outcome = "success"
     /\ server' = Effect(step)
     /\ UNCHANGED history
  \/ /\ ~works
     /\ outcome = "failed"
     /\ UNCHANGED <<server, history>>
  \/ /\ works
     /\ outcome = "failed"
     /\ server' \in {server, Effect(step)}
     /\ Accident

jobVars == <<situation, agent, job, compiled, applies>>

AgentExecutes ==
  /\ phase = "agent" /\ Agent!Looping
  /\ LET step == StepNamed(agentPlan[Agent!At].id)
     IN  \E outcome \in {"success", "failed"} :
           /\ Agent!Execute(outcome)
           /\ Result(AgentWorks(step), step, outcome)
           /\ (outcome = "failed" /\ server' = server) => host' = host
  /\ UNCHANGED <<execVars, jobVars, phase, lastResult, verdict>>

AgentSkips ==
  /\ phase = "agent"
  /\ Agent!SkipUnchanged
  /\ UNCHANGED <<execVars, jobVars, phase, server, lastResult, verdict, history>>

AgentFinishes ==
  /\ phase = "agent"
  /\ Agent!Finish
  /\ phase' = "download"
  /\ lastResult' = agentStatus'
  /\ UNCHANGED <<execVars, jobVars, server, verdict, history>>

(* run(..., warn=True): the client sees that it ended, and goes on to      *)
(* fetch what the last agent to end left.                                  *)
AgentIsKilled ==
  /\ phase = "agent"
  /\ Agent!Crash
  /\ phase' = "download"
  /\ Accident
  /\ UNCHANGED <<execVars, jobVars, server, lastResult, verdict>>

(* Mutant: it waits for a result to be there.                              *)
DownloadPatiently ==
  /\ phase = "download" /\ lastResult # "none"
  /\ BeginLocalPass(SecondPass(compiled))
  /\ UNCHANGED <<agentVars, jobVars, server, lastResult, verdict, history>>

(* Without last-result.json an exception ends the apply.                   *)
Download ==
  /\ phase = "download"
  /\ \/ /\ lastResult = "none"
        /\ phase' = "idle"
        /\ verdict' = "error"
        /\ cleanRuns' = 0
        /\ UNCHANGED <<execVars, accidents, spoiled>>
     \/ /\ lastResult # "none"
        /\ BeginLocalPass(SecondPass(compiled))
        /\ UNCHANGED <<verdict, history>>
  /\ UNCHANGED <<agentVars, jobVars, server, lastResult>>

ClientExecutes ==
  /\ phase = "local" /\ Looping
  /\ LET step == StepNamed(plan[At].id)
     IN  \E outcome \in {"success", "failed"} :
           /\ ExecuteStep(outcome)
           /\ Result(ClientWorks(step), step, outcome)
  /\ UNCHANGED <<agentVars, jobVars, phase, lastResult, verdict>>

ClientFinishes ==
  /\ phase = "local"
  /\ Finish
  /\ UNCHANGED <<agentVars, jobVars, phase, server, lastResult, verdict, history>>

(* Mutant: the agent's verdict is not looked at.                           *)
MergedLocal(local) == local

(* "status=agent_result.status if agent_result.status == 'failed' else     *)
(* local_result.status".                                                   *)
Merged(local) ==
  IF job.agent /\ lastResult = "failed" THEN "failed" ELSE local

Report ==
  /\ phase = "local" /\ status \in Verdicts
  /\ verdict' = Merged(status)
  /\ phase' = "idle"
  /\ cleanRuns' = IF spoiled THEN 0 ELSE cleanRuns + 1
  /\ NoExecutor
  /\ UNCHANGED <<agentVars, jobVars, server, lastResult, accidents, spoiled>>

-----------------------------------------------------------------------------
(* The client dies.                                                        *)
ClientCrash ==
  /\ phase # "idle"
  /\ Accident
  /\ phase' = "idle"
  /\ NoExecutor
  /\ IF phase = "agent" THEN Agent!Crash ELSE UNCHANGED agentVars
  /\ UNCHANGED <<jobVars, server, lastResult, verdict>>

(* runtime-state.json becomes unreadable: load_state takes it for an empty *)
(* one.                                                                    *)
LoseState ==
  /\ phase = "idle" /\ disk # Agent!NoResources
  /\ Accident
  /\ disk' = Agent!NoResources
  /\ UNCHANGED <<execVars, jobVars, phase, server, lastResult, verdict,
                 agentPlan, policy, resources, agentResults, agentAborted,
                 agentStatus, host, executed, succeeded, everFailed,
                 rolledBack, agentApplies>>

(* `loft-cli agent install`, or upgrade.                                   *)
InstallAgent ==
  /\ phase = "idle" /\ agent # "same" /\ "same" \in situation.agents
  /\ agent' = "same"
  /\ UNCHANGED <<execVars, agentVars, situation, job, compiled, applies, phase,
                 server, lastResult, verdict, history>>

Progress ==
  \/ AgentExecutes
  \/ AgentSkips
  \/ AgentFinishes
  \/ Download
  \/ ClientExecutes
  \/ ClientFinishes
  \/ Report

NextApply ==
  \/ \E s \in situation.specs, r \in 1..2, mode \in situation.modes :
       Refuse(s, r, mode) \/ Start(s, r, mode)
  \/ Progress
  \/ AgentIsKilled
  \/ ClientCrash
  \/ LoseState
  \/ InstallAgent

(* An assumption, which the code does not enforce: commands return.  What  *)
(* the agent executes has a timeout (agent executor.py:236), the client's  *)
(* SSH commands have none (ssh.py:82-85), neither its own steps nor the    *)
(* one that waits for the agent: while one hangs, the apply reports        *)
(* nothing.                                                                *)
CommandsReturn == WF_vars(Progress)

ApplySpec == InitApply /\ [][NextApply]_vars /\ CommandsReturn

-----------------------------------------------------------------------------
(* Properties.                                                             *)

SpecApplyTypeOK ==
  /\ agent \in {"absent", "same", "other"}
  /\ phase \in {"idle", "agent", "download", "local"}
  /\ server \in [file : [Items -> 0..2], mode : [Items -> 0..1],
                 loaded : [Items -> 0..2], run : [Items -> 0..2]]
  /\ lastResult \in {"none", "success", "failed"}
  /\ verdict \in Verdicts \cup {"none", "refused", "error"}
  /\ applies <= situation.applies /\ accidents <= situation.accidents
  /\ cleanRuns \in 0..MaxApplies
  /\ phase = "local" <=> status # "none"
  /\ phase = "agent" <=> agentStatus = "running"

Reported == phase = "idle" /\ job # NoJob /\ verdict # "none"

Succeeded ==
  Reported /\ verdict \in {"success", "success_with_local_warnings"}

(* What a step is there for.                                               *)
InPlace(step) ==
  LET x == step.item
      c == Rev(step)
      op == step.op
  IN  /\ step.kind = "upload" /\ c # 0 => server.file[x] = c
      /\ op \in ModeSteps => server.mode[x] = 1
      /\ op \in {"install_postgres", "install_nginx", "install_docker", "enable_unit"}
           => Installed(x)
      /\ op \in CreateSteps /\ Running("postgres") => Installed(x)
      /\ op \in EnsureSteps \cup {"configure_postgres_listen", "apt_install_packages"}
           => server.file[x] = c
      /\ op = "apt_remove_packages" => ~Installed(x)
      /\ op \in {"enable_postgres", "enable_nginx", "enable_docker"} => Running(x)
      /\ op = "enable_nginx_site" => server.run[x] = server.file[x]
      /\ op = "run_container" =>
           server.loaded[x] = c /\ (situation.dies \/ Running(x))
      /\ op \in {"restart_unit", "enable_start_timer", "compose_up"} =>
           Running(x) /\ server.run[x] = server.file[x]

(* An apply that reports success leaves everything its plan is there for   *)
(* in place, loaded and running, whatever was applied before, in whatever  *)
(* mode and revision, and whatever failed, died or was lost on the way.    *)
(* (Not covered: a container that dies at once, an upload that has no      *)
(* content.)                                                               *)
SuccessMeansInPlace ==
  Succeeded => \A step \in Range(compiled) : InPlace(step)

(* The daemon that a gate or a check asks for.                             *)
AsksFor(step) ==
  CASE step.op = "pg_isready_gate" -> "postgres"
    [] step.op = "postflight" /\ step.item = "postgres_ready" -> "postgres"
    [] step.op = "postflight" /\ step.item = "nginx_ready" -> "nginx"
    [] OTHER -> "nothing"

Asks(step) == AsksFor(step) # "nothing"

Starts(step, daemon) == Role(step.op) = "daemon" /\ step.item = daemon

(* Nobody starts it, and it does not run; or it is started only later, so  *)
(* that the check may fail the first time and hold the next.               *)
Lacking(p, i, s) ==
  /\ Asks(p[i])
  /\ s.run[AsksFor(p[i])] = 0
  /\ \A k \in DOMAIN p : ~Starts(p[k], AsksFor(p[i]))

Premature(p) ==
  \E i, k \in DOMAIN p :
    /\ Asks(p[i]) /\ i < k /\ Starts(p[k], AsksFor(p[i]))
    /\ \A j \in 1..(i - 1) : ~Starts(p[j], AsksFor(p[i]))

(* What no apply succeeds in: the service health check, a daemon that is   *)
(* not there, an AGENT_COMMAND on the client, and, for the agent, a login  *)
(* as a postflight check and a compose project without health check.       *)
HopelessHere(p, i, s, health) ==
  \/ p[i].op = "http_health_check" \/ p[i].kind = "agent_command"
  \/ p[i].kind = "health" /\ health = "unhealthy"
  \/ Lacking(p, i, s)

HopelessForAgent(step, health) ==
  \/ step.op = "postflight" /\ step.item = "ssh_reachable"
  \/ step.kind = "health" /\ health = "none"

Hopeless(p) ==
  \E i \in DOMAIN p :
    \/ HopelessHere(p, i, server, situation.health)
    \/ job.agent /\ HopelessForAgent(p[i], situation.health)

(* In the agent's first run of a job a gate in front of a container may    *)
(* end it before it gets to that.                                          *)
GateBeforeContainer(p) ==
  \E i, k \in DOMAIN p : i < k /\ p[i].gate /\ p[k].op = "run_container"

RunsNeeded(p) == IF ~job.agent THEN 1 ELSE IF GateBeforeContainer(p) THEN 3 ELSE 2

(* An apply without accidents of a plan that can succeed does, at once     *)
(* over SSH, and at the second time in a row through the agent; and one of *)
(* a plan that cannot does not.  (Through the agent, the first apply of a  *)
(* new container image fails: stop and remove count as unchanged; and so   *)
(* does the second behind a gate that fails the first time.  With an empty *)
(* upload, both ends are possible.)                                        *)
IsEmptyUpload(step) == step.kind = "upload" /\ Rev(step) = 0

CleanApplySucceeds ==
  /\ Reported /\ cleanRuns >= RunsNeeded(compiled)
  /\ \A step \in Range(compiled) : ~IsEmptyUpload(step)
  /\ ~Premature(compiled)
  => (Succeeded <=> ~Hopeless(compiled))

(* The resources of a stack that is accepted stand in its plan, each with  *)
(* all its steps behind those it depends on; those of a blueprint, unless  *)
(* they go round in circles, too.                                          *)
Resources(s) == IF s.kind \in {"stack", "blueprint"} THEN s.resources ELSE <<>>

StepsFor(name) ==
  {i \in DOMAIN compiled : compiled[i].id[1] = name}

AcceptedStackIsOrdered ==
  phase # "idle" /\ (job.spec.kind = "blueprint" => ~HasCycle(job.spec.resources)) =>
    \A res \in Range(Resources(job.spec)) :
      /\ StepsFor(res.name) # {}
      /\ \A d \in Range(res.dependsOn) :
           \A i \in StepsFor(res.name), j \in StepsFor(d) : j < i

(* Every apply comes to an end, with or without an agent that answers,     *)
(* provided that commands return: neither a killed agent, a result that is *)
(* missing or the second pass leaves it with nothing to do.                *)
EveryApplyReports == phase # "idle" ~> phase = "idle"
=============================================================================
