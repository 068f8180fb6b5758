----------------------------- MODULE MCSpecApply -----------------------------
(* SpecApply on small specs of every kind.  A situation is a set of specs for *)
(* one server, the agents that may be on it, the modes that are asked for,    *)
(* how its containers behave, and whether postgres runs on it.                *)
EXTENDS SpecApply

MCSites == {"site"}
MCTimers == {"timer"}
MCUnits == {"unit", "service"} \cup MCTimers
AllItems == MCSites \cup MCUnits \cup
  {"postgres", "listen", "nginx", "docker", "role", "database", "web", "file",
   "script", "logrotate", "shop", "blog", "compose", "user", "extension",
   "grant", "pkg", "old"}

NoService ==
  [kind |-> "service", postgres |-> FALSE, role |-> FALSE, database |-> FALSE,
   nginx |-> FALSE, sites |-> <<>>, docker |-> FALSE, containers |-> <<>>]

Web == [name |-> "web", healthcheck |-> FALSE]
Database ==
  [NoService EXCEPT !.postgres = TRUE, !.role = TRUE, !.database = TRUE]
WebServer == [NoService EXCEPT !.nginx = TRUE, !.sites = <<"site">>]
Container == [NoService EXCEPT !.containers = <<Web>>]
CheckedContainer ==
  [NoService EXCEPT !.containers = <<[Web EXCEPT !.healthcheck = TRUE]>>]

Files(checks) ==
  [kind |-> "file_template", templates |-> <<"file">>, checks |-> checks]

Project(number, name) ==
  [kind |-> "compose_project", number |-> number, project |-> name,
   directories |-> <<"dir">>, templates |-> <<"compose">>,
   files |-> <<[name |-> "file", default |-> FALSE],
               [name |-> "script", default |-> TRUE]>>,
   pull |-> TRUE, healthcheck |-> TRUE, httpReady |-> TRUE,
   postDeploy |-> <<"post_deploy">>, checks |-> <<>>]

(* Its readiness probe is configured, but the health check is off.            *)
SmallProject(number, name) ==
  [Project(number, name) EXCEPT !.directories = <<>>, !.templates = <<>>,
     !.files = <<>>, !.pull = FALSE, !.healthcheck = FALSE,
     !.postDeploy = <<>>]

Ensure ==
  [kind |-> "postgres_ensure", users |-> <<"user">>, databases |-> <<"database">>,
   extensions |-> <<"extension">>, grants |-> <<"grant">>,
   checks |-> <<"postgres_ready">>]

Backup ==
  [kind |-> "backup_job", script |-> "script", service |-> "service",
   timer |-> "timer", checks |-> <<>>]

Unit ==
  [kind |-> "systemd_unit", unit |-> "unit", logrotate |-> "logrotate",
   checks |-> <<>>]

Timer ==
  [kind |-> "systemd_timer", service |-> "service", timer |-> "timer",
   checks |-> <<>>]

Http == [kind |-> "http_check", url |-> "url", checks |-> <<>>]

Packages ==
  [kind |-> "package", updateCache |-> TRUE, present |-> "pkg",
   absent |-> "old", checks |-> <<>>]

Resource(name, s, dependsOn, flaw) ==
  [name |-> name, spec |-> s, dependsOn |-> dependsOn, flaw |-> flaw]

Composite(kind, parts) ==
  [kind |-> kind, resources |-> parts, checks |-> <<"nginx_ready">>]

WebStack ==
  Composite("stack",
    << Resource("A", WebServer, <<"B">>, "none"),
       Resource("B", Files(<<>>), <<>>, "none") >>)

(* A gate in front of a container; a check in front of what it asks for.      *)
GatedStack ==
  [Composite("stack",
     << Resource("A", Container, <<"B">>, "none"),
        Resource("B", Ensure, <<>>, "none") >>) EXCEPT !.checks = <<>>]

EarlyStack ==
  Composite("stack",
    << Resource("A", Files(<<"nginx_ready">>), <<>>, "none"),
       Resource("B", WebServer, <<>>, "none") >>)

FlawedStack(flaw) ==
  [Composite("stack", <<Resource("A", Files(<<>>), <<>>, flaw)>>)
     EXCEPT !.checks = <<>>]

(* All ways in which A, B and C may depend on each other, as a stack and as a *)
(* blueprint, and one on a name that is not there.                            *)
Names == {"A", "B", "C"}
Graph(kind, deps) ==
  [Composite(kind, [i \in 1..3 |->
     LET n == <<"A", "B", "C">>[i]
     IN  Resource(n, Files(<<>>), SetToSeq(deps[n]), "no_planner")])
     EXCEPT !.checks = <<>>]

Graphs == {Graph(kind, deps) : kind \in {"stack", "blueprint"},
                               deps \in [Names -> SUBSET Names]}
  \cup {Composite(kind, <<Resource("A", Files(<<>>), <<"web">>, "no_planner")>>) :
          kind \in {"stack", "blueprint"}}

Situation(s, host_agent, modes, limit) ==
  [specs |-> {s}, agents |-> {host_agent}, modes |-> modes, applies |-> 3,
   accidents |-> limit,
   health |-> "healthy", dies |-> FALSE, postgres |-> 0]

OverSsh(s) == [Situation(s, "absent", {"auto"}, 1) EXCEPT !.applies = 2]
WithAgent(s, limit) == Situation(s, "same", {"auto", "client"}, limit)

(* Specs whose steps build on one another's effects; specs that cannot        *)
(* succeed, everywhere or with an agent.                                      *)
Sound == {Database, WebServer, Container, Files(<<>>), Backup, Unit, Timer,
          Packages, WebStack, Http}
Unsound == {CheckedContainer, Files(<<"ssh_reachable">>),
            Files(<<"nginx_ready">>), EarlyStack,
            FlawedStack("no_planner"), FlawedStack("invalid"),
            FlawedStack("unrendered")}

AllSituations ==
  {OverSsh(s) : s \in Sound \cup Unsound}
  \cup {WithAgent(s, 0) : s \in Sound}
  \cup {[WithAgent(s, 0) EXCEPT !.applies = 2] : s \in Unsound}
  \cup {WithAgent(Files(<<>>), 1), [WithAgent(Unit, 1) EXCEPT !.modes = {"auto"}]}
  \cup {[OverSsh(Project(0, "shop")) EXCEPT !.health = h] :
          h \in {"none", "healthy", "unhealthy"}}
  \cup {[WithAgent(Project(0, "shop"), 0) EXCEPT !.health = h, !.applies = 2] :
          h \in {"none", "healthy", "unhealthy"}}
  \cup {[Situation(SmallProject(0, "shop"), "same", {"auto"}, 0)
           EXCEPT !.specs = {SmallProject(0, "shop"), SmallProject(1, "blog")}]}
  \cup {[WithAgent(Ensure, 0) EXCEPT !.postgres = p] : p \in 0..1}
  \cup {[Situation(GatedStack, "same", {"auto"}, 0)
           EXCEPT !.postgres = 1, !.applies = 4]}
  \cup {[WithAgent(Container, 0) EXCEPT !.dies = TRUE]}
  \cup {[Situation(Files(<<>>), "same", {"auto", "agent"}, 0)
           EXCEPT !.agents = {"absent", "same", "other"}]}
  \cup {[Situation(g, "absent", {"client"}, 0) EXCEPT !.applies = 1] : g \in Graphs}

Compilations ==
  {PlanOf(s, r) : s \in UNION {x.specs : x \in AllSituations}, r \in 1..2}
AllIds == UNION {{steps[i].id : i \in DOMAIN steps} : steps \in Compilations}
AllForClient == {ForClient(steps) : steps \in Compilations}
AllForAgent == {ForAgent(steps) : steps \in Compilations}
AllOpen == [id \in AllIds |-> "auto_apply"]

(* TLC computes a definition once, but what a constant stands for each time.  *)
MCItems == AllItems
MCSituations == AllSituations
MCStepIds == AllIds
MCPlans == AllForClient
MCAgentPlans == AllForAgent
MCOpenPolicy == AllOpen
=============================================================================
