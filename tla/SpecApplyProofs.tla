--------------------------- MODULE SpecApplyProofs ---------------------------
(***************************************************************************)
(* Applies of specs of every kind but bootstrap, again and again: what a   *)
(* success that is reported says about the server.  For all plans that     *)
(* keep the order of WellPlanned.                                          *)
(*                                                                         *)
(* A success is one of the run over SSH, in which no step is skipped: it   *)
(* has executed all of the plan, on the server as it was left by whatever  *)
(* came before.  What each step is there for then holds from the step that *)
(* brings it about (Settled), because of the order of the plan.            *)
(*                                                                         *)
(* The second part is the converse, for applies without accidents: which   *)
(* plans succeed, and after how many runs (CleanInv).                      *)
(***************************************************************************)
EXTENDS SpecApply, WellFoundedInduction, TLAPS

Servers ==
  [file : [Items -> 0..2], mode : [Items -> 0..1],
   loaded : [Items -> 0..2], run : [Items -> 0..2]]

-----------------------------------------------------------------------------
(* The effect of each operation, and that others have none.                *)

(* The families of operations.                                             *)
LEMMA Families ==
  ASSUME NEW op
  PROVE  /\ op \in ModeSteps => Family(op) = "file"
         /\ op \in {"install_nginx", "enable_nginx", "enable_nginx_site", "reload_nginx"}
              => Family(op) = "nginx"
         /\ op \in CreateSteps \cup {"install_postgres", "configure_postgres_listen",
                                      "enable_postgres"} => Family(op) = "postgres"
         /\ op \in EnsureSteps => Family(op) = "ensure"
         /\ op \in {"install_docker", "enable_docker"} => Family(op) = "docker"
         /\ op \in {"stop_container", "remove_container", "run_container"}
              => Family(op) = "container"
         /\ op = "compose_up" => Family(op) = "compose"
         /\ op \in {"systemd_daemon_reload", "enable_start_timer", "restart_unit",
                    "enable_unit"} => Family(op) = "systemd"
         /\ op \in {"apt_install_packages", "apt_remove_packages"}
              => Family(op) = "package"
  BY DEF Family, ModeSteps, CreateSteps, EnsureSteps, ComposeSteps

(* A step is the business of one family.                                   *)
LEMMA EffectOfFamily ==
  ASSUME NEW step, step.kind # "upload"
  PROVE  /\ step.op \in ModeSteps => Effect(step) = FileEffect(step.item)
         /\ step.op \in EnsureSteps => Effect(step) = EnsureEffect(step.item, Rev(step))
         /\ Family(step.op) = "nginx" =>
              Effect(step) = NginxEffect(step.op, step.item)
         /\ Family(step.op) = "postgres" =>
              Effect(step) = PostgresEffect(step.op, step.item, Rev(step))
         /\ Family(step.op) = "docker" =>
              Effect(step) = DockerEffect(step.op, step.item)
         /\ Family(step.op) = "container" =>
              Effect(step) = ContainerEffect(step.op, step.item, Rev(step))
         /\ Family(step.op) = "compose" =>
              Effect(step) = ComposeEffect(step.op, step.item)
         /\ Family(step.op) = "systemd" =>
              Effect(step) = SystemdEffect(step.op, step.item)
         /\ Family(step.op) = "package" =>
              Effect(step) = PackageEffect(step.op, step.item, Rev(step))
         /\ /\ Family(step.op) \notin {"nginx", "postgres", "docker", "container",
                                   "compose", "systemd", "package"}
            /\ step.op \notin ModeSteps \cup EnsureSteps
            => Effect(step) = server
  <1> DEFINE family == Family(step.op)
  <1>1. step.op \in ModeSteps => step.op \notin EnsureSteps
    BY DEF ModeSteps, EnsureSteps
  <1>2. /\ step.op \in ModeSteps => family = "file"
        /\ step.op \in EnsureSteps => family = "ensure"
    BY Families
  <1> HIDE DEF family
  <1>3. Effect(step) =
          CASE step.kind = "upload" ->
                 IF Rev(step) # 0 THEN Uploaded(step.item, Rev(step)) ELSE server
            [] step.op \in ModeSteps -> FileEffect(step.item)
            [] step.op \in EnsureSteps -> EnsureEffect(step.item, Rev(step))
            [] family = "nginx" -> NginxEffect(step.op, step.item)
            [] family = "postgres" -> PostgresEffect(step.op, step.item, Rev(step))
            [] family = "docker" -> DockerEffect(step.op, step.item)
            [] family = "container" -> ContainerEffect(step.op, step.item, Rev(step))
            [] family = "compose" -> ComposeEffect(step.op, step.item)
            [] family = "systemd" -> SystemdEffect(step.op, step.item)
            [] family = "package" -> PackageEffect(step.op, step.item, Rev(step))
            [] OTHER -> server
    BY DEF Effect, family
  <1>4. step.op \in ModeSteps => Effect(step) = FileEffect(step.item)
    BY <1>1, <1>2, <1>3
  <1>5. step.op \in EnsureSteps => Effect(step) = EnsureEffect(step.item, Rev(step))
    BY <1>1, <1>2, <1>3
  <1>6. family \notin {"file", "ensure"} => step.op \notin ModeSteps \cup EnsureSteps
    BY <1>2
  <1>7. family = "nginx" => Effect(step) = NginxEffect(step.op, step.item)
    BY <1>3, <1>6
  <1>8. family = "postgres" => Effect(step) = PostgresEffect(step.op, step.item, Rev(step))
    BY <1>3, <1>6
  <1>9. family = "docker" => Effect(step) = DockerEffect(step.op, step.item)
    BY <1>3, <1>6
  <1>10. family = "container" => Effect(step) = ContainerEffect(step.op, step.item, Rev(step))
    BY <1>3, <1>6
  <1>11. family = "compose" => Effect(step) = ComposeEffect(step.op, step.item)
    BY <1>3, <1>6
  <1>12. family = "systemd" => Effect(step) = SystemdEffect(step.op, step.item)
    BY <1>3, <1>6
  <1>13. family = "package" => Effect(step) = PackageEffect(step.op, step.item, Rev(step))
    BY <1>3, <1>6
  <1>14. /\ family \notin {"nginx", "postgres", "docker", "container",
                         "compose", "systemd", "package"}
         /\ step.op \notin ModeSteps \cup EnsureSteps
         => Effect(step) = server
    BY <1>3
  <1> QED
    BY <1>4, <1>5, <1>7, <1>8, <1>9, <1>10, <1>11, <1>12, <1>13, <1>14 DEF family

(* An upload has an effect if there is something to upload.                *)
LEMMA EffectOfUpload ==
  ASSUME NEW step, step.kind = "upload", Family(step.op) = "none"
  PROVE  Effect(step) = IF Rev(step) # 0 THEN Uploaded(step.item, Rev(step)) ELSE server
  <1>1. step.op \notin ModeSteps /\ step.op \notin EnsureSteps
    BY Families
  <1> QED
    BY <1>1 DEF Effect

(* What is installed, created, ensured.                                    *)
LEMMA EffectOfFileSteps ==
  ASSUME NEW step, step.kind # "upload"
  PROVE  /\ step.op \in ModeSteps => Effect(step) = [server EXCEPT !.mode[step.item] = 1]
         /\ step.op \in EnsureSteps =>
              Effect(step) = [server EXCEPT !.file[step.item] = Rev(step)]
         /\ step.op \in {"install_nginx", "install_docker"} =>
              Effect(step) = [server EXCEPT !.file[step.item] = 1]
         /\ step.op \in {"install_postgres", "configure_postgres_listen",
                         "apt_install_packages"} =>
              Effect(step) = [server EXCEPT !.file[step.item] = Rev(step)]
         /\ step.op \in CreateSteps =>
              Effect(step) = IF Running("postgres") /\ ~Installed(step.item)
                               THEN [server EXCEPT !.file[step.item] = Rev(step)] ELSE server
         /\ step.op = "apt_remove_packages" =>
              Effect(step) = [server EXCEPT !.file[step.item] = 0]
  <1>1. step.op \in ModeSteps => Effect(step) = [server EXCEPT !.mode[step.item] = 1]
    BY EffectOfFamily DEF FileEffect
  <1>2. step.op \in EnsureSteps =>
          Effect(step) = [server EXCEPT !.file[step.item] = Rev(step)]
    BY EffectOfFamily DEF EnsureEffect
  <1>3. step.op = "install_nginx" => Effect(step) = [server EXCEPT !.file[step.item] = 1]
    BY EffectOfFamily, Families DEF NginxEffect
  <1>4. step.op = "install_docker" => Effect(step) = [server EXCEPT !.file[step.item] = 1]
    BY EffectOfFamily, Families DEF DockerEffect
  <1>5. step.op \in {"install_postgres", "configure_postgres_listen"} =>
          Effect(step) = [server EXCEPT !.file[step.item] = Rev(step)]
    BY EffectOfFamily, Families DEF PostgresEffect, CreateSteps
  <1>6. step.op \in CreateSteps =>
          Effect(step) = IF Running("postgres") /\ ~Installed(step.item)
                           THEN [server EXCEPT !.file[step.item] = Rev(step)] ELSE server
    BY EffectOfFamily, Families DEF PostgresEffect, CreateSteps
  <1>7. step.op = "apt_install_packages" =>
          Effect(step) = [server EXCEPT !.file[step.item] = Rev(step)]
    BY EffectOfFamily, Families DEF PackageEffect
  <1>8. step.op = "apt_remove_packages" => Effect(step) = [server EXCEPT !.file[step.item] = 0]
    BY EffectOfFamily, Families DEF PackageEffect
  <1> QED
    BY <1>1, <1>2, <1>3, <1>4, <1>5, <1>6, <1>7, <1>8

(* What is loaded, started, stopped.                                       *)
LEMMA EffectOfRunSteps ==
  ASSUME NEW step, step.kind # "upload"
  PROVE  /\ step.op \in {"enable_nginx", "enable_postgres", "enable_docker"} =>
              Effect(step) = Started(step.item)
         /\ step.op = "enable_nginx_site" =>
              Effect(step) = [server EXCEPT !.loaded[step.item] = 1]
         /\ step.op = "reload_nginx" => Effect(step) = NginxReloaded(server)
         /\ step.op \in {"stop_container", "remove_container", "run_container"} =>
              Effect(step) = ContainerEffect(step.op, step.item, Rev(step))
         /\ step.op = "compose_up" =>
              Effect(step) = [server EXCEPT !.run[step.item] = server.file[step.item]]
         /\ step.op \in {"systemd_daemon_reload", "enable_start_timer", "restart_unit"} =>
              Effect(step) = SystemdEffect(step.op, step.item)
  <1>1. step.op = "enable_nginx" => Effect(step) = Started(step.item)
    BY EffectOfFamily, Families DEF NginxEffect
  <1>2. step.op = "enable_postgres" => Effect(step) = Started(step.item)
    BY EffectOfFamily, Families DEF PostgresEffect, CreateSteps
  <1>3. step.op = "enable_docker" => Effect(step) = Started(step.item)
    BY EffectOfFamily, Families DEF DockerEffect
  <1>4. step.op = "enable_nginx_site" =>
          Effect(step) = [server EXCEPT !.loaded[step.item] = 1]
    BY EffectOfFamily, Families DEF NginxEffect
  <1>5. step.op = "reload_nginx" => Effect(step) = NginxReloaded(server)
    BY EffectOfFamily, Families DEF NginxEffect
  <1>6. step.op \in {"stop_container", "remove_container", "run_container"} =>
          Effect(step) = ContainerEffect(step.op, step.item, Rev(step))
    BY EffectOfFamily, Families
  <1>7. step.op = "compose_up" =>
          Effect(step) = [server EXCEPT !.run[step.item] = server.file[step.item]]
    BY EffectOfFamily, Families DEF ComposeEffect
  <1>8. step.op \in {"systemd_daemon_reload", "enable_start_timer", "restart_unit"} =>
          Effect(step) = SystemdEffect(step.op, step.item)
    BY EffectOfFamily, Families
  <1> QED
    BY <1>1, <1>2, <1>3, <1>4, <1>5, <1>6, <1>7, <1>8

(* Nothing else has an effect.                                             *)
LEMMA EffectOfOthers ==
  ASSUME NEW step, step.kind # "upload",
         step.op = "enable_unit" \/ step.op \notin Operations
  PROVE  Effect(step) = server
  <1>1. /\ step.op \notin ModeSteps \cup EnsureSteps
        /\ step.op \notin {"apt_install_packages", "apt_remove_packages"}
    BY DEF Operations, FileSteps, ModeSteps, EnsureSteps
  <1>2. NginxEffect(step.op, step.item) = server
    BY DEF NginxEffect, Operations, FileSteps
  <1>3. PostgresEffect(step.op, step.item, Rev(step)) = server
    BY DEF PostgresEffect, Operations, FileSteps, CreateSteps
  <1>4. DockerEffect(step.op, step.item) = server
    BY DEF DockerEffect, Operations, FileSteps
  <1>5. ContainerEffect(step.op, step.item, Rev(step)) = server
    BY DEF ContainerEffect, Operations
  <1>6. ComposeEffect(step.op, step.item) = server
    BY DEF ComposeEffect, Operations
  <1>7. SystemdEffect(step.op, step.item) = server
    BY DEF SystemdEffect, Operations
  <1>8. Family(step.op) # "package"
    <2> DEFINE op == step.op
    <2>1. op \notin {"apt_install_packages", "apt_remove_packages"}
      BY <1>1
    <2> HIDE DEF op
    <2>2. Family(op) # "package"
      BY <2>1 DEF Family
    <2> QED
      BY <2>2 DEF op
  <1> QED
    BY <1>1, <1>2, <1>3, <1>4, <1>5, <1>6, <1>7, <1>8, EffectOfFamily

-----------------------------------------------------------------------------
(* What a step that works changes, in each of the four maps, and to what.  *)

FileChange(step, e) ==
  /\ \A y \in Items :
       \/ e.file[y] = server.file[y]
       \/ y = step.item /\ WritesFile(step) /\ e.file[y] = Asked(step)
  /\ WritesFile(step) => e.file[step.item] = Asked(step) \/ step.op \in CreateSteps
  /\ step.op \in CreateSteps /\ Running("postgres") => e.file[step.item] # 0

ModeChange(step, e) ==
  /\ \A y \in Items :
       \/ e.mode[y] = server.mode[y]
       \/ y = step.item /\ (e.mode[y] = 1 \/ step.kind = "upload")
  /\ step.op \in ModeSteps => e.mode[step.item] = 1

LoadedChange(step, e) ==
  /\ \A y \in Items :
       \/ e.loaded[y] = server.loaded[y]
       \/ y = step.item /\ Role(step.op) = "site" /\ e.loaded[y] = 1
       \/ y = step.item /\ Role(step.op) = "container"
       \/ y \in Units /\ e.loaded[y] = server.file[y]
  /\ step.op = "enable_nginx_site" => e.loaded[step.item] = 1
  /\ step.op = "run_container" => e.loaded[step.item] = Rev(step)
  /\ step.op = "systemd_daemon_reload" =>
       \A y \in Items \cap Units : e.loaded[y] = server.file[y]

RunChange(step, e) ==
  /\ \A y \in Items :
       \/ e.run[y] = server.run[y]
       \/ y = "listen"
       \/ y = step.item /\ Role(step.op) = "container"
       \/ y = step.item /\ Role(step.op) = "daemon" /\ e.run[y] # 0
       \/ y = step.item /\ Role(step.op) = "project" /\ e.run[y] = server.file[y]
       \/ y = step.item /\ Role(step.op) \in {"unit", "timer"} /\ e.run[y] = server.loaded[y]
       \/ y \in Sites /\ server.loaded[y] # 0 /\ e.run[y] = server.file[y]
       \/ y \in Timers /\ server.run[y] # 0 /\ e.run[y] = server.file[y]
  /\ Role(step.op) = "daemon" => e.run[step.item] # 0
  /\ step.op = "run_container" =>
       e.run[step.item] = IF situation.dies THEN 0 ELSE Rev(step)
  /\ step.op = "compose_up" => e.run[step.item] = server.file[step.item]
  /\ step.op = "restart_unit" => e.run[step.item] = server.loaded[step.item]
  /\ step.op = "enable_start_timer" =>
       e.run[step.item] = IF server.run[step.item] # 0 THEN server.run[step.item]
                                                      ELSE server.loaded[step.item]
  /\ step.op = "reload_nginx" =>
       \A y \in Items \cap Sites : server.loaded[y] # 0 => e.run[y] = server.file[y]
  /\ step.op = "systemd_daemon_reload" =>
       \A y \in Items \cap Timers :
         e.run[y] = IF server.run[y] # 0 THEN server.file[y] ELSE 0

Changed(step, e) ==
  /\ e \in Servers
  /\ FileChange(step, e) /\ ModeChange(step, e)
  /\ LoadedChange(step, e) /\ RunChange(step, e)

(* The roles of operations.                                                *)
LEMMA Roles ==
  ASSUME NEW op
  PROVE  /\ Role(op) = "site" <=> op = "enable_nginx_site"
         /\ Role(op) = "container" <=>
              op \in {"stop_container", "remove_container", "run_container"}
         /\ Role(op) = "project" <=> op = "compose_up"
         /\ Role(op) = "unit" <=> op = "restart_unit"
         /\ Role(op) = "timer" <=> op = "enable_start_timer"
         /\ Role(op) = "daemon" <=> op \in {"enable_nginx", "enable_postgres", "enable_docker"}
         /\ op \notin Operations => Role(op) = "none"
         /\ op \in {"enable_unit", "reload_nginx", "systemd_daemon_reload"}
              => Role(op) = "none"
         /\ op \in FileSteps \cup ModeSteps => Role(op) = "none"
  BY DEF Role, Operations, FileSteps, ModeSteps, CreateSteps, EnsureSteps

(* What is neither one thing nor the other.                                *)
LEMMA Distinct ==
  ASSUME NEW op
  PROVE  /\ op \in ModeSteps => op \notin FileSteps
         /\ op \in {"enable_nginx_site", "stop_container", "remove_container",
                    "run_container", "compose_up", "restart_unit", "enable_start_timer",
                    "enable_nginx", "enable_postgres", "enable_docker", "enable_unit",
                    "reload_nginx", "systemd_daemon_reload"} =>
              op \in Operations /\ op \notin FileSteps \cup ModeSteps
         /\ CreateSteps \subseteq FileSteps /\ FileSteps \cup ModeSteps \subseteq Operations
  BY DEF Operations, FileSteps, ModeSteps, CreateSteps, EnsureSteps

(* A server that is written at one place: a file, ...                      *)
LEMMA FileWritten ==
  ASSUME server \in Servers, NEW x \in Items, NEW v \in 0..2, NEW e, e = [server EXCEPT !.file[x] = v]
  PROVE  /\ e \in Servers
         /\ e.mode = server.mode /\ e.loaded = server.loaded /\ e.run = server.run
         /\ e.file[x] = v
         /\ \A y \in Items \ {x} : e.file[y] = server.file[y]
  BY DEF Servers

(* ... a mode, ...                                                         *)
LEMMA ModeWritten ==
  ASSUME server \in Servers, NEW x \in Items, NEW v \in 0..1, NEW e, e = [server EXCEPT !.mode[x] = v]
  PROVE  /\ e \in Servers
         /\ e.file = server.file /\ e.loaded = server.loaded /\ e.run = server.run
         /\ e.mode[x] = v
         /\ \A y \in Items \ {x} : e.mode[y] = server.mode[y]
  BY DEF Servers

(* ... what is loaded, ...                                                 *)
LEMMA LoadedWritten ==
  ASSUME server \in Servers, NEW x \in Items, NEW v \in 0..2, NEW e, e = [server EXCEPT !.loaded[x] = v]
  PROVE  /\ e \in Servers
         /\ e.file = server.file /\ e.mode = server.mode /\ e.run = server.run
         /\ e.loaded[x] = v
         /\ \A y \in Items \ {x} : e.loaded[y] = server.loaded[y]
  BY DEF Servers

(* ... or what runs.                                                       *)
LEMMA RunWritten ==
  ASSUME server \in Servers, NEW x \in Items, NEW v \in 0..2, NEW e, e = [server EXCEPT !.run[x] = v]
  PROVE  /\ e \in Servers
         /\ e.file = server.file /\ e.mode = server.mode /\ e.loaded = server.loaded
         /\ e.run[x] = v
         /\ \A y \in Items \ {x} : e.run[y] = server.run[y]
  BY DEF Servers

(* No effect changes nothing.                                              *)
LEMMA NothingChanged ==
  ASSUME server \in Servers, NEW step,
         ~WritesFile(step) \/ (step.op \in CreateSteps /\ (Running("postgres") => Installed(step.item))),
         step.op \notin Operations \ (CreateSteps \cup {"enable_unit"})
  PROVE  Changed(step, server)
  <1>1. /\ step.op \notin ModeSteps \cup
             {"enable_nginx_site", "stop_container", "remove_container",
              "run_container", "compose_up", "restart_unit", "enable_start_timer",
              "enable_nginx", "enable_postgres", "enable_docker",
              "reload_nginx", "systemd_daemon_reload"}
        /\ Role(step.op) # "daemon"
    BY Distinct, Roles DEF CreateSteps, ModeSteps
  <1>2. step.op \in CreateSteps => WritesFile(step)
    BY Distinct DEF WritesFile
  <1> QED
    BY <1>1, <1>2 DEF Changed, FileChange, ModeChange, LoadedChange, RunChange, Installed

(* What an upload or a step about a file changes.                          *)
LEMMA FileStepsChange ==
  ASSUME server \in Servers, NEW step, IsPlanned(step),
         WritesFile(step), ~(step.op \in CreateSteps /\ (Running("postgres") => Installed(step.item)))
  PROVE  Changed(step, Effect(step))
  <1> DEFINE x == step.item
             e == Effect(step)
  <1>1. /\ x \in Items /\ Asked(step) \in 0..2
        /\ step.kind # "upload" => step.op \in FileSteps /\ Rev(step) # 0
        /\ step.op \in {"install_nginx", "install_docker"} => Rev(step) = 1
        /\ step.kind = "upload" => step.op \notin Operations /\ Family(step.op) = "none"
    BY DEF IsPlanned, WritesFile, Asked
  <1>2. /\ Role(step.op) = "none"
        /\ step.op \notin ModeSteps \cup
             {"enable_nginx_site", "stop_container", "remove_container",
              "run_container", "compose_up", "restart_unit", "enable_start_timer",
              "enable_nginx", "enable_postgres", "enable_docker",
              "reload_nginx", "systemd_daemon_reload"}
        /\ step.op \in CreateSteps => step.kind # "upload" /\ step.op # "apt_remove_packages"
    BY <1>1, Distinct, Roles DEF CreateSteps
  <1>3. step.kind = "upload" => step.op # "apt_remove_packages" /\ Rev(step) # 0
    BY <1>1, Distinct DEF WritesFile, FileSteps
  <1>4. CASE step.kind = "upload"
    <2> DEFINE f == [server EXCEPT !.file[x] = Rev(step)]
    <2>1. /\ e = [f EXCEPT !.mode[x] = 0] /\ Rev(step) \in 0..2 /\ Asked(step) = Rev(step)
      BY <1>1, <1>3, <1>4, EffectOfUpload DEF Uploaded, Asked
    <2>2. /\ f \in Servers /\ f.mode = server.mode /\ f.loaded = server.loaded
          /\ f.run = server.run /\ f.file[x] = Rev(step)
          /\ \A y \in Items \ {x} : f.file[y] = server.file[y]
      BY <1>1, <2>1, FileWritten
    <2> HIDE DEF f, e
    <2>3. /\ e \in Servers /\ e.file = f.file /\ e.loaded = f.loaded /\ e.run = f.run
          /\ \A y \in Items \ {x} : e.mode[y] = f.mode[y]
      BY <1>1, <2>1, <2>2 DEF Servers
    <2>4. FileChange(step, e)
      BY <1>1, <1>2, <1>4, <2>1, <2>2, <2>3 DEF FileChange
    <2>5. ModeChange(step, e) /\ LoadedChange(step, e)
      BY <1>2, <1>4, <2>2, <2>3 DEF ModeChange, LoadedChange
    <2>6. RunChange(step, e)
      BY <1>2, <2>2, <2>3 DEF RunChange
    <2> QED
      BY <2>3, <2>4, <2>5, <2>6 DEF Changed, e
  <1>5. CASE step.kind # "upload"
    <2>1. e = [server EXCEPT !.file[x] = Asked(step)]
      <3>1. step.op \in FileSteps
        BY <1>1, <1>5
      <3>2. CASE step.op \in CreateSteps
        BY <1>2, <1>5, <3>2, EffectOfFileSteps DEF Asked
      <3>3. CASE step.op \in EnsureSteps
        BY <1>5, <3>3, EffectOfFileSteps DEF Asked, EnsureSteps
      <3>4. CASE step.op \in {"install_nginx", "install_docker"}
        BY <1>1, <1>5, <3>4, EffectOfFileSteps DEF Asked
      <3>5. CASE step.op \in {"install_postgres", "configure_postgres_listen",
                              "apt_install_packages"}
        BY <1>5, <3>5, EffectOfFileSteps DEF Asked
      <3>6. CASE step.op = "apt_remove_packages"
        BY <1>5, <3>6, EffectOfFileSteps DEF Asked
      <3> QED
        BY <3>1, <3>2, <3>3, <3>4, <3>5, <3>6 DEF FileSteps
    <2>2. /\ e \in Servers /\ e.mode = server.mode /\ e.loaded = server.loaded
          /\ e.run = server.run /\ e.file[x] = Asked(step)
          /\ \A y \in Items \ {x} : e.file[y] = server.file[y]
      BY <1>1, <2>1, FileWritten
    <2> HIDE DEF e
    <2>3. FileChange(step, e)
      BY <1>1, <1>2, <1>5, <2>2 DEF FileChange, Asked
    <2>4. ModeChange(step, e) /\ LoadedChange(step, e)
      BY <1>2, <2>2 DEF ModeChange, LoadedChange
    <2>5. RunChange(step, e)
      BY <1>2, <2>2 DEF RunChange
    <2> QED
      BY <2>2, <2>3, <2>4, <2>5 DEF Changed, e
  <1> QED
    BY <1>4, <1>5

(* What sets a mode, enables a site, brings a project up.                  *)
LEMMA PlaceStepsChange ==
  ASSUME server \in Servers, NEW step, IsPlanned(step),
         step.op \in ModeSteps \cup {"enable_nginx_site", "compose_up"}
  PROVE  Changed(step, Effect(step))
  <1> DEFINE x == step.item
             e == Effect(step)
  <1>1. /\ x \in Items /\ step.kind # "upload" /\ step.op \notin FileSteps
        /\ ~WritesFile(step) /\ step.op \notin CreateSteps
    BY Distinct, Roles DEF IsPlanned, WritesFile
  <1>2. CASE step.op \in ModeSteps
    <2>1. /\ Role(step.op) = "none"
          /\ step.op \notin {"enable_nginx_site", "stop_container", "remove_container",
                "run_container", "compose_up", "restart_unit", "enable_start_timer",
                "reload_nginx", "systemd_daemon_reload"}
      BY <1>2, Distinct, Roles
    <2>2. e = [server EXCEPT !.mode[x] = 1]
      BY <1>1, <1>2, EffectOfFileSteps
    <2> HIDE DEF x, e
    <2>3. /\ e \in Servers /\ e.file = server.file /\ e.loaded = server.loaded
          /\ e.run = server.run /\ e.mode[x] = 1
          /\ \A y \in Items \ {x} : e.mode[y] = server.mode[y]
      BY <1>1, <2>2, ModeWritten
    <2> USE DEF x
    <2>4. FileChange(step, e) /\ ModeChange(step, e) /\ LoadedChange(step, e)
      BY <1>1, <2>1, <2>3 DEF FileChange, ModeChange, LoadedChange
    <2>5. RunChange(step, e)
      BY <2>1, <2>3 DEF RunChange
    <2> QED
      BY <2>3, <2>4, <2>5 DEF Changed, e
  <1>3. CASE step.op = "enable_nginx_site"
    <2>1. Role(step.op) = "site" /\ step.op \notin ModeSteps
      BY <1>3, Distinct, Roles
    <2>2. e = [server EXCEPT !.loaded[x] = 1]
      BY <1>1, <1>3, EffectOfRunSteps
    <2>3. /\ e \in Servers /\ e.file = server.file /\ e.mode = server.mode
          /\ e.run = server.run /\ e.loaded[x] = 1
          /\ \A y \in Items \ {x} : e.loaded[y] = server.loaded[y]
      BY <1>1, <2>2, LoadedWritten
    <2> HIDE DEF e
    <2>4. FileChange(step, e) /\ ModeChange(step, e) /\ LoadedChange(step, e)
      BY <1>1, <1>3, <2>1, <2>3 DEF FileChange, ModeChange, LoadedChange
    <2>5. RunChange(step, e)
      BY <1>3, <2>1, <2>3 DEF RunChange
    <2> QED
      BY <2>3, <2>4, <2>5 DEF Changed, e
  <1>4. CASE step.op = "compose_up"
    <2>1. Role(step.op) = "project" /\ step.op \notin ModeSteps
      BY <1>4, Distinct, Roles
    <2>2. e = [server EXCEPT !.run[x] = server.file[x]] /\ server.file[x] \in 0..2
      BY <1>1, <1>4, EffectOfRunSteps DEF Servers
    <2>3. /\ e \in Servers /\ e.file = server.file /\ e.mode = server.mode
          /\ e.loaded = server.loaded /\ e.run[x] = server.file[x]
          /\ \A y \in Items \ {x} : e.run[y] = server.run[y]
      BY <1>1, <2>2, RunWritten
    <2> HIDE DEF e
    <2>4. FileChange(step, e) /\ ModeChange(step, e) /\ LoadedChange(step, e)
      BY <1>1, <1>4, <2>1, <2>3 DEF FileChange, ModeChange, LoadedChange
    <2>5. RunChange(step, e)
      BY <1>4, <2>1, <2>3 DEF RunChange
    <2> QED
      BY <2>3, <2>4, <2>5 DEF Changed, e
  <1> QED
    BY <1>2, <1>3, <1>4

(* What is done to a container.                                            *)
LEMMA ContainerStepsChange ==
  ASSUME server \in Servers, NEW step, IsPlanned(step),
         step.op \in {"stop_container", "remove_container", "run_container"}
  PROVE  Changed(step, Effect(step))
  <1> DEFINE x == step.item
             e == Effect(step)
             l == IF step.op = "run_container" THEN Rev(step)
                  ELSE IF step.op = "remove_container" /\ ~Running(x) THEN 0
                  ELSE server.loaded[x]
             r == IF step.op = "run_container"
                    THEN IF situation.dies THEN 0 ELSE Rev(step)
                  ELSE IF step.op = "stop_container" THEN 0 ELSE server.run[x]
             m == [server EXCEPT !.loaded[x] = l]
  <1>1. /\ x \in Items /\ step.kind # "upload" /\ Rev(step) \in 0..2
        /\ ~WritesFile(step) /\ step.op \notin CreateSteps /\ step.op \notin ModeSteps
        /\ Role(step.op) = "container"
    BY Distinct, Roles DEF IsPlanned, WritesFile
  <1>2. l \in 0..2 /\ r \in 0..2
    BY <1>1 DEF Servers
  <1>3. e = [m EXCEPT !.run[x] = r]
    <2>1. e = ContainerEffect(step.op, x, Rev(step))
      BY <1>1, EffectOfRunSteps
    <2>2. server = [server EXCEPT !.loaded[x] = server.loaded[x], !.run[x] = server.run[x]]
      BY <1>1 DEF Servers
    <2> QED
      BY <2>1, <2>2 DEF ContainerEffect, Servers
  <1> HIDE DEF l, r
  <1>4. /\ m \in Servers /\ m.mode = server.mode /\ m.file = server.file
        /\ m.run = server.run /\ m.loaded[x] = l
        /\ \A y \in Items \ {x} : m.loaded[y] = server.loaded[y]
    BY <1>1, <1>2, LoadedWritten
  <1> HIDE DEF m, e
  <1>5. /\ e \in Servers /\ e.mode = m.mode /\ e.file = m.file /\ e.loaded = m.loaded
        /\ e.run[x] = r
        /\ \A y \in Items \ {x} : e.run[y] = m.run[y]
    BY <1>1, <1>2, <1>3, <1>4 DEF Servers
  <1>6. FileChange(step, e) /\ ModeChange(step, e) /\ LoadedChange(step, e)
    BY <1>1, <1>4, <1>5 DEF FileChange, ModeChange, LoadedChange, l
  <1>7. RunChange(step, e)
    BY <1>1, <1>4, <1>5 DEF RunChange, r
  <1> QED
    BY <1>5, <1>6, <1>7 DEF Changed, e

(* nginx serves the enabled sites' files from its (re)load on.             *)
LEMMA Reloaded ==
  ASSUME NEW s \in Servers, NEW e, e = NginxReloaded(s)
  PROVE  /\ e \in Servers
         /\ e.file = s.file /\ e.mode = s.mode /\ e.loaded = s.loaded
         /\ \A y \in Items : e.run[y] = IF y \in Sites /\ s.loaded[y] # 0
                                          THEN s.file[y] ELSE s.run[y]
  BY DEF NginxReloaded, Servers

(* What starts a daemon.                                                   *)
LEMMA DaemonStepsChange ==
  ASSUME server \in Servers, NEW step, IsPlanned(step),
         step.op \in {"enable_nginx", "enable_postgres", "enable_docker"}
  PROVE  Changed(step, Effect(step))
  <1> DEFINE x == step.item
             e == Effect(step)
             s == [server EXCEPT !.run[x] = 1]
  <1>1. /\ x \in Items /\ step.kind # "upload" /\ x \notin Sites /\ x # "listen"
        /\ ~WritesFile(step) /\ step.op \notin CreateSteps /\ step.op \notin ModeSteps
        /\ Role(step.op) = "daemon"
        /\ x \in {"nginx", "postgres", "docker"}
    BY Distinct, Roles DEF IsPlanned, WritesFile
  <1>2. e = Started(x)
    BY <1>1, EffectOfRunSteps
  <1>3. s \in Servers /\ s.file = server.file /\ s.mode = server.mode
        /\ s.loaded = server.loaded /\ s.run[x] = 1
        /\ \A y \in Items \ {x} : s.run[y] = server.run[y]
    BY <1>1, RunWritten
  <1>4. Started(x) = IF Running(x) THEN server
                     ELSE CASE x = "nginx" -> NginxReloaded(s)
                            [] x = "postgres" -> [s EXCEPT !.run["listen"] = s.file["listen"]]
                            [] OTHER -> s
    BY DEF Started
  <1> HIDE DEF s, e
  <1>5. /\ e \in Servers /\ e.file = server.file /\ e.mode = server.mode
        /\ e.loaded = server.loaded /\ e.run[x] # 0
        /\ \A y \in Items :
             \/ e.run[y] = server.run[y] \/ y = x \/ y = "listen"
             \/ y \in Sites /\ server.loaded[y] # 0 /\ e.run[y] = server.file[y]
    <2>1. CASE Running(x)
      BY <1>2, <1>4, <2>1 DEF Running
    <2>2. CASE ~Running(x) /\ x = "nginx"
      <3>1. e = NginxReloaded(s)
        BY <1>2, <1>4, <2>2
      <3>2. /\ e \in Servers
            /\ e.file = s.file /\ e.mode = s.mode /\ e.loaded = s.loaded
            /\ \A y \in Items : e.run[y] = IF y \in Sites /\ s.loaded[y] # 0
                                             THEN s.file[y] ELSE s.run[y]
        BY <1>3, <3>1, Reloaded
      <3> QED
        BY <1>1, <1>3, <3>2
    <2>3. CASE ~Running(x) /\ x = "postgres"
      <3>1. e = [s EXCEPT !.run["listen"] = s.file["listen"]]
        BY <1>2, <1>4, <2>3
      <3>2. "listen" \in Items => s.file["listen"] \in 0..2
        BY <1>3 DEF Servers
      <3> QED
        BY <1>1, <1>3, <2>3, <3>1, <3>2 DEF Servers
    <2>4. CASE ~Running(x) /\ x = "docker"
      BY <1>2, <1>3, <1>4, <2>4
    <2> QED
      BY <1>1, <2>1, <2>2, <2>3, <2>4
  <1>6. FileChange(step, e) /\ ModeChange(step, e) /\ LoadedChange(step, e)
    BY <1>1, <1>5 DEF FileChange, ModeChange, LoadedChange
  <1>7. RunChange(step, e)
    BY <1>1, <1>5 DEF RunChange
  <1> QED
    BY <1>5, <1>6, <1>7 DEF Changed, e

(* What has nginx or systemd read files again.                             *)
LEMMA ReloadStepsChange ==
  ASSUME server \in Servers, NEW step, IsPlanned(step),
         step.op \in {"reload_nginx", "systemd_daemon_reload"}
  PROVE  Changed(step, Effect(step))
  <1> DEFINE e == Effect(step)
  <1>1. /\ step.kind # "upload" /\ Role(step.op) = "none"
        /\ ~WritesFile(step) /\ step.op \notin CreateSteps /\ step.op \notin ModeSteps
    BY Distinct, Roles DEF IsPlanned, WritesFile
  <1>2. CASE step.op = "reload_nginx"
    <2>1. e = NginxReloaded(server)
      BY <1>1, <1>2, EffectOfRunSteps
    <2>2. /\ e \in Servers
          /\ e.file = server.file /\ e.mode = server.mode /\ e.loaded = server.loaded
          /\ \A y \in Items : e.run[y] = IF y \in Sites /\ server.loaded[y] # 0
                                           THEN server.file[y] ELSE server.run[y]
      BY <2>1, Reloaded
    <2> HIDE DEF e
    <2>3. FileChange(step, e) /\ ModeChange(step, e) /\ LoadedChange(step, e)
      BY <1>1, <1>2, <2>2 DEF FileChange, ModeChange, LoadedChange
    <2>4. RunChange(step, e)
      BY <1>1, <1>2, <2>2 DEF RunChange
    <2> QED
      BY <2>2, <2>3, <2>4 DEF Changed, e
  <1>3. CASE step.op = "systemd_daemon_reload"
    <2> DEFINE l == [i \in Items |-> IF i \in Units THEN server.file[i] ELSE server.loaded[i]]
               r == [i \in Items |-> IF i \in Timers /\ server.run[i] # 0
                                        THEN server.file[i] ELSE server.run[i]]
    <2>1. e = [server EXCEPT !.loaded = l, !.run = r]
      BY <1>1, <1>3, EffectOfRunSteps DEF SystemdEffect
    <2>2. l \in [Items -> 0..2] /\ r \in [Items -> 0..2]
      BY DEF Servers
    <2> HIDE DEF e, l, r
    <2>3. /\ e \in Servers /\ e.file = server.file /\ e.mode = server.mode
          /\ e.loaded = l /\ e.run = r
      BY <2>1, <2>2 DEF Servers
    <2> USE DEF l, r
    <2>4. FileChange(step, e) /\ ModeChange(step, e)
      BY <1>1, <1>3, <2>3 DEF FileChange, ModeChange
    <2>5. LoadedChange(step, e)
      BY <1>1, <1>3, <2>3 DEF LoadedChange
    <2>6. RunChange(step, e)
      BY <1>1, <1>3, <2>3 DEF RunChange
    <2> QED
      BY <2>3, <2>4, <2>5, <2>6 DEF Changed, e
  <1> QED
    BY <1>2, <1>3

(* What starts a unit.                                                     *)
LEMMA UnitStepsChange ==
  ASSUME server \in Servers, NEW step, IsPlanned(step),
         step.op \in {"restart_unit", "enable_start_timer"}
  PROVE  Changed(step, Effect(step))
  <1> DEFINE x == step.item
             e == Effect(step)
             r == IF step.op = "enable_start_timer" /\ Running(x)
                    THEN server.run[x] ELSE server.loaded[x]
  <1>1. /\ x \in Items /\ step.kind # "upload"
        /\ ~WritesFile(step) /\ step.op \notin CreateSteps /\ step.op \notin ModeSteps
        /\ Role(step.op) = IF step.op = "restart_unit" THEN "unit" ELSE "timer"
    BY Distinct, Roles DEF IsPlanned, WritesFile
  <1>2. r \in 0..2
    BY <1>1 DEF Servers
  <1>3. e = [server EXCEPT !.run[x] = r]
    <2>1. e = SystemdEffect(step.op, x)
      BY <1>1, EffectOfRunSteps
    <2>2. server = [server EXCEPT !.run[x] = server.run[x]]
      BY <1>1 DEF Servers
    <2> QED
      BY <2>1, <2>2 DEF SystemdEffect
  <1>4. /\ e \in Servers /\ e.mode = server.mode /\ e.file = server.file
        /\ e.loaded = server.loaded /\ e.run[x] = r
        /\ \A y \in Items \ {x} : e.run[y] = server.run[y]
    BY <1>1, <1>2, <1>3, RunWritten
  <1> HIDE DEF e
  <1>5. FileChange(step, e) /\ ModeChange(step, e) /\ LoadedChange(step, e)
    BY <1>1, <1>4 DEF FileChange, ModeChange, LoadedChange
  <1>6. RunChange(step, e)
    BY <1>1, <1>4 DEF RunChange, Running
  <1> QED
    BY <1>4, <1>5, <1>6 DEF Changed, e

(* All of them.                                                            *)
LEMMA EveryStepChanges ==
  ASSUME server \in Servers, NEW step, IsPlanned(step)
  PROVE  Changed(step, Effect(step))
  <1> DEFINE idle == step.op \in CreateSteps /\ (Running("postgres") => Installed(step.item))
  <1>1. CASE WritesFile(step) /\ ~idle
    BY <1>1, FileStepsChange
  <1>2. CASE step.kind # "upload" /\ idle
    <2>1. Effect(step) = server
      BY <1>2, EffectOfFileSteps
    <2>2. step.op \notin Operations \ (CreateSteps \cup {"enable_unit"})
      BY <1>2
    <2> QED
      BY <1>2, <2>1, <2>2, NothingChanged
  <1>3. CASE step.kind = "upload" /\ ~WritesFile(step)
    <2>1. step.op \notin Operations /\ Rev(step) = 0
      BY <1>3 DEF IsPlanned, WritesFile
    <2>2. Effect(step) = server
      BY <1>3, <2>1, EffectOfUpload DEF IsPlanned
    <2> QED
      BY <1>3, <2>1, <2>2, NothingChanged
  <1>4. CASE step.kind # "upload" /\ ~WritesFile(step)
    <2>1. step.op \notin FileSteps
      BY <1>4 DEF WritesFile
    <2>2. CASE step.op = "enable_unit" \/ step.op \notin Operations
      <3>1. Effect(step) = server
        BY <1>4, <2>2, EffectOfOthers
      <3> QED
        BY <1>4, <2>2, <3>1, NothingChanged
    <2>3. CASE step.op \in Operations /\ step.op # "enable_unit"
      BY <2>1, <2>3, PlaceStepsChange, ContainerStepsChange, DaemonStepsChange,
         ReloadStepsChange, UnitStepsChange DEF Operations
    <2> QED
      BY <2>2, <2>3
  <1>5. step.kind = "upload" => step.op \notin CreateSteps
    BY Distinct DEF IsPlanned
  <1> QED
    BY <1>1, <1>2, <1>3, <1>4, <1>5

-----------------------------------------------------------------------------
(* What the first n steps of a plan p that were executed with success      *)
(* leave on a server s, part by part: what they are there for, for the     *)
(* rest of the plan to build on.  (Containers may die at once.)            *)

FilesWritten(p, n, s) ==
  \A i \in 1..n : WritesFile(p[i]) /\ p[i].op \notin CreateSteps =>
    s.file[p[i].item] = Asked(p[i])

ModesSet(p, n, s) ==
  \A i \in 1..n : p[i].op \in ModeSteps => s.mode[p[i].item] = 1

DaemonsRun(p, n, s) ==
  \A i \in 1..n : Role(p[i].op) = "daemon" => s.run[p[i].item] # 0

DatabaseCreated(p, n, s) ==
  \A i \in 1..n : p[i].op \in CreateSteps => s.file[p[i].item] # 0

SitesEnabled(p, n, s) ==
  \A i \in 1..n : Role(p[i].op) = "site" => s.loaded[p[i].item] # 0

SitesServed(p, n, s) ==
  \A i, j \in 1..n :
    Role(p[i].op) = "site" /\ p[j].op = "reload_nginx" /\ i < j /\ BehindFile(p, i, j) =>
      s.run[p[i].item] = s.file[p[i].item]

ContainersRun(p, n, s, dies) ==
  \A i \in 1..n : p[i].op = "run_container" =>
    /\ s.loaded[p[i].item] = Rev(p[i])
    /\ dies \/ s.run[p[i].item] # 0

ProjectsRun(p, n, s) ==
  \A i \in 1..n : Role(p[i].op) = "project" =>
    s.run[p[i].item] # 0 /\ s.run[p[i].item] = s.file[p[i].item]

(* systemd knows the files of the units that are started later, ...        *)
UnitsLoaded(p, n, s) ==
  \A i \in DOMAIN p, j \in 1..n :
    /\ Role(p[i].op) \in {"unit", "timer"}
    /\ p[j].op = "systemd_daemon_reload" /\ BehindFile(p, i, j)
    => /\ s.loaded[p[i].item] = s.file[p[i].item]
       /\ Role(p[i].op) = "timer" => s.run[p[i].item] \in {0, s.file[p[i].item]}

(* ... and these run.                                                      *)
UnitsRun(p, n, s) ==
  \A i \in 1..n : Role(p[i].op) \in {"unit", "timer"} =>
    s.run[p[i].item] # 0 /\ s.run[p[i].item] = s.file[p[i].item]

UnitsInstalled(p, n, s) ==
  \A i \in 1..n : p[i].op = "enable_unit" => s.file[p[i].item] # 0

Settled(p, n, s, dies) ==
  /\ FilesWritten(p, n, s) /\ ModesSet(p, n, s)
  /\ DaemonsRun(p, n, s) /\ DatabaseCreated(p, n, s)
  /\ SitesEnabled(p, n, s) /\ SitesServed(p, n, s)
  /\ ContainersRun(p, n, s, dies) /\ ProjectsRun(p, n, s)
  /\ UnitsLoaded(p, n, s) /\ UnitsRun(p, n, s) /\ UnitsInstalled(p, n, s)

(* The next step of a plan, executed on the server with result e.          *)
Executes(p, n, e) ==
  /\ server \in Servers
  /\ WellPlanned(p) /\ n \in Nat /\ n + 1 \in DOMAIN p
  /\ Changed(p[n + 1], e)
  /\ p[n + 1].op \in Operations => CommandWorks(p[n + 1])

(* What can be said of two steps about the same thing.                     *)
LEMMA SameItem ==
  ASSUME NEW p, WellPlanned(p), NEW i \in DOMAIN p, NEW k \in DOMAIN p,
         p[k].item = p[i].item
  PROVE  /\ WritesFile(p[i]) /\ WritesFile(p[k]) => Asked(p[i]) = Asked(p[k])
         /\ p[i].op \in ModeSteps /\ p[k].kind = "upload" => k < i
         /\ p[i].op = "enable_unit" => p[k].op # "apt_remove_packages"
         /\ Role(p[i].op) # "none" /\ Role(p[k].op) # "none" =>
              Role(p[i].op) = Role(p[k].op)
         /\ p[i].op = "run_container" /\ Role(p[k].op) = "container" => k <= i
  BY DEF WellPlanned, WellOrdered

(* A step of a plan is planned, and so are those before it.                *)
LEMMA Planned ==
  ASSUME NEW p, WellPlanned(p), NEW i \in DOMAIN p
  PROVE  IsPlanned(p[i]) /\ i \in Nat /\ 1..i \subseteq DOMAIN p
  BY DEF WellPlanned

(* A file that is written is one that is asked for.                        *)
LEMMA WrittenIsAsked ==
  ASSUME NEW step, IsPlanned(step), WritesFile(step)
  PROVE  /\ step.item \in Items
         /\ step.op # "apt_remove_packages" => Asked(step) # 0
  BY Distinct DEF IsPlanned, WritesFile, Asked

(* Each part of Settled in turn, from one step to the next. Files: what is *)
(* asked of one is the same at each place that writes it.                  *)
LEMMA StepsWriteFiles ==
  ASSUME NEW p, NEW n, NEW e, Executes(p, n, e), FilesWritten(p, n, server)
  PROVE  FilesWritten(p, n + 1, e)
  <1> DEFINE m == n + 1
  <1>1. m \in DOMAIN p /\ WellPlanned(p) /\ FileChange(p[m], e) /\ n \in Nat
    BY DEF Executes, Changed
  <1> SUFFICES ASSUME NEW i \in 1..m, WritesFile(p[i]), p[i].op \notin CreateSteps
               PROVE  e.file[p[i].item] = Asked(p[i])
    BY DEF FilesWritten
  <1>2. i \in DOMAIN p /\ p[i].item \in Items
    BY <1>1, Planned, WrittenIsAsked
  <1>3. CASE i = m
    BY <1>1, <1>3 DEF FileChange
  <1>4. CASE i # m
    <2>1. server.file[p[i].item] = Asked(p[i])
      BY <1>1, <1>4 DEF FilesWritten
    <2>2. CASE e.file[p[i].item] = server.file[p[i].item]
      BY <2>1, <2>2
    <2>3. CASE p[i].item = p[m].item /\ WritesFile(p[m]) /\ e.file[p[i].item] = Asked(p[m])
      BY <1>1, <1>2, <2>3, SameItem
    <2> QED
      BY <1>1, <1>2, <2>2, <2>3 DEF FileChange
  <1> QED
    BY <1>3, <1>4

(* Modes: no upload stands behind the step that sets one.                  *)
LEMMA StepsSetModes ==
  ASSUME NEW p, NEW n, NEW e, Executes(p, n, e), ModesSet(p, n, server)
  PROVE  ModesSet(p, n + 1, e)
  <1> DEFINE m == n + 1
  <1>1. m \in DOMAIN p /\ WellPlanned(p) /\ ModeChange(p[m], e) /\ n \in Nat
    BY DEF Executes, Changed
  <1> SUFFICES ASSUME NEW i \in 1..m, p[i].op \in ModeSteps
               PROVE  e.mode[p[i].item] = 1
    BY DEF ModesSet
  <1>2. i \in DOMAIN p /\ p[i].item \in Items
    BY <1>1, Planned DEF IsPlanned
  <1>3. CASE i = m
    BY <1>1, <1>3 DEF ModeChange
  <1>4. CASE i # m
    <2>1. server.mode[p[i].item] = 1
      BY <1>1, <1>4 DEF ModesSet
    <2>2. ~(p[i].item = p[m].item /\ p[m].kind = "upload")
      BY <1>1, <1>2, <1>4, SameItem
    <2> QED
      BY <1>1, <1>2, <2>1, <2>2 DEF ModeChange
  <1> QED
    BY <1>3, <1>4

(* What runs is left alone by what has another role.                       *)
LEMMA RunsOn ==
  ASSUME NEW p, WellPlanned(p), NEW i \in DOMAIN p, NEW m \in DOMAIN p,
         Role(p[i].op) # "none", NEW e, RunChange(p[m], e)
  PROVE  /\ p[i].item \in Items
         /\ \/ e.run[p[i].item] = server.run[p[i].item]
            \/ p[i].item = p[m].item /\ Role(p[m].op) = "container"
                                     /\ Role(p[i].op) = "container"
            \/ p[i].item = p[m].item /\ Role(p[m].op) = "daemon"
                 /\ Role(p[i].op) = "daemon" /\ e.run[p[i].item] # 0
            \/ Role(p[i].op) = "project" /\ e.run[p[i].item] = server.file[p[i].item]
            \/ Role(p[i].op) \in {"unit", "timer"}
                 /\ e.run[p[i].item] = server.loaded[p[i].item]
            \/ /\ Role(p[i].op) = "site" /\ server.loaded[p[i].item] # 0
               /\ e.run[p[i].item] = server.file[p[i].item]
            \/ /\ Role(p[i].op) = "timer" /\ server.run[p[i].item] # 0
               /\ e.run[p[i].item] = server.file[p[i].item]
  <1> DEFINE y == p[i].item
             role == Role(p[i].op)
  <1>1. /\ y \in Items /\ y # "listen"
        /\ role = "site" => y \in Sites
        /\ role = "unit" => y \in Units \ Timers
        /\ role = "timer" => y \in Timers
        /\ role \in {"container", "project", "daemon"} => y \notin Sites \cup Units
    BY Planned DEF IsPlanned
  <1>2. role \in {"site", "container", "project", "unit", "timer", "daemon"}
    BY DEF Role
  <1>3. y = p[m].item /\ Role(p[m].op) # "none" => Role(p[m].op) = role
    BY SameItem
  <1>4. Timers \subseteq Units /\ Sites \cap Units = {}
    BY ItemsAssumption
  <1> HIDE DEF role
  <1>5. \/ e.run[y] = server.run[y]
        \/ y = p[m].item /\ Role(p[m].op) = "container"
        \/ y = p[m].item /\ Role(p[m].op) = "daemon" /\ e.run[y] # 0
        \/ y = p[m].item /\ Role(p[m].op) = "project" /\ e.run[y] = server.file[y]
        \/ y = p[m].item /\ Role(p[m].op) \in {"unit", "timer"} /\ e.run[y] = server.loaded[y]
        \/ y \in Sites /\ server.loaded[y] # 0 /\ e.run[y] = server.file[y]
        \/ y \in Timers /\ server.run[y] # 0 /\ e.run[y] = server.file[y]
    BY <1>1 DEF RunChange
  <1> QED
    BY <1>1, <1>2, <1>3, <1>4, <1>5 DEF role

(* So is what is loaded.                                                   *)
LEMMA LoadedOn ==
  ASSUME NEW p, WellPlanned(p), NEW i \in DOMAIN p, NEW m \in DOMAIN p,
         Role(p[i].op) # "none", NEW e, LoadedChange(p[m], e)
  PROVE  /\ p[i].item \in Items
         /\ \/ e.loaded[p[i].item] = server.loaded[p[i].item]
            \/ Role(p[i].op) = "site" /\ e.loaded[p[i].item] = 1
            \/ p[i].item = p[m].item /\ Role(p[m].op) = "container"
                                     /\ Role(p[i].op) = "container"
            \/ /\ Role(p[i].op) \in {"unit", "timer"}
               /\ e.loaded[p[i].item] = server.file[p[i].item]
  <1> DEFINE y == p[i].item
             role == Role(p[i].op)
  <1>1. /\ y \in Items
        /\ role = "site" => y \in Sites
        /\ role \in {"container", "project", "daemon"} => y \notin Sites \cup Units
    BY Planned DEF IsPlanned
  <1>2. role \in {"site", "container", "project", "unit", "timer", "daemon"}
    BY DEF Role
  <1>3. y = p[m].item /\ Role(p[m].op) # "none" => Role(p[m].op) = role
    BY SameItem
  <1>4. Sites \cap Units = {}
    BY ItemsAssumption
  <1> HIDE DEF role
  <1>5. \/ e.loaded[y] = server.loaded[y]
        \/ y = p[m].item /\ Role(p[m].op) = "site" /\ e.loaded[y] = 1
        \/ y = p[m].item /\ Role(p[m].op) = "container"
        \/ y \in Units /\ e.loaded[y] = server.file[y]
    BY <1>1 DEF LoadedChange
  <1> QED
    BY <1>1, <1>2, <1>3, <1>4, <1>5 DEF role

(* A daemon that runs is stopped by nothing.                               *)
LEMMA StepsRunDaemons ==
  ASSUME NEW p, NEW n, NEW e, Executes(p, n, e), DaemonsRun(p, n, server)
  PROVE  DaemonsRun(p, n + 1, e)
  <1> DEFINE m == n + 1
  <1>1. m \in DOMAIN p /\ WellPlanned(p) /\ RunChange(p[m], e) /\ n \in Nat
    BY DEF Executes, Changed
  <1> SUFFICES ASSUME NEW i \in 1..m, Role(p[i].op) = "daemon"
               PROVE  e.run[p[i].item] # 0
    BY DEF DaemonsRun
  <1>2. i \in DOMAIN p
    BY <1>1, Planned
  <1>3. CASE i = m
    BY <1>1, <1>3 DEF RunChange
  <1>4. CASE i # m
    <2>1. server.run[p[i].item] # 0
      BY <1>1, <1>4 DEF DaemonsRun
    <2> QED
      BY <1>1, <1>2, <2>1, RunsOn
  <1> QED
    BY <1>3, <1>4

(* A database is created by then, as its server runs.                      *)
LEMMA StepsCreateDatabase ==
  ASSUME NEW p, NEW n, NEW e, Executes(p, n, e),
         DaemonsRun(p, n, server), DatabaseCreated(p, n, server)
  PROVE  DatabaseCreated(p, n + 1, e)
  <1> DEFINE m == n + 1
  <1>1. m \in DOMAIN p /\ WellPlanned(p) /\ FileChange(p[m], e) /\ n \in Nat
    BY DEF Executes, Changed
  <1> SUFFICES ASSUME NEW i \in 1..m, p[i].op \in CreateSteps
               PROVE  e.file[p[i].item] # 0
    BY DEF DatabaseCreated
  <1>2. i \in DOMAIN p /\ IsPlanned(p[i]) /\ IsPlanned(p[m])
    BY <1>1, Planned
  <1>3. WritesFile(p[i]) /\ p[i].op # "apt_remove_packages"
    BY Distinct DEF WritesFile, CreateSteps
  <1>4. CASE i = m
    <2>1. PICK j \in 1..(i - 1) : p[j].op = "enable_postgres"
      BY <1>1, <1>2 DEF WellPlanned, WellOrdered
    <2>2. j \in 1..n /\ j \in DOMAIN p
      BY <1>1, <1>2, <1>4, <2>1, Planned
    <2>3. p[j].item = "postgres" /\ Role(p[j].op) = "daemon"
      BY <1>1, <2>1, <2>2, Planned, Roles DEF IsPlanned
    <2>4. Running("postgres")
      BY <2>2, <2>3 DEF DaemonsRun, Running
    <2> QED
      BY <1>1, <1>4, <2>4 DEF FileChange
  <1>5. CASE i # m
    <2>1. server.file[p[i].item] # 0
      BY <1>1, <1>5 DEF DatabaseCreated
    <2>2. CASE e.file[p[i].item] = server.file[p[i].item]
      BY <2>1, <2>2
    <2>3. CASE p[i].item = p[m].item /\ WritesFile(p[m]) /\ e.file[p[i].item] = Asked(p[m])
      BY <1>1, <1>2, <1>3, <2>3, SameItem, WrittenIsAsked
    <2> QED
      BY <1>1, <1>2, <1>3, <2>2, <2>3, WrittenIsAsked DEF FileChange
  <1> QED
    BY <1>4, <1>5

(* A site, once enabled, stays enabled.                                    *)
LEMMA StepsEnableSites ==
  ASSUME NEW p, NEW n, NEW e, Executes(p, n, e), SitesEnabled(p, n, server)
  PROVE  SitesEnabled(p, n + 1, e)
  <1> DEFINE m == n + 1
  <1>1. m \in DOMAIN p /\ WellPlanned(p) /\ LoadedChange(p[m], e) /\ n \in Nat
    BY DEF Executes, Changed
  <1> SUFFICES ASSUME NEW i \in 1..m, Role(p[i].op) = "site"
               PROVE  e.loaded[p[i].item] # 0
    BY DEF SitesEnabled
  <1>2. i \in DOMAIN p /\ p[i].op = "enable_nginx_site"
    BY <1>1, Planned, Roles
  <1>3. CASE i = m
    BY <1>1, <1>2, <1>3 DEF LoadedChange
  <1>4. CASE i # m
    <2>1. server.loaded[p[i].item] # 0
      BY <1>1, <1>4 DEF SitesEnabled
    <2> QED
      BY <1>1, <1>2, <2>1, LoadedOn
  <1> QED
    BY <1>3, <1>4

(* Behind its last writer, a file stays as it is.                          *)
LEMMA FileStays ==
  ASSUME NEW p, NEW n, NEW e, Executes(p, n, e), NEW i \in DOMAIN p,
         p[i].item \in Items, NEW j \in 1..(n + 1), BehindFile(p, i, j)
  PROVE  e.file[p[i].item] = server.file[p[i].item]
  <1>1. n + 1 \in DOMAIN p /\ FileChange(p[n + 1], e) /\ n \in Nat
    BY DEF Executes, Changed
  <1>2. ~(p[n + 1].item = p[i].item /\ WritesFile(p[n + 1]))
    BY <1>1 DEF BehindFile
  <1> QED
    BY <1>1, <1>2 DEF FileChange

(* nginx serves a site as it was at the reload behind its file.            *)
LEMMA StepsServeSites ==
  ASSUME NEW p, NEW n, NEW e, Executes(p, n, e),
         SitesEnabled(p, n, server), SitesServed(p, n, server)
  PROVE  SitesServed(p, n + 1, e)
  <1> DEFINE m == n + 1
  <1>1. m \in DOMAIN p /\ WellPlanned(p) /\ RunChange(p[m], e) /\ n \in Nat
    BY DEF Executes, Changed
  <1> SUFFICES ASSUME NEW i \in 1..m, NEW j \in 1..m, Role(p[i].op) = "site",
                      p[j].op = "reload_nginx", i < j, BehindFile(p, i, j)
               PROVE  e.run[p[i].item] = e.file[p[i].item]
    BY DEF SitesServed
  <1>2. i \in DOMAIN p /\ p[i].item \in Items \cap Sites
    BY <1>1, Planned DEF IsPlanned
  <1>3. e.file[p[i].item] = server.file[p[i].item]
    BY <1>2, FileStays
  <1>4. server.loaded[p[i].item] # 0
    BY <1>1 DEF SitesEnabled
  <1>5. CASE j = m
    BY <1>1, <1>2, <1>3, <1>4, <1>5 DEF RunChange
  <1>6. CASE j # m
    <2>1. server.run[p[i].item] = server.file[p[i].item]
      BY <1>1, <1>6 DEF SitesServed
    <2> QED
      BY <1>1, <1>2, <1>3, <2>1, RunsOn
  <1> QED
    BY <1>5, <1>6

(* A container is run by the last step that is about it.                   *)
LEMMA StepsRunContainers ==
  ASSUME NEW p, NEW n, NEW e, Executes(p, n, e), ContainersRun(p, n, server, situation.dies)
  PROVE  ContainersRun(p, n + 1, e, situation.dies)
  <1> DEFINE m == n + 1
  <1>1. /\ m \in DOMAIN p /\ WellPlanned(p) /\ n \in Nat
        /\ LoadedChange(p[m], e) /\ RunChange(p[m], e)
    BY DEF Executes, Changed
  <1> SUFFICES ASSUME NEW i \in 1..m, p[i].op = "run_container"
               PROVE  /\ e.loaded[p[i].item] = Rev(p[i])
                      /\ situation.dies \/ e.run[p[i].item] # 0
    BY DEF ContainersRun
  <1>2. i \in DOMAIN p /\ Role(p[i].op) = "container" /\ Rev(p[i]) # 0
    <2>1. i \in DOMAIN p /\ IsPlanned(p[i])
      BY <1>1, Planned
    <2>2. p[i].kind # "upload"
      BY <2>1, Distinct DEF IsPlanned
    <2> QED
      BY <2>1, <2>2, Roles DEF IsPlanned
  <1>3. CASE i = m
    <2>1. e.loaded[p[i].item] = Rev(p[i])
      BY <1>1, <1>3 DEF LoadedChange
    <2>2. e.run[p[i].item] = IF situation.dies THEN 0 ELSE Rev(p[i])
      BY <1>1, <1>3 DEF RunChange
    <2> QED
      BY <1>2, <2>1, <2>2
  <1>4. CASE i # m
    <2>1. /\ server.loaded[p[i].item] = Rev(p[i])
          /\ situation.dies \/ server.run[p[i].item] # 0
      BY <1>1, <1>4 DEF ContainersRun
    <2>2. ~(p[i].item = p[m].item /\ Role(p[m].op) = "container")
      BY <1>1, <1>2, <1>4, SameItem
    <2>3. e.loaded[p[i].item] = server.loaded[p[i].item]
      BY <1>1, <1>2, <2>2, LoadedOn
    <2>4. e.run[p[i].item] = server.run[p[i].item]
      BY <1>1, <1>2, <2>2, RunsOn
    <2> QED
      BY <2>1, <2>3, <2>4
  <1> QED
    BY <1>3, <1>4

(* docker compose needs the project's file, and nothing writes it later.   *)
LEMMA StepsRunProjects ==
  ASSUME NEW p, NEW n, NEW e, Executes(p, n, e), ProjectsRun(p, n, server)
  PROVE  ProjectsRun(p, n + 1, e)
  <1> DEFINE m == n + 1
  <1>1. m \in DOMAIN p /\ WellPlanned(p) /\ RunChange(p[m], e) /\ n \in Nat
    BY DEF Executes, Changed
  <1> SUFFICES ASSUME NEW i \in 1..m, Role(p[i].op) = "project"
               PROVE  e.run[p[i].item] # 0 /\ e.run[p[i].item] = e.file[p[i].item]
    BY DEF ProjectsRun
  <1>2. i \in DOMAIN p /\ p[i].op = "compose_up" /\ p[i].item \in Items
    BY <1>1, Planned, Roles DEF IsPlanned
  <1>3. e.file[p[i].item] = server.file[p[i].item]
    BY <1>1, <1>2, FileStays DEF WellPlanned, WellOrdered
  <1>4. CASE i = m
    <2>1. CommandWorks(p[m])
      BY <1>2, <1>4, Distinct DEF Executes
    <2>2. Family(p[m].op) = "compose"
      BY <1>2, <1>4, Families
    <2>3. Installed(p[m].item)
      BY <1>2, <1>4, <2>1, <2>2 DEF CommandWorks, ComposeWorks, ComposeSteps
    <2> QED
      BY <1>1, <1>2, <1>3, <1>4, <2>3 DEF RunChange, Installed
  <1>5. CASE i # m
    <2>1. server.run[p[i].item] # 0 /\ server.run[p[i].item] = server.file[p[i].item]
      BY <1>1, <1>5 DEF ProjectsRun
    <2> QED
      BY <1>1, <1>2, <1>3, <2>1, RunsOn
  <1> QED
    BY <1>4, <1>5

(* systemd has what the reload behind the file of a unit or timer read.    *)
LEMMA StepsLoadUnits ==
  ASSUME NEW p, NEW n, NEW e, Executes(p, n, e), UnitsLoaded(p, n, server)
  PROVE  UnitsLoaded(p, n + 1, e)
  <1> DEFINE m == n + 1
  <1>1. /\ m \in DOMAIN p /\ WellPlanned(p) /\ n \in Nat
        /\ LoadedChange(p[m], e) /\ RunChange(p[m], e)
    BY DEF Executes, Changed
  <1> SUFFICES ASSUME NEW i \in DOMAIN p, NEW j \in 1..m,
                      Role(p[i].op) \in {"unit", "timer"},
                      p[j].op = "systemd_daemon_reload", BehindFile(p, i, j)
               PROVE  /\ e.loaded[p[i].item] = e.file[p[i].item]
                      /\ Role(p[i].op) = "timer" =>
                           e.run[p[i].item] \in {0, e.file[p[i].item]}
    BY DEF UnitsLoaded
  <1>2. /\ p[i].item \in Items \cap Units
        /\ Role(p[i].op) = "timer" => p[i].item \in Timers
    BY <1>1, Planned, ItemsAssumption DEF IsPlanned
  <1>3. e.file[p[i].item] = server.file[p[i].item]
    BY <1>2, FileStays
  <1>4. CASE j = m
    <2>1. e.loaded[p[i].item] = server.file[p[i].item]
      BY <1>1, <1>2, <1>4 DEF LoadedChange
    <2>2. Role(p[i].op) = "timer" => e.run[p[i].item] \in {0, server.file[p[i].item]}
      BY <1>1, <1>2, <1>4 DEF RunChange
    <2> QED
      BY <1>3, <2>1, <2>2
  <1>5. CASE j # m
    <2>1. /\ server.loaded[p[i].item] = server.file[p[i].item]
          /\ Role(p[i].op) = "timer" =>
               server.run[p[i].item] \in {0, server.file[p[i].item]}
      BY <1>1, <1>5 DEF UnitsLoaded
    <2>2. e.loaded[p[i].item] = server.file[p[i].item]
      BY <1>1, <2>1, LoadedOn
    <2>3. Role(p[i].op) = "timer" => e.run[p[i].item] \in {0, server.file[p[i].item]}
      BY <1>1, <2>1, RunsOn
    <2> QED
      BY <1>3, <2>2, <2>3
  <1> QED
    BY <1>4, <1>5

(* What systemd has loaded is there to be started, and is the file.        *)
LEMMA StepsRunUnits ==
  ASSUME NEW p, NEW n, NEW e, Executes(p, n, e),
         UnitsLoaded(p, n, server), UnitsRun(p, n, server)
  PROVE  UnitsRun(p, n + 1, e)
  <1> DEFINE m == n + 1
  <1>1. m \in DOMAIN p /\ WellPlanned(p) /\ RunChange(p[m], e) /\ n \in Nat
    BY DEF Executes, Changed
  <1> SUFFICES ASSUME NEW i \in 1..m, Role(p[i].op) \in {"unit", "timer"}
               PROVE  e.run[p[i].item] # 0 /\ e.run[p[i].item] = e.file[p[i].item]
    BY DEF UnitsRun
  <1>2. /\ i \in DOMAIN p /\ i \in Nat /\ p[i].op \in {"restart_unit", "enable_start_timer"}
        /\ p[i].op = "enable_start_timer" => Role(p[i].op) = "timer"
        /\ Role(p[i].op) = "timer" => p[i].op = "enable_start_timer"
    BY <1>1, Planned, Roles
  <1>3. p[i].item \in Items
    BY <1>1, <1>2, Planned DEF IsPlanned
  <1>4. PICK j \in 1..(i - 1) : p[j].op = "systemd_daemon_reload" /\ BehindFile(p, i, j)
    BY <1>1, <1>2 DEF WellPlanned, WellOrdered
  <1>5. j \in 1..n
    BY <1>1, <1>2
  <1>6. e.file[p[i].item] = server.file[p[i].item]
    BY <1>1, <1>2, <1>3, <1>4, <1>5, FileStays
  <1>7. /\ server.loaded[p[i].item] = server.file[p[i].item]
        /\ Role(p[i].op) = "timer" => server.run[p[i].item] \in {0, server.file[p[i].item]}
    BY <1>2, <1>4, <1>5 DEF UnitsLoaded
  <1>8. CASE i = m
    <2>1. CommandWorks(p[m])
      BY <1>2, <1>8, Distinct DEF Executes
    <2>2. Family(p[m].op) = "systemd"
      BY <1>2, <1>8, Families
    <2>3. server.loaded[p[m].item] # 0
      BY <1>2, <1>8, <2>1, <2>2 DEF CommandWorks, SystemdWorks
    <2>4. CASE p[i].op = "restart_unit"
      BY <1>1, <1>6, <1>7, <1>8, <2>3, <2>4 DEF RunChange
    <2>5. CASE p[i].op = "enable_start_timer"
      <3>1. e.run[p[m].item] = IF server.run[p[m].item] # 0 THEN server.run[p[m].item]
                                                          ELSE server.loaded[p[m].item]
        BY <1>1, <1>8, <2>5 DEF RunChange
      <3> QED
        BY <1>2, <1>6, <1>7, <1>8, <2>3, <2>5, <3>1
    <2> QED
      BY <1>2, <2>4, <2>5
  <1>9. CASE i # m
    <2>1. server.run[p[i].item] # 0 /\ server.run[p[i].item] = server.file[p[i].item]
      BY <1>1, <1>9 DEF UnitsRun
    <2> QED
      BY <1>1, <1>2, <1>6, <1>7, <2>1, RunsOn
  <1> QED
    BY <1>8, <1>9

(* A unit is enabled only where it is there.                               *)
LEMMA StepsInstallUnits ==
  ASSUME NEW p, NEW n, NEW e, Executes(p, n, e), UnitsInstalled(p, n, server)
  PROVE  UnitsInstalled(p, n + 1, e)
  <1> DEFINE m == n + 1
  <1>1. m \in DOMAIN p /\ WellPlanned(p) /\ FileChange(p[m], e) /\ n \in Nat
    BY DEF Executes, Changed
  <1> SUFFICES ASSUME NEW i \in 1..m, p[i].op = "enable_unit"
               PROVE  e.file[p[i].item] # 0
    BY DEF UnitsInstalled
  <1>2. i \in DOMAIN p /\ IsPlanned(p[i]) /\ IsPlanned(p[m]) /\ p[i].item \in Items
    BY <1>1, Planned DEF IsPlanned
  <1>3. server.file[p[i].item] # 0
    <2>1. CASE i = m
      <3>1. CommandWorks(p[m])
        BY <2>1, Distinct DEF Executes
      <3>2. Family(p[m].op) = "systemd"
        BY <2>1, Families
      <3> QED
        BY <2>1, <3>1, <3>2 DEF CommandWorks, SystemdWorks, Installed
    <2>2. CASE i # m
      BY <1>1, <2>2 DEF UnitsInstalled
    <2> QED
      BY <2>1, <2>2
  <1>4. CASE e.file[p[i].item] = server.file[p[i].item]
    BY <1>3, <1>4
  <1>5. CASE p[i].item = p[m].item /\ WritesFile(p[m]) /\ e.file[p[i].item] = Asked(p[m])
    BY <1>1, <1>2, <1>5, SameItem, WrittenIsAsked
  <1> QED
    BY <1>1, <1>2, <1>4, <1>5 DEF FileChange

(* All parts hold from nothing on, and from step to step.                  *)
LEMMA NothingToSettle ==
  ASSUME NEW p, NEW s, NEW dies
  PROVE  Settled(p, 0, s, dies)
  BY DEF Settled, FilesWritten, ModesSet, DaemonsRun, DatabaseCreated, SitesEnabled,
         SitesServed, ContainersRun, ProjectsRun, UnitsLoaded, UnitsRun, UnitsInstalled

(* A step that is executed settles one step more.                          *)
LEMMA StepsSettle ==
  ASSUME NEW p, NEW n, NEW e, Executes(p, n, e), Settled(p, n, server, situation.dies)
  PROVE  Settled(p, n + 1, e, situation.dies)
  BY StepsWriteFiles, StepsSetModes, StepsRunDaemons, StepsCreateDatabase,
     StepsEnableSites, StepsServeSites, StepsRunContainers, StepsRunProjects,
     StepsLoadUnits, StepsRunUnits, StepsInstallUnits DEF Settled

(* At the end, everything is in place.                                     *)
LEMMA SettledIsInPlace ==
  ASSUME NEW p, WellPlanned(p), NEW i \in DOMAIN p, Settled(p, Len(p), server, situation.dies)
  PROVE  InPlace(p[i])
  <1>1. /\ i \in 1..Len(p) /\ IsPlanned(p[i]) /\ DOMAIN p = 1..Len(p)
    BY DEF WellPlanned
  <1> DEFINE x == p[i].item
             op == p[i].op
  <1>2. p[i].kind = "upload" => op \notin Operations
    BY <1>1 DEF IsPlanned
  <1>3. WritesFile(p[i]) /\ op \notin CreateSteps => server.file[x] = Asked(p[i])
    BY <1>1 DEF Settled, FilesWritten
  <1>4. WritesFile(p[i]) /\ op # "apt_remove_packages" => Asked(p[i]) = Rev(p[i]) /\ Asked(p[i]) # 0
    BY <1>1, WrittenIsAsked DEF Asked
  <1>5. p[i].kind = "upload" /\ Rev(p[i]) # 0 => server.file[x] = Rev(p[i])
    BY <1>2, <1>3, <1>4, Distinct DEF WritesFile, FileSteps
  <1>6. op \in ModeSteps => server.mode[x] = 1
    BY <1>1 DEF Settled, ModesSet
  <1>7. op \in {"install_postgres", "install_nginx", "install_docker", "enable_unit"}
          => Installed(x)
    <2>1. CASE op = "enable_unit"
      BY <1>1, <2>1 DEF Settled, UnitsInstalled, Installed
    <2>2. CASE op \in {"install_postgres", "install_nginx", "install_docker"}
      BY <1>3, <1>4, <2>2 DEF WritesFile, FileSteps, CreateSteps, Installed
    <2> QED
      BY <2>1, <2>2
  <1>8. op \in CreateSteps => Installed(x)
    BY <1>1 DEF Settled, DatabaseCreated, Installed
  <1>9. op \in EnsureSteps \cup {"configure_postgres_listen", "apt_install_packages"}
          => server.file[x] = Rev(p[i])
    BY <1>3, <1>4 DEF WritesFile, FileSteps, CreateSteps, EnsureSteps
  <1>10. op = "apt_remove_packages" => ~Installed(x)
    BY <1>3 DEF WritesFile, FileSteps, CreateSteps, Asked, Installed
  <1>11. op \in {"enable_postgres", "enable_nginx", "enable_docker"} => Running(x)
    BY <1>1, Roles DEF Settled, DaemonsRun, Running
  <1>12. op = "enable_nginx_site" => server.run[x] = server.file[x]
    <2> SUFFICES ASSUME op = "enable_nginx_site" PROVE server.run[x] = server.file[x]
      OBVIOUS
    <2>1. PICK j \in DOMAIN p : p[j].op = "reload_nginx" /\ i < j /\ BehindFile(p, i, j)
      BY DEF WellPlanned, WellOrdered
    <2> QED
      BY <1>1, <2>1, Roles DEF Settled, SitesServed
  <1>13. op = "run_container" =>
           server.loaded[x] = Rev(p[i]) /\ (situation.dies \/ Running(x))
    BY <1>1 DEF Settled, ContainersRun, Running
  <1>14. op \in {"restart_unit", "enable_start_timer", "compose_up"} =>
           Running(x) /\ server.run[x] = server.file[x]
    BY <1>1, Roles DEF Settled, UnitsRun, ProjectsRun, Running
  <1> QED
    BY <1>5, <1>6, <1>7, <1>8, <1>9, <1>10, <1>11, <1>12, <1>13, <1>14 DEF InPlace

-----------------------------------------------------------------------------
(* The invariant.                                                          *)

Successes == {"success", "success_with_local_warnings"}

Counts ==
  /\ situation \in Situations
  /\ applies \in Nat /\ accidents \in Nat /\ cleanRuns \in Nat
  /\ cleanRuns <= applies
  /\ phase # "idle" => cleanRuns + 1 <= applies

PlanIsGood == phase # "idle" => WellPlanned(compiled) /\ verdict = "none"

AgentHasPlan == phase = "agent" => agentPlan = ForAgent(compiled)

(* The run over SSH has settled what it has done, unless a step has failed *)
(* that is not local.                                                      *)
PassSettles ==
  phase = "local" =>
    /\ plan = ForClient(compiled)
    /\ gateSkippedAt = 0 /\ abortedAt \in Nat /\ remoteFailed \in BOOLEAN
    /\ results \in Seq(Outcomes) /\ Len(results) <= Len(compiled)
    /\ status \in Verdicts \cup {"running"}
    /\ abortedAt = 0 /\ ~remoteFailed =>
         Settled(compiled, Len(results), server, situation.dies)
    /\ status \in Successes =>
         abortedAt = 0 /\ ~remoteFailed /\ Len(results) = Len(compiled)

(* So has the apply that reports success.                                  *)
SuccessSettles ==
  phase = "idle" /\ job # NoJob /\ verdict \in Successes =>
    /\ WellPlanned(compiled)
    /\ Settled(compiled, Len(compiled), server, situation.dies)

ApplyInv ==
  /\ SpecApplyTypeOK
  /\ Counts /\ PlanIsGood /\ AgentHasPlan /\ PassSettles /\ SuccessSettles

(* The type invariant knows the server.                                    *)
LEMMA ServerType ==
  SpecApplyTypeOK => server \in Servers
  BY DEF SpecApplyTypeOK, Servers

(* A step is found by its id.                                              *)
LEMMA FoundById ==
  ASSUME WellPlanned(compiled), NEW i \in DOMAIN compiled
  PROVE  StepNamed(compiled[i].id) = compiled[i]
  <1>1. \A k \in DOMAIN compiled : compiled[k].id = compiled[i].id => k = i
    BY DEF WellPlanned
  <1> QED
    BY <1>1 DEF StepNamed

(* The two executors' plans are the compiled one, step by step.            *)
LEMMA PlansAreOfSteps ==
  ASSUME NEW p, WellPlanned(p)
  PROVE  /\ Len(p) \in Nat /\ DOMAIN p = 1..Len(p)
         /\ Len(ForClient(p)) = Len(p) /\ DOMAIN ForClient(p) = 1..Len(p)
         /\ DOMAIN ForAgent(p) = 1..Len(p)
         /\ \A i \in DOMAIN p :
              /\ ForClient(p)[i].id = p[i].id /\ ForClient(p)[i].scope = p[i].scope
              /\ ForClient(p)[i].deps = {} /\ ForAgent(p)[i].id = p[i].id
  BY DEF WellPlanned, ForClient, ForAgent

(* A non-empty set of numbers has a least one.                             *)
LEMMA LeastNumber ==
  ASSUME NEW T, T \subseteq Nat, T # {}
  PROVE  \E x \in T : \A y \in T : x <= y
  <1>1. PICK x \in T : \A y \in T : <<y, x>> \notin OpToRel(<, Nat)
    BY NatLessThanWellFounded, WFMin, Zenon
  <1>2. \A y \in T : ~(y < x)
    BY <1>1 DEF OpToRel
  <1> QED
    BY <1>2

(* The agent stands at a step of its plan.                                 *)
LEMMA AgentPosition ==
  ASSUME WellPlanned(compiled), agentPlan = ForAgent(compiled), Agent!Looping
  PROVE  /\ Agent!At \in DOMAIN compiled
         /\ StepNamed(agentPlan[Agent!At].id) = compiled[Agent!At]
  <1>1. Agent!Todo # {} /\ Agent!Todo \subseteq DOMAIN compiled /\ Agent!Todo \subseteq Nat
    BY PlansAreOfSteps DEF Agent!Looping, Agent!Todo, Agent!OnServer
  <1>2. \E i \in Agent!Todo : \A j \in Agent!Todo : i <= j
    BY <1>1, LeastNumber
  <1>3. Agent!At \in Agent!Todo
    BY <1>2 DEF Agent!At
  <1>4. Agent!At \in DOMAIN compiled
    BY <1>1, <1>3
  <1>5. agentPlan[Agent!At].id = compiled[Agent!At].id
    BY <1>4, PlansAreOfSteps
  <1> QED
    BY <1>4, <1>5, FoundById

(* The run over SSH, too.                                                  *)
LEMMA ClientPosition ==
  ASSUME WellPlanned(compiled), plan = ForClient(compiled),
         results \in Seq(Outcomes), Looping
  PROVE  /\ At \in DOMAIN compiled /\ At = Len(results) + 1 /\ Len(results) \in Nat
         /\ At <= Len(compiled)
         /\ StepNamed(plan[At].id) = compiled[At]
         /\ plan[At].scope = compiled[At].scope
  <1>1. At \in DOMAIN compiled /\ At <= Len(compiled) /\ Len(results) \in Nat
    BY PlansAreOfSteps DEF Looping, At
  <1>2. plan[At].id = compiled[At].id /\ plan[At].scope = compiled[At].scope
    BY <1>1, PlansAreOfSteps
  <1>3. StepNamed(plan[At].id) = compiled[At]
    BY <1>1, <1>2, FoundById
  <1> QED
    BY <1>1, <1>2, <1>3 DEF At

(* Whatever comes of a step, the server is one.                            *)
LEMMA ResultsType ==
  ASSUME server \in Servers, NEW works, NEW step, IsPlanned(step), NEW outcome,
         Result(works, step, outcome)
  PROVE  server' \in Servers
  BY EveryStepChanges DEF Result, Changed

-----------------------------------------------------------------------------
(* What a step of the run over SSH settles.                                *)

(* A command that the client finds to work, works.                         *)
LEMMA ClientWorksMeans ==
  ASSUME NEW step, IsPlanned(step), step.op \in Operations, ClientWorks(step)
  PROVE  CommandWorks(step)
  <1>1. step.kind = "command" /\ step.op # "postflight"
    <2>1. "postflight" \notin Operations
      BY DEF Operations, FileSteps, CreateSteps, EnsureSteps, ModeSteps
    <2> QED
      BY <2>1 DEF IsPlanned
  <1> QED
    BY <1>1 DEF ClientWorks

(* It settles its step, or has failed: a local step changes nothing.       *)
LEMMA ExecutedSettles ==
  ASSUME server \in Servers, WellPlanned(compiled), plan = ForClient(compiled),
         gateSkippedAt = 0, results \in Seq(Outcomes), remoteFailed \in BOOLEAN,
         Settled(compiled, Len(results), server, situation.dies) \/ remoteFailed,
         Looping, NEW outcome \in {"success", "failed"}, ExecuteStep(outcome),
         Result(ClientWorks(compiled[At]), compiled[At], outcome),
         abortedAt' = 0, ~remoteFailed'
  PROVE  Settled(compiled, Len(results) + 1, server', situation.dies)
  <1> DEFINE step == compiled[At]
             n == Len(results)
  <1>1. /\ At \in DOMAIN compiled /\ At = n + 1 /\ n \in Nat
        /\ plan[At].scope = step.scope
    BY ClientPosition
  <1>2. IsPlanned(step)
    BY <1>1, Planned
  <1>3. ~remoteFailed /\ Settled(compiled, n, server, situation.dies)
    BY DEF ExecuteStep
  <1>4. /\ Changed(step, server')
        /\ step.op \in Operations => CommandWorks(step)
    <2>1. CASE outcome = "success"
      <3>1. ClientWorks(step) /\ server' = Effect(step)
        BY <2>1 DEF Result
      <3> QED
        BY <1>2, <3>1, EveryStepChanges, ClientWorksMeans
    <2>2. CASE outcome = "failed"
      <3>1. step.scope = "local"
        <4>1. ~Fatal(At)
          BY <1>1, <2>2 DEF ExecuteStep
        <4> QED
          BY <1>1, <2>2, <4>1 DEF ExecuteStep
      <3>2. step.op \notin Operations /\ step.kind # "upload"
        BY <1>2, <3>1 DEF IsPlanned
      <3>3. Effect(step) = server
        BY <3>2, EffectOfOthers
      <3>4. server' = server
        BY <3>3, <2>2 DEF Result
      <3> QED
        BY <1>2, <3>2, <3>3, <3>4, EveryStepChanges
    <2> QED
      BY <2>1, <2>2
  <1>5. Executes(compiled, n, server')
    BY <1>1, <1>4 DEF Executes
  <1> QED
    BY <1>3, <1>5, StepsSettle

-----------------------------------------------------------------------------
(* Every action keeps the invariant.                                       *)

LEMMA InitKeepsInv ==
  InitApply => ApplyInv
  <1> SUFFICES ASSUME InitApply PROVE ApplyInv
    OBVIOUS
  <1>1. /\ situation \in Situations /\ situation.applies \in 1..MaxApplies
        /\ situation.accidents \in Nat
        /\ situation.agents \subseteq {"absent", "same", "other"}
        /\ situation.postgres \in 0..1 /\ MaxApplies \in Nat
    BY SituationsAssumption, MaxAppliesAssumption DEF InitApply
  <1>2. server \in Servers
    <2> DEFINE f == [Bare EXCEPT !["postgres"] = situation.postgres]
    <2>1. server = [BareServer EXCEPT !.file = f, !.run = f]
      BY DEF InitApply, BareServer
    <2>2. Bare \in [Items -> 0..1] /\ f \in [Items -> 0..1]
      <3>1. Bare \in [Items -> 0..1]
        BY DEF Bare
      <3> QED
        BY <1>1, <3>1
    <2> HIDE DEF f
    <2>3. server = [file |-> f, mode |-> Bare, loaded |-> Bare, run |-> f]
      BY <2>1 DEF BareServer
    <2> QED
      BY <2>2, <2>3 DEF Servers
  <1>3. SpecApplyTypeOK
    BY <1>1, <1>2 DEF SpecApplyTypeOK, InitApply, Servers, Agent!Init
  <1>4. Counts /\ PlanIsGood /\ AgentHasPlan /\ PassSettles /\ SuccessSettles
    BY <1>1 DEF Counts, PlanIsGood, AgentHasPlan, PassSettles, SuccessSettles, InitApply,
                Successes
  <1> QED
    BY <1>3, <1>4 DEF ApplyInv

(* What a request does to the counters.                                    *)
LEMMA RequestType ==
  ASSUME ApplyInv, NEW s, NEW r, NEW mode, Request(s, r, mode)
  PROVE  /\ phase = "idle" /\ status = "none" /\ agentStatus # "running"
         /\ situation \in Situations /\ situation' = situation
         /\ applies \in Nat /\ applies' = applies + 1 /\ applies' <= situation.applies
         /\ cleanRuns \in Nat /\ cleanRuns <= applies
         /\ situation.applies \in Nat /\ situation.applies <= MaxApplies /\ MaxApplies \in Nat
         /\ agent' = agent /\ server' = server /\ lastResult' = lastResult
         /\ accidents' = accidents
  <1>1. situation \in Situations
    BY DEF ApplyInv, Counts
  <1>2. situation.applies \in 1..MaxApplies /\ MaxApplies \in Nat
    BY <1>1, SituationsAssumption, MaxAppliesAssumption
  <1> QED
    BY <1>1, <1>2 DEF ApplyInv, Counts, SpecApplyTypeOK, Request

(* A refusal leaves no job behind.                                         *)
LEMMA RefuseKeepsInv ==
  ASSUME ApplyInv, NEW s, NEW r, NEW mode, Refuse(s, r, mode)
  PROVE  ApplyInv'
  <1>1. Request(s, r, mode) /\ phase' = "idle"
    BY RequestType DEF Refuse
  <1>2. SpecApplyTypeOK'
    BY <1>1, RequestType DEF ApplyInv, SpecApplyTypeOK, Refuse, agentVars, execVars
  <1>3. Counts'
    BY <1>1, RequestType DEF ApplyInv, Counts, Refuse
  <1>4. PlanIsGood' /\ AgentHasPlan' /\ PassSettles' /\ SuccessSettles'
    BY <1>1 DEF PlanIsGood, AgentHasPlan, PassSettles, SuccessSettles, Refuse
  <1> QED
    BY <1>2, <1>3, <1>4 DEF ApplyInv

(* A run over SSH begins with nothing settled.                             *)
LEMMA PassBegins ==
  ASSUME WellPlanned(compiled)', BeginLocalPass(ForClient(compiled'))
  PROVE  PassSettles'
  <1>1. Len(compiled') \in Nat
    BY DEF WellPlanned
  <1>2. Settled(compiled', 0, server', situation'.dies)
    BY NothingToSettle
  <1>3. /\ plan' = ForClient(compiled') /\ gateSkippedAt' = 0 /\ abortedAt' \in Nat
        /\ remoteFailed' \in BOOLEAN /\ status' = "running"
    BY DEF BeginLocalPass, Executor
  <1>4. results' \in Seq(Outcomes) /\ Len(results') = 0 /\ Len(results') <= Len(compiled')
    BY <1>1 DEF BeginLocalPass, Executor
  <1>5. status' \notin Successes /\ status' \in Verdicts \cup {"running"}
    BY <1>3 DEF Successes
  <1>6. Settled(compiled', Len(results'), server', situation'.dies)
    BY <1>2, <1>4
  <1> QED
    BY <1>3, <1>4, <1>5, <1>6 DEF PassSettles

(* An apply starts with the plan of a spec that is valid.                  *)
LEMMA StartKeepsInv ==
  ASSUME ApplyInv, NEW s \in situation.specs, NEW r \in 1..2, NEW mode, Start(s, r, mode)
  PROVE  ApplyInv'
  <1>1. Request(s, r, mode) /\ phase' \in {"agent", "download", "local"}
    BY DEF Start, BeginLocalPass
  <1>2. WellPlanned(compiled')
    <2>1. ValidSpec(s)
      BY DEF Start, Refused
    <2>2. situation \in Situations
      BY DEF ApplyInv, Counts
    <2>3. compiled' = PlanOf(s, r)
      BY DEF Start
    <2> QED
      BY <2>1, <2>2, <2>3, CompiledAssumption
  <1>3. Counts'
    BY <1>1, RequestType DEF ApplyInv, Counts, Start
  <1>4. PlanIsGood' /\ SuccessSettles'
    BY <1>1, <1>2 DEF PlanIsGood, SuccessSettles, Start
  <1>5. AgentHasPlan'
    BY DEF AgentHasPlan, Start, BeginLocalPass, Agent!Start
  <1>6. PassSettles'
    <2>1. CASE phase' = "local"
      <3>1. BeginLocalPass(ForClient(compiled'))
        BY <2>1 DEF Start
      <3> QED
        BY <1>2, <3>1, PassBegins
    <2> QED
      BY <2>1 DEF PassSettles
  <1>7. /\ phase' = "local" <=> status' # "none"
        /\ phase' = "agent" <=> agentStatus' = "running"
    <2>1. CASE phase' = "agent" /\ Agent!Start(ForAgent(compiled'), OpenPolicy) /\ UNCHANGED execVars
      BY <1>1, <2>1, RequestType DEF Agent!Start, execVars
    <2>2. CASE phase' = "download" /\ UNCHANGED <<execVars, agentVars>>
      BY <1>1, <2>2, RequestType DEF agentVars, execVars
    <2>3. CASE BeginLocalPass(ForClient(compiled')) /\ UNCHANGED agentVars
      BY <1>1, <2>3, RequestType DEF BeginLocalPass, Executor, agentVars
    <2> QED
      BY <2>1, <2>2, <2>3 DEF Start
  <1>8. SpecApplyTypeOK'
    <2>1. cleanRuns' \in 0..MaxApplies /\ applies' <= situation'.applies
      <3>1. cleanRuns' \in {0, cleanRuns}
        BY DEF Start
      <3> QED
        BY <1>1, <3>1, RequestType
    <2>2. verdict' = "none"
      BY DEF Start
    <2> QED
      BY <1>1, <1>7, <2>1, <2>2, RequestType DEF ApplyInv, SpecApplyTypeOK
  <1> QED
    BY <1>3, <1>4, <1>5, <1>6, <1>8 DEF ApplyInv

(* The counters, in an apply that goes on or ends.                         *)
CountsAreFine ==
  /\ Counts
  /\ agent \in {"absent", "same", "other"}
  /\ applies <= situation.applies /\ accidents <= situation.accidents
  /\ cleanRuns \in 0..MaxApplies

(* They are kept, and accidents are counted.                               *)
LEMMA CountsStay ==
  ASSUME ApplyInv, UNCHANGED jobVars, phase # "idle" \/ phase' = "idle",
         UNCHANGED <<accidents, cleanRuns>> \/ Accident
           \/ (accidents' = accidents /\ cleanRuns' = 0)
  PROVE  CountsAreFine'
  <1>1. situation \in Situations /\ MaxApplies \in Nat
    BY MaxAppliesAssumption DEF ApplyInv, Counts
  <1>2. situation.applies \in Nat /\ situation.accidents \in Nat
    BY <1>1, SituationsAssumption
  <1>3. situation' = situation /\ applies' = applies /\ agent' = agent
    BY DEF jobVars
  <1>4. /\ accidents' \in Nat /\ accidents' <= situation.accidents
        /\ cleanRuns' \in {0, cleanRuns}
    BY <1>2 DEF ApplyInv, Counts, SpecApplyTypeOK, Accident
  <1>5. Counts'
    <2>1. /\ applies \in Nat /\ cleanRuns \in Nat /\ cleanRuns <= applies
          /\ phase # "idle" => cleanRuns + 1 <= applies
      BY DEF ApplyInv, Counts
    <2>2. /\ cleanRuns' \in Nat /\ cleanRuns' <= applies
          /\ phase # "idle" => cleanRuns' + 1 <= applies
      <3>1. CASE cleanRuns' = 0
        BY <2>1, <3>1
      <3>2. CASE cleanRuns' = cleanRuns
        BY <2>1, <3>2
      <3> QED
        BY <1>4, <3>1, <3>2
    <2> QED
      BY <1>1, <1>3, <1>4, <2>1, <2>2 DEF Counts
  <1>6. cleanRuns' \in 0..MaxApplies
    BY <1>1, <1>4 DEF ApplyInv, SpecApplyTypeOK
  <1> QED
    BY <1>3, <1>4, <1>5, <1>6 DEF CountsAreFine, ApplyInv, SpecApplyTypeOK

(* The result of a step counts an accident, or nothing.                    *)
LEMMA ResultCounts ==
  ASSUME NEW works, NEW step, NEW outcome, Result(works, step, outcome)
  PROVE  UNCHANGED <<accidents, cleanRuns>> \/ Accident
  BY DEF Result, history

(* The agent executes a step: the server changes, and its plan does not.   *)
LEMMA AgentExecutesKeepsInv ==
  ASSUME ApplyInv, AgentExecutes
  PROVE  ApplyInv'
  <1>1. /\ phase = "agent" /\ phase' = "agent" /\ Agent!Looping
        /\ UNCHANGED execVars /\ UNCHANGED jobVars
        /\ lastResult' = lastResult /\ verdict' = verdict
        /\ compiled' = compiled
    BY DEF AgentExecutes, jobVars
  <1>2. WellPlanned(compiled) /\ verdict = "none" /\ agentPlan = ForAgent(compiled)
    BY <1>1 DEF ApplyInv, PlanIsGood, AgentHasPlan
  <1>3. PICK outcome \in {"success", "failed"} :
          /\ Agent!Execute(outcome)
          /\ Result(AgentWorks(compiled[Agent!At]), compiled[Agent!At], outcome)
    BY <1>1, <1>2, AgentPosition DEF AgentExecutes
  <1>4. CountsAreFine'
    BY <1>1, <1>3, ResultCounts, CountsStay
  <1>5. server' \in Servers
    <2>1. IsPlanned(compiled[Agent!At])
      BY <1>1, <1>2, AgentPosition, Planned
    <2> QED
      BY <1>3, <2>1, ServerType, ResultsType DEF ApplyInv
  <1>6. agentStatus' = agentStatus /\ agentPlan' = agentPlan
    BY <1>3 DEF Agent!Execute
  <1>7. status' = status
    BY <1>1 DEF execVars
  <1>8. SpecApplyTypeOK'
    BY <1>1, <1>4, <1>5, <1>6, <1>7
       DEF ApplyInv, SpecApplyTypeOK, CountsAreFine, Servers
  <1>9. PlanIsGood' /\ AgentHasPlan' /\ PassSettles' /\ SuccessSettles'
    BY <1>1, <1>2, <1>6 DEF PlanIsGood, AgentHasPlan, PassSettles, SuccessSettles
  <1> QED
    BY <1>4, <1>8, <1>9 DEF ApplyInv, CountsAreFine

(* The agent skips a step.                                                 *)
LEMMA AgentSkipsKeepsInv ==
  ASSUME ApplyInv, AgentSkips
  PROVE  ApplyInv'
  <1>1. /\ phase = "agent" /\ phase' = "agent" /\ status' = status
        /\ UNCHANGED jobVars /\ compiled' = compiled /\ server' = server
        /\ lastResult' = lastResult /\ verdict' = verdict
        /\ UNCHANGED <<accidents, cleanRuns>>
    BY DEF AgentSkips, jobVars, execVars, history
  <1>2. agentStatus' = agentStatus /\ agentPlan' = agentPlan
    BY DEF AgentSkips, Agent!SkipUnchanged, Agent!KeepsHost
  <1>3. CountsAreFine'
    BY <1>1, CountsStay
  <1>4. SpecApplyTypeOK'
    BY <1>1, <1>2, <1>3 DEF ApplyInv, SpecApplyTypeOK, CountsAreFine
  <1>5. PlanIsGood' /\ AgentHasPlan' /\ PassSettles' /\ SuccessSettles'
    BY <1>1, <1>2 DEF ApplyInv, PlanIsGood, AgentHasPlan, PassSettles, SuccessSettles
  <1> QED
    BY <1>3, <1>4, <1>5 DEF ApplyInv, CountsAreFine

(* The agent leaves a result, ...                                          *)
LEMMA AgentFinishesKeepsInv ==
  ASSUME ApplyInv, AgentFinishes
  PROVE  ApplyInv'
  <1>1. /\ phase = "agent" /\ phase' = "download" /\ status' = status
        /\ UNCHANGED jobVars /\ compiled' = compiled /\ server' = server
        /\ lastResult' = agentStatus' /\ verdict' = verdict
        /\ UNCHANGED <<accidents, cleanRuns>>
    BY DEF AgentFinishes, jobVars, execVars, history
  <1>2. agentStatus' \in {"success", "failed"}
    BY DEF AgentFinishes, Agent!Finish
  <1>3. CountsAreFine'
    BY <1>1, CountsStay
  <1>4. SpecApplyTypeOK'
    BY <1>1, <1>2, <1>3 DEF ApplyInv, SpecApplyTypeOK, CountsAreFine
  <1>5. PlanIsGood' /\ AgentHasPlan' /\ PassSettles' /\ SuccessSettles'
    BY <1>1 DEF ApplyInv, PlanIsGood, AgentHasPlan, PassSettles, SuccessSettles
  <1> QED
    BY <1>3, <1>4, <1>5 DEF ApplyInv, CountsAreFine

(* ... or is killed.                                                       *)
LEMMA AgentIsKilledKeepsInv ==
  ASSUME ApplyInv, AgentIsKilled
  PROVE  ApplyInv'
  <1>1. /\ phase = "agent" /\ phase' = "download" /\ status' = status
        /\ UNCHANGED jobVars /\ compiled' = compiled /\ server' = server
        /\ lastResult' = lastResult /\ verdict' = verdict
        /\ Accident
    BY DEF AgentIsKilled, jobVars, execVars
  <1>2. agentStatus' = "idle"
    BY DEF AgentIsKilled, Agent!Crash
  <1>3. CountsAreFine'
    BY <1>1, CountsStay
  <1>4. SpecApplyTypeOK'
    BY <1>1, <1>2, <1>3 DEF ApplyInv, SpecApplyTypeOK, CountsAreFine
  <1>5. PlanIsGood' /\ AgentHasPlan' /\ PassSettles' /\ SuccessSettles'
    BY <1>1 DEF ApplyInv, PlanIsGood, AgentHasPlan, PassSettles, SuccessSettles
  <1> QED
    BY <1>3, <1>4, <1>5 DEF ApplyInv, CountsAreFine

(* The result is fetched, and the run over SSH begins.                     *)
LEMMA DownloadKeepsInv ==
  ASSUME ApplyInv, Download
  PROVE  ApplyInv'
  <1>1. /\ phase = "download" /\ agentStatus' = agentStatus
        /\ UNCHANGED jobVars /\ compiled' = compiled /\ server' = server
        /\ lastResult' = lastResult
        /\ UNCHANGED <<accidents, cleanRuns>> \/ (accidents' = accidents /\ cleanRuns' = 0)
    BY DEF Download, jobVars, agentVars, history
  <1>2. CountsAreFine'
    BY <1>1, CountsStay
  <1>3. WellPlanned(compiled) /\ verdict = "none" /\ status = "none"
    BY <1>1 DEF ApplyInv, PlanIsGood, SpecApplyTypeOK
  <1>4. CASE phase' = "idle" /\ verdict' = "error" /\ UNCHANGED execVars
    <2>1. SpecApplyTypeOK'
      BY <1>1, <1>2, <1>4 DEF ApplyInv, SpecApplyTypeOK, CountsAreFine, execVars
    <2>2. PlanIsGood' /\ AgentHasPlan' /\ PassSettles' /\ SuccessSettles'
      BY <1>4 DEF PlanIsGood, AgentHasPlan, PassSettles, SuccessSettles, Successes
    <2> QED
      BY <1>2, <2>1, <2>2 DEF ApplyInv, CountsAreFine
  <1>5. CASE BeginLocalPass(SecondPass(compiled)) /\ verdict' = verdict
    <2>1. phase' = "local" /\ status' = "running"
      BY <1>5 DEF BeginLocalPass, Executor
    <2>2. SpecApplyTypeOK'
      BY <1>1, <1>2, <1>5, <2>1 DEF ApplyInv, SpecApplyTypeOK, CountsAreFine
    <2>3. PassSettles'
      <3>1. WellPlanned(compiled') /\ BeginLocalPass(ForClient(compiled'))
        BY <1>1, <1>3, <1>5 DEF SecondPass
      <3> QED
        BY <3>1, PassBegins
    <2>4. PlanIsGood' /\ AgentHasPlan' /\ SuccessSettles'
      BY <1>1, <1>3, <1>5, <2>1 DEF PlanIsGood, AgentHasPlan, SuccessSettles
    <2> QED
      BY <1>2, <2>2, <2>3, <2>4 DEF ApplyInv, CountsAreFine
  <1> QED
    BY <1>4, <1>5 DEF Download

(* That run executes a step.                                               *)
LEMMA ClientExecutesKeepsInv ==
  ASSUME ApplyInv, ClientExecutes
  PROVE  ApplyInv'
  <1>1. /\ phase = "local" /\ phase' = "local" /\ Looping
        /\ agentStatus' = agentStatus
        /\ UNCHANGED jobVars /\ compiled' = compiled /\ situation' = situation
        /\ lastResult' = lastResult /\ verdict' = verdict
    BY DEF ClientExecutes, jobVars, agentVars
  <1>2. /\ WellPlanned(compiled) /\ verdict = "none" /\ server \in Servers
        /\ plan = ForClient(compiled)
        /\ gateSkippedAt = 0 /\ abortedAt \in Nat /\ remoteFailed \in BOOLEAN
        /\ results \in Seq(Outcomes)
        /\ abortedAt = 0 /\ ~remoteFailed =>
             Settled(compiled, Len(results), server, situation.dies)
    BY <1>1, ServerType DEF ApplyInv, PlanIsGood, PassSettles
  <1>3. /\ At \in DOMAIN compiled /\ At = Len(results) + 1 /\ Len(results) \in Nat
        /\ At <= Len(compiled)
        /\ StepNamed(plan[At].id) = compiled[At]
    BY <1>1, <1>2, ClientPosition
  <1>4. PICK outcome \in {"success", "failed"} :
          /\ ExecuteStep(outcome)
          /\ Result(ClientWorks(compiled[At]), compiled[At], outcome)
    BY <1>3 DEF ClientExecutes
  <1>5. CountsAreFine'
    BY <1>1, <1>4, ResultCounts, CountsStay
  <1>6. server' \in Servers
    BY <1>2, <1>3, <1>4, Planned, ResultsType
  <1>7. /\ status = "running" /\ status' = "running" /\ abortedAt = 0
        /\ plan' = plan
        /\ results' = Append(results, outcome)
        /\ gateSkippedAt' = 0
    BY <1>2, <1>4 DEF ExecuteStep, MayExecute, Looping
  <1>8. abortedAt' \in Nat /\ remoteFailed' \in BOOLEAN
    <2>1. abortedAt' \in Nat
      BY <1>2, <1>3, <1>4 DEF ExecuteStep
    <2>2. remoteFailed' \in BOOLEAN
      BY <1>2, <1>4 DEF ExecuteStep
    <2> QED
      BY <2>1, <2>2
  <1>9. results' \in Seq(Outcomes) /\ Len(results') = Len(results) + 1
    BY <1>2, <1>7 DEF Outcomes
  <1>10. abortedAt' = 0 /\ ~remoteFailed' =>
           Settled(compiled', Len(results'), server', situation'.dies)
    <2> SUFFICES ASSUME abortedAt' = 0, ~remoteFailed'
                 PROVE  Settled(compiled, Len(results) + 1, server', situation.dies)
      BY <1>1, <1>9
    <2>1. Settled(compiled, Len(results), server, situation.dies) \/ remoteFailed
      BY <1>2, <1>7
    <2> QED
      BY <1>1, <1>2, <1>4, <2>1, ExecutedSettles
  <1>11. SpecApplyTypeOK'
    BY <1>1, <1>2, <1>5, <1>6, <1>7 DEF ApplyInv, SpecApplyTypeOK, CountsAreFine, Servers
  <1>12. PassSettles'
    <2>1. status' \in Verdicts \cup {"running"} /\ status' \notin Successes
      BY <1>7 DEF Successes
    <2>2. plan' = ForClient(compiled') /\ Len(results') <= Len(compiled')
      BY <1>1, <1>2, <1>3, <1>7, <1>9
    <2> QED
      BY <1>7, <1>8, <1>9, <1>10, <2>1, <2>2 DEF PassSettles
  <1>13. PlanIsGood' /\ AgentHasPlan' /\ SuccessSettles'
    BY <1>1, <1>2 DEF PlanIsGood, AgentHasPlan, SuccessSettles
  <1> QED
    BY <1>5, <1>11, <1>12, <1>13 DEF ApplyInv, CountsAreFine

(* A success is the end of a loop in which nothing but local steps failed. *)
LEMMA ClientFinishesKeepsInv ==
  ASSUME ApplyInv, ClientFinishes
  PROVE  ApplyInv'
  <1>1. /\ phase = "local" /\ phase' = "local" /\ Finish
        /\ agentStatus' = agentStatus
        /\ UNCHANGED jobVars /\ compiled' = compiled /\ situation' = situation
        /\ server' = server /\ lastResult' = lastResult /\ verdict' = verdict
        /\ UNCHANGED <<accidents, cleanRuns>>
    BY DEF ClientFinishes, jobVars, agentVars, history
  <1>2. CountsAreFine'
    BY <1>1, CountsStay
  <1>3. /\ WellPlanned(compiled) /\ plan = ForClient(compiled)
        /\ results \in Seq(Outcomes) /\ Len(results) <= Len(compiled)
        /\ remoteFailed \in BOOLEAN
    BY <1>1 DEF ApplyInv, PlanIsGood, PassSettles
  <1>4. /\ status = "running" /\ ~Looping /\ status' = FinalStatus
        /\ plan' = plan /\ results' = results /\ abortedAt' = abortedAt
        /\ gateSkippedAt' = gateSkippedAt /\ remoteFailed' = remoteFailed
    BY <1>1 DEF Finish
  <1>5. FinalStatus \in Verdicts
    BY DEF FinalStatus, Verdicts
  <1>6. status' \in Successes =>
          abortedAt = 0 /\ ~remoteFailed /\ Len(results) = Len(compiled)
    <2> SUFFICES ASSUME status' \in Successes
                 PROVE  abortedAt = 0 /\ ~remoteFailed /\ Len(results) = Len(compiled)
      OBVIOUS
    <2>1. abortedAt = 0 /\ ~remoteFailed
      BY <1>4 DEF FinalStatus, Successes
    <2>2. ~(Len(results) + 1 <= Len(plan))
      BY <1>4, <2>1 DEF Looping, At
    <2>3. Len(results) \in Nat /\ Len(plan) = Len(compiled) /\ Len(compiled) \in Nat
      BY <1>3, PlansAreOfSteps
    <2> QED
      BY <1>3, <2>1, <2>2, <2>3
  <1>7. SpecApplyTypeOK'
    BY <1>1, <1>2, <1>4, <1>5 DEF ApplyInv, SpecApplyTypeOK, CountsAreFine, Verdicts
  <1>8. PassSettles'
    <2>1. PassSettles
      BY DEF ApplyInv
    <2> QED
      BY <1>1, <1>4, <1>5, <1>6, <2>1 DEF PassSettles
  <1>9. PlanIsGood' /\ AgentHasPlan' /\ SuccessSettles'
    BY <1>1 DEF ApplyInv, PlanIsGood, AgentHasPlan, SuccessSettles
  <1> QED
    BY <1>2, <1>7, <1>8, <1>9 DEF ApplyInv, CountsAreFine

(* A success that is reported is one of this run, whatever the agent's.    *)
LEMMA ReportKeepsInv ==
  ASSUME ApplyInv, Report
  PROVE  ApplyInv'
  <1>1. /\ phase = "local" /\ phase' = "idle" /\ status \in Verdicts
        /\ verdict' = Merged(status)
        /\ agentStatus' = agentStatus /\ status' = "none"
        /\ situation' = situation /\ agent' = agent /\ applies' = applies
        /\ compiled' = compiled /\ job' = job
        /\ server' = server /\ lastResult' = lastResult /\ accidents' = accidents
        /\ cleanRuns' \in {0, cleanRuns + 1}
    BY DEF Report, NoExecutor, Executor, jobVars, agentVars
  <1>2. /\ situation \in Situations /\ situation.applies \in Nat
        /\ situation.applies <= MaxApplies /\ MaxApplies \in Nat
    BY SituationsAssumption, MaxAppliesAssumption DEF ApplyInv, Counts
  <1>3. /\ applies \in Nat /\ cleanRuns \in Nat /\ cleanRuns + 1 <= applies
        /\ applies <= situation.applies
    BY <1>1 DEF ApplyInv, Counts, SpecApplyTypeOK
  <1>4. cleanRuns' \in Nat /\ cleanRuns' <= applies /\ cleanRuns' \in 0..MaxApplies
    BY <1>1, <1>2, <1>3
  <1>5. Counts'
    BY <1>1, <1>3, <1>4 DEF ApplyInv, Counts
  <1>6. verdict' \in Verdicts /\ (verdict' \in Successes => verdict' = status)
    BY <1>1 DEF Merged, Verdicts, Successes
  <1>7. SpecApplyTypeOK'
    BY <1>1, <1>4, <1>6 DEF ApplyInv, SpecApplyTypeOK
  <1>8. SuccessSettles'
    <2>1. verdict' \in Successes =>
            Settled(compiled, Len(compiled), server, situation.dies)
      BY <1>1, <1>6 DEF ApplyInv, PassSettles
    <2>2. WellPlanned(compiled)
      BY <1>1 DEF ApplyInv, PlanIsGood
    <2> QED
      BY <1>1, <2>1, <2>2 DEF SuccessSettles
  <1>9. PlanIsGood' /\ AgentHasPlan' /\ PassSettles'
    BY <1>1 DEF PlanIsGood, AgentHasPlan, PassSettles
  <1> QED
    BY <1>5, <1>7, <1>8, <1>9 DEF ApplyInv

(* A client that dies reports nothing.                                     *)
LEMMA ClientCrashKeepsInv ==
  ASSUME ApplyInv, ClientCrash
  PROVE  ApplyInv'
  <1>1. /\ phase # "idle" /\ phase' = "idle" /\ status' = "none"
        /\ UNCHANGED jobVars /\ compiled' = compiled /\ server' = server
        /\ lastResult' = lastResult /\ verdict' = verdict
        /\ Accident
    BY DEF ClientCrash, NoExecutor, Executor, jobVars
  <1>2. agentStatus' # "running"
    BY <1>1 DEF ClientCrash, ApplyInv, SpecApplyTypeOK, agentVars, Agent!Crash
  <1>3. CountsAreFine'
    BY <1>1, CountsStay
  <1>4. verdict = "none"
    BY <1>1 DEF ApplyInv, PlanIsGood
  <1>5. SpecApplyTypeOK'
    BY <1>1, <1>2, <1>3 DEF ApplyInv, SpecApplyTypeOK, CountsAreFine
  <1>6. PlanIsGood' /\ AgentHasPlan' /\ PassSettles' /\ SuccessSettles'
    BY <1>1, <1>4 DEF PlanIsGood, AgentHasPlan, PassSettles, SuccessSettles, Successes
  <1> QED
    BY <1>3, <1>5, <1>6 DEF ApplyInv, CountsAreFine

(* The agent's memory is not the server.                                   *)
LEMMA LoseStateKeepsInv ==
  ASSUME ApplyInv, LoseState
  PROVE  ApplyInv'
  <1>1. /\ phase = "idle" /\ phase' = "idle" /\ status' = status
        /\ agentStatus' = agentStatus
        /\ UNCHANGED jobVars /\ compiled' = compiled /\ server' = server
        /\ situation' = situation /\ job' = job
        /\ lastResult' = lastResult /\ verdict' = verdict
        /\ Accident
    BY DEF LoseState, jobVars, execVars
  <1>2. CountsAreFine'
    BY <1>1, CountsStay
  <1>3. SpecApplyTypeOK'
    BY <1>1, <1>2 DEF ApplyInv, SpecApplyTypeOK, CountsAreFine
  <1>4. PlanIsGood' /\ AgentHasPlan' /\ PassSettles' /\ SuccessSettles'
    BY <1>1 DEF ApplyInv, PlanIsGood, AgentHasPlan, PassSettles, SuccessSettles
  <1> QED
    BY <1>2, <1>3, <1>4 DEF ApplyInv, CountsAreFine

(* Nor is the agent itself.                                                *)
LEMMA InstallAgentKeepsInv ==
  ASSUME ApplyInv, InstallAgent
  PROVE  ApplyInv'
  <1>1. /\ phase = "idle" /\ phase' = "idle" /\ status' = status
        /\ agentStatus' = agentStatus /\ agent' = "same"
        /\ compiled' = compiled /\ server' = server /\ applies' = applies
        /\ situation' = situation /\ job' = job
        /\ lastResult' = lastResult /\ verdict' = verdict
        /\ UNCHANGED <<accidents, cleanRuns>>
    BY DEF InstallAgent, execVars, agentVars, history
  <1>2. SpecApplyTypeOK'
    BY <1>1 DEF ApplyInv, SpecApplyTypeOK
  <1>3. Counts' /\ PlanIsGood' /\ AgentHasPlan' /\ PassSettles' /\ SuccessSettles'
    BY <1>1 DEF ApplyInv, Counts, PlanIsGood, AgentHasPlan, PassSettles, SuccessSettles
  <1> QED
    BY <1>2, <1>3 DEF ApplyInv

(* Nothing happens.                                                        *)
LEMMA StutterKeepsInv ==
  ASSUME ApplyInv, UNCHANGED vars
  PROVE  ApplyInv'
  <1>1. /\ phase' = phase /\ status' = status /\ agentStatus' = agentStatus
        /\ agent' = agent /\ compiled' = compiled /\ server' = server
        /\ situation' = situation /\ job' = job /\ applies' = applies
        /\ lastResult' = lastResult /\ verdict' = verdict
        /\ accidents' = accidents /\ cleanRuns' = cleanRuns
        /\ plan' = plan /\ results' = results /\ abortedAt' = abortedAt
        /\ gateSkippedAt' = gateSkippedAt /\ remoteFailed' = remoteFailed
        /\ agentPlan' = agentPlan
    BY DEF vars, execVars, agentVars, history
  <1>2. SpecApplyTypeOK'
    BY <1>1 DEF ApplyInv, SpecApplyTypeOK
  <1>3. Counts' /\ PlanIsGood' /\ AgentHasPlan' /\ PassSettles' /\ SuccessSettles'
    BY <1>1 DEF ApplyInv, Counts, PlanIsGood, AgentHasPlan, PassSettles, SuccessSettles
  <1> QED
    BY <1>2, <1>3 DEF ApplyInv

(* All of them.                                                            *)
LEMMA StepKeepsInv ==
  ApplyInv /\ [NextApply]_vars => ApplyInv'
  <1> SUFFICES ASSUME ApplyInv, [NextApply]_vars
               PROVE  ApplyInv'
    OBVIOUS
  <1>1. CASE \E s \in situation.specs, r \in 1..2, mode \in situation.modes :
               Refuse(s, r, mode) \/ Start(s, r, mode)
    BY <1>1, RefuseKeepsInv, StartKeepsInv
  <1>2. CASE AgentExecutes
    BY <1>2, AgentExecutesKeepsInv
  <1>3. CASE AgentSkips
    BY <1>3, AgentSkipsKeepsInv
  <1>4. CASE AgentFinishes
    BY <1>4, AgentFinishesKeepsInv
  <1>5. CASE Download
    BY <1>5, DownloadKeepsInv
  <1>6. CASE ClientExecutes
    BY <1>6, ClientExecutesKeepsInv
  <1>7. CASE ClientFinishes
    BY <1>7, ClientFinishesKeepsInv
  <1>8. CASE Report
    BY <1>8, ReportKeepsInv
  <1>9. CASE AgentIsKilled
    BY <1>9, AgentIsKilledKeepsInv
  <1>10. CASE ClientCrash
    BY <1>10, ClientCrashKeepsInv
  <1>11. CASE LoseState
    BY <1>11, LoseStateKeepsInv
  <1>12. CASE InstallAgent
    BY <1>12, InstallAgentKeepsInv
  <1>13. CASE UNCHANGED vars
    BY <1>13, StutterKeepsInv
  <1> QED
    BY <1>1, <1>2, <1>3, <1>4, <1>5, <1>6, <1>7, <1>8, <1>9, <1>10, <1>11, <1>12, <1>13
       DEF NextApply, Progress

(* The invariant holds.                                                    *)
LEMMA ApplyInvHolds ==
  ApplySpec => []ApplyInv
  <1> QED
    BY InitKeepsInv, StepKeepsInv, PTL DEF ApplySpec

(* Every variable of an apply has its type: a phase goes with the executor *)
(* that runs, and no request or accident exceeds the bounds.               *)
THEOREM SpecApplyTypeCorrect ==
  ApplySpec => []SpecApplyTypeOK
  <1>1. ApplyInv => SpecApplyTypeOK
    BY DEF ApplyInv
  <1> QED
    BY <1>1, ApplyInvHolds, PTL

(* An apply that reports success leaves everything its plan is there for   *)
(* in place, loaded and running (cli._apply_single): whatever was applied  *)
(* before, in whatever mode and revision, and whatever failed, died or was *)
(* lost on the way.                                                        *)
THEOREM SuccessIsInPlace ==
  ApplySpec => []SuccessMeansInPlace
  <1>1. ApplyInv => SuccessMeansInPlace
    <2> SUFFICES ASSUME ApplyInv, Succeeded, NEW step \in Range(compiled)
                 PROVE  InPlace(step)
      BY DEF SuccessMeansInPlace
    <2>1. /\ WellPlanned(compiled)
          /\ Settled(compiled, Len(compiled), server, situation.dies)
      BY DEF ApplyInv, SuccessSettles, Succeeded, Reported, Successes
    <2>2. PICK i \in DOMAIN compiled : step = compiled[i]
      BY DEF Range
    <2> QED
      BY <2>1, <2>2, SettledIsInPlace
  <1> QED
    BY <1>1, ApplyInvHolds, PTL

-----------------------------------------------------------------------------
(* Applies without accidents: what a plan leaves for its later steps, and  *)
(* for the next apply, to build on.                                        *)

(* The step has left its file, its daemon running.                         *)
Gives(step, s) ==
  /\ WritesFile(step) /\ step.op \notin CreateSteps /\ Asked(step) # 0 =>
       s.file[step.item] # 0
  /\ Role(step.op) \in {"daemon", "project", "unit", "timer"} => s.run[step.item] # 0

(* Units whose files were there when systemd was reloaded are loaded.      *)
UnitsKnown(p, n, s) ==
  \A i \in DOMAIN p, j \in 1..n :
    /\ Role(p[i].op) \in {"unit", "timer"}
    /\ p[j].op = "systemd_daemon_reload" /\ BehindFile(p, i, j)
    => s.loaded[p[i].item] # 0

(* The server as the first n steps leave it, in what later steps need.     *)
Ready(p, n, s) ==
  /\ \A j \in 1..n : Gives(p[j], s)
  /\ UnitsKnown(p, n, s)

(* The name of a container that is run later is free, once it is stopped   *)
(* and removed.                                                            *)
Stopped(p, i, n) ==
  \E j \in 1..n : p[j].op = "stop_container" /\ p[j].item = p[i].item

Removed(p, i, n) ==
  \E k \in 1..n :
    p[k].op = "remove_container" /\ p[k].item = p[i].item /\ Stopped(p, i, k - 1)

ContainersCleared(p, n, s) ==
  \A i \in DOMAIN p : p[i].op = "run_container" /\ i > n =>
    /\ Stopped(p, i, n) => s.run[p[i].item] = 0
    /\ Removed(p, i, n) => s.loaded[p[i].item] = 0

(* The agent takes the steps about containers that are to run for          *)
(* unchanged, and they have their names.                                   *)
ContainersKnown(p, rs) ==
  \A i, k \in DOMAIN p :
    p[k].op = "run_container" /\ Role(p[i].op) = "container" /\ p[i].item = p[k].item
    => ~Agent!ResourceChanged(rs, p[i])

ContainersThere(p, s) ==
  \A i \in DOMAIN p : p[i].op = "run_container" => s.loaded[p[i].item] # 0

(* A plan that can be carried out.                                         *)
Feasible(p, s, health, agentToo) ==
  /\ \A i \in DOMAIN p : ~IsEmptyUpload(p[i])
  /\ ~Premature(p)
  /\ \A i \in DOMAIN p : ~HopelessHere(p, i, s, health)
  /\ agentToo => \A i \in DOMAIN p : ~HopelessForAgent(p[i], health)

Fine == Feasible(compiled, server, situation.health, job.agent)

(* The agent gets to the containers, or has been there.                    *)
Reaches == cleanRuns # 0 \/ ~GateBeforeContainer(compiled)
HasReached ==
  cleanRuns # 0 /\ (cleanRuns \notin {0, 1} \/ ~GateBeforeContainer(compiled))

JobIsCompiled ==
  /\ phase # "idle" \/ cleanRuns # 0 => job # NoJob
  /\ job # NoJob => compiled = PlanOf(job.spec, job.rev) /\ WellPlanned(compiled)
  /\ cleanRuns # 0 => ~spoiled

AgentIsThere ==
  /\ agent = "absent" => lastResult = "none"
  /\ phase = "agent" => job.agent /\ agent # "absent"
  /\ phase = "local" /\ job.agent => lastResult # "none"
  /\ DOMAIN disk = StepIds /\ DOMAIN resources = StepIds

NginxIsThere == server.run["nginx"] # 0 => server.file["nginx"] # 0

(* The run over SSH fails where it must, and nowhere else.                 *)
HopelessFails ==
  phase = "local" =>
    \A i \in 1..Len(results) :
      HopelessHere(compiled, i, server, situation.health) => abortedAt # 0 \/ remoteFailed

FinePasses ==
  phase = "local" /\ ~spoiled /\ Fine =>
    /\ abortedAt = 0 /\ ~remoteFailed
    /\ ContainersCleared(compiled, Len(results), server)
    /\ status \in Verdicts => status \in Successes

(* The agent takes the steps in order, remembers each, and fails where it  *)
(* must, ...                                                               *)
AgentInOrder ==
  phase = "agent" =>
    /\ DOMAIN agentResults \subseteq Agent!OnServer(compiled)
    /\ \A i \in DOMAIN agentResults, j \in Agent!OnServer(compiled) :
         j < i => j \in DOMAIN agentResults
    /\ agentAborted \in {0} \cup DOMAIN agentResults
    /\ \A i \in DOMAIN agentResults :
         /\ ~Agent!IsAlways(compiled[i]) => ~Agent!ResourceChanged(resources, compiled[i])
         /\ HopelessForAgent(compiled[i], situation.health) => agentResults[i] = "failed"

(* ... ends behind the containers, if at all, ...                          *)
EndsBehindContainers ==
  phase = "agent" /\ ~spoiled /\ Fine /\ Reaches /\ agentAborted # 0 =>
    \A k \in DOMAIN compiled : compiled[k].op = "run_container" => k < agentAborted

ContainersOnDisk ==
  /\ phase \in {"download", "local"} /\ job.agent /\ lastResult # "none"
  /\ ~spoiled /\ Fine /\ Reaches
  => ContainersKnown(compiled, disk)

(* ... and then finds all as the applies before have left it, ...          *)
ServerIsReady ==
  phase # "local" /\ cleanRuns # 0 /\ Fine => Ready(compiled, Len(compiled), server)

ContainersStay ==
  phase # "local" /\ job.agent /\ HasReached /\ Fine =>
    /\ ContainersThere(compiled, server) /\ ContainersKnown(compiled, disk)
    /\ phase = "agent" => ContainersKnown(compiled, resources)

(* ... so that nothing fails.                                              *)
NothingFails ==
  phase = "agent" /\ HasReached /\ Fine =>
    agentAborted = 0 /\ \A i \in DOMAIN agentResults : agentResults[i] # "failed"

LastResultIsRight ==
  phase \in {"download", "local"} /\ job.agent /\ lastResult # "none" /\ ~spoiled =>
    /\ HasReached /\ Fine => lastResult = "success"
    /\ lastResult = "success" =>
         \A i \in DOMAIN compiled : ~HopelessForAgent(compiled[i], situation.health)

VerdictIsRight ==
  phase = "idle" /\ job # NoJob /\ verdict # "none" /\ cleanRuns # 0 =>
    /\ verdict \in Successes => ~Hopeless(compiled)
    /\ Fine /\ cleanRuns >= RunsNeeded(compiled) => verdict \in Successes

CleanInv ==
  /\ JobIsCompiled /\ AgentIsThere /\ NginxIsThere
  /\ HopelessFails /\ FinePasses
  /\ AgentInOrder /\ EndsBehindContainers /\ ContainersOnDisk
  /\ ServerIsReady /\ ContainersStay /\ NothingFails
  /\ LastResultIsRight /\ VerdictIsRight

(* A daemon is stopped by nothing, and started by what is there for it.    *)
LEMMA DaemonStays ==
  ASSUME NEW p, WellPlanned(p), NEW m \in DOMAIN p, NEW e, Changed(p[m], e),
         NEW d \in Daemons
  PROVE  \/ e.run[d] = server.run[d]
         \/ Starts(p[m], d) /\ e.run[d] # 0
  <1>1. d \in Items /\ d # "listen" /\ d \notin Sites /\ d \notin Units /\ d \notin Timers
    BY ItemsAssumption DEF Daemons
  <1>2. d = p[m].item => Role(p[m].op) \notin {"container", "project", "unit", "timer"}
    BY <1>1, Planned DEF IsPlanned
  <1> QED
    BY <1>1, <1>2 DEF Changed, RunChange, Starts

(* What a gate or check asks for is a daemon.                              *)
LEMMA AskedIsDaemon ==
  ASSUME NEW step, Asks(step)
  PROVE  /\ AsksFor(step) \in {"postgres", "nginx"} /\ AsksFor(step) \in Daemons
         /\ step.op \in {"pg_isready_gate", "postflight"} /\ Role(step.op) = "none"
  BY DEF Asks, AsksFor, Daemons, Role

(* A plan does not change what it lacks.                                   *)
LEMMA LackingStays ==
  ASSUME NEW p, WellPlanned(p), NEW m \in DOMAIN p, NEW e, Changed(p[m], e),
         NEW i \in DOMAIN p
  PROVE  Lacking(p, i, e) <=> Lacking(p, i, server)
  <1> SUFFICES ASSUME Asks(p[i]), \A k \in DOMAIN p : ~Starts(p[k], AsksFor(p[i]))
               PROVE  e.run[AsksFor(p[i])] = server.run[AsksFor(p[i])]
    BY DEF Lacking
  <1> QED
    BY AskedIsDaemon, DaemonStays

(* Nor whether it can be carried out.                                      *)
LEMMA HopelessStays ==
  ASSUME NEW p, WellPlanned(p), NEW m \in DOMAIN p, NEW e, Changed(p[m], e), NEW health,
         NEW i \in DOMAIN p
  PROVE  HopelessHere(p, i, e, health) <=> HopelessHere(p, i, server, health)
  BY LackingStays DEF HopelessHere

(* Whether the plan can be carried out, each step leaves as it was.        *)
LEMMA FeasibleStays ==
  ASSUME NEW p, WellPlanned(p), NEW m \in DOMAIN p, NEW e, Changed(p[m], e), NEW health,
         NEW agentToo
  PROVE  Feasible(p, e, health, agentToo) <=> Feasible(p, server, health, agentToo)
  BY HopelessStays DEF Feasible

(* What is asked for runs by then, unless nobody starts it.                *)
LEMMA AskedRuns ==
  ASSUME NEW p, WellPlanned(p), NEW i \in DOMAIN p, NEW s,
         Asks(p[i]), ~Premature(p), ~Lacking(p, i, s),
         \A j \in 1..(i - 1) : Gives(p[j], s)
  PROVE  s.run[AsksFor(p[i])] # 0
  <1> DEFINE d == AsksFor(p[i])
  <1>1. i \in Nat /\ 1..i \subseteq DOMAIN p
    BY Planned
  <1>2. CASE \E j \in 1..(i - 1) : Starts(p[j], d)
    BY <1>2 DEF Gives, Starts
  <1>3. CASE \A j \in 1..(i - 1) : ~Starts(p[j], d)
    <2>1. ASSUME NEW k \in DOMAIN p, Starts(p[k], d) PROVE FALSE
      <3>1. k # i
        BY <2>1, AskedIsDaemon DEF Starts
      <3>2. ~(i < k)
        BY <1>3, <2>1 DEF Premature
      <3>3. k \in Nat /\ k \in 1..(i - 1)
        <4>1. k \in Nat /\ k \in 1..k
          BY Planned, PlansAreOfSteps
        <4> QED
          BY <1>1, <3>1, <3>2, <4>1
      <3> QED
        BY <1>3, <2>1, <3>3
    <2> QED
      BY <2>1 DEF Lacking
  <1> QED
    BY <1>2, <1>3

(* What has been settled can be built on.                                  *)
LEMMA UploadIsBehind ==
  ASSUME NEW p, WellPlanned(p), \A k \in DOMAIN p : ~IsEmptyUpload(p[k]),
         NEW i \in DOMAIN p, BehindUpload(p, i)
  PROVE  \E j \in 1..(i - 1) :
           /\ j \in DOMAIN p /\ p[j].item = p[i].item
           /\ WritesFile(p[j]) /\ p[j].op \notin CreateSteps /\ Asked(p[j]) # 0
  <1>1. PICK j \in 1..(i - 1) : p[j].kind = "upload" /\ p[j].item = p[i].item
    BY DEF BehindUpload
  <1>2. j \in DOMAIN p
    BY <1>1, Planned
  <1>3. p[j].op \notin Operations /\ WritesFile(p[j])
    BY <1>1, <1>2, Planned DEF IsPlanned, WritesFile, IsEmptyUpload
  <1> QED
    BY <1>1, <1>2, <1>3, Planned, Distinct, WrittenIsAsked DEF Operations, FileSteps

(* A unit's file is written when systemd reads it.                         *)
LEMMA UnitFileIsThere ==
  ASSUME NEW p, WellPlanned(p), \A k \in DOMAIN p : ~IsEmptyUpload(p[k]), NEW s,
         NEW n \in Nat, \A j \in 1..n : Gives(p[j], s),
         NEW i \in DOMAIN p, Role(p[i].op) \in {"unit", "timer"},
         NEW j \in 1..n, BehindFile(p, i, j)
  PROVE  s.file[p[i].item] # 0
  <1>1. NeedsUpload(p[i].op)
    BY Roles DEF NeedsUpload
  <1>2. BehindUpload(p, i)
    BY <1>1 DEF WellPlanned, Supplied
  <1>3. PICK k \in 1..(i - 1) :
          /\ k \in DOMAIN p /\ p[k].item = p[i].item
          /\ WritesFile(p[k]) /\ p[k].op \notin CreateSteps /\ Asked(p[k]) # 0
    BY <1>2, UploadIsBehind
  <1>4. k < j
    BY <1>3 DEF BehindFile
  <1>5. k \in 1..n
    BY <1>3, <1>4, Planned
  <1> QED
    BY <1>3, <1>5 DEF Gives

(* A server on which all steps have had their effects is ready for them.   *)
LEMMA SettledIsReady ==
  ASSUME NEW p, WellPlanned(p), \A k \in DOMAIN p : ~IsEmptyUpload(p[k]), NEW s, NEW dies,
         NEW n \in Nat, n <= Len(p), Settled(p, n, s, dies)
  PROVE  Ready(p, n, s)
  <1>1. \A j \in 1..n : Gives(p[j], s)
    <2> SUFFICES ASSUME NEW j \in 1..n PROVE Gives(p[j], s)
      OBVIOUS
    <2>1. WritesFile(p[j]) /\ p[j].op \notin CreateSteps /\ Asked(p[j]) # 0 =>
            s.file[p[j].item] # 0
      BY DEF Settled, FilesWritten
    <2>2. Role(p[j].op) \in {"daemon", "project", "unit", "timer"} => s.run[p[j].item] # 0
      BY DEF Settled, DaemonsRun, ProjectsRun, UnitsRun
    <2> QED
      BY <2>1, <2>2 DEF Gives
  <1>2. UnitsKnown(p, n, s)
    <2> SUFFICES ASSUME NEW i \in DOMAIN p, NEW j \in 1..n,
                        Role(p[i].op) \in {"unit", "timer"},
                        p[j].op = "systemd_daemon_reload", BehindFile(p, i, j)
                 PROVE  s.loaded[p[i].item] # 0
      BY DEF UnitsKnown
    <2>1. s.loaded[p[i].item] = s.file[p[i].item]
      BY DEF Settled, UnitsLoaded
    <2>2. s.file[p[i].item] # 0
      BY <1>1, UnitFileIsThere
    <2> QED
      BY <2>1, <2>2
  <1> QED
    BY <1>1, <1>2 DEF Ready

(* What the whole plan has settled, no step of it undoes.                  *)
LEMMA ReadyStays ==
  ASSUME NEW p, WellPlanned(p), \A k \in DOMAIN p : ~IsEmptyUpload(p[k]),
         NEW m \in DOMAIN p, NEW e, Changed(p[m], e), Ready(p, Len(p), server)
  PROVE  Ready(p, Len(p), e)
  <1> DEFINE n == Len(p)
  <1>1. n \in Nat /\ DOMAIN p = 1..n
    BY PlansAreOfSteps
  <1>2. ASSUME NEW i \in DOMAIN p, WritesFile(p[i]), p[i].op \notin CreateSteps,
               Asked(p[i]) # 0
        PROVE  e.file[p[i].item] # 0
    <2>1. server.file[p[i].item] # 0
      BY <1>1, <1>2 DEF Ready, Gives
    <2>2. p[i].item \in Items
      BY <1>2, Planned, WrittenIsAsked
    <2>3. CASE e.file[p[i].item] = server.file[p[i].item]
      BY <2>1, <2>3
    <2>4. CASE p[i].item = p[m].item /\ WritesFile(p[m]) /\ e.file[p[i].item] = Asked(p[m])
      BY <1>2, <2>4, SameItem
    <2> QED
      BY <2>2, <2>3, <2>4 DEF Changed, FileChange
  <1>3. ASSUME NEW i \in DOMAIN p, NeedsUpload(p[i].op)
        PROVE  server.file[p[i].item] # 0
    <2>1. BehindUpload(p, i)
      BY <1>3 DEF WellPlanned, Supplied
    <2>2. PICK k \in 1..(i - 1) :
            /\ k \in DOMAIN p /\ p[k].item = p[i].item
            /\ WritesFile(p[k]) /\ p[k].op \notin CreateSteps /\ Asked(p[k]) # 0
      BY <2>1, UploadIsBehind
    <2> QED
      BY <1>1, <2>2 DEF Ready, Gives
  <1>4. ASSUME NEW i \in DOMAIN p, Role(p[i].op) \in {"unit", "timer"}
        PROVE  server.file[p[i].item] # 0 /\ server.loaded[p[i].item] # 0
    <2>1. p[i].op \in {"restart_unit", "enable_start_timer"} /\ NeedsUpload(p[i].op)
      BY <1>4, Roles DEF NeedsUpload
    <2>2. PICK j \in 1..(i - 1) : p[j].op = "systemd_daemon_reload" /\ BehindFile(p, i, j)
      BY <2>1 DEF WellPlanned, WellOrdered
    <2>3. j \in 1..n
      BY <1>1, <2>2
    <2> QED
      BY <1>3, <1>4, <2>1, <2>2, <2>3 DEF Ready, UnitsKnown
  <1>5. ASSUME NEW i \in DOMAIN p, Role(p[i].op) \in {"daemon", "project", "unit", "timer"}
        PROVE  e.run[p[i].item] # 0
    <2>1. server.run[p[i].item] # 0
      BY <1>1, <1>5 DEF Ready, Gives
    <2>2. Role(p[i].op) = "project" => server.file[p[i].item] # 0
      BY <1>3, Roles DEF NeedsUpload, ComposeSteps
    <2>3. RunChange(p[m], e)
      BY DEF Changed
    <2> QED
      BY <1>4, <1>5, <2>1, <2>2, <2>3, RunsOn
  <1>6. ASSUME NEW i \in DOMAIN p, Role(p[i].op) \in {"unit", "timer"}
        PROVE  e.loaded[p[i].item] # 0
    <2>1. LoadedChange(p[m], e)
      BY DEF Changed
    <2> QED
      BY <1>4, <1>6, <2>1, LoadedOn
  <1>7. \A j \in 1..n : Gives(p[j], e)
    BY <1>1, <1>2, <1>5 DEF Gives
  <1>8. UnitsKnown(p, n, e)
    BY <1>6 DEF UnitsKnown
  <1> QED
    BY <1>7, <1>8 DEF Ready

(* What the whole plan has settled, each step has before it.               *)
LEMMA ReadyBefore ==
  ASSUME NEW p, WellPlanned(p), NEW s, Ready(p, Len(p), s), NEW i \in DOMAIN p
  PROVE  Ready(p, i - 1, s)
  <1>1. i \in Nat /\ Len(p) \in Nat /\ 1..(i - 1) \subseteq 1..Len(p)
    BY Planned, PlansAreOfSteps
  <1> QED
    BY <1>1 DEF Ready, UnitsKnown

(* What a step needs is there, with the steps before it settled.           *)
LEMMA UploadIsThere ==
  ASSUME NEW p, WellPlanned(p), \A k \in DOMAIN p : ~IsEmptyUpload(p[k]),
         NEW i \in DOMAIN p, Ready(p, i - 1, server), NeedsUpload(p[i].op)
  PROVE  server.file[p[i].item] # 0
  <1>1. BehindUpload(p, i)
    BY DEF WellPlanned, Supplied
  <1> QED
    BY <1>1, UploadIsBehind DEF Ready, Gives

(* Behind the installation of a package, it is installed.                  *)
LEMMA InstalledBehind ==
  ASSUME NEW p, WellPlanned(p), NEW i \in DOMAIN p, Ready(p, i - 1, server),
         NEW op \in {"install_nginx", "install_postgres", "install_docker"},
         Behind(p, i, op)
  PROVE  /\ op = "install_nginx" => Installed("nginx")
         /\ op = "install_postgres" => Installed("postgres")
         /\ op = "install_docker" => Installed("docker")
  <1>1. PICK j \in 1..(i - 1) : p[j].op = op
    BY DEF Behind
  <1>2. j \in DOMAIN p /\ IsPlanned(p[j])
    BY Planned
  <1>3. /\ WritesFile(p[j]) /\ p[j].op \notin CreateSteps
        /\ p[j].op # "apt_remove_packages"
    BY <1>1 DEF WritesFile, FileSteps, CreateSteps
  <1>4. server.file[p[j].item] # 0
    BY <1>2, <1>3, WrittenIsAsked DEF Ready, Gives
  <1>5. p[j].item = CASE op = "install_nginx" -> "nginx"
                      [] op = "install_postgres" -> "postgres"
                      [] op = "install_docker" -> "docker"
    BY <1>1, <1>2 DEF IsPlanned
  <1> QED
    BY <1>4, <1>5 DEF Installed

(* Behind the start of a daemon, it runs.                                  *)
LEMMA StartedBehind ==
  ASSUME NEW p, WellPlanned(p), NEW i \in DOMAIN p, Ready(p, i - 1, server),
         NEW op \in {"enable_nginx", "enable_postgres", "enable_docker"},
         Behind(p, i, op)
  PROVE  /\ op = "enable_nginx" => Running("nginx")
         /\ op = "enable_postgres" => Running("postgres")
         /\ op = "enable_docker" => Running("docker")
  <1>1. PICK j \in 1..(i - 1) : p[j].op = op
    BY DEF Behind
  <1>2. j \in DOMAIN p /\ IsPlanned(p[j]) /\ Role(p[j].op) = "daemon"
    BY <1>1, Planned, Roles
  <1>3. server.run[p[j].item] # 0
    BY <1>2 DEF Ready, Gives
  <1>4. p[j].item = CASE op = "enable_nginx" -> "nginx"
                      [] op = "enable_postgres" -> "postgres"
                      [] op = "enable_docker" -> "docker"
    BY <1>1, <1>2 DEF IsPlanned
  <1> QED
    BY <1>3, <1>4 DEF Running

(* Behind the start of a project, a unit or a timer, that runs.            *)
LEMMA RunsBehind ==
  ASSUME NEW p, WellPlanned(p), NEW i \in DOMAIN p, Ready(p, i - 1, server),
         NEW op \in {"compose_up", "restart_unit", "enable_start_timer"},
         BehindOwn(p, i, op)
  PROVE  Running(p[i].item)
  BY Roles DEF BehindOwn, Ready, Gives, Running

(* With a gate passed, postgres runs.                                      *)
LEMMA PostgresBehindGate ==
  ASSUME NEW p, WellPlanned(p), NEW i \in DOMAIN p, Ready(p, i - 1, server), NEW health,
         NEW agentToo, Feasible(p, server, health, agentToo),
         p[i].op \in EnsureSteps \cup {"pg_isready_gate"}
  PROVE  Running("postgres")
  <1>1. PICK j \in 1..i : p[j].op = "pg_isready_gate"
    <2>1. i \in 1..i
      BY PlansAreOfSteps
    <2>2. CASE p[i].op = "pg_isready_gate"
      BY <2>1, <2>2
    <2>3. CASE p[i].op \in EnsureSteps
      <3>1. Behind(p, i, "pg_isready_gate")
        BY <2>3 DEF WellPlanned, Supplied
      <3> QED
        BY <2>1, <3>1 DEF Behind
    <2> QED
      BY <2>2, <2>3
  <1>2. j \in DOMAIN p /\ 1..(j - 1) \subseteq 1..(i - 1)
    BY Planned
  <1>3. Asks(p[j]) /\ AsksFor(p[j]) = "postgres"
    BY <1>1 DEF Asks, AsksFor
  <1>4. ~Premature(p) /\ ~Lacking(p, j, server)
    BY <1>2 DEF Feasible, HopelessHere
  <1>5. \A k \in 1..(j - 1) : Gives(p[k], server)
    BY <1>2 DEF Ready
  <1> QED
    BY <1>2, <1>3, <1>4, <1>5, AskedRuns DEF Running

(* A unit is known to systemd.                                             *)
LEMMA UnitIsLoaded ==
  ASSUME NEW p, WellPlanned(p), NEW i \in DOMAIN p, Ready(p, i - 1, server),
         p[i].op \in {"restart_unit", "enable_start_timer"}
  PROVE  server.loaded[p[i].item] # 0
  <1>1. PICK j \in 1..(i - 1) : p[j].op = "systemd_daemon_reload" /\ BehindFile(p, i, j)
    BY DEF WellPlanned, WellOrdered
  <1> QED
    BY <1>1, Roles DEF Ready, UnitsKnown

(* So every command works; those of containers, with the name as it should *)
(* be.                                                                     *)
LEMMA CommandsWork ==
  ASSUME NEW p, WellPlanned(p), NEW i \in DOMAIN p, Ready(p, i - 1, server), NEW health,
         NEW agentToo, Feasible(p, server, health, agentToo),
         p[i].op = "run_container" => server.loaded[p[i].item] = 0,
         p[i].op = "container_running_check" => server.loaded[p[i].item] # 0
  PROVE  CommandWorks(p[i])
  <1> DEFINE x == p[i].item
             op == p[i].op
  <1>1. \A k \in DOMAIN p : ~IsEmptyUpload(p[k])
    BY DEF Feasible
  <1>2. NeedsUpload(op) => Installed(x)
    BY <1>1, UploadIsThere DEF Installed
  <1>3. Supplied(p)
    BY DEF WellPlanned
  <1>4. Family(op) = "file" => FileWorks(x)
    <2>1. Family(op) = "file" => op \in ModeSteps \cup {"chown"}
      BY DEF Family
    <2> QED
      BY <1>2, <2>1 DEF FileWorks, NeedsUpload
  <1>5. NginxWorks(op)
    <2>1. op \in {"enable_nginx", "validate_nginx_config", "nginx_config_check"}
            => Behind(p, i, "install_nginx")
      BY <1>3 DEF Supplied
    <2>2. op = "reload_nginx" => Behind(p, i, "enable_nginx")
      BY <1>3 DEF Supplied
    <2> QED
      BY <2>1, <2>2, InstalledBehind, StartedBehind DEF NginxWorks
  <1>6. PostgresWorks(op)
    <2>1. op \in {"enable_postgres", "configure_postgres_listen"}
            => Behind(p, i, "install_postgres")
      BY <1>3 DEF Supplied
    <2>2. op = "postgres_ready_check" => Behind(p, i, "enable_postgres")
      BY <1>3 DEF Supplied
    <2> QED
      BY <2>1, <2>2, InstalledBehind, StartedBehind DEF PostgresWorks
  <1>7. Family(op) = "ensure" => EnsureWorks
    <2>1. Family(op) = "ensure" => op \in EnsureSteps \cup {"pg_isready_gate"}
      BY DEF Family
    <2> QED
      BY <2>1, PostgresBehindGate DEF EnsureWorks
  <1>8. DockerWorks(op)
    <2>1. op \in {"enable_docker", "docker_version_check"}
            => Behind(p, i, "install_docker")
      BY <1>3 DEF Supplied
    <2> QED
      BY <2>1, InstalledBehind DEF DockerWorks
  <1>9. op \in ComposeSteps \cup {"pull_image", "run_container"} => Running("docker")
    <2>1. op \in ComposeSteps \cup {"pull_image", "run_container"}
            => Behind(p, i, "enable_docker")
      BY <1>3 DEF Supplied
    <2> QED
      BY <2>1, StartedBehind
  <1>10. ContainerWorks(op, x)
    <2>1. op # "http_health_check"
      BY DEF Feasible, HopelessHere
    <2> QED
      BY <1>9, <2>1 DEF ContainerWorks
  <1>11. ComposeWorks(op, x)
    <2>1. op \in {"compose_http_ready", "post_deploy"} => BehindOwn(p, i, "compose_up")
      BY <1>3 DEF Supplied
    <2> QED
      BY <1>2, <1>9, <2>1, RunsBehind DEF ComposeWorks, NeedsUpload
  <1>12. SystemdWorks(op, x)
    <2>1. op = "verify_unit_active" => BehindOwn(p, i, "restart_unit")
      BY <1>3 DEF Supplied
    <2>2. op = "verify_timer_active" => BehindOwn(p, i, "enable_start_timer")
      BY <1>3 DEF Supplied
    <2> QED
      BY <1>2, <2>1, <2>2, RunsBehind, UnitIsLoaded DEF SystemdWorks, NeedsUpload
  <1> QED
    BY <1>4, <1>5, <1>6, <1>7, <1>8, <1>10, <1>11, <1>12 DEF CommandWorks

(* For the client, ...                                                     *)
LEMMA ClientStepsWork ==
  ASSUME NEW p, WellPlanned(p), NEW i \in DOMAIN p, Ready(p, i - 1, server),
         NEW agentToo, Feasible(p, server, situation.health, agentToo),
         situation.health \in {"none", "healthy", "unhealthy"},
         p[i].op = "run_container" => server.loaded[p[i].item] = 0,
         p[i].op = "container_running_check" => server.loaded[p[i].item] # 0
  PROVE  ClientWorks(p[i])
  <1>1. /\ p[i].kind # "agent_command" /\ ~Lacking(p, i, server) /\ ~Premature(p)
        /\ ~(p[i].kind = "health" /\ situation.health = "unhealthy")
        /\ p[i].op = "postflight" => p[i].kind # "health"
    BY Planned DEF Feasible, HopelessHere, IsPlanned
  <1>2. CASE p[i].op = "postflight"
    <2>1. Asks(p[i]) => server.run[AsksFor(p[i])] # 0
      BY <1>1, AskedRuns DEF Ready
    <2>2. ClientCheck(p[i].item)
      BY <1>2, <2>1 DEF ClientCheck, Asks, AsksFor, Running
    <2> QED
      BY <1>1, <1>2, <2>2 DEF ClientWorks
  <1>3. CASE p[i].kind = "health" /\ p[i].op # "postflight"
    <2>1. BehindOwn(p, i, "compose_up")
      BY <1>3 DEF WellPlanned, Supplied
    <2>2. ClientHealthy(p[i].item)
      BY <1>1, <1>3, <2>1, RunsBehind DEF ClientHealthy
    <2> QED
      BY <1>1, <1>3, <2>2 DEF ClientWorks
  <1>4. CASE p[i].kind # "health" /\ p[i].op # "postflight"
    BY <1>1, <1>4, CommandsWork DEF ClientWorks
  <1> QED
    BY <1>2, <1>3, <1>4

(* ... and for the agent.                                                  *)
LEMMA AgentStepsWork ==
  ASSUME NEW p, WellPlanned(p), NEW i \in DOMAIN p, Ready(p, i - 1, server),
         Feasible(p, server, situation.health, TRUE), NginxIsThere,
         situation.health \in {"none", "healthy", "unhealthy"},
         p[i].op = "run_container" => server.loaded[p[i].item] = 0,
         p[i].op = "container_running_check" => server.loaded[p[i].item] # 0
  PROVE  AgentWorks(p[i])
  <1>1. /\ p[i].kind # "agent_command" /\ ~Lacking(p, i, server) /\ ~Premature(p)
        /\ ~(p[i].kind = "health" /\ situation.health \in {"none", "unhealthy"})
        /\ ~(p[i].op = "postflight" /\ p[i].item = "ssh_reachable")
        /\ ~IsEmptyUpload(p[i])
        /\ p[i].op = "postflight" => p[i].kind \notin {"health", "upload"}
    BY Planned DEF Feasible, HopelessHere, HopelessForAgent, IsPlanned
  <1>2. CASE p[i].kind = "upload"
    BY <1>1, <1>2 DEF AgentWorks, IsEmptyUpload
  <1>3. CASE p[i].kind # "upload" /\ p[i].op = "postflight"
    <2>1. Asks(p[i]) => server.run[AsksFor(p[i])] # 0
      BY <1>1, AskedRuns DEF Ready
    <2>2. AgentCheck(p[i].item)
      BY <1>1, <1>3, <2>1 DEF AgentCheck, Asks, AsksFor, Running, Installed, NginxIsThere
    <2> QED
      BY <1>1, <1>3, <2>2 DEF AgentWorks
  <1>4. CASE p[i].kind = "health" /\ p[i].op # "postflight"
    <2>1. BehindOwn(p, i, "compose_up")
      BY <1>4 DEF WellPlanned, Supplied
    <2>2. AgentHealthy(p[i].item)
      BY <1>1, <1>4, <2>1, RunsBehind DEF AgentHealthy
    <2> QED
      BY <1>1, <1>4, <2>2 DEF AgentWorks
  <1>5. CASE p[i].kind \notin {"upload", "health"} /\ p[i].op # "postflight"
    BY <1>1, <1>5, CommandsWork DEF AgentWorks
  <1> QED
    BY <1>2, <1>3, <1>4, <1>5

(* What is done to a container does what it is called.                     *)
LEMMA ContainerStepEffect ==
  ASSUME server \in Servers, NEW step, IsPlanned(step), NEW e, e = Effect(step)
  PROVE  /\ step.op = "stop_container" =>
              e.run[step.item] = 0 /\ e.loaded[step.item] = server.loaded[step.item]
         /\ step.op = "remove_container" =>
              /\ e.run[step.item] = server.run[step.item]
              /\ server.run[step.item] = 0 => e.loaded[step.item] = 0
              /\ e.loaded[step.item] \in {0, server.loaded[step.item]}
  <1> DEFINE x == step.item
  <1> SUFFICES ASSUME step.op \in {"stop_container", "remove_container"}
               PROVE  /\ step.op = "stop_container" =>
                           e.run[x] = 0 /\ e.loaded[x] = server.loaded[x]
                      /\ step.op = "remove_container" =>
                           /\ e.run[x] = server.run[x]
                           /\ server.run[x] = 0 => e.loaded[x] = 0
                           /\ e.loaded[x] \in {0, server.loaded[x]}
    OBVIOUS
  <1>1. x \in Items /\ step.kind # "upload"
    BY Distinct, Roles DEF IsPlanned
  <1>2. e = ContainerEffect(step.op, x, Rev(step))
    BY <1>1, EffectOfRunSteps
  <1>3. CASE step.op = "stop_container"
    <2>1. e = [server EXCEPT !.run[x] = 0]
      BY <1>2, <1>3 DEF ContainerEffect
    <2> QED
      BY <1>1, <1>3, <2>1 DEF Servers
  <1>4. CASE step.op = "remove_container" /\ server.run[x] = 0
    <2>1. e = [server EXCEPT !.loaded[x] = 0]
      BY <1>2, <1>4 DEF ContainerEffect, Running
    <2> QED
      BY <1>1, <1>4, <2>1 DEF Servers
  <1>5. CASE step.op = "remove_container" /\ server.run[x] # 0
    <2>1. e = server
      BY <1>2, <1>5 DEF ContainerEffect, Running
    <2> QED
      BY <1>5, <2>1
  <1> QED
    BY <1>3, <1>4, <1>5

(* Step by step, the names of containers become free.                      *)
LEMMA ContainersAreCleared ==
  ASSUME server \in Servers, NEW p, WellPlanned(p), NEW n \in Nat, n + 1 \in DOMAIN p,
         NEW e, e = Effect(p[n + 1]), ContainersCleared(p, n, server)
  PROVE  ContainersCleared(p, n + 1, e)
  <1> DEFINE m == n + 1
             step == p[m]
  <1>1. /\ IsPlanned(step) /\ Changed(step, e)
        /\ LoadedChange(step, e) /\ RunChange(step, e)
    BY Planned, EveryStepChanges DEF Changed
  <1> SUFFICES ASSUME NEW i \in DOMAIN p, p[i].op = "run_container", i > m
               PROVE  /\ Stopped(p, i, m) => e.run[p[i].item] = 0
                      /\ Removed(p, i, m) => e.loaded[p[i].item] = 0
    BY DEF ContainersCleared
  <1> DEFINE x == p[i].item
             ours == step.item = x /\ Role(step.op) = "container"
  <1>2. /\ i > n /\ i \in Nat
        /\ Stopped(p, i, n) => server.run[x] = 0
        /\ Removed(p, i, n) => server.loaded[x] = 0
    BY Planned DEF ContainersCleared
  <1>3. Role(p[i].op) = "container"
    BY Roles
  <1>4. ~ours => e.run[x] = server.run[x] /\ e.loaded[x] = server.loaded[x]
    BY <1>1, <1>3, RunsOn, LoadedOn
  <1>5. ours => step.op \in {"stop_container", "remove_container"}
    <2>1. ASSUME step.item = x, step.op = "run_container" PROVE FALSE
      <3>1. i <= m
        BY <1>3, <2>1, SameItem
      <3> QED
        BY <1>2, <3>1
    <2> QED
      BY <2>1, Roles
  <1>6. Stopped(p, i, m) => Stopped(p, i, n) \/ (ours /\ step.op = "stop_container")
    BY Roles DEF Stopped
  <1>7. Removed(p, i, m) =>
          Removed(p, i, n) \/ (ours /\ step.op = "remove_container" /\ Stopped(p, i, n))
    <2> SUFFICES ASSUME NEW k \in 1..m, p[k].op = "remove_container", p[k].item = x,
                        Stopped(p, i, k - 1), k # m
                 PROVE  Removed(p, i, n)
      BY Roles DEF Removed
    <2> QED
      BY DEF Removed
  <1>8. /\ step.op = "stop_container" =>
             e.run[step.item] = 0 /\ e.loaded[step.item] = server.loaded[step.item]
        /\ step.op = "remove_container" =>
             /\ e.run[step.item] = server.run[step.item]
             /\ server.run[step.item] = 0 => e.loaded[step.item] = 0
             /\ e.loaded[step.item] \in {0, server.loaded[step.item]}
    BY <1>1, ContainerStepEffect
  <1> QED
    BY <1>2, <1>4, <1>5, <1>6, <1>7, <1>8

(* When a container is run, its name is free, ...                          *)
LEMMA NameIsFree ==
  ASSUME NEW p, WellPlanned(p), NEW i \in DOMAIN p, p[i].op = "run_container", NEW s,
         ContainersCleared(p, i - 1, s)
  PROVE  s.loaded[p[i].item] = 0
  <1>1. PICK k \in 1..(i - 1) : p[k].op = "remove_container" /\ p[k].item = p[i].item
    BY DEF WellPlanned, Supplied, BehindOwn
  <1>2. k \in DOMAIN p /\ i \in Nat
    BY Planned
  <1>3. PICK j \in 1..(k - 1) : p[j].op = "stop_container" /\ p[j].item = p[k].item
    BY <1>1, <1>2 DEF WellPlanned, Supplied, BehindOwn
  <1>4. Removed(p, i, i - 1)
    BY <1>1, <1>3 DEF Removed, Stopped
  <1> QED
    BY <1>2, <1>4 DEF ContainersCleared

(* ... and when it is looked at, it is there.                              *)
LEMMA RunContainersAreThere ==
  ASSUME NEW p, WellPlanned(p), NEW n, n \in 0..Len(p), NEW s, NEW dies,
         ContainersRun(p, n, s, dies), NEW i \in 1..n, p[i].op = "run_container"
  PROVE  s.loaded[p[i].item] # 0
  <1>1. i \in DOMAIN p /\ IsPlanned(p[i])
    BY Planned, PlansAreOfSteps
  <1>2. p[i].kind # "upload"
    BY <1>1, Distinct DEF IsPlanned
  <1> QED
    BY <1>1, <1>2 DEF ContainersRun, IsPlanned

(* What the client never succeeds in, does not work, and counts.           *)
LEMMA HopelessHereFails ==
  ASSUME NEW p, WellPlanned(p), NEW i \in DOMAIN p,
         HopelessHere(p, i, server, situation.health)
  PROVE  ~ClientWorks(p[i]) /\ p[i].scope # "local"
  <1> DEFINE op == p[i].op
             kind == p[i].kind
  <1>1. /\ kind \in {"upload", "agent_command", "health", "local"} =>
             Family(op) = "none" /\ op # "postflight"
        /\ p[i].scope = "local" => kind = "local"
    BY Planned DEF IsPlanned
  <1>2. /\ Family("http_health_check") = "container"
        /\ Family("pg_isready_gate") = "ensure"
    BY DEF Family, ModeSteps, CreateSteps, EnsureSteps, ComposeSteps
  <1>3. CASE op = "http_health_check"
    BY <1>1, <1>2, <1>3 DEF ClientWorks, CommandWorks, ContainerWorks
  <1>4. CASE kind = "agent_command"
    BY <1>1, <1>4 DEF ClientWorks
  <1>5. CASE kind = "health" /\ situation.health = "unhealthy"
    BY <1>1, <1>5 DEF ClientWorks, ClientHealthy
  <1>6. CASE Lacking(p, i, server)
    <2>1. Asks(p[i]) /\ server.run[AsksFor(p[i])] = 0
      BY <1>6 DEF Lacking
    <2>2. CASE op = "pg_isready_gate"
      <3>1. AsksFor(p[i]) = "postgres"
        BY <2>2 DEF AsksFor
      <3> QED
        BY <1>1, <1>2, <2>1, <2>2, <3>1 DEF ClientWorks, CommandWorks, EnsureWorks, Running
    <2>3. CASE op = "postflight"
      <3>1. /\ p[i].item = "postgres_ready" \/ p[i].item = "nginx_ready"
            /\ AsksFor(p[i]) = IF p[i].item = "postgres_ready" THEN "postgres" ELSE "nginx"
        BY <2>1, <2>3 DEF Asks, AsksFor
      <3>2. ~ClientCheck(p[i].item)
        BY <2>1, <3>1 DEF ClientCheck, Running
      <3> QED
        BY <1>1, <2>3, <3>2 DEF ClientWorks
    <2> QED
      BY <2>1, <2>2, <2>3, AskedIsDaemon
  <1> QED
    BY <1>3, <1>4, <1>5, <1>6 DEF HopelessHere

(* What the agent never succeeds in, does not work, and is never skipped.  *)
LEMMA HopelessForAgentFails ==
  ASSUME NEW step, IsPlanned(step), HopelessForAgent(step, situation.health)
  PROVE  ~AgentWorks(step) /\ step.scope = "verify" /\ Agent!IsAlways(step)
  <1>1. /\ step.kind \in {"upload", "agent_command", "health", "local"} =>
             step.op # "postflight"
        /\ step.scope = "verify"
    BY DEF IsPlanned, HopelessForAgent
  <1>2. CASE step.op = "postflight" /\ step.item = "ssh_reachable"
    <2>1. ~AgentCheck(step.item)
      BY <1>2 DEF AgentCheck
    <2>2. AgentWorks(step) = AgentCheck(step.item)
      BY <1>1, <1>2 DEF AgentWorks
    <2> QED
      BY <1>1, <2>1, <2>2 DEF Agent!IsAlways
  <1>3. CASE step.kind = "health" /\ situation.health = "none"
    <2>1. ~AgentHealthy(step.item)
      BY <1>3 DEF AgentHealthy
    <2>2. AgentWorks(step) = AgentHealthy(step.item)
      BY <1>1, <1>3 DEF AgentWorks
    <2> QED
      BY <1>1, <2>1, <2>2 DEF Agent!IsAlways
  <1> QED
    BY <1>2, <1>3 DEF HopelessForAgent

(* A command that the agent finds to work, works.                          *)
LEMMA AgentWorksMeans ==
  ASSUME NEW step, IsPlanned(step), step.op \in Operations, AgentWorks(step)
  PROVE  CommandWorks(step)
  <1>1. step.kind = "command" /\ step.op # "postflight"
    <2>1. "postflight" \notin Operations
      BY DEF Operations, FileSteps, CreateSteps, EnsureSteps, ModeSteps
    <2> QED
      BY <2>1 DEF IsPlanned
  <1> QED
    BY <1>1 DEF AgentWorks

(* nginx runs where it is installed.                                       *)
LEMMA NginxStays ==
  ASSUME NEW p, WellPlanned(p), NEW m \in DOMAIN p, NEW e, Changed(p[m], e),
         p[m].op \in Operations => CommandWorks(p[m]), NginxIsThere
  PROVE  e.run["nginx"] # 0 => e.file["nginx"] # 0
  <1>1. "nginx" \in Daemons /\ "nginx" \in Items
    BY ItemsAssumption DEF Daemons
  <1>2. IsPlanned(p[m]) /\ FileChange(p[m], e)
    BY Planned DEF Changed
  <1>3. server.file["nginx"] # 0 => e.file["nginx"] # 0
    <2>1. CASE e.file["nginx"] = server.file["nginx"]
      BY <2>1
    <2>2. CASE p[m].item = "nginx" /\ WritesFile(p[m]) /\ e.file["nginx"] = Asked(p[m])
      <3>1. p[m].op # "apt_remove_packages"
        BY <1>1, <1>2, <2>2 DEF IsPlanned
      <3> QED
        BY <1>2, <2>2, <3>1, WrittenIsAsked
    <2> QED
      BY <1>1, <1>2, <2>1, <2>2 DEF FileChange
  <1>4. CASE e.run["nginx"] = server.run["nginx"]
    BY <1>3, <1>4 DEF NginxIsThere
  <1>5. CASE Starts(p[m], "nginx")
    <2>1. p[m].op \in {"enable_nginx", "enable_postgres", "enable_docker"}
      BY <1>5, Roles DEF Starts
    <2>2. p[m].op = "enable_nginx"
      BY <1>2, <1>5, <2>1 DEF IsPlanned, Starts
    <2>3. p[m].op \in Operations /\ Family(p[m].op) = "nginx"
      BY <2>2, Distinct, Families
    <2>4. server.file["nginx"] # 0
      BY <2>2, <2>3 DEF CommandWorks, NginxWorks, Installed
    <2> QED
      BY <1>3, <2>4
  <1> QED
    BY <1>1, <1>4, <1>5, DaemonStays

(* A step that is executed without accident does what it does, or fails.   *)
LEMMA ResultMeans ==
  ASSUME NEW works, NEW step, NEW outcome \in {"success", "failed"},
         Result(works, step, outcome)
  PROVE  /\ server' = server \/ (works /\ server' = Effect(step))
         /\ ~works => outcome = "failed"
         /\ cleanRuns' \in {0, cleanRuns}
         /\ spoiled => spoiled'
         /\ ~spoiled' \/ cleanRuns' # 0 =>
              /\ spoiled' = spoiled /\ cleanRuns' = cleanRuns
              /\ works => outcome = "success" /\ server' = Effect(step)
              /\ ~works => server' = server
  BY DEF Result, Accident, history

-----------------------------------------------------------------------------
(* Every action keeps these clauses, too.                                  *)

(* The health check of a project says one of three things.                 *)
LEMMA HealthIsKnown ==
  ApplyInv => situation.health \in {"none", "healthy", "unhealthy"}
  BY SituationsAssumption DEF ApplyInv, Counts

(* A plan that can be carried out stays one.                               *)
LEMMA FineStays ==
  ASSUME WellPlanned(compiled),
         compiled' = compiled, situation' = situation, job' = job,
         server' = server \/ \E m \in DOMAIN compiled : Changed(compiled[m], server')
  PROVE  Fine' <=> Fine
  <1>1. CASE server' = server
    BY <1>1 DEF Fine
  <1>2. CASE \E m \in DOMAIN compiled : Changed(compiled[m], server')
    <2>1. PICK m \in DOMAIN compiled : Changed(compiled[m], server')
      BY <1>2
    <2>2. Feasible(compiled, server', situation.health, job.agent)
            <=> Feasible(compiled, server, situation.health, job.agent)
      BY <2>1, FeasibleStays
    <2> QED
      BY <2>2 DEF Fine
  <1> QED
    BY <1>1, <1>2

(* Where an apply ends that is not clean, there is little to say.          *)
LEMMA UncleanEnd ==
  ASSUME CleanInv, phase' = "idle", cleanRuns' = 0,
         job' = NoJob \/ (job' = job /\ compiled' = compiled),
         server' = server, agent' = agent, lastResult' = lastResult,
         DOMAIN disk' = StepIds, DOMAIN resources' = StepIds
  PROVE  CleanInv'
  <1>1. JobIsCompiled'
    BY DEF CleanInv, JobIsCompiled
  <1>2. AgentIsThere' /\ NginxIsThere'
    BY DEF CleanInv, AgentIsThere, NginxIsThere
  <1>3. /\ HopelessFails' /\ FinePasses' /\ AgentInOrder' /\ EndsBehindContainers'
        /\ ContainersOnDisk' /\ NothingFails' /\ LastResultIsRight'
    BY DEF HopelessFails, FinePasses, AgentInOrder, EndsBehindContainers,
           ContainersOnDisk, NothingFails, LastResultIsRight
  <1>4. ServerIsReady' /\ ContainersStay' /\ VerdictIsRight'
    BY DEF ServerIsReady, ContainersStay, HasReached, VerdictIsRight
  <1> QED
    BY <1>1, <1>2, <1>3, <1>4 DEF CleanInv

(* What an iteration of the run over SSH leaves of its result.             *)
LEMMA IterationMeans ==
  ASSUME NEW outcome \in {"success", "failed"}, ExecuteStep(outcome),
         results \in Seq(Outcomes), remoteFailed \in BOOLEAN
  PROVE  /\ Len(results') = Len(results) + 1 /\ status' = "running"
         /\ abortedAt = 0
         /\ remoteFailed => remoteFailed'
         /\ outcome = "failed" /\ plan[At].scope # "local" =>
              abortedAt' # 0 \/ remoteFailed'
         /\ outcome = "success" => abortedAt' = 0 /\ remoteFailed' = remoteFailed
  <1>1. /\ status = "running" /\ abortedAt = 0 /\ status' = status
        /\ results' = Append(results, outcome)
        /\ abortedAt' = IF outcome = "failed" /\ Fatal(At) THEN At ELSE abortedAt
        /\ remoteFailed' = (remoteFailed \/ (outcome = "failed" /\ ~Fatal(At)
                                               /\ plan[At].scope # "local"))
    BY DEF ExecuteStep, MayExecute, Looping
  <1>2. Len(results') = Len(results) + 1 /\ At # 0
    BY <1>1 DEF At, Outcomes
  <1> QED
    BY <1>1, <1>2

(* The run over SSH: what is hopeless fails, and nothing else.             *)
LEMMA ClientExecutesKeepsClean ==
  ASSUME ApplyInv, CleanInv, ClientExecutes
  PROVE  CleanInv'
  <1> DEFINE p == compiled
             n == Len(results)
             step == p[n + 1]
  <1>1. /\ phase = "local" /\ phase' = "local" /\ Looping
        /\ compiled' = compiled /\ situation' = situation /\ job' = job
        /\ agent' = agent /\ lastResult' = lastResult
        /\ disk' = disk /\ resources' = resources
    BY DEF ClientExecutes, jobVars, agentVars
  <1>2. /\ WellPlanned(p) /\ server \in Servers /\ plan = ForClient(p)
        /\ results \in Seq(Outcomes) /\ remoteFailed \in BOOLEAN
        /\ abortedAt = 0 /\ ~remoteFailed => Settled(p, n, server, situation.dies)
        /\ situation.health \in {"none", "healthy", "unhealthy"}
    BY <1>1, ServerType, HealthIsKnown DEF ApplyInv, PlanIsGood, PassSettles
  <1>3. /\ n + 1 \in DOMAIN p /\ n \in Nat /\ n <= Len(p) /\ At = n + 1
        /\ StepNamed(plan[At].id) = step /\ plan[At].scope = step.scope
    <2>1. /\ At \in DOMAIN p /\ At = n + 1 /\ n \in Nat /\ At <= Len(p)
          /\ StepNamed(plan[At].id) = p[At] /\ plan[At].scope = p[At].scope
      BY <1>1, <1>2, ClientPosition
    <2>2. Len(p) \in Nat
      BY <1>2, PlansAreOfSteps
    <2> QED
      BY <2>1, <2>2
  <1>4. PICK outcome \in {"success", "failed"} :
          ExecuteStep(outcome) /\ Result(ClientWorks(step), step, outcome)
    BY <1>3 DEF ClientExecutes
  <1>5. /\ Len(results') = n + 1 /\ status' = "running" /\ abortedAt = 0
        /\ remoteFailed => remoteFailed'
        /\ outcome = "failed" /\ step.scope # "local" => abortedAt' # 0 \/ remoteFailed'
        /\ outcome = "success" => abortedAt' = 0 /\ remoteFailed' = remoteFailed
    BY <1>2, <1>3, <1>4, IterationMeans
  <1>6. /\ server' = server \/ (ClientWorks(step) /\ server' = Effect(step))
        /\ ~ClientWorks(step) => outcome = "failed"
        /\ cleanRuns' \in {0, cleanRuns}
        /\ spoiled => spoiled'
        /\ ~spoiled' \/ cleanRuns' # 0 =>
             /\ spoiled' = spoiled /\ cleanRuns' = cleanRuns
             /\ ClientWorks(step) => outcome = "success" /\ server' = Effect(step)
             /\ ~ClientWorks(step) => server' = server
    BY <1>4, ResultMeans
  <1>7. IsPlanned(step) /\ Changed(step, Effect(step))
    BY <1>2, <1>3, Planned, EveryStepChanges
  <1>8. server' = server \/ Changed(step, server')
    BY <1>6, <1>7
  <1>9. Fine' <=> Fine
    BY <1>1, <1>2, <1>3, <1>8, FineStays
  <1>10. JobIsCompiled'
    BY <1>1, <1>6 DEF CleanInv, JobIsCompiled
  <1>11. AgentIsThere'
    BY <1>1 DEF CleanInv, AgentIsThere
  <1>12. NginxIsThere'
    <2>1. CASE server' = server
      BY <2>1 DEF CleanInv, NginxIsThere
    <2>2. CASE ClientWorks(step) /\ server' = Effect(step)
      <3>1. step.op \in Operations => CommandWorks(step)
        BY <1>7, <2>2, ClientWorksMeans
      <3> QED
        BY <1>2, <1>3, <1>7, <2>2, <3>1, NginxStays DEF CleanInv, NginxIsThere
    <2> QED
      BY <1>6, <2>1, <2>2
  <1>13. HopelessFails'
    <2> SUFFICES ASSUME NEW i \in 1..(n + 1),
                        HopelessHere(p, i, server', situation.health)
                 PROVE  abortedAt' # 0 \/ remoteFailed'
      BY <1>1, <1>5 DEF HopelessFails
    <2>1. i \in DOMAIN p
      BY <1>2, <1>3, Planned
    <2>2. HopelessHere(p, i, server, situation.health)
      BY <1>2, <1>3, <1>8, <2>1, HopelessStays
    <2>3. CASE i \in 1..n
      BY <1>1, <1>5, <2>2, <2>3 DEF CleanInv, HopelessFails
    <2>4. CASE i = n + 1
      BY <1>2, <1>3, <1>5, <1>6, <2>2, <2>4, HopelessHereFails
    <2> QED
      BY <1>3, <2>3, <2>4
  <1>14. FinePasses'
    <2> SUFFICES ASSUME ~spoiled', Fine
                 PROVE  /\ abortedAt' = 0 /\ ~remoteFailed'
                        /\ ContainersCleared(p, n + 1, server')
      <3>1. status' \notin Verdicts
        BY <1>5 DEF Verdicts
      <3> QED
        BY <1>1, <1>5, <1>9, <3>1 DEF FinePasses
    <2>1. ~remoteFailed /\ ContainersCleared(p, n, server)
      BY <1>1, <1>6 DEF CleanInv, FinePasses
    <2>2. Settled(p, n, server, situation.dies)
      BY <1>2, <1>5, <2>1
    <2>3. Ready(p, n, server)
      BY <1>2, <1>3, <2>2, SettledIsReady DEF Fine, Feasible
    <2>4. step.op = "run_container" => server.loaded[step.item] = 0
      <3>1. ContainersCleared(p, (n + 1) - 1, server)
        BY <1>3, <2>1
      <3> QED
        BY <1>2, <1>3, <3>1, NameIsFree
    <2>5. step.op = "container_running_check" => server.loaded[step.item] # 0
      <3> SUFFICES ASSUME step.op = "container_running_check"
                   PROVE  server.loaded[step.item] # 0
        OBVIOUS
      <3>1. PICK j \in 1..((n + 1) - 1) : p[j].op = "run_container" /\ p[j].item = step.item
        BY <1>2, <1>3 DEF WellPlanned, Supplied, BehindOwn
      <3>2. j \in 1..n /\ n \in 0..Len(p)
        BY <1>2, <1>3, PlansAreOfSteps
      <3>3. ContainersRun(p, n, server, situation.dies)
        BY <2>2 DEF Settled
      <3> QED
        BY <1>2, <3>1, <3>2, <3>3, RunContainersAreThere
    <2>6. ClientWorks(step)
      <3>1. Ready(p, (n + 1) - 1, server)
        BY <1>3, <2>3
      <3> QED
        BY <1>2, <1>3, <2>4, <2>5, <3>1, ClientStepsWork DEF Fine
    <2>7. outcome = "success" /\ server' = Effect(step)
      BY <1>6, <2>6
    <2> QED
      BY <1>2, <1>3, <1>5, <2>1, <2>7, ContainersAreCleared
  <1>15. ContainersOnDisk' /\ LastResultIsRight'
    <2>1. ~spoiled' => ~spoiled /\ cleanRuns' = cleanRuns
      BY <1>6
    <2>2. ContainersOnDisk'
      BY <1>1, <1>9, <2>1 DEF CleanInv, ContainersOnDisk, Reaches
    <2>3. LastResultIsRight'
      BY <1>1, <1>9, <2>1 DEF CleanInv, LastResultIsRight, HasReached
    <2> QED
      BY <2>2, <2>3
  <1>16. /\ AgentInOrder' /\ EndsBehindContainers' /\ ServerIsReady' /\ ContainersStay'
         /\ NothingFails' /\ VerdictIsRight'
    BY <1>1 DEF AgentInOrder, EndsBehindContainers, ServerIsReady, ContainersStay,
                NothingFails, VerdictIsRight
  <1> QED
    BY <1>10, <1>11, <1>12, <1>13, <1>14, <1>15, <1>16 DEF CleanInv

(* The run over SSH ends well, unless something failed.                    *)
LEMMA ClientFinishesKeepsClean ==
  ASSUME ApplyInv, CleanInv, ClientFinishes
  PROVE  CleanInv'
  <1>1. /\ phase = "local" /\ phase' = "local" /\ status' = FinalStatus
        /\ compiled' = compiled /\ situation' = situation /\ job' = job
        /\ agent' = agent /\ lastResult' = lastResult /\ server' = server
        /\ disk' = disk /\ resources' = resources
        /\ spoiled' = spoiled /\ cleanRuns' = cleanRuns
        /\ results' = results /\ abortedAt' = abortedAt /\ remoteFailed' = remoteFailed
    BY DEF ClientFinishes, Finish, jobVars, agentVars, history
  <1>2. WellPlanned(compiled)
    BY <1>1 DEF ApplyInv, PlanIsGood
  <1>3. Fine' <=> Fine
    BY <1>1, <1>2, FineStays
  <1>4. JobIsCompiled' /\ AgentIsThere' /\ NginxIsThere' /\ HopelessFails'
    BY <1>1 DEF CleanInv, JobIsCompiled, AgentIsThere, NginxIsThere, HopelessFails
  <1>5. FinePasses'
    <2>1. abortedAt = 0 /\ ~remoteFailed => FinalStatus \in Successes
      BY DEF FinalStatus, Successes
    <2> QED
      BY <1>1, <1>3, <2>1 DEF CleanInv, FinePasses
  <1>6. ContainersOnDisk'
    BY <1>1, <1>3 DEF CleanInv, ContainersOnDisk, Reaches
  <1>7. LastResultIsRight'
    BY <1>1, <1>3 DEF CleanInv, LastResultIsRight, HasReached
  <1>8. /\ AgentInOrder' /\ EndsBehindContainers' /\ ServerIsReady' /\ ContainersStay'
        /\ NothingFails' /\ VerdictIsRight'
    BY <1>1 DEF AgentInOrder, EndsBehindContainers, ServerIsReady, ContainersStay,
                NothingFails, VerdictIsRight
  <1> QED
    BY <1>4, <1>5, <1>6, <1>7, <1>8 DEF CleanInv

(* The agent's plan is the compiled one, field by field.                   *)
LEMMA AgentSteps ==
  ASSUME NEW p, WellPlanned(p), NEW i \in DOMAIN p
  PROVE  /\ ForAgent(p)[i].id = p[i].id /\ ForAgent(p)[i].scope = p[i].scope
         /\ ForAgent(p)[i].gate = p[i].gate /\ ForAgent(p)[i].always = p[i].always
         /\ ForAgent(p)[i].content = p[i].content
  BY DEF ForAgent

(* It takes the first step that is left to it.                             *)
LEMMA AgentIsAt ==
  ASSUME WellPlanned(compiled), agentPlan = ForAgent(compiled), Agent!Looping,
         NEW m, m = Agent!At
  PROVE  /\ m \in DOMAIN compiled /\ m \in Agent!OnServer(compiled)
         /\ m \notin DOMAIN agentResults
         /\ \A j \in Agent!OnServer(compiled) : j < m => j \in DOMAIN agentResults
         /\ StepNamed(agentPlan[m].id) = compiled[m]
         /\ Agent!IsAlways(agentPlan[m]) <=> Agent!IsAlways(compiled[m])
         /\ agentPlan[m].gate = compiled[m].gate
         /\ agentPlan[m].id = compiled[m].id /\ agentPlan[m].content = compiled[m].content
  <1>1. Agent!OnServer(agentPlan) = Agent!OnServer(compiled)
    BY PlansAreOfSteps, AgentSteps DEF Agent!OnServer
  <1>2. /\ Agent!Todo = Agent!OnServer(compiled) \ DOMAIN agentResults
        /\ Agent!Todo # {} /\ Agent!Todo \subseteq DOMAIN compiled /\ Agent!Todo \subseteq Nat
    BY <1>1, PlansAreOfSteps DEF Agent!Looping, Agent!Todo, Agent!OnServer
  <1>3. \E i \in Agent!Todo : \A j \in Agent!Todo : i <= j
    BY <1>2, LeastNumber
  <1>4. m \in Agent!Todo /\ \A j \in Agent!Todo : m <= j
    BY <1>3 DEF Agent!At
  <1>5. \A j \in Agent!OnServer(compiled) : j < m => j \in DOMAIN agentResults
    <2> SUFFICES ASSUME NEW j \in Agent!OnServer(compiled), j < m, j \notin DOMAIN agentResults
                 PROVE  FALSE
      OBVIOUS
    <2>1. j \in Agent!Todo
      BY <1>2
    <2> QED
      BY <1>2, <1>4, <2>1
  <1>6. /\ agentPlan[m].id = compiled[m].id /\ agentPlan[m].scope = compiled[m].scope
        /\ agentPlan[m].gate = compiled[m].gate /\ agentPlan[m].always = compiled[m].always
        /\ agentPlan[m].content = compiled[m].content
    BY <1>2, <1>4, AgentSteps
  <1>7. StepNamed(agentPlan[m].id) = compiled[m]
    BY <1>2, <1>4, <1>6, FoundById
  <1> QED
    BY <1>2, <1>4, <1>5, <1>6, <1>7 DEF Agent!IsAlways

(* What its memory and its results are after a step.                       *)
LEMMA AgentRemembers ==
  ASSUME WellPlanned(compiled), agentPlan = ForAgent(compiled), DOMAIN resources = StepIds,
         NEW outcome, Agent!Execute(outcome), NEW m, m = Agent!At
  PROVE  /\ agentAborted = 0
         /\ Agent!IsAlways(compiled[m]) \/ Agent!ResourceChanged(resources, compiled[m])
         /\ DOMAIN agentResults' = DOMAIN agentResults \cup {m}
         /\ agentResults'[m] = outcome
         /\ \A i \in DOMAIN agentResults \ {m} : agentResults'[i] = agentResults[i]
         /\ DOMAIN resources' = StepIds /\ disk' = disk
         /\ ~Agent!ResourceChanged(resources', compiled[m])
         /\ \A i \in DOMAIN compiled \ {m} :
              Agent!ResourceChanged(resources', compiled[i])
                <=> Agent!ResourceChanged(resources, compiled[i])
         /\ agentAborted' \in {0, m}
         /\ agentAborted' # 0 => outcome = "failed" /\ (m = 1 \/ compiled[m].gate)
  <1>1. Agent!Looping /\ agentAborted = 0
    BY DEF Agent!Execute, Agent!Due, Agent!Looping
  <1>2. /\ m \in DOMAIN compiled
        /\ Agent!IsAlways(agentPlan[m]) <=> Agent!IsAlways(compiled[m])
        /\ agentPlan[m].gate = compiled[m].gate
        /\ agentPlan[m].id = compiled[m].id /\ agentPlan[m].content = compiled[m].content
    BY <1>1, AgentIsAt
  <1>3. Agent!IsAlways(compiled[m]) \/ Agent!ResourceChanged(resources, compiled[m])
    BY <1>2 DEF Agent!Execute, Agent!Due, Agent!ResourceChanged, Agent!Known
  <1>4. agentResults' = [i \in DOMAIN agentResults \cup {m} |->
                           IF i = m THEN outcome ELSE agentResults[i]]
    BY DEF Agent!Execute, Agent!Record
  <1>5. PICK r : /\ r.content = compiled[m].content /\ r # Agent!NoResource
                 /\ resources' = [resources EXCEPT ![compiled[m].id] = r]
    <2> DEFINE r == [content |-> compiled[m].content,
                     status  |-> IF outcome = "success" THEN "applied" ELSE "failed"]
    <2>1. resources' = [resources EXCEPT ![compiled[m].id] = r]
      BY <1>2 DEF Agent!Execute, Agent!UpdateResource
    <2>2. r.status # Agent!NoResource.status
      BY DEF Agent!NoResource
    <2> QED
      BY <2>1, <2>2
  <1>6. compiled[m].id \in StepIds
    BY <1>2, Planned DEF IsPlanned
  <1>7. ~Agent!ResourceChanged(resources', compiled[m])
    BY <1>5, <1>6 DEF Agent!ResourceChanged, Agent!Known
  <1>8. ASSUME NEW i \in DOMAIN compiled \ {m}
        PROVE  Agent!ResourceChanged(resources', compiled[i])
                 <=> Agent!ResourceChanged(resources, compiled[i])
    <2>1. compiled[i].id # compiled[m].id
      BY <1>2 DEF WellPlanned
    <2>2. resources'[compiled[i].id] = resources[compiled[i].id]
      BY <1>5, <2>1, Planned DEF IsPlanned
    <2> QED
      BY <2>2 DEF Agent!ResourceChanged, Agent!Known
  <1>9. /\ agentAborted' \in {0, m}
        /\ agentAborted' # 0 => outcome = "failed" /\ (m = 1 \/ compiled[m].gate)
    BY <1>2 DEF Agent!Execute
  <1>10. DOMAIN resources' = StepIds /\ disk' = disk
    BY <1>5 DEF Agent!Execute
  <1> QED
    BY <1>1, <1>3, <1>4, <1>7, <1>8, <1>9, <1>10

(* A step about a container that is to run, is skipped once it is known.   *)
LEMMA ContainerStepsAreSkipped ==
  ASSUME NEW p, WellPlanned(p), NEW i \in DOMAIN p, Role(p[i].op) = "container"
  PROVE  i \in Agent!OnServer(p) /\ ~Agent!IsAlways(p[i])
  <1>1. p[i].scope = "remote" /\ ~p[i].always
    BY Planned DEF IsPlanned
  <1>2. ~p[i].gate
    BY Planned, Roles, Families DEF IsPlanned
  <1> QED
    BY <1>1, <1>2 DEF Agent!OnServer, Agent!IsAlways

(* The containers that run keep their names, whatever else is done.        *)
LEMMA ContainersKeepNames ==
  ASSUME NEW p, WellPlanned(p), NEW m \in DOMAIN p, NEW e, Changed(p[m], e),
         ContainersThere(p, server),
         \A k \in DOMAIN p : p[k].op = "run_container" /\ p[m].item = p[k].item =>
           Role(p[m].op) # "container"
  PROVE  ContainersThere(p, e)
  <1> SUFFICES ASSUME NEW i \in DOMAIN p, p[i].op = "run_container"
               PROVE  e.loaded[p[i].item] # 0
    BY DEF ContainersThere
  <1>1. server.loaded[p[i].item] # 0 /\ LoadedChange(p[m], e)
    BY DEF ContainersThere, Changed
  <1>2. Role(p[i].op) = "container"
    BY Roles
  <1> QED
    BY <1>1, <1>2, LoadedOn

(* The agent executes a step.                                              *)
LEMMA AgentExecutesKeepsClean ==
  ASSUME ApplyInv, CleanInv, AgentExecutes
  PROVE  CleanInv'
  <1> DEFINE p == compiled
             health == situation.health
  <1>1. PICK m : m = Agent!At
    OBVIOUS
  <1> DEFINE step == p[m]
  <1>2. /\ phase = "agent" /\ phase' = "agent" /\ Agent!Looping
        /\ compiled' = compiled /\ situation' = situation /\ job' = job
        /\ agent' = agent /\ lastResult' = lastResult
    BY DEF AgentExecutes, jobVars
  <1>3. /\ WellPlanned(p) /\ server \in Servers /\ agentPlan = ForAgent(p)
        /\ health \in {"none", "healthy", "unhealthy"}
        /\ DOMAIN resources = StepIds /\ job.agent
    BY <1>2, ServerType, HealthIsKnown
       DEF ApplyInv, PlanIsGood, AgentHasPlan, CleanInv, AgentIsThere
  <1>4. /\ m \in DOMAIN p /\ m \in Agent!OnServer(p) /\ m \notin DOMAIN agentResults
        /\ \A j \in Agent!OnServer(p) : j < m => j \in DOMAIN agentResults
        /\ StepNamed(agentPlan[m].id) = step
    BY <1>1, <1>2, <1>3, AgentIsAt
  <1>5. PICK outcome \in {"success", "failed"} :
          Agent!Execute(outcome) /\ Result(AgentWorks(step), step, outcome)
    BY <1>1, <1>4 DEF AgentExecutes
  <1>6. /\ agentAborted = 0
        /\ Agent!IsAlways(step) \/ Agent!ResourceChanged(resources, step)
        /\ DOMAIN agentResults' = DOMAIN agentResults \cup {m}
        /\ agentResults'[m] = outcome
        /\ \A i \in DOMAIN agentResults \ {m} : agentResults'[i] = agentResults[i]
        /\ DOMAIN resources' = StepIds /\ disk' = disk
        /\ ~Agent!ResourceChanged(resources', step)
        /\ \A i \in DOMAIN p \ {m} :
             Agent!ResourceChanged(resources', p[i]) <=> Agent!ResourceChanged(resources, p[i])
        /\ agentAborted' \in {0, m}
        /\ agentAborted' # 0 => outcome = "failed" /\ (m = 1 \/ step.gate)
    BY <1>1, <1>3, <1>5, AgentRemembers
  <1>7. /\ server' = server \/ (AgentWorks(step) /\ server' = Effect(step))
        /\ ~AgentWorks(step) => outcome = "failed"
        /\ cleanRuns' \in {0, cleanRuns}
        /\ spoiled => spoiled'
        /\ ~spoiled' \/ cleanRuns' # 0 =>
             /\ spoiled' = spoiled /\ cleanRuns' = cleanRuns
             /\ AgentWorks(step) => outcome = "success" /\ server' = Effect(step)
             /\ ~AgentWorks(step) => server' = server
    BY <1>5, ResultMeans
  <1>8. IsPlanned(step) /\ Changed(step, Effect(step))
    BY <1>3, <1>4, Planned, EveryStepChanges
  <1>9. server' = server \/ Changed(step, server')
    BY <1>7, <1>8
  <1>10. Fine' <=> Fine
    BY <1>2, <1>3, <1>4, <1>9, FineStays
  <1>11. Reaches' => cleanRuns' # 0 \/ ~GateBeforeContainer(p)
    BY <1>2 DEF Reaches
  <1>12. HasReached' => HasReached /\ cleanRuns' # 0
    BY <1>2, <1>7 DEF HasReached
  <1>13. cleanRuns' # 0 /\ Fine => Ready(p, Len(p), server)
    BY <1>2, <1>7 DEF CleanInv, ServerIsReady
  <1>14. Fine => /\ \A k \in DOMAIN p : ~IsEmptyUpload(p[k])
                 /\ Feasible(p, server, health, TRUE)
    BY <1>3 DEF Fine, Feasible
  <1>15. ASSUME Fine, cleanRuns' # 0,
                step.op # "run_container",
                step.op = "container_running_check" => server.loaded[step.item] # 0
         PROVE  AgentWorks(step)
    <2>1. Ready(p, m - 1, server)
      BY <1>3, <1>4, <1>13, <1>15, ReadyBefore
    <2> QED
      BY <1>3, <1>4, <1>14, <1>15, <2>1, AgentStepsWork DEF CleanInv
  <1>16. JobIsCompiled' /\ AgentIsThere'
    BY <1>2, <1>3, <1>6, <1>7 DEF CleanInv, JobIsCompiled, AgentIsThere
  <1>17. NginxIsThere'
    <2>1. CASE server' = server
      BY <2>1 DEF CleanInv, NginxIsThere
    <2>2. CASE AgentWorks(step) /\ server' = Effect(step)
      <3>1. step.op \in Operations => CommandWorks(step)
        BY <1>8, <2>2, AgentWorksMeans
      <3> QED
        BY <1>3, <1>4, <1>8, <2>2, <3>1, NginxStays DEF CleanInv, NginxIsThere
    <2> QED
      BY <1>7, <2>1, <2>2
  <1>18. AgentInOrder'
    <2>1. /\ DOMAIN agentResults \subseteq Agent!OnServer(p)
          /\ \A i \in DOMAIN agentResults, j \in Agent!OnServer(p) :
               j < i => j \in DOMAIN agentResults
          /\ \A i \in DOMAIN agentResults :
               /\ ~Agent!IsAlways(p[i]) => ~Agent!ResourceChanged(resources, p[i])
               /\ HopelessForAgent(p[i], health) => agentResults[i] = "failed"
      BY <1>2 DEF CleanInv, AgentInOrder
    <2>2. /\ DOMAIN agentResults' \subseteq Agent!OnServer(p)
          /\ \A i \in DOMAIN agentResults', j \in Agent!OnServer(p) :
               j < i => j \in DOMAIN agentResults'
          /\ agentAborted' \in {0} \cup DOMAIN agentResults'
      BY <1>4, <1>6, <2>1
    <2>3. ASSUME NEW i \in DOMAIN agentResults'
          PROVE  /\ ~Agent!IsAlways(p[i]) => ~Agent!ResourceChanged(resources', p[i])
                 /\ HopelessForAgent(p[i], health) => agentResults'[i] = "failed"
      <3>1. CASE i = m
        BY <1>6, <1>7, <1>8, <3>1, HopelessForAgentFails
      <3>2. CASE i # m
        <4>1. i \in DOMAIN agentResults /\ i \in DOMAIN p
          BY <1>6, <2>1, <3>2 DEF Agent!OnServer
        <4> QED
          BY <1>6, <2>1, <3>2, <4>1
      <3> QED
        BY <3>1, <3>2
    <2> QED
      BY <1>2, <2>2, <2>3 DEF AgentInOrder
  <1>19. EndsBehindContainers'
    <2> SUFFICES ASSUME ~spoiled', Fine, cleanRuns' # 0 \/ ~GateBeforeContainer(p),
                        agentAborted' # 0,
                        NEW k \in DOMAIN p, p[k].op = "run_container"
                 PROVE  k < agentAborted'
      BY <1>2, <1>10, <1>11 DEF EndsBehindContainers
    <2>1. agentAborted' = m /\ outcome = "failed" /\ (m = 1 \/ step.gate) /\ ~AgentWorks(step)
      BY <1>6, <1>7
    <2>2. m # 1
      <3> SUFFICES ASSUME m = 1 PROVE FALSE
        OBVIOUS
      <3>1. \A op : ~BehindOwn(p, m, op)
        BY DEF BehindOwn
      <3>2. step.op \notin {"run_container", "container_running_check"}
        BY <1>3, <1>4, <3>1 DEF WellPlanned, Supplied
      <3>3. Ready(p, m - 1, server)
        BY DEF Ready, UnitsKnown
      <3> QED
        BY <1>3, <1>4, <1>14, <2>1, <3>2, <3>3, AgentStepsWork DEF CleanInv
    <2>3. step.gate /\ step.op \notin {"run_container", "container_running_check"}
      <3>1. step.gate /\ Family(step.op) # "container"
        BY <1>8, <2>1, <2>2 DEF IsPlanned
      <3>2. Family("container_running_check") = "container"
        BY DEF Family, ModeSteps, CreateSteps, EnsureSteps, ComposeSteps
      <3> QED
        BY <3>1, <3>2, Families
    <2>4. cleanRuns' = 0
      BY <1>15, <2>1, <2>3
    <2>5. ~(m < k) /\ k # m
      BY <1>4, <2>3, <2>4 DEF GateBeforeContainer
    <2>6. k \in Nat /\ m \in Nat
      BY <1>3, <1>4, Planned
    <2> QED
      BY <2>1, <2>5, <2>6
  <1>20. ServerIsReady'
    BY <1>2, <1>3, <1>4, <1>9, <1>10, <1>13, <1>14, ReadyStays DEF ServerIsReady
  <1>21. HasReached' /\ Fine =>
           /\ ContainersThere(p, server) /\ ContainersKnown(p, disk)
           /\ ContainersKnown(p, resources)
           /\ \A k \in DOMAIN p : p[k].op = "run_container" /\ step.item = p[k].item =>
                Role(step.op) # "container"
    <2> SUFFICES ASSUME HasReached', Fine
                 PROVE  /\ ContainersThere(p, server) /\ ContainersKnown(p, disk)
                        /\ ContainersKnown(p, resources)
                        /\ \A k \in DOMAIN p :
                             p[k].op = "run_container" /\ step.item = p[k].item =>
                               Role(step.op) # "container"
      OBVIOUS
    <2>1. /\ ContainersThere(p, server) /\ ContainersKnown(p, disk)
          /\ ContainersKnown(p, resources)
      BY <1>2, <1>3, <1>12 DEF CleanInv, ContainersStay
    <2> QED
      BY <1>3, <1>4, <1>6, <2>1, ContainerStepsAreSkipped DEF ContainersKnown
  <1>22. ContainersStay'
    <2> SUFFICES ASSUME HasReached', Fine
                 PROVE  /\ ContainersThere(p, server') /\ ContainersKnown(p, disk)
                        /\ ContainersKnown(p, resources')
      BY <1>2, <1>6, <1>10 DEF ContainersStay
    <2>1. ContainersThere(p, server')
      BY <1>3, <1>4, <1>9, <1>21, ContainersKeepNames
    <2>2. ContainersKnown(p, resources')
      BY <1>6, <1>21 DEF ContainersKnown
    <2> QED
      BY <1>21, <2>1, <2>2
  <1>23. NothingFails'
    <2> SUFFICES ASSUME HasReached', Fine
                 PROVE  agentAborted' = 0 /\ \A i \in DOMAIN agentResults' :
                                               agentResults'[i] # "failed"
      BY <1>2, <1>10 DEF NothingFails
    <2>1. step.op # "run_container"
      BY <1>4, <1>21, Roles
    <2>2. step.op = "container_running_check" => server.loaded[step.item] # 0
      <3> SUFFICES ASSUME step.op = "container_running_check"
                   PROVE  server.loaded[step.item] # 0
        OBVIOUS
      <3>1. PICK j \in 1..(m - 1) : p[j].op = "run_container" /\ p[j].item = step.item
        BY <1>3, <1>4 DEF WellPlanned, Supplied, BehindOwn
      <3>2. j \in DOMAIN p
        BY <1>3, <1>4, Planned
      <3> QED
        BY <1>21, <3>1, <3>2 DEF ContainersThere
    <2>3. AgentWorks(step)
      BY <1>12, <1>15, <2>1, <2>2
    <2>4. outcome = "success"
      BY <1>7, <1>12, <2>3
    <2>5. \A i \in DOMAIN agentResults : agentResults[i] # "failed"
      BY <1>2, <1>12 DEF CleanInv, NothingFails
    <2> QED
      BY <1>6, <2>4, <2>5
  <1>24. /\ HopelessFails' /\ FinePasses' /\ ContainersOnDisk' /\ LastResultIsRight'
         /\ VerdictIsRight'
    BY <1>2 DEF HopelessFails, FinePasses, ContainersOnDisk, LastResultIsRight, VerdictIsRight
  <1> QED
    BY <1>16, <1>17, <1>18, <1>19, <1>20, <1>22, <1>23, <1>24 DEF CleanInv

(* The agent takes a step for unchanged.                                   *)
LEMMA AgentSkipsKeepsClean ==
  ASSUME ApplyInv, CleanInv, AgentSkips
  PROVE  CleanInv'
  <1> DEFINE p == compiled
  <1>1. PICK m : m = Agent!At
    OBVIOUS
  <1>2. /\ phase = "agent" /\ phase' = "agent" /\ Agent!Looping
        /\ compiled' = compiled /\ situation' = situation /\ job' = job
        /\ agent' = agent /\ lastResult' = lastResult /\ server' = server
        /\ spoiled' = spoiled /\ cleanRuns' = cleanRuns
        /\ resources' = resources /\ disk' = disk
        /\ agentAborted = 0 /\ agentAborted' = agentAborted
    BY DEF AgentSkips, jobVars, history, Agent!SkipUnchanged, Agent!KeepsHost, Agent!Looping
  <1>3. /\ WellPlanned(p) /\ agentPlan = ForAgent(p)
    BY <1>2 DEF ApplyInv, PlanIsGood, AgentHasPlan
  <1>4. /\ m \in DOMAIN p /\ m \in Agent!OnServer(p) /\ m \notin DOMAIN agentResults
        /\ \A j \in Agent!OnServer(p) : j < m => j \in DOMAIN agentResults
        /\ Agent!IsAlways(agentPlan[m]) <=> Agent!IsAlways(p[m])
        /\ agentPlan[m].id = p[m].id /\ agentPlan[m].content = p[m].content
    BY <1>1, <1>2, <1>3, AgentIsAt
  <1>5. /\ ~Agent!IsAlways(p[m]) /\ ~Agent!ResourceChanged(resources, p[m])
        /\ agentResults' = [i \in DOMAIN agentResults \cup {m} |->
                              IF i = m THEN "unchanged" ELSE agentResults[i]]
    BY <1>1, <1>4
       DEF AgentSkips, Agent!SkipUnchanged, Agent!Record, Agent!ResourceChanged, Agent!Known
  <1>6. Fine' <=> Fine
    BY <1>2, <1>3, FineStays
  <1>7. JobIsCompiled' /\ AgentIsThere' /\ NginxIsThere'
    BY <1>2 DEF CleanInv, JobIsCompiled, AgentIsThere, NginxIsThere
  <1>8. AgentInOrder'
    <2>1. /\ DOMAIN agentResults \subseteq Agent!OnServer(p)
          /\ \A i \in DOMAIN agentResults, j \in Agent!OnServer(p) :
               j < i => j \in DOMAIN agentResults
          /\ \A i \in DOMAIN agentResults :
               /\ ~Agent!IsAlways(p[i]) => ~Agent!ResourceChanged(resources, p[i])
               /\ HopelessForAgent(p[i], situation.health) => agentResults[i] = "failed"
      BY <1>2 DEF CleanInv, AgentInOrder
    <2>2. /\ DOMAIN agentResults' \subseteq Agent!OnServer(p)
          /\ \A i \in DOMAIN agentResults', j \in Agent!OnServer(p) :
               j < i => j \in DOMAIN agentResults'
      BY <1>4, <1>5, <2>1
    <2>3. ~HopelessForAgent(p[m], situation.health)
      BY <1>3, <1>4, <1>5, Planned, HopelessForAgentFails
    <2>4. ASSUME NEW i \in DOMAIN agentResults'
          PROVE  /\ ~Agent!IsAlways(p[i]) => ~Agent!ResourceChanged(resources, p[i])
                 /\ HopelessForAgent(p[i], situation.health) => agentResults'[i] = "failed"
      BY <1>5, <2>1, <2>3
    <2> QED
      BY <1>2, <2>2, <2>4 DEF AgentInOrder
  <1>9. EndsBehindContainers' /\ ServerIsReady'
    BY <1>2, <1>6 DEF CleanInv, EndsBehindContainers, ServerIsReady
  <1>10. ContainersStay'
    BY <1>2, <1>6 DEF CleanInv, ContainersStay, HasReached
  <1>11. NothingFails'
    <2>1. HasReached' => HasReached
      BY <1>2 DEF HasReached
    <2> QED
      BY <1>2, <1>5, <1>6, <2>1 DEF CleanInv, NothingFails
  <1>12. /\ HopelessFails' /\ FinePasses' /\ ContainersOnDisk' /\ LastResultIsRight'
         /\ VerdictIsRight'
    BY <1>2 DEF HopelessFails, FinePasses, ContainersOnDisk, LastResultIsRight, VerdictIsRight
  <1> QED
    BY <1>7, <1>8, <1>9, <1>10, <1>11, <1>12 DEF CleanInv

(* The agent ends: its memory is on disk, and its result is right.         *)
LEMMA AgentFinishesKeepsClean ==
  ASSUME ApplyInv, CleanInv, AgentFinishes
  PROVE  CleanInv'
  <1> DEFINE p == compiled
  <1>1. /\ phase = "agent" /\ phase' = "download"
        /\ compiled' = compiled /\ situation' = situation /\ job' = job
        /\ agent' = agent /\ server' = server
        /\ spoiled' = spoiled /\ cleanRuns' = cleanRuns
        /\ resources' = resources /\ disk' = resources
        /\ lastResult' = IF agentAborted # 0 \/ Agent!FailedAt # {} THEN "failed" ELSE "success"
    BY DEF AgentFinishes, Agent!Finish, jobVars, history
  <1>2. /\ WellPlanned(p) /\ agentPlan = ForAgent(p) /\ agentStatus = "running"
        /\ agent # "absent" /\ job.agent
    BY <1>1 DEF ApplyInv, PlanIsGood, AgentHasPlan, SpecApplyTypeOK, CleanInv, AgentIsThere
  <1>3. agentAborted = 0 => Agent!OnServer(p) \subseteq DOMAIN agentResults
    <2>1. Agent!OnServer(agentPlan) = Agent!OnServer(p)
      BY <1>2, PlansAreOfSteps, AgentSteps DEF Agent!OnServer
    <2> QED
      BY <1>2, <2>1 DEF AgentFinishes, Agent!Finish, Agent!Looping, Agent!Todo
  <1>4. /\ DOMAIN agentResults \subseteq Agent!OnServer(p)
        /\ \A i \in DOMAIN agentResults, j \in Agent!OnServer(p) :
             j < i => j \in DOMAIN agentResults
        /\ agentAborted \in {0} \cup DOMAIN agentResults
        /\ \A i \in DOMAIN agentResults :
             /\ ~Agent!IsAlways(p[i]) => ~Agent!ResourceChanged(resources, p[i])
             /\ HopelessForAgent(p[i], situation.health) => agentResults[i] = "failed"
    BY <1>1 DEF CleanInv, AgentInOrder
  <1>5. Fine' <=> Fine
    BY <1>1, <1>2, FineStays
  <1>6. JobIsCompiled' /\ AgentIsThere' /\ NginxIsThere'
    BY <1>1, <1>2 DEF CleanInv, JobIsCompiled, AgentIsThere, NginxIsThere
  <1>7. ContainersOnDisk'
    <2> SUFFICES ASSUME ~spoiled, Fine, Reaches,
                        NEW i \in DOMAIN p, NEW k \in DOMAIN p, p[k].op = "run_container",
                        Role(p[i].op) = "container", p[i].item = p[k].item
                 PROVE  ~Agent!ResourceChanged(resources, p[i])
      BY <1>1, <1>5 DEF ContainersOnDisk, ContainersKnown, Reaches
    <2>1. i \in Agent!OnServer(p) /\ ~Agent!IsAlways(p[i])
      BY <1>2, ContainerStepsAreSkipped
    <2>2. CASE agentAborted = 0
      BY <1>3, <1>4, <2>1, <2>2
    <2>3. CASE agentAborted # 0
      <3>1. k < agentAborted /\ agentAborted \in DOMAIN agentResults
        BY <1>1, <1>4, <2>3 DEF CleanInv, EndsBehindContainers
      <3>2. i <= k
        BY <1>2, SameItem
      <3>3. i \in Nat /\ k \in Nat /\ agentAborted \in Nat
        BY <1>2, <1>4, <3>1, Planned DEF Agent!OnServer
      <3>4. i < agentAborted
        BY <3>1, <3>2, <3>3
      <3> QED
        BY <1>4, <2>1, <3>1, <3>4
    <2> QED
      BY <2>2, <2>3
  <1>8. ServerIsReady'
    BY <1>1, <1>5 DEF CleanInv, ServerIsReady
  <1>9. ContainersStay'
    BY <1>1, <1>5 DEF CleanInv, ContainersStay, HasReached
  <1>10. LastResultIsRight'
    <2>1. HasReached' /\ Fine => lastResult' = "success"
      <3> SUFFICES ASSUME HasReached', Fine PROVE lastResult' = "success"
        OBVIOUS
      <3>1. HasReached
        BY <1>1 DEF HasReached
      <3>2. agentAborted = 0 /\ \A i \in DOMAIN agentResults : agentResults[i] # "failed"
        BY <1>1, <3>1 DEF CleanInv, NothingFails
      <3> QED
        BY <1>1, <3>2 DEF Agent!FailedAt
    <2>2. ASSUME lastResult' = "success", NEW i \in DOMAIN p,
                 HopelessForAgent(p[i], situation.health)
          PROVE  FALSE
      <3>1. agentAborted = 0 /\ Agent!FailedAt = {}
        BY <1>1, <2>2
      <3>2. i \in Agent!OnServer(p)
        BY <1>2, <2>2, Planned, HopelessForAgentFails DEF Agent!OnServer
      <3>3. i \in DOMAIN agentResults /\ agentResults[i] = "failed"
        BY <1>3, <1>4, <2>2, <3>1, <3>2
      <3> QED
        BY <3>1, <3>3 DEF Agent!FailedAt
    <2> QED
      BY <1>1, <1>5, <2>1, <2>2 DEF LastResultIsRight
  <1>11. /\ HopelessFails' /\ FinePasses' /\ AgentInOrder' /\ EndsBehindContainers'
         /\ NothingFails' /\ VerdictIsRight'
    BY <1>1 DEF HopelessFails, FinePasses, AgentInOrder, EndsBehindContainers,
                NothingFails, VerdictIsRight
  <1> QED
    BY <1>6, <1>7, <1>8, <1>9, <1>10, <1>11 DEF CleanInv

(* An agent that is killed spoils the apply.                               *)
LEMMA AgentIsKilledKeepsClean ==
  ASSUME ApplyInv, CleanInv, AgentIsKilled
  PROVE  CleanInv'
  <1>1. /\ phase = "agent" /\ phase' = "download"
        /\ compiled' = compiled /\ situation' = situation /\ job' = job
        /\ agent' = agent /\ server' = server /\ lastResult' = lastResult
        /\ spoiled' = TRUE /\ cleanRuns' = 0
        /\ resources' = disk /\ disk' = disk
    BY DEF AgentIsKilled, Agent!Crash, Accident, jobVars
  <1>2. JobIsCompiled' /\ AgentIsThere' /\ NginxIsThere'
    BY <1>1 DEF CleanInv, JobIsCompiled, AgentIsThere, NginxIsThere
  <1>3. ContainersOnDisk' /\ ServerIsReady' /\ ContainersStay' /\ LastResultIsRight'
    BY <1>1 DEF ContainersOnDisk, ServerIsReady, ContainersStay, HasReached, LastResultIsRight
  <1>4. /\ HopelessFails' /\ FinePasses' /\ AgentInOrder' /\ EndsBehindContainers'
        /\ NothingFails' /\ VerdictIsRight'
    BY <1>1 DEF HopelessFails, FinePasses, AgentInOrder, EndsBehindContainers,
                NothingFails, VerdictIsRight
  <1> QED
    BY <1>2, <1>3, <1>4 DEF CleanInv

(* A run over SSH begins with nothing done.                                *)
LEMMA PassBeginsClean ==
  ASSUME BeginLocalPass(ForClient(compiled'))
  PROVE  HopelessFails' /\ FinePasses'
  <1>1. /\ results' = <<>> /\ Len(results') = 0 /\ status' = "running"
        /\ abortedAt' = 0 /\ remoteFailed' = FALSE
    BY DEF BeginLocalPass, Executor
  <1>2. HopelessFails'
    BY <1>1 DEF HopelessFails
  <1>3. ContainersCleared(compiled', 0, server')
    BY DEF ContainersCleared, Stopped, Removed
  <1>4. status' \notin Verdicts
    BY <1>1 DEF Verdicts
  <1>5. ContainersCleared(compiled', Len(results'), server')
    BY <1>1, <1>3
  <1>6. FinePasses'
    BY <1>1, <1>4, <1>5 DEF FinePasses
  <1> QED
    BY <1>2, <1>6

(* The result is fetched, or there is none.                                *)
LEMMA DownloadKeepsClean ==
  ASSUME ApplyInv, CleanInv, Download
  PROVE  CleanInv'
  <1>1. /\ phase = "download"
        /\ compiled' = compiled /\ situation' = situation /\ job' = job
        /\ agent' = agent /\ server' = server /\ lastResult' = lastResult
        /\ resources' = resources /\ disk' = disk
    BY DEF Download, jobVars, agentVars
  <1>2. DOMAIN disk = StepIds /\ DOMAIN resources = StepIds
    BY DEF CleanInv, AgentIsThere
  <1>3. CASE phase' = "idle" /\ cleanRuns' = 0
    BY <1>1, <1>2, <1>3, UncleanEnd
  <1>4. CASE /\ lastResult # "none" /\ BeginLocalPass(SecondPass(compiled))
             /\ UNCHANGED history
    <2>1. phase' = "local" /\ spoiled' = spoiled /\ cleanRuns' = cleanRuns
      BY <1>4 DEF BeginLocalPass, history
    <2>2. HopelessFails' /\ FinePasses'
      <3>1. BeginLocalPass(ForClient(compiled'))
        BY <1>1, <1>4 DEF SecondPass
      <3> QED
        BY <3>1, PassBeginsClean
    <2>3. Fine' <=> Fine
      <3>1. WellPlanned(compiled)
        BY <1>1 DEF ApplyInv, PlanIsGood
      <3> QED
        BY <1>1, <3>1, FineStays
    <2>4. JobIsCompiled' /\ AgentIsThere' /\ NginxIsThere'
      BY <1>1, <1>4, <2>1 DEF CleanInv, JobIsCompiled, AgentIsThere, NginxIsThere
    <2>5. ContainersOnDisk'
      BY <1>1, <2>1, <2>3 DEF CleanInv, ContainersOnDisk, Reaches
    <2>6. LastResultIsRight'
      BY <1>1, <2>1, <2>3 DEF CleanInv, LastResultIsRight, HasReached
    <2>7. /\ AgentInOrder' /\ EndsBehindContainers' /\ ServerIsReady' /\ ContainersStay'
          /\ NothingFails' /\ VerdictIsRight'
      BY <2>1 DEF AgentInOrder, EndsBehindContainers, ServerIsReady, ContainersStay,
                  NothingFails, VerdictIsRight
    <2> QED
      BY <2>2, <2>4, <2>5, <2>6, <2>7 DEF CleanInv
  <1> QED
    BY <1>3, <1>4 DEF Download

(* The verdict says of a plan whether it can be carried out, and leaves    *)
(* what the next apply builds on.                                          *)
LEMMA ReportKeepsClean ==
  ASSUME ApplyInv, CleanInv, Report
  PROVE  CleanInv'
  <1> DEFINE p == compiled
  <1>1. /\ phase = "local" /\ phase' = "idle" /\ status \in Verdicts
        /\ verdict' = Merged(status)
        /\ compiled' = compiled /\ situation' = situation /\ job' = job
        /\ agent' = agent /\ server' = server /\ lastResult' = lastResult
        /\ resources' = resources /\ disk' = disk /\ spoiled' = spoiled
        /\ cleanRuns' = IF spoiled THEN 0 ELSE cleanRuns + 1
    BY DEF Report, jobVars, agentVars
  <1>2. /\ WellPlanned(p) /\ cleanRuns \in Nat /\ DOMAIN p = 1..Len(p) /\ Len(p) \in Nat
        /\ lastResult \in {"none", "success", "failed"}
        /\ abortedAt = 0 /\ ~remoteFailed =>
             Settled(p, Len(results), server, situation.dies)
        /\ status \in Successes =>
             abortedAt = 0 /\ ~remoteFailed /\ Len(results) = Len(p)
    BY <1>1, PlansAreOfSteps DEF ApplyInv, SpecApplyTypeOK, Counts, PlanIsGood, PassSettles
  <1>3. Fine' <=> Fine
    BY <1>1, <1>2, FineStays
  <1>4. JobIsCompiled' /\ AgentIsThere' /\ NginxIsThere'
    BY <1>1 DEF CleanInv, JobIsCompiled, AgentIsThere, NginxIsThere
  <1>5. /\ HopelessFails' /\ FinePasses' /\ AgentInOrder' /\ EndsBehindContainers'
        /\ ContainersOnDisk' /\ NothingFails' /\ LastResultIsRight'
    BY <1>1 DEF HopelessFails, FinePasses, AgentInOrder, EndsBehindContainers,
                ContainersOnDisk, NothingFails, LastResultIsRight
  <1>6. cleanRuns' # 0 /\ Fine =>
          /\ status \in Successes
          /\ Settled(p, Len(p), server, situation.dies)
    BY <1>1, <1>2 DEF CleanInv, FinePasses
  <1>7. ServerIsReady'
    <2>1. cleanRuns' # 0 /\ Fine => Ready(p, Len(p), server)
      BY <1>2, <1>6, SettledIsReady DEF Fine, Feasible
    <2> QED
      BY <1>1, <1>3, <2>1 DEF ServerIsReady
  <1>8. HasReached' => cleanRuns' # 0 /\ ~spoiled /\ Reaches
    BY <1>1, <1>2 DEF HasReached, Reaches
  <1>9. job.agent => lastResult # "none"
    BY <1>1 DEF CleanInv, AgentIsThere
  <1>10. ContainersStay'
    <2> SUFFICES ASSUME job.agent, HasReached', Fine
                 PROVE  ContainersThere(p, server) /\ ContainersKnown(p, disk)
      BY <1>1, <1>3 DEF ContainersStay
    <2>1. ContainersKnown(p, disk)
      BY <1>1, <1>8, <1>9 DEF CleanInv, ContainersOnDisk
    <2>2. ContainersRun(p, Len(p), server, situation.dies) /\ Len(p) \in 0..Len(p)
      BY <1>2, <1>6, <1>8 DEF Settled
    <2>3. ContainersThere(p, server)
      BY <1>2, <2>2, RunContainersAreThere DEF ContainersThere
    <2> QED
      BY <2>1, <2>3
  <1>11. VerdictIsRight'
    <2> SUFFICES ASSUME ~spoiled
                 PROVE  /\ verdict' \in Successes => ~Hopeless(p)
                        /\ Fine /\ cleanRuns + 1 >= RunsNeeded(p) => verdict' \in Successes
      BY <1>1, <1>3 DEF VerdictIsRight, Hopeless, RunsNeeded
    <2>1. job.agent =>
            /\ HasReached /\ Fine => lastResult = "success"
            /\ lastResult = "success" =>
                 \A i \in DOMAIN p : ~HopelessForAgent(p[i], situation.health)
      BY <1>1, <1>9 DEF CleanInv, LastResultIsRight
    <2>2. verdict' = IF job.agent /\ lastResult = "failed" THEN "failed" ELSE status
      BY <1>1 DEF Merged
    <2>3. "failed" \notin Successes
      BY DEF Successes
    <2>4. verdict' \in Successes => ~Hopeless(p)
      <3> SUFFICES ASSUME verdict' \in Successes PROVE ~Hopeless(p)
        OBVIOUS
      <3>1. status \in Successes /\ ~(job.agent /\ lastResult = "failed")
        BY <2>2, <2>3
      <3>2. \A i \in DOMAIN p : ~HopelessHere(p, i, server, situation.health)
        BY <1>1, <1>2, <3>1 DEF CleanInv, HopelessFails
      <3>3. job.agent => \A i \in DOMAIN p : ~HopelessForAgent(p[i], situation.health)
        BY <1>2, <1>9, <2>1, <3>1
      <3> QED
        BY <3>2, <3>3 DEF Hopeless
    <2>5. Fine /\ cleanRuns + 1 >= RunsNeeded(p) => verdict' \in Successes
      <3> SUFFICES ASSUME Fine, cleanRuns + 1 >= RunsNeeded(p)
                   PROVE  verdict' \in Successes
        OBVIOUS
      <3>1. status \in Successes
        BY <1>1, <1>2, <1>6
      <3>2. job.agent => HasReached
        BY <1>2 DEF RunsNeeded, HasReached
      <3>3. job.agent => lastResult = "success"
        BY <2>1, <3>2
      <3> QED
        BY <2>2, <3>1, <3>3
    <2> QED
      BY <2>4, <2>5
  <1> QED
    BY <1>4, <1>5, <1>7, <1>10, <1>11 DEF CleanInv

(* An apply starts: as the one before it, or anew.                         *)
LEMMA StartKeepsClean ==
  ASSUME ApplyInv, CleanInv, NEW s \in situation.specs, NEW r \in 1..2, NEW mode,
         Start(s, r, mode)
  PROVE  CleanInv'
  <1> DEFINE wanted == [spec |-> s, rev |-> r, agent |-> UsesAgent(mode)]
  <1>1. /\ phase = "idle" /\ situation' = situation /\ agent' = agent
        /\ server' = server /\ lastResult' = lastResult
        /\ job' = wanted /\ compiled' = PlanOf(s, r)
        /\ spoiled' = FALSE
        /\ cleanRuns' = IF job = wanted THEN cleanRuns ELSE 0
        /\ disk' = disk
    BY DEF Start, Request, agentVars, Agent!Start
  <1>2. WellPlanned(compiled')
    <2>1. ValidSpec(s) /\ situation \in Situations
      BY DEF Start, Refused, ApplyInv, Counts
    <2> QED
      BY <1>1, <2>1, CompiledAssumption
  <1>3. wanted # NoJob
    BY DEF NoJob
  <1>4. /\ job'.spec = s /\ job'.rev = r /\ job'.agent = UsesAgent(mode)
        /\ job' # NoJob
    BY <1>1, <1>3
  <1> HIDE DEF wanted
  <1>5. cleanRuns' # 0 => /\ job = wanted /\ cleanRuns' = cleanRuns /\ job' = job
                          /\ compiled' = compiled /\ WellPlanned(compiled)
    <2>1. job = wanted => compiled = PlanOf(s, r) /\ WellPlanned(compiled)
      BY <1>1, <1>3, <1>4 DEF CleanInv, JobIsCompiled
    <2> QED
      BY <1>1, <2>1
  <1>6. cleanRuns' # 0 => (Fine' <=> Fine)
    BY <1>1, <1>5, FineStays
  <1>7. HasReached' => HasReached /\ cleanRuns' # 0
    BY <1>5 DEF HasReached
  <1>8. JobIsCompiled'
    BY <1>1, <1>2, <1>4 DEF JobIsCompiled
  <1>9. NginxIsThere'
    BY <1>1 DEF CleanInv, NginxIsThere
  <1>10. ServerIsReady'
    BY <1>1, <1>5, <1>6 DEF CleanInv, ServerIsReady
  <1>11. HasReached' /\ Fine' /\ job'.agent =>
           ContainersThere(compiled', server) /\ ContainersKnown(compiled', disk)
    BY <1>1, <1>5, <1>6, <1>7 DEF CleanInv, ContainersStay
  <1>12. /\ DOMAIN disk = StepIds /\ DOMAIN resources = StepIds
         /\ agent = "absent" => lastResult = "none"
    BY DEF CleanInv, AgentIsThere
  <1>13. CASE /\ UsesAgent(mode) /\ agent # "absent" /\ phase' = "agent"
              /\ Agent!Start(ForAgent(compiled'), OpenPolicy)
    <2>1. resources' = disk /\ agentResults' = <<>> /\ agentAborted' = 0
      BY <1>13 DEF Agent!Start
    <2>2. AgentIsThere'
      BY <1>1, <1>4, <1>12, <1>13, <2>1 DEF AgentIsThere
    <2>3. AgentInOrder' /\ EndsBehindContainers' /\ NothingFails'
      BY <2>1 DEF AgentInOrder, EndsBehindContainers, NothingFails
    <2>4. ContainersStay'
      BY <1>1, <1>11, <2>1 DEF ContainersStay
    <2>5. /\ HopelessFails' /\ FinePasses' /\ ContainersOnDisk' /\ LastResultIsRight'
          /\ VerdictIsRight'
      BY <1>13 DEF HopelessFails, FinePasses, ContainersOnDisk, LastResultIsRight,
                   VerdictIsRight
    <2> QED
      BY <1>8, <1>9, <1>10, <2>2, <2>3, <2>4, <2>5 DEF CleanInv
  <1>14. CASE agent = "absent" /\ phase' = "download" /\ UNCHANGED agentVars
    <2>1. lastResult' = "none" /\ resources' = resources
      BY <1>1, <1>12, <1>14 DEF agentVars
    <2>2. AgentIsThere' /\ ContainersOnDisk' /\ LastResultIsRight'
      BY <1>1, <1>12, <1>14, <2>1 DEF AgentIsThere, ContainersOnDisk, LastResultIsRight
    <2>3. ContainersStay'
      BY <1>1, <1>11, <1>14 DEF ContainersStay
    <2>4. /\ HopelessFails' /\ FinePasses' /\ AgentInOrder' /\ EndsBehindContainers'
          /\ NothingFails' /\ VerdictIsRight'
      BY <1>14 DEF HopelessFails, FinePasses, AgentInOrder, EndsBehindContainers,
                   NothingFails, VerdictIsRight
    <2> QED
      BY <1>8, <1>9, <1>10, <2>2, <2>3, <2>4 DEF CleanInv
  <1>15. CASE /\ ~UsesAgent(mode) /\ BeginLocalPass(ForClient(compiled'))
              /\ UNCHANGED agentVars
    <2>1. phase' = "local" /\ resources' = resources /\ ~job'.agent
      BY <1>4, <1>15 DEF BeginLocalPass, agentVars
    <2>2. AgentIsThere' /\ ContainersOnDisk' /\ LastResultIsRight'
      BY <1>1, <1>12, <2>1 DEF AgentIsThere, ContainersOnDisk, LastResultIsRight
    <2>3. HopelessFails' /\ FinePasses'
      BY <1>15, PassBeginsClean
    <2>4. /\ AgentInOrder' /\ EndsBehindContainers' /\ ContainersStay'
          /\ NothingFails' /\ VerdictIsRight'
      BY <2>1 DEF AgentInOrder, EndsBehindContainers, ContainersStay,
                  NothingFails, VerdictIsRight
    <2> QED
      BY <1>8, <1>9, <1>10, <2>2, <2>3, <2>4 DEF CleanInv
  <1> QED
    BY <1>13, <1>14, <1>15 DEF Start

(* It is refused; the client dies; the state is lost.                      *)
LEMMA AccidentsKeepClean ==
  ASSUME CleanInv,
         (\E s, r, mode : Refuse(s, r, mode)) \/ ClientCrash \/ LoseState
  PROVE  CleanInv'
  <1>1. DOMAIN disk = StepIds /\ DOMAIN resources = StepIds
    BY DEF CleanInv, AgentIsThere
  <1>2. CASE \E s, r, mode : Refuse(s, r, mode)
    <2>1. /\ phase' = "idle" /\ cleanRuns' = 0 /\ job' = NoJob
          /\ server' = server /\ agent' = agent /\ lastResult' = lastResult
          /\ disk' = disk /\ resources' = resources
      BY <1>2 DEF Refuse, Request, agentVars
    <2> QED
      BY <1>1, <2>1, UncleanEnd
  <1>3. CASE ClientCrash
    <2>1. /\ phase' = "idle" /\ cleanRuns' = 0 /\ job' = job /\ compiled' = compiled
          /\ server' = server /\ agent' = agent /\ lastResult' = lastResult
          /\ disk' = disk /\ resources' \in {resources, disk}
      BY <1>3 DEF ClientCrash, Accident, Agent!Crash, jobVars, agentVars
    <2> QED
      BY <1>1, <2>1, UncleanEnd
  <1>4. CASE LoseState
    <2>1. /\ phase' = "idle" /\ cleanRuns' = 0 /\ job' = job /\ compiled' = compiled
          /\ server' = server /\ agent' = agent /\ lastResult' = lastResult
          /\ disk' = Agent!NoResources /\ resources' = resources
      BY <1>4 DEF LoseState, Accident, jobVars
    <2>2. DOMAIN disk' = StepIds
      BY <2>1 DEF Agent!NoResources
    <2> QED
      BY <1>1, <2>1, <2>2, UncleanEnd
  <1> QED
    BY <1>2, <1>3, <1>4

(* The agent is installed, or nothing happens.                             *)
LEMMA IdleKeepsClean ==
  ASSUME CleanInv, InstallAgent \/ UNCHANGED vars
  PROVE  CleanInv'
  <1>1. /\ phase' = phase /\ job' = job /\ compiled' = compiled /\ situation' = situation
        /\ server' = server /\ lastResult' = lastResult /\ verdict' = verdict
        /\ disk' = disk /\ resources' = resources /\ agentResults' = agentResults
        /\ agentAborted' = agentAborted
        /\ spoiled' = spoiled /\ cleanRuns' = cleanRuns
        /\ results' = results /\ abortedAt' = abortedAt /\ remoteFailed' = remoteFailed
        /\ status' = status
        /\ agent' = agent \/ agent' = "same"
    BY DEF InstallAgent, vars, execVars, agentVars, history
  <1>2. (Fine' <=> Fine) /\ (Reaches' <=> Reaches) /\ (HasReached' <=> HasReached)
    BY <1>1 DEF Fine, Reaches, HasReached
  <1>3. JobIsCompiled' /\ AgentIsThere' /\ NginxIsThere' /\ HopelessFails' /\ AgentInOrder'
    BY <1>1 DEF CleanInv, JobIsCompiled, AgentIsThere, NginxIsThere, HopelessFails,
                AgentInOrder
  <1>4. FinePasses' /\ EndsBehindContainers' /\ ContainersOnDisk'
    BY <1>1, <1>2 DEF CleanInv, FinePasses, EndsBehindContainers, ContainersOnDisk
  <1>5. ServerIsReady' /\ ContainersStay' /\ NothingFails' /\ LastResultIsRight'
    BY <1>1, <1>2 DEF CleanInv, ServerIsReady, ContainersStay, NothingFails,
                      LastResultIsRight
  <1>6. VerdictIsRight'
    BY <1>1, <1>2 DEF CleanInv, VerdictIsRight, Hopeless, RunsNeeded
  <1> QED
    BY <1>3, <1>4, <1>5, <1>6 DEF CleanInv

(* At first, there is nothing.                                             *)
LEMMA InitIsClean ==
  InitApply => CleanInv
  <1> SUFFICES ASSUME InitApply PROVE CleanInv
    OBVIOUS
  <1>1. /\ phase = "idle" /\ job = NoJob /\ cleanRuns = 0 /\ lastResult = "none"
        /\ DOMAIN disk = StepIds /\ DOMAIN resources = StepIds
    BY DEF InitApply, Agent!Init, Agent!NoResources
  <1>2. server.run["nginx"] = 0
    <2> DEFINE f == [Bare EXCEPT !["postgres"] = situation.postgres]
    <2>1. server = [BareServer EXCEPT !.file = f, !.run = f]
      BY DEF InitApply, BareServer
    <2>2. f["nginx"] = 0
      BY ItemsAssumption DEF Bare, Daemons
    <2> HIDE DEF f
    <2> QED
      BY <2>1, <2>2 DEF BareServer
  <1>3. JobIsCompiled /\ AgentIsThere /\ NginxIsThere
    BY <1>1, <1>2 DEF JobIsCompiled, AgentIsThere, NginxIsThere
  <1>4. /\ HopelessFails /\ FinePasses /\ AgentInOrder /\ EndsBehindContainers
        /\ ContainersOnDisk /\ NothingFails /\ LastResultIsRight
    BY <1>1 DEF HopelessFails, FinePasses, AgentInOrder, EndsBehindContainers,
                ContainersOnDisk, NothingFails, LastResultIsRight
  <1>5. ServerIsReady /\ ContainersStay /\ VerdictIsRight
    BY <1>1 DEF ServerIsReady, ContainersStay, HasReached, VerdictIsRight
  <1> QED
    BY <1>3, <1>4, <1>5 DEF CleanInv

(* All of them.                                                            *)
LEMMA StepKeepsClean ==
  ApplyInv /\ CleanInv /\ [NextApply]_vars => CleanInv'
  <1> SUFFICES ASSUME ApplyInv, CleanInv, [NextApply]_vars
               PROVE  CleanInv'
    OBVIOUS
  <1>1. CASE \E s \in situation.specs, r \in 1..2, mode \in situation.modes :
               Refuse(s, r, mode) \/ Start(s, r, mode)
    BY <1>1, AccidentsKeepClean, StartKeepsClean
  <1>2. CASE AgentExecutes
    BY <1>2, AgentExecutesKeepsClean
  <1>3. CASE AgentSkips
    BY <1>3, AgentSkipsKeepsClean
  <1>4. CASE AgentFinishes
    BY <1>4, AgentFinishesKeepsClean
  <1>5. CASE Download
    BY <1>5, DownloadKeepsClean
  <1>6. CASE ClientExecutes
    BY <1>6, ClientExecutesKeepsClean
  <1>7. CASE ClientFinishes
    BY <1>7, ClientFinishesKeepsClean
  <1>8. CASE Report
    BY <1>8, ReportKeepsClean
  <1>9. CASE AgentIsKilled
    BY <1>9, AgentIsKilledKeepsClean
  <1>10. CASE ClientCrash \/ LoseState
    BY <1>10, AccidentsKeepClean
  <1>11. CASE InstallAgent \/ UNCHANGED vars
    BY <1>11, IdleKeepsClean
  <1> QED
    BY <1>1, <1>2, <1>3, <1>4, <1>5, <1>6, <1>7, <1>8, <1>9, <1>10, <1>11
       DEF NextApply, Progress

(* An apply of a plan that can be carried out succeeds, at the first time  *)
(* over SSH, and at the second or third time in a row through the agent,   *)
(* as long as there is no accident; and one of a plan that cannot does not *)
(* (cli._apply_single, which merges the verdicts of the two executors).    *)
THEOREM CleanAppliesSucceed ==
  ApplySpec => []CleanApplySucceeds
  <1>1. ApplyInv /\ CleanInv => CleanApplySucceeds
    <2> SUFFICES ASSUME ApplyInv, CleanInv,
                        Reported, cleanRuns >= RunsNeeded(compiled),
                        \A step \in Range(compiled) : ~IsEmptyUpload(step),
                        ~Premature(compiled)
                 PROVE  Succeeded <=> ~Hopeless(compiled)
      BY DEF CleanApplySucceeds
    <2>1. cleanRuns \in Nat /\ cleanRuns # 0
      BY DEF ApplyInv, Counts, RunsNeeded
    <2>2. Succeeded <=> verdict \in Successes
      BY DEF Succeeded, Successes
    <2>3. /\ verdict \in Successes => ~Hopeless(compiled)
          /\ Fine /\ cleanRuns >= RunsNeeded(compiled) => verdict \in Successes
      BY <2>1 DEF CleanInv, VerdictIsRight, Reported
    <2>4. ~Hopeless(compiled) => Fine
      <3>1. \A i \in DOMAIN compiled : ~IsEmptyUpload(compiled[i])
        BY DEF Range
      <3> QED
        BY <3>1 DEF Hopeless, Fine, Feasible
    <2> QED
      BY <2>2, <2>3, <2>4
  <1> QED
    BY <1>1, InitKeepsInv, StepKeepsInv, InitIsClean, StepKeepsClean, PTL DEF ApplySpec
=============================================================================
