---------------------------- MODULE Workstation ----------------------------
(***************************************************************************)
(* The operator's machine: the state that loft-cli's commands keep there   *)
(* (SSH key pairs, the WireGuard store, ssh fragments, tunnels, the        *)
(* inventory), across commands on several hosts, each interrupted anywhere.*)
(* apply of one spec, of a file of several, of a fleet, and rotate-secret  *)
(* go through the same pipeline and _apply_single; what happens on the     *)
(* server is Remote, one step here (SpecApply and BootstrapApply have it). *)
(*                                                                         *)
(* A host is what its spec says of it, provider ("" for none) and name,    *)
(* and so are directories {base}/[{provider}/]{name} and the inventory's   *)
(* server ids, [{provider}/]{name}.                                        *)
(***************************************************************************)
EXTENDS Versioning, WireguardStore, SequencesExt

CONSTANTS
  Situations,    \* hosts, the commands that are given and bounds: see MCWorkstation
  Providers,     \* the providers, in sort order
  Interface,     \* for each host, its tunnel's interface: the first 15
                 \* characters of wg-[{provider}--]{name}
  MaxCommands, MaxFaults, MaxSeconds

(* A situation bounds its commands, faults and the inventory's clock.      *)
ASSUME SituationsAssumption ==
  \A s \in Situations :
    /\ s.commands \in 1..MaxCommands
    /\ s.faults \in 0..MaxFaults
    /\ s.seconds \in 1..MaxSeconds

(* There are finitely many hosts, and a host is nothing but its provider,  *)
(* if it has one, and its name.                                            *)
ASSUME HostsAssumption ==
  /\ Providers \in Seq(Range(Providers))
  /\ \A s \in Situations : IsFiniteSet(s.hosts)
  /\ \A s \in Situations : \A h \in s.hosts :
       /\ h = [provider |-> h.provider, name |-> h.name]
       /\ h.provider \in {""} \cup Range(Providers)

VARIABLES
  situation,
  keyPairs,     \* hosts with a directory of SSH keys
  wg,           \* the WireGuard store: directories by [provider, name]
  confD,        \* hosts with an ssh fragment
  active,       \* for each interface, the key its tunnel was configured for
  schema,       \* for each table: "none", "view" (no triggers yet), "ready"
  rows,         \* for each table tv_<table>, its versions
  second,       \* the clock, as far as the inventory has seen it
  command,      \* the command that runs or, at pc "idle", ran last
  deployed,     \* external: for each host, the key of its WireGuard server
  password,     \* external: for each host, the password in its database
  commands, faults,   \* counters
  stuck,        \* history: interfaces whose tunnel a removal left up
  settled,      \* history: hosts whose last bootstrap succeeded without a
                \* warning, and that were not removed since
  gone          \* history: hosts removed without an error, and not applied since

localState == <<keyPairs, wg, confD, active>>
inventory == <<schema, rows, second>>
servers == <<deployed, password>>
vars == <<situation, localState, inventory, command, servers, commands, faults,
          stuck, settled, gone>>

Hosts == situation.hosts
Flat(h) == [provider |-> "", name |-> h.name]
Dirs == Hosts \cup {Flat(h) : h \in Hosts}

(* In the order in which initialize makes them.                            *)
TableOrder == <<"server", "service", "run">>
Tables == Range(TableOrder)

-----------------------------------------------------------------------------
(* The WireGuard store, as one host sees it.                               *)

StoreOf(h) == [flat |-> wg[Flat(h)], provided |-> wg[h]]

Put(h, store) ==
  [wg EXCEPT ![h] = store.provided,
             ![Flat(h)] = IF h.provider = "" THEN store.provided ELSE store.flat]

(* A host without provider has one directory.                              *)
Persisted(h, key) ==
  IF h.provider = ""
    THEN [wg EXCEPT ![h] = PersistKeys(StoreOf(h), key).flat]
    ELSE Put(h, PersistKeys(StoreOf(h), key))

Saved(h, key) == Put(h, SaveState(StoreOf(h), TRUE, key))

(* find_wg_host_dir, by name alone: the flat directory, or the first in    *)
(* the order of providers.                                                 *)
Found(h) ==
  LET rank(p) == CHOOSE i \in DOMAIN Providers : Providers[i] = p
      others == {d \in Dirs : d.name = h.name /\ d.provider # "" /\ wg[d].exists}
  IN  IF wg[Flat(h)].exists \/ others = {} THEN wg[Flat(h)]
      ELSE wg[CHOOSE d \in others :
                \A e \in others : rank(d.provider) <= rank(e.provider)]

(* A key that is nowhere yet.                                              *)
FreshKey ==
  LET used == {deployed[h] : h \in Hosts} \cup {wg[d].key : d \in Dirs}
                \cup {active[i] : i \in DOMAIN active}
                \cup {command.keys[i] : i \in DOMAIN command.keys}
  IN  CHOOSE k \in 1..(Cardinality(used) + 1) : k \notin used

-----------------------------------------------------------------------------
(* What is recorded of a job, in order.  Services are filed under          *)
(* host.name, servers under [{provider}/]{name}, runs under their start.   *)

Write(t, key, val) == [table |-> t, key |-> key, val |-> val]

RunId == [number |-> commands, at |-> command.at]

ServerRow(status, h) == [status |-> status, address |-> h]

BootstrapWrites(job) ==
  <<Write("server", job.host, ServerRow("bootstrapped", job.host))>>

Row(job, name, rev) ==
  Write("service", <<Flat(job.host), <<job.kind, name>>>>, rev)

(* One row for each engine and container.                                  *)
ServiceWrites(job) ==
  [i \in DOMAIN job.parts |-> Row(job, job.parts[i].name, job.parts[i].rev)]

(* One row for each resource, of a blueprint's, too.                       *)
StackWrites(job) == [i \in DOMAIN job.parts |-> Row(job, job.parts[i].name, job.rev)]

(* One row for the spec: all other kinds.                                  *)
SpecWrites(job) == <<Row(job, "spec", job.rev)>>

ResultWrites(job) ==
  CASE job.kind = "bootstrap" -> BootstrapWrites(job)
    [] job.kind = "service" -> ServiceWrites(job)
    [] job.kind \in {"stack", "blueprint"} -> StackWrites(job)
    [] OTHER -> SpecWrites(job)

(* Mutant: the run is recorded first.                                      *)
WritesRunFirst(job, id) == <<Write("run", id, job)>> \o ResultWrites(job)

Writes(job, id) == Append(ResultWrites(job), Write("run", id, job))

(* The database is written, or raises.  Any second may have begun.         *)
Writable(t) == schema[t] = "ready"

Now == {second, second + 1} \cap 1..situation.seconds

Upsert(w, now) ==
  /\ Writable(w.table)
  /\ now \in Now
  /\ ~Raises(rows[w.table], w.key, w.val, now)
  /\ rows' = [rows EXCEPT ![w.table] = Upserted(@, w.key, w.val, now)]
  /\ second' = now
  /\ UNCHANGED schema

UpsertRaises(w, now) ==
  /\ now \in Now
  /\ ~Writable(w.table) \/ Raises(rows[w.table], w.key, w.val, now)
  /\ second' = now
  /\ UNCHANGED <<schema, rows>>

(* show_server: services filed under the server's id.                      *)
Shown(id) ==
  {<<r.key[2], r.val>> : r \in {v \in View(rows["service"]) : v.key[1] = id}}

(* get_server, else get_server_by_name: any row with that name will do.    *)
ServersFor(h) ==
  LET known == View(rows["server"])
      exact == {r \in known : r.key = h}
  IN  IF exact # {} THEN exact ELSE {r \in known : r.key.name = h.name}

-----------------------------------------------------------------------------
NoCommand ==
  [op |-> "none", jobs |-> <<>>, fleet |-> FALSE, continue |-> FALSE,
   rotate |-> FALSE, pc |-> "idle", at |-> 0, keys |-> <<>>, todo |-> <<>>,
   failed |-> FALSE, opened |-> FALSE, warned |-> FALSE, outcomes |-> <<>>,
   results |-> <<>>, report |-> "none"]

Init ==
  /\ situation \in Situations
  /\ keyPairs = {} /\ confD = {}
  /\ wg = [d \in Dirs |-> NoDir]
  /\ active = [i \in {Interface[h] : h \in Hosts} |-> NoKey]
  /\ schema = [t \in Tables |-> "none"]
  /\ rows = [t \in Tables |-> {}]
  /\ second = 1
  /\ command = NoCommand
  /\ deployed = [h \in Hosts |-> NoKey]
  /\ password = [h \in Hosts |-> 0]
  /\ commands = 0 /\ faults = 0
  /\ stuck = {} /\ settled = {} /\ gone = {}

Fault ==
  /\ faults < situation.faults
  /\ faults' = faults + 1

Job == command.jobs[command.at]
Key == command.keys[command.at]

(* The command ends.                                                       *)
Ended(c, report) ==
  [c EXCEPT !.pc = "idle", !.report = report, !.todo = <<>>, !.keys = <<>>]

-----------------------------------------------------------------------------
(* A command begins.  A fleet is the files that could be parsed and whose  *)
(* labels match (_scan_all_specs, select_specs): the others are passed     *)
(* over in silence.  rotate-secret generates a value and has it in its own *)
(* environment only; the operator's keeps value 1.                         *)

Matches(selector, labels) == selector \subseteq labels

Selected(c) ==
  IF c.fleet
    THEN SelectSeq(c.jobs, LAMBDA j : j.flaw # "unparsed" /\ Matches(c.selector, j.labels))
    ELSE c.jobs

(* What can be given is one of four commands, about hosts there are;       *)
(* selecting leaves a sequence of jobs.                                    *)
ASSUME ChoicesAssumption ==
  \A s \in Situations : \A c \in s.choices :
    LET jobs == Selected(c)
    IN  /\ c.op \in {"apply", "remove", "up", "down"}
        /\ jobs \in Seq(Range(jobs))
        /\ \A i \in DOMAIN jobs :
             jobs[i].host \in s.hosts /\ jobs[i].parts \in Seq(Range(jobs[i].parts))

FirstPc(op) == IF op = "apply" THEN "pipeline" ELSE op

(* Mutant: removal does not care for the tunnel.                           *)
StepsButTunnel(op) ==
  IF op = "remove" THEN <<"wireguard", "ssh", "keys", "inventory">> ELSE <<>>

Steps(op) ==
  IF op = "remove" THEN <<"tunnel", "wireguard", "ssh", "keys", "inventory">>
                   ELSE <<>>

Begin(c) ==
  LET jobs == Selected(c)
  IN  /\ command.pc = "idle"
      /\ commands < situation.commands
      /\ commands' = commands + 1
      /\ command' =
           [NoCommand EXCEPT
              !.op = c.op, !.jobs = jobs, !.fleet = c.fleet,
              !.continue = c.continue, !.rotate = c.rotate, !.at = 1,
              !.pc = IF jobs = <<>> THEN "idle" ELSE FirstPc(c.op),
              !.todo = Steps(c.op),
              !.report = IF jobs # <<>> THEN "none"
                         ELSE IF c.selector = {} THEN "ok" ELSE "failed"]
      /\ UNCHANGED <<situation, localState, inventory, servers, faults, stuck,
                     settled, gone>>

(* _build_pipeline for the job at hand: keys of the admin user are         *)
(* generated for a host with a provider, WireGuard keys looked up or       *)
(* generated, and these saved at once unless the spec has a key file.      *)
KeyOf(job) ==
  IF job.kind = "bootstrap" THEN KeyFor(StoreOf(job.host), TRUE, FreshKey) ELSE NoKey

GeneratesKeys(job) ==
  /\ keyPairs' = IF job.kind = "bootstrap" /\ job.host.provider # ""
                   THEN keyPairs \cup {job.host} ELSE keyPairs
  /\ wg' = IF job.kind = "bootstrap" /\ ~job.keyFile
             THEN Persisted(job.host, KeyOf(job)) ELSE wg
  /\ UNCHANGED <<confD, active>>

(* Mutant: the last job is told by an index that starts from 0.            *)
AfterJobOffByOne(c, outcome) ==
  LET d == [c EXCEPT !.outcomes = Append(@, outcome), !.todo = <<>>]
  IN  IF outcome = "failed" /\ ~(c.fleet /\ c.continue) THEN Ended(d, "failed")
      ELSE IF c.at = Len(c.jobs) + 1 THEN Ended(d, "ok")
      ELSE [d EXCEPT !.at = @ + 1, !.pc = IF c.fleet THEN "pipeline" ELSE "remote"]

(* The end of the job at hand: a file ends with its first failure, a fleet *)
(* too unless it is told to continue.                                      *)
AfterJob(c, outcome) ==
  LET d == [c EXCEPT !.outcomes = Append(@, outcome), !.todo = <<>>]
      failures == "failed" \in Range(d.outcomes)
  IN  IF outcome = "failed" /\ ~(c.fleet /\ c.continue) THEN Ended(d, "failed")
      ELSE IF c.at = Len(c.jobs) THEN Ended(d, IF failures THEN "failed" ELSE "ok")
      ELSE [d EXCEPT !.at = @ + 1, !.pc = IF c.fleet THEN "pipeline" ELSE "remote"]

(* All specs of a file go through the pipeline before the first is         *)
(* applied, and a validation error ends the command; a fleet's errors are  *)
(* printed, and what they are about is applied.                            *)
AfterPipeline(c) ==
  IF c.fleet THEN [c EXCEPT !.pc = "remote"]
  ELSE IF c.at < Len(c.jobs) THEN [c EXCEPT !.at = @ + 1]
  ELSE IF \E i \in DOMAIN c.jobs : c.jobs[i].flaw = "invalid" THEN Ended(c, "failed")
  ELSE [c EXCEPT !.at = 1, !.pc = "remote"]

Pipeline ==
  LET c == [command EXCEPT !.keys = Append(@, KeyOf(Job))]
  IN  /\ command.pc = "pipeline"
      /\ \/ /\ Job.flaw # "broken"
            /\ GeneratesKeys(Job)
            /\ command' = AfterPipeline(c)
         \/ /\ Job.flaw = "broken"
            /\ UNCHANGED localState
            /\ command' = IF c.fleet THEN AfterJob(c, "failed") ELSE Ended(c, "failed")
      /\ gone' = gone \ {Job.host}
      /\ UNCHANGED <<situation, inventory, servers, commands, faults, stuck, settled>>

(* The apply on the server, with its effect or, failing, perhaps without.  *)
(* (A job that ends here is also one whose client died in the middle.)     *)
(* A role that exists keeps its password (create_role).                    *)
Secret == IF command.rotate THEN 1 + commands ELSE 1

Applied(job) ==
  LET h == job.host
  IN  /\ deployed' =
           IF job.kind = "bootstrap" THEN [deployed EXCEPT ![h] = Key] ELSE deployed
      /\ password' =
           IF job.secret = "user" \/ (job.secret = "role" /\ password[h] = 0)
             THEN [password EXCEPT ![h] = Secret] ELSE password

LocalSteps(job) ==
  IF job.kind = "bootstrap" THEN <<"ssh", "wireguard", "init">> ELSE <<"init">>

(* Specs of a fleet are read before any env file is (job.flaw = "env").    *)
Connects == ~(command.fleet /\ Job.flaw = "env")

StartedApply == [command EXCEPT !.pc = "local", !.todo = LocalSteps(Job),
                                !.failed = FALSE, !.opened = FALSE, !.warned = FALSE]

Remote ==
  /\ command.pc = "remote"
  /\ \/ /\ Connects
        /\ Applied(Job)
        /\ command' = StartedApply
        /\ UNCHANGED faults
     \/ /\ Connects
        /\ Fault
        /\ Applied(Job) \/ UNCHANGED servers
        /\ \/ command' = [StartedApply EXCEPT !.failed = TRUE]
           \/ command' = AfterJob(command, "failed")
     \/ /\ ~Connects
        /\ command' = AfterJob(command, "failed")
        /\ UNCHANGED <<servers, faults>>
  /\ settled' = IF Job.kind = "bootstrap" THEN settled \ {Job.host} ELSE settled
  /\ UNCHANGED <<situation, localState, inventory, commands, stuck, gone>>

(* Mutant: the warning of a local step is lost.                            *)
WarnedNever(c) == c

Warned(c) == [c EXCEPT !.warned = TRUE]

(* initialize: a table whose view exists is taken to be done.              *)
Initialized == [t \in Tables |-> IF schema[t] = "view" THEN "view" ELSE "ready"]

(* It stops at a table, which is as it was or has its view, but not yet    *)
(* its triggers; those before it are done.                                 *)
InitializeStops ==
  \E i \in DOMAIN TableOrder, half \in BOOLEAN :
    LET this == TableOrder[i]
        before == {TableOrder[j] : j \in 1..(i - 1)}
    IN  /\ half => schema[this] = "none"
        /\ schema' = [t \in Tables |->
                        IF t = this /\ half THEN "view"
                        ELSE IF t \in before THEN Initialized[t] ELSE schema[t]]

LocalStep ==
  LET step == Head(command.todo)
      h == Job.host
      c == [command EXCEPT !.todo = Tail(@)]
  IN  /\ command.pc = "local" /\ command.todo # <<>>
      /\ \/ /\ wg' = IF step = "wireguard" THEN Saved(h, Key) ELSE wg
            /\ confD' = IF step = "ssh" THEN confD \cup {h} ELSE confD
            /\ schema' = IF step = "init" THEN Initialized ELSE schema
            /\ command' = [c EXCEPT !.opened = (step = "init")]
            /\ UNCHANGED faults
         \/ /\ Fault
            /\ \/ command' = Warned(c) /\ UNCHANGED schema
               \/ /\ step = "init" /\ InitializeStops
                  /\ command' = Warned([c EXCEPT !.opened = TRUE])
            /\ UNCHANGED <<wg, confD>>
      /\ UNCHANGED <<situation, keyPairs, active, rows, second, servers, commands,
                     stuck, settled, gone>>

LocalStepsDone ==
  /\ command.pc = "local" /\ command.todo = <<>>
  /\ command' =
       IF command.failed THEN AfterJob(command, "failed")
       ELSE [command EXCEPT !.pc = "record", !.todo = Writes(Job, RunId)]
  /\ UNCHANGED <<situation, localState, inventory, servers, commands, faults,
                 stuck, settled, gone>>

(* The kind's on_inventory_record.  An exception ends it, with a warning.  *)
Record ==
  LET w == Head(command.todo)
  IN  /\ command.pc = "record" /\ command.todo # <<>>
      /\ \/ /\ command.opened
            /\ \E now \in Now : Upsert(w, now)
            /\ command' = [command EXCEPT !.todo = Tail(@)]
         \/ /\ command.opened
            /\ \E now \in Now : UpsertRaises(w, now)
            /\ command' = Warned([command EXCEPT !.todo = <<>>])
         \/ /\ ~command.opened
            /\ command' = Warned([command EXCEPT !.todo = <<>>])
            /\ UNCHANGED inventory
      /\ UNCHANGED <<situation, localState, servers, commands, faults, stuck,
                     settled, gone>>

Recorded ==
  /\ command.pc = "record" /\ command.todo = <<>>
  /\ command' = AfterJob(command, IF command.warned THEN "warned" ELSE "success")
  /\ settled' = IF Job.kind = "bootstrap" /\ ~command.warned
                  THEN settled \cup {Job.host} ELSE settled
  /\ UNCHANGED <<situation, localState, inventory, servers, commands, faults,
                 stuck, gone>>

-----------------------------------------------------------------------------
(* tunnel_down: an interface that is not there is no error.                *)
TearDown(h) ==
  /\ active' = [active EXCEPT ![Interface[h]] = NoKey]
  /\ UNCHANGED <<keyPairs, wg, confD>>

(* Mutant: the directory of a host without provider is removed.            *)
RemoveDirFlat(h, step) ==
  /\ wg' = IF step = "wireguard" THEN [wg EXCEPT ![Flat(h)] = NoDir] ELSE wg
  /\ confD' = IF step = "ssh" THEN confD \ {h} ELSE confD
  /\ keyPairs' = IF step = "keys" /\ h.provider # "" THEN keyPairs \ {h} ELSE keyPairs
  /\ UNCHANGED active

(* remove_host: five steps, each with its own try.  A tunnel that cannot   *)
(* be torn down counts as skipped, and as no error; one that cannot be     *)
(* asked about counts as not there.                                        *)
RemoveDir(h, step) ==
  /\ wg' = IF step = "wireguard" THEN [wg EXCEPT ![h] = NoDir] ELSE wg
  /\ confD' = IF step = "ssh" THEN confD \ {h} ELSE confD
  /\ keyPairs' = IF step = "keys" /\ h.provider # "" THEN keyPairs \ {h} ELSE keyPairs
  /\ UNCHANGED active

(* Mutant: what fails is tried again.                                      *)
StepEndedRetrying(result) ==
  command' = IF result = "error" THEN command
             ELSE [command EXCEPT !.todo = Tail(@), !.results = Append(@, result)]

StepEnded(result) ==
  command' = [command EXCEPT !.todo = Tail(@), !.results = Append(@, result)]

RemoveLocal ==
  LET step == Head(command.todo)
      h == Job.host
  IN  /\ command.pc = "remove" /\ command.todo # <<>> /\ step # "inventory"
      /\ \/ /\ IF step = "tunnel" THEN TearDown(h) ELSE RemoveDir(h, step)
            /\ StepEnded("ok")
            /\ UNCHANGED <<faults, stuck>>
         \/ /\ Fault
            /\ step = "tunnel" => active[Interface[h]] # NoKey
            /\ \/ StepEnded("error")
               \/ step = "tunnel" /\ (StepEnded("skipped") \/ StepEnded("ok"))
            /\ stuck' = IF step = "tunnel" THEN stuck \cup {Interface[h]} ELSE stuck
            /\ UNCHANGED localState
      /\ settled' = settled \ {h}
      /\ UNCHANGED <<situation, inventory, servers, commands, gone>>

Decommission(h, r) ==
  Write("server", h, ServerRow("decommissioned", r.val.address))

(* The tables are opened as they are: not created.                         *)
RemoveInventory ==
  LET h == Job.host
  IN  /\ command.pc = "remove" /\ command.todo = <<"inventory">>
      /\ \/ /\ schema["server"] = "none"
            /\ StepEnded("error")
            /\ UNCHANGED inventory
         \/ /\ schema["server"] # "none" /\ ServersFor(h) = {}
            /\ StepEnded("skipped")
            /\ UNCHANGED inventory
         \/ \E r \in ServersFor(h), now \in Now :
              \/ Upsert(Decommission(h, r), now) /\ StepEnded("ok")
              \/ UpsertRaises(Decommission(h, r), now) /\ StepEnded("error")
      /\ UNCHANGED <<situation, localState, servers, commands, faults, stuck,
                     settled, gone>>

Removed ==
  /\ command.pc = "remove" /\ command.todo = <<>>
  /\ LET clean == "error" \notin Range(command.results)
     IN  /\ command' = Ended(command, IF clean THEN "ok" ELSE "warnings")
         /\ gone' = IF clean THEN gone \cup {Job.host} ELSE gone
  /\ UNCHANGED <<situation, localState, inventory, servers, commands, faults,
                 stuck, settled>>

-----------------------------------------------------------------------------
(* tunnel_up and tunnel_down.  An interface that cannot be asked about     *)
(* counts as down: wg-quick refuses to bring it up a second time, and for  *)
(* tunnel_down there is nothing to do.                                     *)

TunnelUp ==
  LET i == Interface[Job.host]
      conf == Found(Job.host).conf
  IN  /\ command.pc = "up"
      /\ \/ /\ conf = NoKey
            /\ command' = Ended(command, "failed")
            /\ UNCHANGED <<active, faults>>
         \/ /\ conf # NoKey
            /\ active' = [active EXCEPT ![i] = IF @ # NoKey THEN @ ELSE conf]
            /\ command' = Ended(command, "ok")
            /\ UNCHANGED faults
         \/ /\ conf # NoKey
            /\ Fault
            /\ command' = Ended(command, "failed")
            /\ UNCHANGED active
      /\ UNCHANGED <<situation, keyPairs, wg, confD, inventory, servers, commands,
                     stuck, settled, gone>>

TunnelDown ==
  LET i == Interface[Job.host]
  IN  /\ command.pc = "down"
      /\ \/ /\ TearDown(Job.host)
            /\ command' = Ended(command, "ok")
            /\ stuck' = stuck \ {i}
            /\ UNCHANGED faults
         \/ /\ active[i] # NoKey
            /\ Fault
            /\ \E report \in {"ok", "failed"} : command' = Ended(command, report)
            /\ UNCHANGED <<localState, stuck>>
      /\ UNCHANGED <<situation, inventory, servers, commands, settled, gone>>

-----------------------------------------------------------------------------
(* The command is interrupted, also in the middle of initialize.           *)
Crash ==
  /\ command.pc # "idle"
  /\ Fault
  /\ command' = Ended(command, "crashed")
  /\ UNCHANGED <<situation, localState, inventory, servers, commands, stuck,
                 settled, gone>>

CrashInInit ==
  /\ command.pc = "local" /\ command.todo = <<"init">>
  /\ Fault
  /\ InitializeStops
  /\ command' = Ended(command, "crashed")
  /\ UNCHANGED <<situation, localState, rows, second, servers, commands, stuck,
                 settled, gone>>

Progress ==
  \/ Pipeline
  \/ Remote
  \/ LocalStep
  \/ LocalStepsDone
  \/ Record
  \/ Recorded
  \/ RemoveLocal
  \/ RemoveInventory
  \/ Removed
  \/ TunnelUp
  \/ TunnelDown

Next ==
  \/ \E c \in situation.choices : Begin(c)
  \/ Progress
  \/ Crash
  \/ CrashInInit

(* An assumption, which the code does not enforce: what a command waits    *)
(* for returns.  wg-quick and wg are run with a timeout; SSH commands      *)
(* (ssh.py:82-85) and ssh-keygen (keys.py:34, 89) are not, and one that    *)
(* hangs holds up the command for ever.                                    *)
CommandsReturn == WF_vars(Progress)

Spec == Init /\ [][Next]_vars /\ CommandsReturn

-----------------------------------------------------------------------------
(* Properties.                                                             *)

WorkstationTypeOK ==
  /\ keyPairs \subseteq Hosts /\ confD \subseteq Hosts
  /\ settled \subseteq Hosts /\ gone \subseteq Hosts
  /\ \A d \in Dirs : wg[d].exists \/ wg[d] = NoDir
  /\ schema \in [Tables -> {"none", "view", "ready"}]
  /\ \A t \in Tables : schema[t] # "ready" => rows[t] = {}
  /\ \A t \in Tables : \A r \in rows[t] : r.from <= second /\ r.to <= second
  /\ command.report \in {"none", "ok", "failed", "warnings", "crashed"}
  /\ command.pc # "idle" => command.at \in DOMAIN command.jobs
  /\ command.pc \in {"remote", "local", "record"} =>
       command.at \in DOMAIN command.keys
  /\ commands <= situation.commands /\ faults <= situation.faults

(* The tables, as their views show them, are maps from keys to what was    *)
(* written last: whatever fails, dies or is written twice in one second.   *)
Current == INSTANCE CurrentTable WITH
  entries <- [t \in Tables |-> Entries(rows[t])]

InventoryIsCurrent == Current!Spec

(* No version is ever lost or changed but for its end, no version that was *)
(* superseded comes back, and a new one is the newest of its key.          *)
HistoryIsKept ==
  [][\A t \in Tables :
       /\ \A r \in rows[t] : \E s \in rows'[t] :
            /\ s.key = r.key /\ s.val = r.val /\ s.from = r.from
            /\ r.to # Forever => s.to # Forever
       /\ \A s \in rows'[t] :
            \A r \in rows[t] :
              r.key = s.key /\ (\A q \in rows[t] : q.key = s.key => q.from # s.from)
                => r.from < s.from]_rows

(* A run that is recorded has everything else that is recorded of it.      *)
IsRecorded(job, id) ==
  \A i \in DOMAIN Writes(job, id) :
    LET w == Writes(job, id)[i]
    IN  \E r \in rows[w.table] : r.key = w.key /\ r.val = w.val

RunsAreComplete ==
  \A r \in rows["run"] : IsRecorded(r.val, r.key)

(* Hosts that share neither name nor interface with another.               *)
Unshared(h) ==
  \A g \in Hosts \ {h} : g.name # h.name /\ Interface[g] # Interface[h]

(* And that no command bootstraps twice.  (All keys of a file are looked up *)
(* before the first is saved: the second bootstrap of a host can generate  *)
(* others than the first, and the first are kept.)                         *)
Once(h) ==
  \A c \in situation.choices :
    LET jobs == Selected(c)
    IN  \A i, j \in DOMAIN jobs :
          /\ jobs[i].kind = "bootstrap" /\ jobs[i].host = h
          /\ jobs[j].kind = "bootstrap" /\ jobs[j].host = h
          => i = j

(* An apply, of whatever number of specs, that ends well has applied and   *)
(* recorded every one of them that it did not warn about, and a fleet that *)
(* is told to continue gets to its end; services show in the inventory     *)
(* (under a host without provider); after a rotation every user has the    *)
(* one new password (not a role that existed).                             *)
ReportsAreTrue ==
  LET c == command
      IsLast(writes, k) ==
        \A m \in DOMAIN writes : m > k => writes[m].key # writes[k].key
  IN  c.pc = "idle" /\ c.op = "apply" =>
        /\ c.report = "ok" \/ (c.report = "failed" /\ c.fleet /\ c.continue) =>
             Len(c.outcomes) = Len(c.jobs)
        /\ c.report = "ok" =>
             \A i \in DOMAIN c.jobs :
               LET job == c.jobs[i]
                   id == [number |-> commands, at |-> i]
               IN  /\ c.outcomes[i] # "failed"
                   /\ job.kind = "bootstrap" => deployed[job.host] # NoKey
                   /\ job.secret = "user" => password[job.host] = Secret
                   /\ c.outcomes[i] = "success" =>
                        /\ IsRecorded(job, id)
                        /\ Len(c.jobs) = 1 /\ job.host.provider = ""
                             /\ job.kind # "bootstrap" =>
                             LET writes == ResultWrites(job)
                             IN  \A k \in DOMAIN writes :
                                   IsLast(writes, k) =>
                                     <<writes[k].key[2], writes[k].val>>
                                       \in Shown(job.host)

(* A host whose bootstrap succeeded without a warning can be reached until *)
(* it is removed: the configuration that tunnel up finds is of the keys    *)
(* the server has, and the ssh fragment is in conf.d.  (Not with a provider *)
(* and keys that were generated: these stand in the flat directory, which  *)
(* is found first and has no configuration.  Nor does ssh read a fragment  *)
(* in a provider's subdirectory: ssh_config.py:127 includes base/* only.)  *)
SettledIsReachable ==
  \A h \in settled :
    Unshared(h) /\ Once(h) =>
      /\ h \in confD
      /\ h.provider = "" \/ ~wg[Flat(h)].exists => Found(h).conf = deployed[h]
      /\ wg[h].conf = deployed[h] /\ wg[h].key = deployed[h]

(* The tunnel behind an interface is that of the host it is named for, as  *)
(* last configured: to the server's keys, if its bootstrap succeeded.      *)
(* (Not after a removal that could not tear it down.)                      *)
TunnelIsOwn ==
  \A h \in Hosts :
    LET i == Interface[h]
    IN  Unshared(h) /\ Once(h) /\ active[i] # NoKey /\ i \notin stuck =>
          /\ active[i] = wg[h].conf
          /\ h \in settled => active[i] = deployed[h]

(* Nothing is left of a host that was removed without an error, whatever   *)
(* is done to others, until it is applied again.  (Not its tunnel, when it *)
(* could not be torn down; nor the keys in the flat directory.)            *)
RemovedIsGone ==
  \A h \in gone :
    /\ h \notin keyPairs /\ h \notin confD
    /\ Unshared(h) =>
         /\ ~wg[h].exists
         /\ Interface[h] \notin stuck => active[Interface[h]] = NoKey
    /\ \A r \in CurrentOf(rows["server"], h) : r.val.status = "decommissioned"

(* What the inventory shows of the services filed under host g.            *)
ServicesOf(table, g) == {r \in View(table) : r.key[1] = Flat(g)}

(* A command about host h leaves what this machine keeps of another host   *)
(* as it is: key pairs, ssh fragment, tunnel, rows of the inventory and    *)
(* the whole WireGuard directory.  What is shared by name is all there is  *)
(* to except: an interface of the same name; the rows of services, which   *)
(* hosts of one bare name share; and the directory of the host without     *)
(* provider that has h's name: there, where no key is saved yet, keys      *)
(* generated for h may be put (persist_wireguard_keys), but the            *)
(* configuration stays.  A key of h itself is lost by its removal only.    *)
OthersAreLeftAlone ==
  [][LET h == Job.host
     IN  command.pc # "idle" =>
           /\ \A g \in Hosts \ {h} :
                /\ g \in keyPairs <=> g \in keyPairs'
                /\ g \in confD <=> g \in confD'
                /\ Interface[g] # Interface[h] =>
                     active[Interface[g]] = active'[Interface[g]]
                /\ CurrentOf(rows["server"], g) = CurrentOf(rows'["server"], g)
                /\ g.name # h.name =>
                     ServicesOf(rows["service"], g) = ServicesOf(rows'["service"], g)
           /\ \A d \in Dirs \ {h} :
                \/ wg'[d] = wg[d]
                \/ /\ d = Flat(h) /\ wg[d].key = NoKey
                   /\ wg'[d].conf = wg[d].conf
           /\ wg[h].key \in {NoKey, wg'[h].key} \/ command.op = "remove"]_vars

(* When a bootstrap fails or dies before its local steps save anything,     *)
(* the keys that it put on the server survive: they are saved somewhere on *)
(* this machine, unless they came from the spec's key file.  (It is what   *)
(* persist_wireguard_keys is there for, but a host with a provider has its *)
(* keys looked up in one directory and saved in another: when the latter,  *)
(* of the bare name, has keys of a host that was removed, of an apply that *)
(* died, or of a namesake, the fresh ones are deployed and saved nowhere.) *)
DeployedKeysAreSaved ==
  [][/\ command.pc = "remote" /\ command'.pc = "idle"
     /\ Job.kind = "bootstrap" /\ ~Job.keyFile
     /\ deployed'[Job.host] = Key
     => \/ \E d \in Dirs : wg[d].key = Key
        \/ Job.host.provider # "" /\ wg[Flat(Job.host)].key # NoKey]_vars

(* Every command comes to an end, provided that what it waits for returns: *)
(* no failure, in whatever step of whatever job, leaves it with nothing to *)
(* do.                                                                     *)
EveryCommandEnds == command.pc # "idle" ~> command.pc = "idle"
=============================================================================
