# Verification of loft-cli

TLA+ models of loft-cli, the tool that bootstraps and manages servers from YAML
specs, the TLC configurations that check them on small instances, and TLAPS
proofs of what matters most for every value of the constants. Paths below are
relative to `src/packages/` (`client/loft_cli`, `agent/loft_cli_agent`,
`core/loft_cli_core`), unless they start with `README` or `docs/`.

## 1. The system

| Part | State it keeps | Operations | What makes it correct |
|---|---|---|---|
| Client executor (`client runtime/executor.py`) | step results, abort position, remote and local failure flags | run a plan's steps in order: skip, execute, abort, verdict | dependents of failures and steps behind a stop never run; a success has passed over nothing but what local failures held back; the status is truthful |
| Bootstrap planner (`compiler/planner.py`, `runtime/steps/*`) | none (pure) | spec to ordered steps with gates and dependencies | sshd is never restricted before the replacement access is proven |
| Credentials and bootstrap apply (`cli.py _apply_single`, `runtime/ssh.py`, `checks/ssh.py`, `local/tunnel.py`) | the SSH session, the port it is on; on the server: users, keys, sshd configuration and daemon, ufw, WireGuard | probe which stage the server is in, run the plan, repeat after a failure | the operator keeps a way in; a reported success is one |
| WireGuard key store (`local/wireguard_store.py`, `compiler/normalizer.py`) | a directory per host, under the base or under a provider | reuse or generate keys, persist before the server changes, save client.conf | the running server's keys are never lost |
| Agent executor (`agent executor.py`, `state.py`) | `runtime-state.json`: id -> hash, status | apply a plan: dependencies, change detection, policy, gates; save at the end | what is recorded happened; what is reported unchanged was applied |
| Agent doctor (`agent cli.py`) | reads desired and runtime state | missing, drifted, orphaned | agrees with what apply calls success |
| Mutation lock (`agent lock.py`) | `/var/lib/loft-cli/lock` and `flock` on its inode | open, lock or refuse, release, unlink | one apply at a time; a dead holder blocks nobody |
| Agent host (`agent cli.py apply`, `runtime/agent_transport.py`) | `plan.json`, `last-result.json`, desired state, runtime state, all shared | upload, invoke, download | a client is told about its own apply |
| Planners of the other kinds (`compiler/planner.py`, `runtime/steps/*`) | none (pure) | spec to steps: service, file template, compose project, postgres ensure, backup job, systemd unit and timer, HTTP check, package; stack and blueprint nest them | what the steps of an accepted plan build on is made by steps before them; resources stand behind what they depend on |
| Agent-mode composition (`cli.py _apply_single`, `agent_installer.py`) | both results, the agent's version | choose a mode, agent apply, whole plan again over SSH, merge | a reported success left the server as the spec says; an apply that can succeed does |
| Fleet, files of several specs, selectors (`cli.py`, `local/fleet.py`, `selector.py`) | an outcome per host | sequential loop | each selected host exactly once; failures surface |
| Secret rotation (`runtime/secret_rotation.py`, `cli.py`) | none that is saved | a new value, applied spec by spec | afterwards all users have the one new value |
| Local inventory (`local/inventory*.py`, `local/ddl/*`) | versioned SQLite tables, their views and triggers | create; insert into a view closes a version and opens one | the views show what was written last; history is kept; a run is recorded whole |
| Tunnels (`local/tunnel.py`) | WireGuard interfaces of the operator's machine | up, down | an interface leads to the host it is named for |
| Server removal (`local/remove.py`, `ssh_config.py`) | all of the operator's files about a host | tunnel, keys, ssh fragment, key pair, inventory row: five best-effort steps | nothing of the host stays behind, and nothing of another is touched |
| Policy and approval tokens (`core policy.py`) | rules, tokens | decide per step | not modelled: an input of the agent executor |
| Validators, loader, registries, addons, checks, updater, rendering, logs | little or none | mostly pure functions or I/O | see `PROJECT.json`, `components` |

**Interaction.** `_apply_single` loads and validates a spec, normalizes it
(WireGuard keys come in here), plans it, and then either runs `Executor.apply`
over SSH (client mode) or uploads the plan, runs `loft-cli-agent apply` on the
server, reads a result file back, and runs the whole plan over SSH after all (agent
mode). What was applied is recorded in the operator's local inventory; removal,
tunnels and later applies work on what earlier commands left there and in the key
store, by the host's name. The two executors share the
plan model and nothing else: they differ in what a failed dependency, a first
step and an unchanged step mean. Bootstrap steps are shell commands on the
server plus a few local ones; steps and gates communicate only through the
server, the client's files and the effective port of the transport. Server-side
agents of several clients share all their files.

**What is hard.** The client is one thread, but it may die between any two
steps and be run again on what it left; each remote command may fail with or
without its effect; reconfiguring sshd cuts the branch one sits on; on the
server, several agents interleave file by file and may be killed anywhere. On the
operator's machine, each command may be interrupted or fail half-way and leave
directories, interfaces and rows that the next one, perhaps for another host of the same
name, takes for its own.
`PROJECT.json` lists every such hazard at its line with the properties that
cover it.

## 2. Modules

| Module | Models | Extends |
|---|---|---|
| `Steps` | scopes and steps of a plan (`core plan/models.py`) | |
| `ApplyContract` | what an apply promises, without saying how: steps are performed in order, never behind a failed stopper or on a failed dependency, and the verdict tells the truth about what failed | `Steps` |
| `ClientExecutor` | `Executor.apply`: one action per branch of its loop | `Steps` |
| `ClientExecutorProofs` | proofs about it, and that it implements `ApplyContract` | |
| `BootstrapPlan` | `plan` and `_plan_bootstrap`: one operator per block of steps | `Steps` |
| `BootstrapPlanProofs` | what every compiled bootstrap plan has, and in which order | `BootstrapPlan` |
| `WireguardStore` | the two writers and the lookup of the key store as functions of a record | |
| `BootstrapApply` | composes the three above with the server, the client machine and `_apply_single` | |
| `BootstrapApplyProofs` | proofs about applies of such plans: types, results, access | `BootstrapApply`, `BootstrapPlanProofs` |
| `AgentExecutor` | `AgentExecutor.apply`, runtime state, doctor | `Steps` |
| `AgentExecutorProofs` | proofs about it | |
| `MutationLock` | the lock as four system calls over inodes, process death | |
| `AgentHost` | several clients' `apply_plan` and their agents on one server | `MutationLock` |
| `AgentHostProofs` | proofs about the lock and the host | |
| `SpecPlans` | the planners of every kind but bootstrap, the sort of a stack's resources, and the rules for stacks and blueprints | |
| `SpecApply` | composes `SpecPlans`, `ClientExecutor` and (as an instance) `AgentExecutor` with a server and `_apply_single` | `ClientExecutor`, `SpecPlans` |
| `SpecApplyProofs` | proofs about applies of the other kinds: types, that a reported success is in place, which applies succeed | `SpecApply` |
| `Versioning` | a versioned table as functions of a set of versions: what the generated triggers do | |
| `CurrentTable` | what the views promise, without saying how: maps from keys to what was written last | |
| `Workstation` | the operator's machine under all commands: key pairs, key store, ssh fragments, tunnels, inventory | `Versioning`, `WireguardStore` |
| `VersioningProofs` | lemmas about what an upsert makes of a table | `Versioning` |
| `WorkstationProofs` | proofs about the machine: its types, that the inventory implements `CurrentTable` and keeps its history, complete runs, removal, reachability, tunnels, reports | `Workstation`, `VersioningProofs` |
| `MC...` | instances for TLC | |

### State and actions against the code

*ClientExecutor.* `plan`, `results`, `abortedAt`, `gateSkippedAt`, `remoteFailed`,
`localWarnings` are the locals of `Executor.apply`; `status` is the result's
status, "running" before it exists; `ran` is a history variable, the positions
that reached `_execute_step`. `SkipDependent`, `SkipBehindGate` and
`ExecuteStep` are the three ways through the loop body, `Finish` the code behind
the loop. A handler is one of its outcomes; an exception inside it is "failed",
as `_execute_step` makes it.

*BootstrapPlan.* A step is its id, scope, gate flag and dependencies; the
command is looked up by id in `BootstrapApply!Effect`. Dependencies given by id
are resolved to positions at the end, as the code does.

*BootstrapApply.* `server` has, for sshd, the configuration file (`conf`) and
what the daemon last loaded (`run`), and the firewall's rules whether active or
not: most lock-outs live in the difference. `RunRemote` is a command over SSH,
with its effect, a failure (`faults`, `faulted`), and the loss of the session;
`CheckLogin` and `CheckTunnel` are the two kinds of gates; `RunLocal` the
client-side steps; `Start` the choice of credentials by probing; `Crash` the
client's death between two steps. The loop around them is `ClientExecutor`'s.
Abstractions: `allow_ports` and `checks` are empty; the goss test generator
succeeds; `ssh_config` and the inventory are on and succeed; keys are not
selected by `private_key_file`; ufw denies by default; `sshd_config` has a
`PermitRootLogin` line; the login user is root; the server's and the client's
WireGuard key pairs of one apply are one generation number; a gate is one step
(no crash in the middle of one). `SkipBehindGate` is left out there since no
built-in handler of a bootstrap plan reports "skipped".

*AgentExecutor.* The hash of id, command, content and path is a revision number.
`host`, `executed`, `succeeded`, `everFailed`, `rolledBack` are history. A
failing command may or may not have had its effect. State is read by `Start`
and written by `Finish`, by a rename, so `Crash` loses exactly what was in memory.

*MutationLock, AgentHost.* A path is bound to an inode or to none; `Open` creates
the file if there is none, `Acquire`/`Refuse` is the non-blocking `flock`,
`Release` and `Unlink` are two steps as in `__exit__`. `raced` remembers that a
file was unlinked while another process had it open. In `AgentHost` each client
goes through `Stages`, one action per access to a shared file; the work of an
apply is one step (the interleavings that matter are those of the files).
`Kill` is an agent's death at any stage.

*SpecPlans.* One operator per block of steps a planner appends. A step is its id,
scope, kind, gate flag, "always" tag, the operation its command performs (`op`), what
it is about (`item`), and `content`, which stands for what the agent hashes and,
in its last digit, for the revision of the file, image or role. `TopoSort` is
`_topo_sort`: depth first, in the order of the resources, cutting cycles.

*SpecApply.* `server` has four functions of the items a spec speaks of (files, units,
sites, containers, roles): what is on disk, with which mode, what the daemon has
loaded, what is running. Most of what can go wrong is a difference between these.
`...Effect` and `...Works` are, for each module of `runtime/steps/`, what its
commands do and when they succeed; `Client...` and `Agent...` are the handlers in
which the executors differ (checks, compose health, empty uploads, AGENT_COMMAND).
`Start` chooses the mode, `AgentExecutes`, `AgentSkips` and `AgentFinishes` are steps
of `AgentExecutor`, `Download` reads the result and begins the second pass,
`ClientExecutes` and `ClientFinishes` are steps of `ClientExecutor`, `Report` merges.
Accidents: `AgentIsKilled`, `ClientCrash`, `LoseState`, and a step that fails with or
without its effect. Abstractions: revisions are 1 and 2; a container project is
healthy, unhealthy or has no health check for a whole behaviour; nobody but the tool
changes the server; the policy allows everything (`AgentExecutor` has the others).

*Versioning, CurrentTable, Workstation.* A version has a key, the rest of the row, and
the seconds from and to which it is valid; `Upserted` is the INSTEAD OF trigger,
`Raises` the primary key. In `Workstation`, `command` is the command that runs with its
position: `Pipeline` (`_build_pipeline`), `Remote` (all that happens on the server),
`LocalStep` for each of the local steps, `Record` for each row written by the kind's
inventory hook, `RemoveLocal` and `RemoveInventory` for the steps of `remove_host`,
`TunnelUp`, `TunnelDown`. `Crash` interrupts it anywhere, `CrashInInit` between the
creation of a view and that of its triggers, where `initialize` may also fail
(`InitializeStops`: some tables are done, the next is half made); a `Fault` is one step
that fails. A `Remote` that fails with its effect is also the client's death in the middle
of an apply. The tunnel that an apply brings up to test it, and takes down again, is
`BootstrapApply`'s.
`deployed` and `password` are what the servers have. Abstractions: keys are numbers,
a selector is a set of labels, of the domain tables there are `server`, `service` and
`run`; clocks do not go backwards.

## 3. Runs

| Run | Asks | Bounds | Distinct states |
|---|---|---|---|
| `client_executor` | types, `NoDependentOfFailureRan`, `NothingRanBehindStop`, `VerdictIsTruthful`, `SuccessCoversPlan`, `ImplementsContract` | all plans of up to 3 steps, chains of 4 | 83,432 |
| `bootstrap` | types, `HardenedMeansAdminAuth`, `SuccessMeansControl`, `NeverLockedOut`, `RunningTunnelHasSavedKeys`, `VerifiedWhereTunnelCanBeTried` | 24 situations, 2 applies, 1 failing command, crashes anywhere | 302,101 |
| `agent_executor` | types, `RecordsAreTrue`, `NothingBehindGate`, `DependentsAreSkipped`, `SuccessConverges`, `DoctorAgrees` | 6 plans, 3 policies, 3 applies, kills anywhere | 717,236 |
| `agent_host` | types, `ExclusiveUnlessUnlinkRace`, `NoLostUpdateUnlessUnlinkRace`, `ResultIsOfAnApply`, `JobEnds`, `RefusedOnlyWhileHeld` | 2 clients, 3 applies, 2 inodes | 124,079 |
| `spec_apply` | types, `SuccessMeansInPlace`, `CleanApplySucceeds`, `AcceptedStackIsOrdered`, `EveryApplyReports` | 2 or 3 applies of specs of every kind (4 of a stack with a gate in front of a container) in 2 revisions, with and without an agent, at most 1 accident; all 512 dependency graphs on 3 resources, as stack and as blueprint | 40,573 |
| `workstation` | types, `RunsAreComplete`, `ReportsAreTrue`, `SettledIsReachable`, `TunnelIsOwn`, `RemovedIsGone`, `InventoryIsCurrent`, `HistoryIsKept`, `OthersAreLeftAlone`, `DeployedKeysAreSaved`, `EveryCommandEnds` | 2 hosts (unlike, of one name, of one interface), up to 4 commands, 2 faults, 4 seconds | 238,373 |
| `bootstrap_tunnel_gate` | refutes `OpenRuleDeletedOnlyVerified` | no failing command | |
| `bootstrap_gate_failure` | refutes `GateFailureKeepsAccess` | no failing command | |
| `agent_failed_step` | refutes `UnchangedWasApplied` | as `agent_executor` | |
| `agent_dependency` | refutes `DependenciesSucceeded` | as `agent_executor` | |
| `mutation_lock` | refutes `MutualExclusion` | as `agent_host` | |
| `agent_result` | refutes `ReportIsOfOwnRun` | as `agent_host` | |

Each property is stated in English where it is defined. The six runs that refute
one check a sentence of the documentation or of a docstring that the code does
not keep; `PROJECT.json` quotes it under `findings`:

1. The tunnel gate reports success when it could not be tried (sudo cannot be run,
   wg-quick times out, or the client configuration is looked for in the wrong
   directory), and the open SSH rule is deleted all the same. (Where sudo runs and
   wg-quick is missing, sudo exits with an error and the gate fails, as it should.)
2. The new SSH port is written before it is opened. After a crash between the
   two, on a server with an active firewall, the re-apply's pubkey step
   reloads sshd and moves it to the closed port.
3. The agent records the hash of a failed step; the next apply calls the step unchanged.
4. The agent runs steps whose dependency was skipped or filtered out as local.
5. The lock file is unlinked after the lock's release: two agents hold two inodes.
6. `apply_plan` returns whatever the shared result file says, also after its own
   agent was refused or killed.

`NeverLockedOut` and `VerifiedWhereTunnelCanBeTried` say that findings 1 and 2
are the only ways it goes wrong: their exceptions are those scenarios and, when a command
fails, three steps of the bootstrap plan (`KeepersOfAccess`). Opening the new port and allowing
SSH on the WireGuard interface are no gates, so the apply goes on after their
failure to enable the firewall or delete the open rule, and the tunnel gate reports
success when it is cut short. Each of the three locks the operator out alone; no other
step of the plan does. `ExclusiveUnlessUnlinkRace` and
`NoLostUpdateUnlessUnlinkRace` do the same for finding 5.

**What the properties leave out.** Some of them would be false of this code as a user
would first put them. Their exceptions are named in their comments, and are
behaviours worth knowing:

- *Apply.* The agent finds the stop and remove steps of a container unchanged when
  only its image changed, so that its run of the plan fails on the name in use; the
  second run over SSH repairs the server but the merged status stays "failed", and only
  the next apply succeeds. Where a gate stands in front of the container (a stack
  with a `postgres_ensure` before it) the agent's first run may end at the gate, the
  second fails on the name, and only the third succeeds. `RunsNeeded` of
  `CleanApplySucceeds` has these numbers: one over SSH, two or three in a row through the
  agent. It says nothing of plans that ask for a daemon before they start it
  (`Premature`): whether their first check fails depends on the server's past.
  `Hopeless` names the plans that never succeed: the service kind's HTTP health check,
  since no handler knows its command; a check for nginx or postgres that nobody starts;
  an unhealthy project; and, through the agent, a check of SSH or the health of a
  project without health check. An unhealthy one passes the agent's check and fails
  the client's. A running container is checked for its existence only. A
  template that could not be rendered in a stack is uploaded empty: the agent
  refuses it, the client does it. `configure_postgres_listen` is never loaded by a
  postgres that runs (`SuccessMeansInPlace` asks for the file only), and
  compose files without a mode of their own stay at the upload's 600.
  The second run repeats the whole plan, past the agent's policy.
- *Stacks.* A blueprint's dependencies are not validated; circles are cut. The
  dependencies of a stack order its steps, but a failed resource does not stop those
  that depend on it.
- *Keys.* Generated keys are kept under the bare name, the client configuration
  under provider and name; `tunnel up` looks at the former first, so it never works for
  a host with a provider and generated keys, and removal leaves these keys behind
  for the next host of that name. `validate`, `plan` and dry runs save keys too.
  `OthersAreLeftAlone` excepts such a write, provided the directory has no key yet. When it
  has (left by a removal, by an apply that died, or by a namesake with another provider),
  `persist_wireguard_keys` writes nothing, and an apply that dies before its tunnel gate
  leaves a server with keys that are saved nowhere, against what its docstring is for
  (`wireguard_store.py:195`) and what the directories of providers are said to prevent
  (`:19`). `DeployedKeysAreSaved` has this one exception: TLC finds the behaviour
  (bootstrap, removal, second bootstrap dies) when it is dropped.
  The `Include base/*` line of the ssh configuration (`ssh_config.py:127`) does not match
  fragments in a provider's subdirectory: `SettledIsReachable` only says that the fragment
  is there, not that ssh reads it.
- *Tunnels.* Hosts whose interface names agree in 15 characters share a
  tunnel. A removal that cannot tear down the tunnel reports success.
- *Inventory.* After a crash between a table's view and its triggers every later write
  raises. Services and runs are filed under the bare host name: `inventory show` of a
  host with a provider shows none, and hosts of one name overwrite each other's service
  rows (`OthersAreLeftAlone` compares those of hosts with different names). A second change of a row within a second raises after
  the rows before it were written.
- *Fleet.* Files that cannot be parsed are passed over in silence, invalid specs are
  applied after their errors were printed, and specs are read before the env file.
- *Rotation.* The new secret is only in the process's environment, which is never
  saved; service roles that exist keep their password.

**Why the bounds are enough.** An executor step looks at earlier results and its
own flags only, so three arbitrary steps show every pair of dependency, gate
and victim with one step before or between them, and chains of four show that a
skip does not propagate. For bootstrap, every hazard needs an apply that leaves
something and one that meets it: two applies; with two failing commands
5.9 million states were explored once without an error (the search, of depth 85 with
one, was ended at depth 65). Three agent applies
give first, changed and repeated (or rolled back) revisions; four were explored
once too. For `spec_apply`, an apply that leaves something, one that meets
it and, through the agent, one more whose steps are unchanged: three applies where
an agent takes part (four where it takes three until one succeeds, so that another can follow),
two otherwise; nothing in a plan refers to more than one
earlier revision. Every spec has one item of each sort, and the two-project situation
is there for the ids that projects share. For `workstation`, the histories of concern are
bootstrap, (re-)bootstrap or tunnel, removal and what comes after: three commands on a pair
of hosts, four on one; two hosts are enough since every step concerns one host and
what it can share with others. Time stamps only matter as equal or later.
Two clients with three jobs let one client be overtaken twice; at most
as many inodes are in use as there are processes. `MaxApplies`, `MaxFaults`,
`MaxJobs`, `MaxCommands` and `MaxSeconds` are the only bounds in guards; in `spec_apply` and
`workstation` each situation has its own bounds below these (`applies`, `accidents`;
`commands`, `faults`, `seconds`). Deadlock checking is off because every
system here legitimately ends: an apply returns, or a bound is reached.

**Fairness.** The liveness properties rest on a named assumption, that what the tool
waits for returns, and the code does not enforce all of it. HTTP requests, polls,
`wg-quick` and `wg` on the operator's machine (`tunnel.py:96, 142`) and the commands the
agent executes (`agent executor.py:236`) have timeouts. Commands over SSH have none
(`ssh.py:82-85`; `connect_timeout` is for the connection), nor has `ssh-keygen`
(`keys.py:34, 89`): one that hangs keeps the tool waiting for ever, and no property here
says otherwise. What the properties show is that, given this, the tool's own control never
leaves an apply or a command with nothing to do, whatever fails.

- `SpecApply!ApplySpec` and `Workstation!Spec` have `CommandsReturn`, weak fairness of
  `Progress`, what a running command does next: the same assumption.
- `AgentHost!Spec` has `WF(Advance(c))` for every client: the agent's commands time out
  and the lock is refused, never waited for. That the client's own SSH call returns, which
  waits for the agent, is assumed.

No fairness is assumed for starting a command or an apply, for faults, kills or crashes.
`ClientExecutor`, `BootstrapApply` and `AgentExecutor` check safety only; that the loop over a
plan ends is part of `EveryApplyReports`.

## 4. Proofs

Each theorem below is for every value of the constants; what is assumed of these is
the named assumption of each module, which TLC evaluates on the instances of the runs.

`ClientExecutorProofs`: for every set of plans, whatever their scopes, gates and
dependencies (`PlansAssumption` is only their type). The invariant `IInv` adds to
the checked invariants `Bookkeeping`: the loop's flags are summaries of the
results so far (`remoteFailed` and `localWarnings` hold exactly when there is a
failure of that kind that did not stop the loop, a loop that was not stopped has
seen no fatal failure, failed positions were run). Without it a verdict computed
from flags says nothing about results. The theorems `TypeCorrect`,
`DependentsNeverRun`, `GatesStop` and `TruthfulVerdict` follow; `NothingIsPassedOver` needs
`Accounts` beside it: a step that did not run, in a loop that was not stopped, has a gate
skipped by its handler or a local failure to show for it, and `gateSkippedAt` is such a gate.
`Refinement` uses the invariant and the verdict to map each step of the loop to a step of
`ApplyContract` or a stutter.

`BootstrapPlanProofs`: for every bootstrap spec (`BootstrapSpec`: all combinations of
its options, any ports), what `PlanOf` compiles. Every id has a `Stage`; each block of
`_plan_bootstrap` is shown to have steps of its stages only, in order, so that their
concatenation is in order, too (`InOrder`), and to contain what the spec asks for
(`IsComplete`). `PlansAreSafe` is what the apply rests on: gates and local steps are
those of the table, the steps that take access away depend on the gate that checks
what replaces it, and stages never go back.

`BootstrapApplyProofs`: for every set of situations (a spec and an environment,
`SituationsAssumption`: sshd accepts keys where the login is by key) and any bounds
(`BoundsAssumption`). The argument goes from the plan to the results, from these
to the server, and ends with access:

- `ResultsInv`: what results an apply of such a plan can have (no step is skipped that
  depends on nothing, an apply that goes on has had every gate succeed, a success has all
  steps). With `PlansAreSafe` it turns "this step is running" into "these steps
  of earlier stages have succeeded".
- `AdminInv`: once the second gate succeeded, or if root login or passwords are off in
  the configuration file or in the daemon, the admin can log in by key. It has to speak of
  file and daemon both: the file is written long before the reload, and a later apply
  reloads what an earlier one wrote. Hence `HardeningIsSafe`, and with what each
  succeeded step leaves behind until the end of its apply (`EffectsHold`), `SuccessIsControl`.
- `TunnelKeysAreSaved` and `VerifiedInv`: a login through the tunnel was one that the saved
  keys still give; `TunnelInv`: where nothing is wrong with the client, success of the
  tunnel gate was such a login. Hence `DeletionIsVerified`.
- `AccessInv` and `LockInv`: the port that sshd listens on is the old or the new one, and
  stage by stage which of the two, or the tunnel, the firewall lets in. Hence
  `AlwaysAWayIn`, under the premises that `NeverLockedOut` names: no failure of the three
  steps that keep access, a client that can use sudo, no provider together with
  WireGuard, no crash in front of a firewall that was active before.

`AgentExecutorProofs`: for every set of plans, every set of policies and any number
of applies. The theorems are the types (`TypeCorrect`), that what the
runtime state says of a step happened (`RecordsNeverLie`), that a gate that failed or
was skipped is the last step (`GatesStop`), that dependents of failures are skipped
(`DependentsNeverRun`), and that doctor agrees with a reported success
(`SuccessSatisfiesDoctor`). The invariant `IInv` adds how far the loop is (`InOrder`: the
handled steps are the first of the server's), why it stopped (`StopsAreNoted`), that
a skip has a failure behind it (`SkipsHaveCause`), and `MemoryFollows`: the state in memory
has each step that succeeded or was called unchanged, with the plan's own
content if no other step of the plan has its id (`Alone`). Ids do repeat (two checks
of one type; uploads to `/etc/a/b` and `/etc/a_b`), and the later step overwrites the
record of the earlier: such a step is applied every time and doctor calls it drifted.
That the loop finds a next step at all is the least-number principle
(`LeastNumber`, from the library's well-founded induction). `SuccessesConverge` needs
`ForwardInv` beside it: a step counted as unchanged was not executed, and what is on the
server need not be what is recorded (an agent that was killed has executed what it never
saved; of two steps with one id the second overwrites). While no plan goes
back, a record that is as new as all that was executed of its id is in place
(`NewestIsInPlace`), the file is not ahead of the plan (`FileIsNotAhead`), and a plan asks for
the newest of each step with an id of its own (`AsksForTheNewest`).

`SpecApplyProofs`: for every set of situations (specs, items and accidents), both modes, and
any number of applies, provided compiled plans are `WellPlanned` (`CompiledAssumption`). That is a property of what
the planners concatenate: which operations speak of what sort of item (`IsPlanned`), what has to stand behind
what in a plan (`WellOrdered`: a `restart_unit` behind the `systemd_daemon_reload`, that behind the unit's file),
and that each step has in front of it those it needs (`Supplied`: a `run_container` behind the
`remove_container` of its name and the start of docker).
TLC evaluates it for every spec of the run, in both revisions; for all specs it is an induction
over lists of data, which this prover cannot do. It asks that no two steps of a plan have the
same id: two checks of one type do, and the theorems do not speak of such a plan. Nor do they of a
container or a project that has the name of a daemon, or of a list of packages that is just
`nginx`. The invariant
`ApplyInv` says that a second pass that has not failed has `Settled`, on the server,
all steps up to where it is. `Settled` is one conjunct for each thing a plan may leave
undone (a file written, its mode set, a daemon that runs, a site that is served...), each
with the exceptions that make it inductive: a file written is only in the daemon's memory
once a later step reloaded it. `EveryStepChanges` says, module by module, what a step can change at all,
and the lemmas `Steps...` show that no step undoes what an earlier one has settled. Hence
`SuccessIsInPlace`; `SpecApplyTypeCorrect` is the types.

`CleanAppliesSucceed` is the converse: an apply without accidents of a plan that can be carried
out (`Fine`) succeeds after as many runs as `RunsNeeded` says, and one of a `Hopeless` plan
does not. `SuccessMeansInPlace` would hold of a tool that always fails; this does not. The
invariant `CleanInv` has these parts:

- Over SSH. A run that has failed nowhere has `Settled` the steps behind it, hence the server
  is `Ready` (`SettledIsReady`) and `Supplied` turns that into the precondition of the
  next step, module by module (`FinePasses`); a hopeless step fails whatever the server is
  (`HopelessFails`). Containers are the exception: `docker run` wants the name
  free, which stop and remove have seen to (`ContainersCleared`).
- Through the agent, the steps it takes for unchanged are not executed, so it cannot rest on
  what it has done itself but on what the run before has left. What `Ready` says stays
  between clean applies of one job (`ServerIsReady`), since it speaks of files that
  are there and daemons that run and of no revision.
- Containers again: once the agent has got to them, its state has their stop, remove and
  run steps with the revision of the job, and the next run skips all three
  (`ContainersOnDisk`, `ContainersStay`). It gets there in its first run unless a gate ends that
  before (`EndsBehindContainers`); the SSH run behind it lets the gate pass from then on.
- Hence `NothingFails`, `LastResultIsRight` and, with the merge of the two verdicts,
  `VerdictIsRight`.

The proof has corrected the property. It used to ask for two runs through the agent and to take
for hopeless what no apply over SSH can do; a gate in front of a container and a check for a
daemon that nobody starts, or that starts later, were counterexamples outside the situations of
the run. They are situations of the run now.

`AgentHostProofs`: for any set of processes and inodes and any number of jobs.
First the lock alone (`LockInv`): an open file's inode is the path's inode unless
it was unlinked, at most one process holds each inode, and until a race all open
files are the same inode; hence `LockExcludes`. Then the host (`HostInv`): who holds
what follows from the stage, a plan in hand is an uploaded one, what an agent
holds in memory under the lock contains all that is on disk until a race, hence
`AgentsExclude`, `NoLostUpdate` and `ResultsAreReal`. `RefusalsAreJustified` is an action
property: who is refused has found the lock with another process, and the invariant knows at
which stage that process is.

`WorkstationProofs`: for every set of hosts, providers, interfaces and commands, and any
number of commands and faults. `HostsAssumption` says that a situation has finitely
many hosts and that a host is its provider and its name, `ChoicesAssumption` that a command
is one of the four with a sequence of jobs about hosts of the situation.

- The inventory. `InventoryInv`: a key has
  at most one open version (`OneOpen`), which is what makes what the triggers do an update
  of a map: the lemma `UpsertPuts` of `VersioningProofs` says that an upsert changes the
  view at its key and nowhere else. The lemma `InventorySteps` reduces every step of
  the machine to one that writes one row, reads the clock or leaves the tables alone, from which
  `InventoryRefines` shows that the tables implement `CurrentTable`. `HistoryKept`
  needs the clock, too (`RowsAreOld`: no version is younger than the last second seen), without
  which a new version need not be the newest.
- Types (`WorkstationTypeCorrect`): where a command is determines what it has left to do
  (`ControlInv`); tables without triggers are empty (`SchemaInv`).
- `RecordedRunsAreComplete`: while a job is recorded, what is left to write is a suffix of
  its writes and all before it is in the tables (`RecordInv`); the run is the last
  of them, and rows never go (`HistoryKept`), so each run in the table has the others
  (`RunsInv`).
- `OthersStay`: each step changes directories, fragments, key pairs, tunnels and rows of
  its host's names only, by cases over the steps, of the store (`StoreKept`), the tunnels, the
  server rows and the service rows (`ServiceSteps`: what is left to be recorded is filed under
  the job's bare name). What is shared by name is excepted in the statement: an interface of
  the same name, service rows of one bare name, keys put in a flat directory that has none.
- `RemovedAreGone`: `RemovalInv` says what each of the removal's steps has taken away,
  provided none before it raised; `UnderWay` that no job past the pipeline is about a
  host that is gone, without which it would bring back what was removed.
- `SettledAreReachable` and `TunnelsAreOwn`: `OwnKeysInv` says that a host's stored key
  is that of the job under way, or of none, `SettlingInv` what each local step has put in
  place, `HasItsKeys` what stays until the next bootstrap or removal. They need
  that a fresh key is fresh: it is not among the finitely many in use (`FreshKeyIsFresh`, by
  cardinality). Both properties speak of hosts that share their names with no other
  (`Unshared`) and are bootstrapped at most once by a command (`Once`): `_build_pipeline` looks up the
  keys for all specs of a file before the first of them is applied, so that a file with
  two bootstraps of one host deploys a second, different key to the server while
  `save_wireguard_state` keeps the first. TLC finds a counterexample when `Once` is dropped.
- `KeysAreSaved` (`DeployedKeysAreSaved`): `PersistedInv` says of every job past the pipeline that
  its generated keys are saved, or that others were in the way in the directory of the bare
  name. Nothing else a command does takes a saved key away (`StoreKept`), since a removal has
  no job past the pipeline.
- `ReportsAreRight`: `AccountInv` counts one outcome for each job that is over, and none
  that failed unless a fleet was told to continue, so that the report follows from the
  outcomes. `OutcomeInv` says of each outcome that its job has been applied and, if it is a
  success, recorded; it stays so because until the next command keys are only
  put in place (`KeysGiven`), passwords only set to the one of the command (`Secret`) and
  rows never lost. For the job at hand it comes from `AppliedInv`, which follows the job from the
  server through the local steps, and from `RecordInv`, whose part `LastShow` says that
  what was written last of each service is what its view shows.

Only model-checked, and why:

- Liveness (`WF` and `ENABLED` are beyond this prover): `EveryApplyReports`,
  `EveryCommandEnds` and the others named in section 3.
- `SpecApply`'s `AcceptedStackIsOrdered`: what `_topo_sort` computes is an induction over data.

## 5. Not modelled, and the plan

Left, in this order:

1. Policy rules and approval tokens as operators that feed `AgentExecutor`'s decisions.
2. Read-only commands over the modelled state: fleet doctor, tunnel status, inventory
   queries; the selector grammar; the comparison of versions in the updater.

Left out for good: text processing (loader, templates, renderers), registries filled
at import, network downloads, goss files, and the parsing of external tools'
output. They keep no state the properties speak of. What happens outside the tool (an
operator who edits the server or the files by hand) is not modelled either, except
the loss of the agent's state file.
