--------------------------- MODULE MCWorkstation ---------------------------
(* Workstation with two hosts at a time: unlike each other; of one name, with *)
(* and without a provider, or with two; of one interface.  A situation bounds *)
(* the commands that are given and the faults.                                *)
EXTENDS Workstation

Host(provider, name) == [provider |-> provider, name |-> name]
Web == Host("", "web")
Db == Host("", "db")
HzWeb == Host("hetzner", "web")
AwsWeb == Host("aws", "web")
HzA == Host("hetzner", "web-a")
HzB == Host("hetzner", "web-b")

AllProviders == <<"aws", "hetzner">>
AllInterfaces ==
  (Web :> "wg-web") @@ (Db :> "wg-db") @@ (HzWeb :> "wg-hetzner--web")
    @@ (AwsWeb :> "wg-aws--web") @@ (HzA :> "wg-hetzner--web")
    @@ (HzB :> "wg-hetzner--web")

PlainJob(h) ==
  [kind |-> "postgres_ensure", host |-> h, rev |-> 1, keyFile |-> FALSE,
   parts |-> <<>>, secret |-> "none", flaw |-> "none", labels |-> {}]

Boot(h, keyFile) ==
  [PlainJob(h) EXCEPT !.kind = "bootstrap", !.keyFile = keyFile]

Service(h, names, r) ==
  [PlainJob(h) EXCEPT !.kind = "service", !.rev = r,
     !.parts = [i \in DOMAIN names |-> [name |-> names[i], rev |-> r]]]

Stack(h, r) == [Service(h, <<"site", "app">>, r) EXCEPT !.kind = "stack"]

(* Two containers of one name.                                                *)
Twice(h) ==
  [Service(h, <<"app", "app">>, 1) EXCEPT !.parts[2].rev = 2]

Ensure(h, secret) == [PlainJob(h) EXCEPT !.secret = secret]
Flawed(job, flaw) == [job EXCEPT !.flaw = flaw]
Labelled(job) == [job EXCEPT !.labels = {"role=worker"}]

File(jobs) ==
  [op |-> "apply", jobs |-> jobs, fleet |-> FALSE, continue |-> FALSE,
   rotate |-> FALSE, selector |-> {}]
Rotation(jobs) == [File(jobs) EXCEPT !.rotate = TRUE]
Fleet(jobs, continue, selector) ==
  [File(jobs) EXCEPT !.fleet = TRUE, !.continue = continue, !.selector = selector]
On(op, h) == [File(<<PlainJob(h)>>) EXCEPT !.op = op]

Lifecycle(h, keyFile) ==
  {File(<<Boot(h, keyFile)>>), On("remove", h), On("up", h), On("down", h)}

Situation(hosts, choices, n, limit) ==
  [hosts |-> hosts, choices |-> choices, commands |-> n, faults |-> limit,
   seconds |-> 3]

Services(h) ==
  {File(<<Service(h, <<"postgres", "app">>, r)>>) : r \in 1..2}
    \cup {File(<<Stack(h, 1)>>)}

FirstServices(h) ==
  {File(<<Twice(h)>>), File(<<Service(h, <<"app">>, 2)>>), On("remove", h),
   File(<<Boot(h, FALSE)>>)}

FleetJobs == <<Boot(Web, FALSE), Labelled(Service(Db, <<"app">>, 1))>>
Batches(jobs) ==
  {Fleet(jobs, continue, selector) :
     continue \in BOOLEAN, selector \in {{}, {"role=worker"}}} \cup {File(jobs)}

Pair(g, h, keyFile, limit) ==
  Situation({g, h},
            (Lifecycle(g, FALSE) \cup Lifecycle(h, keyFile)) \ {On("down", g), On("down", h)},
            3, limit)

AllSituations ==
  {Situation({h}, Lifecycle(h, keyFile), IF h = Web THEN 4 ELSE 3, 1) :
     h \in {Web, HzWeb}, keyFile \in BOOLEAN}
  \cup {Pair(Web, Db, TRUE, 1), Pair(Web, HzWeb, TRUE, 1)}
  \cup {Pair(Web, HzWeb, FALSE, 0), Pair(AwsWeb, HzWeb, TRUE, 0),
        Pair(HzA, HzB, TRUE, 0)}
  \cup {[Situation({Web}, Services(Web), 3, 0) EXCEPT !.seconds = 4],
        Situation({Web}, FirstServices(Web), 2, 1),
        Situation({HzWeb}, FirstServices(HzWeb), 2, 1)}
  \cup {Situation({Web, Db}, Batches([FleetJobs EXCEPT ![i].flaw = flaw]), 1, 2) :
          i \in 1..2, flaw \in {"none", "unparsed", "broken", "invalid", "env"}}
  \cup {Situation({Web, Db},
          {Rotation(<<Ensure(Web, "user"), Ensure(Db, s)>>),
           File(<<Ensure(Web, "user"), Ensure(Db, s)>>)}, 2, 1) :
          s \in {"user", "role"}}

MCSituations == AllSituations
MCProviders == AllProviders
MCInterface == AllInterfaces
=============================================================================
