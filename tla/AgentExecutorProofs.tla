------------------------ MODULE AgentExecutorProofs ------------------------
(***************************************************************************)
(* Proofs about AgentExecutor, for every set of plans and of policies.     *)
(*                                                                         *)
(* The inductive invariant says how far the loop is (InOrder), why it was  *)
(* stopped (StopsAreNoted) or left a step out (SkipsHaveCause), and that   *)
(* the state in memory has each step that is done as the plan has it       *)
(* (MemoryFollows).                                                        *)
(***************************************************************************)
EXTENDS AgentExecutor, WellFoundedInduction, TLAPS

InOrder ==
  \A i \in DOMAIN results, j \in OnServer(plan) : j < i => j \in DOMAIN results

StopsAreNoted ==
  \A i \in DOMAIN results :
    plan[i].gate /\ results[i] \in {"failed", "skipped"} => abortedAt # 0

SkipsHaveCause ==
  \A i \in DOMAIN results : results[i] = "skipped" => FailedAt # {}

MemoryFollows ==
  \A i \in DOMAIN results : results[i] \in {"success", "unchanged"} =>
    /\ Known(resources, plan[i].id)
    /\ Alone(plan, i) => resources[plan[i].id].content = plan[i].content

IInv ==
  /\ TypeOK
  /\ InOrder
  /\ StopsAreNoted
  /\ SkipsHaveCause
  /\ MemoryFollows
  /\ RecordsAreTrue
  /\ NothingBehindGate
  /\ DependentsAreSkipped
  /\ DoctorAgrees

(* Rolling forward, for SuccessConverges.  A plan that did not go back asks *)
(* for no less of a step with an id of its own than was ever executed, and *)
(* of no step for less than the file records.  If a record is as new as    *)
(* all that was executed of its id, it is what the last execution left.    *)
NewestOf(es, id, c) == \A e \in es : e[1] = id => e[2] <= c

AsksForTheNewest ==
  ~rolledBack => \A i \in OnServer(plan) :
    Alone(plan, i) => NewestOf(executed, plan[i].id, plan[i].content)

FileIsNotAhead ==
  ~rolledBack /\ status = "running" => \A i \in OnServer(plan) :
    Known(disk, plan[i].id) => disk[plan[i].id].content <= plan[i].content

InPlace(rs) ==
  \A id \in StepIds : Known(rs, id) /\ NewestOf(executed, id, rs[id].content)
                        => host[id] = rs[id].content

NewestIsInPlace ==
  ~everFailed /\ ~rolledBack => InPlace(resources) /\ InPlace(disk)

ForwardInv ==
  /\ AsksForTheNewest
  /\ FileIsNotAhead
  /\ NewestIsInPlace
  /\ SuccessConverges

-----------------------------------------------------------------------------
(* The loop.                                                               *)

(* A non-empty set of numbers has a least one.                             *)
LEMMA LeastNumber ==
  ASSUME NEW T, T \subseteq Nat, T # {}
  PROVE  \E x \in T : \A y \in T : x <= y
<1>1. PICK x \in T : \A y \in T : <<y, x>> \notin OpToRel(<, Nat)
  BY NatLessThanWellFounded, WFMin, Zenon
<1>2. \A y \in T : ~(y < x)
  BY <1>1 DEF OpToRel
<1> QED
  BY <1>2

(* The position of a loop that goes on is a step of the server that has no *)
(* result, and every step that has one stands before it.                   *)
LEMMA Position ==
  ASSUME TypeOK, InOrder, Looping
  PROVE  /\ At \in OnServer(plan)
         /\ At \in DOMAIN plan
         /\ At \in Nat \ {0}
         /\ At \notin DOMAIN results
         /\ plan[At] \in AgentStep
         /\ \A j \in OnServer(plan) : j < At => j \in DOMAIN results
         /\ \A i \in DOMAIN results : i < At
<1>1. /\ OnServer(plan) \subseteq DOMAIN plan
      /\ DOMAIN plan \subseteq Nat \ {0}
      /\ \A i \in DOMAIN plan : plan[i] \in AgentStep
  BY DEF OnServer, TypeOK
<1>2. Todo # {} /\ Todo \subseteq Nat
  BY <1>1 DEF Looping, Todo
<1>3. \E i \in Todo : \A j \in Todo : i <= j
  BY <1>2, LeastNumber
<1>4. At \in Todo /\ \A j \in Todo : At <= j
  BY <1>3 DEF At
<1>5. At \in OnServer(plan) /\ At \notin DOMAIN results
  BY <1>4 DEF Todo
<1>6. ASSUME NEW j \in OnServer(plan), j < At
      PROVE  j \in DOMAIN results
  BY <1>1, <1>4, <1>5, <1>6 DEF Todo
<1>7. ASSUME NEW i \in DOMAIN results
      PROVE  i < At
  <2>1. i \in Nat /\ At \in Nat /\ i # At
    BY <1>1, <1>5, <1>7 DEF TypeOK
  <2>2. ~(At < i)
    BY <1>5, <1>7 DEF InOrder
  <2> QED
    BY <2>1, <2>2
<1> QED
  BY <1>1, <1>5, <1>6, <1>7

(* What recording an outcome adds, whatever else an iteration does.        *)
LEMMA Recorded ==
  ASSUME TypeOK, InOrder, Looping, NEW o \in Outcomes, Record(o), plan' = plan
  PROVE  /\ DOMAIN results' = DOMAIN results \cup {At}
         /\ results'[At] = o
         /\ \A i \in DOMAIN results : results'[i] = results[i]
         /\ DOMAIN results' \subseteq OnServer(plan')
         /\ \A i \in DOMAIN results' : results'[i] \in Outcomes
         /\ InOrder'
<1>1. /\ DOMAIN results' = DOMAIN results \cup {At}
      /\ results'[At] = o
      /\ \A i \in DOMAIN results : results'[i] = results[i]
  BY Position DEF Record
<1>2. /\ DOMAIN results' \subseteq OnServer(plan')
      /\ \A i \in DOMAIN results' : results'[i] \in Outcomes
  BY <1>1, Position DEF TypeOK
<1>3. InOrder'
  BY <1>1, Position DEF InOrder, OnServer
<1> QED
  BY <1>1, <1>2, <1>3

(* What becomes of the properties of results when an outcome is added: the *)
(* steps before had no stop, so only the new result counts.                *)
LEMMA RecordedOutcome ==
  ASSUME IInv, Looping, NEW o \in Outcomes, Record(o), plan' = plan,
         o = "skipped" <=> HasFailedDependency(At),
         plan[At].gate /\ o \in {"failed", "skipped"} => abortedAt' # 0
  PROVE  /\ StopsAreNoted'
         /\ SkipsHaveCause'
         /\ NothingBehindGate'
         /\ DependentsAreSkipped'
<1> USE DEF IInv
<1>1. /\ DOMAIN results' = DOMAIN results \cup {At}
      /\ results'[At] = o
      /\ \A i \in DOMAIN results : results'[i] = results[i]
  BY Recorded
<1>2. \A i \in DOMAIN results : i < At /\ i \in Nat /\ At \in Nat /\ At \notin DOMAIN results
  <2>1. DOMAIN results \subseteq Nat
    BY DEF TypeOK, OnServer
  <2> QED
    BY <2>1, Position
<1>3. abortedAt = 0
  BY DEF Looping
<1>4. StopsAreNoted'
  BY <1>1, <1>3 DEF StopsAreNoted
<1>5. SkipsHaveCause'
  <2>1. FailedAt \subseteq FailedAt'
    BY <1>1 DEF FailedAt
  <2>2. o = "skipped" => FailedAt # {}
    BY DEF HasFailedDependency, FailedAt
  <2> QED
    BY <1>1, <2>1, <2>2 DEF SkipsHaveCause
<1>6. NothingBehindGate'
  BY <1>1, <1>2, <1>3, Position DEF NothingBehindGate, StopsAreNoted
<1>7. DependentsAreSkipped'
  <2> SUFFICES ASSUME NEW i \in DOMAIN results', NEW d \in DOMAIN results',
                      d \in plan'[i].deps, d < i, results'[d] = "failed"
               PROVE  results'[i] = "skipped"
    BY DEF DependentsAreSkipped
  <2>1. d # At
    BY <1>1, <1>2, Position
  <2>2. CASE i = At
    BY <1>1, <2>1, <2>2 DEF HasFailedDependency
  <2>3. CASE i # At
    BY <1>1, <2>1, <2>3 DEF DependentsAreSkipped
  <2> QED
    BY <2>2, <2>3
<1> QED
  BY <1>4, <1>5, <1>6, <1>7

-----------------------------------------------------------------------------
(* The records.                                                            *)

(* A recorded step is known as the plan has it, others stay as they were.  *)
LEMMA Updated ==
  ASSUME NEW rs \in [StepIds -> Resource], NEW s \in AgentStep, NEW o
  PROVE  LET new == UpdateResource(rs, s, o)
         IN  /\ new \in [StepIds -> Resource]
             /\ Known(new, s.id)
             /\ new[s.id].content = s.content
             /\ new[s.id].status = "applied" => o = "success"
             /\ \A id \in StepIds : id # s.id => new[id] = rs[id]
  BY DEF UpdateResource, Resource, NoResource, Known, AgentStep

-----------------------------------------------------------------------------
(* The invariant.                                                          *)

LEMMA InitIInv == Init => IInv
<1> SUFFICES ASSUME Init
             PROVE  IInv
  OBVIOUS
<1>1. TypeOK
  <2>1. resources \in [StepIds -> Resource] /\ disk \in [StepIds -> Resource]
    BY DEF Init, NoResources, Resource
  <2>2. policy \in [StepIds -> Decisions] /\ host \in [StepIds -> Nat]
    BY AgentPlansAssumption DEF Init
  <2>3. DOMAIN results = {} /\ plan \in Seq(AgentStep) /\ applies \in 0..MaxApplies
    BY AgentPlansAssumption DEF Init
  <2> QED
    BY <2>1, <2>2, <2>3 DEF Init, TypeOK
<1>2. InOrder /\ StopsAreNoted /\ SkipsHaveCause /\ MemoryFollows
  BY DEF Init, InOrder, StopsAreNoted, SkipsHaveCause, MemoryFollows
<1>3. RecordsAreTrue
  BY DEF Init, RecordsAreTrue, Known, NoResources
<1>4. NothingBehindGate /\ DependentsAreSkipped /\ DoctorAgrees
  BY DEF Init, NothingBehindGate, DependentsAreSkipped, DoctorAgrees
<1> QED
  BY <1>1, <1>2, <1>3, <1>4 DEF IInv

(* An apply starts from the records on disk.                               *)
LEMMA StartKeeps ==
  ASSUME IInv, NEW p \in Plans, NEW rules \in Policies, Start(p, rules)
  PROVE  IInv'
<1> USE DEF IInv, Start
<1>1. TypeOK'
  BY AgentPlansAssumption DEF TypeOK
<1>2. /\ InOrder' /\ StopsAreNoted' /\ SkipsHaveCause'
      /\ MemoryFollows' /\ NothingBehindGate' /\ DependentsAreSkipped'
  BY DEF InOrder, StopsAreNoted, SkipsHaveCause, MemoryFollows,
         NothingBehindGate, DependentsAreSkipped
<1>3. RecordsAreTrue'
  BY DEF RecordsAreTrue
<1>4. DoctorAgrees'
  BY DEF DoctorAgrees
<1> QED
  BY <1>1, <1>2, <1>3, <1>4

(* An iteration that executes nothing: its outcome, and why it was reached.*)
LEMMA PassingOver ==
  ASSUME IInv, Looping, NEW o \in Outcomes \ {"success"}, Record(o), KeepsHost,
         abortedAt' \in {0, At},
         o = "skipped" <=> HasFailedDependency(At),
         plan[At].gate /\ o \in {"failed", "skipped"} => abortedAt' # 0,
         o = "unchanged" => /\ Known(resources, plan[At].id)
                            /\ resources[plan[At].id].content = plan[At].content
  PROVE  IInv'
<1> USE DEF IInv, KeepsHost
<1>1. /\ DOMAIN results' = DOMAIN results \cup {At}
      /\ results'[At] = o
      /\ \A i \in DOMAIN results : results'[i] = results[i]
      /\ DOMAIN results' \subseteq OnServer(plan')
      /\ \A i \in DOMAIN results' : results'[i] \in Outcomes
      /\ InOrder'
  BY Recorded
<1>2. TypeOK'
  BY <1>1 DEF TypeOK
<1>3. StopsAreNoted' /\ SkipsHaveCause' /\ NothingBehindGate' /\ DependentsAreSkipped'
  BY RecordedOutcome
<1>4. MemoryFollows'
  BY <1>1 DEF MemoryFollows, Alone, OnServer
<1>5. RecordsAreTrue'
  BY DEF RecordsAreTrue
<1>6. DoctorAgrees'
  BY DEF DoctorAgrees, Looping
<1> QED
  BY <1>1, <1>2, <1>3, <1>4, <1>5, <1>6

(* Executing a step records it in memory, and no other one.                *)
LEMMA ExecuteKeeps ==
  ASSUME IInv, NEW o \in {"success", "failed"}, Execute(o)
  PROVE  IInv'
<1> USE DEF IInv
<1>1. /\ Looping /\ Record(o) /\ plan' = plan /\ ~HasFailedDependency(At)
      /\ resources' = UpdateResource(resources, plan[At], o)
      /\ disk' = disk /\ policy' = policy /\ status' = status /\ applies' = applies
      /\ rolledBack' = rolledBack
      /\ abortedAt' = IF o = "failed" /\ (At = 1 \/ plan[At].gate) THEN At ELSE 0
  BY DEF Execute, Due
<1>2. /\ DOMAIN results' = DOMAIN results \cup {At}
      /\ results'[At] = o
      /\ \A i \in DOMAIN results : results'[i] = results[i]
      /\ DOMAIN results' \subseteq OnServer(plan')
      /\ \A i \in DOMAIN results' : results'[i] \in Outcomes
      /\ InOrder'
  BY <1>1, Recorded DEF Outcomes
<1>3. /\ At \in DOMAIN plan /\ At \notin DOMAIN results /\ At \in Nat \ {0}
      /\ plan[At] \in AgentStep /\ plan[At].id \in StepIds /\ plan[At].content \in Nat
      /\ \A i \in DOMAIN results : i \in DOMAIN plan /\ plan[i].id \in StepIds
  <2>1. At \in DOMAIN plan /\ At \notin DOMAIN results /\ At \in Nat \ {0} /\ plan[At] \in AgentStep
    BY <1>1, Position
  <2>2. \A i \in DOMAIN results : i \in DOMAIN plan /\ plan[i] \in AgentStep
    BY DEF TypeOK, OnServer
  <2> QED
    BY <2>1, <2>2 DEF AgentStep
<1>4. /\ resources' \in [StepIds -> Resource]
      /\ Known(resources', plan[At].id)
      /\ resources'[plan[At].id].content = plan[At].content
      /\ resources'[plan[At].id].status = "applied" => o = "success"
      /\ \A id \in StepIds : id # plan[At].id => resources'[id] = resources[id]
  BY <1>1, <1>3, Updated DEF TypeOK
<1>5. /\ executed' = executed \cup {<<plan[At].id, plan[At].content>>}
      /\ succeeded' = IF o = "success"
                        THEN succeeded \cup {<<plan[At].id, plan[At].content>>}
                        ELSE succeeded
      /\ host' \in {host, [host EXCEPT ![plan[At].id] = plan[At].content]}
      /\ everFailed' \in BOOLEAN
  BY DEF Execute, TypeOK
<1>6. TypeOK'
  <2>1. host' \in [StepIds -> Nat]
    BY <1>3, <1>5 DEF TypeOK
  <2>2. executed' \subseteq StepIds \X Nat /\ succeeded' \subseteq executed'
    BY <1>3, <1>5 DEF TypeOK
  <2>3. abortedAt' \in {0} \cup DOMAIN results'
    BY <1>1, <1>2
  <2> QED
    BY <1>1, <1>2, <1>4, <1>5, <2>1, <2>2, <2>3 DEF TypeOK
<1>7. StopsAreNoted' /\ SkipsHaveCause' /\ NothingBehindGate' /\ DependentsAreSkipped'
  BY <1>1, <1>3, RecordedOutcome DEF Outcomes
<1>8. MemoryFollows'
  <2> SUFFICES ASSUME NEW i \in DOMAIN results', results'[i] \in {"success", "unchanged"}
               PROVE  /\ Known(resources', plan[i].id)
                      /\ Alone(plan, i) => resources'[plan[i].id].content = plan[i].content
    BY <1>1 DEF MemoryFollows, Alone, OnServer
  <2>1. CASE i = At
    BY <1>4, <2>1
  <2>2. CASE i # At
    <3>1. i \in DOMAIN results /\ results[i] \in {"success", "unchanged"}
      BY <1>2, <2>2
    <3>2. /\ Known(resources, plan[i].id)
          /\ Alone(plan, i) => resources[plan[i].id].content = plan[i].content
      BY <3>1 DEF MemoryFollows
    <3>3. CASE plan[i].id = plan[At].id
      <4>1. ~Alone(plan, i)
        BY <1>1, <2>2, <3>3, Position DEF Alone
      <4> QED
        BY <1>4, <3>3, <4>1
    <3>4. CASE plan[i].id # plan[At].id
      <4>1. resources'[plan[i].id] = resources[plan[i].id]
        BY <1>3, <1>4, <3>1, <3>4
      <4> QED
        BY <3>2, <4>1 DEF Known
    <3> QED
      BY <3>3, <3>4
  <2> QED
    BY <2>1, <2>2
<1>9. RecordsAreTrue'
  <2>1. ASSUME NEW id \in StepIds, Known(resources', id)
        PROVE  /\ <<id, resources'[id].content>> \in executed'
               /\ resources'[id].status = "applied"
                    => <<id, resources'[id].content>> \in succeeded'
    BY <1>4, <1>5, <2>1 DEF RecordsAreTrue, Known
  <2>2. ASSUME NEW id \in StepIds, Known(disk', id)
        PROVE  /\ <<id, disk'[id].content>> \in executed'
               /\ disk'[id].status = "applied"
                    => <<id, disk'[id].content>> \in succeeded'
    BY <1>1, <1>5, <2>2 DEF RecordsAreTrue, Known
  <2> QED
    BY <2>1, <2>2 DEF RecordsAreTrue
<1>10. DoctorAgrees'
  BY <1>1 DEF DoctorAgrees, Looping
<1> QED
  BY <1>2, <1>6, <1>7, <1>8, <1>9, <1>10

(* An apply that ends with success has a result for every step of the      *)
(* server, and each is done: doctor finds them as the plan has them.       *)
LEMMA FinishKeeps ==
  ASSUME IInv, Finish
  PROVE  IInv'
<1> USE DEF IInv, Finish
<1>1. TypeOK'
  BY DEF TypeOK
<1>2. InOrder' /\ StopsAreNoted' /\ NothingBehindGate' /\ DependentsAreSkipped'
  BY DEF InOrder, StopsAreNoted, NothingBehindGate, DependentsAreSkipped
<1>3. SkipsHaveCause' /\ MemoryFollows'
  BY DEF SkipsHaveCause, MemoryFollows, FailedAt, Known
<1>4. RecordsAreTrue'
  BY DEF RecordsAreTrue
<1>5. DoctorAgrees'
  <2> SUFFICES ASSUME abortedAt = 0, FailedAt = {}
               PROVE  /\ Missing(plan, resources) = {}
                      /\ \A i \in Tracked(plan) :
                           Alone(plan, i) => plan[i].id \notin Drifted(plan, resources)
    BY DEF DoctorAgrees
  <2>1. OnServer(plan) \subseteq DOMAIN results
    BY DEF Looping, Todo
  <2>2. \A i \in DOMAIN results : results[i] \in {"success", "unchanged"}
    BY DEF TypeOK, Outcomes, FailedAt, SkipsHaveCause
  <2>3. \A i \in Tracked(plan) :
          /\ i \in OnServer(plan)
          /\ Known(resources, plan[i].id)
          /\ Alone(plan, i) => resources[plan[i].id].content = plan[i].content
    BY <2>1, <2>2 DEF MemoryFollows, Tracked
  <2>4. Missing(plan, resources) = {}
    BY <2>3 DEF Missing
  <2>5. ASSUME NEW i \in Tracked(plan), Alone(plan, i), plan[i].id \in Drifted(plan, resources)
        PROVE  FALSE
    <3>1. PICK k \in Tracked(plan) : /\ plan[k].id = plan[i].id
                                     /\ resources[plan[k].id].content # plan[k].content
      BY <2>5 DEF Drifted
    <3>2. k = i
      BY <2>3, <2>5, <3>1 DEF Alone
    <3> QED
      BY <2>3, <2>5, <3>1, <3>2
  <2> QED
    BY <2>4, <2>5
<1> QED
  BY <1>1, <1>2, <1>3, <1>4, <1>5

(* A killed agent loses what it had in memory only.                        *)
LEMMA CrashKeeps ==
  ASSUME IInv, Crash
  PROVE  IInv'
<1> USE DEF IInv, Crash
<1>1. TypeOK'
  BY DEF TypeOK
<1>2. /\ InOrder' /\ StopsAreNoted' /\ SkipsHaveCause'
      /\ MemoryFollows' /\ NothingBehindGate' /\ DependentsAreSkipped'
  BY DEF InOrder, StopsAreNoted, SkipsHaveCause, MemoryFollows,
         NothingBehindGate, DependentsAreSkipped
<1>3. RecordsAreTrue' /\ DoctorAgrees'
  BY DEF RecordsAreTrue, DoctorAgrees
<1> QED
  BY <1>1, <1>2, <1>3

(* Every action of the agent keeps the inductive invariant.                *)
LEMMA NextIInv == IInv /\ [Next]_vars => IInv'
<1> SUFFICES ASSUME IInv, [Next]_vars
             PROVE  IInv'
  OBVIOUS
<1>1. ASSUME NEW p \in Plans, NEW rules \in Policies, Start(p, rules)
      PROVE  IInv'
  BY <1>1, StartKeeps
<1>2. CASE SkipDependent
  BY <1>2, PassingOver, Position
     DEF SkipDependent, Outcomes, IInv
<1>3. CASE SkipUnchanged
  BY <1>3, PassingOver
     DEF SkipUnchanged, Outcomes, ResourceChanged, Looping
<1>4. CASE RefuseByPolicy
  BY <1>4, PassingOver, Position
     DEF RefuseByPolicy, Due, Outcomes, IInv
<1>5. ASSUME NEW o \in {"success", "failed"}, Execute(o)
      PROVE  IInv'
  BY <1>5, ExecuteKeeps
<1>6. CASE Finish
  BY <1>6, FinishKeeps
<1>7. CASE Crash
  BY <1>7, CrashKeeps
<1>8. CASE UNCHANGED vars
  <2> USE <1>8 DEF vars, IInv
  <2>1. TypeOK' /\ InOrder'
    BY DEF TypeOK, InOrder
  <2>2. StopsAreNoted' /\ SkipsHaveCause' /\ MemoryFollows'
    BY DEF StopsAreNoted, SkipsHaveCause, FailedAt, MemoryFollows
  <2>3. RecordsAreTrue' /\ NothingBehindGate' /\ DependentsAreSkipped' /\ DoctorAgrees'
    BY DEF RecordsAreTrue, NothingBehindGate, DependentsAreSkipped, DoctorAgrees
  <2> QED
    BY <2>1, <2>2, <2>3
<1> QED
  BY <1>1, <1>2, <1>3, <1>4, <1>5, <1>6, <1>7, <1>8 DEF Next

(* The inductive invariant holds in every state of the agent.              *)
THEOREM Invariance == Spec => []IInv
BY InitIInv, NextIInv, PTL DEF Spec

-----------------------------------------------------------------------------
(* Rolling forward.                                                        *)

(* Nothing is executed, recorded or known at first.                        *)
LEMMA InitForward == Init => ForwardInv
BY DEF Init, ForwardInv, AsksForTheNewest, FileIsNotAhead, NewestIsInPlace,
       InPlace, SuccessConverges, OnServer, Known, NoResources

(* A plan that starts without going back asks for the newest of each step, *)
(* and what the file records was executed, so it is no newer.              *)
LEMMA StartForward ==
  ASSUME IInv, ForwardInv, NEW p \in Plans, NEW rules \in Policies, Start(p, rules)
  PROVE  ForwardInv'
<1> USE DEF Start
<1>1. /\ p \in Seq(AgentStep)
      /\ \A i \in OnServer(p) : p[i].id \in StepIds /\ p[i].content \in Nat
  <2>1. p \in Seq(AgentStep)
    BY AgentPlansAssumption
  <2>2. \A i \in OnServer(p) : p[i] \in AgentStep
    BY <2>1 DEF OnServer
  <2> QED
    BY <2>1, <2>2 DEF AgentStep
<1>2. /\ \A e \in executed : e[2] \in Nat
      /\ RecordsAreTrue
      /\ \A id \in StepIds : Known(disk, id) => disk[id].content \in Nat
  BY DEF IInv, TypeOK, Known, Resource
<1>3. ASSUME ~rolledBack'
      PROVE  /\ ~rolledBack
             /\ \A i \in OnServer(p) : NewestOf(executed, p[i].id, p[i].content)
  <2>1. /\ ~rolledBack
        /\ \A i \in OnServer(p), e \in executed : ~(e[1] = p[i].id /\ e[2] > p[i].content)
    BY <1>3
  <2> QED
    BY <1>1, <1>2, <2>1 DEF NewestOf
<1>4. AsksForTheNewest'
  BY <1>3 DEF AsksForTheNewest, NewestOf
<1>5. FileIsNotAhead'
  <2> SUFFICES ASSUME ~rolledBack', NEW i \in OnServer(p), Known(disk, p[i].id)
               PROVE  disk[p[i].id].content <= p[i].content
    BY DEF FileIsNotAhead
  <2>1. <<p[i].id, disk[p[i].id].content>> \in executed
    BY <1>1, <1>2 DEF RecordsAreTrue
  <2> QED
    BY <1>3, <2>1 DEF NewestOf
<1>6. NewestIsInPlace'
  BY <1>3 DEF ForwardInv, NewestIsInPlace, InPlace, NewestOf
<1>7. SuccessConverges'
  BY DEF SuccessConverges
<1> QED
  BY <1>4, <1>5, <1>6, <1>7 DEF ForwardInv

(* What executes nothing and goes on changes none of this.                 *)
LEMMA QuietForward ==
  ASSUME ForwardInv, status = "running",
         UNCHANGED <<plan, resources, disk, status, host, executed, everFailed, rolledBack>>
  PROVE  ForwardInv'
BY DEF ForwardInv, AsksForTheNewest, FileIsNotAhead, NewestIsInPlace, InPlace,
       SuccessConverges, NewestOf

(* A success leaves in place what it records; the file does not say it is  *)
(* ahead of it.  After a failure nothing is claimed any more.              *)
LEMMA ExecuteForward ==
  ASSUME IInv, ForwardInv, NEW o \in {"success", "failed"}, Execute(o)
  PROVE  ForwardInv'
<1> DEFINE id == plan[At].id
           c  == plan[At].content
<1>1. /\ At \in OnServer(plan) /\ plan[At] \in AgentStep
      /\ \A i \in OnServer(plan) : plan[i].content \in Nat
  <2>1. At \in OnServer(plan) /\ plan[At] \in AgentStep
    BY Position DEF IInv, Execute, Due
  <2>2. \A i \in OnServer(plan) : plan[i] \in AgentStep
    BY DEF IInv, TypeOK, OnServer
  <2> QED
    BY <2>1, <2>2 DEF AgentStep
<1>2. id \in StepIds /\ c \in Nat
  BY <1>1 DEF AgentStep
<1>3. /\ plan' = plan /\ disk' = disk /\ rolledBack' = rolledBack
      /\ status' = status /\ status = "running"
      /\ everFailed' = (everFailed \/ o = "failed")
      /\ executed' = executed \cup {<<id, c>>}
      /\ resources' = UpdateResource(resources, plan[At], o)
      /\ o = "success" => host' = [host EXCEPT ![id] = c]
  BY DEF Execute, Due, Looping
<1>4. /\ host \in [StepIds -> Nat]
      /\ disk \in [StepIds -> Resource]
      /\ resources \in [StepIds -> Resource]
  BY DEF IInv, TypeOK
<1>5. /\ resources'[id].content = c
      /\ \A k \in StepIds : k # id => resources'[k] = resources[k]
  BY <1>1, <1>3, <1>4, Updated
<1>6. AsksForTheNewest'
  <2> SUFFICES ASSUME ~rolledBack, NEW i \in OnServer(plan), Alone(plan, i)
               PROVE  NewestOf(executed', plan[i].id, plan[i].content)
    BY <1>3 DEF AsksForTheNewest, OnServer, Alone
  <2>1. NewestOf(executed, plan[i].id, plan[i].content)
    BY DEF ForwardInv, AsksForTheNewest
  <2>2. plan[i].id = id => i = At
    BY <1>1 DEF Alone
  <2>3. id = plan[i].id => c <= plan[i].content
    BY <1>1, <1>2, <2>2
  <2> QED
    BY <1>3, <2>1, <2>3 DEF NewestOf
<1>7. FileIsNotAhead'
  BY <1>3 DEF ForwardInv, FileIsNotAhead, OnServer, Known
<1>8. NewestIsInPlace'
  <2> SUFFICES ASSUME ~everFailed, ~rolledBack, o = "success", NEW k \in StepIds
               PROVE  /\ Known(resources', k) /\ NewestOf(executed', k, resources'[k].content)
                           => host'[k] = resources'[k].content
                      /\ Known(disk, k) /\ NewestOf(executed', k, disk[k].content)
                           => host'[k] = disk[k].content
    BY <1>3 DEF NewestIsInPlace, InPlace, Known
  <2>1. InPlace(resources) /\ InPlace(disk)
    BY DEF ForwardInv, NewestIsInPlace
  <2>2. \A d : NewestOf(executed', k, d) => NewestOf(executed, k, d) /\ (k = id => c <= d)
    <3>1. /\ \A e \in executed : e \in executed'
          /\ <<id, c>> \in executed' /\ <<id, c>>[1] = id /\ <<id, c>>[2] = c
      BY <1>3
    <3> QED
      BY <3>1 DEF NewestOf
  <2>3. CASE k = id
    <3>1. host'[k] = c
      BY <1>3, <1>4, <2>3
    <3>2. Known(disk, k) => disk[k].content <= c
      BY <1>1, <1>3, <2>3 DEF ForwardInv, FileIsNotAhead
    <3>3. Known(disk, k) => disk[k].content \in Nat
      BY <1>4 DEF Known, Resource
    <3>4. Known(disk, k) /\ NewestOf(executed', k, disk[k].content) => disk[k].content = c
      BY <1>2, <2>2, <2>3, <3>2, <3>3
    <3> QED
      BY <1>5, <2>3, <3>1, <3>4
  <2>4. CASE k # id
    <3>1. host'[k] = host[k] /\ resources'[k] = resources[k]
      BY <1>3, <1>4, <1>5, <2>4
    <3> QED
      BY <2>1, <2>2, <3>1 DEF InPlace, Known
  <2> QED
    BY <2>3, <2>4
<1>9. SuccessConverges'
  BY <1>3 DEF SuccessConverges
<1> QED
  BY <1>6, <1>7, <1>8, <1>9 DEF ForwardInv

(* A success has each step recorded as the plan has it, which is the       *)
(* newest, and so in place.                                                *)
LEMMA FinishForward ==
  ASSUME IInv, ForwardInv, Finish
  PROVE  ForwardInv'
<1> USE DEF Finish
<1>1. AsksForTheNewest'
  BY DEF ForwardInv, AsksForTheNewest, NewestOf
<1>2. FileIsNotAhead'
  BY DEF FileIsNotAhead
<1>3. NewestIsInPlace'
  BY DEF ForwardInv, NewestIsInPlace, InPlace, NewestOf
<1>4. SuccessConverges'
  <2> SUFFICES ASSUME abortedAt = 0, FailedAt = {}, ~everFailed, ~rolledBack,
                      NEW i \in OnServer(plan), Alone(plan, i)
               PROVE  host[plan[i].id] = plan[i].content
    BY DEF SuccessConverges
  <2>1. i \in DOMAIN results
    BY DEF Looping, Todo
  <2>2. results[i] \in {"success", "unchanged"}
    BY <2>1 DEF IInv, TypeOK, Outcomes, FailedAt, SkipsHaveCause
  <2>3. /\ Known(resources, plan[i].id)
        /\ resources[plan[i].id].content = plan[i].content
    BY <2>1, <2>2 DEF IInv, MemoryFollows
  <2>4. NewestOf(executed, plan[i].id, plan[i].content)
    BY DEF ForwardInv, AsksForTheNewest
  <2>5. plan[i].id \in StepIds
    <3>1. plan \in Seq(AgentStep) /\ i \in DOMAIN plan
      BY DEF IInv, TypeOK, OnServer
    <3>2. plan[i] \in AgentStep
      BY <3>1
    <3> QED
      BY <3>2 DEF AgentStep
  <2> QED
    BY <2>3, <2>4, <2>5 DEF ForwardInv, NewestIsInPlace, InPlace
<1> QED
  BY <1>1, <1>2, <1>3, <1>4 DEF ForwardInv

(* A killed agent leaves no plan, and falls back on the file.              *)
LEMMA CrashForward ==
  ASSUME ForwardInv, Crash
  PROVE  ForwardInv'
BY DEF Crash, ForwardInv, AsksForTheNewest, FileIsNotAhead, NewestIsInPlace,
       InPlace, SuccessConverges, NewestOf, OnServer

(* Every action of the agent keeps the invariant of rolling forward.       *)
LEMMA NextForward == IInv /\ ForwardInv /\ [Next]_vars => ForwardInv'
<1> SUFFICES ASSUME IInv, ForwardInv, [Next]_vars
             PROVE  ForwardInv'
  OBVIOUS
<1>1. ASSUME NEW p \in Plans, NEW rules \in Policies, Start(p, rules)
      PROVE  ForwardInv'
  BY <1>1, StartForward
<1>2. CASE SkipDependent
  BY <1>2, QuietForward DEF SkipDependent, Looping, KeepsHost
<1>3. CASE SkipUnchanged
  BY <1>3, QuietForward DEF SkipUnchanged, Looping, KeepsHost
<1>4. CASE RefuseByPolicy
  BY <1>4, QuietForward DEF RefuseByPolicy, Due, Looping, KeepsHost
<1>5. ASSUME NEW o \in {"success", "failed"}, Execute(o)
      PROVE  ForwardInv'
  BY <1>5, ExecuteForward
<1>6. CASE Finish
  BY <1>6, FinishForward
<1>7. CASE Crash
  BY <1>7, CrashForward
<1>8. CASE UNCHANGED vars
  BY <1>8 DEF vars, ForwardInv, AsksForTheNewest, FileIsNotAhead, NewestIsInPlace,
              InPlace, SuccessConverges, NewestOf
<1> QED
  BY <1>1, <1>2, <1>3, <1>4, <1>5, <1>6, <1>7, <1>8 DEF Next

(* It holds in every state of the agent.                                   *)
LEMMA ForwardInvariance == Spec => []ForwardInv
BY Invariance, InitForward, NextForward, PTL DEF Spec

-----------------------------------------------------------------------------
(* Every variable keeps its type.                                          *)
THEOREM TypeCorrect == Spec => []TypeOK
BY Invariance, PTL DEF IInv

(* What runtime-state.json says of a step happened.                        *)
THEOREM RecordsNeverLie == Spec => []RecordsAreTrue
BY Invariance, PTL DEF IInv

(* A gate that fails or is skipped is the last step of its apply.          *)
THEOREM GatesStop == Spec => []NothingBehindGate
BY Invariance, PTL DEF IInv

(* A step on whose dependency a failure was recorded is skipped.           *)
THEOREM DependentsNeverRun == Spec => []DependentsAreSkipped
BY Invariance, PTL DEF IInv

(* Doctor finds nothing missing or drifted after a reported success.       *)
THEOREM SuccessSatisfiesDoctor == Spec => []DoctorAgrees
BY Invariance, PTL DEF IInv

(* If no command failed and no plan went back, a success leaves each step  *)
(* with an id of its own on the server as the plan has it.                 *)
THEOREM SuccessesConverge == Spec => []SuccessConverges
BY ForwardInvariance, PTL DEF ForwardInv
=============================================================================
