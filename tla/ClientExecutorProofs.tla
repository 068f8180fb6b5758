------------------------ MODULE ClientExecutorProofs ------------------------
(***************************************************************************)
(* Proofs about ClientExecutor, for every set of plans.                    *)
(*                                                                         *)
(* The flags of the loop are summaries of the results so far.  Bookkeeping *)
(* says of what; it is what makes the properties inductive.                *)
(***************************************************************************)
EXTENDS ClientExecutor, TLAPS

Bookkeeping ==
  /\ FailedAt \subseteq ran
  /\ abortedAt = 0 => \A i \in FailedAt : ~Fatal(i)
  /\ abortedAt # 0 => FailedAt # {}
  /\ (abortedAt = 0 /\ gateSkippedAt = 0) =>
        \A i \in DOMAIN results : ~(results[i] = "skipped" /\ plan[i].gate)
  /\ remoteFailed <=>
        \E i \in FailedAt : ~Fatal(i) /\ plan[i].scope # "local"
  /\ localWarnings <=>
        \E i \in FailedAt : ~Fatal(i) /\ plan[i].scope = "local"
  /\ status # "running" => status = FinalStatus

IInv ==
  /\ TypeOK
  /\ Bookkeeping
  /\ NoDependentOfFailureRan
  /\ NothingRanBehindStop

-----------------------------------------------------------------------------
(* What an iteration appends, and what it leaves alone.                    *)
LEMMA AppendedResults ==
  ASSUME TypeOK, NEW s \in Outcomes, results' = Append(results, s)
  PROVE  /\ results' \in Seq(Outcomes)
         /\ At \in Nat \ {0}
         /\ At \notin DOMAIN results
         /\ Len(results') = Len(results) + 1
         /\ DOMAIN results' = DOMAIN results \cup {At}
         /\ \A i \in DOMAIN results : i < At /\ results'[i] = results[i]
         /\ results'[At] = s
  BY DEF TypeOK, At

(* Under TypeOK, every position with a result has a step of the plan.      *)
LEMMA ResultsHaveSteps ==
  ASSUME TypeOK
  PROVE  /\ Len(plan) \in Nat
         /\ \A i \in DOMAIN results : i \in 1..Len(plan) /\ i \in Nat \ {0}
         /\ \A i \in 1..Len(plan) : plan[i] \in Step
  BY DEF TypeOK

(* The inductive invariant, to begin with.                                 *)
LEMMA InitIInv == Init => IInv
  <1> SUFFICES ASSUME NEW p \in Plans, NEW dry \in BOOLEAN, Begin(p, dry)
               PROVE  IInv
    BY DEF Init
  <1>1. p \in Seq(Step)
    BY PlansAssumption
  <1>2. TypeOK
    <2>1. Len(p) \in Nat /\ <<>> \in Seq(Outcomes) /\ Len(<<>>) = 0
      BY <1>1
    <2>2. plan = p /\ results = <<>> /\ DOMAIN results = {}
      BY DEF Begin
    <2>3. /\ plan \in Seq(Step) /\ results \in Seq(Outcomes)
          /\ Len(results) <= Len(plan)
      BY <1>1, <2>1, <2>2
    <2>4. /\ dryRun \in BOOLEAN /\ remoteFailed \in BOOLEAN
          /\ localWarnings \in BOOLEAN
      BY DEF Begin
    <2>5. /\ ran \subseteq DOMAIN results
          /\ abortedAt \in {0} \cup DOMAIN results
          /\ gateSkippedAt \in {0} \cup DOMAIN results
          /\ status \in Verdicts \cup {"running"}
      BY DEF Begin
    <2> QED
      BY <2>3, <2>4, <2>5 DEF TypeOK
  <1>3. Bookkeeping
    BY DEF Begin, Bookkeeping, FailedAt
  <1>4. NoDependentOfFailureRan /\ NothingRanBehindStop
    BY DEF Begin, NoDependentOfFailureRan, NothingRanBehindStop
  <1> QED
    BY <1>2, <1>3, <1>4 DEF IInv

(* A step skipped behind a failed dependency keeps it.                     *)
LEMMA SkipDependentIInv ==
  ASSUME IInv, SkipDependent
  PROVE  IInv'
  <1> USE DEF IInv
  <1>1. "skipped" \in Outcomes
    BY DEF Outcomes
  <1>2. /\ results' \in Seq(Outcomes)
        /\ At \in Nat \ {0}
        /\ At \notin DOMAIN results
        /\ Len(results') = Len(results) + 1
        /\ DOMAIN results' = DOMAIN results \cup {At}
        /\ \A i \in DOMAIN results : i < At /\ results'[i] = results[i]
        /\ results'[At] = "skipped"
    BY <1>1, AppendedResults DEF SkipDependent
  <1>3. FailedAt' = FailedAt
    BY <1>2 DEF FailedAt
  <1>4. FailedAt # {}
    BY DEF SkipDependent, HasFailedDependency, FailedAt
  <1>5. ran' = ran /\ plan' = plan
    BY DEF SkipDependent
  <1>6. \A i : Fatal(i)' <=> Fatal(i)
    BY <1>5 DEF Fatal
  <1>7. TypeOK'
    BY <1>2 DEF SkipDependent, TypeOK, Looping, At
  <1>8. Bookkeeping'
    <2>1. (abortedAt = 0 /\ gateSkippedAt = 0)' =>
            (\A i \in DOMAIN results : ~(results[i] = "skipped" /\ plan[i].gate))'
      BY <1>2, <1>5 DEF SkipDependent, Bookkeeping, Looping, At, TypeOK
    <2>2. status' = "running"
      BY DEF SkipDependent, Looping
    <2> QED
      BY <1>3, <1>4, <1>5, <1>6, <2>1, <2>2 DEF SkipDependent, Bookkeeping, Looping
  <1>9. NoDependentOfFailureRan'
    BY <1>2, <1>5, ResultsHaveSteps DEF NoDependentOfFailureRan, TypeOK, Step
  <1>10. NothingRanBehindStop'
    BY <1>2, <1>5, <1>6 DEF NothingRanBehindStop, Stops, TypeOK
  <1> QED
    BY <1>7, <1>8, <1>9, <1>10

(* A step skipped behind a skipped gate keeps it.                          *)
LEMMA SkipBehindGateIInv ==
  ASSUME IInv, SkipBehindGate
  PROVE  IInv'
  <1> USE DEF IInv
  <1>1. "skipped" \in Outcomes
    BY DEF Outcomes
  <1>2. /\ results' \in Seq(Outcomes)
        /\ At \in Nat \ {0}
        /\ At \notin DOMAIN results
        /\ Len(results') = Len(results) + 1
        /\ DOMAIN results' = DOMAIN results \cup {At}
        /\ \A i \in DOMAIN results : i < At /\ results'[i] = results[i]
        /\ results'[At] = "skipped"
    BY <1>1, AppendedResults DEF SkipBehindGate
  <1>3. FailedAt' = FailedAt
    BY <1>2 DEF FailedAt
  <1>4. ran' = ran /\ plan' = plan
    BY DEF SkipBehindGate
  <1>5. \A i : Fatal(i)' <=> Fatal(i)
    BY <1>4 DEF Fatal
  <1>6. TypeOK'
    BY <1>2 DEF SkipBehindGate, TypeOK, Looping, At
  <1>7. Bookkeeping'
    BY <1>3, <1>4, <1>5 DEF SkipBehindGate, Bookkeeping, Looping
  <1>8. NoDependentOfFailureRan'
    BY <1>2, <1>4, ResultsHaveSteps DEF NoDependentOfFailureRan, TypeOK, Step
  <1>9. NothingRanBehindStop'
    BY <1>2, <1>4, <1>5 DEF NothingRanBehindStop, Stops, TypeOK
  <1> QED
    BY <1>6, <1>7, <1>8, <1>9

(* When a handler may be called, no result so far stops the plan.          *)
LEMMA MayExecuteIsClear ==
  ASSUME IInv, MayExecute
  PROVE  \A i \in DOMAIN results : ~Stops(i)
  BY DEF IInv, MayExecute, Looping, Bookkeeping, Stops, FailedAt

(* An executed step keeps it.                                              *)
LEMMA ExecuteStepIInv ==
  ASSUME IInv, NEW outcome \in Outcomes, ExecuteStep(outcome)
  PROVE  IInv'
  <1> USE DEF IInv
  <1>1. /\ results' \in Seq(Outcomes)
        /\ At \in Nat \ {0}
        /\ At \notin DOMAIN results
        /\ Len(results') = Len(results) + 1
        /\ DOMAIN results' = DOMAIN results \cup {At}
        /\ \A i \in DOMAIN results : i < At /\ results'[i] = results[i]
        /\ results'[At] = outcome
    BY AppendedResults DEF ExecuteStep
  <1>2. /\ plan' = plan /\ dryRun' = dryRun /\ status' = status
        /\ ran' = IF dryRun THEN ran ELSE ran \cup {At}
        /\ status = "running" /\ abortedAt = 0 /\ gateSkippedAt = 0
        /\ dryRun => outcome = "success"
    BY DEF ExecuteStep, MayExecute, Looping
  <1>3. \A i : Fatal(i)' <=> Fatal(i)
    BY <1>2 DEF Fatal
  <1>4. FailedAt' = IF outcome = "failed" THEN FailedAt \cup {At} ELSE FailedAt
    BY <1>1 DEF FailedAt
  <1>5. ran \subseteq ran' /\ ran' \subseteq ran \cup {At}
    BY <1>2
  <1>6. TypeOK'
    <2>1. Len(results') <= Len(plan')
      BY <1>1, <1>2, ResultsHaveSteps DEF ExecuteStep, MayExecute, Looping, At, TypeOK
    <2>2. ran' \subseteq DOMAIN results'
      BY <1>1, <1>5 DEF TypeOK
    <2>3. /\ abortedAt' \in {0} \cup DOMAIN results'
          /\ gateSkippedAt' \in {0} \cup DOMAIN results'
      BY <1>1, <1>2 DEF ExecuteStep
    <2>4. remoteFailed' \in BOOLEAN /\ localWarnings' \in BOOLEAN
      BY DEF ExecuteStep
    <2> QED
      BY <1>1, <1>2, <2>1, <2>2, <2>3, <2>4 DEF TypeOK
  <1>7. Bookkeeping'
    <2>1. FailedAt' \subseteq ran'
      BY <1>2, <1>4 DEF Bookkeeping
    <2>2. (abortedAt = 0)' => (\A i \in FailedAt : ~Fatal(i))'
      BY <1>1, <1>2, <1>3, <1>4 DEF ExecuteStep, Bookkeeping
    <2>3. (abortedAt # 0)' => (FailedAt # {})'
      BY <1>2, <1>4 DEF ExecuteStep
    <2>4. (abortedAt = 0 /\ gateSkippedAt = 0)' =>
            (\A i \in DOMAIN results : ~(results[i] = "skipped" /\ plan[i].gate))'
      BY <1>1, <1>2 DEF ExecuteStep, Bookkeeping
    <2>5. remoteFailed' <=>
            (\E i \in FailedAt : ~Fatal(i) /\ plan[i].scope # "local")'
      BY <1>1, <1>2, <1>3, <1>4 DEF ExecuteStep, Bookkeeping, FailedAt
    <2>6. localWarnings' <=>
            (\E i \in FailedAt : ~Fatal(i) /\ plan[i].scope = "local")'
      BY <1>1, <1>2, <1>3, <1>4 DEF ExecuteStep, Bookkeeping, FailedAt
    <2> QED
      BY <1>2, <2>1, <2>2, <2>3, <2>4, <2>5, <2>6 DEF Bookkeeping
  <1>8. NoDependentOfFailureRan'
    <2> SUFFICES ASSUME NEW i \in ran', NEW d \in plan[i].deps, d < i
                 PROVE  results'[d] # "failed"
      BY <1>2 DEF NoDependentOfFailureRan
    <2>1. i \in 1..Len(plan) /\ d \in Nat \ {0}
      BY <1>1, <1>2, <1>5, ResultsHaveSteps
         DEF TypeOK, Step, ExecuteStep, MayExecute, Looping, At
    <2>2. d \in DOMAIN results
      BY <2>1, <1>1, <1>5, ResultsHaveSteps DEF TypeOK, At
    <2>3. CASE i \in ran
      BY <1>1, <2>2, <2>3 DEF NoDependentOfFailureRan
    <2>4. CASE i = At
      BY <1>1, <2>2, <2>4 DEF ExecuteStep, MayExecute, HasFailedDependency
    <2> QED
      BY <1>5, <2>3, <2>4
  <1>9. NothingRanBehindStop'
    <2>1. \A i \in DOMAIN results : ~Stops(i)'
      BY <1>1, <1>2, <1>3, MayExecuteIsClear DEF ExecuteStep, Stops
    <2>2. \A j \in ran' : j <= At
      BY <1>1, <1>5, ResultsHaveSteps DEF TypeOK
    <2> QED
      BY <1>1, <2>1, <2>2 DEF NothingRanBehindStop
  <1> QED
    BY <1>6, <1>7, <1>8, <1>9

(* The return keeps it.                                                    *)
LEMMA FinishIInv ==
  ASSUME IInv, Finish
  PROVE  IInv'
  <1> USE DEF IInv
  <1>1. UNCHANGED <<plan, dryRun, results, ran, abortedAt, gateSkippedAt,
                    remoteFailed, localWarnings>>
    BY DEF Finish
  <1>2. FailedAt' = FailedAt /\ FinalStatus' = FinalStatus
    BY <1>1 DEF FailedAt, FinalStatus
  <1>3. \A i : /\ Fatal(i)' <=> Fatal(i)
               /\ Stops(i)' <=> Stops(i)
    BY <1>1 DEF Fatal, Stops
  <1>4. TypeOK'
    BY <1>1 DEF Finish, TypeOK, FinalStatus, Verdicts
  <1>5. Bookkeeping'
    BY <1>1, <1>2, <1>3 DEF Finish, Bookkeeping
  <1>6. NoDependentOfFailureRan' /\ NothingRanBehindStop'
    BY <1>1, <1>3 DEF NoDependentOfFailureRan, NothingRanBehindStop
  <1> QED
    BY <1>4, <1>5, <1>6

(* It does not depend on anything outside the executor.                    *)
LEMMA StutterIInv ==
  ASSUME IInv, UNCHANGED execVars
  PROVE  IInv'
  BY DEF IInv, execVars, TypeOK, Bookkeeping, FailedAt, FinalStatus, Fatal, Stops,
         NoDependentOfFailureRan, NothingRanBehindStop

(* Every step of the executor keeps it.                                    *)
LEMMA NextIInv == IInv /\ [Next]_execVars => IInv'
  BY SkipDependentIInv, SkipBehindGateIInv, ExecuteStepIInv, FinishIInv, StutterIInv
     DEF Next

(* The bookkeeping holds throughout every apply of every plan.             *)
THEOREM Invariance == Spec => []IInv
  BY InitIInv, NextIInv, PTL DEF Spec

-----------------------------------------------------------------------------
(* Every variable keeps its type.                                          *)
THEOREM TypeCorrect == Spec => []TypeOK
  <1>1. IInv => TypeOK
    BY DEF IInv
  <1> QED
    BY <1>1, Invariance, PTL

(* A step whose dependency failed is never executed.                       *)
THEOREM DependentsNeverRun == Spec => []NoDependentOfFailureRan
  <1>1. IInv => NoDependentOfFailureRan
    BY DEF IInv
  <1> QED
    BY <1>1, Invariance, PTL

(* Nothing is executed behind a failed or skipped gate.                    *)
THEOREM GatesStop == Spec => []NothingRanBehindStop
  <1>1. IInv => NothingRanBehindStop
    BY DEF IInv
  <1> QED
    BY <1>1, Invariance, PTL

(* The reported status is the truth about the steps.                       *)
THEOREM TruthfulVerdict == Spec => []VerdictIsTruthful
  <1>1. IInv => VerdictIsTruthful
    <2> SUFFICES ASSUME IInv
                 PROVE  VerdictIsTruthful
      OBVIOUS
    <2>1. CASE status = "running"
      BY <2>1 DEF VerdictIsTruthful
    <2>2. CASE status # "running"
      <3>1. status = FinalStatus
        BY <2>2 DEF IInv, Bookkeeping
      <3>2. status = "success" => FailedAt = {}
        BY <3>1 DEF IInv, Bookkeeping, FinalStatus
      <3>3. status = "success_with_local_warnings" =>
              /\ FailedAt # {}
              /\ \A i \in FailedAt : plan[i].scope = "local" /\ i # 1
        BY <3>1 DEF IInv, Bookkeeping, FinalStatus, Fatal
      <3>4. status = "failed" => FailedAt # {}
        BY <3>1 DEF IInv, Bookkeeping, FinalStatus
      <3> QED
        BY <3>2, <3>3, <3>4 DEF VerdictIsTruthful
    <2> QED
      BY <2>1, <2>2
  <1> QED
    BY <1>1, Invariance, PTL

-----------------------------------------------------------------------------
(* What holds a step back.  Accounts is the bookkeeping of the steps that  *)
(* were not executed: each has a reason, the flag names a gate that was    *)
(* asked and said "skipped", and only an abort leaves steps without a      *)
(* result.                                                                 *)

BehindFailure(i) ==
  ~plan[i].gate /\ \E d \in plan[i].deps : d < i /\ results[d] = "failed"

Accounts ==
  /\ ~dryRun => \A i \in DOMAIN results :
       \/ i \in ran
       \/ i = abortedAt
       \/ BehindSkippedGate(i)
       \/ BehindFailure(i)
  /\ ~dryRun /\ gateSkippedAt # 0 =>
       /\ gateSkippedAt \in ran
       /\ plan[gateSkippedAt].gate
       /\ results[gateSkippedAt] = "skipped"
  /\ status # "running" => abortedAt # 0 \/ Len(results) = Len(plan)

(* A reason stays a reason when a result is appended.                      *)
LEMMA ReasonsStay ==
  ASSUME IInv, NEW s \in Outcomes, results' = Append(results, s), plan' = plan,
         ran \subseteq ran', NEW i \in DOMAIN results
  PROVE  /\ BehindSkippedGate(i) => BehindSkippedGate(i)'
         /\ BehindFailure(i) => BehindFailure(i)'
  <1>1. /\ i \in 1..Len(plan) /\ plan[i] \in Step
        /\ \A j \in DOMAIN results : results'[j] = results[j]
    BY AppendedResults, ResultsHaveSteps DEF IInv
  <1>2. \A g \in ran : g \in DOMAIN results
    BY DEF IInv, TypeOK
  <1>3. \A d \in plan[i].deps : d < i => d \in DOMAIN results
    BY <1>1 DEF IInv, TypeOK, Step
  <1>4. BehindSkippedGate(i) => BehindSkippedGate(i)'
    BY <1>1, <1>2 DEF BehindSkippedGate
  <1>5. BehindFailure(i) => BehindFailure(i)'
    BY <1>1, <1>3 DEF BehindFailure
  <1> QED
    BY <1>4, <1>5

(* A step skipped behind its dependency is a gate, where the plan aborts,  *)
(* or has the failure for a reason.                                        *)
LEMMA SkipDependentAccounts ==
  ASSUME IInv, Accounts, SkipDependent
  PROVE  Accounts'
  <1>1. "skipped" \in Outcomes
    BY DEF Outcomes
  <1>2. /\ UNCHANGED <<plan, dryRun, ran, gateSkippedAt, status>>
        /\ results' = Append(results, "skipped")
        /\ status = "running" /\ abortedAt = 0
        /\ abortedAt' = IF plan[At].gate THEN At ELSE 0
    BY DEF SkipDependent, Looping
  <1>3. /\ DOMAIN results' = DOMAIN results \cup {At}
        /\ At \in Nat \ {0} /\ At \notin DOMAIN results
        /\ \A j \in DOMAIN results : j < At /\ results'[j] = results[j]
    BY <1>1, <1>2, AppendedResults DEF IInv
  <1>4. \A i \in DOMAIN results : i # abortedAt
    BY <1>2, ResultsHaveSteps DEF IInv
  <1>5. \A i \in DOMAIN results :
          /\ BehindSkippedGate(i) => BehindSkippedGate(i)'
          /\ BehindFailure(i) => BehindFailure(i)'
    BY <1>1, <1>2, ReasonsStay
  <1>6. \A i : i = At => i = abortedAt' \/ BehindFailure(i)'
    BY <1>2, <1>3 DEF SkipDependent, HasFailedDependency, BehindFailure
  <1>7. ~dryRun /\ gateSkippedAt # 0 => results'[gateSkippedAt] = results[gateSkippedAt]
    BY <1>3 DEF IInv, TypeOK
  <1> QED
    BY <1>2, <1>3, <1>4, <1>5, <1>6, <1>7 DEF Accounts

(* A step skipped behind a gate has the gate for a reason.                 *)
LEMMA SkipBehindGateAccounts ==
  ASSUME IInv, Accounts, SkipBehindGate
  PROVE  Accounts'
  <1>1. "skipped" \in Outcomes
    BY DEF Outcomes
  <1>2. /\ UNCHANGED <<plan, dryRun, ran, abortedAt, gateSkippedAt, status>>
        /\ results' = Append(results, "skipped")
        /\ status = "running" /\ abortedAt = 0 /\ gateSkippedAt # 0
    BY DEF SkipBehindGate, Looping
  <1>3. /\ DOMAIN results' = DOMAIN results \cup {At}
        /\ \A j \in DOMAIN results : j < At /\ results'[j] = results[j]
    BY <1>1, <1>2, AppendedResults DEF IInv
  <1>4. \A i \in DOMAIN results : i # abortedAt
    BY <1>2, ResultsHaveSteps DEF IInv
  <1>5. \A i \in DOMAIN results :
          /\ BehindSkippedGate(i) => BehindSkippedGate(i)'
          /\ BehindFailure(i) => BehindFailure(i)'
    BY <1>1, <1>2, ReasonsStay
  <1>6. ~dryRun => results'[gateSkippedAt] = results[gateSkippedAt]
    BY <1>2, <1>3 DEF IInv, TypeOK
  <1>7. ~dryRun => \A i : i = At => BehindSkippedGate(i)'
    BY <1>2, <1>3, <1>6 DEF Accounts, IInv, TypeOK, BehindSkippedGate
  <1> QED
    BY <1>2, <1>3, <1>4, <1>5, <1>6, <1>7 DEF Accounts

(* A step that was executed needs no reason; a gate that said "skipped"    *)
(* was asked.                                                              *)
LEMMA ExecuteStepAccounts ==
  ASSUME IInv, Accounts, NEW outcome \in Outcomes, ExecuteStep(outcome)
  PROVE  Accounts'
  <1>1. /\ plan' = plan /\ dryRun' = dryRun /\ status' = "running"
        /\ results' = Append(results, outcome)
        /\ ran' = IF dryRun THEN ran ELSE ran \cup {At}
        /\ gateSkippedAt = 0 /\ abortedAt = 0
        /\ gateSkippedAt' =
             IF outcome = "skipped" /\ plan[At].gate THEN At ELSE gateSkippedAt
    BY DEF ExecuteStep, MayExecute, Looping
  <1>2. ran \subseteq ran'
    BY <1>1
  <1>3. /\ DOMAIN results' = DOMAIN results \cup {At}
        /\ results'[At] = outcome
    BY <1>1, AppendedResults DEF IInv
  <1>4. \A i \in DOMAIN results : i # abortedAt
    BY <1>1, ResultsHaveSteps DEF IInv
  <1>5. \A i \in DOMAIN results :
          /\ BehindSkippedGate(i) => BehindSkippedGate(i)'
          /\ BehindFailure(i) => BehindFailure(i)'
    BY <1>1, <1>2, ReasonsStay
  <1>6. ~dryRun => \A i \in DOMAIN results' :
          i \in ran' \/ BehindSkippedGate(i)' \/ BehindFailure(i)'
    BY <1>1, <1>2, <1>3, <1>4, <1>5 DEF Accounts
  <1>7. ~dryRun /\ gateSkippedAt' # 0 =>
          /\ gateSkippedAt' \in ran'
          /\ plan'[gateSkippedAt'].gate
          /\ results'[gateSkippedAt'] = "skipped"
    BY <1>1, <1>3
  <1> QED
    BY <1>1, <1>6, <1>7 DEF Accounts

(* Finish comes when the loop has nothing left.                            *)
LEMMA FinishAccounts ==
  ASSUME IInv, Accounts, Finish
  PROVE  Accounts'
  <1>1. UNCHANGED <<plan, dryRun, results, ran, abortedAt, gateSkippedAt>>
    BY DEF Finish
  <1>2. abortedAt # 0 \/ Len(results) = Len(plan)
    BY DEF Finish, Looping, At, IInv, TypeOK
  <1> QED
    BY <1>1, <1>2 DEF Accounts, BehindSkippedGate, BehindFailure

(* Every step of the executor keeps the accounts.                          *)
LEMMA AccountsStep ==
  ASSUME IInv, Accounts, [Next]_execVars
  PROVE  Accounts'
  <1>1. CASE UNCHANGED execVars
    BY <1>1 DEF execVars, Accounts, BehindSkippedGate, BehindFailure
  <1> QED
    BY <1>1, SkipDependentAccounts, SkipBehindGateAccounts, ExecuteStepAccounts,
       FinishAccounts DEF Next

(* A reported success covers the plan: it was not aborted, so the accounts *)
(* are complete, and the failure that held a step back is a local one, or  *)
(* the report would be "failed".                                           *)
THEOREM NothingIsPassedOver == Spec => []SuccessCoversPlan
  <1>1. Init => Accounts
    BY DEF Init, Begin, Accounts
  <1>2. IInv /\ Accounts /\ VerdictIsTruthful => SuccessCoversPlan
    <2> SUFFICES ASSUME IInv, Accounts, VerdictIsTruthful, ~dryRun,
                        status \in {"success", "success_with_local_warnings"},
                        NEW i \in DOMAIN plan
                 PROVE  \/ i \in ran \/ BehindSkippedGate(i)
                        \/ BehindLocalFailure(i)
      BY DEF SuccessCoversPlan
    <2>1. abortedAt = 0
      BY DEF IInv, Bookkeeping, FinalStatus
    <2>2. /\ DOMAIN results = DOMAIN plan /\ DOMAIN plan = 1..Len(plan)
          /\ Len(plan) \in Nat /\ i \in Nat \ {0} /\ plan[i] \in Step
      BY <2>1 DEF Accounts, IInv, TypeOK
    <2>3. i \in ran \/ BehindSkippedGate(i) \/ BehindFailure(i)
      BY <2>1, <2>2 DEF Accounts
    <2>4. \A d \in plan[i].deps : d < i => d \in DOMAIN results
      BY <2>2 DEF Step
    <2>5. BehindFailure(i) => BehindLocalFailure(i)
      BY <2>4 DEF BehindFailure, BehindLocalFailure, VerdictIsTruthful, FailedAt
    <2> QED
      BY <2>3, <2>5
  <1> QED
    BY <1>1, <1>2, AccountsStep, Invariance, TruthfulVerdict, PTL DEF Spec

-----------------------------------------------------------------------------
(* The refinement: performed steps are those whose handler was called.     *)

DoneAt == {i \in ran : results[i] = "success"}
BadAt  == {i \in ran : results[i] = "failed"}

(* The failed steps of the contract are those with a failed result.        *)
LEMMA BadIsFailed == IInv => BadAt = FailedAt
  BY DEF IInv, TypeOK, Bookkeeping, BadAt, FailedAt

(* The executor starts as the contract does.                               *)
LEMMA InitImplements == Init => Contract!Init
  BY DEF Init, Begin, Contract!Init

(* An executed step is one of the contract, or stutters.                   *)
LEMMA ExecuteStepImplements ==
  ASSUME IInv, NEW outcome \in Outcomes, ExecuteStep(outcome)
  PROVE  [Contract!Next]_Contract!vars
  <1> USE DEF IInv
  <1>1. /\ At \in Nat \ {0}
        /\ At \notin DOMAIN results
        /\ \A i \in DOMAIN results : i < At /\ results'[i] = results[i]
        /\ results'[At] = outcome
    BY AppendedResults DEF ExecuteStep
  <1>2. /\ plan' = plan /\ status' = status
        /\ ran' = IF dryRun THEN ran ELSE ran \cup {At}
        /\ status = "running" /\ abortedAt = 0 /\ gateSkippedAt = 0
        /\ ~HasFailedDependency(At) /\ At <= Len(plan)
    BY DEF ExecuteStep, MayExecute, Looping
  <1>3. ran \subseteq DOMAIN results /\ ran \cap {At} = {}
    BY <1>1 DEF TypeOK
  <1>4. CASE dryRun \/ outcome = "skipped"
    <2>1. DoneAt' = DoneAt /\ BadAt' = BadAt
      BY <1>1, <1>2, <1>3, <1>4 DEF DoneAt, BadAt
    <2> QED
      BY <1>2, <2>1 DEF Contract!vars, DoneAt, BadAt
  <1>5. CASE ~dryRun /\ outcome # "skipped"
    <2>1. At \in 1..Len(plan)
      BY <1>1, <1>2 DEF TypeOK
    <2>2. Contract!MayPerform(At)
      <3>1. \A j \in DoneAt \cup BadAt : j < At
        BY <1>1, <1>3 DEF DoneAt, BadAt
      <3>2. \A j \in BadAt : ~Contract!Stopper(j)
        BY <1>2, BadIsFailed DEF Bookkeeping, Fatal, Contract!Stopper
      <3>3. plan[At].deps \cap BadAt = {}
        BY <1>2, <1>3 DEF HasFailedDependency, BadAt
      <3> QED
        BY <1>2, <3>1, <3>2, <3>3 DEF Contract!MayPerform, DoneAt, BadAt
    <2>3. \/ DoneAt' = DoneAt \cup {At} /\ BadAt' = BadAt
          \/ BadAt' = BadAt \cup {At} /\ DoneAt' = DoneAt
      <3>1. CASE outcome = "success"
        BY <1>1, <1>2, <1>3, <1>5, <3>1 DEF DoneAt, BadAt
      <3>2. CASE outcome = "failed"
        BY <1>1, <1>2, <1>3, <1>5, <3>2 DEF DoneAt, BadAt
      <3> QED
        BY <1>5, <3>1, <3>2 DEF Outcomes
    <2>4. Contract!Perform(At)
      BY <1>2, <2>2, <2>3 DEF Contract!Perform, DoneAt, BadAt
    <2> QED
      BY <2>1, <2>4 DEF Contract!Next, Contract!Perform, Contract!MayPerform
  <1> QED
    BY <1>4, <1>5

(* The return is the verdict of the contract.                              *)
LEMMA FinishImplements ==
  ASSUME IInv, IInv', VerdictIsTruthful', Finish
  PROVE  [Contract!Next]_Contract!vars
  <1>1. UNCHANGED <<plan, results, ran>> /\ status = "running" /\ status' = FinalStatus
    BY DEF Finish
  <1>2. status' \in {"success", "success_with_local_warnings", "failed"}
    BY <1>1 DEF FinalStatus
  <1>3. BadAt = FailedAt /\ FailedAt' = FailedAt
    BY <1>1, BadIsFailed DEF FailedAt
  <1>4. Contract!Truthful(status')
    BY <1>1, <1>2, <1>3 DEF VerdictIsTruthful, Contract!Truthful, BadAt
  <1>5. Contract!Report(status')
    BY <1>1, <1>4 DEF Contract!Report
  <1> QED
    BY <1>2, <1>5 DEF Contract!Next

(* Every step of the executor is one of the contract, or stutters.         *)
LEMMA StepImplements ==
  ASSUME IInv, IInv', VerdictIsTruthful', [Next]_execVars
  PROVE  [Contract!Next]_Contract!vars
  <1>1. CASE SkipDependent
    <2>1. UNCHANGED <<plan, ran, status>> /\ \A i \in ran : results'[i] = results[i]
      BY <1>1, AppendedResults DEF SkipDependent, IInv, TypeOK, Outcomes
    <2> QED
      BY <2>1 DEF Contract!vars
  <1>2. CASE SkipBehindGate
    <2>1. UNCHANGED <<plan, ran, status>> /\ \A i \in ran : results'[i] = results[i]
      BY <1>2, AppendedResults DEF SkipBehindGate, IInv, TypeOK, Outcomes
    <2> QED
      BY <2>1 DEF Contract!vars
  <1>3. CASE \E outcome \in Outcomes : ExecuteStep(outcome)
    BY <1>3, ExecuteStepImplements
  <1>4. CASE Finish
    BY <1>4, FinishImplements
  <1>5. CASE UNCHANGED execVars
    BY <1>5 DEF execVars, Contract!vars
  <1> QED
    BY <1>1, <1>2, <1>3, <1>4, <1>5 DEF Next

(* Executor.apply keeps the promise of ApplyContract: each of its steps is *)
(* a step of the contract or invisible to it.                              *)
THEOREM Refinement == Spec => ImplementsContract
  <1>1. Init => Contract!Init
    BY InitImplements
  <1>2. IInv /\ IInv' /\ VerdictIsTruthful' /\ [Next]_execVars
          => [Contract!Next]_Contract!vars
    BY StepImplements
  <1> QED
    BY <1>1, <1>2, Invariance, TruthfulVerdict, PTL
       DEF Spec, ImplementsContract, Contract!Spec
=============================================================================
