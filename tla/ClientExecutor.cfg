CONSTANT StepIds <- MCStepIds
CONSTANT Plans <- MCPlans
SPECIFICATION Spec
INVARIANT TypeOK
INVARIANT NoDependentOfFailureRan
INVARIANT NothingRanBehindStop
INVARIANT VerdictIsTruthful
INVARIANT SuccessCoversPlan
PROPERTY ImplementsContract
CHECK_DEADLOCK FALSE
