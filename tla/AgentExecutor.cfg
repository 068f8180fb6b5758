CONSTANT StepIds <- MCStepIds
CONSTANT Plans <- MCPlans
CONSTANT Policies <- MCPolicies
CONSTANT MaxApplies = 3
SPECIFICATION Spec
INVARIANT TypeOK
INVARIANT RecordsAreTrue
INVARIANT NothingBehindGate
INVARIANT DependentsAreSkipped
INVARIANT SuccessConverges
INVARIANT DoctorAgrees
CHECK_DEADLOCK FALSE
