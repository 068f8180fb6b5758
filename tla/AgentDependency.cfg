CONSTANT StepIds <- MCStepIds
CONSTANT Plans <- MCPlans
CONSTANT Policies <- MCPolicies
CONSTANT MaxApplies = 3
SPECIFICATION Spec
INVARIANT DependenciesSucceeded
CHECK_DEADLOCK FALSE
