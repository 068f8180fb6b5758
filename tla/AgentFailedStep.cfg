CONSTANT StepIds <- MCStepIds
CONSTANT Plans <- MCPlans
CONSTANT Policies <- MCPolicies
CONSTANT MaxApplies = 3
SPECIFICATION Spec
INVARIANT UnchangedWasApplied
CHECK_DEADLOCK FALSE
