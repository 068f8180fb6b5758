CONSTANT StepIds <- MCStepIds
CONSTANT Plans <- MCPlans
CONSTANT Ports <- MCPorts
CONSTANT Situations <- MCSituations
CONSTANT MaxApplies = 2
CONSTANT MaxFaults = 0
SPECIFICATION ApplySpec
INVARIANT GateFailureKeepsAccess
CHECK_DEADLOCK FALSE
