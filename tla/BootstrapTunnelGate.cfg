CONSTANT StepIds <- MCStepIds
CONSTANT Plans <- MCPlans
CONSTANT Ports <- MCPorts
CONSTANT Situations <- MCSituations
CONSTANT MaxApplies = 2
CONSTANT MaxFaults = 0
SPECIFICATION ApplySpec
INVARIANT OpenRuleDeletedOnlyVerified
CHECK_DEADLOCK FALSE
