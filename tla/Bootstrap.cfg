CONSTANT StepIds <- MCStepIds
CONSTANT Plans <- MCPlans
CONSTANT Ports <- MCPorts
CONSTANT Situations <- MCSituations
CONSTANT MaxApplies = 2
CONSTANT MaxFaults = 1
SPECIFICATION ApplySpec
INVARIANT ApplyTypeOK
INVARIANT HardenedMeansAdminAuth
INVARIANT SuccessMeansControl
INVARIANT NeverLockedOut
INVARIANT RunningTunnelHasSavedKeys
INVARIANT VerifiedWhereTunnelCanBeTried
CHECK_DEADLOCK FALSE
