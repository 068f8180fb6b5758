CONSTANT StepIds <- MCStepIds
CONSTANT Plans <- MCPlans
CONSTANT AgentPlans <- MCAgentPlans
CONSTANT OpenPolicy <- MCOpenPolicy
CONSTANT Situations <- MCSituations
CONSTANT Items <- MCItems
CONSTANT Sites <- MCSites
CONSTANT Units <- MCUnits
CONSTANT Timers <- MCTimers
CONSTANT MaxApplies = 4
SPECIFICATION ApplySpec
INVARIANT SpecApplyTypeOK
INVARIANT SuccessMeansInPlace
INVARIANT CleanApplySucceeds
INVARIANT AcceptedStackIsOrdered
PROPERTY EveryApplyReports
CHECK_DEADLOCK FALSE
