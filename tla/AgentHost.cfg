CONSTANT Procs <- MCClients
CONSTANT Inodes <- MCInodes
CONSTANT NoInode = 0
CONSTANT MaxJobs = 3
SPECIFICATION Spec
INVARIANT TypeOK
INVARIANT ExclusiveUnlessUnlinkRace
INVARIANT NoLostUpdateUnlessUnlinkRace
INVARIANT ResultIsOfAnApply
PROPERTY JobEnds
PROPERTY RefusedOnlyWhileHeld
CHECK_DEADLOCK FALSE
