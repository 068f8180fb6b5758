CONSTANT Procs <- MCClients
CONSTANT Inodes <- MCInodes
CONSTANT NoInode = 0
CONSTANT MaxJobs = 3
SPECIFICATION Spec
INVARIANT ReportIsOfOwnRun
CHECK_DEADLOCK FALSE
