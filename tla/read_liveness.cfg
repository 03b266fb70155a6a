\* Liveness of confirmed reads on a leader, under the peer's own fairness,
\* without snapshots.  One command, so one read-index request at a time;
\* the clock stays at 0 (the lease only decides between a local read and
\* a read-index request, and both are proposed).
CONSTANTS
    c1 = c1
    c2 = c2
    p1 = p1
    p2 = p2
    None = None
    Cmds <- MCOneCmd
    Self = p1
    Others <- MCOthers
    MaxTerm = 2
    MaxLog = 3
    MaxTime = 0
    MaxLease = 1
    Snapshots = FALSE
SPECIFICATION FairSpec
PROPERTIES
    ConfirmedReadAnswered
    ReadSeesAckedWrites
