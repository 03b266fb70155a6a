\* Draining of the readyCnt prefix once the applied index term equals the
\* term again, with snapshots.
CONSTANTS
    c1 = c1
    c2 = c2
    p1 = p1
    p2 = p2
    None = None
    Cmds <- MCOneCmd
    Self = p1
    Others <- MCOthers
    MaxTerm = 2
    MaxLog = 3
    MaxTime = 1
    MaxLease = 1
    Snapshots = TRUE
SPECIFICATION FairSpec
PROPERTY ReadyReadsDrained
