\* A leader commits a PrepareMerge of its term and keeps reading locally
\* while the entry waits to be applied.
CONSTANTS
    c1 = c1
    c2 = c2
    p1 = p1
    p2 = p2
    None = None
    Cmds <- MCOneCmd
    Self = p1
    Others <- MCOthers
    MaxTerm = 1
    MaxLog = 3
    MaxTime = 1
    MaxLease = 1
    Snapshots = FALSE
SPECIFICATION Spec
PROPERTY PrepareMergeBlocksLocalRead
