\* Read paths, proposals, leader transfer, elections and destruction,
\* without snapshots.
CONSTANTS
    c1 = c1
    c2 = c2
    p1 = p1
    p2 = p2
    None = None
    Cmds <- MCCmds
    Self = p1
    Others <- MCOthers
    MaxTerm = 2
    MaxLog = 3
    MaxTime = 1
    MaxLease = 1
    Snapshots = FALSE
SPECIFICATION Spec
INVARIANTS
    TypeOK
    CallbacksExact
    LeaseSuspicionRespected
    LeaseBackedByAck
SYMMETRY CmdSymmetry
VIEW MCViewNoGhosts
