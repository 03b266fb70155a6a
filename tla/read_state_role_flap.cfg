\* A leader's read confirmed before an entry of its term is applied
\* (readyCnt 1), a step-down, PostApply, and a snapshot that makes the
\* applied index term equal to the term: the ready branch of ApplyReads
\* pops that read against a later read state.
CONSTANTS
    c1 = c1
    c2 = c2
    p1 = p1
    p2 = p2
    None = None
    Cmds <- MCCmds
    Self = p1
    Others <- MCOthers
    MaxTerm = 3
    MaxLog = 3
    MaxTime = 1
    MaxLease = 1
    Snapshots = TRUE
SPECIFICATION Spec
INVARIANT ReadStatesMatch
SYMMETRY CmdSymmetry
