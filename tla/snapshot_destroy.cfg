\* Snapshots from the leader, the region worker, and destruction racing
\* a snapshot, with the apply-pipeline, PostApply, queue and callback
\* properties and the refinement of the abstract read queue.  The clock
\* reaches 1 so that a read sent a lease after the last one is not
\* batched onto it (CanBatch) and two read-index requests can be queued;
\* two log entries leave room for an election entry and one proposal.
CONSTANTS
    c1 = c1
    c2 = c2
    p1 = p1
    p2 = p2
    None = None
    Cmds <- MCCmds
    Self = p1
    Others <- MCOthers
    MaxTerm = 2
    MaxLog = 2
    MaxTime = 1
    MaxLease = 1
    Snapshots = TRUE
SPECIFICATION Spec
INVARIANTS
    QueueAligned
    ApplyPipelineOrdered
    PostApplySafe
    CallbacksExact
PROPERTY
    ReadQueueRefined
SYMMETRY CmdSymmetry
