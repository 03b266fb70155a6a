\* Every change type and role, with learners: conf changes and the log.
CONSTANTS
    p1 = p1  p2 = p2  p3 = p3  p4 = p4
    Peers = {p1, p2, p3}
    Self = p1
    MaxIndex = 3
    AllowRemoveLeader = FALSE
    ChangeTypes = {"AddNode", "RemoveNode", "AddLearnerNode"}
    Roles = {"Voter", "Learner"}
    NoPeer = NoPeer
    LeaderTransferMaxLogLag = 1
    MergeMaxLogGap = 2
INIT Init
NEXT Next
SYMMETRY PeerSymmetry
INVARIANTS TypeOK AcceptedConfChangeInLog
