--------------------------- MODULE MCConfChange ---------------------------
EXTENDS ConfChange, TLC

CONSTANTS p1, p2, p3, p4


\* The peers other than the leader are interchangeable.
PeerSymmetry == Permutations(Peers \ {Self})

\* A group without learners.
MCInitVoters == Init /\ learners = {}
====
