\* A reader racing a split applied on its leader: it loads the old region,
\* the leader applies the split (SetRegion expires the remote lease and
\* publishes the new region) and renews its lease, and the reader then
\* loads the new remote lease.  The leader keeps its term, so the race is
\* not the one of checker_term_race.
CONSTANTS
    Nil = Nil
    MaxTerm = 1
    MaxVersion = 1
    InitTerms = {1}
INIT MCInitLeader
NEXT Next
PROPERTY LocalReadCurrentEpoch
