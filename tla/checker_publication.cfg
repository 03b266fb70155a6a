\* Elections, step-downs, renewals, applies and destruction against a
\* reader looping over isExpired, from every restart state up to term 1.
CONSTANTS
    Nil = Nil
    MaxTerm = 3
    MaxVersion = 1
    InitTerms = {0, 1}
SPECIFICATION Spec
INVARIANTS
    LeaseNotOlderThanTerm
    
    ValidLeaseCurrentVersion
