\* A restarted peer whose persisted term equals its applied index term:
\* a reader reaches Inspect before any remote lease was published.
CONSTANTS
    Nil = Nil
    MaxTerm = 3
    MaxVersion = 0
    InitTerms = {1}
SPECIFICATION Spec
INVARIANT NoNilLeaseInspect
