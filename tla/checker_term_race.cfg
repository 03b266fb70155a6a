\* A reader racing the election of its peer: the remote lease of the new
\* term is published before the term.
CONSTANTS
    Nil = Nil
    MaxTerm = 3
    MaxVersion = 0
    InitTerms = {1}
SPECIFICATION Spec
INVARIANT LocalReadApplied
