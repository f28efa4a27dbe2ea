\* A question about two filings, each with two generations of two chunks.
SPECIFICATION Spec
CONSTANTS
    o1 = o1
    o2 = o2
    Question = {q1}
    Accession = {a1, a2}
    Version = {v1, v2}
    Ordinal = {o1, o2}
    None = None
    MaxResults = 2
    SearchLimit = 3
    Injected <- SecondChunks
SYMMETRY Symmetric
CHECK_DEADLOCK FALSE
INVARIANTS
    OneInstant
    ListingConsistent
