SPECIFICATION MCSpec
CONSTANTS
    Locs = {l1, l2}
    Terms <- AllTerms
    Extents = {{l1}, {l2}, {l1, l2}}
    Entries = {e1}
    Hash <- OneEntry
    RSBSize = 2
    Slots = 2
    None = None
INVARIANTS RunsLiveCode PCExact RequestsKept NoStaleCode
SYMMETRY Symmetry
