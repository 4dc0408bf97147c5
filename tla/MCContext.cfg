SPECIFICATION Spec
CONSTANTS
    Threads = {t1}
    Names = {a, b}
    Lengths = {FALSE}
    Values = {u, v}
    Null = Null
    MaxGlobal = 2
    MaxTags = 3
    MaxDepth = 5
SYMMETRY Symmetry
INVARIANTS
    TypeOK
    GlobalTagsAreMap
    ScopesAreTags
    NoTagOutlivesScope
    EntryCarriesContext
