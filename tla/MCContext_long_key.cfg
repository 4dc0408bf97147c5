SPECIFICATION Spec
CONSTANTS
    Threads = {t1}
    Names = {a}
    Lengths = {FALSE, TRUE}
    Values = {u}
    Null = Null
    MaxGlobal = 2
    MaxTags = 2
    MaxDepth = 2
SYMMETRY Symmetry
INVARIANTS
    TagsRemovedWithScope
