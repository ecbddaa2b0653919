SPECIFICATION Spec
CONSTANTS
    w1 = w1
    w2 = w2
    t1 = t1
    t2 = t2
    v1 = v1
    v2 = v2
    Workers = {w1, w2}
    Templates = {t1, t2}
    Variants = {v1, v2}
    NoItem = NoItem
    NoSku = NoSku
    Skus <- Labels
    TemplateLimit = 1
    VariantLimit = 2
    MaxVersion = 1
    MaxEdits = 1
    Catalogues <- Overlapping
    MaxFaults <- EveryFault
    MaxAllFaults = 2
INVARIANTS
    TypeOK
    HashWasWritten
    DuplicatesPaidFor
SYMMETRY Interchangeable
