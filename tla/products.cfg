SPECIFICATION FairSpec
CONSTANTS
    w1 = w1
    t1 = t1
    v1 = v1
    v2 = v2
    Workers = {w1}
    Templates = {t1}
    Variants = {v1, v2}
    NoItem = NoItem
    NoSku = NoSku
    Skus <- Labels
    TemplateLimit = 1
    VariantLimit = 2
    MaxVersion = 1
    MaxEdits = 2
    Catalogues <- Successive
    MaxFaults <- EveryFault
    MaxAllFaults = 2
INVARIANTS
    MappedOnce
    NoMissedUpdate
PROPERTIES
    EventuallyMirrored
