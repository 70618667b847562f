CONSTANTS
    p1 = p1
    p2 = p2
    a = a
    b = b
    c = c
    plain = plain
    via = via
    Providers = {p1, p2}
    TagsOf <- MCTagsOf
    Options = {plain, via}
    Detour <- MCDetour
    Matching = {a, c}
    Saved = {c}
    MaxUpdates = 2
    Compatible = Compatible
    None = None
SPECIFICATION Spec
INVARIANTS LiveIsPublished GroupSettles SelectionSticks
PROPERTIES OnlyChangedRestart ShutdownCompletes
CHECK_DEADLOCK FALSE
