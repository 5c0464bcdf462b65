CONSTANTS
    h1 = h1  h2 = h2  s1 = s1  s2 = s2
    Handlers = {h1, h2}
    Starters = {s1, s2}
    Areas = {"keys", "files", "mappings"}
    REQUESTS = 4
    STARTS = 2
    CRASHES = 1
SPECIFICATION Spec
SYMMETRY Symmetric
CHECK_DEADLOCK FALSE
INVARIANTS
    TypeOK
    ActiveIsChosen
    SecretsAreReadable
    KeysKeepTheirOwn
    PresetsKept
    MappingsNotMixed
