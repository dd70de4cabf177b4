SPECIFICATION Spec
CONSTANTS
    Handlers = {h1, h2}
    Tokens = {t1}
    Scopes = {"READ", "write"}
    Spellings = {"read", "READ", "write"}
    ToLower <- Lower
    Interval = 0
SYMMETRY Symmetry
INVARIANTS AllowedOnlyIfReported CacheHoldsReported JwtAcceptsTheAuthentic
