SPECIFICATION Spec
CONSTANTS
    Handlers = {h1}
    Tokens = {t1}
    Scopes = {"read"}
    Spellings = {"read", "READ", "write"}
    ToLower <- Lower
    Interval = 2
PROPERTIES HitsWithinInterval
