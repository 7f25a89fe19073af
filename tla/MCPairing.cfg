\* Two phones, two PINs, three requests, two wrong guesses allowed.
CONSTANTS
    Devices = {d1, d2}
    Pins = {p1, p2}
    Requests = {r1, r2, r3}
    MaxFailures = 2
    None = None
SPECIFICATION Spec
SYMMETRY Symmetry
INVARIANTS
    TypeOK
    GuessBudget
    TrustIsEarned
    SessionKeyIsTrusted
PROPERTIES
    ImplementsTrust
