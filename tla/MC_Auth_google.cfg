CONSTANTS
    u1 = u1
    u2 = u2
    h1 = h1
    h2 = h2
    NoUser = NoUser
    Users <- MCUsers
    Handlers <- MCHandlers
    Plugin = "google"
SPECIFICATION Spec
SYMMETRY MCSymmetry
INVARIANTS
    ExecutedAsProvenUser
