CONSTANTS
    Sessions = {s1, s2}
    Bodies = {b1, b2}
    Usages = {u1, u2}
    MaxId = 4
    Limit = 2
SPECIFICATION Spec
SYMMETRY Symmetry
INVARIANTS
    LinksResolve
    VerifiesUnlessOverlapped
    TamperingDetected
PROPERTIES
    BrokenStaysBroken
