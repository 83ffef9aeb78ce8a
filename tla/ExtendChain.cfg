CONSTANTS
    Apps = {a1, a2}
    Methods = {m}
    Orders = {0, 1}
    Handlers = {h1, h2}
    NoRequest = NoRequest
    Calls = {c1}
    MaxRegs = 1
    MaxBorn = 3
SYMMETRY Perms
SPECIFICATION Spec
INVARIANT NoHookSkipped
INVARIANT ChainInOrder
INVARIANT CapOvershoot
