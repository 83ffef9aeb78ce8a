CONSTANTS
    Writers = {w1, w2}
    Keep = 2
    MaxSize = 2
    MaxLines = 9
SPECIFICATION Spec
INVARIANTS LogInv FileBound
PROPERTY RetainsNewest
