SPECIFICATION Spec
CONSTANTS
    c1 = c1  c2 = c2  a = a  b = b  w = w  v = v  x = x  y = y
    Call = {c1, c2}
    None = None
    File = {a, b}
    Name = {w, v}
    Network = {x, y}
    Kinds <- MCKinds
    FirstNames <- MCFirstNames
    MaxId = 2
SYMMETRY MCSymmetry
INVARIANTS
    CheckedWalletIsWritten
PROPERTIES ChangesStayInTheirDatabase OneNetwork
