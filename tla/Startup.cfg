CONSTANTS
    p1 = p1
    p2 = p2
    p3 = p3
    n1 = n1
    n2 = n2
    Instance <- MCInstance
    Port <- MCPort
    MaxPairs = 5

SPECIFICATION Spec
SYMMETRY Symmetry

INVARIANT IInv
INVARIANT SignsWithTheFile
PROPERTY ReplacedOnlyInRace
