SPECIFICATION Spec
CONSTANTS
    NSlots = 3
    k = k
    a = a
    b = b
    c = c
    Names <- MCNames
    Foreign = k
    Page = 1
    MaxKeys = 3
INVARIANTS NamesUnique AnsweredIsStored PageIsCurrent
PROPERTY NothingLostUntouched
SYMMETRY MCSymmetry
