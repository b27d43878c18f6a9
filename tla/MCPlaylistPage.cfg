SPECIFICATION Spec

CONSTANTS
    a = a
    b = b
    c = c
    s1 = s1
    s2 = s2
    Ids <- MCIds
    NewIds = {c}
    Start <- MCStart
    Slots <- MCSlots
    MaxLength = 2
    MaxCopy = 1
    None = None

SYMMETRY MCSymmetry

INVARIANTS
    CounterCovers
    PageInv
    

PROPERTIES
    OnlyReportsPartArrays
    AnswersStayOnTarget
    OnlyDeletionsLoseChannels
