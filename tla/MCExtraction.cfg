SPECIFICATION Spec
CONSTANTS
    a = a
    aPartial = aPartial
    aPartialPartial = aPartialPartial
    d = d
    dPartial = dPartial
    dx = dx
    dxPartial = dxPartial
    up = up
    upPartial = upPartial
    ill = ill
    illPartial = illPartial
    dots = dots
    dotsPartial = dotsPartial
    Paths <- MCPaths
    Names <- MCNames
    Above <- MCAbove
    PartialOf <- MCPartialOf
    Refused = {up}
    Illegal = {ill}
    Dotted = {dots, dotsPartial}
    Archives <- MCArchives
    EntryLimits = {2, 3}
    ByteLimits = {1, 2, 9}
    Block = 2
    MaxListed = 1
    MaxRounds = 2
    None = None
    Dir = Dir
INVARIANT TypeOK
INVARIANT Manifested
INVARIANT WholeIfComplete
INVARIANT Accounted
CHECK_DEADLOCK FALSE
