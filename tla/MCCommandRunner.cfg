SPECIFICATION Spec
CONSTANTS
    PipeCapacity = 2
    OutputLimit <- MCOutputLimit
    MaxOutput <- MCMaxOutput
CHECK_DEADLOCK FALSE
INVARIANTS
    TypeOK
    OutputFaithful
    KilledNeverReturned
PROPERTIES
    TimeoutBoundsRun
    NoPipeDeadlock
