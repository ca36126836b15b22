SPECIFICATION Spec
CONSTANTS
    PipeCapacity = 2
    OutputLimit <- MCOutputLimit
    MaxOutput <- MCMaxOutput
CHECK_DEADLOCK FALSE
PROPERTY
    TimeoutCoversWholeCommand
