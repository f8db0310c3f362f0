SPECIFICATION Spec
CONSTANTS
    v1 = v1
    v2 = v2
    Validators <- TwoValidators
    Half = 16
    LastEpoch = 6
    ActivationDelay = 1
    ExitDelay = 2
    MaxAge = 1
    MayPend = {TRUE, FALSE}
SYMMETRY Symmetry
INVARIANTS PendingSkipped
