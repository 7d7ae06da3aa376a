SPECIFICATION Spec
CONSTANTS
    Programs <- AllPrograms
    Addr = {1, 2}
    MaxFrames = 4
CHECK_DEADLOCK FALSE
INVARIANTS
    Sound
    NoLeaks
    AcceptsIntended
PROPERTIES
    VerificationTerminates
