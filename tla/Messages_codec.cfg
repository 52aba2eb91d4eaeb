SPECIFICATION Spec
CONSTANTS
    Unset = Unset
    Sizes <- MCSizes
    MaxChanges = 1
    MaxSent = 2
INVARIANT WholeMessagesArrive
INVARIANT DamagedIsNotMisread
