SPECIFICATION Spec
CONSTANTS
    BlockSize = 6
    LengthSize = 2
    Messages <- MCMessages
    Stale = Stale
INVARIANTS TypeOK NothingLost HashesThePadded
