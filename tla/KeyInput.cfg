SPECIFICATION FairSpec
CONSTANTS
    Tty = {0, 1}
    BufferSize = 3
    MaxKeys = 4
    MaxPaste = 2
INVARIANTS TypeOK WakesAreKeys KeysInOrder
PROPERTIES KeyIsRead
