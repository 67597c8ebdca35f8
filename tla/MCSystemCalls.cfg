CONSTANTS
    IntBits = 4
    LongBits = 5
    Buffers <- MCBuffers
    Directives <- MCDirectives
    Numbers <- MCNumbers
    Strings <- MCStrings
    Descs <- MCDescs
    Statuses = {0, 31}
    BUF_SIZE = 2
    NAME_LEN = 3
    VMR_SIZE = 3
    CONFIG_SIZE = 2
    MSG_SIZE = 3
    NAMESPACE <- MCNAMESPACE
    NR_EXCEPTIONS = 2
    NR_INTERRUPT_VECTORS = 3
    MaxDescs = 1
    MaxRequests = 3
    MaxInterrupts = 1
SPECIFICATION Spec
INVARIANTS OutputIsExact CopyFaultsAreErrors NumbersReadBack
PROPERTY SystemCallsReturn
CHECK_DEADLOCK FALSE
