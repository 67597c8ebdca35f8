CONSTANTS
    BufSize = 16
    HeaderSize = 3
    ElementSize = 3
    Elements = {e1, e2, e3}
    Junk = junk
    Nothing = nothing
SPECIFICATION FairSpec
INVARIANTS
    NoOverwriteWhileReading
PROPERTIES
    ImplementsFifo
    AcceptedIsReceived
