CONSTANTS
    a = a
    b = b
    c = c
    p1 = p1
    p2 = p2
    None = None
    Objects = {a, b}
    Processes = {p1, p2}
    Process <- TwoProcesses
    Streams = {s}
    Older <- OlderFiles
    WritesFail = TRUE
    MaxBatch = 2
    MaxSeq = 4
    MaxLines = 3
SPECIFICATION Spec
INVARIANTS SeqIncreasing ReturnedIsReadable NothingSkipped
PROPERTIES NeverUnread LogSpec
CONSTRAINT ClosesAlone
