SPECIFICATION Spec
CONSTANTS
    MaxRequests = 2
    MaxAddresses = 2
    Https <- MCSecond
    CloseDelimited <- MCFirst
    f1 = f1
    f2 = f2
    Fds <- MCFds
SYMMETRY Symmetry
CONSTRAINT UntilTaken
INVARIANTS
    TypeOK
    NumberedRight
    RecordOfOwnConnection
    SnapshotNotOfAnotherRequest
    FirstExpiryRecorded
    AgentVerdictUnlessClosedEarly
CHECK_DEADLOCK FALSE
