SPECIFICATION FairSpec
CONSTANTS
    u1 = u1
    u2 = u2
    s1 = s1
    s2 = s2
    n1 = n1
    n2 = n2
    n3 = n3
    Users <- TwoUsers
    Notifications <- ThreeNotifications
    Recipient <- TwoRecipients
    Streams <- TwoStreams
    Owner <- TwoOwners
    Buffer = 1
CHECK_DEADLOCK FALSE
INVARIANTS
    TypeOK
    NoSendOnClosed
    ToldInOrder
    ToldIsStored
PROPERTIES
    LeaverRemoved
    DispatchNeverStalls
