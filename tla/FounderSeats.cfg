SPECIFICATION FairSpec
CONSTANTS
    r1 = r1
    r2 = r2
    r3 = r3
    r4 = r4
    r5 = r5
    e1 = e1
    e2 = e2
    e3 = e3
    e4 = e4
    w1 = w1
    w2 = w2
    w3 = w3
    w4 = w4
    Requests <- MCRequests
    Emails <- MCEmails
    Email <- MCEmail
    Whatsapp <- MCWhatsapp
    Seats = 2
    MaxErasures = 1
    MaxDrops = 1
    Nobody = Nobody
    Absent = Absent
\* Every submission answered is the end of a behaviour.
CHECK_DEADLOCK FALSE
INVARIANTS
    TypeOK
    BackstopIsIdle
    NumberIsListedOnce
    AccountSeatIsItsOwn
    SeatsFillInOrder
    PositionHolds
PROPERTIES
    AccountSeatStays
    LockIsReleased
    ImplementsFounderList
