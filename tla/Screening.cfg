SPECIFICATION FairSpec
CONSTANTS
    v1 = v1
    w1 = w1
    w2 = w2
    Viewers <- MCViewers
    Runners <- MCRunners
    Docs <- MCDocs
    Versions <- MCVersions
    Wanted <- MCDocs
    Lists <- MCLists
    First <- MCFirst
    MaxErrata = 1
    MaxFaults = 1
    None = None
INVARIANTS
    TypeOK
    ReadingMatchesItsKey
PROPERTIES
    ServesTheFiledDocuments
    ReadingsAreKept
    EveryAskIsServed
