SPECIFICATION HSpec
CONSTANTS
    v1 = v1
    w1 = w1
    w2 = w2
    Viewers <- MCViewers
    Runners <- MCRunner
    Docs <- MCDocs
    Versions <- MCVersions
    Wanted <- MCDocs
    Lists <- MCLists
    First <- MCFirst
    MaxErrata = 2
    MaxFaults = 0
    None = None
PROPERTY RetiredReadingsStayRetired
