SPECIFICATION MockSpec
CONSTANTS
    c1 = c1
    c2 = c2
    t1 = t1
    a = a
    Nobody = Nobody
    Clients <- TwoClients
    Testers <- OneTester
    Channels <- OneChannel
    MaxStarts = 1
    MaxJoined = 2
SYMMETRY Symmetry
INVARIANTS
    MembersAreLive
    StopDisconnects
