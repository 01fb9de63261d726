SPECIFICATION ProbeSpec
CONSTANTS
    Root = Root
    Worker = Worker
    MaxFork = 2
    Clients = {c1, c2}
    Count = 2
INVARIANTS
    ReportIsTrue
    ConnectionsAreWhole
    DialerGetsItsReply
PROPERTIES
    ForwarderExits
