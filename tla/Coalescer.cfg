CONSTANTS
    c1 = c1
    c2 = c2
    c3 = c3
    Clients <- MCClients
    MaxFlights = 3
    MaxVersion = 2
SPECIFICATION FairSpec
INVARIANT StuckCostsOne
INVARIANT InFlightIsComputed
INVARIANT ValidEntryIsExact
PROPERTY WaitersAreReleased
