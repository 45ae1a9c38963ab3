SPECIFICATION GatewaySpec
CONSTANTS
    c1 = c1
    c2 = c2
    c3 = c3
    Clients <- MCClients
    Asks <- MCAsks
    Workers = 2
    MaxCrashes = 1
PROPERTY ConflictIsTrue
