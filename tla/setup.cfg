\* Three processes open a database with none to all of the migrations, two stops.
CONSTANTS
    Process = {p1, p2, p3}
    MaxStops = 2
SPECIFICATION SetupSpec
INVARIANT OpenStoresAreMigrated
PROPERTY EveryoneOpens
CHECK_DEADLOCK FALSE
