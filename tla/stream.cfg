\* Two events of two sports, with breaks, restarts and reconfigurations.
SPECIFICATION MCSpec
CONSTANTS
    Event = {s1, s2}
    Sport = {s1, s2}
    SportOf <- OwnSport
    Bookie = {b1}
    Socket = {k1, k2}
    NoSocket = none
    EnvSports = {s1, s2}
    EnvAuto = TRUE
    MaxSeq = 3
    MaxEntries = 1
    Evicted = 1
    MaxCached = 1
    Forgotten = 1
    MaxUntold = 1
    MaxTroubles = 2
INVARIANTS
    TypeOK
    OneListener
PROPERTIES
    ImplementsBoard
    EventuallyCaughtUp
CHECK_DEADLOCK FALSE
