\* Messages that do not say the sport of their event.
SPECIFICATION MCSpec
CONSTANTS
    Event = {s1, s2}
    Sport = {s1, s2}
    SportOf <- OwnSport
    Bookie = {b1}
    Socket = {k1, k2}
    NoSocket = none
    EnvSports = {s1, s2}
    EnvAuto = TRUE
    MaxSeq = 2
    MaxEntries = 2
    Evicted = 1
    MaxCached = 1
    Forgotten = 1
    MaxUntold = 2
    MaxTroubles = 0
INVARIANTS
    ShowsLatest
CHECK_DEADLOCK FALSE
