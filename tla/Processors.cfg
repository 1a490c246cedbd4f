CONSTANTS
    Cpus = {0, 1, 2, 9}
    Online = {0, 1, 2}
    Tasks = {t1, t2, t3}
    MaxGeneration = 1
    MaxYields = 1
    None = None
    SmpCpus = {c1, c2}
    MaxEpoch = 2
    Rediscover = FALSE
    NoEpoch = NoEpoch
SPECIFICATION ProcessorsSpec
INVARIANTS UniqueOwnership WaitsOnlyForOnline
PROPERTIES SupersededStandsStill ShootdownsComplete NoStarvation
CHECK_DEADLOCK FALSE
