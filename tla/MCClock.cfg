SPECIFICATION PartsSpec
CONSTANTS
    F_CPU = 24000
    Base = 4
    PerSecond = 2
    Seconds = {1, 2}
    Lag = 2
    Bounce = 2
    Every = 4
    Cap = 31
INVARIANTS
    ReadIsTime
    StoppedIsStopped
    KeepsPeriod
    CountIsTime
