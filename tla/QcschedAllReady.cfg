CONSTANTS
    Workers = {1, 2}
    MaxSchedpoints = 4
    WindowSize = 2
    HwSlots = 3
    Hook = "hook"
    Dummy = "dummy"
    NoAddr = "0"
    Plans <- PingPong
    MaxCpus = 8
    MaxAttempts = 2
    WatchdogMax = 2
    WatchdogHookFactor = 2
    WatchdogKill = 6
SPECIFICATION Spec
INVARIANT ActiveWithAllReady
