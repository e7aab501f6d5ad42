CONSTANTS
    Workers = {1, 2}
    MaxSchedpoints = 5
    WindowSize = 2
    HwSlots = 3
    Hook = "hook"
    Dummy = "dummy"
    NoAddr = "0"
    Plans <- AllPlans
    MaxCpus = 8
    MaxAttempts = 2
    WatchdogMax = 2
    WatchdogHookFactor = 2
    WatchdogKill = 6
SPECIFICATION Spec
INVARIANTS
    TypeOK
    NoAssertFails
    BreakpointsAccounted
    TurnExclusion
    KidnappedForSchedule
PROPERTIES
    ScheduleGoesForward
    ImplementsExecControl
