SPECIFICATION ScenarioSpec
CONSTANTS
    o1 = o1
    o2 = o2
    o3 = o3
    Openers <- Processes
    None = None
    Stale = Stale
    MaxInodes = 3
    MaxPolls = 2
    MaxKills = 1
    MaxFaults = 1
    MaxTouches = 2
INVARIANTS InitializesOnce AdmittedIsReady NoSpuriousRefusal
PROPERTY OpenEnds
