\* Three syncs per second of six ticks; a sync may outlast the interval.
SPECIFICATION Spec
CONSTANTS
    RateLimit = 3
    Interval = 7
    Second = 6
    MaxDur = 9
INVARIANTS TriggerKept RateBound SyncsKeepComing
PROPERTY CancelStops
