\* The instance of SyncTrigger.cfg.
SPECIFICATION Spec
CONSTANTS
    RateLimit = 3
    Interval = 7
    Second = 6
    MaxDur = 9
INVARIANT RateLimitIsMaximum
