CONSTANTS
    Callers = {t1, t2, t3}
    MaxRounds = 3
    SpuriousWakeups = {TRUE}
SPECIFICATION BarrierSpec
INVARIANT NobodyLeavesEarly
CHECK_DEADLOCK FALSE
