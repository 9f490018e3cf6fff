\* Two clients and two workers, either of which may panic, around a channel of one slot;
\* two actors everywhere.
CONSTANTS
    t1 = t1
    t2 = t2
    w1 = w1
    w2 = w2
    Clients = {t1, t2}
    Workers = {w1, w2}
    Capacity = 1
    MaxJobs = 3
    MaxPanics = 2
SPECIFICATION MCSpec
SYMMETRY Alike
INVARIANTS PipelineSafe FinishTruthful CodecSafe MooncakeSafe S3KvTierSafe
PROPERTIES RedisSafe OutcomeStable
CHECK_DEADLOCK FALSE
