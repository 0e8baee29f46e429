\* Two runs over one path, their files and the checkpoint changing under them.
CONSTANTS
    K = K
    v0 = v0
    v1 = v1
    Run = {"r1", "r2"}
    Job <- Jobs
    Name = {K}
    Shards = 2
    Version = {v0, v1}
    Missing = Missing
    Any = Any
    Absent = Absent
    Old = Old
    Hole = Hole
    Blocks = 2
    MaxEdits = 1
SPECIFICATION Spec
INVARIANTS TypeOK NoClobber SuccessIsOnDisk DecodeLiesBesideItsKey ExpectedHashGuardsOutput
CHECK_DEADLOCK FALSE
