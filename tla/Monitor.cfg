SPECIFICATION Spec
CONSTANTS
  Mounts = {"sys/fs/cgroup", "/cgroup"}
  MaxPages = 3
  MaxTouches = 1
  MaxSnapshots = 2
  MaxNested = 2
INVARIANTS SnapshotConsistent FilesCounted MergedAreRuns SlicesFilled
PROPERTY SnapshotEnds
