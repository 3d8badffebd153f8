SPECIFICATION Spec
CONSTANTS
  Mounts = {"/mnt/cgroup"}
  MaxPages = 1
  MaxTouches = 1
  MaxSnapshots = 1
  MaxNested = 1
PROPERTY InterruptThaws
