SPECIFICATION Spec
CONSTANTS
    Views <- MCViews
    Home = "/home"
    MaxPast = 1
    MaxTasks = 2
    MaxLoads = 1
    MaxFaults = 1
INVARIANTS ErasedStaysErased LayersAgree TargetKept InsideMeansKey
CHECK_DEADLOCK FALSE
PROPERTIES BootEnds SignOutLeaves
