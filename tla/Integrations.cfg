SPECIFICATION Spec
CONSTANTS
    Bin = {npm, go, tmp}
    Unstable = {tmp}
    PathBin = npm
    Managed = {go}
    Mine = {m1}
    Proc = {c1, c2}
    Installed <- OneOrTwo
    MaxRuns = 2
    MaxChanges = 1
    MaxFaults = 1
SYMMETRY Symmetry
CHECK_DEADLOCK FALSE
INVARIANTS MineKept RepairReaches
