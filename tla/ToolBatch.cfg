SPECIFICATION Spec
CONSTANTS
    runtime = runtime
    shell = shell
    note = note
    inner = inner
    Actors = {runtime, shell}
    Files = {note, inner}
    Folders = {note}
    Above <- MCAbove
    Inside <- MCInside
    Ignored = {}
    Values = {text}
    Absent = Absent
    Dir = Dir
    Partial = Partial
    NoFile = NoFile
    NoCommit = NoCommit
    CheckpointLabel = checkpoint
    BackupLabel = backup
    Labels = {checkpoint, backup}
    Batches <- MCBatches
    Keep = 1
    MaxSnapshots = 2
    MaxSecond = 1
    MaxBatches = 2
    MaxCrashes = 1
CHECK_DEADLOCK FALSE
INVARIANTS
    CheckpointFaithful
    RollbackReturns
    CheckpointHeld
    ListedRestorable
    NoLostRefs
SYMMETRY MCSymmetry
