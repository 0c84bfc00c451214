SPECIFICATION Spec
CONSTANTS
    terminal = terminal
    window = window
    Clients = {terminal, window}
    Repositories <- MCRepositories
    FolderNames <- MCFolderNames
    FolderOf <- MCFolderOf
    Catalog <- MCCatalog
    Builtin = {"a_b"}
    MaxOps = 2
    MaxScans = 1
    MaxFaults = 1
CHECK_DEADLOCK FALSE
INVARIANTS
    TypeOK
    ListedIsWhole
    LoadedIsOne
SYMMETRY MCSymmetry
