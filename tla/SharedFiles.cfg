SPECIFICATION Spec
CONSTANTS
    runtime = runtime
    cli = cli
    token = token
    key = key
    Clients = {runtime, cli}
    Names = {token, key}
    Sections = {"agent", "tools"}
    Asked = token
    MaxOps = 2
    MaxFaults = 2
CHECK_DEADLOCK FALSE
INVARIANTS
    TypeOK
    EditsKept
    SecretsHold
    PanelChecks
SYMMETRY MCSymmetry
