SPECIFICATION ApprovalsSpec
CONSTANTS
    Hosts = {"h"}
    Plaintexts = {"s"}
    Placeholders = {"p"}
    Clients = {c1, c2}
    MaxDecls = 2
    MaxImports = 1
    MaxStops = 1
INVARIANTS
    ApprovalsBindUnlessSlip
    VarsWithTheirSecretsUnlessSlip
PROPERTIES
    RunsAsReadUnlessSlip
SYMMETRY Alike
CONSTRAINT StillPromised
