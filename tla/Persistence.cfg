\* Two goroutines, two users, one certificate.
CONSTANTS
    Jobs = {j1, j2}
    Users = {u1, u2}
    Installer = u1
    OpcCert = c1
    Certs = {c1}
    Workspaces <- MCWorkspaces
    Traffic <- MCTraffic
    Free = free
    Absent = absent
    Torn = torn
SPECIFICATION Spec
INVARIANTS
    TypeOK
    ServesWhatIsStored
    AdminRule
PROPERTIES
    RequestReturns
