SPECIFICATION FairSpec
CONSTANTS
    Unset = Unset  Bad = Bad  Absent = Absent
    Specs <- AllSpecs
    Edits <- Star
    Targets = {"api", "twin", "runner"}
    Accounts = {"first", "second"}
    YataiClient = TRUE
    Minors <- AllMinors
    MaxEdits = 2
    MaxFaults = 1
INVARIANTS TypeOK PortsDistinct EnvironmentRight ProxiesAgree
PROPERTIES ServesThroughout DeployedInTheEnd DeploymentSettles CapacityComesBack
CHECK_DEADLOCK FALSE
