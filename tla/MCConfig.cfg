SPECIFICATION FairSpec
CONSTANTS
    Processes = {p1, p2}
    Namespaces <- SomeNamespaces
    Networks <- SomeNetworks
    Secrets <- SomeSecrets
    Specs <- SomeSpecs
    Starts <- SomeStarts
    Nil = Nil  Unparsable = Unparsable  Bad = Bad  Absent = Absent
    MaxChanges = 1
    MaxExits = 1
    MaxFaults = 1
INVARIANTS TypeOK CertificateMatches
PROPERTIES HostStays CachesStick NoEmptyRevision IngressInTheEnd SyncedInTheEnd RegisteredInTheEnd CleanedInTheEnd
CHECK_DEADLOCK FALSE
