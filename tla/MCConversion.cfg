SPECIFICATION FairSpec
CONSTANTS
    t1 = t1  t2 = t2  n1 = n1  n2 = n2  own = own
    Clients = {1, 2}
    Tags = {t1, t2}
    Names = {n1, n2, own}
    NameOf <- OwnNames
    NoTag = NoTag
    OldParts <- SomeOldParts
    HubParts <- SomeHubParts
    Foreign <- OwnBento
    Nil = Nil  Unparsable = Unparsable  Absent = Absent
    MaxWrites = 2
    MaxFaults = 1
INVARIANTS TypeOK WriteBackSettles
PROPERTIES WriteBackKeeps LossesStayOut ReadableInTheEnd
CHECK_DEADLOCK FALSE
