SPECIFICATION FairSpec
CONSTANTS
    Processes = {p1}
    Namespaces <- OneNamespace
    Networks <- OneNetwork
    Secrets <- OneSecret
    Specs <- TwoBentos
    Starts <- OneStart
    Nil = Nil  Unparsable = Unparsable  Bad = Bad  Absent = Absent
    MaxChanges = 1
    MaxExits = 0
    MaxFaults = 0
PROPERTIES BentoArrives
CHECK_DEADLOCK FALSE
