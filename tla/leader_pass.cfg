CONSTANTS
    n1 = n1
    n2 = n2
    NoNode = NoNode
    Nodes <- MCNodes
    Timeout = 2
    MaxVersion = 5
    MaxFaults = 3
    EmptyInsertStampKept = FALSE
SPECIFICATION Spec
INVARIANTS UniqueEpochOwner
PROPERTIES LeaseRefinement StaleLeaderStepsDown LeadershipRecovers
