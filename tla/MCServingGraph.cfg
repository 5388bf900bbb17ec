\* One operator's operands vary at a time; several operators run in every order.
SPECIFICATION Spec
CONSTANTS
    Programs <- MCPrograms
    GridLimit = 7
    MaxHandles = 10
INVARIANTS
    DataFlowPreserved
    OperandsArrive
    UpstreamHonoured
    OverlapOnlyByRestride
    PreparedIsAdmitted
PROPERTY
    ExpiredForGood
