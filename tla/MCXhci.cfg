SPECIFICATION FairSpec
CONSTANTS
    MaxPorts = 3
    MaxSlots = 3
    Pullable = {2}
    Endpoints <- EndpointsDef
INVARIANTS OneAddressing CommandsAwaited OneReport
PROPERTIES PhasesForward PortsConfigured
CHECK_DEADLOCK FALSE
