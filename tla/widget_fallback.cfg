SPECIFICATION Spec
CONSTANTS
    BusClients = {"widget"}
    Urls = 2
    MaxAttempts = 1
    MaxSockets = 2
INVARIANTS WaitingIsSent
CHECK_DEADLOCK FALSE
