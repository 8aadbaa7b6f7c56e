SPECIFICATION FairSpec
CONSTANTS
    Notifies = {1, 2}
    Messages <- MCMessages
    Payloads <- MCPayloads
    Registered <- MCRegistered
    Registrations <- MCRegistrations
    Workers = 1
    Stubborn = {"b"}
    Connections = {"c1", "c2"}
    Owner <- MCOwner
CHECK_DEADLOCK FALSE
PROPERTIES
    InterruptStops
