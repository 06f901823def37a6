SPECIFICATION BootSpec
INVARIANTS NeverPlain
PROPERTIES ServersApart
CHECK_DEADLOCK FALSE
