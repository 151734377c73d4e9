SPECIFICATION ProbeSpec
CONSTANT
    Clients = {c1, c2}
CHECK_DEADLOCK FALSE
PROPERTY
    WaitersServed
