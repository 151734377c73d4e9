SPECIFICATION FairSpec
CONSTANT
    Clients <- LiteralSync
PROPERTY
    KeepsCrawling
CHECK_DEADLOCK FALSE
