CONSTANTS
    Identities = {i1, i2}
    Repo <- OneRepository
    LastPort = 3
    Nobody = Nobody
    Foreign = Foreign
    Faults = {"crash", "slowStart", "slowStop", "serenaDies", "busy", "lockTimeout", "foreign"}
SPECIFICATION FairSpec
INVARIANT TypeOK
INVARIANT EndpointIsOwn
PROPERTY StartEnds
