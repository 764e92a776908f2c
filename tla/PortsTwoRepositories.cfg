CONSTANTS
    Identities = {i1, i2}
    Repo <- OwnRepository
    LastPort = 2
    Nobody = Nobody
    Foreign = Foreign
    Faults = {}
SPECIFICATION Spec
INVARIANT EndpointIsOwn
