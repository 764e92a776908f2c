CONSTANTS
    MaxMessages = 3
    MaxBackends = 3
    ServerIds = {0}
    Faults = {"crash", "startFails", "activationFails", "notifies", "rejects",
              "uninitialized", "malformed", "lockTimeout"}
    NoId = NoId
    Ping = Ping
    None = None
SPECIFICATION FairSpec
INVARIANT TypeOK
INVARIANT OnItsWay
INVARIANT InOrder
INVARIANT LeaseCoversOpen
INVARIANT WaitIsAnswered
PROPERTY ActivatedFirst
PROPERTY FlushedBeforeActivation
PROPERTY AnswersKept
PROPERTY ImplementsClientSession
PROPERTY Settles
CHECK_DEADLOCK FALSE
