SPECIFICATION Spec
CONSTANTS
    alice = alice
    bob = bob
    carol = carol
    phone = phone
    o1 = o1
    o2 = o2
    e1 = e1
    e2 = e2
    f1 = f1
    uidA = uidA
    uidB = uidB
    Owner = alice
    Clients = {alice, bob}
    Users = {alice, bob, carol}
    ObjectIds = {o1, o2}
    Events = {e1, e2, f1}
    UidOf <- MCUidOf
    NoEvent = NoEvent
    AnyEtag = AnyEtag
    Absent = Absent
    NoRequest = NoRequest
    Issued <- MCIssued
    Devices = {phone}
    UserOf <- MCUserOf
    NoClient = NoClient
    NoToken = NoToken
    RetryAttempts = 0
    MaxRevision = 2
    MaxIncarnation = 2
INVARIANTS TypeOK LogExplainsObjects SyncSound
PROPERTIES ImplementsContract
