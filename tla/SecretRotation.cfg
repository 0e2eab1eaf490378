\* w3 has crashed under the lock; w1 may crash as well, w2 may be slower than lockStaleMs.
SPECIFICATION Spec
CONSTRAINT LockKept
CONSTANTS
    w1 = w1
    w2 = w2
    w3 = w3
    r1 = r1
    Writers = {w1, w2, w3}
    Readers = {r1}
    LockRetries = 0
    Retained = 2
    Crashing = {w1}
    Slow = {w2}
    Dead = {w3}
    MaxVersions = 3
INVARIANTS TypeOK RefusedChangedNothing NamedVersionsWhole ReaderOvertaken
PROPERTIES SwapUnderLock ImplementsContract
