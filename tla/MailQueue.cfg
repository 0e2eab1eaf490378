SPECIFICATION FairSpec
CONSTANTS
    Entries = {e1}
    Workers = {w1, w2}
    Recipients = 3
    MaxAttempts = 3
CHECK_DEADLOCK FALSE
INVARIANTS TypeOK OneSessionPerEntry BodyAnswerIsItsOwn TakenOnce
PROPERTIES ImplementsSubmission 
