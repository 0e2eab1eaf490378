---------------------------- MODULE SecretProofs ----------------------------
(***************************************************************************)
(* Proofs about SecretRotation for every number of writers, readers,       *)
(* versions and retries, a crash between any two file operations, and        *)
(* writers slower than lockStaleMs.                                         *)
(*                                                                         *)
(* The types, and what a refusal says, hold always.  The rest holds until    *)
(* somebody's lock is removed at work (robbed), and the proof says that this *)
(* removal is the only way: without it, whoever is past the lock holds it    *)
(* with his own token (LockInv); so the active.json he read is still the one *)
(* he replaces, and the version he has created is his alone (StepInv); prune *)
(* leaves what active.json names, so its files are whole (NamedWhole), and a *)
(* reader has read the active version or, one change later, the previous one *)
(* (ReaderInv).                                                             *)
(***************************************************************************)
EXTENDS SecretRotation, TLAPS

Answers == {"none", "refused", "done", "unaudited", "missing", "lost", "served"}
Calls == [at : Steps, op : {"none", "rotate", "rollback", "get"},
          expected : {NoVersion} \cup Versions, attempt : 0 .. LockRetries, token : {0, 1},
          seen : States, version : {NoVersion} \cup Versions, doomed : SUBSET Versions,
          answer : Answers]

\* TypeOK, with the types of the calls and the history variables.
Types ==
    /\ made \in 0 .. MaxVersions /\ state \in States
    /\ secret \in [Versions -> FileStates] /\ meta \in [Versions -> FileStates]
    /\ lock \in [holder : Writers \cup {"none"}, token : {0, 1}, stale : BOOLEAN]
    /\ call \in [Processes -> Calls]
    /\ published \subseteq 1 .. made
    /\ overtaken \in [Readers -> 0 .. 2] /\ wrote \in [Writers -> BOOLEAN]
    /\ robbed \in BOOLEAN

-----------------------------------------------------------------------------
(* Of every call, whatever the others do. *)

ReaderSteps == {"idle", "read-state", "read-meta", "read-value"}
WriterSteps == Steps \ {"read-state", "read-meta", "read-value"}
Unlocked == {"idle", "crashed", "lock", "stat", "unlink"}
Creation == {"write-secret", "create-meta", "write-meta"}
Ending == {"audit", "prune", "remove-secret", "remove-meta"}

Op(p) == call[p].op
Publishing(p) == At(p) = "rename" /\ Op(p) = "rotate"
Creating(p) == At(p) \in Creation \/ Publishing(p)

WriterOK(p) ==
    /\ At(p) \in WriterSteps
    /\ At(p) \in {"lock", "stat", "unlink", "state", "value", "rename", "audit"} =>
          Op(p) \in {"rotate", "rollback"}
    /\ At(p) \in {"create-secret", "prune"} \cup Creation => Op(p) = "rotate"
    /\ Creating(p) => call[p].version \in 1 .. made
    /\ wrote[p] => \/ At(p) \in {"idle", "crashed"} \cup Ending
                  \/ /\ At(p) \in {"release", "release-unlink"}
                     /\ call[p].answer \in {"done", "unaudited"}

CallInv ==
    /\ \A p \in Readers : At(p) \in ReaderSteps
    /\ \A p \in Writers : WriterOK(p)

-----------------------------------------------------------------------------
(* Of the writer that has the lock. *)

Working(p) == At(p) \notin Unlocked

LockOK(p) == Working(p) => lock.holder = p /\ lock.token = call[p].token

LockInv ==
    /\ lock = NoLock \/ lock.holder \in Writers
    /\ \A p \in Writers : LockOK(p)

\* Between reading active.json and replacing it.
Deciding(p) == At(p) \in {"value", "create-secret", "rename"} \cup Creation

StepOK(p) ==
    /\ Deciding(p) => call[p].seen = state /\ state.active = call[p].expected
    /\ At(p) \in {"value", "rename"} /\ Op(p) = "rollback" => state.previous # NoVersion
    /\ Creating(p) => call[p].version \notin published
    /\ At(p) \in {"create-meta", "write-meta"} \/ Publishing(p) =>
          secret[call[p].version] = "whole"
    /\ Publishing(p) => meta[call[p].version] = "whole"
    /\ At(p) \in {"audit", "prune"} /\ Op(p) = "rotate" =>
          state = [active |-> call[p].version, previous |-> call[p].seen.active]
    /\ At(p) \in {"remove-secret", "remove-meta"} =>
          state.active \notin call[p].doomed /\ state.previous \notin call[p].doomed
    /\ At(p) = "remove-meta" => call[p].version \in call[p].doomed

StepInv ==
    /\ {state.active, state.previous} \subseteq published \cup {NoVersion}
    /\ \A p \in Writers : StepOK(p)

-----------------------------------------------------------------------------
(* Of the readers. *)

ReaderInv ==
    \A p \in Readers :
        /\ At(p) \in {"read-state", "read-meta", "read-value"} => call[p].answer = "none"
        /\ At(p) \in {"read-meta", "read-value"} =>
              /\ call[p].seen.active # NoVersion
              /\ overtaken[p] = 0 => call[p].seen.active = state.active
              /\ overtaken[p] = 1 => call[p].seen.active = state.previous
        /\ call[p].answer = "lost" => overtaken[p] = 2

WorkInv == LockInv /\ StepInv /\ NamedWhole /\ ReaderInv

IInv == Types /\ CallInv /\ (~robbed => WorkInv)
-----------------------------------------------------------------------------
(* What the actions do to a call. *)

Others(p) == \A q \in Processes \ {p} : call'[q] = call[q]

LEMMA Assumptions ==
  /\ LockRetries \in Nat /\ MaxVersions \in Nat /\ "none" \notin Writers
  /\ \A p \in Writers : p \in Processes /\ p \notin Readers
  /\ \A p \in Readers : p \in Processes /\ p \notin Writers
  /\ \A p \in Dead : p \in Writers
  BY RotationAssumption DEF Processes

LEMMA CrashedType ==
  ASSUME Idle \in Calls
  PROVE  Crashed \in Calls /\ Crashed.at = "crashed" /\ Crashed.answer = Idle.answer
<1> HIDE DEF Idle
<1> QED
  BY DEF Crashed, Calls, Steps

LEMMA IdleType ==
  ASSUME Types, NEW p \in Processes
  PROVE  /\ Idle \in Calls /\ Over(p) \in Calls
         /\ Over(p).at = "idle" /\ Over(p).answer = "none" /\ Over(p).token = call[p].token
<1>1. NoVersion \in {NoVersion} \cup Versions /\ 0 \in 0 .. LockRetries
  BY Assumptions
<1>2. Idle \in Calls /\ Idle.at = "idle" /\ Idle.answer = "none"
  BY <1>1 DEF Idle, Calls, Steps, States, Answers
<1>3. call[p].token \in {0, 1}
  BY DEF Types, Calls
<1> HIDE DEF Idle
<1> QED
  BY <1>2, <1>3 DEF Over, Calls

LEMMA Goes ==
  ASSUME Types, NEW p \in Processes, NEW step \in Steps, Goto(p, step)
  PROVE  /\ call' \in [Processes -> Calls] /\ Others(p) /\ At(p)' = step /\ Op(p)' = Op(p)
         /\ call'[p].expected = call[p].expected /\ call'[p].token = call[p].token
         /\ call'[p].seen = call[p].seen /\ call'[p].version = call[p].version
         /\ call'[p].doomed = call[p].doomed /\ call'[p].answer = call[p].answer
<1>1. call \in [Processes -> Calls]
  BY DEF Types
<1> DEFINE c == [call[p] EXCEPT !.at = step]
<1>2. /\ c \in Calls /\ c.at = step /\ c.op = call[p].op /\ c.expected = call[p].expected
      /\ c.token = call[p].token /\ c.seen = call[p].seen /\ c.version = call[p].version
      /\ c.doomed = call[p].doomed /\ c.answer = call[p].answer
  BY <1>1 DEF Calls
<1>3. call' = [call EXCEPT ![p] = c]
  BY <1>1 DEF Goto
<1> HIDE DEF c
<1> QED
  BY <1>1, <1>2, <1>3 DEF Others, At, Op

LEMMA Becomes ==
  ASSUME Types, NEW p \in Processes, NEW c \in Calls, call' = [call EXCEPT ![p] = c]
  PROVE  call' \in [Processes -> Calls] /\ Others(p) /\ call'[p] = c
  BY DEF Types, Others

LEMMA Answering ==
  ASSUME Types, NEW p \in Processes, NEW answer \in Answers, Answer(p, answer)
  PROVE  /\ call' \in [Processes -> Calls] /\ Others(p) /\ At(p)' = "release"
         /\ call'[p].answer = answer /\ call'[p].token = call[p].token
<1> DEFINE c == [Over(p) EXCEPT !.at = "release", !.answer = answer]
<1>1. c \in Calls /\ c.at = "release" /\ c.answer = answer /\ c.token = call[p].token
  BY IdleType DEF Calls, Steps
<1>2. call' = [call EXCEPT ![p] = c]
  BY DEF Answer
<1> HIDE DEF c
<1> QED
  BY <1>1, <1>2, Becomes DEF At

LEMMA Ends ==
  ASSUME Types, NEW p \in Processes, call' = [call EXCEPT ![p] = Over(p)]
  PROVE  /\ call' \in [Processes -> Calls] /\ Others(p) /\ At(p)' = "idle"
         /\ call'[p].answer = "none"
<1>1. Over(p) \in Calls /\ Over(p).at = "idle" /\ Over(p).answer = "none"
  BY IdleType
<1> HIDE DEF Over
<1> QED
  BY <1>1, Becomes DEF At

LEMMA Retrying ==
  ASSUME Types, NEW p \in Processes, Retry(p)
  PROVE  /\ call' \in [Processes -> Calls] /\ Others(p) /\ At(p)' \in {"lock", "idle"}
         /\ At(p)' = "lock" => Op(p)' = Op(p)
<1>1. CASE call[p].attempt < LockRetries
  <2> DEFINE c == [call[p] EXCEPT !.at = "lock", !.attempt = call[p].attempt + 1]
  <2>1. call[p].attempt + 1 \in 0 .. LockRetries /\ call[p] \in Calls
    BY <1>1, Assumptions DEF Types, Calls
  <2>2. c \in Calls /\ c.at = "lock" /\ c.op = call[p].op
    BY <2>1 DEF Calls, Steps
  <2>3. call' = [call EXCEPT ![p] = IF call[p].attempt < LockRetries THEN c ELSE Over(p)]
    BY DEF Retry
  <2>4. call' = [call EXCEPT ![p] = c]
    BY <1>1, <2>3, Zenon
  <2> HIDE DEF c
  <2> QED
    BY <2>2, <2>4, Becomes DEF At, Op
<1>2. CASE ~(call[p].attempt < LockRetries)
  <2>1. call' = [call EXCEPT ![p] = Over(p)]
    BY <1>2 DEF Retry, Types
  <2> QED
    BY <2>1, Ends
<1> QED
  BY <1>1, <1>2

LEMMA Pruning ==
  ASSUME Types, NEW p \in Processes, NEW doomed \in SUBSET Versions, PruneNext(p, doomed)
  PROVE  /\ call' \in [Processes -> Calls] /\ Others(p) /\ call'[p].token = call[p].token
         /\ \/ At(p)' = "release" /\ call'[p].answer = "done"
            \/ At(p)' = "remove-secret" /\ call'[p].doomed = doomed
<1>1. CASE doomed = {}
  BY <1>1, Answering DEF PruneNext, Answers
<1>2. CASE doomed # {}
  <2> DEFINE c == [call[p] EXCEPT !.doomed = doomed, !.at = "remove-secret"]
  <2>0. call[p] \in Calls
    BY DEF Types
  <2>1. c \in Calls /\ c.at = "remove-secret" /\ c.doomed = doomed /\ c.token = call[p].token
    BY <2>0 DEF Calls, Steps
  <2>2. call' = [call EXCEPT ![p] = c]
    BY <1>2 DEF PruneNext, Types
  <2> HIDE DEF c
  <2> QED
    BY <2>1, <2>2, Becomes DEF At
<1> QED
  BY <1>1, <1>2
-----------------------------------------------------------------------------
(* Types and calls. *)

BasicInv == Types /\ CallInv

LEMMA BasicInit == Init => BasicInv
<1> SUFFICES ASSUME Init PROVE BasicInv
  OBVIOUS
<1>1. NoVersion \in {NoVersion} \cup Versions /\ 0 \in 0 .. LockRetries /\ made \in 0 .. MaxVersions
  BY Assumptions DEF Init
<1>2. Idle \in Calls /\ Idle.at = "idle"
  BY <1>1 DEF Idle, Calls, Steps, States, Answers
<1> HIDE DEF Idle
<1>3. /\ \A p \in Processes : call[p] \in Calls /\ At(p) \in {"idle", "crashed"}
      /\ \A p \in Readers : At(p) = "idle"
  BY <1>2, CrashedType, Assumptions DEF Init, At
<1>4. Types
  <2>1. call \in [Processes -> Calls]
    BY <1>3 DEF Init
  <2>2. lock \in [holder : Writers \cup {"none"}, token : {0, 1}, stale : BOOLEAN]
    <3>1. NoLock \in [holder : Writers \cup {"none"}, token : {0, 1}, stale : BOOLEAN]
      BY DEF NoLock
    <3>2. [holder : Dead, token : {0}, stale : {FALSE}]
            \subseteq [holder : Writers \cup {"none"}, token : {0, 1}, stale : BOOLEAN]
      BY Assumptions
    <3> QED
      BY <3>1, <3>2 DEF Init
  <2>3. robbed \in BOOLEAN
    BY DEF Init
  <2>4. state \in States
    BY DEF Init, States
  <2>5. /\ overtaken \in [Readers -> 0 .. 2] /\ wrote \in [Writers -> BOOLEAN]
        /\ published \subseteq 1 .. made
    BY DEF Init
  <2>6. secret \in [Versions -> FileStates] /\ meta \in [Versions -> FileStates]
    BY DEF Init, FileStates
  <2> QED
    BY <1>1, <2>1, <2>2, <2>3, <2>4, <2>5, <2>6, Zenon DEF Types
<1>6. \A p \in Writers : WriterOK(p)
  BY <1>3, Assumptions DEF Init, WriterOK, WriterSteps, Steps, Creation, Creating, Publishing
<1> QED
  BY <1>3, <1>4, <1>6, Assumptions DEF BasicInv, CallInv, ReaderSteps

LEMMA Frame ==
  ASSUME BasicInv, NEW p \in Writers, call' \in [Processes -> Calls], Others(p), Types',
         made' >= made, \A q \in Writers \ {p} : wrote'[q] = wrote[q], WriterOK(p)'
  PROVE  BasicInv'
<1>1. made \in Nat /\ made' \in Nat
  BY Assumptions DEF BasicInv, Types
<1>2. ASSUME NEW q \in Writers \ {p} PROVE WriterOK(q)'
  <2>1. call'[q] = call[q] /\ wrote'[q] = wrote[q] /\ WriterOK(q)
    BY Assumptions DEF Others, BasicInv, CallInv
  <2> QED
    BY <1>1, <2>1 DEF WriterOK, At, Op, Creating, Publishing
<1>3. \A q \in Readers : At(q)' \in ReaderSteps
  BY Assumptions DEF Others, BasicInv, CallInv, At
<1> QED
  BY <1>2, <1>3 DEF BasicInv, CallInv

\* The writer's call moves on; nothing but files, state, lock and its call changes.
LEMMA Quiet ==
  ASSUME BasicInv, NEW p \in Writers, call' \in [Processes -> Calls], Others(p),
         UNCHANGED <<made, published, overtaken, wrote>>, WriterOK(p)',
         state' \in States,
         secret' \in [Versions -> FileStates], meta' \in [Versions -> FileStates],
         lock' \in [holder : Writers \cup {"none"}, token : {0, 1}, stale : BOOLEAN],
         robbed' \in BOOLEAN
  PROVE  BasicInv'
<1>1. Types'
  BY DEF BasicInv, Types
<1>2. made' >= made
  BY Assumptions DEF BasicInv, Types
<1> QED
  BY <1>1, <1>2, Frame

LEMMA NotWritten ==
  ASSUME BasicInv, NEW p \in Writers,
         At(p) \notin {"idle", "crashed", "release", "release-unlink"} \cup Ending
  PROVE  ~wrote[p]
  BY DEF BasicInv, CallInv, WriterOK

\* Types of what an action leaves alone.
LEMMA Kept ==
  ASSUME BasicInv
  PROVE  /\ UNCHANGED state => state' \in States
         /\ UNCHANGED secret => secret' \in [Versions -> FileStates]
         /\ UNCHANGED meta => meta' \in [Versions -> FileStates]
         /\ UNCHANGED lock =>
               lock' \in [holder : Writers \cup {"none"}, token : {0, 1}, stale : BOOLEAN]
         /\ UNCHANGED robbed => robbed' \in BOOLEAN
  BY DEF BasicInv, Types

LEMMA MadeVersions ==
  ASSUME Types
  PROVE  1 .. made \subseteq Versions /\ made \in Nat
  BY Assumptions DEF Types, Versions

LEMMA CallBasic ==
  ASSUME BasicInv, NEW p \in Writers, NEW op \in {"rotate", "rollback"},
         NEW expected \in {NoVersion} \cup published, Call(p, op, expected)
  PROVE  BasicInv'
<1> DEFINE c == [Over(p) EXCEPT !.at = "lock", !.op = op, !.expected = expected]
<1>1. expected \in {NoVersion} \cup Versions
  BY MadeVersions DEF BasicInv, Types
<1>2. c \in Calls /\ c.at = "lock" /\ c.op = op
  BY <1>1, IdleType, Assumptions DEF Calls, Steps, BasicInv
<1>3. call' = [call EXCEPT ![p] = c] /\ ~wrote'[p]
      /\ \A q \in Writers \ {p} : wrote'[q] = wrote[q]
  BY DEF Call, BasicInv, Types
<1> HIDE DEF c
<1>4. call' \in [Processes -> Calls] /\ Others(p) /\ call'[p] = c
  BY <1>2, <1>3, Becomes, Assumptions DEF BasicInv
<1>5. Types' /\ made' >= made
  BY <1>4, Assumptions DEF Call, BasicInv, Types, files
<1>6. WriterOK(p)'
  BY <1>2, <1>3, <1>4 DEF WriterOK, WriterSteps, Steps, Creation, Creating, Publishing, At, Op
<1> QED
  BY <1>3, <1>4, <1>5, <1>6, Frame

LEMMA RefuseBasic ==
  ASSUME BasicInv, NEW p \in Writers, Refuse(p) \/ Answer(p, "refused"), ~wrote[p],
         UNCHANGED <<made, published, overtaken, wrote, robbed, state, lock>>,
         secret' \in [Versions -> FileStates], meta' \in [Versions -> FileStates]
  PROVE  BasicInv'
<1>1. call' \in [Processes -> Calls] /\ Others(p) /\ At(p)' = "release"
  BY Answering, Assumptions DEF Refuse, Answers, BasicInv
<1>2. WriterOK(p)'
  BY <1>1 DEF WriterOK, WriterSteps, Steps, Creation, Creating, Publishing
<1> QED
  BY <1>1, <1>2, Quiet, Kept

LEMMA LockBasic ==
  ASSUME BasicInv, NEW p \in Writers,
         TakeLock(p) \/ StatLock(p) \/ UnlinkStale(p) \/ Release(p) \/ ReleaseUnlink(p)
  PROVE  BasicInv'
<1> USE DEF files, history
<1>0. p \in Processes /\ Types /\ WriterOK(p)
  BY Assumptions DEF BasicInv, CallInv
<1>1. NoLock \in [holder : Writers \cup {"none"}, token : {0, 1}, stale : BOOLEAN]
  BY DEF NoLock
<1>2. CASE TakeLock(p)
  <2>1. ~wrote[p] /\ Op(p) \in {"rotate", "rollback"}
    BY <1>0, <1>2, NotWritten DEF TakeLock, WriterOK, Ending
  <2>2. CASE lock # NoLock /\ Goto(p, "stat") /\ UNCHANGED lock
    <3>1. call' \in [Processes -> Calls] /\ Others(p) /\ At(p)' = "stat" /\ Op(p)' = Op(p)
      BY <1>0, <2>2, Goes DEF Steps
    <3>2. WriterOK(p)'
      BY <1>2, <2>1, <3>1 DEF TakeLock, WriterOK, WriterSteps, Steps, Creation, Creating, Publishing
    <3> QED
      BY <1>2, <2>2, <3>1, <3>2, Quiet, Kept DEF TakeLock
  <2>3. CASE /\ lock' = [holder |-> p, token |-> Token(p), stale |-> FALSE]
             /\ call' = [call EXCEPT ![p].at = "state", ![p].token = Token(p)]
    <3> DEFINE c == [call[p] EXCEPT !.at = "state", !.token = Token(p)]
    <3>1. Token(p) \in {0, 1} /\ call[p] \in Calls
      BY <1>0 DEF Types, Calls, Token
    <3>2. c \in Calls /\ c.at = "state" /\ c.op = call[p].op
      BY <3>1 DEF Calls, Steps
    <3>3. call' = [call EXCEPT ![p] = c]
      BY <1>0, <2>3 DEF Types
    <3> HIDE DEF c
    <3>4. call' \in [Processes -> Calls] /\ Others(p) /\ call'[p] = c
      BY <1>0, <3>2, <3>3, Becomes
    <3>5. WriterOK(p)'
      BY <1>2, <2>1, <3>2, <3>4
      DEF TakeLock, WriterOK, WriterSteps, Steps, Creation, Creating, Publishing, At, Op
    <3>6. lock' \in [holder : Writers \cup {"none"}, token : {0, 1}, stale : BOOLEAN]
      BY <2>3, <3>1
    <3> QED
      BY <1>2, <3>4, <3>5, <3>6, Quiet, Kept DEF TakeLock
  <2> QED
    BY <1>2, <2>2, <2>3 DEF TakeLock
<1>3. ASSUME Retry(p), At(p) \in {"stat", "unlink"},
             UNCHANGED <<made, files, published, overtaken, wrote>>, robbed' \in BOOLEAN,
             lock' = lock \/ lock' = NoLock
      PROVE  BasicInv'
  <2>1. ~wrote[p] /\ Op(p) \in {"rotate", "rollback"}
    BY <1>0, <1>3, NotWritten DEF WriterOK, Ending
  <2>2. /\ call' \in [Processes -> Calls] /\ Others(p) /\ At(p)' \in {"lock", "idle"}
        /\ At(p)' = "lock" => Op(p)' = Op(p)
    BY <1>0, <1>3, Retrying
  <2>3. WriterOK(p)'
    BY <1>3, <2>1, <2>2 DEF WriterOK, WriterSteps, Steps, Creation, Creating, Publishing
  <2> QED
    BY <1>1, <1>3, <2>2, <2>3, Quiet, Kept
<1>4. CASE StatLock(p) /\ Goto(p, "unlink")
  <2>1. ~wrote[p] /\ Op(p) \in {"rotate", "rollback"}
    BY <1>0, <1>4, NotWritten DEF StatLock, WriterOK, Ending
  <2>2. call' \in [Processes -> Calls] /\ Others(p) /\ At(p)' = "unlink" /\ Op(p)' = Op(p)
    BY <1>0, <1>4, Goes DEF Steps
  <2>3. WriterOK(p)'
    BY <1>4, <2>1, <2>2 DEF StatLock, WriterOK, WriterSteps, Steps, Creation, Creating, Publishing
  <2> QED
    BY <1>4, <2>2, <2>3, Quiet, Kept DEF StatLock
<1>5. CASE Release(p) /\ Goto(p, "release-unlink")
  <2>1. /\ call' \in [Processes -> Calls] /\ Others(p) /\ At(p)' = "release-unlink"
        /\ call'[p].answer = call[p].answer
    BY <1>0, <1>5, Goes DEF Steps
  <2>2. wrote[p] => call[p].answer \in {"done", "unaudited"}
    BY <1>0, <1>5 DEF Release, WriterOK, Ending
  <2>3. WriterOK(p)'
    BY <1>5, <2>1, <2>2 DEF Release, WriterOK, WriterSteps, Steps, Creation, Creating, Publishing
  <2> QED
    BY <1>5, <2>1, <2>3, Quiet, Kept DEF Release
<1>6. ASSUME call' = [call EXCEPT ![p] = Over(p)], UNCHANGED <<made, files, history>>,
             lock' = lock \/ lock' = NoLock
      PROVE  BasicInv'
  <2>1. call' \in [Processes -> Calls] /\ Others(p) /\ At(p)' = "idle"
    BY <1>0, <1>6, Ends
  <2>2. WriterOK(p)'
    BY <2>1 DEF WriterOK, WriterSteps, Steps, Creation, Creating, Publishing
  <2> QED
    BY <1>1, <1>6, <2>1, <2>2, Quiet, Kept
<1>7. CASE StatLock(p) /\ Retry(p)
  BY <1>3, <1>7, Kept DEF StatLock
<1>8. CASE UnlinkStale(p)
  <2>1. (robbed \/ \E q \in Writers : Holds(q)) \in BOOLEAN
    OBVIOUS
  <2>2. robbed' \in BOOLEAN
    BY <1>8, <2>1 DEF UnlinkStale
  <2> QED
    BY <1>3, <1>8, <2>2 DEF UnlinkStale
<1> QED
  BY <1>2, <1>4, <1>5, <1>6, <1>7, <1>8 DEF StatLock, Release, ReleaseUnlink
\* A step of the work under the lock, with no write to active.json.
LEMMA WorkBasic ==
  ASSUME BasicInv, NEW p \in Writers,
         \/ ReadCurrent(p) \/ ReadForRollback(p) \/ ReadCurrentValue(p) \/ ReadTarget(p)
         \/ CreateSecret(p) \/ WriteSecret(p) \/ CreateMeta(p) \/ WriteMeta(p)
  PROVE  BasicInv'
<1> USE DEF files, history
<1>0. p \in Processes /\ Types /\ WriterOK(p)
  BY Assumptions DEF BasicInv, CallInv
<1>1. /\ At(p) \in {"state", "value", "create-secret"} \cup Creation
      /\ ~wrote[p]
  <2>1. At(p) \in {"state", "value", "create-secret"} \cup Creation
    BY DEF ReadCurrent, ReadForRollback, ReadCurrentValue, ReadTarget, CreateSecret,
       WriteSecret, CreateMeta, WriteMeta, Creation
  <2> QED
    BY <2>1, NotWritten DEF Creation, Ending
<1>2. CASE Refuse(p)
  BY <1>1, <1>2, RefuseBasic, Kept DEF Refuse
<1>3. ASSUME NEW step \in {"value", "create-secret", "rename"},
             At(p) \in {"state", "value"},
             step = "create-secret" => Op(p) = "rotate", step = "rename" => Op(p) = "rollback",
             call' = [call EXCEPT ![p].seen = state, ![p].at = step] \/ Goto(p, step),
             UNCHANGED <<made, files, lock, history>>
      PROVE  BasicInv'
  <2>1. /\ call' \in [Processes -> Calls] /\ Others(p) /\ At(p)' = step /\ Op(p)' = Op(p)
    <3>1. CASE Goto(p, step)
      BY <1>0, <3>1, Goes DEF Steps
    <3>2. CASE call' = [call EXCEPT ![p].seen = state, ![p].at = step]
      <4> DEFINE c == [call[p] EXCEPT !.seen = state, !.at = step]
      <4>0. call[p] \in Calls /\ state \in States
        BY <1>0 DEF Types
      <4>1. c \in Calls /\ c.at = step /\ c.op = call[p].op
        BY <4>0 DEF Calls, Steps
      <4>2. call' = [call EXCEPT ![p] = c]
        BY <1>0, <3>2 DEF Types
      <4> HIDE DEF c
      <4> QED
        BY <1>0, <4>1, <4>2, Becomes DEF At, Op
    <3> QED
      BY <1>3, <3>1, <3>2
  <2>2. WriterOK(p)'
    BY <1>0, <1>1, <1>3, <2>1
    DEF WriterOK, WriterSteps, Steps, Creation, Creating, Publishing
  <2> QED
    BY <1>3, <2>1, <2>2, Quiet, Kept
<1>4. CASE ReadCurrent(p) \/ ReadForRollback(p)
  BY <1>2, <1>3, <1>4 DEF ReadCurrent, ReadForRollback, Op
<1>5. CASE ReadCurrentValue(p) \/ ReadTarget(p)
  BY <1>2, <1>3, <1>5 DEF ReadCurrentValue, ReadTarget, Op
<1>6. CASE CreateSecret(p)
  <2>1. CASE /\ made < MaxVersions
             /\ made' = made + 1
             /\ secret' = [secret EXCEPT ![made + 1] = "partial"]
             /\ call' = [call EXCEPT ![p].at = "write-secret", ![p].version = made + 1]
             /\ UNCHANGED <<state, meta, lock, history>>
    <3> DEFINE c == [call[p] EXCEPT !.at = "write-secret", !.version = made + 1]
    <3>1. made + 1 \in Versions /\ made + 1 \in 0 .. MaxVersions /\ made \in Nat
      BY <1>0, <2>1, Assumptions DEF Types, Versions
    <3>0. call[p] \in Calls
      BY <1>0 DEF Types
    <3>2. c \in Calls /\ c.at = "write-secret" /\ c.op = call[p].op /\ c.version = made + 1
      BY <3>0, <3>1 DEF Calls, Steps
    <3>3. call' = [call EXCEPT ![p] = c]
      BY <1>0, <2>1 DEF Types
    <3> HIDE DEF c
    <3>4. call' \in [Processes -> Calls] /\ Others(p) /\ call'[p] = c
      BY <1>0, <3>2, <3>3, Becomes
    <3>5. secret' \in [Versions -> FileStates] /\ 1 .. made \subseteq 1 .. made'
      BY <1>0, <2>1, <3>1 DEF Types, FileStates
    <3>6. Types'
      BY <1>0, <2>1, <3>1, <3>4, <3>5 DEF Types
    <3>7. WriterOK(p)'
      <4>1. made + 1 \in 1 .. made'
        BY <2>1, <3>1
      <4> QED
        BY <1>0, <1>1, <1>6, <2>1, <3>2, <3>4, <4>1
        DEF CreateSecret, WriterOK, WriterSteps, Steps, Creation, Creating, Publishing, At, Op
    <3> QED
      BY <2>1, <3>1, <3>4, <3>6, <3>7, Frame
  <2> QED
    BY <1>2, <1>6, <2>1 DEF CreateSecret
<1>7. ASSUME NEW step \in {"create-meta", "write-meta", "rename"}, At(p) \in Creation,
             Goto(p, step), UNCHANGED <<made, state, lock, history>>,
             secret' \in [Versions -> FileStates], meta' \in [Versions -> FileStates]
      PROVE  BasicInv'
  <2>1. /\ call' \in [Processes -> Calls] /\ Others(p) /\ At(p)' = step /\ Op(p)' = Op(p)
        /\ call'[p].version = call[p].version
    BY <1>0, <1>7, Goes DEF Steps
  <2>2. WriterOK(p)'
    BY <1>0, <1>1, <1>7, <2>1
    DEF WriterOK, WriterSteps, Steps, Creation, Creating, Publishing
  <2> QED
    BY <1>7, <2>1, <2>2, Quiet, Kept
<1>8. CASE WriteSecret(p)
  <2>1. UNCHANGED meta => meta' \in [Versions -> FileStates]
    BY Kept
  <2>2. [secret EXCEPT ![call[p].version] = "whole"] \in [Versions -> FileStates]
    BY <1>0 DEF Types, FileStates
  <2> QED
    BY <1>2, <1>7, <1>8, <2>1, <2>2 DEF WriteSecret, Creation
<1>9. CASE CreateMeta(p)
  <2>1. UNCHANGED secret => secret' \in [Versions -> FileStates]
    BY Kept
  <2>2. [meta EXCEPT ![call[p].version] = "partial"] \in [Versions -> FileStates]
    BY <1>0 DEF Types, FileStates
  <2> QED
    BY <1>7, <1>9, <2>1, <2>2 DEF CreateMeta, Creation
<1>10. CASE WriteMeta(p)
  <2>1. /\ UNCHANGED secret => secret' \in [Versions -> FileStates]
        /\ UNCHANGED meta => meta' \in [Versions -> FileStates]
    BY Kept
  <2>2. /\ [meta EXCEPT ![call[p].version] = "whole"] \in [Versions -> FileStates]
        /\ [secret EXCEPT ![call[p].version] = "absent"] \in [Versions -> FileStates]
    BY <1>0 DEF Types, FileStates
  <2>3. UNCHANGED <<made, state, lock, history>> /\ At(p) \in Creation
    BY <1>10 DEF WriteMeta, Creation
  <2>4. CASE meta' = [meta EXCEPT ![call[p].version] = "whole"] /\ Goto(p, "rename") /\ UNCHANGED secret
    BY <1>7, <2>1, <2>2, <2>3, <2>4
  <2>5. CASE secret' = [secret EXCEPT ![call[p].version] = "absent"] /\ Answer(p, "refused") /\ UNCHANGED meta
    BY <1>1, <2>1, <2>2, <2>3, <2>5, RefuseBasic
  <2> QED
    BY <1>10, <2>4, <2>5 DEF WriteMeta
<1> QED
  BY <1>4, <1>5, <1>6, <1>8, <1>9, <1>10
\* active.json is replaced: the answer can no longer be a refusal.
LEMMA RenameBasic ==
  ASSUME BasicInv, NEW p \in Writers, RenameState(p) \/ RenameBack(p)
  PROVE  BasicInv'
<1>0. p \in Processes /\ Types /\ WriterOK(p) /\ call[p] \in Calls /\ call[p].seen \in States
  BY Assumptions DEF BasicInv, CallInv, Types, Calls
<1>1. At(p) = "rename" /\ ~wrote[p] /\ Op(p) \in {"rotate", "rollback"}
  <2>1. At(p) = "rename"
    BY DEF RenameState, RenameBack
  <2> QED
    BY <1>0, <2>1, NotWritten DEF Ending, WriterOK
<1>2. CASE Refuse(p)
  BY <1>1, <1>2, RefuseBasic, Kept DEF Refuse, files, history
<1>3. ASSUME NEW next \in States, Replace(p, next), published' \subseteq 1 .. made
      PROVE  BasicInv'
  <2>1. call' \in [Processes -> Calls] /\ Others(p) /\ At(p)' = "audit" /\ Op(p)' = Op(p)
    BY <1>0, <1>3, Goes DEF Replace, Steps
  <2>2. overtaken' \in [Readers -> 0 .. 2]
    <3>1. ASSUME NEW q \in Readers
          PROVE  (IF overtaken[q] < 2 THEN overtaken[q] + 1 ELSE 2) \in 0 .. 2
      BY <1>0 DEF Types
    <3> QED
      BY <1>3, <3>1 DEF Replace
  <2>3. wrote' \in [Writers -> BOOLEAN] /\ \A q \in Writers \ {p} : wrote'[q] = wrote[q]
    BY <1>0, <1>3 DEF Replace, Types
  <2>4. Types'
    BY <1>0, <1>3, <2>1, <2>2, <2>3 DEF Replace, Types
  <2>5. WriterOK(p)'
    BY <1>1, <2>1 DEF WriterOK, WriterSteps, Steps, Creation, Creating, Publishing, Ending
  <2>6. made' >= made
    BY <1>0, <1>3, Assumptions DEF Replace, Types
  <2> QED
    BY <2>1, <2>3, <2>4, <2>5, <2>6, Frame
<1>4. CASE /\ Op(p) = "rotate"
           /\ Replace(p, [active |-> call[p].version, previous |-> call[p].seen.active])
           /\ published' = published \cup {call[p].version}
  <2>1. [active |-> call[p].version, previous |-> call[p].seen.active] \in States
    BY <1>0 DEF Calls, States
  <2>2. published' \subseteq 1 .. made
    BY <1>0, <1>1, <1>4 DEF WriterOK, Creating, Publishing, Types
  <2> QED
    BY <1>3, <1>4, <2>1, <2>2
<1>5. CASE /\ Replace(p, [active |-> call[p].seen.previous, previous |-> call[p].seen.active])
           /\ UNCHANGED published
  <2>1. [active |-> call[p].seen.previous, previous |-> call[p].seen.active] \in States
    BY <1>0 DEF States
  <2> QED
    BY <1>0, <1>3, <1>5, <2>1 DEF Types
<1> QED
  BY <1>2, <1>4, <1>5 DEF RenameState, RenameBack, Op

LEMMA DoomedVersions ==
  ASSUME NEW p
  PROVE  Doomed(p) \in SUBSET Versions
  BY DEF Doomed, Listed

LEMMA EndingBasic ==
  ASSUME BasicInv, NEW p \in Writers,
         Audit(p) \/ Prune(p) \/ RemoveSecret(p) \/ RemoveMeta(p)
  PROVE  BasicInv'
<1> USE DEF files, history
<1>0. p \in Processes /\ Types /\ WriterOK(p) /\ call[p] \in Calls /\ call[p].doomed \subseteq Versions
  BY Assumptions DEF BasicInv, CallInv, Types, Calls
<1>1. ASSUME NEW answer \in {"done", "unaudited"}, Answer(p, answer),
             UNCHANGED <<made, files, lock, history>>
      PROVE  BasicInv'
  <2>1. /\ call' \in [Processes -> Calls] /\ Others(p) /\ At(p)' = "release"
        /\ call'[p].answer = answer
    BY <1>0, <1>1, Answering DEF Answers
  <2>2. WriterOK(p)'
    BY <1>1, <2>1 DEF WriterOK, WriterSteps, Steps, Creation, Creating, Publishing
  <2> QED
    BY <1>1, <2>1, <2>2, Quiet, Kept
<1>2. ASSUME NEW doomed \in SUBSET Versions, PruneNext(p, doomed),
             UNCHANGED <<made, state, secret, lock, history>>,
             meta' \in [Versions -> FileStates]
      PROVE  BasicInv'
  <2>1. /\ call' \in [Processes -> Calls] /\ Others(p)
        /\ \/ At(p)' = "release" /\ call'[p].answer = "done"
           \/ At(p)' = "remove-secret"
    BY <1>0, <1>2, Pruning
  <2>2. WriterOK(p)'
    BY <2>1 DEF WriterOK, WriterSteps, Steps, Creation, Creating, Publishing, Ending
  <2> QED
    BY <1>2, <2>1, <2>2, Quiet, Kept
<1>3. CASE Audit(p)
  <2>1. CASE Op(p) = "rotate" /\ Goto(p, "prune")
    <3>1. call' \in [Processes -> Calls] /\ Others(p) /\ At(p)' = "prune" /\ Op(p)' = Op(p)
      BY <1>0, <2>1, Goes DEF Steps
    <3>2. WriterOK(p)'
      BY <2>1, <3>1 DEF WriterOK, WriterSteps, Steps, Creation, Creating, Publishing, Ending
    <3> QED
      BY <1>3, <3>1, <3>2, Quiet, Kept DEF Audit
  <2> QED
    BY <1>1, <1>3, <2>1 DEF Audit, Op
<1>4. CASE Prune(p)
  <2>1. {} \in SUBSET Versions /\ Doomed(p) \in SUBSET Versions
    BY DoomedVersions
  <2> QED
    BY <1>2, <1>4, <2>1, Kept DEF Prune
<1>5. CASE RemoveSecret(p)
  <2>1. PICK v \in call[p].doomed :
          /\ secret' = [secret EXCEPT ![v] = "absent"]
          /\ call' = [call EXCEPT ![p].at = "remove-meta", ![p].version = v]
    BY <1>5 DEF RemoveSecret
  <2> DEFINE c == [call[p] EXCEPT !.at = "remove-meta", !.version = v]
  <2>2. v \in Versions
    BY <1>0
  <2>3. c \in Calls /\ c.at = "remove-meta"
    BY <1>0, <2>2 DEF Calls, Steps
  <2>4. call' = [call EXCEPT ![p] = c]
    BY <1>0, <2>1 DEF Types
  <2> HIDE DEF c
  <2>5. call' \in [Processes -> Calls] /\ Others(p) /\ At(p)' = "remove-meta"
    BY <1>0, <2>3, <2>4, Becomes DEF At
  <2>6. WriterOK(p)'
    BY <2>5 DEF WriterOK, WriterSteps, Steps, Creation, Creating, Publishing, Ending
  <2>7. secret' \in [Versions -> FileStates]
    BY <1>0, <2>1 DEF Types, FileStates
  <2> QED
    BY <1>5, <2>5, <2>6, <2>7, Quiet, Kept DEF RemoveSecret
<1>6. CASE RemoveMeta(p)
  <2>1. call[p].doomed \ {call[p].version} \in SUBSET Versions
    BY <1>0
  <2>2. meta' \in [Versions -> FileStates]
    BY <1>0, <1>6 DEF RemoveMeta, Types, FileStates
  <2> QED
    BY <1>2, <1>6, <2>1, <2>2 DEF RemoveMeta
<1> QED
  BY <1>3, <1>4, <1>5, <1>6

LEMMA CrashBasic ==
  ASSUME BasicInv, NEW p \in Writers, Crash(p)
  PROVE  BasicInv'
<1> DEFINE c == Crashed
<1>0. p \in Processes /\ Types
  BY Assumptions DEF BasicInv
<1>1. c \in Calls /\ c.at = "crashed"
  <2>1. Idle \in Calls
    BY <1>0, IdleType
  <2> QED
    BY <2>1, CrashedType
<1>2. call' = [call EXCEPT ![p] = c]
  BY DEF Crash
<1> HIDE DEF c
<1>3. call' \in [Processes -> Calls] /\ Others(p) /\ At(p)' = "crashed"
  BY <1>0, <1>1, <1>2, Becomes DEF At
<1>4. WriterOK(p)'
  BY <1>3 DEF WriterOK, WriterSteps, Steps, Creation, Creating, Publishing
<1> QED
  BY <1>3, <1>4, Quiet, Kept DEF Crash, files, history

LEMMA WriteBasic ==
  ASSUME BasicInv, NEW p \in Writers, Write(p)
  PROVE  BasicInv'
  BY CallBasic, LockBasic, WorkBasic, RenameBasic, EndingBasic, CrashBasic DEF Write, Rotation

LEMMA ReadBasic ==
  ASSUME BasicInv, NEW p \in Readers, Read(p)
  PROVE  /\ BasicInv' /\ Others(p)
         /\ UNCHANGED <<made, files, lock, published, wrote>>
         /\ \A q \in Readers \ {p} : overtaken'[q] = overtaken[q]
<1> USE DEF files, history
<1>0. p \in Processes /\ p \notin Writers /\ Types /\ call[p] \in Calls /\ state \in States
  BY Assumptions DEF BasicInv, Types
<1>1. PICK c \in Calls : call' = [call EXCEPT ![p] = c] /\ c.at \in ReaderSteps
  <2>1. CASE Get(p)
    <3>1. Idle \in Calls
      BY <1>0, IdleType
    <3>2. [Idle EXCEPT !.at = "read-state", !.op = "get"] \in Calls
      BY <3>1 DEF Calls, Steps
    <3> QED
      BY <2>1, <3>1, <3>2 DEF Get, ReaderSteps, Calls
  <2>2. CASE GetState(p)
    <3>1. /\ [call[p] EXCEPT !.at = "idle", !.answer = "missing"] \in Calls
          /\ [call[p] EXCEPT !.at = "read-meta", !.seen = state] \in Calls
      BY <1>0 DEF Calls, Steps, Answers
    <3> QED
      BY <1>0, <2>2, <3>1 DEF GetState, ReaderSteps, Calls
  <2>3. ASSUME NEW step, NEW file, NEW at \in ReaderSteps, NEW answer \in Answers,
               GetFile(p, step, file, [at |-> at, answer |-> answer])
        PROVE  \E c \in Calls : call' = [call EXCEPT ![p] = c] /\ c.at \in ReaderSteps
    <3>1. /\ [call[p] EXCEPT !.at = at, !.answer = answer] \in Calls
          /\ [call[p] EXCEPT !.at = "idle", !.answer = "lost"] \in Calls
      <4>1. at \in Steps /\ "idle" \in Steps /\ "lost" \in Answers
        BY DEF ReaderSteps, Steps, Answers
      <4> HIDE DEF Steps, Answers
      <4> QED
        BY <1>0, <4>1 DEF Calls
    <3> QED
      BY <1>0, <2>3, <3>1 DEF GetFile, ReaderSteps, Calls
  <2>4. "read-value" \in ReaderSteps /\ "idle" \in ReaderSteps
        /\ "none" \in Answers /\ "served" \in Answers
    BY DEF ReaderSteps, Answers
  <2> QED
    BY <2>1, <2>2, <2>3, <2>4 DEF Read, GetMeta, GetValue
<1>2. call' \in [Processes -> Calls] /\ Others(p) /\ At(p)' \in ReaderSteps
  BY <1>0, <1>1, Becomes DEF At
<1>3. /\ UNCHANGED <<made, files, lock, published, wrote, robbed>>
      /\ overtaken' = overtaken \/ overtaken' = [overtaken EXCEPT ![p] = 0]
  BY DEF Read, Get, GetState, GetMeta, GetValue, GetFile
<1>4. /\ overtaken' \in [Readers -> 0 .. 2]
      /\ \A q \in Readers \ {p} : overtaken'[q] = overtaken[q]
  BY <1>0, <1>3 DEF Types
<1>5. Types'
  BY <1>0, <1>2, <1>3, <1>4 DEF Types
<1>6. CallInv'
  BY <1>0, <1>2, <1>3, Assumptions
  DEF BasicInv, CallInv, Others, WriterOK, At, Op, Creating, Publishing
<1> QED
  BY <1>2, <1>3, <1>4, <1>5, <1>6 DEF BasicInv

LEMMA BasicStep == BasicInv /\ [Next]_vars => BasicInv'
<1> SUFFICES ASSUME BasicInv, [Next]_vars PROVE BasicInv'
  OBVIOUS
<1>1. CASE LockAges
  BY <1>1 DEF LockAges, BasicInv, Types, CallInv, WriterOK, At, Op, Creating, Publishing, files,
     history
<1>2. CASE UNCHANGED vars
  BY <1>2 DEF vars, BasicInv, Types, CallInv, WriterOK, At, Op, Creating, Publishing, files,
     history
<1> QED
  BY <1>1, <1>2, WriteBasic, ReadBasic DEF Next

LEMMA BasicInvariance == Spec => []BasicInv
  BY BasicInit, BasicStep, PTL DEF Spec

\* Every variable holds a value of its type, however many writers there are
\* (versioned-file-secret-store.ts).
THEOREM TypeCorrect == Spec => []TypeOK
<1>1. BasicInv => TypeOK
  BY DEF BasicInv, Types, Calls, TypeOK, At
<1> QED
  BY <1>1, BasicInvariance, PTL

\* A call that is refused has changed nothing, however many writers there are and
\* whichever locks were broken (rotate, rollback: what can fail after the rename is
\* told apart).
THEOREM RefusalCorrect == Spec => []RefusedChangedNothing
<1>1. BasicInv => RefusedChangedNothing
  BY DEF BasicInv, CallInv, WriterOK, Ending, RefusedChangedNothing
<1> QED
  BY <1>1, BasicInvariance, PTL
-----------------------------------------------------------------------------
(* Mutual exclusion. *)

\* A writer at work goes on under the same token, until it gives the lock back.
LEMMA WorkCall ==
  ASSUME BasicInv, NEW p \in Writers, Working(p), Write(p), ~ReleaseUnlink(p), ~Crash(p),
         Release(p) => Goto(p, "release-unlink")
  PROVE  /\ UNCHANGED lock /\ Others(p) /\ Working(p)'
         /\ call'[p].token = call[p].token
<1> USE DEF files, history
<1>0. p \in Processes /\ Types /\ call[p] \in Calls /\ state \in States
      /\ call[p].doomed \subseteq Versions
  BY Assumptions DEF BasicInv, Types, Calls
<1>1. ASSUME NEW step \in Steps, Goto(p, step)
      PROVE  Others(p) /\ At(p)' = step /\ call'[p].token = call[p].token
  BY <1>0, <1>1, Goes
<1>2. ASSUME NEW answer \in Answers, Answer(p, answer)
      PROVE  Others(p) /\ At(p)' = "release" /\ call'[p].token = call[p].token
  BY <1>0, <1>2, Answering
<1>3. ASSUME NEW step \in Steps, call' = [call EXCEPT ![p].seen = state, ![p].at = step]
      PROVE  Others(p) /\ At(p)' = step /\ call'[p].token = call[p].token
  BY <1>0, <1>3 DEF Types, Others, At, Calls
<1>4. ASSUME NEW v, NEW step \in Steps, call' = [call EXCEPT ![p].at = step, ![p].version = v]
      PROVE  Others(p) /\ At(p)' = step /\ call'[p].token = call[p].token
  BY <1>0, <1>4 DEF Types, Others, At, Calls
<1>5. ASSUME NEW doomed \in SUBSET Versions, PruneNext(p, doomed)
      PROVE  Others(p) /\ At(p)' \in {"release", "remove-secret"} /\ call'[p].token = call[p].token
  BY <1>0, <1>5, Pruning
<1>6. /\ {"value", "create-secret", "write-secret", "create-meta", "write-meta", "rename", "audit",
           "prune", "remove-secret", "remove-meta", "release", "release-unlink"} \subseteq Steps
      /\ {"refused", "done", "unaudited"} \subseteq Answers
  BY DEF Steps, Answers
<1>7. CASE Release(p)
  BY <1>1, <1>6, <1>7 DEF Release, Working, Unlocked
<1>8. CASE ReadCurrent(p) \/ ReadForRollback(p)
  BY <1>2, <1>3, <1>6, <1>8 DEF ReadCurrent, ReadForRollback, Refuse, Working, Unlocked
<1>9. CASE ReadCurrentValue(p) \/ ReadTarget(p)
  BY <1>1, <1>2, <1>6, <1>9 DEF ReadCurrentValue, ReadTarget, Refuse, Working, Unlocked
<1>10. CASE CreateSecret(p)
  BY <1>2, <1>4, <1>6, <1>10 DEF CreateSecret, Refuse, Working, Unlocked
<1>11. CASE WriteSecret(p) \/ CreateMeta(p) \/ WriteMeta(p)
  BY <1>1, <1>2, <1>6, <1>11 DEF WriteSecret, CreateMeta, WriteMeta, Refuse, Working, Unlocked
<1>12. CASE RenameState(p) \/ RenameBack(p)
  BY <1>1, <1>2, <1>6, <1>12 DEF RenameState, RenameBack, Replace, Refuse, Working, Unlocked
<1>13. CASE Audit(p)
  BY <1>1, <1>2, <1>6, <1>13 DEF Audit, Working, Unlocked
<1>14. CASE Prune(p) \/ RemoveMeta(p)
  <2>1. {} \in SUBSET Versions /\ Doomed(p) \in SUBSET Versions
        /\ call[p].doomed \ {call[p].version} \in SUBSET Versions
    BY <1>0, DoomedVersions
  <2> QED
    BY <1>5, <1>14, <2>1 DEF Prune, RemoveMeta, Working, Unlocked
<1>15. CASE RemoveSecret(p)
  BY <1>4, <1>6, <1>15 DEF RemoveSecret, Working, Unlocked
<1>16. ~TakeLock(p) /\ ~StatLock(p) /\ ~UnlinkStale(p)
       /\ \A op, expected : ~Call(p, op, expected)
  BY DEF Working, Unlocked, TakeLock, StatLock, UnlinkStale, Call
<1> QED
  BY <1>7, <1>8, <1>9, <1>10, <1>11, <1>12, <1>13, <1>14, <1>15, <1>16 DEF Write, Rotation

LEMMA InitRests ==
  ASSUME Init
  PROVE  /\ \A p \in Writers : At(p) \in {"idle", "crashed"}
         /\ \A p \in Readers : At(p) = "idle" /\ call[p].answer = "none"
  BY Assumptions DEF Init, At, Idle, Crashed

LEMMA LockInit == Init => LockInv
<1> SUFFICES ASSUME Init PROVE LockInv
  OBVIOUS
<1>1. lock = NoLock \/ lock.holder \in Writers
  BY Assumptions DEF Init
<1> QED
  BY <1>1, InitRests DEF LockInv, LockOK, Working, Unlocked

\* The other writers' part of LockInv, when the lock stays as it is.
LEMMA LockFrame ==
  ASSUME LockInv, NEW p \in Writers, Others(p), UNCHANGED lock, LockOK(p)'
  PROVE  LockInv'
<1>1. \A q \in Writers \ {p} : call'[q] = call[q]
  BY Assumptions DEF Others
<1>2. \A q \in Writers \ {p} : LockOK(q)'
  BY <1>1 DEF LockInv, LockOK, Working, At
<1> QED
  BY <1>2 DEF LockInv

\* When nobody works and p does not begin to, any lock will do.
LEMMA LockFree ==
  ASSUME NEW p \in Writers, Others(p), lock' = NoLock, ~Working(p)',
         \A q \in Writers \ {p} : ~Working(q)
  PROVE  LockInv'
<1>1. ASSUME NEW q \in Writers \ {p} PROVE ~Working(q)'
  BY <1>1, Assumptions DEF Others, Working, At
<1> QED
  BY <1>1 DEF LockInv, LockOK

\* A working writer is the only one.
LEMMA Alone ==
  ASSUME LockInv, NEW p \in Writers, Working(p)
  PROVE  /\ lock.holder = p /\ lock.token = call[p].token /\ lock # NoLock
         /\ \A q \in Writers \ {p} : ~Working(q)
<1>1. lock.holder = p /\ lock.token = call[p].token
  BY DEF LockInv, LockOK
<1>2. \A q \in Writers \ {p} : Working(q) => lock.holder = q
  BY DEF LockInv, LockOK
<1> QED
  BY <1>1, <1>2, Assumptions DEF NoLock

\* The only removal of another's lock that is harmless is that of a lock nobody needs.
LEMMA WriteLocks ==
  ASSUME BasicInv, LockInv, ~robbed', NEW p \in Writers, Write(p)
  PROVE  LockInv'
<1> USE DEF files, history
<1>0. p \in Processes /\ Types /\ "none" # p
  BY Assumptions DEF BasicInv
<1>1. ASSUME NEW op, NEW expected, Call(p, op, expected) PROVE LockInv'
  <2>1. At(p)' = "lock" /\ Others(p) /\ UNCHANGED lock
    BY <1>0, <1>1 DEF Call, Others, At, Over, Idle, Types
  <2> QED
    BY <2>1, LockFrame DEF LockOK, Working, Unlocked
<1>2. CASE TakeLock(p) /\ lock # NoLock
  <2>1. At(p)' = "stat" /\ Others(p) /\ UNCHANGED lock
    BY <1>0, <1>2, Goes DEF TakeLock, Steps
  <2> QED
    BY <2>1, LockFrame DEF LockOK, Working, Unlocked
<1>3. CASE TakeLock(p) /\ lock = NoLock
  <2>1. /\ lock' = [holder |-> p, token |-> Token(p), stale |-> FALSE]
        /\ call' = [call EXCEPT ![p].at = "state", ![p].token = Token(p)]
    BY <1>3 DEF TakeLock
  <2>2. Others(p) /\ At(p)' = "state" /\ call'[p].token = Token(p)
    BY <1>0, <2>1 DEF Types, Calls, Others, At
  <2>3. ASSUME NEW q \in Writers \ {p} PROVE ~Working(q)'
    <3>1. ~Working(q) /\ call'[q] = call[q]
      BY <1>3, <2>2, Alone, Assumptions DEF Others
    <3> QED
      BY <3>1 DEF Working, At
  <2>4. lock'.holder = p /\ lock'.token = call'[p].token
    BY <2>1, <2>2
  <2> QED
    BY <2>3, <2>4 DEF LockInv, LockOK
<1>4. CASE StatLock(p)
  <2>1. Others(p) /\ UNCHANGED lock /\ At(p)' \in {"unlink", "lock", "idle"}
    BY <1>0, <1>4, Goes, Retrying DEF StatLock, Steps
  <2> QED
    BY <2>1, LockFrame DEF LockOK, Working, Unlocked
<1>5. CASE UnlinkStale(p)
  <2>1. lock' = NoLock /\ Others(p) /\ At(p)' \in {"lock", "idle"}
    BY <1>0, <1>5, Retrying DEF UnlinkStale
  <2>2. \A q \in Writers : ~Holds(q)
    BY <1>5 DEF UnlinkStale
  <2>3. \A q \in Writers : ~Working(q)
    BY <2>2, Alone DEF Holds, Working, Unlocked
  <2> QED
    BY <2>1, <2>3, LockFree DEF Working, Unlocked
<1>6. CASE Working(p) /\ ~ReleaseUnlink(p) /\ ~Crash(p)
  <2>1. lock.holder = p /\ lock.token = call[p].token
    BY <1>6, Alone
  <2>2. Release(p) => Goto(p, "release-unlink")
    BY <2>1 DEF Release
  <2>3. /\ UNCHANGED lock /\ Others(p) /\ Working(p)'
        /\ call'[p].token = call[p].token
    BY <1>6, <2>2, WorkCall
  <2>4. LockOK(p)'
    BY <2>1, <2>3 DEF LockOK
  <2> QED
    BY <2>3, <2>4, LockFrame
<1>7. CASE ReleaseUnlink(p)
  <2>1. lock' = NoLock /\ Others(p) /\ At(p)' = "idle" /\ Working(p)
    BY <1>0, <1>7, Ends DEF ReleaseUnlink, Working, Unlocked
  <2> QED
    BY <2>1, Alone, LockFree DEF Working, Unlocked
<1>8. CASE Crash(p)
  <2>1. UNCHANGED lock /\ Others(p) /\ At(p)' = "crashed"
    BY <1>0, <1>8 DEF Crash, Crashed, Others, At, Types, Idle
  <2> QED
    BY <2>1, LockFrame DEF LockOK, Working, Unlocked
<1>9. \/ Working(p) \/ Crash(p) \/ TakeLock(p) \/ StatLock(p) \/ UnlinkStale(p)
      \/ \E op, expected : Call(p, op, expected)
  BY DEF Write, Rotation, ReadCurrent, ReadCurrentValue, CreateSecret, WriteSecret, CreateMeta,
     WriteMeta, RenameState, Audit, Prune, RemoveSecret, RemoveMeta, ReadForRollback, ReadTarget,
     RenameBack, Release, ReleaseUnlink, Working, Unlocked
<1> QED
  BY <1>1, <1>2, <1>3, <1>4, <1>5, <1>6, <1>7, <1>8, <1>9

LEMMA LockStep ==
  ASSUME BasicInv, LockInv, ~robbed', [Next]_vars
  PROVE  LockInv'
<1>1. CASE LockAges
  <2>1. lock' = [lock EXCEPT !.stale = TRUE] /\ call' = call /\ lock # NoLock
    BY <1>1 DEF LockAges
  <2>2. lock'.holder = lock.holder /\ lock'.token = lock.token
    BY <2>1 DEF BasicInv, Types
  <2> QED
    BY <2>1, <2>2 DEF LockInv, LockOK, Working, At
<1>2. ASSUME NEW p \in Readers, Read(p) PROVE LockInv'
  <2>1. UNCHANGED lock /\ \A q \in Writers : call'[q] = call[q]
    BY <1>2, ReadBasic, Assumptions DEF Others
  <2> QED
    BY <2>1 DEF LockInv, LockOK, Working, At
<1>3. CASE UNCHANGED vars
  BY <1>3 DEF vars, LockInv, LockOK, Working, At
<1> QED
  BY <1>1, <1>2, <1>3, WriteLocks DEF Next

\* A stolen lock is never forgotten.
LEMMA RobbedStays == ASSUME [Next]_vars, robbed PROVE robbed'
<1>1. ASSUME NEW p \in Writers, Write(p) PROVE robbed'
  <2>1. UnlinkStale(p) => robbed'
    BY DEF UnlinkStale
  <2>2. Rotation(p) => UNCHANGED robbed
    BY DEF Rotation, ReadCurrent, ReadCurrentValue, CreateSecret, WriteSecret, CreateMeta,
       WriteMeta, RenameState, Replace, Audit, Prune, RemoveSecret, RemoveMeta, Refuse, history
  <2> QED
    BY <1>1, <2>1, <2>2 DEF Write, Call, TakeLock, StatLock, Release, ReleaseUnlink,
       ReadForRollback, ReadTarget, RenameBack, Replace, Crash, Refuse, history
<1>2. ASSUME NEW p \in Readers, Read(p) PROVE robbed'
  BY <1>2 DEF Read, Get, GetState, GetMeta, GetValue, GetFile, history
<1> QED
  BY <1>1, <1>2 DEF Next, LockAges, vars, history
-----------------------------------------------------------------------------
(* The work under the lock. *)

FilesInv == StepInv /\ NamedWhole

Named == {state.active, state.previous} \ {NoVersion}

LEMMA FilesInit == Init => FilesInv
<1> SUFFICES ASSUME Init PROVE FilesInv
  OBVIOUS
<1> QED
  BY InitRests DEF Init, FilesInv, StepInv, StepOK, NamedWhole, Deciding, Creation, Creating,
     Publishing

\* Nothing is asked of a writer that does not work, or has just begun or finished.
LEMMA Resting ==
  ASSUME NEW p, ~Working(p) \/ At(p) \in {"state", "release", "release-unlink"}
  PROVE  StepOK(p)
  BY DEF StepOK, Working, Unlocked, Deciding, Creation, Creating, Publishing

LEMMA WorkFrame ==
  ASSUME LockInv, NEW p \in Writers, Working(p), Others(p), StepOK(p)',
         Named' \subseteq published', NamedWhole'
  PROVE  FilesInv'
<1>1. ASSUME NEW q \in Writers \ {p} PROVE StepOK(q)'
  <2>1. ~Working(q) /\ call'[q] = call[q]
    BY Alone, Assumptions DEF Others
  <2>2. ~Working(q)'
    BY <2>1 DEF Working, At
  <2> QED
    BY <2>2 DEF StepOK, Working, Unlocked, Deciding, Creation, Creating, Publishing
<1> QED
  BY <1>1 DEF FilesInv, StepInv, Named

\* What a writer may rely on.
LEMMA WriterFacts ==
  ASSUME BasicInv, LockInv, FilesInv, NEW p \in Writers
  PROVE  /\ p \in Processes /\ Types /\ call[p] \in Calls /\ state \in States
         /\ WriterOK(p) /\ StepOK(p)
         /\ Named \subseteq published /\ published \subseteq 1 .. made /\ made \in Nat
         /\ \A v \in Named : secret[v] = "whole" /\ meta[v] = "whole"
  BY Assumptions DEF BasicInv, CallInv, Types, FilesInv, StepInv, Named, NamedWhole

\* The files are left alone, or a version that active.json does not name is written.
LEMMA FilesKept ==
  ASSUME BasicInv, LockInv, FilesInv, UNCHANGED <<state, published>>,
         NEW v, v \notin Named,
         UNCHANGED secret \/ \E f : secret' = [secret EXCEPT ![v] = f],
         UNCHANGED meta \/ \E f : meta' = [meta EXCEPT ![v] = f]
  PROVE  Named' \subseteq published' /\ NamedWhole'
<1>1. /\ Named \subseteq published /\ secret \in [Versions -> FileStates]
      /\ meta \in [Versions -> FileStates]
      /\ \A u \in Named : u \in Versions /\ secret[u] = "whole" /\ meta[u] = "whole"
  BY MadeVersions DEF BasicInv, Types, FilesInv, StepInv, Named, NamedWhole
<1>2. Named' = Named
  BY DEF Named
<1>3. ASSUME NEW u \in Named PROVE secret'[u] = "whole" /\ meta'[u] = "whole"
  BY <1>1
<1> QED
  BY <1>1, <1>2, <1>3 DEF NamedWhole, Named

LEMMA RefuseFiles ==
  ASSUME BasicInv, LockInv, FilesInv, NEW p \in Writers, Working(p),
         NEW answer \in Answers, Answer(p, answer), UNCHANGED <<state, published>>,
         NEW v, v \notin Named,
         UNCHANGED secret \/ \E f : secret' = [secret EXCEPT ![v] = f],
         UNCHANGED meta \/ \E f : meta' = [meta EXCEPT ![v] = f]
  PROVE  FilesInv'
<1>1. Others(p) /\ At(p)' = "release"
  BY WriterFacts, Answering
<1>2. StepOK(p)'
  BY <1>1 DEF StepOK, Deciding, Creation, Creating, Publishing
<1> QED
  BY <1>1, <1>2, FilesKept, WorkFrame

LEMMA NoneNamed == NoVersion \notin Named
  BY DEF Named

LEMMA Refused ==
  ASSUME BasicInv, LockInv, FilesInv, NEW p \in Writers, Working(p), Refuse(p)
  PROVE  FilesInv'
  BY RefuseFiles, NoneNamed DEF Refuse, files, history, Answers

LEMMA ReadFiles ==
  ASSUME BasicInv, LockInv, FilesInv, NEW p \in Writers, Working(p),
         ReadCurrent(p) \/ ReadForRollback(p) \/ ReadCurrentValue(p) \/ ReadTarget(p)
  PROVE  FilesInv'
<1> USE DEF files, history
<1>0. /\ p \in Processes /\ Types /\ call[p] \in Calls /\ state \in States
      /\ WriterOK(p) /\ StepOK(p)
  BY WriterFacts
<1>1. CASE Refuse(p)
  BY <1>1, Refused
<1>2. ASSUME NEW step \in {"value", "create-secret"}, At(p) = "state",
             state.active = call[p].expected, Op(p) = "rollback" => state.previous # NoVersion,
             call' = [call EXCEPT ![p].seen = state, ![p].at = step],
             UNCHANGED <<made, files, lock, history>>
      PROVE  FilesInv'
  <2> DEFINE c == [call[p] EXCEPT !.seen = state, !.at = step]
  <2>1. /\ c \in Calls /\ c.at = step /\ c.op = call[p].op /\ c.seen = state
        /\ c.expected = call[p].expected
    BY <1>0 DEF Calls, Steps
  <2>2. call' = [call EXCEPT ![p] = c]
    BY <1>0, <1>2 DEF Types
  <2> HIDE DEF c
  <2>3. Others(p) /\ call'[p] = c
    BY <1>0, <2>1, <2>2, Becomes
  <2>4. StepOK(p)'
    BY <1>2, <2>1, <2>3 DEF StepOK, Deciding, Creation, Creating, Publishing, At, Op
  <2> QED
    BY <1>2, <2>3, <2>4, FilesKept, NoneNamed, WorkFrame
<1>3. ASSUME NEW step \in {"create-secret", "rename"}, At(p) = "value", Goto(p, step),
             step = "rename" => Op(p) = "rollback", UNCHANGED <<made, files, lock, history>>
      PROVE  FilesInv'
  <2>1. /\ Others(p) /\ At(p)' = step /\ Op(p)' = Op(p) /\ call'[p].seen = call[p].seen
        /\ call'[p].expected = call[p].expected
    BY <1>0, <1>3, Goes DEF Steps
  <2>2. StepOK(p)'
    BY <1>0, <1>3, <2>1 DEF StepOK, Deciding, Creation, Creating, Publishing
  <2> QED
    BY <1>3, <2>1, <2>2, FilesKept, NoneNamed, WorkFrame
<1>4. CASE ReadCurrent(p)
  BY <1>1, <1>2, <1>4 DEF ReadCurrent, Op
<1>5. CASE ReadForRollback(p)
  BY <1>1, <1>2, <1>5 DEF ReadForRollback
<1>6. CASE ReadCurrentValue(p) \/ ReadTarget(p)
  BY <1>1, <1>3, <1>6 DEF ReadCurrentValue, ReadTarget, Op
<1> QED
  BY <1>4, <1>5, <1>6

\* The new version is nobody else's and not named yet.
LEMMA CreateFiles ==
  ASSUME BasicInv, LockInv, FilesInv, NEW p \in Writers, Working(p), CreateSecret(p)
  PROVE  FilesInv'
<1> USE DEF files, history
<1>0. /\ p \in Processes /\ Types /\ call[p] \in Calls /\ StepOK(p)
      /\ Named \subseteq published /\ published \subseteq 1 .. made /\ made \in Nat
  BY WriterFacts
<1>1. CASE Refuse(p)
  BY <1>1, Refused
<1>2. CASE /\ made < MaxVersions
           /\ made' = made + 1
           /\ secret' = [secret EXCEPT ![made + 1] = "partial"]
           /\ call' = [call EXCEPT ![p].at = "write-secret", ![p].version = made + 1]
           /\ UNCHANGED <<state, meta, lock, history>>
  <2> DEFINE c == [call[p] EXCEPT !.at = "write-secret", !.version = made + 1]
  <2>1. made + 1 \in Versions /\ made + 1 \notin published /\ made + 1 \notin Named
    BY <1>0, <1>2, Assumptions DEF Versions
  <2>2. /\ c \in Calls /\ c.at = "write-secret" /\ c.version = made + 1 /\ c.seen = call[p].seen
        /\ c.expected = call[p].expected
    BY <1>0, <2>1 DEF Calls, Steps
  <2>3. call' = [call EXCEPT ![p] = c]
    BY <1>0, <1>2 DEF Types
  <2> HIDE DEF c
  <2>4. Others(p) /\ call'[p] = c
    BY <1>0, <2>2, <2>3, Becomes
  <2>5. At(p) = "create-secret"
    BY DEF CreateSecret
  <2>6. StepOK(p)'
    BY <1>0, <1>2, <2>1, <2>2, <2>4, <2>5 DEF StepOK, Deciding, Creation, Creating, Publishing, At, Op
  <2> QED
    BY <1>2, <2>1, <2>4, <2>6, FilesKept, WorkFrame
<1> QED
  BY <1>1, <1>2 DEF CreateSecret

LEMMA WriteFiles ==
  ASSUME BasicInv, LockInv, FilesInv, NEW p \in Writers, Working(p),
         WriteSecret(p) \/ CreateMeta(p) \/ WriteMeta(p)
  PROVE  FilesInv'
<1> USE DEF files, history
<1> DEFINE v == call[p].version
<1>0. /\ p \in Processes /\ Types /\ call[p] \in Calls /\ StepOK(p) /\ WriterOK(p)
      /\ Named \subseteq published /\ published \subseteq 1 .. made
  BY WriterFacts
<1>1. At(p) \in Creation /\ Op(p) = "rotate" /\ v \in Versions /\ v \notin published /\ v \notin Named
  <2>1. At(p) \in Creation
    BY DEF WriteSecret, CreateMeta, WriteMeta, Creation
  <2> QED
    BY <1>0, <2>1, MadeVersions DEF WriterOK, StepOK, Creating
<1>2. CASE Refuse(p)
  BY <1>2, Refused
<1>3. ASSUME NEW step \in {"create-meta", "write-meta", "rename"}, Goto(p, step),
             UNCHANGED <<made, state, lock, history>>,
             UNCHANGED secret \/ secret' = [secret EXCEPT ![v] = "whole"],
             UNCHANGED meta \/ \E f : meta' = [meta EXCEPT ![v] = f],
             secret'[v] = "whole", step = "rename" => meta'[v] = "whole"
      PROVE  FilesInv'
  <2>1. /\ Others(p) /\ At(p)' = step /\ Op(p)' = Op(p) /\ call'[p].seen = call[p].seen
        /\ call'[p].expected = call[p].expected /\ call'[p].version = v
    BY <1>0, <1>3, Goes DEF Steps
  <2>2. StepOK(p)'
    BY <1>0, <1>1, <1>3, <2>1 DEF StepOK, Deciding, Creation, Creating, Publishing
  <2> QED
    BY <1>1, <1>3, <2>1, <2>2, FilesKept, WorkFrame
<1>4. CASE WriteSecret(p)
  <2>1. secret' = [secret EXCEPT ![v] = "whole"] => secret'[v] = "whole"
    BY <1>0, <1>1 DEF Types
  <2> QED
    BY <1>2, <1>3, <1>4, <2>1 DEF WriteSecret
<1>5. CASE CreateMeta(p)
  <2>1. secret[v] = "whole"
    BY <1>0, <1>5 DEF CreateMeta, StepOK
  <2> QED
    BY <1>3, <1>5, <2>1 DEF CreateMeta
<1>6. CASE WriteMeta(p)
  <2>1. secret[v] = "whole"
    BY <1>0, <1>6 DEF WriteMeta, StepOK
  <2>2. meta' = [meta EXCEPT ![v] = "whole"] => meta'[v] = "whole"
    BY <1>0, <1>1 DEF Types
  <2>3. CASE Answer(p, "refused") /\ UNCHANGED meta /\ secret' = [secret EXCEPT ![v] = "absent"]
    <3>1. "refused" \in Answers /\ UNCHANGED <<state, published>>
      BY <1>6 DEF WriteMeta, Answers
    <3> QED
      BY <1>1, <2>3, <3>1, RefuseFiles
  <2> QED
    BY <1>3, <1>6, <2>1, <2>2, <2>3 DEF WriteMeta
<1> QED
  BY <1>4, <1>5, <1>6

\* active.json is replaced, and what it names is whole.
LEMMA RenameFiles ==
  ASSUME BasicInv, LockInv, FilesInv, NEW p \in Writers, Working(p),
         RenameState(p) \/ RenameBack(p)
  PROVE  FilesInv'
<1> USE DEF files, history
<1>0. /\ p \in Processes /\ Types /\ call[p] \in Calls /\ StepOK(p) /\ state \in States
      /\ Named \subseteq published
      /\ \A v \in Named : secret[v] = "whole" /\ meta[v] = "whole"
  BY WriterFacts
<1>1. At(p) = "rename" /\ call[p].seen = state
  <2>1. At(p) = "rename"
    BY DEF RenameState, RenameBack
  <2> QED
    BY <1>0, <2>1 DEF StepOK, Deciding
<1>2. CASE Refuse(p)
  BY <1>2, Refused
<1>3. CASE /\ Op(p) = "rotate"
           /\ Replace(p, [active |-> call[p].version, previous |-> call[p].seen.active])
           /\ published' = published \cup {call[p].version}
  <2>1. /\ Others(p) /\ At(p)' = "audit" /\ Op(p)' = Op(p) /\ call'[p].seen = call[p].seen
        /\ call'[p].version = call[p].version
    BY <1>0, <1>3, Goes DEF Replace, Steps
  <2>2. /\ state' = [active |-> call[p].version, previous |-> state.active]
        /\ UNCHANGED <<secret, meta>>
    BY <1>1, <1>3 DEF Replace
  <2>3. secret[call[p].version] = "whole" /\ meta[call[p].version] = "whole"
    BY <1>0, <1>1, <1>3 DEF StepOK, Publishing
  <2>4. Named' \subseteq published'
    BY <1>0, <1>3, <2>2 DEF Named
  <2>5. NamedWhole'
    BY <1>0, <2>2, <2>3 DEF NamedWhole, Named
  <2>6. StepOK(p)'
    BY <1>1, <1>3, <2>1, <2>2 DEF StepOK, Deciding, Creation, Creating, Publishing
  <2> QED
    BY <2>1, <2>4, <2>5, <2>6, WorkFrame
<1>4. CASE /\ Op(p) = "rollback"
           /\ Replace(p, [active |-> call[p].seen.previous, previous |-> call[p].seen.active])
           /\ UNCHANGED published
  <2>1. Others(p) /\ At(p)' = "audit" /\ Op(p)' = Op(p)
    BY <1>0, <1>4, Goes DEF Replace, Steps
  <2>2. /\ state' = [active |-> state.previous, previous |-> state.active]
        /\ UNCHANGED <<secret, meta>>
    BY <1>1, <1>4 DEF Replace
  <2>3. Named' = Named
    BY <2>2 DEF Named
  <2>4. Named' \subseteq published' /\ NamedWhole'
    BY <1>0, <1>4, <2>2, <2>3 DEF NamedWhole, Named
  <2>5. StepOK(p)'
    BY <1>4, <2>1 DEF StepOK, Deciding, Creation, Creating, Publishing
  <2> QED
    BY <2>1, <2>4, <2>5, WorkFrame
<1> QED
  BY <1>2, <1>3, <1>4 DEF RenameState, RenameBack, Op

\* What is removed is not named by active.json.
LEMMA EndingFiles ==
  ASSUME BasicInv, LockInv, FilesInv, NEW p \in Writers, Working(p),
         Audit(p) \/ Prune(p) \/ RemoveSecret(p) \/ RemoveMeta(p)
  PROVE  FilesInv'
<1> USE DEF files, history
<1>0. /\ p \in Processes /\ Types /\ call[p] \in Calls /\ StepOK(p) /\ WriterOK(p)
      /\ call[p].doomed \subseteq Versions
  <2>1. p \in Processes /\ Types /\ call[p] \in Calls /\ StepOK(p) /\ WriterOK(p)
    BY WriterFacts
  <2> QED
    BY <2>1 DEF Calls
<1>1. ASSUME NEW doomed \in SUBSET Versions, PruneNext(p, doomed),
             state.active \notin doomed, state.previous \notin doomed,
             UNCHANGED <<state, secret, history>>,
             NEW v, v \notin Named, UNCHANGED meta \/ \E f : meta' = [meta EXCEPT ![v] = f]
      PROVE  FilesInv'
  <2>1. /\ Others(p)
        /\ At(p)' = "release" \/ (At(p)' = "remove-secret" /\ call'[p].doomed = doomed)
    BY <1>0, <1>1, Pruning
  <2>2. StepOK(p)'
    BY <1>1, <2>1 DEF StepOK, Deciding, Creation, Creating, Publishing
  <2> QED
    BY <1>1, <2>1, <2>2, FilesKept, WorkFrame
<1>2. CASE Audit(p)
  <2>1. ASSUME NEW answer \in {"done", "unaudited"}, Answer(p, answer) PROVE FilesInv'
    <3>1. answer \in Answers
      BY DEF Answers
    <3> QED
      BY <1>2, <2>1, <3>1, RefuseFiles, NoneNamed DEF Audit
  <2>2. CASE Op(p) = "rotate" /\ Goto(p, "prune")
    <3>1. /\ Others(p) /\ At(p)' = "prune" /\ Op(p)' = Op(p) /\ call'[p].seen = call[p].seen
          /\ call'[p].version = call[p].version
      BY <1>0, <2>2, Goes DEF Steps
    <3>2. StepOK(p)'
      BY <1>0, <1>2, <2>2, <3>1 DEF Audit, StepOK, Deciding, Creation, Creating, Publishing
    <3> QED
      BY <1>2, <3>1, <3>2, FilesKept, NoneNamed, WorkFrame DEF Audit
  <2> QED
    BY <1>2, <2>1, <2>2 DEF Audit, Op
<1>3. CASE Prune(p)
  <2>1. state = [active |-> call[p].version, previous |-> call[p].seen.active]
    BY <1>0, <1>3 DEF Prune, StepOK, WriterOK
  <2>2. state.active = call[p].version /\ state.previous = call[p].seen.active
    BY <2>1
  <2>3. state.active \notin Doomed(p) /\ state.previous \notin Doomed(p)
    BY <2>2 DEF Doomed
  <2>4. {} \in SUBSET Versions /\ Doomed(p) \in SUBSET Versions
    BY DoomedVersions
  <2> QED
    BY <1>1, <1>3, <2>3, <2>4, NoneNamed DEF Prune
<1>4. CASE RemoveSecret(p)
  <2>1. PICK v \in call[p].doomed :
          /\ secret' = [secret EXCEPT ![v] = "absent"]
          /\ call' = [call EXCEPT ![p].at = "remove-meta", ![p].version = v]
    BY <1>4 DEF RemoveSecret
  <2>2. state.active \notin call[p].doomed /\ state.previous \notin call[p].doomed
    BY <1>0, <1>4 DEF RemoveSecret, StepOK
  <2>3. v \notin Named
    BY <2>2 DEF Named
  <2>4. /\ Others(p) /\ At(p)' = "remove-meta" /\ call'[p].version = v
        /\ call'[p].doomed = call[p].doomed
    BY <1>0, <2>1 DEF Types, Calls, Others, At
  <2>5. StepOK(p)'
    BY <1>4, <2>2, <2>4 DEF RemoveSecret, StepOK, Deciding, Creation, Creating, Publishing
  <2> QED
    BY <1>4, <2>1, <2>3, <2>4, <2>5, FilesKept, WorkFrame DEF RemoveSecret
<1>5. CASE RemoveMeta(p)
  <2>1. /\ state.active \notin call[p].doomed /\ state.previous \notin call[p].doomed
        /\ call[p].version \in call[p].doomed
    BY <1>0, <1>5 DEF RemoveMeta, StepOK
  <2>2. call[p].doomed \ {call[p].version} \in SUBSET Versions
    BY <1>0
  <2>3. call[p].version \notin Named
    BY <2>1 DEF Named
  <2> QED
    BY <1>1, <1>5, <2>1, <2>2, <2>3 DEF RemoveMeta
<1> QED
  BY <1>2, <1>3, <1>4, <1>5
LEMMA QuietFiles ==
  ASSUME FilesInv, NEW p \in Writers, Others(p), UNCHANGED <<state, secret, meta, published>>,
         ~Working(p)' \/ At(p)' \in {"state", "release-unlink"}
  PROVE  FilesInv'
<1>1. StepOK(p)'
  BY DEF StepOK, Working, Unlocked, Deciding, Creation, Creating, Publishing
<1>2. ASSUME NEW q \in Writers \ {p} PROVE StepOK(q)'
  <2>1. call'[q] = call[q] /\ StepOK(q)
    BY Assumptions DEF Others, FilesInv, StepInv
  <2> QED
    BY <2>1 DEF StepOK, Deciding, Creating, Publishing, At, Op
<1> QED
  BY <1>1, <1>2 DEF FilesInv, StepInv, NamedWhole

LEMMA LockFiles ==
  ASSUME BasicInv, FilesInv, NEW p \in Writers,
         \/ \E op, expected : Call(p, op, expected)
         \/ TakeLock(p) \/ StatLock(p) \/ UnlinkStale(p) \/ Release(p) \/ ReleaseUnlink(p) \/ Crash(p)
  PROVE  FilesInv'
<1> USE DEF files, history
<1>0. p \in Processes /\ Types
  BY Assumptions DEF BasicInv
<1>1. UNCHANGED <<state, secret, meta, published>>
  BY DEF Call, TakeLock, StatLock, UnlinkStale, Release, ReleaseUnlink, Crash
<1>2. Others(p) /\ (~Working(p)' \/ At(p)' \in {"state", "release-unlink"})
  <2>1. ASSUME NEW op, NEW expected, Call(p, op, expected) PROVE Others(p) /\ At(p)' = "lock"
    BY <1>0, <2>1 DEF Call, Others, At, Over, Idle, Types
  <2>2. CASE TakeLock(p)
    BY <1>0, <2>2 DEF TakeLock, Goto, Others, At, Types, Calls, Working, Unlocked
  <2>3. CASE StatLock(p)
    BY <1>0, <2>3, Goes, Retrying DEF StatLock, Steps, Working, Unlocked
  <2>4. CASE UnlinkStale(p)
    BY <1>0, <2>4, Retrying DEF UnlinkStale, Working, Unlocked
  <2>5. CASE Release(p)
    BY <1>0, <2>5, Goes, Ends DEF Release, Steps, Working, Unlocked
  <2>6. CASE ReleaseUnlink(p)
    BY <1>0, <2>6, Ends DEF ReleaseUnlink, Working, Unlocked
  <2>7. CASE Crash(p)
    BY <1>0, <2>7 DEF Crash, Crashed, Others, At, Types, Idle, Working, Unlocked
  <2> QED
    BY <2>1, <2>2, <2>3, <2>4, <2>5, <2>6, <2>7 DEF Working, Unlocked
<1> QED
  BY <1>1, <1>2, QuietFiles

LEMMA FilesStep ==
  ASSUME BasicInv, LockInv, FilesInv, [Next]_vars
  PROVE  FilesInv'
<1>1. ASSUME NEW p \in Writers, Write(p) PROVE FilesInv'
  <2>1. Rotation(p) \/ ReadForRollback(p) \/ ReadTarget(p) \/ RenameBack(p) => Working(p)
    BY DEF Rotation, ReadCurrent, ReadCurrentValue, CreateSecret, WriteSecret, CreateMeta, WriteMeta,
       RenameState, Audit, Prune, RemoveSecret, RemoveMeta, ReadForRollback, ReadTarget, RenameBack,
       Working, Unlocked
  <2> QED
    BY <1>1, <2>1, LockFiles, ReadFiles, CreateFiles, WriteFiles, RenameFiles, EndingFiles
    DEF Write, Rotation
<1>2. ASSUME UNCHANGED <<state, secret, meta, published>>, \A q \in Writers : call'[q] = call[q]
      PROVE  FilesInv'
  BY <1>2 DEF FilesInv, StepInv, StepOK, NamedWhole, Deciding, Creating, Publishing, At, Op
<1>3. ASSUME NEW p \in Readers, Read(p) PROVE FilesInv'
  BY <1>2, <1>3, ReadBasic, Assumptions DEF Others, files
<1>4. CASE LockAges \/ UNCHANGED vars
  BY <1>2, <1>4 DEF LockAges, vars, files, history
<1> QED
  BY <1>1, <1>3, <1>4 DEF Next

-----------------------------------------------------------------------------
(* Changes of active.json, and the readers. *)

\* What a writer's step does to active.json: nothing, or one of the two renames.
RotatesTo(v) ==
    /\ state' = [active |-> v, previous |-> state.active]
    /\ v \in Versions /\ v \notin published /\ published' = published \cup {v}

RollsBack ==
    /\ state' = [active |-> state.previous, previous |-> state.active]
    /\ state.previous # NoVersion /\ UNCHANGED published

LEMMA WriteShape ==
  ASSUME BasicInv, LockInv, FilesInv, NEW p \in Writers, Write(p)
  PROVE  \/ UNCHANGED <<state, published, overtaken>>
         \/ /\ RotatesTo(call[p].version) \/ RollsBack
            /\ \E next : Replace(p, next)
<1> USE DEF files, history
<1>0. StepOK(p) /\ WriterOK(p) /\ 1 .. made \subseteq Versions
  BY WriterFacts, MadeVersions DEF BasicInv
<1>1. CASE RenameState(p) /\ ~Refuse(p)
  <2>1. Publishing(p) /\ call[p].seen = state
    BY <1>0, <1>1 DEF RenameState, Publishing, StepOK, Deciding, At, Op
  <2>2. call[p].version \in 1 .. made /\ call[p].version \notin published
    BY <1>0, <2>1 DEF WriterOK, StepOK, Creating
  <2> QED
    BY <1>0, <1>1, <2>1, <2>2 DEF RenameState, Replace, RotatesTo
<1>2. CASE RenameBack(p) /\ ~Refuse(p)
  <2>1. At(p) = "rename" /\ Op(p) = "rollback"
    BY <1>2 DEF RenameBack, Op
  <2>2. call[p].seen = state /\ state.previous # NoVersion
    BY <1>0, <2>1 DEF StepOK, Deciding
  <2> QED
    BY <1>2, <2>2 DEF RenameBack, Replace, RollsBack
<1>3. ASSUME ~RenameState(p), ~RenameBack(p) PROVE UNCHANGED <<state, published, overtaken>>
  <2>1. Rotation(p) => UNCHANGED <<state, published, overtaken>>
    BY <1>3 DEF Rotation, ReadCurrent, ReadCurrentValue, CreateSecret, WriteSecret, CreateMeta,
       WriteMeta, Audit, Prune, RemoveSecret, RemoveMeta, Refuse
  <2> QED
    BY <1>3, <2>1 DEF Write, Call, TakeLock, StatLock, UnlinkStale, Release, ReleaseUnlink,
       ReadForRollback, ReadTarget, Crash, Refuse
<1> QED
  BY <1>1, <1>2, <1>3 DEF Refuse

LEMMA ReaderInit == Init => ReaderInv
<1> SUFFICES ASSUME Init PROVE ReaderInv
  OBVIOUS
<1> QED
  BY InitRests DEF ReaderInv

LEMMA WriteReaders ==
  ASSUME BasicInv, LockInv, FilesInv, ReaderInv, NEW p \in Writers, Write(p)
  PROVE  ReaderInv'
<1>1. \A q \in Readers : call'[q] = call[q] /\ overtaken[q] \in 0 .. 2
  <2>1. Others(p)
    <3>1. p \in Processes /\ call \in [Processes -> Calls]
      BY Assumptions DEF BasicInv, Types
    <3> QED
      BY <3>1 DEF Others, Write, Rotation, Call, TakeLock, StatLock, UnlinkStale, Retry, Release,
         ReleaseUnlink, ReadCurrent, ReadCurrentValue, CreateSecret, WriteSecret, CreateMeta,
         WriteMeta, RenameState, Replace, Audit, Prune, PruneNext, RemoveSecret, RemoveMeta,
         ReadForRollback, ReadTarget, RenameBack, Crash, Goto, Answer, Refuse
  <2> QED
    BY <2>1, Assumptions DEF Others, BasicInv, Types
<1>2. CASE UNCHANGED <<state, published, overtaken>>
  BY <1>1, <1>2 DEF ReaderInv, At
<1>3. CASE (RotatesTo(call[p].version) \/ RollsBack) /\ \E next : Replace(p, next)
  <2>1. state'.previous = state.active
    BY <1>3 DEF RotatesTo, RollsBack
  <2>2. ASSUME NEW q \in Readers
        PROVE  /\ overtaken'[q] # 0 /\ (overtaken'[q] = 1 => overtaken[q] = 0)
               /\ (overtaken[q] = 2 => overtaken'[q] = 2)
    BY <1>1, <1>3 DEF Replace
  <2> QED
    BY <1>1, <2>1, <2>2 DEF ReaderInv, At
<1> QED
  BY <1>2, <1>3, WriteShape

\* Only a version that is neither active nor previous any more can be gone.
LEMMA ReadReaders ==
  ASSUME BasicInv, LockInv, FilesInv, ReaderInv, NEW p \in Readers, Read(p)
  PROVE  ReaderInv'
<1> DEFINE OK(q) ==
        /\ At(q) \in {"read-state", "read-meta", "read-value"} => call[q].answer = "none"
        /\ At(q) \in {"read-meta", "read-value"} =>
              /\ call[q].seen.active # NoVersion
              /\ overtaken[q] = 0 => call[q].seen.active = state.active
              /\ overtaken[q] = 1 => call[q].seen.active = state.previous
        /\ call[q].answer = "lost" => overtaken[q] = 2
<1>0. /\ p \in Processes /\ Types /\ call[p] \in Calls /\ state \in States
      /\ overtaken[p] \in 0 .. 2 /\ OK(p)
  BY Assumptions DEF BasicInv, Types, ReaderInv
<1>1. /\ Others(p) /\ UNCHANGED <<made, files, lock, published, wrote>>
      /\ \A q \in Readers \ {p} : overtaken'[q] = overtaken[q]
  BY ReadBasic
<1>2. ASSUME NEW q \in Readers \ {p} PROVE OK(q)'
  <2>1. call'[q] = call[q] /\ overtaken'[q] = overtaken[q] /\ state' = state /\ OK(q)
    BY <1>1, Assumptions DEF Others, files, ReaderInv
  <2> QED
    BY <2>1 DEF At
<1>3. OK(p)'
  <2>1. CASE Get(p)
    <3>1. call'[p].at = "read-state" /\ call'[p].answer = "none"
      BY <1>0, <2>1 DEF Get, Types, Idle
    <3> QED
      BY <3>1 DEF At
  <2>2. CASE GetState(p)
    <3>1. At(p) = "read-state" /\ call[p].answer = "none"
      BY <1>0, <2>2 DEF GetState
    <3>2. overtaken'[p] = 0 /\ state' = state
      BY <1>0, <2>2 DEF GetState, Types, files
    <3>3. CASE state.active = NoVersion
      <4>1. call' = [call EXCEPT ![p] = [call[p] EXCEPT !.at = "idle", !.answer = "missing"]]
        BY <2>2, <3>3 DEF GetState
      <4>2. call'[p].at = "idle" /\ call'[p].answer = "missing"
        BY <1>0, <4>1 DEF Types, Calls
      <4> QED
        BY <4>2 DEF At
    <3>4. CASE state.active # NoVersion
      <4>1. call' = [call EXCEPT ![p] = [call[p] EXCEPT !.at = "read-meta", !.seen = state]]
        BY <2>2, <3>4 DEF GetState
      <4>2. call'[p].at = "read-meta" /\ call'[p].answer = "none" /\ call'[p].seen = state
        BY <1>0, <3>1, <4>1 DEF Types, Calls
      <4> QED
        BY <3>2, <3>4, <4>2 DEF At
    <3> QED
      BY <3>3, <3>4
  <2>3. ASSUME NEW step \in {"read-meta", "read-value"}, NEW at \in {"read-value", "idle"},
               NEW answer \in {"none", "served"}, NEW file \in [Versions -> FileStates],
               at = "read-value" => answer = "none",
               \A v \in Named : file[v] = "whole",
               GetFile(p, step, file, [at |-> at, answer |-> answer])
        PROVE  OK(p)'
    <3>1. At(p) = step /\ overtaken' = overtaken /\ state' = state
      BY <2>3 DEF GetFile, files, history
    <3>2. CASE file[call[p].seen.active] = "whole"
      <4>1. call' = [call EXCEPT ![p] = [call[p] EXCEPT !.at = at, !.answer = answer]]
        BY <2>3, <3>2 DEF GetFile
      <4>2. call'[p].at = at /\ call'[p].answer = answer /\ call'[p].seen = call[p].seen
        BY <1>0, <4>1 DEF Types, Calls
      <4> QED
        BY <1>0, <2>3, <3>1, <4>2 DEF At
    <3>3. CASE file[call[p].seen.active] # "whole"
      <4>1. call' = [call EXCEPT ![p] = [call[p] EXCEPT !.at = "idle", !.answer = "lost"]]
        BY <2>3, <3>3 DEF GetFile
      <4>2. call'[p].at = "idle" /\ call'[p].answer = "lost"
        BY <1>0, <4>1 DEF Types, Calls
      <4>3. call[p].seen.active \notin Named /\ call[p].seen.active # NoVersion
        BY <1>0, <2>3, <3>1, <3>3
      <4>4. overtaken[p] = 2
        BY <1>0, <3>1, <4>3 DEF Named
      <4> QED
        BY <3>1, <4>2, <4>4 DEF At
    <3> QED
      BY <3>2, <3>3
  <2>4. /\ secret \in [Versions -> FileStates] /\ meta \in [Versions -> FileStates]
        /\ \A v \in Named : secret[v] = "whole" /\ meta[v] = "whole"
    BY DEF BasicInv, Types, FilesInv, NamedWhole, Named
  <2> QED
    BY <2>1, <2>2, <2>3, <2>4 DEF Read, GetMeta, GetValue
<1> QED
  BY <1>2, <1>3 DEF ReaderInv
LEMMA ReaderStep ==
  ASSUME BasicInv, LockInv, FilesInv, ReaderInv, [Next]_vars
  PROVE  ReaderInv'
<1>1. CASE LockAges \/ UNCHANGED vars
  BY <1>1 DEF LockAges, vars, files, history, ReaderInv, At
<1> QED
  BY <1>1, WriteReaders, ReadReaders DEF Next

-----------------------------------------------------------------------------
(* The theorems about the work under the lock. *)

LEMMA IInvInit == Init => IInv
  BY BasicInit, LockInit, FilesInit, ReaderInit DEF IInv, WorkInv, BasicInv, FilesInv

LEMMA IInvStep == IInv /\ [Next]_vars => IInv'
<1> SUFFICES ASSUME IInv, [Next]_vars PROVE IInv'
  OBVIOUS
<1>1. BasicInv /\ BasicInv'
  BY BasicStep DEF IInv, BasicInv
<1>2. ASSUME ~robbed' PROVE WorkInv'
  <2>1. LockInv /\ FilesInv /\ ReaderInv
    BY <1>2, RobbedStays DEF IInv, WorkInv, FilesInv
  <2> QED
    BY <1>1, <1>2, <2>1, LockStep, FilesStep, ReaderStep DEF WorkInv, FilesInv
<1> QED
  BY <1>1, <1>2 DEF IInv, BasicInv

LEMMA Invariance == Spec => []IInv
  BY IInvInit, IInvStep, PTL DEF Spec

\* active.json and its rollback target always name versions whose files are complete,
\* at every crash and under every prune, while no lock has been stolen (writeAtomic,
\* prune).
THEOREM NamedCorrect == Spec => []NamedVersionsWhole
<1>1. IInv => NamedVersionsWhole
  BY DEF IInv, WorkInv, NamedVersionsWhole
<1> QED
  BY <1>1, Invariance, PTL

\* get loses a version only if active.json has changed twice since it was read, while
\* no lock has been stolen (get, prune).
THEOREM ReadersCorrect == Spec => []ReaderOvertaken
<1>1. IInv => ReaderOvertaken
  BY DEF IInv, WorkInv, ReaderInv, ReaderOvertaken
<1> QED
  BY <1>1, Invariance, PTL

\* A call replaces an active.json that no longer names the version its caller expects
\* only after a waiter has removed a lock that was still needed: with any number of
\* writers, crashes and stale locks (rotate, rollback, #acquireLock).
THEOREM SwapCorrect == Spec => SwapUnderLock
<1>1. ASSUME IInv, ~robbed, NEW p \in Writers, At(p) = "rename"
      PROVE  state.active = call[p].expected
  BY <1>1 DEF IInv, WorkInv, StepInv, StepOK, Deciding
<1>2. IInv => robbed \/ Swaps
  BY <1>1 DEF Swaps
<1> QED
  BY <1>2, Invariance, PTL DEF SwapUnderLock, Spec

\* Until a lock is stolen, the files are the compare-and-swap register of the interface:
\* every step is one of its operations, or changes nothing that it shows
\* (secret-store.ts).
THEOREM Refinement == Spec => ImplementsContract
<1>1. Init => Contract!Init
  BY DEF Init, Contract!Init, NoVersion
<1>2. IInv /\ [Next]_vars => [robbed \/ Contract!Next]_(Contract!cvars)
  <2> SUFFICES ASSUME IInv, [Next]_vars, ~robbed PROVE [Contract!Next]_(Contract!cvars)
    OBVIOUS
  <2>1. CASE UNCHANGED <<state, published>>
    BY <2>1 DEF Contract!cvars
  <2>2. ASSUME NEW v, RotatesTo(v) PROVE Contract!Next
    <3>1. v \in Versions /\ Contract!Rotate(v)
      BY <2>2 DEF RotatesTo, Contract!Rotate
    <3> QED
      BY <3>1 DEF Contract!Next
  <2>3. CASE RollsBack
    BY <2>3 DEF RollsBack, Contract!Next, Contract!Rollback, NoVersion
  <2>4. ASSUME NEW p \in Writers, Write(p)
        PROVE  \/ UNCHANGED <<state, published>>
               \/ RotatesTo(call[p].version) \/ RollsBack
    BY <2>4, WriteShape DEF IInv, WorkInv, BasicInv, FilesInv
  <2>5. ASSUME NEW p \in Readers, Read(p) PROVE UNCHANGED <<state, published>>
    BY <2>5, ReadBasic DEF IInv, BasicInv, files
  <2>6. CASE LockAges \/ UNCHANGED vars
    BY <2>1, <2>6 DEF LockAges, vars, files, history
  <2> QED
    BY <2>1, <2>2, <2>3, <2>4, <2>5, <2>6 DEF Next
<1> QED
  BY <1>1, <1>2, Invariance, PTL DEF Spec, ImplementsContract
=============================================================================
