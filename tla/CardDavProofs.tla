---------------------------- MODULE CardDavProofs ----------------------------
(***************************************************************************)
(* Proofs about CardDavPostgres for every set of clients, replicas, hrefs   *)
(* and cards, any number of retries, with connection failures and lost      *)
(* commit acknowledgements.                                                 *)
(*                                                                         *)
(* The argument: the row lock makes the holder the only transaction that    *)
(* can commit (LockInv), so what a transaction evaluated is still so when   *)
(* it commits (StagedInv); hence each commit is one operation of the        *)
(* contract.  The log invariant follows from the shape of a commit, and the *)
(* replicas' invariant from the log's.                                      *)
(***************************************************************************)
EXTENDS CardDavPostgres, TLAPS

-----------------------------------------------------------------------------
(* Types. *)

LEMMA EmptyBookType == Contract!EmptyBook \in Contract!Books /\ Contract!NoBook \in Contract!Books
  BY DEF Contract!EmptyBook, Contract!NoBook, Contract!Books, Contract!Contacts

LEMMA TypeInit == Init => TypeOK
<1> SUFFICES ASSUME Init PROVE TypeOK
  OBVIOUS
<1>1. book \in Contract!Books
  BY EmptyBookType DEF Init
<1>2. staged \in [Clients -> Writes] /\ attempt \in [Clients -> 0 .. RetryAttempts]
  BY RetryAssumption DEF Init, Writes, NoWrite
<1>3. view \in [Replicas -> Contract!Contacts]
  BY DEF Init, Contract!Contacts
<1>4. /\ lock \in Clients \cup {NoClient}
      /\ pc \in [Clients -> {"idle", "begin", "locked", "checked", "written", "replied"}]
      /\ req \in [Clients -> Issued \cup {NoRequest}]
      /\ \A c \in Clients : req[c] = NoRequest <=> pc[c] = "idle"
      /\ answer \in [Clients -> Answers] /\ commits \in [Clients -> Nat]
  BY DEF Init, Answers
<1>5. /\ rpc \in [Replicas -> {"idle", "row"}]
      /\ token \in [Replicas -> Nat \cup {NoToken}]
      /\ row \in [Replicas -> Nat]
      /\ incarnation \in Nat
      /\ tokenOf \in [Replicas -> Nat] /\ rowOf \in [Replicas -> Nat]
  BY DEF Init
<1> QED
  BY <1>1, <1>2, <1>3, <1>4, <1>5 DEF TypeOK

\* The types of the rows after a commit.
LEMMA CommittedType ==
  ASSUME book \in Contract!Books, NEW write \in Writes
  PROVE  Committed(write) \in Contract!Books
<1>1. CASE write.kind = "contact"
  <2>1. write.href \in Hrefs /\ write.card \in Cards \cup {NoCard} /\ write.revision \in Nat \ {0}
    BY <1>1 DEF Writes
  <2>2. [version |-> write.revision, href |-> write.href, etag |-> write.card] \in Contract!Changes
    BY <2>1 DEF Contract!Changes
  <2> QED
    BY <1>1, <2>1, <2>2 DEF Committed, Contract!Books, Contract!Contacts
<1>2. CASE write.kind \in {"none", "newBook", "dropBook"}
  BY <1>2 DEF Committed, Contract!Books, Contract!Contacts, Contract!EmptyBook, Contract!NoBook
<1> QED
  BY <1>1, <1>2 DEF Writes

LEMMA ThrowType ==
  ASSUME TypeOK, NEW c \in Clients, NEW error \in Errors, pc[c] # "idle", Throw(c, error)
  PROVE  TypeOK'
  BY RetryAssumption, NoClientAssumption
  DEF TypeOK, Throw, EndAttempt, Reply, ReleaseLock, NoWrite, Writes, Answers, replicaVars

LEMMA StageType ==
  ASSUME TypeOK, NEW c \in Clients, NEW write \in Writes, pc[c] # "idle",
         Stage(c, write), lock' \in Clients \cup {NoClient}
  PROVE  TypeOK'
  BY DEF TypeOK, Stage, replicaVars

LEMMA ContactWriteType ==
  ASSUME book \in Contract!Books, NEW href \in Hrefs, NEW card \in Cards \cup {NoCard}
  PROVE  ContactWrite(href, card) \in Writes
  BY DEF ContactWrite, Writes, Contract!Books

LEMMA RequestType ==
  ASSUME TypeOK, NEW c \in Clients, pc[c] # "idle"
  PROVE  /\ req[c] \in Contract!Requests
         /\ req[c].op \in {"createContact", "putContact", "deleteContact"} => req[c].href \in Hrefs
         /\ req[c].op \in {"createContact", "putContact"} => req[c].card \in Cards
  BY IssuedAssumption
  DEF TypeOK, Contract!Requests, Contract!ContactWrites, Contract!ContactDeletes,
      Contract!BookDeletes, Contract!BookCreates

LEMMA ClientTypeStep ==
  ASSUME TypeOK, NEW c \in Clients, ClientNext(c)
  PROVE  TypeOK'
<1>1. CASE Issue(c)
  BY <1>1, IssuedAssumption DEF Issue, TypeOK, replicaVars
<1>2. CASE RefuseUnconditional(c)
  BY <1>2 DEF RefuseUnconditional, Reply, Errors, Answers, TypeOK, replicaVars
<1>3. CASE LockAddressBook(c)
  <2>1. CASE Throw(c, "ADDRESS_BOOK_NOT_FOUND")
    BY <1>3, <2>1, ThrowType DEF LockAddressBook, Errors
  <2>2. CASE ~Throw(c, "ADDRESS_BOOK_NOT_FOUND")
    BY <1>3, <2>2 DEF LockAddressBook, TypeOK, replicaVars
  <2> QED
    BY <2>1, <2>2
<1>4. CASE Execute(c)
  <2>1. pc[c] # "idle"
    BY <1>4 DEF Execute, InsertContact, UpdateContact, RefuseContactWrite, DeleteContact,
                DeleteAddressBook, Locked
  <2>2. CASE \E error \in Errors : Throw(c, error)
    BY <2>1, <2>2, ThrowType
  <2>3. CASE \E write \in Writes : Stage(c, write) /\ lock' = lock
    BY <2>1, <2>3, StageType DEF TypeOK
  <2>4. CASE InsertContact(c)
    BY <2>1, <2>2, <2>3, <2>4, RequestType, ContactWriteType
    DEF InsertContact, Locked, TypeOK, Errors
  <2>5. CASE UpdateContact(c)
    <3>1. NoWrite \in Writes
      BY DEF NoWrite, Writes
    <3> QED
      BY <2>1, <2>2, <2>3, <2>5, <3>1, RequestType, ContactWriteType
      DEF UpdateContact, Locked, TypeOK, Errors
  <2>6. CASE RefuseContactWrite(c)
    BY <2>1, <2>2, <2>6 DEF RefuseContactWrite, IfMatchError, Errors
  <2>7. CASE DeleteContact(c)
    BY <2>1, <2>2, <2>3, <2>7, RequestType, ContactWriteType
    DEF DeleteContact, Locked, TypeOK, IfMatchError, Errors
  <2>8. CASE DeleteAddressBook(c)
    BY <2>1, <2>2, <2>3, <2>8 DEF DeleteAddressBook, IfMatchError, Errors, Writes
  <2> QED
    BY <1>4, <2>4, <2>5, <2>6, <2>7, <2>8 DEF Execute
<1>5. CASE CheckNoAddressBook(c)
  <2>1. CASE Throw(c, "ADDRESS_BOOK_EXISTS")
    BY <1>5, <2>1, ThrowType DEF CheckNoAddressBook, Errors
  <2>2. CASE ~Throw(c, "ADDRESS_BOOK_EXISTS")
    BY <1>5, <2>2 DEF CheckNoAddressBook, TypeOK, replicaVars
  <2> QED
    BY <2>1, <2>2
<1>6. CASE InsertAddressBook(c)
  <2>1. [kind |-> "newBook"] \in Writes
    BY DEF Writes
  <2> QED
    BY <1>6, <2>1, ThrowType, StageType DEF InsertAddressBook, Errors
<1>7. CASE CommitRows(c) /\ ReleaseLock(c) /\ staged' = [staged EXCEPT ![c] = NoWrite]
           /\ attempt' \in [Clients -> 0 .. RetryAttempts]
           /\ answer' \in [Clients -> Answers]
           /\ pc' \in {[pc EXCEPT ![c] = "begin"], [pc EXCEPT ![c] = "replied"]}
  <2>1. book' \in Contract!Books
    BY <1>7, CommittedType DEF TypeOK, CommitRows
  <2>2. staged' \in [Clients -> Writes]
    BY <1>7 DEF TypeOK, NoWrite, Writes
  <2>3. /\ lock' \in Clients \cup {NoClient}
        /\ commits' \in [Clients -> Nat]
        /\ incarnation' \in Nat
    BY <1>7 DEF TypeOK, CommitRows, ReleaseLock
  <2>4. /\ pc' \in [Clients -> {"idle", "begin", "locked", "checked", "written", "replied"}]
        /\ \A d \in Clients : req'[d] = NoRequest <=> pc'[d] = "idle"
    BY <1>7 DEF TypeOK, CommitRows
  <2> QED
    BY <1>7, <2>1, <2>2, <2>3, <2>4 DEF TypeOK, CommitRows, replicaVars
<1>8. CASE Commit(c)
  BY <1>7, <1>8 DEF Commit, Reply, TypeOK, Answers
<1>9. CASE CommitUnacknowledged(c)
  BY <1>7, <1>9, RetryAssumption
  DEF CommitUnacknowledged, EndAttempt, Reply, TypeOK, Answers, Errors
<1>10. CASE ConnectionFails(c)
  BY <1>10, ThrowType DEF ConnectionFails, Errors
<1>11. CASE Return(c)
  BY <1>11, RetryAssumption DEF Return, TypeOK, Answers, replicaVars
<1> QED
  BY <1>1, <1>2, <1>3, <1>4, <1>5, <1>6, <1>8, <1>9, <1>10, <1>11 DEF ClientNext

-----------------------------------------------------------------------------
(* The row lock, and what a transaction that has written knows. *)

LockInv ==
    /\ \A c \in Clients : pc[c] \in {"locked", "written"} => lock = c
    /\ \A c \in Clients : pc[c] = "locked" => book.exists
    /\ \A c \in Clients : pc[c] = "checked" => req[c].op = "createAddressBook"

\* The preconditions a transaction evaluated still hold, and its write is the
\* one they call for.
CreateStaged(c) ==
    /\ req[c].op = "createAddressBook" /\ ~book.exists
    /\ staged[c] = [kind |-> "newBook"]

DropStaged(c) ==
    /\ req[c].op = "deleteAddressBook" /\ book.exists
    /\ Matches(req[c].ifMatch, book.revision)
    /\ staged[c] = [kind |-> "dropBook"]

InsertStaged(c) ==
    /\ req[c].op \in {"createContact", "putContact"} /\ book.exists
    /\ Existing(c) = NoCard /\ req[c].ifNoneMatch /\ ~UidClash(Uid(c), Hrefs)
    /\ staged[c] = ContactWrite(req[c].href, req[c].card)

UpdateStaged(c) ==
    /\ req[c].op = "putContact" /\ book.exists
    /\ Existing(c) # NoCard /\ ~req[c].ifNoneMatch /\ Matches(req[c].ifMatch, Existing(c))
    /\ Uid(c) = UidOf[Existing(c)] /\ ~UidClash(Uid(c), Hrefs \ {req[c].href})
    /\ staged[c] = IF req[c].card = Existing(c) THEN NoWrite
                   ELSE ContactWrite(req[c].href, req[c].card)

DeleteStaged(c) ==
    /\ req[c].op = "deleteContact" /\ book.exists
    /\ Existing(c) # NoCard /\ Matches(req[c].ifMatch, Existing(c))
    /\ staged[c] = ContactWrite(req[c].href, NoCard)

StagedOK(c) == \/ CreateStaged(c) \/ DropStaged(c) \/ InsertStaged(c)
               \/ UpdateStaged(c) \/ DeleteStaged(c)

StagedInv == \A c \in Clients : pc[c] = "written" => StagedOK(c)

LEMMA LockInit == Init => LockInv /\ StagedInv
  BY DEF Init, LockInv, StagedInv

\* The address book changes only when the lock holder commits.
LEMMA BookStep ==
  ASSUME TypeOK, LockInv, [Next]_vars
  PROVE  \/ book' = book /\ incarnation' = incarnation
         \/ \E c \in Clients : pc[c] = "written" /\ lock = c /\ CommitRows(c)
<1>1. ASSUME NEW c \in Clients, CommitRows(c)
      PROVE  pc[c] = "written" /\ lock = c
  BY <1>1 DEF CommitRows, LockInv
<1>2. ASSUME NEW c \in Clients, ClientNext(c)
      PROVE  (book' = book /\ incarnation' = incarnation) \/ CommitRows(c)
  BY <1>2 DEF ClientNext, Issue, RefuseUnconditional, LockAddressBook, Execute, InsertContact,
    UpdateContact, RefuseContactWrite, DeleteContact, DeleteAddressBook, CheckNoAddressBook,
    InsertAddressBook, Commit, CommitUnacknowledged, ConnectionFails, Return, Throw, Stage
<1>3. ASSUME NEW r \in Replicas, ReplicaNext(r)
      PROVE  book' = book /\ incarnation' = incarnation
  BY <1>3 DEF ReplicaNext, SyncReadRow, SyncList, SyncChanges, SyncFails
<1>4. CASE UNCHANGED vars
  BY <1>4 DEF vars
<1> QED
  BY <1>1, <1>2, <1>3, <1>4 DEF Next

\* A step of client c leaves another client's transaction alone.
LEMMA OthersUntouched ==
  ASSUME TypeOK, NEW c \in Clients, ClientNext(c), NEW d \in Clients, d # c
  PROVE  pc'[d] = pc[d] /\ req'[d] = req[d] /\ staged'[d] = staged[d]
  BY DEF TypeOK, ClientNext, Issue, RefuseUnconditional, LockAddressBook, Execute, InsertContact,
    UpdateContact, RefuseContactWrite, DeleteContact, DeleteAddressBook, CheckNoAddressBook,
    InsertAddressBook, Commit, CommitUnacknowledged, ConnectionFails, Return, Throw, Stage,
    CommitRows, EndAttempt, Reply

\* The client that takes a step: it either gives its transaction up, or holds
\* the lock and has written what it evaluated.
LEMMA OwnStep ==
  ASSUME TypeOK, LockInv, StagedInv, NEW c \in Clients, ClientNext(c)
  PROVE  /\ pc'[c] \in {"locked", "written"} => lock' = c /\ book' = book
         /\ pc'[c] = "locked" => book.exists
         /\ pc'[c] = "checked" => req'[c].op = "createAddressBook"
         /\ pc'[c] = "written" => StagedOK(c)'
         /\ lock' = lock \/ lock = NoClient \/ (lock = c /\ lock' = NoClient)
<1>1. CASE Issue(c) \/ RefuseUnconditional(c) \/ Return(c)
  BY <1>1 DEF Issue, RefuseUnconditional, Return, Reply, TypeOK
<1>2. ASSUME NEW error, Throw(c, error)
      PROVE  /\ pc'[c] \notin {"locked", "checked", "written"}
             /\ lock' = lock \/ (lock = c /\ lock' = NoClient)
  BY <1>2 DEF Throw, EndAttempt, Reply, ReleaseLock, TypeOK
<1>3. CASE LockAddressBook(c)
  BY <1>2, <1>3 DEF LockAddressBook, TypeOK
<1>4. ASSUME NEW write, Stage(c, write)
      PROVE  pc'[c] = "written" /\ staged'[c] = write /\ book' = book /\ req' = req
  BY <1>4 DEF Stage, TypeOK
<1>5. CASE InsertContact(c)
  BY <1>2, <1>4, <1>5 DEF InsertContact, Locked, LockInv, StagedOK, InsertStaged, Existing, Uid,
    UidClash, ContactWrite
<1>6. CASE UpdateContact(c)
  BY <1>2, <1>4, <1>6 DEF UpdateContact, Locked, LockInv, StagedOK, UpdateStaged, Existing, Uid,
    UidClash, ContactWrite
<1>7. CASE RefuseContactWrite(c)
  BY <1>2, <1>7 DEF RefuseContactWrite
<1>8. CASE DeleteContact(c)
  BY <1>2, <1>4, <1>8 DEF DeleteContact, Locked, LockInv, StagedOK, DeleteStaged, Existing,
    ContactWrite
<1>9. CASE DeleteAddressBook(c)
  BY <1>2, <1>4, <1>9 DEF DeleteAddressBook, Locked, LockInv, StagedOK, DropStaged
<1>10. CASE CheckNoAddressBook(c)
  BY <1>2, <1>10 DEF CheckNoAddressBook, TypeOK
<1>11. CASE InsertAddressBook(c)
  <2>1. req[c].op = "createAddressBook"
    BY <1>11 DEF InsertAddressBook, LockInv
  <2> QED
    BY <1>2, <1>4, <1>11, <2>1 DEF InsertAddressBook, StagedOK, CreateStaged
<1>12. CASE Commit(c) \/ CommitUnacknowledged(c)
  BY <1>12 DEF Commit, CommitUnacknowledged, EndAttempt, Reply, ReleaseLock, TypeOK
<1>13. CASE ConnectionFails(c)
  BY <1>2, <1>13 DEF ConnectionFails
<1> QED
  BY <1>1, <1>3, <1>5, <1>6, <1>7, <1>8, <1>9, <1>10, <1>11, <1>12, <1>13
  DEF ClientNext, Execute

\* LockInv and StagedInv are preserved: nobody disturbs the holder's rows.
LEMMA LockStep ==
  ASSUME TypeOK, LockInv, StagedInv, [Next]_vars
  PROVE  LockInv' /\ StagedInv'
<1>1. ASSUME NEW c \in Clients, ClientNext(c)
      PROVE  LockInv' /\ StagedInv'
  <2>1. ASSUME NEW d \in Clients, d # c, pc'[d] \in {"locked", "written"}
        PROVE  lock' = d /\ lock = d /\ book' = book
    <3>1. pc[d] = pc'[d] /\ lock = d
      BY <1>1, <2>1, OthersUntouched DEF LockInv
    <3>2. lock' = d
      BY <1>1, <2>1, <3>1, OwnStep, NoClientAssumption
    <3>3. \A e \in Clients : pc[e] = "written" /\ lock = e => e = d
      BY <3>1
    <3>4. ~CommitRows(c)
      BY <2>1, <3>1 DEF CommitRows, LockInv
    <3>5. book' = book
      BY <1>1, <3>4 DEF ClientNext, Issue, RefuseUnconditional, LockAddressBook, Execute,
        InsertContact, UpdateContact, RefuseContactWrite, DeleteContact, DeleteAddressBook,
        CheckNoAddressBook, InsertAddressBook, Commit, CommitUnacknowledged, ConnectionFails,
        Return, Throw, Stage
    <3> QED
      BY <3>1, <3>2, <3>5
  <2>2. ASSUME NEW d \in Clients, d # c, pc'[d] = "written"
        PROVE  StagedOK(d)'
    <3>1. /\ book' = book /\ pc[d] = "written"
          /\ req'[d] = req[d] /\ staged'[d] = staged[d]
      BY <1>1, <2>1, <2>2, OthersUntouched
    <3>2. StagedOK(d)
      BY <3>1 DEF StagedInv
    <3> QED
      BY <3>1, <3>2 DEF StagedOK, CreateStaged, DropStaged, InsertStaged, UpdateStaged,
        DeleteStaged, Existing, Uid, UidClash, ContactWrite
  <2>3. \A d \in Clients : d # c =>
            /\ pc'[d] = "locked" => book'.exists
            /\ pc'[d] = "checked" => req'[d].op = "createAddressBook"
    BY <1>1, <2>1, OthersUntouched DEF LockInv
  <2>4. LockInv'
    BY <1>1, <2>1, <2>3, OwnStep DEF LockInv
  <2>5. StagedInv'
    BY <1>1, <2>2, OwnStep DEF StagedInv
  <2> QED
    BY <2>4, <2>5
<1>2. CASE UNCHANGED <<book, lock, pc, req, staged>>
  BY <1>2 DEF LockInv, StagedInv, StagedOK, CreateStaged, DropStaged, InsertStaged, UpdateStaged,
    DeleteStaged, Existing, Uid, UidClash, ContactWrite
<1>3. ASSUME NEW r \in Replicas, ReplicaNext(r)
      PROVE  UNCHANGED <<book, lock, pc, req, staged>>
  BY <1>3 DEF ReplicaNext, SyncReadRow, SyncList, SyncChanges, SyncFails, clientVars
<1>4. CASE UNCHANGED vars
  BY <1>2, <1>4 DEF vars, clientVars
<1> QED
  BY <1>1, <1>2, <1>3, <1>4 DEF Next

-----------------------------------------------------------------------------
(* The change log. *)

\* The last change of an href, said without CHOOSE.
LastChange(href, ch) ==
    ch \in Later(0, href) /\ \A other \in Later(0, href) : other.version <= ch.version

LogInv ==
    /\ \A ch \in book.changes : ch.version \in 1 .. book.revision
    /\ \A v \in 1 .. book.revision : \E ch \in book.changes : ch.version = v
    /\ \A ch, other \in book.changes : ch.version = other.version => ch = other
    /\ \A h \in Hrefs :
         \/ Later(0, h) = {} /\ book.contacts[h] = NoCard
         \/ \E ch \in book.changes : LastChange(h, ch) /\ book.contacts[h] = ch.etag

LEMMA EmptyLog ==
  ASSUME book \in {Contract!EmptyBook, Contract!NoBook}
  PROVE  LogInv
  BY DEF Contract!EmptyBook, Contract!NoBook, LogInv, Later, LastChange

LEMMA LogStep ==
  ASSUME TypeOK, LockInv, StagedInv, LogInv, [Next]_vars
  PROVE  LogInv'
<1>1. CASE book' = book
  BY <1>1 DEF LogInv, Later, LastChange
<1>2. ASSUME NEW c \in Clients, pc[c] = "written", CommitRows(c)
      PROVE  LogInv'
  <2>1. CASE staged[c] \in {[kind |-> "newBook"], [kind |-> "dropBook"]}
    <3>1. book' \in {Contract!EmptyBook, Contract!NoBook}
      BY <1>2, <2>1 DEF CommitRows, Committed
    <3> QED
      BY <3>1 DEF Contract!EmptyBook, Contract!NoBook, LogInv, Later, LastChange
  <2>2. CASE staged[c] = NoWrite
    BY <1>1, <1>2, <2>2 DEF CommitRows, Committed, NoWrite
  <2>3. ASSUME NEW href \in Hrefs, NEW card \in Cards \cup {NoCard},
               staged[c] = ContactWrite(href, card)
        PROVE  LogInv'
    <3>a. PICK n : n = book.revision + 1
      OBVIOUS
    <3>b. PICK new : new = [version |-> n, href |-> href, etag |-> card]
      OBVIOUS
    <3>0. /\ book \in Contract!Books
          /\ \A ch \in book.changes : ch \in Contract!Changes
      BY DEF TypeOK, Contract!Books
    <3>1. book' = [book EXCEPT !.revision = n, !.contacts[href] = card,
                               !.changes = @ \cup {new}]
      BY <1>2, <2>3, <3>a, <3>b DEF CommitRows, Committed, ContactWrite
    <3>2. /\ book'.revision = n
          /\ book'.changes = book.changes \cup {new}
          /\ book'.contacts[href] = card
          /\ \A h \in Hrefs \ {href} : book'.contacts[h] = book.contacts[h]
      BY <3>0, <3>1 DEF Contract!Books, Contract!Contacts
    <3>3. /\ n \in Nat \ {0} /\ new.version = n /\ new.href = href /\ new.etag = card
          /\ \A ch \in book.changes : ch.version \in Nat \ {0} /\ ch.version < n
      BY <3>0, <3>a, <3>b DEF Contract!Books, Contract!Changes, LogInv
    <3>4. \A ch \in book'.changes : ch.version \in 1 .. book'.revision
      BY <3>2, <3>3
    <3>5. \A v \in 1 .. book'.revision : \E ch \in book'.changes : ch.version = v
      <4> SUFFICES ASSUME NEW v \in 1 .. n PROVE \E ch \in book'.changes : ch.version = v
        BY <3>2
      <4>1. CASE v = n
        BY <4>1, <3>2, <3>3
      <4>2. CASE v # n
        <5>1. v \in 1 .. book.revision
          BY <4>2, <3>0, <3>a DEF Contract!Books
        <5> QED
          BY <5>1, <3>2 DEF LogInv
      <4> QED
        BY <4>1, <4>2
    <3>6. \A ch, other \in book'.changes : ch.version = other.version => ch = other
      BY <3>2, <3>3 DEF LogInv
    <3>7. \A h \in Hrefs :
            \/ Later(0, h)' = {} /\ book'.contacts[h] = NoCard
            \/ \E ch \in book'.changes : LastChange(h, ch)' /\ book'.contacts[h] = ch.etag
      <4>1. ASSUME NEW h \in Hrefs \ {href}
            PROVE  Later(0, h)' = Later(0, h)
        BY <3>2, <3>3 DEF Later
      <4>2. LastChange(href, new)'
        BY <3>2, <3>3 DEF LastChange, Later
      <4>3. ASSUME NEW h \in Hrefs \ {href}, NEW ch \in book.changes, LastChange(h, ch)
            PROVE  LastChange(h, ch)' /\ ch \in book'.changes
        BY <4>1, <4>3, <3>2 DEF LastChange
      <4>4. new \in book'.changes /\ new.etag = card
        BY <3>2, <3>3
      <4> QED
        BY <4>1, <4>2, <4>3, <4>4, <3>2 DEF LogInv
    <3> QED
      BY <3>4, <3>5, <3>6, <3>7 DEF LogInv
  <2>4. StagedOK(c) /\ pc[c] # "idle"
    BY <1>2 DEF StagedInv
  <2> QED
    BY <2>1, <2>2, <2>3, <2>4, RequestType
    DEF StagedOK, CreateStaged, DropStaged, InsertStaged, UpdateStaged, DeleteStaged
<1> QED
  BY <1>1, <1>2, BookStep

\* The last change past a token, if there is one, is what the table holds.
LEMMA ReplayCorrect ==
  ASSUME TypeOK, LogInv, NEW href \in Hrefs, NEW from \in Nat, Later(from, href) # {}
  PROVE  Latest(Later(from, href)).etag = book.contacts[href]
<1>1. \A ch \in book.changes : ch.version \in Nat \ {0}
  BY DEF TypeOK, Contract!Books, Contract!Changes
<1>2. Later(0, href) # {}
  BY <1>1 DEF Later
<1>3. PICK ch \in book.changes : LastChange(href, ch) /\ book.contacts[href] = ch.etag
  BY <1>2 DEF LogInv
<1>4. ch \in Later(from, href) /\ \A other \in Later(from, href) : other.version <= ch.version
  BY <1>1, <1>3 DEF LastChange, Later
<1>5. \A other \in Later(from, href) :
        (\A third \in Later(from, href) : third.version <= other.version) => other = ch
  BY <1>1, <1>4 DEF Later, LogInv
<1> QED
  BY <1>3, <1>4, <1>5 DEF Latest

LEMMA LogInvImpliesLogExplainsRows == TypeOK /\ LogInv => LogExplainsRows
<1> SUFFICES ASSUME TypeOK, LogInv PROVE LogExplainsRows
  OBVIOUS
<1>1. {ch.version : ch \in book.changes} = 1 .. book.revision
  BY DEF LogInv
<1>2. ASSUME NEW h \in Hrefs
      PROVE  book.contacts[h] = IF Later(0, h) = {} THEN NoCard ELSE Latest(Later(0, h)).etag
  <2>1. CASE Later(0, h) = {}
    BY <2>1 DEF LogInv, LastChange
  <2>2. CASE Later(0, h) # {}
    BY <2>2, ReplayCorrect
  <2> QED
    BY <2>1, <2>2
<1> QED
  BY <1>1, <1>2 DEF LogInv, LogExplainsRows

-----------------------------------------------------------------------------
(* UIDs. *)

LEMMA UidStep ==
  ASSUME TypeOK, LockInv, StagedInv, UidsUnique, [Next]_vars
  PROVE  UidsUnique'
<1>1. CASE book' = book
  BY <1>1 DEF UidsUnique
<1>2. ASSUME NEW c \in Clients, pc[c] = "written", CommitRows(c)
      PROVE  UidsUnique'
  <2>0. StagedOK(c) /\ pc[c] # "idle" /\ book \in Contract!Books
    BY <1>2 DEF StagedInv, TypeOK
  <2>1. CASE staged[c] \in {[kind |-> "newBook"], [kind |-> "dropBook"]}
    BY <1>2, <2>1 DEF CommitRows, Committed, Contract!EmptyBook, Contract!NoBook, UidsUnique
  <2>2. CASE staged[c] = NoWrite
    BY <1>1, <1>2, <2>2 DEF CommitRows, Committed, NoWrite
  <2>3. ASSUME NEW href \in Hrefs, NEW card \in Cards \cup {NoCard},
               staged[c] = ContactWrite(href, card),
               card = NoCard \/ ~UidClash(UidOf[card], Hrefs \ {href})
        PROVE  UidsUnique'
    <3>1. book' = Committed(ContactWrite(href, card))
      BY <1>2, <2>3 DEF CommitRows
    <3>2. /\ book'.contacts[href] = card
          /\ \A h \in Hrefs \ {href} : book'.contacts[h] = book.contacts[h]
      BY <2>0, <3>1 DEF Committed, ContactWrite, Contract!Books, Contract!Contacts
    <3> QED
      BY <2>3, <3>2 DEF UidsUnique, UidClash
  <2>4. CASE InsertStaged(c)
    BY <1>2, <2>0, <2>3, <2>4, RequestType DEF InsertStaged, UidClash, Uid
  <2>5. CASE UpdateStaged(c)
    BY <1>2, <2>0, <2>2, <2>3, <2>5, RequestType DEF UpdateStaged, Uid
  <2>6. CASE DeleteStaged(c)
    BY <1>2, <2>0, <2>3, <2>6, RequestType DEF DeleteStaged
  <2> QED
    BY <2>0, <2>1, <2>4, <2>5, <2>6 DEF StagedOK, CreateStaged, DropStaged
<1> QED
  BY <1>1, <1>2, BookStep

-----------------------------------------------------------------------------
(* Replicas. *)

\* SyncSound, with what it needs of a report whose first statement has run.
SyncInv ==
    /\ \A r \in Replicas : tokenOf[r] <= incarnation /\ rowOf[r] <= incarnation
    /\ \A r \in Replicas :
         rpc[r] = "row" /\ rowOf[r] = incarnation /\ book.exists => row[r] <= book.revision
    /\ SyncSound

LEMMA SyncInit == Init => SyncInv
  BY DEF Init, SyncInv, SyncSound

\* Types and soundness of what a report leaves with a replica.
LEMMA ReplicaStep ==
  ASSUME TypeOK, LogInv, SyncInv, incarnation \in Nat \ {0}, NEW r \in Replicas,
         ReplicaNext(r)
  PROVE  TypeOK' /\ SyncInv'
<1>0. ASSUME Reset(r), UNCHANGED <<row, rowOf, book, lock, clientVars, incarnation>>
      PROVE  TypeOK' /\ SyncInv'
  <2>1. TypeOK'
    <3>1. view' \in [Replicas -> Contract!Contacts]
      BY <1>0 DEF Reset, TypeOK, Contract!Contacts
    <3> QED
      BY <1>0, <3>1 DEF Reset, TypeOK, clientVars
  <2>2. \A q \in Replicas :
          /\ q = r => rpc'[q] = "idle" /\ token'[q] = NoToken /\ tokenOf'[q] = 0
          /\ q # r => /\ rpc'[q] = rpc[q] /\ token'[q] = token[q] /\ view'[q] = view[q]
                     /\ tokenOf'[q] = tokenOf[q]
    BY <1>0 DEF Reset, TypeOK
  <2>3. SyncSound'
    BY <1>0, <2>2 DEF SyncInv, SyncSound, Later
  <2>4. 0 <= incarnation
    OBVIOUS
  <2> QED
    BY <1>0, <2>1, <2>2, <2>3, <2>4 DEF SyncInv
<1>1. CASE SyncReadRow(r)
  <2>1. CASE ~book.exists
    BY <1>0, <1>1, <2>1 DEF SyncReadRow
  <2>2. CASE book.exists
    <3>1. book.revision \in Nat
      BY DEF TypeOK, Contract!Books
    <3>2. TypeOK'
      BY <1>1, <2>2, <3>1 DEF SyncReadRow, TypeOK, clientVars
    <3>3. /\ UNCHANGED <<book, incarnation, token, view, tokenOf>>
          /\ rowOf' = [rowOf EXCEPT ![r] = incarnation]
          /\ row' = [row EXCEPT ![r] = book.revision]
      BY <1>1, <2>2 DEF SyncReadRow
    <3>4. SyncSound'
      BY <3>3 DEF SyncInv, SyncSound, Later
    <3>5. \A q \in Replicas : tokenOf'[q] <= incarnation' /\ rowOf'[q] <= incarnation'
      BY <3>3 DEF SyncInv, TypeOK
    <3>6. \A q \in Replicas :
            rpc'[q] = "row" /\ rowOf'[q] = incarnation' /\ book'.exists => row'[q] <= book'.revision
      BY <1>1, <2>2, <3>1, <3>3 DEF SyncReadRow, SyncInv, TypeOK
    <3> QED
      BY <3>2, <3>4, <3>5, <3>6 DEF SyncInv
  <2> QED
    BY <2>1, <2>2
<1>2. ASSUME NEW contents \in Contract!Contacts, NEW origin \in {0, incarnation},
             Install(r, contents, origin), UNCHANGED <<book, lock, clientVars, incarnation>>,
             origin = incarnation /\ book.exists =>
               /\ row[r] <= book.revision
               /\ \A h \in Hrefs : Later(row[r], h) = {} => contents[h] = book.contacts[h]
      PROVE  TypeOK' /\ SyncInv'
  <2>1. TypeOK'
    BY <1>2 DEF Install, TypeOK, clientVars
  <2>2. /\ \A q \in Replicas : tokenOf'[q] <= incarnation' /\ rowOf'[q] <= incarnation'
        /\ \A q \in Replicas : rpc'[q] = "row" /\ rowOf'[q] = incarnation' /\ book'.exists
             => row'[q] <= book'.revision
    BY <1>2 DEF Install, TypeOK, SyncInv
  <2>3. ASSUME NEW q \in Replicas, token'[q] # NoToken, tokenOf'[q] = incarnation', book'.exists
        PROVE  /\ token'[q] <= book'.revision
               /\ \A h \in Hrefs : Later(token[q], h)' = {} => view'[q][h] = book'.contacts[h]
    BY <1>2, <2>3 DEF Install, TypeOK, SyncInv, SyncSound, Later
  <2> QED
    BY <2>1, <2>2, <2>3 DEF SyncInv, SyncSound
<1>3. CASE SyncList(r)
  <2>1. book.contacts \in Contract!Contacts
    BY DEF TypeOK, Contract!Books
  <2>2. rowOf[r] = incarnation /\ book.exists => row[r] <= book.revision
    BY <1>3 DEF SyncList, SyncInv
  <2>3. CASE rowOf[r] = incarnation
    <3>1. Install(r, book.contacts, incarnation)
      BY <1>3, <2>3 DEF SyncList
    <3> QED
      BY <1>2, <1>3, <2>1, <2>2, <2>3, <3>1 DEF SyncList
  <2>4. CASE rowOf[r] # incarnation
    <3>1. Install(r, book.contacts, 0)
      BY <1>3, <2>4 DEF SyncList
    <3> QED
      BY <1>2, <1>3, <2>1, <3>1 DEF SyncList
  <2> QED
    BY <2>3, <2>4
<1>4. CASE SyncChanges(r)
  <2>1. CASE token[r] > row[r]
    BY <1>0, <1>4, <2>1 DEF SyncChanges, TypeOK
  <2>2. CASE token[r] <= row[r]
    <3> DEFINE contents == Replayed(view[r], token[r])
    <3>0. token[r] \in Nat /\ view[r] \in Contract!Contacts /\ row[r] \in Nat
      BY <1>4 DEF SyncChanges, TypeOK
    <3>1. \A h \in Hrefs : Later(token[r], h) # {} => contents[h] = book.contacts[h]
      BY <3>0, ReplayCorrect DEF Replayed
    <3>2. \A h \in Hrefs : Later(token[r], h) = {} => contents[h] = view[r][h]
      BY DEF Replayed
    <3>3. contents \in Contract!Contacts
      BY <3>0, <3>1, <3>2 DEF Replayed, TypeOK, Contract!Books, Contract!Contacts
    <3>4. ASSUME tokenOf[r] = incarnation, rowOf[r] = incarnation, book.exists
          PROVE  /\ row[r] <= book.revision
                 /\ \A h \in Hrefs : contents[h] = book.contacts[h]
      BY <1>4, <3>1, <3>2, <3>4 DEF SyncChanges, SyncInv, SyncSound
    <3> HIDE DEF contents
    <3>5. Install(r, contents, IF tokenOf[r] = incarnation /\ rowOf[r] = incarnation
                               THEN incarnation ELSE 0)
      BY <1>4, <2>2, <3>0 DEF SyncChanges, contents, TypeOK
    <3> QED
      BY <1>2, <1>4, <3>3, <3>4, <3>5 DEF SyncChanges
  <2> QED
    BY <1>4, <2>1, <2>2 DEF SyncChanges
<1>5. CASE SyncFails(r)
  BY <1>5 DEF SyncFails, TypeOK, SyncInv, SyncSound, clientVars, Later
<1> QED
  BY <1>1, <1>3, <1>4, <1>5 DEF ReplicaNext

\* A commit extends the log past every token, or starts another incarnation.
LEMMA ClientSyncStep ==
  ASSUME TypeOK, LockInv, StagedInv, LogInv, SyncInv, UNCHANGED replicaVars,
         [Next]_vars
  PROVE  SyncInv'
<1>1. CASE book' = book /\ incarnation' = incarnation
  BY <1>1 DEF SyncInv, SyncSound, Later, replicaVars
<1>2. ASSUME NEW c \in Clients, pc[c] = "written", CommitRows(c)
      PROVE  SyncInv'
  <2>0. StagedOK(c) /\ pc[c] # "idle" /\ incarnation \in Nat /\ book \in Contract!Books
    BY <1>2 DEF StagedInv, TypeOK
  <2>1. CASE staged[c] = [kind |-> "newBook"]
    <3>1. incarnation' = incarnation + 1
      BY <1>2, <2>1 DEF CommitRows
    <3>2. \A r \in Replicas :
            /\ tokenOf'[r] < incarnation' /\ tokenOf'[r] \in Nat
            /\ rowOf'[r] < incarnation' /\ rowOf'[r] \in Nat
      BY <2>0, <3>1 DEF SyncInv, TypeOK, replicaVars
    <3> QED
      BY <2>0, <3>1, <3>2 DEF SyncInv, SyncSound
  <2>2. CASE staged[c] = [kind |-> "dropBook"]
    <3>1. ~book'.exists /\ incarnation' = incarnation
      BY <1>2, <2>2 DEF CommitRows, Committed, Contract!NoBook
    <3> QED
      BY <3>1 DEF SyncInv, SyncSound, replicaVars
  <2>3. CASE staged[c] = NoWrite
    BY <1>1, <1>2, <2>3 DEF CommitRows, Committed, NoWrite
  <2>4. ASSUME NEW href \in Hrefs, NEW card \in Cards \cup {NoCard},
               staged[c] = ContactWrite(href, card), book.exists
        PROVE  SyncInv'
    <3>1. book' = Committed(ContactWrite(href, card)) /\ incarnation' = incarnation
      BY <1>2, <2>4 DEF CommitRows, ContactWrite
    <3>2. /\ book'.exists /\ book'.revision = book.revision + 1 /\ book.revision \in Nat
          /\ book'.changes = book.changes \cup
               {[version |-> book.revision + 1, href |-> href, etag |-> card]}
          /\ \A h \in Hrefs \ {href} : book'.contacts[h] = book.contacts[h]
      BY <2>0, <2>4, <3>1 DEF Committed, ContactWrite, Contract!Books, Contract!Contacts
    <3>3. ASSUME NEW r \in Replicas, token'[r] # NoToken, tokenOf'[r] = incarnation',
                 NEW h \in Hrefs, Later(token[r], h)' = {}
          PROVE  view'[r][h] = book'.contacts[h]
      <4>1. token'[r] = token[r] /\ token[r] \in Nat /\ token[r] <= book.revision
        BY <2>4, <3>1, <3>3 DEF SyncInv, SyncSound, TypeOK, replicaVars
      <4>2. h # href
        <5>1. PICK new : new = [version |-> book.revision + 1, href |-> href, etag |-> card]
          OBVIOUS
        <5>2. new \in book'.changes /\ new.version > token'[r] /\ new.href = href
          BY <3>2, <4>1, <5>1
        <5> QED
          BY <3>3, <5>2 DEF Later
      <4>3. Later(token[r], h) = {}
        BY <3>2, <3>3, <4>1 DEF Later
      <4> QED
        BY <2>4, <3>1, <3>2, <3>3, <4>2, <4>3 DEF SyncInv, SyncSound, replicaVars
    <3>4. \A r \in Replicas : token'[r] # NoToken /\ tokenOf'[r] = incarnation'
            => token'[r] <= book'.revision
      BY <2>4, <3>1, <3>2 DEF SyncInv, SyncSound, TypeOK, replicaVars
    <3>5. \A r \in Replicas : rpc'[r] = "row" /\ rowOf'[r] = incarnation'
            => row'[r] <= book'.revision
      BY <2>4, <3>1, <3>2 DEF SyncInv, TypeOK, replicaVars
    <3>6. \A r \in Replicas : tokenOf'[r] <= incarnation' /\ rowOf'[r] <= incarnation'
      BY <3>1 DEF SyncInv, replicaVars
    <3> QED
      BY <3>3, <3>4, <3>5, <3>6 DEF SyncInv, SyncSound
  <2> QED
    BY <2>0, <2>1, <2>2, <2>3, <2>4, RequestType
    DEF StagedOK, CreateStaged, DropStaged, InsertStaged, UpdateStaged, DeleteStaged
<1> QED
  BY <1>1, <1>2, BookStep

-----------------------------------------------------------------------------
(* The inductive invariant and the theorems. *)

IInv ==
    /\ TypeOK
    /\ LockInv
    /\ StagedInv
    /\ LogInv
    /\ UidsUnique
    /\ SyncInv
    /\ incarnation # 0

LEMMA IInvInit == Init => IInv
<1> SUFFICES ASSUME Init PROVE IInv
  OBVIOUS
<1>1. LogInv
  BY EmptyLog DEF Init
<1>2. UidsUnique
  BY DEF Init, UidsUnique, Contract!EmptyBook, Contract!NoBook
<1>3. incarnation # 0
  BY DEF Init
<1> QED
  BY <1>1, <1>2, <1>3, TypeInit, LockInit, SyncInit DEF IInv

LEMMA IInvStep == IInv /\ [Next]_vars => IInv'
<1> SUFFICES ASSUME IInv, [Next]_vars PROVE IInv'
  OBVIOUS
<1>1. LockInv' /\ StagedInv' /\ LogInv' /\ UidsUnique'
  BY LockStep, LogStep, UidStep DEF IInv
<1>2. incarnation \in Nat \ {0}
  BY DEF IInv, TypeOK
<1>3. incarnation' # 0
  BY <1>2, BookStep DEF IInv, CommitRows
<1>4. ASSUME NEW c \in Clients, ClientNext(c)
      PROVE  TypeOK' /\ SyncInv'
  <2>1. UNCHANGED replicaVars
    BY <1>4 DEF ClientNext, Issue, RefuseUnconditional, LockAddressBook, Execute, InsertContact,
      UpdateContact, RefuseContactWrite, DeleteContact, DeleteAddressBook, CheckNoAddressBook,
      InsertAddressBook, Commit, CommitUnacknowledged, ConnectionFails, Return, Throw, Stage,
      CommitRows
  <2> QED
    BY <1>4, <2>1, ClientTypeStep, ClientSyncStep DEF IInv
<1>5. ASSUME NEW r \in Replicas, ReplicaNext(r)
      PROVE  TypeOK' /\ SyncInv'
  BY <1>2, <1>5, ReplicaStep DEF IInv
<1>6. ASSUME UNCHANGED vars
      PROVE  TypeOK' /\ SyncInv'
  <2>1. TypeOK'
    BY <1>6 DEF IInv, TypeOK, vars, clientVars, replicaVars
  <2>2. SyncInv'
    BY <1>6, ClientSyncStep DEF IInv, vars
  <2> QED
    BY <2>1, <2>2
<1>7. TypeOK' /\ SyncInv'
  BY <1>4, <1>5, <1>6 DEF Next
<1> QED
  BY <1>1, <1>3, <1>7 DEF IInv

LEMMA Invariance == Spec => []IInv
  BY IInvInit, IInvStep, PTL DEF Spec

\* Every variable holds a value of its type, under faults and retries.
THEOREM TypeCorrect == Spec => []TypeOK
<1>1. IInv => TypeOK
  BY DEF IInv
<1> QED
  BY <1>1, Invariance, PTL

\* dav_contact_changes is gapless up to dav_address_books.revision, and its last
\* row for an href says what dav_contacts holds for it.
THEOREM LogCorrect == Spec => []LogExplainsRows
<1>1. IInv => LogExplainsRows
  BY LogInvImpliesLogExplainsRows DEF IInv
<1> QED
  BY <1>1, Invariance, PTL

\* No two contacts of an address book share a vCard UID (VCARD_UID_EXISTS).
THEOREM UidsCorrect == Spec => []UidsUnique
<1>1. IInv => UidsUnique
  BY DEF IInv
<1> QED
  BY <1>1, Invariance, PTL

\* A sync token of this incarnation never hides a change: syncCollection's two
\* statements may be separated by any number of commits.
THEOREM SyncCorrect == Spec => []SyncSound
<1>1. IInv => SyncSound
  BY DEF IInv, SyncInv
<1> QED
  BY <1>1, Invariance, PTL

-----------------------------------------------------------------------------
(* Every commit is an operation of the contract. *)

LEMMA ClashIsTaken ==
  /\ \A uid : UidClash(uid, Hrefs) <=> Contract!UidTaken(book, uid)
  /\ \A uid, href : UidClash(uid, Hrefs \ {href}) <=> Contract!UidTakenElsewhere(book, uid, href)
  BY DEF UidClash, Contract!UidTaken, Contract!UidTakenElsewhere

LEMMA MatchesIsOk ==
  ASSUME AnyEtag # Absent, NEW current, current # Absent, NEW ifMatch, Matches(ifMatch, current)
  PROVE  Contract!IfMatchVerdict(ifMatch, current) = "ok"
  BY DEF Matches, Contract!IfMatchVerdict

\* What a transaction has staged is what the contract does in the committed state.
LEMMA StagedIsContract ==
  ASSUME TypeOK, NEW c \in Clients, pc[c] = "written", StagedOK(c)
  PROVE  /\ Contract!Verdict(book, req[c]) = "ok"
         /\ Committed(staged[c]) = Contract!Effect(book, req[c])
<1>0. book \in Contract!Books /\ req[c] \in Contract!Requests
  BY RequestType DEF TypeOK
<1>1. CASE CreateStaged(c)
  BY <1>1 DEF CreateStaged, Contract!Verdict, Contract!CreateBookVerdict, Contract!Effect, Committed
<1>2. CASE DropStaged(c)
  <2>1. Contract!IfMatchVerdict(req[c].ifMatch, book.revision) = "ok"
    BY <1>0, <1>2, MatchesIsOk, HeaderAssumption DEF DropStaged, Contract!Books
  <2> QED
    BY <1>2, <2>1 DEF DropStaged, Contract!Verdict, Contract!DeleteBookVerdict, Contract!Effect,
      Committed
<1>3. ASSUME NEW href \in Hrefs, NEW card \in Cards \cup {NoCard}, book.exists
      PROVE  Committed(ContactWrite(href, card)) = Contract!Record(book, href, card)
  BY <1>0, <1>3 DEF Committed, ContactWrite, Contract!Record, Contract!Books
<1>4. CASE InsertStaged(c)
  <2>1. req[c].href \in Hrefs /\ req[c].card \in Cards
    BY <1>4, RequestType DEF InsertStaged
  <2>2. Contract!Verdict(book, req[c]) = "ok"
    BY <1>4, ClashIsTaken
    DEF InsertStaged, Existing, Uid, Contract!Verdict, Contract!CreateVerdict, Contract!PutVerdict
  <2>3. Contract!Effect(book, req[c]) = Contract!Record(book, req[c].href, req[c].card)
    BY <1>4, <2>1, CardAssumption DEF InsertStaged, Existing, Contract!Effect
  <2> QED
    BY <1>3, <1>4, <2>1, <2>2, <2>3 DEF InsertStaged
<1>5. CASE UpdateStaged(c)
  <2>1. req[c].href \in Hrefs /\ req[c].card \in Cards
    BY <1>5, RequestType DEF UpdateStaged
  <2>2. Existing(c) \in Cards
    BY <1>0, <1>5, <2>1 DEF UpdateStaged, Existing, Contract!Books, Contract!Contacts
  <2>3. Contract!IfMatchVerdict(req[c].ifMatch, Existing(c)) = "ok"
    BY <1>5, <2>2, MatchesIsOk, HeaderAssumption DEF UpdateStaged
  <2>4. Contract!UpdateVerdict(book, req[c]) = "ok"
    BY <1>5, <2>3, ClashIsTaken DEF UpdateStaged, Existing, Uid, Contract!UpdateVerdict
  <2>5. Contract!Verdict(book, req[c]) = "ok"
    BY <1>5, <2>4 DEF UpdateStaged, Existing, Contract!Verdict, Contract!PutVerdict
  <2>6. CASE req[c].card = Existing(c)
    BY <1>5, <2>5, <2>6 DEF UpdateStaged, Existing, NoWrite, Committed, Contract!Effect
  <2>7. CASE req[c].card # Existing(c)
    BY <1>3, <1>5, <2>1, <2>5, <2>7 DEF UpdateStaged, Existing, Contract!Effect
  <2> QED
    BY <2>6, <2>7
<1>6. CASE DeleteStaged(c)
  <2>1. req[c].href \in Hrefs
    BY <1>6, RequestType DEF DeleteStaged
  <2>2. Existing(c) \in Cards
    BY <1>0, <1>6, <2>1 DEF DeleteStaged, Existing, Contract!Books, Contract!Contacts
  <2>3. Contract!Verdict(book, req[c]) = "ok"
    BY <1>6, <2>2, MatchesIsOk, HeaderAssumption
    DEF DeleteStaged, Existing, Contract!Verdict, Contract!DeleteVerdict
  <2> QED
    BY <1>3, <1>6, <2>1, <2>3 DEF DeleteStaged, Contract!Effect
<1> QED
  BY <1>1, <1>2, <1>4, <1>5, <1>6 DEF StagedOK

LEMMA BookRefinementStep ==
  ASSUME IInv, [Next]_vars
  PROVE  [Contract!BookNext]_book
<1>1. ASSUME NEW c \in Clients, pc[c] = "written", CommitRows(c)
      PROVE  Contract!BookNext
  <2>1. req[c] \in Issued
    BY <1>1 DEF IInv, TypeOK
  <2>2. StagedOK(c)
    BY <1>1 DEF IInv, StagedInv
  <2> QED
    BY <1>1, <2>1, <2>2, StagedIsContract DEF IInv, CommitRows, Contract!BookNext
<1> QED
  BY <1>1, BookStep DEF IInv

\* Concurrent transactions on one address book, with their retries, failures and
\* lost acknowledgements, change it as a sequence of the contract's operations.
THEOREM BookRefinement == Spec => ImplementsBook
<1>1. Init => Contract!BookInit
  BY DEF Init, Contract!BookInit
<1>2. IInv /\ [Next]_vars => [Contract!BookNext]_book
  BY BookRefinementStep
<1> QED
  BY <1>1, <1>2, Invariance, PTL DEF Spec, ImplementsBook, Contract!BookSpec

-----------------------------------------------------------------------------
(* No lost update. *)

LEMMA ContactCommit ==
  ASSUME book \in Contract!Books, NEW href \in Hrefs, NEW card
  PROVE  \A other \in Hrefs \ {href} :
           Committed(ContactWrite(href, card)).contacts[other] = book.contacts[other]
  BY DEF Committed, ContactWrite, Contract!Books, Contract!Contacts

LEMMA RowsStep ==
  ASSUME IInv, [Next]_vars
  PROVE  RowsChangeConditionally
<1> SUFFICES ASSUME NEW h \in Hrefs, book.exists, book'.exists,
                    book.contacts[h] # book'.contacts[h]
             PROVE  \E c \in Clients : PreconditionStillHolds(c, h)
  BY DEF RowsChangeConditionally
<1>1. PICK c \in Clients : pc[c] = "written" /\ CommitRows(c)
  BY BookStep DEF IInv
<1>2. StagedOK(c) /\ book \in Contract!Books /\ book' = Committed(staged[c])
  BY <1>1 DEF IInv, StagedInv, TypeOK, CommitRows
<1>3. ASSUME NEW href \in Hrefs, NEW card \in Cards \cup {NoCard},
             staged[c] = ContactWrite(href, card)
      PROVE  href = h
  <2>1. book' = Committed(ContactWrite(href, card))
    BY <1>2, <1>3
  <2> QED
    BY <1>2, <2>1, ContactCommit
<1>4. staged[c] # NoWrite /\ staged[c] # [kind |-> "dropBook"]
  BY <1>2 DEF Committed, NoWrite, Contract!NoBook
<1>5. InsertStaged(c) \/ UpdateStaged(c) \/ DeleteStaged(c)
  BY <1>2, <1>4 DEF StagedOK, CreateStaged, DropStaged
<1>6. /\ req[c].op \in {"createContact", "putContact", "deleteContact"}
      /\ req[c].href = h
  BY <1>1, <1>3, <1>4, <1>5, RequestType
  DEF IInv, InsertStaged, UpdateStaged, DeleteStaged
<1> QED
  BY <1>1, <1>5, <1>6
  DEF PreconditionStillHolds, InsertStaged, UpdateStaged, DeleteStaged, Existing, Matches

\* Whatever the interleaving and however often a transaction is retried, a stored
\* card is overwritten or deleted only under a precondition that names it.
THEOREM NoLostUpdateCorrect == Spec => NoLostUpdate
<1>1. IInv /\ [Next]_vars => [RowsChangeConditionally]_vars
  BY RowsStep
<1> QED
  BY <1>1, Invariance, PTL DEF Spec, NoLostUpdate
-----------------------------------------------------------------------------
(* What a caller is told. *)

\* Answered(c, error): the call of c ends with error and has changed nothing.
Answered(c, error) ==
    /\ pc[c] \notin {"idle", "replied"}
    /\ Reply(c, error)
    /\ UNCHANGED <<book, req, commits>>

\* The error is the contract's, or says that the store could not run the operation.
Truthful(c, error) ==
    error \in Errors /\ (Unconditional(req[c]) \/ error \in {Contract!Verdict(book, req[c]), "UNAVAILABLE"})

\* c goes on with its transaction, or begins another.
Continues(c) ==
    /\ pc[c] \notin {"idle", "replied"}
    /\ \E next \in {"begin", "locked", "checked", "written"} : pc' = [pc EXCEPT ![c] = next]
    /\ UNCHANGED <<book, req, answer, commits>>

LEMMA ThrowOutcome ==
  ASSUME NEW c \in Clients, NEW error, Truthful(c, error), Throw(c, error),
         pc[c] \notin {"idle", "replied"}
  PROVE  Continues(c) \/ \E e : Truthful(c, e) /\ Answered(c, e)
  BY DEF Throw, EndAttempt, Answered, Continues

LEMMA IfMatchRefused ==
  ASSUME NEW ifMatch, NEW current, ~Matches(ifMatch, current)
  PROVE  Contract!IfMatchVerdict(ifMatch, current) = IfMatchError(ifMatch)
         /\ IfMatchError(ifMatch) \in Errors
  BY DEF Matches, IfMatchError, Contract!IfMatchVerdict, Errors

\* What the transaction that holds the row refuses, the contract refuses.
LEMMA ExecuteOutcome ==
  ASSUME TypeOK, LockInv, NEW c \in Clients, Execute(c)
  PROVE  Continues(c) \/ \E e : Truthful(c, e) /\ Answered(c, e)
<1>0. pc[c] = "locked" /\ book.exists /\ book \in Contract!Books
  BY DEF Execute, InsertContact, UpdateContact, RefuseContactWrite, DeleteContact,
         DeleteAddressBook, Locked, LockInv, TypeOK
<1>1. ASSUME NEW error \in Errors, Throw(c, error),
             Unconditional(req[c]) \/ Contract!Verdict(book, req[c]) = error
      PROVE  Continues(c) \/ \E e : Truthful(c, e) /\ Answered(c, e)
  BY <1>0, <1>1, ThrowOutcome DEF Truthful
<1>2. ASSUME NEW write, Stage(c, write)
      PROVE  Continues(c)
  BY <1>0, <1>2 DEF Stage, Continues
<1>3. CASE InsertContact(c)
  <2>1. CASE UidClash(Uid(c), Hrefs) /\ Throw(c, "VCARD_UID_EXISTS")
    <3>1. Contract!CreateVerdict(book, req[c]) = "VCARD_UID_EXISTS"
      BY <1>0, <1>3, <2>1, ClashIsTaken DEF InsertContact, Contract!CreateVerdict, Existing, Uid
    <3>2. Contract!Verdict(book, req[c]) = "VCARD_UID_EXISTS"
      BY <1>0, <1>3, <3>1
      DEF InsertContact, Locked, Contract!Verdict, Contract!PutVerdict, Existing
    <3> QED
      BY <1>1, <2>1, <3>2 DEF Errors
  <2> QED
    BY <1>2, <1>3, <2>1 DEF InsertContact
<1>4. CASE UpdateContact(c)
  <2>1. req[c].href \in Hrefs /\ Existing(c) \in Cards /\ Existing(c) # Absent
    BY <1>0, <1>4, RequestType, HeaderAssumption
    DEF UpdateContact, Locked, Existing, Contract!Books, Contract!Contacts
  <2>2. /\ Contract!IfMatchVerdict(req[c].ifMatch, Existing(c)) = "ok"
        /\ Contract!Verdict(book, req[c]) = Contract!UpdateVerdict(book, req[c])
    BY <1>0, <1>4, <2>1, MatchesIsOk, HeaderAssumption
    DEF UpdateContact, Locked, Existing, Contract!Verdict, Contract!PutVerdict
  <2>3. CASE Uid(c) # UidOf[Existing(c)] /\ Throw(c, "VCARD_UID_IMMUTABLE")
    <3>1. Contract!Verdict(book, req[c]) = "VCARD_UID_IMMUTABLE"
      BY <1>4, <2>2, <2>3 DEF UpdateContact, Contract!UpdateVerdict, Existing, Uid
    <3> QED
      BY <1>1, <2>3, <3>1 DEF Errors
  <2>4. CASE /\ Uid(c) = UidOf[Existing(c)] /\ UidClash(Uid(c), Hrefs \ {req[c].href})
             /\ Throw(c, "VCARD_UID_EXISTS")
    <3>1. Contract!Verdict(book, req[c]) = "VCARD_UID_EXISTS"
      BY <1>4, <2>2, <2>4, ClashIsTaken
      DEF UpdateContact, Contract!UpdateVerdict, Existing, Uid
    <3> QED
      BY <1>1, <2>4, <3>1 DEF Errors
  <2> QED
    BY <1>2, <1>4, <2>3, <2>4 DEF UpdateContact
<1>5. CASE RefuseContactWrite(c)
  <2>1. CASE /\ Locked(c, {"createContact"}) /\ Existing(c) # NoCard
             /\ Throw(c, "CONTACT_EXISTS")
    <3>1. Unconditional(req[c]) \/ Contract!Verdict(book, req[c]) = "CONTACT_EXISTS"
      BY <1>0, <2>1
      DEF Locked, Unconditional, Existing, Contract!Verdict, Contract!CreateVerdict
    <3> QED
      BY <1>1, <2>1, <3>1 DEF Errors
  <2>2. CASE /\ Locked(c, {"putContact"}) /\ Existing(c) = NoCard /\ ~req[c].ifNoneMatch
             /\ Throw(c, "CONTACT_NOT_FOUND")
    <3>1. Contract!Verdict(book, req[c]) = "CONTACT_NOT_FOUND"
      BY <1>0, <2>2 DEF Locked, Existing, Contract!Verdict, Contract!PutVerdict
    <3> QED
      BY <1>1, <2>2, <3>1 DEF Errors
  <2>3. CASE /\ Locked(c, {"putContact"}) /\ Existing(c) # NoCard /\ req[c].ifNoneMatch
             /\ Throw(c, "PRECONDITION_FAILED")
    <3>1. Contract!Verdict(book, req[c]) = "PRECONDITION_FAILED"
      BY <1>0, <2>3
      DEF Locked, Existing, Contract!Verdict, Contract!PutVerdict, Contract!UpdateVerdict
    <3> QED
      BY <1>1, <2>3, <3>1 DEF Errors
  <2>4. CASE /\ Locked(c, {"putContact"}) /\ Existing(c) # NoCard /\ ~req[c].ifNoneMatch
             /\ ~Matches(req[c].ifMatch, Existing(c))
             /\ Throw(c, IfMatchError(req[c].ifMatch))
    <3>1. Contract!Verdict(book, req[c]) = IfMatchError(req[c].ifMatch)
      BY <1>0, <2>4, IfMatchRefused
      DEF Locked, Existing, Contract!Verdict, Contract!PutVerdict, Contract!UpdateVerdict, Errors,
          IfMatchError
    <3> QED
      BY <1>1, <2>4, <3>1, IfMatchRefused
  <2> QED
    BY <1>5, <2>1, <2>2, <2>3, <2>4 DEF RefuseContactWrite
<1>6. CASE DeleteContact(c)
  <2>1. CASE Existing(c) = NoCard /\ Throw(c, "CONTACT_NOT_FOUND")
    <3>1. Contract!Verdict(book, req[c]) = "CONTACT_NOT_FOUND"
      BY <1>0, <1>6, <2>1
      DEF DeleteContact, Locked, Existing, Contract!Verdict, Contract!DeleteVerdict
    <3> QED
      BY <1>1, <2>1, <3>1 DEF Errors
  <2>2. CASE /\ Existing(c) # NoCard /\ ~Matches(req[c].ifMatch, Existing(c))
             /\ Throw(c, IfMatchError(req[c].ifMatch))
    <3>1. Contract!Verdict(book, req[c]) = IfMatchError(req[c].ifMatch)
      BY <1>0, <1>6, <2>2, IfMatchRefused
      DEF DeleteContact, Locked, Existing, Contract!Verdict, Contract!DeleteVerdict
    <3> QED
      BY <1>1, <2>2, <3>1, IfMatchRefused
  <2> QED
    BY <1>2, <1>6, <2>1, <2>2 DEF DeleteContact
<1>7. CASE DeleteAddressBook(c)
  <2>1. CASE /\ ~Matches(req[c].ifMatch, book.revision)
             /\ Throw(c, IfMatchError(req[c].ifMatch))
    <3>1. Contract!Verdict(book, req[c]) = IfMatchError(req[c].ifMatch)
      BY <1>0, <1>7, <2>1, IfMatchRefused
      DEF DeleteAddressBook, Locked, Contract!Verdict, Contract!DeleteBookVerdict
    <3> QED
      BY <1>1, <2>1, <3>1, IfMatchRefused
  <2> QED
    BY <1>2, <1>7, <2>1 DEF DeleteAddressBook
<1> QED
  BY <1>3, <1>4, <1>5, <1>6, <1>7 DEF Execute

\* What a step of a client is for its caller: the call begins, goes on, ends with an
\* error, ends with a commit, or its answer is delivered.
Commits(c) == pc[c] = "written" /\ StagedOK(c) /\ CommitRows(c) /\ Reply(c, "ok")

LEMMA ClientOutcome ==
  ASSUME IInv, ~AckLoss, NEW c \in Clients, ClientNext(c)
  PROVE  \/ Issue(c) \/ Continues(c) \/ Commits(c) \/ Return(c)
         \/ \E error : Truthful(c, error) /\ Answered(c, error)
<1>0. TypeOK /\ LockInv /\ StagedInv
  BY DEF IInv
<1>1. CASE RefuseUnconditional(c)
  <2>1. Truthful(c, "PRECONDITION_REQUIRED") /\ Answered(c, "PRECONDITION_REQUIRED")
    BY <1>1 DEF RefuseUnconditional, Truthful, Answered, Errors
  <2> QED
    BY <2>1
<1>2. CASE LockAddressBook(c)
  <2>1. CASE ~book.exists /\ Throw(c, "ADDRESS_BOOK_NOT_FOUND")
    <3>1. Contract!Verdict(book, req[c]) = "ADDRESS_BOOK_NOT_FOUND"
      <4>1. req[c] \in Contract!Requests
        BY <1>0, <1>2, RequestType DEF LockAddressBook
      <4>2. req[c].op \in {"createContact", "putContact", "deleteContact", "deleteAddressBook"}
        BY <1>2, <4>1
        DEF LockAddressBook, Contract!Requests, Contract!ContactWrites, Contract!ContactDeletes,
            Contract!BookDeletes, Contract!BookCreates
      <4> QED
        BY <2>1, <4>2
        DEF Contract!Verdict, Contract!CreateVerdict, Contract!PutVerdict,
            Contract!DeleteVerdict, Contract!DeleteBookVerdict
    <3> QED
      BY <1>2, <2>1, <3>1, ThrowOutcome DEF LockAddressBook, Truthful, Errors
  <2> QED
    BY <1>2, <2>1 DEF LockAddressBook, Continues
<1>3. CASE CheckNoAddressBook(c)
  <2>1. CASE book.exists /\ Throw(c, "ADDRESS_BOOK_EXISTS")
    <3>1. Contract!Verdict(book, req[c]) = "ADDRESS_BOOK_EXISTS"
      BY <1>3, <2>1 DEF CheckNoAddressBook, Contract!Verdict, Contract!CreateBookVerdict
    <3> QED
      BY <1>3, <2>1, <3>1, ThrowOutcome DEF CheckNoAddressBook, Truthful, Errors
  <2> QED
    BY <1>3, <2>1 DEF CheckNoAddressBook, Continues
<1>4. Truthful(c, "UNAVAILABLE")
  BY DEF Truthful, Errors
<1>5. CASE InsertAddressBook(c)
  BY <1>4, <1>5, ThrowOutcome DEF InsertAddressBook, Stage, Continues
<1>6. CASE ConnectionFails(c)
  BY <1>4, <1>6, ThrowOutcome DEF ConnectionFails
<1>7. CASE Commit(c)
  BY <1>0, <1>7 DEF Commit, Commits, CommitRows, StagedInv
<1> QED
  BY <1>0, <1>1, <1>2, <1>3, <1>5, <1>6, <1>7, ExecuteOutcome
  DEF ClientNext, CommitUnacknowledged

\* The caller of a step is the only one it concerns.
LEMMA OthersTold ==
  ASSUME NEW c \in Clients, TypeOK, ClientNext(c), NEW d \in Clients, d # c
  PROVE  answer'[d] = answer[d] /\ commits'[d] = commits[d]
  BY DEF TypeOK, ClientNext, Issue, RefuseUnconditional, LockAddressBook, Execute, InsertContact,
    UpdateContact, RefuseContactWrite, DeleteContact, DeleteAddressBook, CheckNoAddressBook,
    InsertAddressBook, Commit, CommitUnacknowledged, ConnectionFails, Return, Throw, Stage,
    CommitRows, EndAttempt, Reply

\* A call that has not been answered has committed nothing; one that has been has
\* committed at most once, and only if the answer is "ok".
AnswerOK(c) ==
    /\ pc[c] # "replied" => commits[c] = 0
    /\ pc[c] = "replied" => /\ answer[c] # "none"
                            /\ commits[c] \in (IF answer[c] = "ok" THEN {0, 1} ELSE {0})

AnswerInv == \A c \in Clients : AnswerOK(c)

LEMMA AnswerStep ==
  ASSUME IInv, AnswerInv, ~AckLoss, [Next]_vars
  PROVE  AnswerInv'
<1>0. TypeOK
  BY DEF IInv
<1>1. ASSUME NEW c \in Clients, ClientNext(c)
      PROVE  AnswerInv'
  <2>1. ASSUME NEW d \in Clients, d # c
        PROVE  AnswerOK(d)'
    BY <1>0, <1>1, <2>1, OthersUntouched, OthersTold DEF AnswerInv, AnswerOK
  <2>2. AnswerOK(c)
    BY DEF AnswerInv
  <2>3. ASSUME Issue(c) PROVE AnswerOK(c)'
    BY <1>0, <2>2, <2>3 DEF Issue, AnswerOK, TypeOK
  <2>4. ASSUME Continues(c) PROVE AnswerOK(c)'
    BY <1>0, <2>2, <2>4 DEF Continues, AnswerOK, TypeOK
  <2>5. ASSUME Commits(c) PROVE AnswerOK(c)'
    BY <1>0, <2>2, <2>5 DEF Commits, CommitRows, Reply, AnswerOK, TypeOK
  <2>6. ASSUME Return(c) PROVE AnswerOK(c)'
    BY <1>0, <2>6 DEF Return, AnswerOK, TypeOK
  <2>7. ASSUME \E error : Truthful(c, error) /\ Answered(c, error) PROVE AnswerOK(c)'
    BY <1>0, <2>2, <2>7 DEF Truthful, Answered, Reply, AnswerOK, TypeOK, Errors
  <2>8. AnswerOK(c)'
    BY <1>1, <2>3, <2>4, <2>5, <2>6, <2>7, ClientOutcome
  <2> QED
    BY <2>1, <2>8 DEF AnswerInv
<1>2. ASSUME UNCHANGED clientVars
      PROVE  AnswerInv'
  BY <1>2 DEF AnswerInv, AnswerOK, clientVars
<1>3. (\E r \in Replicas : ReplicaNext(r)) \/ UNCHANGED vars => UNCHANGED clientVars
  BY DEF ReplicaNext, SyncReadRow, SyncList, SyncChanges, SyncFails, vars
<1> QED
  BY <1>1, <1>2, <1>3 DEF Next

LEMMA AnswerInvariance == ASSUME ~AckLoss PROVE Spec => [](IInv /\ AnswerInv)
<1>1. Init => AnswerInv
  BY DEF Init, AnswerInv, AnswerOK
<1>2. IInv /\ AnswerInv /\ [Next]_vars => AnswerInv'
  BY AnswerStep
<1> QED
  BY <1>1, <1>2, Invariance, PTL DEF Spec

\* As long as the answer to a COMMIT is not lost, a caller that gets an error has
\* changed nothing, and one that gets "ok" has changed the address book at most once
\* (withTenantTransaction, retry).
THEOREM AnswersCorrect == ASSUME ~AckLoss PROVE Spec => []AnswerTellsTheTruth
<1>1. AnswerInv => AnswerTellsTheTruth
  BY DEF AnswerInv, AnswerOK, AnswerTellsTheTruth
<1> QED
  BY <1>1, AnswerInvariance, PTL

-----------------------------------------------------------------------------
(* Every call is a call of the contract. *)

\* createContact is only called with If-None-Match: * (the DAV routes do not call it at
\* all).  Without it the adapter refuses before it has looked for the address book,
\* CardDavStore after.
Conditional == \A q \in Issued : ~Unconditional(q)

\* What the contract sees of c.
CallOf(c) == [req |-> req[c],
              answer |-> CASE pc[c] = "idle"    -> "none"
                           [] pc[c] = "replied" -> answer[c]
                           [] OTHER             -> "pending"]

\* A step of c replaces the contract's call of c by `next`.
LEMMA CallStep ==
  ASSUME TypeOK, NEW c \in Clients, ClientNext(c), NEW next, CallOf(c)' = next
  PROVE  call' = [call EXCEPT ![c] = next]
<1>1. call = [d \in Clients |-> CallOf(d)] /\ call' = [d \in Clients |-> CallOf(d)']
  BY DEF call, CallOf
<1>2. ASSUME NEW d \in Clients, d # c
      PROVE  CallOf(d)' = CallOf(d)
  BY <1>2, OthersUntouched, OthersTold DEF CallOf
<1> QED
  BY <1>1, <1>2

LEMMA CallRefinementStep ==
  ASSUME IInv, AnswerInv, ~AckLoss, Conditional, NEW c \in Clients, ClientNext(c)
  PROVE  [Contract!Next]_(Contract!vars)
<1>0. TypeOK /\ call[c] = CallOf(c) /\ call = [d \in Clients |-> CallOf(d)]
  BY DEF IInv, call, CallOf
<1>1. CASE Issue(c)
  <2>1. PICK q \in Issued : req' = [req EXCEPT ![c] = q]
    BY <1>1 DEF Issue
  <2>2. CallOf(c)' = [req |-> q, answer |-> "pending"]
    BY <1>0, <1>1, <2>1 DEF Issue, CallOf, TypeOK
  <2>3. CallOf(c) = Contract!IdleCall
    BY <1>0, <1>1 DEF Issue, CallOf, TypeOK, Contract!IdleCall
  <2>4. Contract!Issue(c)
    BY <1>0, <1>1, <2>2, <2>3, CallStep DEF Contract!Issue, Issue
  <2> QED
    BY <2>4 DEF Contract!Next
<1>2. CASE Continues(c)
  <2>1. CallOf(c)' = CallOf(c)
    BY <1>0, <1>2 DEF Continues, CallOf, TypeOK
  <2>2. call' = call
    BY <1>0, <2>1, CallStep
  <2> QED
    BY <1>2, <2>2 DEF Continues, Contract!vars
<1>3. ASSUME NEW verdict, Reply(c, verdict), pc[c] \notin {"idle", "replied"}, req' = req
      PROVE  Contract!Answer(c, verdict)
  <2>1. call[c].answer = "pending"
    BY <1>0, <1>3 DEF CallOf
  <2>2. CallOf(c)' = [call[c] EXCEPT !.answer = verdict]
    BY <1>0, <1>3 DEF Reply, CallOf, TypeOK
  <2> QED
    BY <1>0, <2>1, <2>2, CallStep DEF Contract!Answer
<1>4. call[c].req = req[c]
  BY <1>0 DEF CallOf
<1>5. CASE Commits(c)
  <2>1. /\ Contract!Verdict(book, req[c]) = "ok"
        /\ book' = Contract!Effect(book, req[c])
    BY <1>0, <1>5, StagedIsContract DEF Commits, CommitRows
  <2>2. Contract!Answer(c, "ok")
    BY <1>3, <1>5 DEF Commits, CommitRows
  <2>3. Contract!Perform(c)
    BY <1>4, <2>1, <2>2 DEF Contract!Perform
  <2> QED
    BY <2>3 DEF Contract!Next
<1>6. ASSUME NEW error, Truthful(c, error), Answered(c, error)
      PROVE  Contract!Next
  <2>1. Contract!Answer(c, error) /\ book' = book /\ error # "ok"
    BY <1>3, <1>6 DEF Answered, Truthful, Errors
  <2>2. ~Unconditional(req[c])
    BY <1>0, <1>6 DEF Conditional, Answered, TypeOK
  <2>3. CASE error = "UNAVAILABLE"
    BY <2>1, <2>3 DEF Contract!Unavailable, Contract!Next
  <2>4. CASE error = Contract!Verdict(book, req[c])
    <3>1. Contract!Perform(c)
      BY <1>4, <2>1, <2>4 DEF Contract!Perform
    <3> QED
      BY <3>1 DEF Contract!Next
  <2> QED
    BY <1>6, <2>2, <2>3, <2>4 DEF Truthful
<1>7. CASE Return(c)
  <2>1. call[c].answer \notin {"none", "pending"}
    BY <1>0, <1>7 DEF Return, CallOf, AnswerInv, AnswerOK, TypeOK, Answers, Errors
  <2>2. CallOf(c)' = Contract!IdleCall
    BY <1>0, <1>7 DEF Return, CallOf, TypeOK, Contract!IdleCall
  <2>3. Contract!Return(c)
    BY <1>0, <1>7, <2>1, <2>2, CallStep DEF Return, Contract!Return
  <2> QED
    BY <2>3 DEF Contract!Next
<1> QED
  BY <1>1, <1>2, <1>5, <1>6, <1>7, ClientOutcome

\* As long as the answer to a COMMIT is not lost, and for the requests the routes make,
\* concurrent calls with their retries and failures are calls of CardDavStore: each one
\* takes effect at one moment between its request and its answer, and is answered as
\* CardDavStore answers in the state of that moment, or told that the store failed.
THEOREM Refinement == ASSUME ~AckLoss, Conditional PROVE Spec => ImplementsContract
<1>1. Init => Contract!Init
  BY DEF Init, Contract!Init, Contract!IdleCall, call
<1>2. IInv /\ AnswerInv /\ [Next]_vars => [Contract!Next]_(Contract!vars)
  <2> SUFFICES ASSUME IInv, AnswerInv, [Next]_vars PROVE [Contract!Next]_(Contract!vars)
    OBVIOUS
  <2>1. (\E r \in Replicas : ReplicaNext(r)) \/ UNCHANGED vars => UNCHANGED Contract!vars
    BY DEF ReplicaNext, SyncReadRow, SyncList, SyncChanges, SyncFails, vars, clientVars, call,
           Contract!vars
  <2> QED
    BY <2>1, CallRefinementStep DEF Next
<1> QED
  BY <1>1, <1>2, AnswerInvariance, PTL DEF Spec, ImplementsContract, Contract!Spec
=============================================================================
