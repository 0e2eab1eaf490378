--------------------------- MODULE CardDavPostgres ---------------------------
(***************************************************************************)
(* The PostgreSQL CardDAV adapter                                           *)
(* (src/core/dav/carddav/postgres-carddav-store.ts) on the transaction      *)
(* plumbing of src/integrations/postgres-store.ts, for one address book.    *)
(*                                                                         *)
(* Concurrent callers each run one operation at a time.  An operation is a  *)
(* READ COMMITTED transaction: it locks the address book row (SELECT ...    *)
(* FOR UPDATE), evaluates its preconditions, writes, and commits; whatever  *)
(* goes wrong is rolled back and the whole transaction is run again, up to  *)
(* RetryAttempts more times.  Other transactions see the writes only after  *)
(* the commit, so they are staged until then.  createAddressBook takes no   *)
(* lock: it tests for the row and inserts, and the primary key decides.     *)
(*                                                                         *)
(* Replicas are sync clients.  syncCollection reads the address book row    *)
(* and then the change log, or the listing, in two statements without a     *)
(* lock; writers commit in between.                                         *)
(*                                                                         *)
(* History variables, which the code does not have, serve the properties:   *)
(* incarnation counts the address books that have been created under the    *)
(* same id, commits[c] the commits of c's current request, tokenOf[r] and   *)
(* rowOf[r] the incarnation a replica's token and last row come from.       *)
(***************************************************************************)
EXTENDS Integers, FiniteSets

CONSTANTS
    Clients, Hrefs, Cards, Uids, UidOf, NoCard, AnyEtag, Absent, NoRequest, Issued,
    Replicas,        \* sync clients
    NoClient,        \* the row lock is free
    NoToken,         \* a replica that has never synchronised, or has to start over
    RetryAttempts,   \* settings.retryAttempts
    Faults,          \* may a connection fail before the commit?
    AckLoss,         \* may the answer to a commit be lost?
    MaxRevision,     \* bound: no request is issued that could pass this revision
    MaxIncarnation   \* bound: no address book is created beyond this one

ASSUME UidAssumption == UidOf \in [Cards -> Uids]
ASSUME CardAssumption == NoCard \notin Cards /\ AnyEtag \notin Cards \cup {NoCard}
ASSUME HeaderAssumption == AnyEtag # Absent /\ Absent \notin Cards /\ Absent \notin Nat
ASSUME RetryAssumption == RetryAttempts \in Nat
ASSUME BoundAssumption == MaxRevision \in Nat /\ MaxIncarnation \in Nat
ASSUME SwitchAssumption == Faults \in BOOLEAN /\ AckLoss \in BOOLEAN
ASSUME NoClientAssumption == NoClient \notin Clients
ASSUME NoTokenAssumption == NoToken \notin Nat

VARIABLES
    book,            \* the committed rows of the address book
    lock,            \* the transaction that holds the address book row
    pc, req, attempt, staged, answer,      \* per client: its operation
    rpc, token, view, row,                 \* per replica: its report and its copy
    incarnation, commits, tokenOf, rowOf   \* history

clientVars == <<pc, req, attempt, staged, answer, commits>>
replicaVars == <<rpc, token, view, row, tokenOf, rowOf>>
vars == <<book, lock, clientVars, replicaVars, incarnation>>

\* `book` and a client's call, as the contract sees them.
call == [c \in Clients |->
           [req |-> req[c],
            answer |-> CASE pc[c] = "idle"    -> "none"
                         [] pc[c] = "replied" -> answer[c]
                         [] OTHER             -> "pending"]]

Contract == INSTANCE CardDavContract

ASSUME IssuedAssumption ==
    Issued \subseteq Contract!Requests /\ NoRequest \notin Contract!Requests

Writes == [kind : {"none", "dropBook", "newBook"}]
            \cup [kind : {"contact"}, href : Hrefs, card : Cards \cup {NoCard}, revision : Nat \ {0}]

NoWrite == [kind |-> "none"]

\* The codes of the CardDavErrors, and of any other error.
Errors == {"ADDRESS_BOOK_NOT_FOUND", "ADDRESS_BOOK_EXISTS", "CONTACT_NOT_FOUND",
           "CONTACT_EXISTS", "VCARD_UID_EXISTS", "VCARD_UID_IMMUTABLE",
           "PRECONDITION_REQUIRED", "PRECONDITION_FAILED", "ETAG_MISMATCH", "UNAVAILABLE"}

Answers == Errors \cup {"none", "ok"}
-----------------------------------------------------------------------------
Init ==
    /\ book = Contract!EmptyBook
    /\ lock = NoClient
    /\ pc = [c \in Clients |-> "idle"]
    /\ req = [c \in Clients |-> NoRequest]
    /\ attempt = [c \in Clients |-> 0]
    /\ staged = [c \in Clients |-> NoWrite]
    /\ answer = [c \in Clients |-> "none"]
    /\ commits = [c \in Clients |-> 0]
    /\ rpc = [r \in Replicas |-> "idle"]
    /\ token = [r \in Replicas |-> NoToken]
    /\ view = [r \in Replicas |-> [h \in Hrefs |-> NoCard]]
    /\ row = [r \in Replicas |-> 0]
    /\ incarnation = 1
    /\ tokenOf = [r \in Replicas |-> 0]
    /\ rowOf = [r \in Replicas |-> 0]

Active == {c \in Clients : pc[c] # "idle"}

\* A request reaches the adapter.  The bounds keep the run finite.
Issue(c) ==
    /\ pc[c] = "idle"
    /\ \E q \in Issued :
         /\ q.op \notin {"createAddressBook", "deleteAddressBook"} =>
                book.revision + Cardinality(Active) < MaxRevision
         /\ q.op = "createAddressBook" => incarnation < MaxIncarnation
         /\ req' = [req EXCEPT ![c] = q]
    /\ pc' = [pc EXCEPT ![c] = "begin"]
    /\ UNCHANGED <<book, lock, attempt, staged, answer, commits, replicaVars, incarnation>>

Reply(c, verdict) ==
    /\ pc' = [pc EXCEPT ![c] = "replied"]
    /\ answer' = [answer EXCEPT ![c] = verdict]

\* Mutant: the rollback is forgotten and the lock stays.
ReleaseLockNever(c) == lock' = lock

ReleaseLock(c) == lock' = IF lock = c THEN NoClient ELSE lock

\* Mutant: one attempt too many.
EndAttemptOffByOne(c, error) ==
    /\ staged' = [staged EXCEPT ![c] = NoWrite]
    /\ ReleaseLock(c)
    /\ IF attempt[c] <= RetryAttempts
       THEN /\ attempt' = [attempt EXCEPT ![c] = @ + 1]
            /\ pc' = [pc EXCEPT ![c] = "begin"]
            /\ UNCHANGED answer
       ELSE Reply(c, error) /\ UNCHANGED attempt

\* The callback, or a query, throws: ROLLBACK, then another attempt or the error.
EndAttempt(c, error) ==
    /\ staged' = [staged EXCEPT ![c] = NoWrite]
    /\ ReleaseLock(c)
    /\ IF attempt[c] < RetryAttempts
       THEN /\ attempt' = [attempt EXCEPT ![c] = @ + 1]
            /\ pc' = [pc EXCEPT ![c] = "begin"]
            /\ UNCHANGED answer
       ELSE Reply(c, error) /\ UNCHANGED attempt

Throw(c, error) ==
    /\ EndAttempt(c, error)
    /\ UNCHANGED <<book, req, commits, replicaVars, incarnation>>

Stage(c, write) ==
    /\ staged' = [staged EXCEPT ![c] = write]
    /\ pc' = [pc EXCEPT ![c] = "written"]
    /\ UNCHANGED <<book, req, attempt, answer, commits, replicaVars, incarnation>>
-----------------------------------------------------------------------------
(* Operations that lock the address book row. *)

\* createContact tests If-None-Match before it opens a transaction.
Unconditional(q) == q.op = "createContact" /\ ~q.ifNoneMatch

RefuseUnconditional(c) ==
    /\ pc[c] = "begin" /\ Unconditional(req[c])
    /\ Reply(c, "PRECONDITION_REQUIRED")
    /\ UNCHANGED <<book, lock, req, attempt, staged, commits, replicaVars, incarnation>>

\* Mutant: the row is read without FOR UPDATE.
LockAddressBookUnlocked(c) ==
    /\ pc[c] = "begin" /\ req[c].op # "createAddressBook" /\ ~Unconditional(req[c])
    /\ book.exists
    /\ pc' = [pc EXCEPT ![c] = "locked"]
    /\ UNCHANGED <<book, lock, req, attempt, staged, answer, commits, replicaVars, incarnation>>

\* getAddressBookRow(..., { forUpdate: true }): waits for the row, if there is one.
LockAddressBook(c) ==
    /\ pc[c] = "begin" /\ req[c].op # "createAddressBook"
    /\ ~Unconditional(req[c])
    /\ \/ /\ ~book.exists
          /\ Throw(c, "ADDRESS_BOOK_NOT_FOUND")
       \/ /\ book.exists /\ lock = NoClient
          /\ lock' = c
          /\ pc' = [pc EXCEPT ![c] = "locked"]
          /\ UNCHANGED <<book, req, attempt, staged, answer, commits, replicaVars, incarnation>>

Locked(c, ops) == pc[c] = "locked" /\ req[c].op \in ops

Existing(c) == book.contacts[req[c].href]
Uid(c) == UidOf[req[c].card]
UidClash(uid, hrefs) ==
    \E h \in hrefs : book.contacts[h] # NoCard /\ UidOf[book.contacts[h]] = uid

\* assertIfMatch
Matches(ifMatch, current) == ifMatch \in {AnyEtag, current}
IfMatchError(ifMatch) ==
    IF ifMatch = Absent THEN "PRECONDITION_REQUIRED" ELSE "ETAG_MISMATCH"

\* bumpAddressBookRevision: revision + 1, and the change row under that revision.
ContactWrite(href, card) ==
    [kind |-> "contact", href |-> href, card |-> card, revision |-> book.revision + 1]

InsertContact(c) ==
    /\ Locked(c, {"createContact", "putContact"})
    /\ Existing(c) = NoCard /\ req[c].ifNoneMatch
    /\ \/ UidClash(Uid(c), Hrefs) /\ Throw(c, "VCARD_UID_EXISTS")
       \/ /\ ~UidClash(Uid(c), Hrefs)
          /\ Stage(c, ContactWrite(req[c].href, req[c].card))
          /\ UNCHANGED lock

\* Mutant: a put of the stored card counts as a change.
UpdateContactAlways(c) ==
    /\ Locked(c, {"putContact"})
    /\ Existing(c) # NoCard /\ ~req[c].ifNoneMatch /\ Matches(req[c].ifMatch, Existing(c))
    /\ Uid(c) = UidOf[Existing(c)] /\ ~UidClash(Uid(c), Hrefs \ {req[c].href})
    /\ Stage(c, ContactWrite(req[c].href, req[c].card))
    /\ UNCHANGED lock

UpdateContact(c) ==
    /\ Locked(c, {"putContact"})
    /\ Existing(c) # NoCard /\ ~req[c].ifNoneMatch /\ Matches(req[c].ifMatch, Existing(c))
    /\ \/ Uid(c) # UidOf[Existing(c)] /\ Throw(c, "VCARD_UID_IMMUTABLE")
       \/ /\ Uid(c) = UidOf[Existing(c)]
          /\ UidClash(Uid(c), Hrefs \ {req[c].href}) /\ Throw(c, "VCARD_UID_EXISTS")
       \/ /\ Uid(c) = UidOf[Existing(c)]
          /\ ~UidClash(Uid(c), Hrefs \ {req[c].href})
          /\ Stage(c, IF req[c].card = Existing(c) THEN NoWrite
                      ELSE ContactWrite(req[c].href, req[c].card))
          /\ UNCHANGED lock

RefuseContactWrite(c) ==
    \/ /\ Locked(c, {"createContact"}) /\ Existing(c) # NoCard
       /\ Throw(c, "CONTACT_EXISTS")
    \/ /\ Locked(c, {"putContact"}) /\ Existing(c) = NoCard /\ ~req[c].ifNoneMatch
       /\ Throw(c, "CONTACT_NOT_FOUND")
    \/ /\ Locked(c, {"putContact"}) /\ Existing(c) # NoCard /\ req[c].ifNoneMatch
       /\ Throw(c, "PRECONDITION_FAILED")
    \/ /\ Locked(c, {"putContact"}) /\ Existing(c) # NoCard /\ ~req[c].ifNoneMatch
       /\ ~Matches(req[c].ifMatch, Existing(c))
       /\ Throw(c, IfMatchError(req[c].ifMatch))

DeleteContact(c) ==
    /\ Locked(c, {"deleteContact"})
    /\ \/ Existing(c) = NoCard /\ Throw(c, "CONTACT_NOT_FOUND")
       \/ /\ Existing(c) # NoCard /\ ~Matches(req[c].ifMatch, Existing(c))
          /\ Throw(c, IfMatchError(req[c].ifMatch))
       \/ /\ Existing(c) # NoCard /\ Matches(req[c].ifMatch, Existing(c))
          /\ Stage(c, ContactWrite(req[c].href, NoCard))
          /\ UNCHANGED lock

DeleteAddressBook(c) ==
    /\ Locked(c, {"deleteAddressBook"})
    /\ \/ /\ ~Matches(req[c].ifMatch, book.revision)
          /\ Throw(c, IfMatchError(req[c].ifMatch))
       \/ /\ Matches(req[c].ifMatch, book.revision)
          /\ Stage(c, [kind |-> "dropBook"])
          /\ UNCHANGED lock
-----------------------------------------------------------------------------
(* createAddressBook: SELECT 1, then INSERT, without a lock. *)

CheckNoAddressBook(c) ==
    /\ pc[c] = "begin" /\ req[c].op = "createAddressBook"
    /\ \/ book.exists /\ Throw(c, "ADDRESS_BOOK_EXISTS")
       \/ /\ ~book.exists
          /\ pc' = [pc EXCEPT ![c] = "checked"]
          /\ UNCHANGED <<book, lock, req, attempt, staged, answer, commits, replicaVars,
                         incarnation>>

\* The insertion waits for a transaction that is inserting or deleting the same
\* key, and is a unique violation once the row is there.
InsertAddressBook(c) ==
    /\ pc[c] = "checked" /\ lock = NoClient
    /\ \/ book.exists /\ Throw(c, "UNAVAILABLE")
       \/ ~book.exists /\ Stage(c, [kind |-> "newBook"]) /\ lock' = c
-----------------------------------------------------------------------------
(* The end of a transaction. *)

\* Mutant: a deletion leaves no change row.
CommittedWithoutTombstone(write) ==
    CASE write.kind = "none" -> book
      [] write.kind = "newBook" -> Contract!EmptyBook
      [] write.kind = "dropBook" -> Contract!NoBook
      [] write.kind = "contact" ->
           [book EXCEPT !.revision = write.revision,
                        !.contacts[write.href] = write.card,
                        !.changes = IF write.card = NoCard THEN @
                                    ELSE @ \cup {[version |-> write.revision,
                                                  href |-> write.href, etag |-> write.card]}]

\* Mutant: deleting the address book leaves its change rows.
CommittedWithoutCascade(write) ==
    IF write.kind = "dropBook" THEN [Contract!NoBook EXCEPT !.changes = book.changes]
    ELSE CommittedWithoutTombstone(write)

\* The rows once `write` is committed; deleting the book cascades.
Committed(write) ==
    CASE write.kind = "none" -> book
      [] write.kind = "newBook" -> Contract!EmptyBook
      [] write.kind = "dropBook" -> Contract!NoBook
      [] write.kind = "contact" ->
           [book EXCEPT !.revision = write.revision,
                        !.contacts[write.href] = write.card,
                        !.changes = @ \cup {[version |-> write.revision, href |-> write.href,
                                             etag |-> write.card]}]

CommitRows(c) ==
    /\ pc[c] = "written"
    /\ book' = Committed(staged[c])
    /\ incarnation' = IF staged[c].kind = "newBook" THEN incarnation + 1 ELSE incarnation
    /\ commits' = [commits EXCEPT ![c] = IF staged[c].kind = "none" THEN @ ELSE @ + 1]
    /\ UNCHANGED <<req, replicaVars>>

\* Mutant: an error after the commit also runs the transaction again.
CommitThenRetry(c) == CommitRows(c) /\ EndAttempt(c, "UNAVAILABLE")

Commit(c) ==
    /\ CommitRows(c)
    /\ ReleaseLock(c)
    /\ Reply(c, "ok")
    /\ staged' = [staged EXCEPT ![c] = NoWrite]
    /\ UNCHANGED attempt

\* The rows are committed, but the adapter only sees a broken connection: it
\* "rolls back" and runs the whole transaction again.
CommitUnacknowledged(c) ==
    /\ AckLoss
    /\ CommitRows(c)
    /\ EndAttempt(c, "UNAVAILABLE")

\* The connection fails before the commit.
ConnectionFails(c) ==
    /\ Faults
    /\ pc[c] \in {"begin", "locked", "checked", "written"} /\ ~Unconditional(req[c])
    /\ Throw(c, "UNAVAILABLE")

\* The HTTP answer goes out.
Return(c) ==
    /\ pc[c] = "replied"
    /\ pc' = [pc EXCEPT ![c] = "idle"]
    /\ req' = [req EXCEPT ![c] = NoRequest]
    /\ attempt' = [attempt EXCEPT ![c] = 0]
    /\ answer' = [answer EXCEPT ![c] = "none"]
    /\ commits' = [commits EXCEPT ![c] = 0]
    /\ UNCHANGED <<book, lock, staged, replicaVars, incarnation>>
-----------------------------------------------------------------------------
(* syncCollection, and the client that applies its answer. *)

Reset(r) ==
    /\ rpc' = [rpc EXCEPT ![r] = "idle"]
    /\ token' = [token EXCEPT ![r] = NoToken]
    /\ view' = [view EXCEPT ![r] = [h \in Hrefs |-> NoCard]]
    /\ tokenOf' = [tokenOf EXCEPT ![r] = 0]

\* First statement: the address book row.  A 404 makes the client drop its copy.
SyncReadRow(r) ==
    /\ rpc[r] = "idle"
    /\ \/ ~book.exists /\ Reset(r) /\ UNCHANGED <<row, rowOf>>
       \/ /\ book.exists
          /\ rpc' = [rpc EXCEPT ![r] = "row"]
          /\ row' = [row EXCEPT ![r] = book.revision]
          /\ rowOf' = [rowOf EXCEPT ![r] = incarnation]
          /\ UNCHANGED <<token, view, tokenOf>>
    /\ UNCHANGED <<book, lock, clientVars, incarnation>>

\* The client installs `contents` under the token of the row that was read.
Install(r, contents, origin) ==
    /\ rpc' = [rpc EXCEPT ![r] = "idle"]
    /\ view' = [view EXCEPT ![r] = contents]
    /\ token' = [token EXCEPT ![r] = row[r]]
    /\ tokenOf' = [tokenOf EXCEPT ![r] = origin]
    /\ UNCHANGED <<row, rowOf>>

\* Second statement without a token: the listing.
SyncList(r) ==
    /\ rpc[r] = "row" /\ token[r] = NoToken
    /\ Install(r, book.contacts, IF rowOf[r] = incarnation THEN incarnation ELSE 0)
    /\ UNCHANGED <<book, lock, clientVars, incarnation>>

\* The copy after the changes past `from` are applied in the order of their versions.
Later(from, href) == {ch \in book.changes : ch.version > from /\ ch.href = href}
Latest(changes) == CHOOSE ch \in changes : \A other \in changes : other.version <= ch.version

\* Mutant: the first change past the token is left out.
ReplayedOffByOne(contents, from) ==
    [h \in Hrefs |-> IF Later(from + 1, h) = {} THEN contents[h]
                     ELSE Latest(Later(from + 1, h)).etag]

Replayed(contents, from) ==
    [h \in Hrefs |-> IF Later(from, h) = {} THEN contents[h] ELSE Latest(Later(from, h)).etag]

\* Second statement with a token: the changes past it.
SyncChanges(r) ==
    /\ rpc[r] = "row" /\ token[r] # NoToken
    /\ \/ /\ token[r] > row[r]              \* SYNC_TOKEN_INVALID
          /\ Reset(r) /\ UNCHANGED <<row, rowOf>>
       \/ /\ token[r] <= row[r]
          /\ Install(r, Replayed(view[r], token[r]),
                     IF tokenOf[r] = incarnation /\ rowOf[r] = incarnation
                     THEN incarnation ELSE 0)
    /\ UNCHANGED <<book, lock, clientVars, incarnation>>

\* The report fails, or its answer is lost: the client keeps what it has.
SyncFails(r) ==
    /\ rpc[r] = "row"
    /\ rpc' = [rpc EXCEPT ![r] = "idle"]
    /\ UNCHANGED <<book, lock, clientVars, incarnation, token, view, row, tokenOf, rowOf>>
-----------------------------------------------------------------------------
Execute(c) ==
    \/ InsertContact(c) \/ UpdateContact(c) \/ RefuseContactWrite(c)
    \/ DeleteContact(c) \/ DeleteAddressBook(c)

ClientNext(c) ==
    \/ Issue(c) \/ RefuseUnconditional(c) \/ LockAddressBook(c) \/ Execute(c)
    \/ CheckNoAddressBook(c) \/ InsertAddressBook(c)
    \/ Commit(c) \/ CommitUnacknowledged(c) \/ ConnectionFails(c) \/ Return(c)

ReplicaNext(r) == SyncReadRow(r) \/ SyncList(r) \/ SyncChanges(r) \/ SyncFails(r)

Next ==
    \/ \E c \in Clients : ClientNext(c)
    \/ \E r \in Replicas : ReplicaNext(r)

Spec == Init /\ [][Next]_vars

\* The adapter runs every query it has issued; PostgreSQL queues the waiters of
\* a row lock, so a waiter is not overtaken for ever.
Fairness ==
    \A c \in Clients :
        /\ WF_vars(RefuseUnconditional(c) \/ Execute(c) \/ CheckNoAddressBook(c)
                     \/ Commit(c))
        /\ SF_vars(LockAddressBook(c))
        /\ SF_vars(InsertAddressBook(c))

FairSpec == Spec /\ Fairness
-----------------------------------------------------------------------------
(* Properties. *)

\* Every variable holds a value of its type.
TypeOK ==
    /\ book \in Contract!Books
    /\ lock \in Clients \cup {NoClient}
    /\ pc \in [Clients -> {"idle", "begin", "locked", "checked", "written", "replied"}]
    /\ req \in [Clients -> Issued \cup {NoRequest}]
    /\ \A c \in Clients : req[c] = NoRequest <=> pc[c] = "idle"
    /\ attempt \in [Clients -> 0 .. RetryAttempts]
    /\ staged \in [Clients -> Writes]
    /\ answer \in [Clients -> Answers]
    /\ commits \in [Clients -> Nat]
    /\ rpc \in [Replicas -> {"idle", "row"}]
    /\ token \in [Replicas -> Nat \cup {NoToken}]
    /\ view \in [Replicas -> Contract!Contacts]
    /\ row \in [Replicas -> Nat]
    /\ incarnation \in Nat
    /\ tokenOf \in [Replicas -> Nat]
    /\ rowOf \in [Replicas -> Nat]

\* The change log is the history of the table: one row for every revision up to
\* the address book's, and the last row of an href is what the table holds for
\* it (dav_contact_changes against dav_address_books.revision and dav_contacts).
LogExplainsRows ==
    /\ {ch.version : ch \in book.changes} = 1 .. book.revision
    /\ \A ch, other \in book.changes : ch.version = other.version => ch = other
    /\ \A h \in Hrefs :
         book.contacts[h] = IF Later(0, h) = {} THEN NoCard ELSE Latest(Later(0, h)).etag

\* Two contacts of an address book never share a vCard UID, although each writer
\* tests for the clash with a query of its own (VCARD_UID_EXISTS).
UidsUnique ==
    \A h1, h2 \in Hrefs :
        /\ book.contacts[h1] # NoCard /\ book.contacts[h2] # NoCard
        /\ UidOf[book.contacts[h1]] = UidOf[book.contacts[h2]]
        => h1 = h2

\* A row that changes is the row its writer's precondition was about: an existing
\* card is replaced or deleted only on the card the caller named (or *), a new one
\* is stored only where there was none, and only for a caller who asked for it
\* (assertIfMatch and If-None-Match, evaluated before other writers' commits).
PreconditionStillHolds(c, h) ==
    /\ pc[c] = "written"
    /\ req[c].op \in {"createContact", "putContact", "deleteContact"}
    /\ req[c].href = h
    /\ IF book.contacts[h] = NoCard THEN req[c].ifNoneMatch
       ELSE req[c].ifMatch \in {AnyEtag, book.contacts[h]}

RowsChangeConditionally ==
    \A h \in Hrefs :
      book.exists /\ book'.exists /\ book.contacts[h] # book'.contacts[h] =>
        \E c \in Clients : PreconditionStillHolds(c, h)

NoLostUpdate == [][RowsChangeConditionally]_vars

\* What a replica holds under a token of this incarnation of the address book is
\* right for every href without a change past the token, so the next report
\* brings it up to date, however writers committed between the two statements of
\* the reports it has applied.
SyncSound ==
    \A r \in Replicas :
        token[r] # NoToken /\ tokenOf[r] = incarnation /\ book.exists =>
          /\ token[r] <= book.revision
          /\ \A h \in Hrefs : Later(token[r], h) = {} => view[r][h] = book.contacts[h]

\* A caller that gets an error has changed nothing, and one that gets "ok" has
\* changed the address book at most once, however often the transaction was run.
AnswerTellsTheTruth ==
    \A c \in Clients : pc[c] = "replied" =>
        commits[c] \in (IF answer[c] = "ok" THEN {0, 1} ELSE {0})

\* Every operation is one operation of the contract that takes effect between
\* its call and its answer, with the contract's answer.
ImplementsContract == Contract!Spec

\* Every committed transaction is one operation of the contract.
ImplementsBook == Contract!BookSpec

\* Every call is answered: nobody holds the row lock for ever, and the retries end.
EveryCallAnswered ==
    \A c \in Clients : pc[c] = "begin" ~> pc[c] \in {"replied", "idle"}

\* A replica whose token is the current one has the current contacts: what a
\* client that polls and sees an unchanged token believes.
CurrentTokenMeansCurrentCopy ==
    \A r \in Replicas :
        rpc[r] = "idle" /\ book.exists /\ token[r] = book.revision =>
            view[r] = book.contacts
=============================================================================
