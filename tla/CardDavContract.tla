--------------------------- MODULE CardDavContract ---------------------------
(***************************************************************************)
(* The CardDAV store contract of src/core/dav/carddav/carddav-store.ts: one *)
(* address book of one tenant/user scope and the operations of the class    *)
(* CardDavStore, each of which is a single synchronous step.  This is the   *)
(* abstract specification that the PostgreSQL adapter (CardDavPostgres)     *)
(* has to implement.                                                        *)
(*                                                                         *)
(* An ETag is the SHA-256 of the canonical vCard (makeEtag), so a card      *)
(* stands for its own ETag.  A sync token is the scope fingerprint followed *)
(* by the revision (makeSyncToken): one collection is modelled, so a token  *)
(* is a revision.  A collection ETag hashes the collection's names and its  *)
(* revision (makeCollectionEtag): it, too, is the revision.                 *)
(***************************************************************************)
EXTENDS Integers

CONSTANTS
    Clients,     \* callers of the store
    Hrefs,       \* the hrefs a contact may be stored under
    Cards,       \* canonical vCards, each also standing for its ETag
    Uids,        \* vCard UIDs
    UidOf,       \* the UID property of a card
    NoCard,      \* "no contact here", and the ETag of a tombstone
    AnyEtag,     \* If-Match: *
    Absent,      \* the header was not sent
    NoRequest,   \* no call in progress
    Issued       \* the requests the callers may make

Contacts == [Hrefs -> Cards \cup {NoCard}]
Changes == [version : Nat \ {0}, href : Hrefs, etag : Cards \cup {NoCard}]

\* AddressBookState: what the store keeps of an address book.
Books == [exists : BOOLEAN, revision : Nat, contacts : Contacts,
          changes : SUBSET Changes]

ContactWrites == [op : {"createContact", "putContact"}, href : Hrefs, card : Cards,
                  ifMatch : Cards \cup {AnyEtag, Absent}, ifNoneMatch : BOOLEAN]
ContactDeletes == [op : {"deleteContact"}, href : Hrefs,
                   ifMatch : Cards \cup {AnyEtag, Absent}]
BookDeletes == [op : {"deleteAddressBook"}, ifMatch : Nat \cup {AnyEtag, Absent}]
BookCreates == [op : {"createAddressBook"}]

\* Issued is a subset of them.
Requests == ContactWrites \cup ContactDeletes \cup BookDeletes \cup BookCreates

-----------------------------------------------------------------------------
(* The state of the store's Map entry. *)

NoBook == [exists |-> FALSE, revision |-> 0,
           contacts |-> [h \in Hrefs |-> NoCard], changes |-> {}]

EmptyBook == [NoBook EXCEPT !.exists = TRUE]

UidTaken(book, uid) ==
    \E h \in Hrefs : book.contacts[h] # NoCard /\ UidOf[book.contacts[h]] = uid

UidTakenElsewhere(book, uid, href) ==
    \E h \in Hrefs \ {href} : book.contacts[h] # NoCard /\ UidOf[book.contacts[h]] = uid

\* #touch and #record: the revision advances and the change is logged under it.
Record(book, href, card) ==
    [exists   |-> TRUE,
     revision |-> book.revision + 1,
     contacts |-> [book.contacts EXCEPT ![href] = card],
     changes  |-> book.changes \cup
                    {[version |-> book.revision + 1, href |-> href, etag |-> card]}]

\* assertIfMatch: the code it throws, or "ok".
IfMatchVerdict(ifMatch, current) ==
    IF ifMatch = Absent THEN "PRECONDITION_REQUIRED"
    ELSE IF ifMatch \in {AnyEtag, current} THEN "ok" ELSE "ETAG_MISMATCH"

-----------------------------------------------------------------------------
(* What each operation answers, in the order the code tests. *)

CreateVerdict(book, req) ==
    IF ~book.exists THEN "ADDRESS_BOOK_NOT_FOUND"
    ELSE IF ~req.ifNoneMatch THEN "PRECONDITION_REQUIRED"
    ELSE IF book.contacts[req.href] # NoCard THEN "CONTACT_EXISTS"
    ELSE IF UidTaken(book, UidOf[req.card]) THEN "VCARD_UID_EXISTS"
    ELSE "ok"

UpdateVerdict(book, req) ==
    LET existing == book.contacts[req.href] IN
    IF req.ifNoneMatch THEN "PRECONDITION_FAILED"
    ELSE IF IfMatchVerdict(req.ifMatch, existing) # "ok"
         THEN IfMatchVerdict(req.ifMatch, existing)
    ELSE IF UidOf[req.card] # UidOf[existing] THEN "VCARD_UID_IMMUTABLE"
    ELSE IF UidTakenElsewhere(book, UidOf[req.card], req.href) THEN "VCARD_UID_EXISTS"
    ELSE "ok"

PutVerdict(book, req) ==
    IF ~book.exists THEN "ADDRESS_BOOK_NOT_FOUND"
    ELSE IF book.contacts[req.href] # NoCard THEN UpdateVerdict(book, req)
    ELSE IF req.ifNoneMatch THEN CreateVerdict(book, req)
    ELSE "CONTACT_NOT_FOUND"

DeleteVerdict(book, req) ==
    IF ~book.exists THEN "ADDRESS_BOOK_NOT_FOUND"
    ELSE IF book.contacts[req.href] = NoCard THEN "CONTACT_NOT_FOUND"
    ELSE IfMatchVerdict(req.ifMatch, book.contacts[req.href])

DeleteBookVerdict(book, req) ==
    IF ~book.exists THEN "ADDRESS_BOOK_NOT_FOUND"
    ELSE IfMatchVerdict(req.ifMatch, book.revision)

CreateBookVerdict(book) == IF book.exists THEN "ADDRESS_BOOK_EXISTS" ELSE "ok"

Verdict(book, req) ==
    CASE req.op = "createContact"     -> CreateVerdict(book, req)
      [] req.op = "putContact"        -> PutVerdict(book, req)
      [] req.op = "deleteContact"     -> DeleteVerdict(book, req)
      [] req.op = "deleteAddressBook" -> DeleteBookVerdict(book, req)
      [] req.op = "createAddressBook" -> CreateBookVerdict(book)

\* The state a successful operation leaves.  A put of the stored card changes
\* nothing: no revision, no change entry.
Effect(book, req) ==
    CASE req.op = "createAddressBook" -> EmptyBook
      [] req.op = "deleteAddressBook" -> NoBook
      [] req.op = "deleteContact"     -> Record(book, req.href, NoCard)
      [] req.op \in {"createContact", "putContact"} ->
            IF book.contacts[req.href] = req.card THEN book
            ELSE Record(book, req.href, req.card)

-----------------------------------------------------------------------------
VARIABLES
    book,        \* the address book
    call         \* per client: the request and its answer

vars == <<book, call>>

IdleCall == [req |-> NoRequest, answer |-> "none"]

Init == book = EmptyBook /\ call = [c \in Clients |-> IdleCall]

Issue(c) ==
    /\ call[c] = IdleCall
    /\ \E req \in Issued : call' = [call EXCEPT ![c] = [req |-> req, answer |-> "pending"]]
    /\ UNCHANGED book

Answer(c, answer) ==
    /\ call[c].answer = "pending"
    /\ call' = [call EXCEPT ![c].answer = answer]

\* The operation runs: it answers and, if it succeeds, changes the state.
Perform(c) ==
    LET req == call[c].req
        verdict == Verdict(book, req)
    IN /\ Answer(c, verdict)
       /\ book' = IF verdict = "ok" THEN Effect(book, req) ELSE book

\* A persistent store may also fail to run it at all, and say so.
Unavailable(c) == Answer(c, "UNAVAILABLE") /\ UNCHANGED book

Return(c) ==
    /\ call[c].answer \notin {"none", "pending"}
    /\ call' = [call EXCEPT ![c] = IdleCall]
    /\ UNCHANGED book

Next == \E c \in Clients : Issue(c) \/ Perform(c) \/ Unavailable(c) \/ Return(c)

Spec == Init /\ [][Next]_vars

\* The same contract without the answers: every change of the address book is
\* one operation that the contract accepts in the state it finds.
BookInit == book = EmptyBook
BookNext == \E req \in Issued : Verdict(book, req) = "ok" /\ book' = Effect(book, req)
BookSpec == BookInit /\ [][BookNext]_book
=============================================================================
