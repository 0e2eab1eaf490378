---------------------------- MODULE CalDavPostgres ----------------------------
(***************************************************************************)
(* The PostgreSQL CalDAV adapter (src/core/dav/caldav/postgres-caldav-      *)
(* store.ts), for one calendar of one owner, its delegate, and devices that *)
(* synchronise by token.                                                    *)
(*                                                                         *)
(* An operation is a READ COMMITTED transaction of postgres-store.ts.  It   *)
(* locks the collection row (resolveCollectionRow with forUpdate), tests    *)
(* the caller's permission on the row it has locked, decides, writes and    *)
(* commits; what it throws is rolled back and run again, RetryAttempts      *)
(* times.  Others see its writes after the commit: they are staged.         *)
(*                                                                         *)
(* A listing takes no lock: it reads the row, then the changes past the     *)
(* token, then each changed object with a statement of its own.             *)
(*                                                                         *)
(* Calendar ids carry their owner, as the HTTP routes make them.  History:  *)
(* `incarnation` counts the calendars created under the id, `tokenOf` and   *)
(* `rowOf` say which of them a device's token and row are from.             *)
(***************************************************************************)
EXTENDS Integers, FiniteSets

CONSTANTS
    Owner, Clients, Users, ObjectIds, Events, UidOf, NoEvent, AnyEtag, Absent, NoRequest,
    Issued,              \* the requests each client may make
    Devices, UserOf,     \* sync clients, and the users they belong to
    NoClient, NoToken,
    RetryAttempts,       \* settings.retryAttempts
    MaxRevision,         \* bound: no write is issued that could pass it
    MaxIncarnation       \* bound: no calendar is created beyond it

ASSUME CalendarAssumption ==
    /\ Owner \in Users /\ Clients \subseteq Users /\ UserOf \in [Devices -> Users]
    /\ NoEvent \notin Events /\ AnyEtag \notin Events \cup {NoEvent, Absent}
    /\ Absent \notin Events /\ NoClient \notin Clients /\ NoToken \notin Nat
    /\ RetryAttempts \in Nat /\ MaxRevision \in Nat /\ MaxIncarnation \in Nat

VARIABLES
    cal,                                \* the collection row's ACL, and the object rows
    revision, changes,                  \* its revision, and dav_calendar_changes
    lock,                               \* the transaction that holds the row
    pc, req, attempt, staged, answer,   \* the clients' operations
    dpc, token, view, row, todo, report,    \* the devices' listings and copies
    incarnation, tokenOf, rowOf         \* history

rows == <<cal, revision, changes>>
clientVars == <<pc, req, attempt, staged, answer>>
deviceVars == <<dpc, token, view, row, todo, report, tokenOf, rowOf>>
vars == <<rows, lock, clientVars, deviceVars, incarnation>>

call == [c \in Clients |->
           [req |-> req[c],
            answer |-> CASE pc[c] = "idle" -> "none" [] pc[c] = "replied" -> answer[c]
                         [] OTHER -> "pending"]]

Contract == INSTANCE CalDavContract

ASSUME IssuedAssumption ==
    /\ \A c \in Clients : Issued[c] \subseteq Contract!Requests
    /\ NoRequest \notin Contract!Requests

\* A staged write: the rows it leaves, and the object it changed, if it did.
NoWrite == [kind |-> "none"]
Absence == [o \in ObjectIds |-> NoEvent]

Init ==
    /\ cal = Contract!EmptyCalendar /\ revision = 0 /\ changes = {}
    /\ lock = NoClient
    /\ pc = [c \in Clients |-> "idle"] /\ req = [c \in Clients |-> NoRequest]
    /\ attempt = [c \in Clients |-> 0] /\ staged = [c \in Clients |-> NoWrite]
    /\ answer = [c \in Clients |-> "none"]
    /\ dpc = [d \in Devices |-> "idle"] /\ token = [d \in Devices |-> NoToken]
    /\ view = [d \in Devices |-> Absence] /\ row = [d \in Devices |-> 0]
    /\ todo = [d \in Devices |-> {}] /\ report = [d \in Devices |-> Absence]
    /\ incarnation = 1 /\ tokenOf = [d \in Devices |-> 0] /\ rowOf = [d \in Devices |-> 0]
-----------------------------------------------------------------------------
(* A transaction. *)

Issue(c) ==
    /\ pc[c] = "idle"
    /\ \E q \in Issued[c] :
         /\ q.op \in Contract!ObjectOps =>
              revision + Cardinality({b \in Clients : pc[b] # "idle"}) < MaxRevision
         /\ q.op = "createCalendarCollection" => incarnation < MaxIncarnation
         /\ req' = [req EXCEPT ![c] = q]
    /\ pc' = [pc EXCEPT ![c] = "begin"]
    /\ UNCHANGED <<rows, lock, attempt, staged, answer, deviceVars, incarnation>>

Unlock(c) == lock' = IF lock = c THEN NoClient ELSE lock

\* Mutant: one attempt too many.
ThrowOffByOne(c, error) ==
    /\ staged' = [staged EXCEPT ![c] = NoWrite]
    /\ Unlock(c)
    /\ IF attempt[c] <= RetryAttempts
       THEN /\ attempt' = [attempt EXCEPT ![c] = @ + 1] /\ pc' = [pc EXCEPT ![c] = "begin"]
            /\ UNCHANGED answer
       ELSE /\ pc' = [pc EXCEPT ![c] = "replied"] /\ answer' = [answer EXCEPT ![c] = error]
            /\ UNCHANGED attempt
    /\ UNCHANGED <<rows, req, deviceVars, incarnation>>

\* ROLLBACK, and another attempt or the error.
Throw(c, error) ==
    /\ staged' = [staged EXCEPT ![c] = NoWrite]
    /\ Unlock(c)
    /\ IF attempt[c] < RetryAttempts
       THEN /\ attempt' = [attempt EXCEPT ![c] = @ + 1] /\ pc' = [pc EXCEPT ![c] = "begin"]
            /\ UNCHANGED answer
       ELSE /\ pc' = [pc EXCEPT ![c] = "replied"] /\ answer' = [answer EXCEPT ![c] = error]
            /\ UNCHANGED attempt
    /\ UNCHANGED <<rows, req, deviceVars, incarnation>>

Stage(c, write) ==
    /\ staged' = [staged EXCEPT ![c] = write]
    /\ pc' = [pc EXCEPT ![c] = "written"]
    /\ UNCHANGED <<rows, lock, req, attempt, answer, deviceVars, incarnation>>

Op(c) == req[c].op
Creates(c) == Op(c) = "createCalendarCollection"

\* permissionsForRow
Permitted(user, permission) ==
    user = Owner \/ (cal.acl.to = user /\ permission \in cal.acl.permissions)

Needs(c) == IF Op(c) \in Contract!ObjectOps THEN "write" ELSE "read"

\* Mutant: the row is read, and the permission tested, before the row is locked.
ResolveUnlocked(c) ==
    /\ pc[c] = "begin" /\ ~Creates(c)
    /\ cal.exists /\ Permitted(c, Needs(c))
    /\ pc' = [pc EXCEPT ![c] = "resolved"]
    /\ UNCHANGED <<rows, lock, req, attempt, staged, answer, deviceVars, incarnation>>

\* resolveCollectionRow(..., { forUpdate: true, requirePermission })
Resolve(c) ==
    /\ pc[c] = "begin" /\ ~Creates(c)
    /\ \/ ~cal.exists /\ Throw(c, "CALENDAR_NOT_FOUND")
       \/ /\ cal.exists /\ lock = NoClient
          /\ \/ ~Permitted(c, Needs(c)) /\ Throw(c, "ACL_DENIED")
             \/ /\ Permitted(c, Needs(c))
                /\ lock' = c
                /\ pc' = [pc EXCEPT ![c] = "resolved"]
                /\ UNCHANGED <<rows, req, attempt, staged, answer, deviceVars, incarnation>>

Resolved(c, op) == pc[c] = "resolved" /\ Op(c) = op
Stored(c) == cal.objects[req[c].id]

\* bumpRevision is part of the write: revision + 1, and a change row under it.
ObjectWrite(c, event) == [kind |-> "object", id |-> req[c].id, event |-> event]

CreateObject(c) ==
    /\ Resolved(c, "createCalendarObject")
    /\ \/ Stored(c) = NoEvent /\ Stage(c, ObjectWrite(c, req[c].event))
       \/ /\ Stored(c) # NoEvent
          /\ Throw(c, IF req[c].ifNoneMatch THEN "PRECONDITION_FAILED" ELSE "OBJECT_EXISTS")

Matches(c) == req[c].ifMatch \in {AnyEtag, Stored(c)}

RefuseUnmatched(c) ==
    /\ pc[c] = "resolved" /\ Op(c) \in {"updateCalendarObject", "deleteCalendarObject"}
    /\ \/ Stored(c) = NoEvent /\ Throw(c, "OBJECT_NOT_FOUND")
       \/ /\ Stored(c) # NoEvent /\ req[c].ifMatch = Absent
          /\ Throw(c, "PRECONDITION_REQUIRED")
       \/ /\ Stored(c) # NoEvent /\ req[c].ifMatch # Absent /\ ~Matches(c)
          /\ Throw(c, "PRECONDITION_FAILED")

UpdateObject(c) ==
    /\ Resolved(c, "updateCalendarObject") /\ Stored(c) # NoEvent /\ Matches(c)
    /\ IF UidOf[req[c].event] = UidOf[Stored(c)] THEN Stage(c, ObjectWrite(c, req[c].event))
       ELSE Throw(c, "UID_IMMUTABLE")

DeleteObject(c) ==
    /\ Resolved(c, "deleteCalendarObject") /\ Stored(c) # NoEvent /\ Matches(c)
    /\ Stage(c, ObjectWrite(c, NoEvent))

RefuseNotOwner(c) ==
    /\ pc[c] = "resolved" /\ Op(c) \notin Contract!ObjectOps /\ c # Owner
    /\ Throw(c, "ACL_OWNER_REQUIRED")

\* setCalendarAcl: one delegate, who may read whatever he may write.
SetAcl(c) ==
    /\ Resolved(c, "setCalendarAcl") /\ c = Owner
    /\ IF req[c].to = Owner THEN Throw(c, "INVALID_ACL")
       ELSE Stage(c, [kind |-> "acl",
                      acl |-> [to |-> req[c].to, permissions |-> req[c].permissions \cup {"read"}]])

RevokeAcl(c) ==
    /\ Resolved(c, "revokeCalendarAcl") /\ c = Owner
    /\ Stage(c, [kind |-> "acl", acl |-> Contract!Nobody])

\* Mutant: a calendar with objects is deleted as well.
DeleteCollectionAnyway(c) ==
    /\ Resolved(c, "deleteCalendarCollection") /\ c = Owner
    /\ Stage(c, [kind |-> "drop"])

\* The objects are counted while the row is locked.
DeleteCollection(c) ==
    /\ Resolved(c, "deleteCalendarCollection") /\ c = Owner
    /\ \/ cal.objects # Absence /\ Throw(c, "CALENDAR_NOT_EMPTY")
       \/ /\ cal.objects = Absence /\ req[c].ifMatch \notin {Absent, AnyEtag}
          /\ Throw(c, "PRECONDITION_FAILED")
       \/ cal.objects = Absence /\ Stage(c, [kind |-> "drop"])

\* createCalendarCollection takes no lock: it tests, inserts, and the key decides.
CheckNoCollection(c) ==
    /\ pc[c] = "begin" /\ Creates(c)
    /\ \/ /\ c # Owner                              \* before any transaction
          /\ pc' = [pc EXCEPT ![c] = "replied"] /\ answer' = [answer EXCEPT ![c] = "ACL_DENIED"]
          /\ UNCHANGED <<rows, lock, req, attempt, staged, deviceVars, incarnation>>
       \/ c = Owner /\ cal.exists /\ Throw(c, "CALENDAR_EXISTS")
       \/ /\ c = Owner /\ ~cal.exists
          /\ pc' = [pc EXCEPT ![c] = "checked"]
          /\ UNCHANGED <<rows, lock, req, attempt, staged, answer, deviceVars, incarnation>>

InsertCollection(c) ==
    /\ pc[c] = "checked" /\ lock = NoClient
    /\ \/ cal.exists /\ Throw(c, "UNAVAILABLE")
       \/ /\ ~cal.exists
          /\ lock' = c
          /\ staged' = [staged EXCEPT ![c] = [kind |-> "new"]]
          /\ pc' = [pc EXCEPT ![c] = "written"]
          /\ UNCHANGED <<rows, req, attempt, answer, deviceVars, incarnation>>

\* Mutant: a deleted object leaves no change row.
CommitObjectSilently(write) ==
    /\ cal' = [cal EXCEPT !.objects[write.id] = write.event]
    /\ revision' = revision + 1
    /\ changes' = IF write.event = NoEvent THEN changes
                  ELSE changes \cup {[revision |-> revision + 1, id |-> write.id, deleted |-> FALSE]}

CommitObject(write) ==
    /\ cal' = [cal EXCEPT !.objects[write.id] = write.event]
    /\ revision' = revision + 1
    /\ changes' = changes \cup {[revision |-> revision + 1, id |-> write.id,
                                 deleted |-> write.event = NoEvent]}

Commit(c) ==
    /\ pc[c] = "written"
    /\ LET write == staged[c] IN
       \/ write.kind = "object" /\ CommitObject(write) /\ UNCHANGED incarnation
       \/ /\ write.kind = "acl" /\ cal' = [cal EXCEPT !.acl = write.acl]
          /\ UNCHANGED <<revision, changes, incarnation>>
       \/ /\ write.kind = "drop"                    \* ON DELETE CASCADE
          /\ cal' = Contract!NoCalendar /\ revision' = 0 /\ changes' = {}
          /\ UNCHANGED incarnation
       \/ /\ write.kind = "new"
          /\ cal' = Contract!EmptyCalendar /\ incarnation' = incarnation + 1
          /\ UNCHANGED <<revision, changes>>
    /\ Unlock(c)
    /\ pc' = [pc EXCEPT ![c] = "replied"] /\ answer' = [answer EXCEPT ![c] = "ok"]
    /\ staged' = [staged EXCEPT ![c] = NoWrite]
    /\ UNCHANGED <<req, attempt, deviceVars>>

\* The connection fails before the commit.
ConnectionFails(c) ==
    /\ pc[c] \in {"begin", "resolved", "checked", "written"}
    /\ ~(Creates(c) /\ c # Owner)
    /\ Throw(c, "UNAVAILABLE")

Return(c) ==
    /\ pc[c] = "replied"
    /\ pc' = [pc EXCEPT ![c] = "idle"] /\ req' = [req EXCEPT ![c] = NoRequest]
    /\ attempt' = [attempt EXCEPT ![c] = 0] /\ answer' = [answer EXCEPT ![c] = "none"]
    /\ UNCHANGED <<rows, lock, staged, deviceVars, incarnation>>
-----------------------------------------------------------------------------
(* listCalendarObjects, and the device that applies the answer. *)

\* The listing's own variables, once it has ended.
Forget(d) ==
    /\ row' = [row EXCEPT ![d] = 0] /\ rowOf' = [rowOf EXCEPT ![d] = 0]
    /\ todo' = [todo EXCEPT ![d] = {}] /\ report' = [report EXCEPT ![d] = Absence]

Reset(d) ==
    /\ dpc' = [dpc EXCEPT ![d] = "idle"] /\ token' = [token EXCEPT ![d] = NoToken]
    /\ view' = [view EXCEPT ![d] = Absence] /\ tokenOf' = [tokenOf EXCEPT ![d] = 0]
    /\ Forget(d)
    /\ UNCHANGED <<rows, lock, clientVars, incarnation>>

\* A 404 makes the device drop its copy; a 403 leaves it as it is.
ListRow(d) ==
    /\ dpc[d] = "idle"
    /\ \/ ~cal.exists /\ Reset(d)
       \/ /\ cal.exists /\ Permitted(UserOf[d], "read")
          /\ dpc' = [dpc EXCEPT ![d] = "row"]
          /\ row' = [row EXCEPT ![d] = revision] /\ rowOf' = [rowOf EXCEPT ![d] = incarnation]
          /\ UNCHANGED <<rows, lock, clientVars, token, view, todo, report, tokenOf, incarnation>>

Read(d, contents, ids) ==
    /\ dpc' = [dpc EXCEPT ![d] = "objects"]
    /\ report' = [report EXCEPT ![d] = contents] /\ todo' = [todo EXCEPT ![d] = ids]
    /\ UNCHANGED <<rows, lock, clientVars, token, view, row, tokenOf, rowOf, incarnation>>

ListAll(d) ==
    /\ dpc[d] = "row" /\ token[d] = NoToken
    /\ Read(d, cal.objects, {})

\* latestByObject: the last change of each object past the token.
Past(d) == {ch \in changes : ch.revision > token[d]}
Latest(d) == {ch \in Past(d) : \A other \in Past(d) : other.id = ch.id => other.revision <= ch.revision}

ListChanges(d) ==
    /\ dpc[d] = "row" /\ token[d] # NoToken
    /\ \/ token[d] > row[d] /\ Reset(d)             \* syncToken is from the future
       \/ /\ token[d] <= row[d]
          /\ LET deleted == {ch.id : ch \in {ch \in Latest(d) : ch.deleted}} IN
             Read(d, [o \in ObjectIds |-> IF o \in deleted THEN NoEvent ELSE view[d][o]],
                  {ch.id : ch \in Latest(d)} \ deleted)

\* An object that has gone in the meantime is reported as deleted.
ListObject(d) ==
    /\ dpc[d] = "objects"
    /\ \E o \in todo[d] :
         /\ report' = [report EXCEPT ![d][o] = cal.objects[o]]
         /\ todo' = [todo EXCEPT ![d] = @ \ {o}]
    /\ UNCHANGED <<rows, lock, clientVars, dpc, token, view, row, tokenOf, rowOf, incarnation>>

Origin(d) ==
    IF rowOf[d] = incarnation /\ (token[d] = NoToken \/ tokenOf[d] = incarnation)
    THEN incarnation ELSE 0

\* Mutant: the answer carries the revision at its end.
DeliverLatest(d) ==
    /\ dpc[d] = "objects" /\ todo[d] = {}
    /\ dpc' = [dpc EXCEPT ![d] = "idle"] /\ view' = [view EXCEPT ![d] = report[d]]
    /\ token' = [token EXCEPT ![d] = revision] /\ tokenOf' = [tokenOf EXCEPT ![d] = Origin(d)]
    /\ Forget(d)
    /\ UNCHANGED <<rows, lock, clientVars, incarnation>>

\* The token is the revision of the row that was read first.
Deliver(d) ==
    /\ dpc[d] = "objects" /\ todo[d] = {}
    /\ dpc' = [dpc EXCEPT ![d] = "idle"] /\ view' = [view EXCEPT ![d] = report[d]]
    /\ token' = [token EXCEPT ![d] = row[d]] /\ tokenOf' = [tokenOf EXCEPT ![d] = Origin(d)]
    /\ Forget(d)
    /\ UNCHANGED <<rows, lock, clientVars, incarnation>>

ListFails(d) ==
    /\ dpc[d] # "idle"
    /\ dpc' = [dpc EXCEPT ![d] = "idle"] /\ Forget(d)
    /\ UNCHANGED <<rows, lock, clientVars, token, view, tokenOf, incarnation>>
-----------------------------------------------------------------------------
Execute(c) ==
    \/ CreateObject(c) \/ RefuseUnmatched(c) \/ UpdateObject(c) \/ DeleteObject(c)
    \/ RefuseNotOwner(c) \/ SetAcl(c) \/ RevokeAcl(c) \/ DeleteCollection(c)

ClientNext(c) ==
    \/ Issue(c) \/ Resolve(c) \/ Execute(c) \/ CheckNoCollection(c) \/ InsertCollection(c)
    \/ Commit(c) \/ ConnectionFails(c) \/ Return(c)

DeviceNext(d) ==
    \/ ListRow(d) \/ ListAll(d) \/ ListChanges(d) \/ ListObject(d) \/ Deliver(d) \/ ListFails(d)

Next == (\E c \in Clients : ClientNext(c)) \/ (\E d \in Devices : DeviceNext(d))

Spec == Init /\ [][Next]_vars
-----------------------------------------------------------------------------
(* Properties. *)

TypeOK ==
    /\ cal \in Contract!Calendars /\ revision \in Nat
    /\ changes \subseteq [revision : Nat \ {0}, id : ObjectIds, deleted : BOOLEAN]
    /\ lock \in Clients \cup {NoClient}
    /\ pc \in [Clients -> {"idle", "begin", "resolved", "checked", "written", "replied"}]
    /\ \A c \in Clients : req[c] \in Issued[c] \cup {NoRequest}
    /\ attempt \in [Clients -> 0 .. RetryAttempts]
    /\ dpc \in [Devices -> {"idle", "row", "objects"}]
    /\ token \in [Devices -> Nat \cup {NoToken}] /\ row \in [Devices -> Nat]
    /\ todo \in [Devices -> SUBSET ObjectIds]
    /\ view \in [Devices -> [ObjectIds -> Events \cup {NoEvent}]]
    /\ report \in [Devices -> [ObjectIds -> Events \cup {NoEvent}]]
    /\ incarnation \in Nat /\ tokenOf \in [Devices -> Nat] /\ rowOf \in [Devices -> Nat]

\* The change log has one row for every revision, and the last row of an object
\* says whether the object is there (dav_calendar_changes against the revision of
\* the collection row and dav_calendar_objects).
LogExplainsObjects ==
    /\ {ch.revision : ch \in changes} = 1 .. revision
    /\ \A ch \in changes :
         /\ \A other \in changes : other.revision = ch.revision => other = ch
         /\ (\A other \in changes : other.id = ch.id => other.revision <= ch.revision)
              => (ch.deleted <=> cal.objects[ch.id] = NoEvent)

\* What a device holds under a token of this calendar is right for every object
\* without a change past the token, although a listing reads the row, the changes
\* and every object at a time of its own.
SyncSound ==
    \A d \in Devices :
        token[d] # NoToken /\ tokenOf[d] = incarnation /\ cal.exists =>
          /\ token[d] <= revision
          /\ \A o \in ObjectIds :
               (\A ch \in Past(d) : ch.id # o) => view[d][o] = cal.objects[o]

\* Every operation is one operation of the contract, which takes effect between
\* call and answer with the contract's answer: in particular nothing a delegate
\* writes is committed after his permission has gone, no object is overwritten but
\* on the ETag its writer named, and no calendar is dropped with objects in it.
ImplementsContract == Contract!Spec
=============================================================================
