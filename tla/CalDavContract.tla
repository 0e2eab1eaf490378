---------------------------- MODULE CalDavContract ----------------------------
(***************************************************************************)
(* The CalDAV store contract of src/core/dav/caldav/caldav-contract.ts: one *)
(* calendar collection with its objects and its access list, and the        *)
(* operations that change them, each a single synchronous step.  This is    *)
(* the abstract specification of the PostgreSQL adapter (CalDavPostgres).    *)
(*                                                                         *)
(* An ETag is the hash of an object's scope, id and canonical text, so an   *)
(* event stands for its own ETag.  A collection's ETag is left out: a       *)
(* conditional deletion may find that it does not match.  Sync tokens and   *)
(* listings are the subject of CalDavPostgres.                              *)
(***************************************************************************)
EXTENDS Naturals

CONSTANTS
    Owner, Clients,  \* the calendar's owner, and the users that call the store
    Users,           \* everybody: clients and other delegates
    ObjectIds, Events, UidOf, NoEvent,
    AnyEtag,         \* If-Match: *
    Absent,          \* the header was not sent
    NoRequest, Issued    \* Issued[c]: the requests client c may make

Nobody == [to |-> "nobody", permissions |-> {}]
Acls == {Nobody} \cup [to : Users \ {Owner}, permissions : {{"read"}, {"read", "write"}}]
Calendars == [exists : BOOLEAN, objects : [ObjectIds -> Events \cup {NoEvent}], acl : Acls]

\* What the routes pass on, and what the operations accept as permissions.
ObjectCreates == [op : {"createCalendarObject"}, id : ObjectIds, event : Events,
                  ifNoneMatch : BOOLEAN]
ObjectUpdates == [op : {"updateCalendarObject"}, id : ObjectIds, event : Events,
                  ifMatch : Events \cup {AnyEtag, Absent}]
ObjectDeletes == [op : {"deleteCalendarObject"}, id : ObjectIds,
                  ifMatch : Events \cup {AnyEtag, Absent}]
Shares == [op : {"setCalendarAcl"}, to : Users, permissions : {{"read"}, {"write"}, {"read", "write"}}]
Drops == [op : {"deleteCalendarCollection"}, ifMatch : {AnyEtag, Absent, "etag"}]
Plain == [op : {"revokeCalendarAcl", "createCalendarCollection"}]

\* Issued[c] is a subset of them.
Requests == ObjectCreates \cup ObjectUpdates \cup ObjectDeletes \cup Shares \cup Drops \cup Plain

NoCalendar == [exists |-> FALSE, objects |-> [o \in ObjectIds |-> NoEvent], acl |-> Nobody]
EmptyCalendar == [NoCalendar EXCEPT !.exists = TRUE]

\* permissionFor
Permissions(cal, user) ==
    IF user = Owner THEN {"read", "write"}
    ELSE IF cal.acl.to = user THEN cal.acl.permissions ELSE {}

\* resolveCollection, and the further permission an operation needs
Access(cal, user, permission) ==
    IF ~cal.exists THEN "CALENDAR_NOT_FOUND"
    ELSE IF permission \notin Permissions(cal, user) THEN "ACL_DENIED" ELSE "ok"

OwnerAccess(cal, user) ==
    IF Access(cal, user, "read") # "ok" THEN Access(cal, user, "read")
    ELSE IF user # Owner THEN "ACL_OWNER_REQUIRED" ELSE "ok"

IfMatchVerdict(ifMatch, current) ==
    IF current = NoEvent THEN "OBJECT_NOT_FOUND"
    ELSE IF ifMatch = Absent THEN "PRECONDITION_REQUIRED"
    ELSE IF ifMatch \notin {AnyEtag, current} THEN "PRECONDITION_FAILED" ELSE "ok"

ObjectVerdict(cal, req) ==
    LET current == cal.objects[req.id] IN
    CASE req.op = "createCalendarObject" ->
           IF current = NoEvent THEN "ok"
           ELSE IF req.ifNoneMatch THEN "PRECONDITION_FAILED" ELSE "OBJECT_EXISTS"
      [] req.op = "updateCalendarObject" ->
           IF IfMatchVerdict(req.ifMatch, current) # "ok" THEN IfMatchVerdict(req.ifMatch, current)
           ELSE IF UidOf[req.event] # UidOf[current] THEN "UID_IMMUTABLE" ELSE "ok"
      [] req.op = "deleteCalendarObject" -> IfMatchVerdict(req.ifMatch, current)

ObjectOps == {"createCalendarObject", "updateCalendarObject", "deleteCalendarObject"}
AclOps == {"setCalendarAcl", "revokeCalendarAcl"}

\* What an operation may answer.
Verdicts(cal, user, req) ==
    IF req.op \in ObjectOps
    THEN {IF Access(cal, user, "write") = "ok" THEN ObjectVerdict(cal, req)
          ELSE Access(cal, user, "write")}
    ELSE IF req.op = "createCalendarCollection"
    THEN {IF user # Owner THEN "ACL_DENIED" ELSE IF cal.exists THEN "CALENDAR_EXISTS" ELSE "ok"}
    ELSE IF OwnerAccess(cal, user) # "ok" THEN {OwnerAccess(cal, user)}
    ELSE IF req.op = "setCalendarAcl" /\ req.to = Owner THEN {"INVALID_ACL"}
    ELSE IF req.op \in AclOps THEN {"ok"}
    ELSE IF \E o \in ObjectIds : cal.objects[o] # NoEvent THEN {"CALENDAR_NOT_EMPTY"}
    ELSE {"ok"} \cup (IF req.ifMatch \in {Absent, AnyEtag} THEN {} ELSE {"PRECONDITION_FAILED"})

Effect(cal, req) ==
    CASE req.op \in {"createCalendarObject", "updateCalendarObject"} ->
           [cal EXCEPT !.objects[req.id] = req.event]
      [] req.op = "deleteCalendarObject" -> [cal EXCEPT !.objects[req.id] = NoEvent]
      [] req.op = "setCalendarAcl" ->
           [cal EXCEPT !.acl = [to |-> req.to, permissions |-> req.permissions \cup {"read"}]]
      [] req.op = "revokeCalendarAcl" -> [cal EXCEPT !.acl = Nobody]
      [] req.op = "createCalendarCollection" -> EmptyCalendar
      [] req.op = "deleteCalendarCollection" -> NoCalendar
-----------------------------------------------------------------------------
VARIABLES cal, call

vars == <<cal, call>>
IdleCall == [req |-> NoRequest, answer |-> "none"]

Init == cal = EmptyCalendar /\ call = [c \in Clients |-> IdleCall]

Issue(c) ==
    /\ call[c] = IdleCall
    /\ \E req \in Issued[c] : call' = [call EXCEPT ![c] = [req |-> req, answer |-> "pending"]]
    /\ UNCHANGED cal

Perform(c) ==
    /\ call[c].answer = "pending"
    /\ \E verdict \in Verdicts(cal, c, call[c].req) :
         /\ call' = [call EXCEPT ![c].answer = verdict]
         /\ cal' = IF verdict = "ok" THEN Effect(cal, call[c].req) ELSE cal

\* A persistent store may also fail to run it at all, and say so.
Unavailable(c) ==
    /\ call[c].answer = "pending"
    /\ call' = [call EXCEPT ![c].answer = "UNAVAILABLE"]
    /\ UNCHANGED cal

Return(c) ==
    /\ call[c].answer \notin {"none", "pending"}
    /\ call' = [call EXCEPT ![c] = IdleCall]
    /\ UNCHANGED cal

Next == \E c \in Clients : Issue(c) \/ Perform(c) \/ Unavailable(c) \/ Return(c)

Spec == Init /\ [][Next]_vars
=============================================================================
