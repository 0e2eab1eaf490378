---------------------------- MODULE CalDavProofs ----------------------------
(***************************************************************************)
(* Proofs about CalDavPostgres for every set of users, devices, objects and *)
(* events, whatever requests are issued, any number of retries.             *)
(*                                                                         *)
(* The argument: whoever has resolved the collection row holds its lock, so *)
(* the calendar he read, his permission among it, is still so when he       *)
(* writes and when he commits (LockInv, StagedInv).  Each commit is then    *)
(* one operation of the contract, and the change log and the copies of the  *)
(* devices follow from the shape of a commit (LogInv, SyncInv).             *)
(***************************************************************************)
EXTENDS CalDavPostgres, TLAPS

Errors ==
    {"CALENDAR_NOT_FOUND", "ACL_DENIED", "PRECONDITION_FAILED", "OBJECT_EXISTS",
     "OBJECT_NOT_FOUND", "PRECONDITION_REQUIRED", "UID_IMMUTABLE", "ACL_OWNER_REQUIRED",
     "INVALID_ACL", "CALENDAR_NOT_EMPTY", "CALENDAR_EXISTS", "UNAVAILABLE"}

Writes ==
    [kind : {"none", "drop", "new"}] \cup [kind : {"acl"}, acl : Contract!Acls]
      \cup [kind : {"object"}, id : ObjectIds, event : Events \cup {NoEvent}]

\* TypeOK, with the types of what is private to a transaction.
Types ==
    /\ TypeOK
    /\ req \in [Clients -> Contract!Requests \cup {NoRequest}]
    /\ staged \in [Clients -> Writes]
    /\ answer \in [Clients -> {"none", "ok"} \cup Errors]

-----------------------------------------------------------------------------
(* The invariant. *)

CallInv ==
    \A c \in Clients :
        /\ pc[c] = "idle" <=> req[c] = NoRequest
        /\ pc[c] = "replied" => answer[c] # "none"

LockInv ==
    \A c \in Clients :
        /\ pc[c] \in {"resolved", "written"} => lock = c
        /\ pc[c] = "resolved" => ~Creates(c) /\ cal.exists /\ Permitted(c, Needs(c))
        /\ pc[c] = "checked" => c = Owner /\ Creates(c)

\* What a transaction has evaluated still holds, and its write is the one that follows.
MayWrite(c, op) == Op(c) = op /\ cal.exists /\ Permitted(c, "write")
MayOwn(c, op) == Op(c) = op /\ cal.exists /\ c = Owner

CreateStaged(c) ==
    /\ MayWrite(c, "createCalendarObject") /\ Stored(c) = NoEvent
    /\ staged[c] = ObjectWrite(c, req[c].event)

UpdateStaged(c) ==
    /\ MayWrite(c, "updateCalendarObject") /\ Stored(c) # NoEvent /\ Matches(c)
    /\ UidOf[req[c].event] = UidOf[Stored(c)]
    /\ staged[c] = ObjectWrite(c, req[c].event)

DeleteStaged(c) ==
    /\ MayWrite(c, "deleteCalendarObject") /\ Stored(c) # NoEvent /\ Matches(c)
    /\ staged[c] = ObjectWrite(c, NoEvent)

ShareStaged(c) ==
    /\ MayOwn(c, "setCalendarAcl") /\ req[c].to # Owner
    /\ staged[c] = [kind |-> "acl",
                    acl |-> [to |-> req[c].to, permissions |-> req[c].permissions \cup {"read"}]]

RevokeStaged(c) ==
    /\ MayOwn(c, "revokeCalendarAcl")
    /\ staged[c] = [kind |-> "acl", acl |-> Contract!Nobody]

DropStaged(c) ==
    /\ MayOwn(c, "deleteCalendarCollection") /\ cal.objects = Absence
    /\ staged[c] = [kind |-> "drop"]

NewStaged(c) ==
    /\ Creates(c) /\ c = Owner /\ ~cal.exists
    /\ staged[c] = [kind |-> "new"]

StagedOK(c) ==
    \/ CreateStaged(c) \/ UpdateStaged(c) \/ DeleteStaged(c) \/ ShareStaged(c)
    \/ RevokeStaged(c) \/ DropStaged(c) \/ NewStaged(c)

StagedInv == \A c \in Clients : pc[c] = "written" => StagedOK(c)

\* A calendar that does not exist has no rows anywhere.
GoneInv == ~cal.exists => cal = Contract!NoCalendar /\ revision = 0 /\ changes = {}

LastChange(o, ch) ==
    ch.id = o /\ \A other \in changes : other.id = o => other.revision <= ch.revision

LogInv ==
    /\ \A ch \in changes : ch.revision \in 1 .. revision
    /\ \A v \in 1 .. revision : \E ch \in changes : ch.revision = v
    /\ \A ch, other \in changes : ch.revision = other.revision => ch = other
    /\ \A o \in ObjectIds :
         \/ cal.objects[o] = NoEvent /\ \A ch \in changes : ch.id # o
         \/ \E ch \in changes : LastChange(o, ch) /\ (ch.deleted <=> cal.objects[o] = NoEvent)

\* An object of a listing is read after the row, or has no change past it.
Listed(d, o) ==
    \/ o \in todo[d]
    \/ \E ch \in changes : ch.id = o /\ ch.revision > row[d]
    \/ report[d][o] = cal.objects[o]

SyncInv ==
    /\ incarnation # 0
    /\ \A d \in Devices : tokenOf[d] <= incarnation /\ rowOf[d] <= incarnation
    /\ \A d \in Devices :
         dpc[d] # "idle" /\ rowOf[d] = incarnation /\ cal.exists => row[d] <= revision
    /\ \A d \in Devices :
         dpc[d] = "objects" /\ Origin(d) = incarnation /\ cal.exists =>
            \A o \in ObjectIds : Listed(d, o)
    /\ SyncSound

-----------------------------------------------------------------------------
(* Types. *)

LEMMA CalendarTypes ==
  /\ Contract!NoCalendar \in Contract!Calendars /\ Contract!EmptyCalendar \in Contract!Calendars
  /\ Absence \in [ObjectIds -> Events \cup {NoEvent}]
  BY DEF Contract!NoCalendar, Contract!EmptyCalendar, Contract!Calendars, Contract!Acls, Absence

LEMMA TypesInit == Init => Types
<1> SUFFICES ASSUME Init PROVE Types
  OBVIOUS
<1>1. cal \in Contract!Calendars /\ view \in [Devices -> [ObjectIds -> Events \cup {NoEvent}]]
      /\ report \in [Devices -> [ObjectIds -> Events \cup {NoEvent}]]
  BY CalendarTypes DEF Init
<1>2. staged \in [Clients -> Writes] /\ attempt \in [Clients -> 0 .. RetryAttempts]
  BY CalendarAssumption DEF Init, Writes, NoWrite
<1> QED
  BY <1>1, <1>2 DEF Init, Types, TypeOK

\* What a request in progress names.
LEMMA RequestType ==
  ASSUME Types, CallInv, NEW c \in Clients, pc[c] # "idle"
  PROVE  /\ req[c] \in Contract!Requests
         /\ Op(c) \in Contract!ObjectOps => req[c].id \in ObjectIds
         /\ Op(c) \in {"createCalendarObject", "updateCalendarObject"} => req[c].event \in Events
         /\ Op(c) \in {"updateCalendarObject", "deleteCalendarObject"} =>
               req[c].ifMatch \in Events \cup {AnyEtag, Absent}
         /\ Op(c) = "setCalendarAcl" =>
               /\ req[c].to \in Users
               /\ req[c].permissions \cup {"read"} \in {{"read"}, {"read", "write"}}
         /\ Op(c) \in Contract!ObjectOps \cup Contract!AclOps
                        \cup {"createCalendarCollection", "deleteCalendarCollection"}
<1>1. req[c] \in Contract!Requests
  BY IssuedAssumption DEF Types, TypeOK, CallInv
<1>2. {"write"} \cup {"read"} = {"read", "write"} /\ {"read", "write"} \cup {"read"} = {"read", "write"}
      /\ {"read"} \cup {"read"} = {"read"}
  OBVIOUS
<1> QED
  BY <1>1, <1>2 DEF Op, Contract!ObjectOps, Contract!AclOps, Contract!Requests, Contract!ObjectCreates,
    Contract!ObjectUpdates, Contract!ObjectDeletes, Contract!Shares, Contract!Drops, Contract!Plain

LEMMA ThrowType ==
  ASSUME Types, NEW c \in Clients, NEW error \in Errors, Throw(c, error)
  PROVE  Types'
<1>1. staged' \in [Clients -> Writes] /\ lock' \in Clients \cup {NoClient}
  BY DEF Types, TypeOK, Throw, Unlock, NoWrite, Writes
<1>2. /\ attempt' \in [Clients -> 0 .. RetryAttempts]
      /\ pc' \in [Clients -> {"idle", "begin", "resolved", "checked", "written", "replied"}]
      /\ answer' \in [Clients -> {"none", "ok"} \cup Errors]
  <2>1. CASE attempt[c] < RetryAttempts
    <3>1. attempt[c] + 1 \in 0 .. RetryAttempts
      BY <2>1, CalendarAssumption DEF Types, TypeOK
    <3> QED
      BY <2>1, <3>1 DEF Types, TypeOK, Throw
  <2>2. CASE ~(attempt[c] < RetryAttempts)
    BY <2>2 DEF Types, TypeOK, Throw
  <2> QED
    BY <2>1, <2>2
<1>3. UNCHANGED <<cal, revision, changes, req, deviceVars, incarnation>>
  BY DEF Throw, rows
<1> QED
  BY <1>1, <1>2, <1>3 DEF Types, TypeOK, deviceVars

LEMMA StageType ==
  ASSUME Types, NEW c \in Clients, NEW write \in Writes, Stage(c, write)
  PROVE  Types'
  BY DEF Types, TypeOK, Stage, rows, deviceVars

\* Every step of Execute throws or stages.
LEMMA ExecuteThrowsOrStages ==
  ASSUME Types, CallInv, NEW c \in Clients, Execute(c)
  PROVE  /\ pc[c] = "resolved"
         /\ \/ \E error \in Errors : Throw(c, error)
            \/ \E write \in Writes : Stage(c, write)
<1>1. CASE CreateObject(c)
  BY <1>1, RequestType DEF CreateObject, Resolved, Errors, Writes, ObjectWrite, Contract!ObjectOps
<1>2. CASE RefuseUnmatched(c)
  BY <1>2 DEF RefuseUnmatched, Errors
<1>3. CASE UpdateObject(c)
  BY <1>3, RequestType DEF UpdateObject, Resolved, Errors, Writes, ObjectWrite, Contract!ObjectOps
<1>4. CASE DeleteObject(c)
  BY <1>4, RequestType DEF DeleteObject, Resolved, Errors, Writes, ObjectWrite, Contract!ObjectOps
<1>5. CASE RefuseNotOwner(c)
  BY <1>5 DEF RefuseNotOwner, Errors
<1>6. CASE SetAcl(c)
  <2>1. CASE req[c].to = Owner
    BY <1>6, <2>1 DEF SetAcl, Resolved, Errors
  <2>2. CASE req[c].to # Owner
    <3>1. [to |-> req[c].to, permissions |-> req[c].permissions \cup {"read"}] \in Contract!Acls
      BY <1>6, <2>2, RequestType DEF SetAcl, Resolved, Contract!Acls
    <3>2. [kind |-> "acl", acl |-> [to |-> req[c].to, permissions |-> req[c].permissions \cup {"read"}]]
            \in Writes
      BY <3>1 DEF Writes
    <3> QED
      BY <1>6, <2>2, <3>2 DEF SetAcl, Resolved
  <2> QED
    BY <2>1, <2>2
<1>7. CASE RevokeAcl(c)
  <2>1. [kind |-> "acl", acl |-> Contract!Nobody] \in Writes
    BY DEF Writes, Contract!Acls
  <2> QED
    BY <1>7, <2>1 DEF RevokeAcl, Resolved
<1>8. CASE DeleteCollection(c)
  BY <1>8 DEF DeleteCollection, Resolved, Errors, Writes
<1> QED
  BY <1>1, <1>2, <1>3, <1>4, <1>5, <1>6, <1>7, <1>8 DEF Execute

\* The rows a commit leaves are of their types.
LEMMA CommitType ==
  ASSUME Types, NEW c \in Clients, Commit(c)
  PROVE  Types'
<1>1. staged[c] \in Writes /\ cal \in Contract!Calendars
  BY DEF Types, TypeOK
<1>2. cal' \in Contract!Calendars
  <2>1. CASE staged[c].kind = "object"
    BY <1>1, <2>1 DEF Commit, CommitObject, Writes, Contract!Calendars
  <2>2. CASE staged[c].kind = "acl"
    BY <1>1, <2>2 DEF Commit, Writes, Contract!Calendars
  <2>3. CASE staged[c].kind \notin {"object", "acl"}
    BY <2>3, CalendarTypes DEF Commit
  <2> QED
    BY <2>1, <2>2, <2>3
<1>3. /\ revision' \in Nat /\ incarnation' \in Nat
      /\ changes' \subseteq [revision : Nat \ {0}, id : ObjectIds, deleted : BOOLEAN]
  <2>1. CASE staged[c].kind = "object"
    <3>1. staged[c].id \in ObjectIds
      BY <1>1, <2>1 DEF Writes
    <3>2. PICK row1 : row1 = [revision |-> revision + 1, id |-> staged[c].id,
                              deleted |-> staged[c].event = NoEvent]
      OBVIOUS
    <3>3. (staged[c].event = NoEvent) \in BOOLEAN /\ revision + 1 \in Nat \ {0}
      BY DEF Types, TypeOK
    <3>4. row1 \in [revision : Nat \ {0}, id : ObjectIds, deleted : BOOLEAN]
      BY <3>1, <3>2, <3>3
    <3>5. changes' = changes \cup {row1} /\ revision' = revision + 1 /\ incarnation' = incarnation
      BY <2>1, <3>2 DEF Commit, CommitObject
    <3> QED
      BY <3>3, <3>4, <3>5 DEF Types, TypeOK
  <2>2. CASE staged[c].kind # "object"
    BY <2>2 DEF Commit, Types, TypeOK
  <2> QED
    BY <2>1, <2>2
<1> QED
  BY <1>2, <1>3 DEF Types, TypeOK, Commit, Unlock, NoWrite, Writes, deviceVars

LEMMA ClientTypes ==
  ASSUME Types, CallInv, NEW c \in Clients, ClientNext(c)
  PROVE  Types'
<1>1. CASE Issue(c)
  <2>1. PICK q \in Issued[c] : req' = [req EXCEPT ![c] = q]
    BY <1>1 DEF Issue
  <2>2. /\ req' \in [Clients -> Contract!Requests \cup {NoRequest}]
        /\ \A d \in Clients : req'[d] \in Issued[d] \cup {NoRequest}
    BY <2>1, IssuedAssumption DEF Types, TypeOK
  <2> QED
    BY <1>1, <2>2 DEF Issue, Types, TypeOK, rows, deviceVars
<1>2. CASE Resolve(c)
  <2>1. CASE \E error \in Errors : Throw(c, error)
    BY <2>1, ThrowType
  <2>2. CASE ~\E error \in Errors : Throw(c, error)
    <3>1. "CALENDAR_NOT_FOUND" \in Errors /\ "ACL_DENIED" \in Errors
      BY DEF Errors
    <3> QED
      BY <1>2, <2>2, <3>1 DEF Resolve, Types, TypeOK, rows, deviceVars
  <2> QED
    BY <2>1, <2>2
<1>3. CASE Execute(c)
  BY <1>3, ExecuteThrowsOrStages, ThrowType, StageType
<1>4. CASE CheckNoCollection(c)
  <2>1. "CALENDAR_EXISTS" \in Errors /\ "ACL_DENIED" \in Errors
    BY DEF Errors
  <2>2. CASE Throw(c, "CALENDAR_EXISTS")
    BY <2>1, <2>2, ThrowType
  <2>3. CASE ~Throw(c, "CALENDAR_EXISTS")
    BY <1>4, <2>1, <2>3 DEF CheckNoCollection, Types, TypeOK, rows, deviceVars
  <2> QED
    BY <2>2, <2>3
<1>5. CASE InsertCollection(c)
  <2>1. "UNAVAILABLE" \in Errors /\ [kind |-> "new"] \in Writes
    BY DEF Errors, Writes
  <2>2. CASE Throw(c, "UNAVAILABLE")
    BY <2>1, <2>2, ThrowType
  <2>3. CASE ~Throw(c, "UNAVAILABLE")
    BY <1>5, <2>1, <2>3 DEF InsertCollection, Types, TypeOK, rows, deviceVars
  <2> QED
    BY <2>2, <2>3
<1>6. CASE Commit(c)
  BY <1>6, CommitType
<1>7. CASE ConnectionFails(c)
  BY <1>7, ThrowType DEF ConnectionFails, Errors
<1>8. CASE Return(c)
  BY <1>8, CalendarAssumption DEF Return, Types, TypeOK, rows, deviceVars
<1> QED
  BY <1>1, <1>2, <1>3, <1>4, <1>5, <1>6, <1>7, <1>8 DEF ClientNext

LEMMA DeviceTypes ==
  ASSUME Types, NEW d \in Devices, DeviceNext(d)
  PROVE  Types'
<1>1. Absence \in [ObjectIds -> Events \cup {NoEvent}] /\ cal.objects \in [ObjectIds -> Events \cup {NoEvent}]
  BY CalendarTypes DEF Types, TypeOK, Contract!Calendars
<1>2. ASSUME Reset(d) PROVE Types'
  <2>1. /\ view' \in [Devices -> [ObjectIds -> Events \cup {NoEvent}]]
        /\ report' \in [Devices -> [ObjectIds -> Events \cup {NoEvent}]]
    BY <1>1, <1>2 DEF Reset, Forget, Types, TypeOK
  <2> QED
    BY <1>2, <2>1 DEF Reset, Forget, Types, TypeOK, rows, clientVars
<1>3. CASE ListRow(d)
  <2>1. CASE cal.exists
    <3>1. UNCHANGED <<token, view, todo, report, tokenOf, rows, lock, clientVars, incarnation>>
      BY <1>3, <2>1 DEF ListRow
    <3>2. /\ dpc' = [dpc EXCEPT ![d] = "row"] /\ row' = [row EXCEPT ![d] = revision]
          /\ rowOf' = [rowOf EXCEPT ![d] = incarnation]
      BY <1>3, <2>1 DEF ListRow
    <3>3. /\ dpc' \in [Devices -> {"idle", "row", "objects"}]
          /\ row' \in [Devices -> Nat] /\ rowOf' \in [Devices -> Nat]
      BY <3>2 DEF Types, TypeOK
    <3> QED
      BY <3>1, <3>3 DEF Types, TypeOK, rows, clientVars
  <2>2. CASE ~cal.exists
    BY <1>2, <1>3, <2>2 DEF ListRow
  <2> QED
    BY <2>1, <2>2
<1>4. ASSUME NEW contents \in [ObjectIds -> Events \cup {NoEvent}], NEW ids \in SUBSET ObjectIds,
             Read(d, contents, ids)
      PROVE  Types'
  BY <1>4 DEF Read, Types, TypeOK, rows, clientVars
<1>5. CASE ListAll(d)
  BY <1>1, <1>4, <1>5 DEF ListAll
<1>6. CASE ListChanges(d)
  <2>1. CASE Reset(d)
    BY <1>2, <2>1
  <2>2. CASE ~Reset(d)
    <3> DEFINE deleted == {ch.id : ch \in {ch \in Latest(d) : ch.deleted}}
               contents == [o \in ObjectIds |-> IF o \in deleted THEN NoEvent ELSE view[d][o]]
               ids == {ch.id : ch \in Latest(d)} \ deleted
    <3>1. Read(d, contents, ids)
      BY <1>6, <2>2 DEF ListChanges
    <3>2. contents \in [ObjectIds -> Events \cup {NoEvent}]
      BY DEF Types, TypeOK
    <3>3. ids \subseteq ObjectIds
      BY DEF Latest, Past, Types, TypeOK
    <3> HIDE DEF contents, ids
    <3> QED
      BY <1>4, <3>1, <3>2, <3>3
  <2> QED
    BY <2>1, <2>2
<1>7. CASE ListObject(d)
  BY <1>1, <1>7 DEF ListObject, Types, TypeOK, rows, clientVars
<1>8. CASE Deliver(d)
  <2>1. Origin(d) \in Nat
    BY DEF Origin, Types, TypeOK
  <2> QED
    BY <1>1, <1>8, <2>1 DEF Deliver, Forget, Types, TypeOK, rows, clientVars
<1>9. CASE ListFails(d)
  BY <1>1, <1>9 DEF ListFails, Forget, Types, TypeOK, rows, clientVars
<1> QED
  BY <1>3, <1>5, <1>6, <1>7, <1>8, <1>9 DEF DeviceNext

-----------------------------------------------------------------------------
(* The row lock. *)

LEMMA LockInit == Init => CallInv /\ LockInv /\ StagedInv /\ GoneInv
  BY DEF Init, CallInv, LockInv, StagedInv, GoneInv, Contract!EmptyCalendar, Contract!NoCalendar

\* What a transaction that does not commit leaves alone.
LEMMA NoCommitKeepsRows ==
  ASSUME Types, CallInv, NEW c \in Clients, ClientNext(c), ~Commit(c)
  PROVE  UNCHANGED <<rows, incarnation>>
<1>1. ASSUME NEW error, Throw(c, error) PROVE UNCHANGED <<rows, incarnation>>
  BY <1>1 DEF Throw
<1>2. CASE Execute(c)
  BY <1>1, <1>2, ExecuteThrowsOrStages DEF Stage
<1> QED
  BY <1>1, <1>2 DEF ClientNext, Issue, Resolve, CheckNoCollection, InsertCollection,
    ConnectionFails, Return

LEMMA ClientsKeepDevices ==
  ASSUME Types, CallInv, NEW c \in Clients, ClientNext(c)
  PROVE  UNCHANGED deviceVars
<1>1. ASSUME NEW error, Throw(c, error) PROVE UNCHANGED deviceVars
  BY <1>1 DEF Throw
<1>2. CASE Execute(c)
  BY <1>1, <1>2, ExecuteThrowsOrStages DEF Stage
<1> QED
  BY <1>1, <1>2 DEF ClientNext, Issue, Resolve, CheckNoCollection, InsertCollection,
    ConnectionFails, Return, Commit

LEMMA DevicesKeepClients ==
  ASSUME NEW d \in Devices, DeviceNext(d)
  PROVE  UNCHANGED <<rows, lock, clientVars, incarnation>>
  BY DEF DeviceNext, ListRow, ListAll, ListChanges, ListObject, Deliver, ListFails, Read, Reset

\* A step of client c leaves another client's transaction alone.
LEMMA OthersUntouched ==
  ASSUME Types, CallInv, NEW c \in Clients, ClientNext(c), NEW d \in Clients, d # c
  PROVE  /\ pc'[d] = pc[d] /\ req'[d] = req[d] /\ staged'[d] = staged[d]
         /\ answer'[d] = answer[d]
<1>1. ASSUME NEW error, Throw(c, error)
      PROVE  /\ pc'[d] = pc[d] /\ req'[d] = req[d] /\ staged'[d] = staged[d]
             /\ answer'[d] = answer[d]
  BY <1>1 DEF Throw, Types, TypeOK
<1>2. ASSUME NEW write, Stage(c, write)
      PROVE  /\ pc'[d] = pc[d] /\ req'[d] = req[d] /\ staged'[d] = staged[d]
             /\ answer'[d] = answer[d]
  BY <1>2 DEF Stage, Types, TypeOK
<1>3. CASE Execute(c)
  BY <1>1, <1>2, <1>3, ExecuteThrowsOrStages
<1>4. CASE Issue(c) \/ Return(c) \/ Commit(c)
  <2>1. \A q : [req EXCEPT ![c] = q][d] = req[d]
    OBVIOUS
  <2> QED
    BY <1>4, <2>1 DEF Issue, Return, Commit, Types, TypeOK
<1>5. CASE Resolve(c)
  BY <1>1, <1>5 DEF Resolve, Types, TypeOK
<1>6. CASE CheckNoCollection(c)
  BY <1>1, <1>6 DEF CheckNoCollection, Types, TypeOK
<1>7. CASE InsertCollection(c)
  BY <1>1, <1>7 DEF InsertCollection, Types, TypeOK
<1>8. CASE ConnectionFails(c)
  BY <1>1, <1>8 DEF ConnectionFails
<1> QED
  BY <1>3, <1>4, <1>5, <1>6, <1>7, <1>8 DEF ClientNext

\* What giving an attempt up, and staging a write, do to the transaction itself.
LEMMA ThrowStep ==
  ASSUME Types, CallInv, NEW c \in Clients, NEW error \in Errors, Throw(c, error), pc[c] # "idle"
  PROVE  /\ pc'[c] \in {"begin", "replied"} /\ req'[c] = req[c] /\ req[c] # NoRequest
         /\ pc'[c] = "replied" => answer'[c] = error
         /\ lock' = lock \/ (lock = c /\ lock' = NoClient)
  BY DEF Throw, Unlock, Types, TypeOK, CallInv

LEMMA StageStep ==
  ASSUME Types, NEW c \in Clients, NEW write, Stage(c, write)
  PROVE  pc'[c] = "written" /\ staged'[c] = write /\ UNCHANGED <<cal, req, lock>>
  BY DEF Stage, Types, TypeOK, rows

\* The client that takes a step gives its transaction up, or holds the lock and
\* has staged what it evaluated.
LEMMA ExecuteStages ==
  ASSUME Types, CallInv, LockInv, NEW c \in Clients, Execute(c), pc'[c] = "written"
  PROVE  StagedOK(c)'
<1>1. pc[c] = "resolved" /\ lock = c /\ cal.exists /\ Permitted(c, Needs(c))
  BY ExecuteThrowsOrStages DEF LockInv
<1>2. ASSUME NEW error, Throw(c, error) PROVE FALSE
  BY <1>2 DEF Throw, Types, TypeOK
<1>3. ASSUME NEW write, Stage(c, write)
      PROVE  staged'[c] = write /\ UNCHANGED <<cal, req>> /\ req'[c] = req[c]
  BY <1>3, StageStep
<1>4. CASE CreateObject(c)
  BY <1>1, <1>2, <1>3, <1>4
  DEF CreateObject, Resolved, StagedOK, CreateStaged, MayWrite, Op, Needs, Permitted, Stored,
      ObjectWrite, Contract!ObjectOps
<1>5. CASE RefuseUnmatched(c)
  BY <1>2, <1>5 DEF RefuseUnmatched
<1>6. CASE UpdateObject(c)
  BY <1>1, <1>2, <1>3, <1>6
  DEF UpdateObject, Resolved, StagedOK, UpdateStaged, MayWrite, Op, Needs, Permitted, Stored,
      Matches, ObjectWrite, Contract!ObjectOps
<1>7. CASE DeleteObject(c)
  BY <1>1, <1>2, <1>3, <1>7
  DEF DeleteObject, Resolved, StagedOK, DeleteStaged, MayWrite, Op, Needs, Permitted, Stored,
      Matches, ObjectWrite, Contract!ObjectOps
<1>8. CASE RefuseNotOwner(c)
  BY <1>2, <1>8 DEF RefuseNotOwner
<1>9. CASE SetAcl(c)
  BY <1>1, <1>2, <1>3, <1>9 DEF SetAcl, Resolved, StagedOK, ShareStaged, MayOwn, Op
<1>10. CASE RevokeAcl(c)
  BY <1>1, <1>2, <1>3, <1>10 DEF RevokeAcl, Resolved, StagedOK, RevokeStaged, MayOwn, Op
<1>11. CASE DeleteCollection(c)
  BY <1>1, <1>2, <1>3, <1>11 DEF DeleteCollection, Resolved, StagedOK, DropStaged, MayOwn, Op
<1> QED
  BY <1>4, <1>5, <1>6, <1>7, <1>8, <1>9, <1>10, <1>11 DEF Execute

LEMMA OwnStep ==
  ASSUME Types, CallInv, LockInv, StagedInv, NEW c \in Clients, ClientNext(c)
  PROVE  /\ pc'[c] = "idle" <=> req'[c] = NoRequest
         /\ pc'[c] = "replied" => answer'[c] # "none"
         /\ pc'[c] \in {"resolved", "written"} => lock' = c /\ UNCHANGED rows
         /\ pc'[c] = "resolved" => ~Creates(c)' /\ cal'.exists /\ Permitted(c, Needs(c))'
         /\ pc'[c] = "checked" => c = Owner /\ Creates(c)'
         /\ pc'[c] = "written" => StagedOK(c)'
         /\ lock' = lock \/ lock = NoClient \/ (lock = c /\ lock' = NoClient)
<1> DEFINE Goal ==
      /\ pc'[c] = "idle" <=> req'[c] = NoRequest
      /\ pc'[c] = "replied" => answer'[c] # "none"
      /\ pc'[c] \in {"resolved", "written"} => lock' = c /\ UNCHANGED rows
      /\ pc'[c] = "resolved" => ~Creates(c)' /\ cal'.exists /\ Permitted(c, Needs(c))'
      /\ pc'[c] = "checked" => c = Owner /\ Creates(c)'
      /\ pc'[c] = "written" => StagedOK(c)'
      /\ lock' = lock \/ lock = NoClient \/ (lock = c /\ lock' = NoClient)
<1>1. ASSUME NEW error \in Errors, Throw(c, error), pc[c] # "idle" PROVE Goal
  BY <1>1, ThrowStep DEF Errors
<1>2. CASE Issue(c)
  <2>1. PICK q \in Issued[c] : req' = [req EXCEPT ![c] = q]
    BY <1>2 DEF Issue
  <2>2. q # NoRequest
    BY <2>1, IssuedAssumption
  <2>3. req'[c] = q
    BY <2>1 DEF Types, TypeOK
  <2> QED
    BY <1>2, <2>2, <2>3 DEF Issue, Types, TypeOK
<1>3. CASE Resolve(c)
  <2>1. CASE \E error \in Errors : Throw(c, error)
    BY <1>1, <1>3, <2>1 DEF Resolve
  <2>2. CASE ~\E error \in Errors : Throw(c, error)
    <3>1. /\ pc[c] = "begin" /\ ~Creates(c) /\ cal.exists /\ lock = NoClient /\ Permitted(c, Needs(c))
          /\ lock' = c /\ pc' = [pc EXCEPT ![c] = "resolved"]
          /\ UNCHANGED <<rows, req, attempt, staged, answer, deviceVars, incarnation>>
      BY <1>3, <2>2 DEF Resolve, Errors
    <3>2. pc'[c] = "resolved"
      BY <3>1 DEF Types, TypeOK
    <3>3. req[c] # NoRequest
      BY <3>1 DEF CallInv
    <3>4. cal' = cal /\ req' = req
      BY <3>1 DEF rows
    <3> QED
      BY <3>1, <3>2, <3>3, <3>4 DEF Creates, Op, Permitted, Needs
  <2> QED
    BY <2>1, <2>2
<1>4. CASE Execute(c)
  <2>1. pc[c] = "resolved" /\ lock = c /\ req[c] # NoRequest
    BY <1>4, ExecuteThrowsOrStages DEF LockInv, CallInv
  <2>2. CASE \E error \in Errors : Throw(c, error)
    BY <1>1, <2>1, <2>2
  <2>3. ASSUME NEW write, Stage(c, write) PROVE Goal
    BY <1>4, <2>1, <2>3, StageStep, ExecuteStages DEF Stage, rows
  <2> QED
    BY <1>4, <2>2, <2>3, ExecuteThrowsOrStages
<1>5. CASE CheckNoCollection(c)
  <2>0. pc[c] = "begin" /\ Creates(c) /\ req[c] # NoRequest
    BY <1>5 DEF CheckNoCollection, CallInv
  <2>1. CASE Throw(c, "CALENDAR_EXISTS")
    BY <1>1, <2>0, <2>1 DEF Errors
  <2>2. CASE ~Throw(c, "CALENDAR_EXISTS")
    BY <1>5, <2>0, <2>2 DEF CheckNoCollection, Types, TypeOK, Creates, Op
  <2> QED
    BY <2>1, <2>2
<1>6. CASE InsertCollection(c)
  <2>0. pc[c] = "checked" /\ c = Owner /\ Creates(c) /\ req[c] # NoRequest
    BY <1>6 DEF InsertCollection, CallInv, LockInv
  <2>1. CASE Throw(c, "UNAVAILABLE")
    BY <1>1, <2>0, <2>1 DEF Errors
  <2>2. CASE ~Throw(c, "UNAVAILABLE")
    BY <1>6, <2>0, <2>2
    DEF InsertCollection, Types, TypeOK, Creates, Op, StagedOK, NewStaged, rows
  <2> QED
    BY <2>1, <2>2
<1>7. CASE Commit(c)
  <2>1. pc[c] = "written" /\ lock = c /\ req[c] # NoRequest
    BY <1>7 DEF Commit, LockInv, CallInv
  <2> QED
    BY <1>7, <2>1 DEF Commit, Unlock, Types, TypeOK
<1>8. CASE ConnectionFails(c)
  BY <1>1, <1>8 DEF ConnectionFails, Errors
<1>9. CASE Return(c)
  BY <1>9 DEF Return, Types, TypeOK
<1> QED
  BY <1>2, <1>3, <1>4, <1>5, <1>6, <1>7, <1>8, <1>9 DEF ClientNext

\* A transaction that holds the row is disturbed by nobody.
LEMMA LockStep ==
  ASSUME Types, CallInv, LockInv, StagedInv, [Next]_vars
  PROVE  CallInv' /\ LockInv' /\ StagedInv'
<1>1. ASSUME NEW c \in Clients, ClientNext(c)
      PROVE  CallInv' /\ LockInv' /\ StagedInv'
  <2>1. ASSUME NEW d \in Clients, d # c, pc[d] \in {"resolved", "written"}
        PROVE  lock' = d /\ UNCHANGED cal
    <3>1. lock = d
      BY <2>1 DEF LockInv
    <3>2. lock' = d
      BY <1>1, <2>1, <3>1, OwnStep, CalendarAssumption
    <3>3. ~Commit(c)
      BY <2>1, <3>1 DEF Commit, LockInv
    <3> QED
      BY <1>1, <3>2, <3>3, NoCommitKeepsRows DEF rows
  <2>2. ASSUME NEW d \in Clients, d # c
        PROVE  /\ pc'[d] = pc[d] /\ req'[d] = req[d] /\ staged'[d] = staged[d]
               /\ answer'[d] = answer[d]
    BY <1>1, <2>2, OthersUntouched
  <2>3. CallInv'
    BY <1>1, <2>2, OwnStep DEF CallInv
  <2>4. ASSUME NEW d \in Clients, d # c, pc[d] = "resolved"
        PROVE  ~Creates(d)' /\ cal'.exists /\ Permitted(d, Needs(d))'
    BY <2>1, <2>2, <2>4 DEF LockInv, Creates, Op, Permitted, Needs
  <2>5. LockInv'
    <3> SUFFICES ASSUME NEW d \in Clients
                 PROVE  /\ pc'[d] \in {"resolved", "written"} => lock' = d
                        /\ pc'[d] = "resolved" => ~Creates(d)' /\ cal'.exists /\ Permitted(d, Needs(d))'
                        /\ pc'[d] = "checked" => d = Owner /\ Creates(d)'
      BY DEF LockInv
    <3>1. CASE d = c
      BY <1>1, <3>1, OwnStep
    <3>2. CASE d # c
      BY <2>1, <2>2, <2>4, <3>2 DEF LockInv, Creates, Op
    <3> QED
      BY <3>1, <3>2
  <2>6. ASSUME NEW d \in Clients, d # c, pc[d] = "written"
        PROVE  StagedOK(d)'
    <3>1. StagedOK(d) /\ cal' = cal /\ req'[d] = req[d] /\ staged'[d] = staged[d]
      BY <2>1, <2>2, <2>6 DEF StagedInv
    <3> QED
      BY <3>1 DEF StagedOK, CreateStaged, UpdateStaged, DeleteStaged, ShareStaged, RevokeStaged,
        DropStaged, NewStaged, MayWrite, MayOwn, Op, Creates, Permitted, Stored, Matches, ObjectWrite
  <2>7. StagedInv'
    BY <1>1, <2>2, <2>6, OwnStep DEF StagedInv
  <2> QED
    BY <2>3, <2>5, <2>7
<1>2. CASE UNCHANGED <<cal, lock, pc, req, staged, answer>>
  BY <1>2 DEF CallInv, LockInv, StagedInv, StagedOK, CreateStaged, UpdateStaged, DeleteStaged,
    ShareStaged, RevokeStaged, DropStaged, NewStaged, MayWrite, MayOwn, Op, Creates, Needs,
    Permitted, Stored, Matches, ObjectWrite
<1>3. ASSUME NEW d \in Devices, DeviceNext(d)
      PROVE  UNCHANGED <<cal, lock, pc, req, staged, answer>>
  BY <1>3, DevicesKeepClients DEF rows, clientVars
<1>4. CASE UNCHANGED vars
  BY <1>2, <1>4 DEF vars, rows, clientVars
<1> QED
  BY <1>1, <1>2, <1>3, <1>4 DEF Next

-----------------------------------------------------------------------------
(* What a commit does to the rows. *)

ObjectCommitted(o, event) ==
    /\ cal.exists /\ cal'.exists
    /\ cal'.objects = [cal.objects EXCEPT ![o] = event]
    /\ revision' = revision + 1 /\ incarnation' = incarnation
    /\ changes' = changes \cup {[revision |-> revision + 1, id |-> o, deleted |-> event = NoEvent]}

AclCommitted ==
    /\ cal.exists /\ cal'.exists /\ cal'.objects = cal.objects
    /\ UNCHANGED <<revision, changes, incarnation>>

DropCommitted ==
    /\ cal' = Contract!NoCalendar /\ revision' = 0 /\ changes' = {}
    /\ UNCHANGED incarnation

NewCommitted ==
    /\ ~cal.exists /\ cal' = Contract!EmptyCalendar
    /\ UNCHANGED <<revision, changes>> /\ incarnation' = incarnation + 1

LEMMA CommitShape ==
  ASSUME Types, CallInv, LockInv, StagedInv, NEW c \in Clients, Commit(c)
  PROVE  \/ \E o \in ObjectIds, event \in Events \cup {NoEvent} : ObjectCommitted(o, event)
         \/ AclCommitted \/ DropCommitted \/ NewCommitted
<1>1. pc[c] = "written" /\ StagedOK(c) /\ cal \in Contract!Calendars
  BY DEF Commit, StagedInv, Types, TypeOK
<1>2. ASSUME NEW o \in ObjectIds, NEW event \in Events \cup {NoEvent}, cal.exists,
             staged[c] = [kind |-> "object", id |-> o, event |-> event]
      PROVE  ObjectCommitted(o, event)
  <2>1. CommitObject(staged[c]) /\ incarnation' = incarnation
    BY <1>2 DEF Commit
  <2> QED
    BY <1>1, <1>2, <2>1 DEF CommitObject, ObjectCommitted, Contract!Calendars
<1>3. CASE CreateStaged(c) \/ UpdateStaged(c) \/ DeleteStaged(c)
  <2>1. req[c].id \in ObjectIds /\ Op(c) \in Contract!ObjectOps
    BY <1>1, <1>3, RequestType DEF CreateStaged, UpdateStaged, DeleteStaged, MayWrite, Contract!ObjectOps
  <2>2. CASE CreateStaged(c) \/ UpdateStaged(c)
    <3>1. req[c].event \in Events
      BY <1>1, <2>2, RequestType DEF CreateStaged, UpdateStaged, MayWrite
    <3> QED
      BY <1>2, <2>1, <2>2, <3>1 DEF CreateStaged, UpdateStaged, MayWrite, ObjectWrite
  <2>3. CASE DeleteStaged(c)
    BY <1>2, <2>1, <2>3 DEF DeleteStaged, MayWrite, ObjectWrite
  <2> QED
    BY <1>3, <2>2, <2>3
<1>4. CASE ShareStaged(c) \/ RevokeStaged(c)
  <2>1. PICK acl : staged[c] = [kind |-> "acl", acl |-> acl] /\ cal.exists
    BY <1>4 DEF ShareStaged, RevokeStaged, MayOwn
  <2> QED
    BY <1>1, <2>1 DEF Commit, AclCommitted, Contract!Calendars
<1>5. CASE DropStaged(c)
  BY <1>5 DEF DropStaged, Commit, DropCommitted
<1>6. CASE NewStaged(c)
  BY <1>6 DEF NewStaged, Commit, NewCommitted
<1> QED
  BY <1>1, <1>3, <1>4, <1>5, <1>6 DEF StagedOK

LEMMA RowsStep ==
  ASSUME Types, CallInv, LockInv, StagedInv, [Next]_vars
  PROVE  \/ UNCHANGED <<rows, incarnation>>
         \/ /\ \E c \in Clients : ClientNext(c)
            /\ \/ \E o \in ObjectIds, event \in Events \cup {NoEvent} : ObjectCommitted(o, event)
               \/ AclCommitted \/ DropCommitted \/ NewCommitted
<1>1. ASSUME NEW c \in Clients, ClientNext(c), ~Commit(c)
      PROVE  UNCHANGED <<rows, incarnation>>
  BY <1>1, NoCommitKeepsRows
<1>2. ASSUME NEW d \in Devices, DeviceNext(d)
      PROVE  UNCHANGED <<rows, incarnation>>
  BY <1>2, DevicesKeepClients
<1> QED
  BY <1>1, <1>2, CommitShape DEF Next, vars

-----------------------------------------------------------------------------
(* The change log. *)

LEMMA GoneStep ==
  ASSUME Types, CallInv, LockInv, StagedInv, GoneInv, [Next]_vars
  PROVE  GoneInv'
<1>1. CASE UNCHANGED <<rows, incarnation>>
  BY <1>1 DEF GoneInv, rows
<1>2. ASSUME NEW o \in ObjectIds, NEW event, ObjectCommitted(o, event) PROVE GoneInv'
  BY <1>2 DEF ObjectCommitted, GoneInv
<1>3. CASE AclCommitted \/ DropCommitted \/ NewCommitted
  BY <1>3 DEF AclCommitted, DropCommitted, NewCommitted, GoneInv, Contract!NoCalendar, Contract!EmptyCalendar
<1> QED
  BY <1>1, <1>2, <1>3, RowsStep

LEMMA LogInit == Init => LogInv
  BY DEF Init, LogInv, Contract!EmptyCalendar, Contract!NoCalendar

LEMMA LogStep ==
  ASSUME Types, CallInv, LockInv, StagedInv, GoneInv, LogInv, [Next]_vars
  PROVE  LogInv'
<1>0. cal \in Contract!Calendars /\ revision \in Nat
      /\ \A ch \in changes : ch.revision \in Nat
  BY DEF Types, TypeOK
<1>1. CASE UNCHANGED <<cal, revision, changes>>
  BY <1>1 DEF LogInv, LastChange
<1>2. CASE AclCommitted
  BY <1>2 DEF AclCommitted, LogInv, LastChange
<1>3. CASE DropCommitted
  BY <1>3 DEF DropCommitted, LogInv, Contract!NoCalendar
<1>4. CASE NewCommitted
  <2>1. revision' = 0 /\ changes' = {}
    BY <1>4 DEF NewCommitted, GoneInv
  <2> QED
    BY <1>4, <2>1 DEF NewCommitted, LogInv, Contract!NoCalendar, Contract!EmptyCalendar
<1>5. ASSUME NEW o \in ObjectIds, NEW event \in Events \cup {NoEvent}, ObjectCommitted(o, event)
      PROVE  LogInv'
  <2>1. PICK new : new = [revision |-> revision + 1, id |-> o, deleted |-> event = NoEvent]
    OBVIOUS
  <2>a. new.revision = revision + 1 /\ new.id = o /\ new.deleted = (event = NoEvent)
    BY <2>1
  <2>b. revision' = revision + 1 /\ changes' = changes \cup {new}
    BY <1>5, <2>1 DEF ObjectCommitted
  <2>c. \A ch \in changes : ch.revision < revision + 1 /\ ch.revision # 0
    BY <1>0 DEF LogInv
  <2>2. /\ new.revision = revision' /\ new.id = o /\ (new.deleted <=> event = NoEvent)
        /\ revision' = revision + 1 /\ changes' = changes \cup {new}
        /\ \A ch \in changes : ch.revision < revision' /\ ch.revision # 0
    BY <2>a, <2>b, <2>c
  <2>3. /\ cal'.objects[o] = event
        /\ \A p \in ObjectIds \ {o} : cal'.objects[p] = cal.objects[p]
    BY <1>0, <1>5 DEF ObjectCommitted, Contract!Calendars
  <2>4. \A ch \in changes' : ch.revision \in 1 .. revision'
    BY <1>0, <2>2 DEF LogInv
  <2>5. \A v \in 1 .. revision' : \E ch \in changes' : ch.revision = v
    <3> SUFFICES ASSUME NEW v \in 1 .. revision', v # revision'
                 PROVE  \E ch \in changes : ch.revision = v
      BY <2>2
    <3>1. v \in 1 .. revision
      BY <1>0, <2>2
    <3> QED
      BY <3>1 DEF LogInv
  <2>6. \A ch, other \in changes' : ch.revision = other.revision => ch = other
    BY <2>2 DEF LogInv
  <2>7. ASSUME NEW p \in ObjectIds
        PROVE  \/ cal'.objects[p] = NoEvent /\ \A ch \in changes' : ch.id # p
               \/ \E ch \in changes' : LastChange(p, ch)' /\ (ch.deleted <=> cal'.objects[p] = NoEvent)
    <3>1. CASE p = o
      <4>1. \A ch \in changes' : ch.revision <= new.revision
        BY <1>0, <2>2
      <4> QED
        BY <2>2, <2>3, <3>1, <4>1 DEF LastChange
    <3>2. CASE p # o
      BY <2>2, <2>3, <3>2 DEF LogInv, LastChange
    <3> QED
      BY <3>1, <3>2
  <2> QED
    BY <2>4, <2>5, <2>6, <2>7 DEF LogInv
<1> QED
  BY <1>1, <1>2, <1>3, <1>4, <1>5, RowsStep DEF rows

LEMMA LogInvImpliesLogExplainsObjects == Types /\ LogInv => LogExplainsObjects
<1> SUFFICES ASSUME Types, LogInv PROVE LogExplainsObjects
  OBVIOUS
<1>1. {ch.revision : ch \in changes} = 1 .. revision
  BY DEF LogInv
<1>2. ASSUME NEW ch \in changes,
             \A other \in changes : other.id = ch.id => other.revision <= ch.revision
      PROVE  ch.deleted <=> cal.objects[ch.id] = NoEvent
  <2>1. ch.id \in ObjectIds /\ \A other \in changes : other.revision \in Nat
    BY DEF Types, TypeOK
  <2>2. PICK last \in changes : LastChange(ch.id, last)
                                 /\ (last.deleted <=> cal.objects[ch.id] = NoEvent)
    BY <2>1 DEF LogInv
  <2>3. last.revision = ch.revision
    BY <1>2, <2>1, <2>2 DEF LastChange
  <2> QED
    BY <2>2, <2>3 DEF LogInv
<1> QED
  BY <1>1, <1>2 DEF LogInv, LogExplainsObjects

-----------------------------------------------------------------------------
(* The devices. *)

LEMMA SyncInit == Init => SyncInv
  BY DEF Init, SyncInv, SyncSound

\* The parts of SyncInv for one device.
Numbers(d) ==
    /\ tokenOf[d] <= incarnation /\ rowOf[d] <= incarnation
    /\ dpc[d] # "idle" /\ rowOf[d] = incarnation /\ cal.exists => row[d] <= revision

Report(d) ==
    dpc[d] = "objects" /\ Origin(d) = incarnation /\ cal.exists =>
        \A o \in ObjectIds : Listed(d, o)

Copy(d) ==
    token[d] # NoToken /\ tokenOf[d] = incarnation /\ cal.exists =>
        /\ token[d] <= revision
        /\ \A o \in ObjectIds : (\A ch \in Past(d) : ch.id # o) => view[d][o] = cal.objects[o]

LEMMA SyncByDevice ==
  SyncInv <=> incarnation # 0 /\ \A d \in Devices : Numbers(d) /\ Report(d) /\ Copy(d)
  BY DEF SyncInv, SyncSound, Numbers, Report, Copy

\* A commit is past every token and every row, or starts another incarnation.
LEMMA ClientSyncStep ==
  ASSUME Types, CallInv, LockInv, StagedInv, LogInv, SyncInv, [Next]_vars, UNCHANGED deviceVars
  PROVE  SyncInv'
<1>0. /\ incarnation \in Nat \ {0} /\ revision \in Nat /\ cal \in Contract!Calendars
      /\ \A d \in Devices : tokenOf[d] \in Nat /\ rowOf[d] \in Nat /\ row[d] \in Nat
                             /\ token[d] \in Nat \cup {NoToken}
  BY DEF Types, TypeOK, SyncInv
<1>i. incarnation' # 0
  <2>1. incarnation' = incarnation \/ incarnation' = incarnation + 1
    BY RowsStep DEF ObjectCommitted, AclCommitted, DropCommitted, NewCommitted
  <2> QED
    BY <1>0, <2>1
<1> SUFFICES ASSUME NEW d \in Devices
             PROVE  Numbers(d)' /\ Report(d)' /\ Copy(d)'
  BY <1>i DEF SyncInv, SyncSound, Numbers, Report, Copy
<1>1. Numbers(d) /\ Report(d) /\ Copy(d)
  BY SyncByDevice
<1>2. /\ dpc'[d] = dpc[d] /\ token'[d] = token[d] /\ view'[d] = view[d] /\ row'[d] = row[d]
      /\ todo'[d] = todo[d] /\ report'[d] = report[d] /\ tokenOf'[d] = tokenOf[d]
      /\ rowOf'[d] = rowOf[d]
  BY DEF deviceVars
<1>3. CASE UNCHANGED <<rows, incarnation>>
  BY <1>0, <1>1, <1>2, <1>3 DEF rows, Numbers, Report, Copy, Origin, Listed, Past
<1>4. CASE AclCommitted
  BY <1>0, <1>1, <1>2, <1>4 DEF AclCommitted, Numbers, Report, Copy, Origin, Listed, Past
<1>5. CASE DropCommitted
  <2>1. ~cal'.exists /\ incarnation' = incarnation
    BY <1>5 DEF DropCommitted, Contract!NoCalendar
  <2> QED
    BY <1>0, <1>1, <1>2, <2>1 DEF Numbers, Report, Copy
<1>6. CASE NewCommitted
  <2>1. incarnation' = incarnation + 1
    BY <1>6 DEF NewCommitted
  <2>2. tokenOf'[d] < incarnation' /\ rowOf'[d] < incarnation'
    BY <1>0, <1>1, <1>2, <2>1 DEF Numbers
  <2>3. Origin(d)' # incarnation'
    BY <1>0, <2>1, <2>2 DEF Origin
  <2> QED
    BY <1>0, <1>2, <2>1, <2>2, <2>3 DEF Numbers, Report, Copy
<1>7. ASSUME NEW o \in ObjectIds, NEW event \in Events \cup {NoEvent}, ObjectCommitted(o, event)
      PROVE  Numbers(d)' /\ Report(d)' /\ Copy(d)'
  <2>1. PICK new : new = [revision |-> revision + 1, id |-> o, deleted |-> event = NoEvent]
    OBVIOUS
  <2>2. /\ new.revision = revision + 1 /\ new.id = o /\ new \in changes'
        /\ changes' = changes \cup {new} /\ incarnation' = incarnation
        /\ revision' = revision + 1 /\ cal.exists /\ cal'.exists
    BY <1>7, <2>1 DEF ObjectCommitted
  <2>3. \A p \in ObjectIds \ {o} : cal'.objects[p] = cal.objects[p]
    BY <1>0, <1>7 DEF ObjectCommitted, Contract!Calendars
  <2>4. Numbers(d)'
    BY <1>0, <1>1, <1>2, <2>2 DEF Numbers
  <2>5. Report(d)'
    <3> SUFFICES ASSUME dpc[d] = "objects", Origin(d)' = incarnation', NEW p \in ObjectIds
                 PROVE  Listed(d, p)'
      BY <1>2 DEF Report
    <3>1. Origin(d) = incarnation /\ row[d] <= revision
      BY <1>0, <1>1, <1>2, <2>2 DEF Origin, Numbers
    <3>2. Listed(d, p)
      BY <1>1, <2>2, <3>1 DEF Report
    <3>3. CASE p = o
      <4>1. new.revision > row'[d]
        BY <1>0, <1>2, <2>2, <3>1
      <4> QED
        BY <2>2, <3>3, <4>1 DEF Listed
    <3>4. CASE p # o
      BY <1>2, <2>2, <2>3, <3>2, <3>4 DEF Listed
    <3> QED
      BY <3>3, <3>4
  <2>6. Copy(d)'
    <3> SUFFICES ASSUME token[d] # NoToken, tokenOf[d] = incarnation
                 PROVE  /\ token[d] <= revision'
                        /\ \A p \in ObjectIds :
                             (\A ch \in Past(d)' : ch.id # p) => view[d][p] = cal'.objects[p]
      BY <1>2, <2>2 DEF Copy
    <3>1. token[d] \in Nat /\ token[d] <= revision
      BY <1>0, <1>1, <2>2 DEF Copy
    <3>2. new \in Past(d)' /\ \A ch \in Past(d) : ch \in Past(d)'
      <4>1. new.revision > token[d]
        BY <1>0, <2>2, <3>1
      <4> QED
        BY <1>2, <2>2, <4>1 DEF Past
    <3>3. ASSUME NEW p \in ObjectIds, \A ch \in Past(d)' : ch.id # p
          PROVE  view[d][p] = cal'.objects[p]
      <4>1. p # o
        BY <2>2, <3>2, <3>3
      <4> QED
        BY <1>1, <2>2, <2>3, <3>2, <3>3, <4>1 DEF Copy
    <3> QED
      BY <1>0, <2>2, <3>1, <3>3
  <2> QED
    BY <1>0, <2>2, <2>4, <2>5, <2>6
<1> QED
  BY <1>3, <1>4, <1>5, <1>6, <1>7, RowsStep

\* A listing of changes leaves an object as the calendar has it, or still to be read.
LEMMA ChangesListed ==
  ASSUME Types, LogInv, SyncInv, NEW d \in Devices,
         token[d] # NoToken, tokenOf[d] = incarnation, cal.exists,
         NEW deleted, deleted = {ch.id : ch \in {ch \in Latest(d) : ch.deleted}},
         NEW o \in ObjectIds
  PROVE  \/ o \in {ch.id : ch \in Latest(d)} \ deleted
         \/ (IF o \in deleted THEN NoEvent ELSE view[d][o]) = cal.objects[o]
<1>0. /\ \A ch \in changes : ch.revision \in Nat
      /\ token[d] \in Nat
  BY DEF Types, TypeOK
<1>1. CASE \A ch \in Past(d) : ch.id # o
  <2>1. o \notin deleted
    BY <1>1 DEF Latest
  <2> QED
    BY <1>1, <2>1 DEF SyncInv, SyncSound
<1>2. CASE \E ch \in Past(d) : ch.id = o
  <2>1. PICK ch \in changes : LastChange(o, ch) /\ (ch.deleted <=> cal.objects[o] = NoEvent)
    BY <1>2 DEF LogInv, Past
  <2>2. ch \in Latest(d) /\ ch.id = o
    BY <1>0, <1>2, <2>1 DEF LastChange, Latest, Past
  <2>3. CASE ch.deleted
    <3>1. o \in deleted
      BY <2>2, <2>3
    <3> QED
      BY <2>1, <2>3, <3>1
  <2>4. CASE ~ch.deleted
    <3>1. \A other \in Latest(d) : other.id = o => other = ch
      <4> SUFFICES ASSUME NEW other \in Latest(d), other.id = o PROVE other = ch
        OBVIOUS
      <4>1. other.revision <= ch.revision /\ ch.revision <= other.revision
        BY <2>2 DEF Latest
      <4>2. other \in changes /\ other.revision = ch.revision
        BY <1>0, <4>1, <2>1 DEF Latest, Past
      <4> QED
        BY <2>1, <4>2 DEF LogInv
    <3>2. o \notin deleted
      BY <2>4, <3>1
    <3> QED
      BY <2>2, <3>2
  <2> QED
    BY <2>3, <2>4
<1> QED
  BY <1>1, <1>2

LEMMA DeviceSyncStep ==
  ASSUME Types, LogInv, SyncInv, NEW d \in Devices, DeviceNext(d)
  PROVE  SyncInv'
<1>0. /\ incarnation \in Nat \ {0} /\ revision \in Nat
      /\ tokenOf[d] \in Nat /\ rowOf[d] \in Nat /\ row[d] \in Nat /\ token[d] \in Nat \cup {NoToken}
      /\ Numbers(d) /\ Report(d) /\ Copy(d)
  BY SyncByDevice DEF Types, TypeOK, SyncInv
<1>u. UNCHANGED <<cal, revision, changes, incarnation>>
  BY DevicesKeepClients DEF rows
<1>1. ASSUME NEW e \in Devices, e # d
      PROVE  Numbers(e)' /\ Report(e)' /\ Copy(e)'
  <2>1. /\ dpc'[e] = dpc[e] /\ token'[e] = token[e] /\ view'[e] = view[e] /\ row'[e] = row[e]
        /\ todo'[e] = todo[e] /\ report'[e] = report[e] /\ tokenOf'[e] = tokenOf[e]
        /\ rowOf'[e] = rowOf[e]
    BY <1>1 DEF DeviceNext, ListRow, ListAll, ListChanges, ListObject, Deliver, ListFails, Read,
      Reset, Forget, Types, TypeOK
  <2>2. Numbers(e) /\ Report(e) /\ Copy(e)
    BY SyncByDevice
  <2> QED
    BY <1>u, <2>1, <2>2 DEF Numbers, Report, Copy, Origin, Listed, Past
<1> SUFFICES Numbers(d)' /\ Report(d)' /\ Copy(d)'
  BY <1>0, <1>1, <1>u DEF SyncInv, SyncSound, Numbers, Report, Copy
<1>2. ASSUME Reset(d) PROVE Numbers(d)' /\ Report(d)' /\ Copy(d)'
  <2>1. dpc'[d] = "idle" /\ token'[d] = NoToken /\ tokenOf'[d] = 0 /\ rowOf'[d] = 0
    BY <1>2 DEF Reset, Forget, Types, TypeOK
  <2> QED
    BY <1>0, <1>u, <2>1 DEF Numbers, Report, Copy
<1>3. ASSUME UNCHANGED <<token, view, tokenOf>> PROVE Copy(d)'
  BY <1>0, <1>3, <1>u DEF Copy, Past
<1>4. CASE ListRow(d)
  <2>1. CASE Reset(d)
    BY <1>2, <2>1
  <2>2. CASE ~Reset(d)
    <3>1. /\ UNCHANGED <<token, view, tokenOf>>
          /\ dpc' = [dpc EXCEPT ![d] = "row"] /\ row' = [row EXCEPT ![d] = revision]
          /\ rowOf' = [rowOf EXCEPT ![d] = incarnation]
      BY <1>4, <2>2 DEF ListRow
    <3>2. dpc'[d] = "row" /\ row'[d] = revision /\ rowOf'[d] = incarnation
      BY <3>1 DEF Types, TypeOK
    <3> QED
      BY <1>0, <1>3, <1>u, <3>1, <3>2 DEF Numbers, Report
  <2> QED
    BY <2>1, <2>2
<1>5. ASSUME NEW contents, NEW ids, Read(d, contents, ids), dpc[d] = "row",
             ASSUME Origin(d) = incarnation, cal.exists, NEW o \in ObjectIds
             PROVE  o \in ids \/ contents[o] = cal.objects[o]
      PROVE  Numbers(d)' /\ Report(d)' /\ Copy(d)'
  <2>1. /\ UNCHANGED <<token, view, row, tokenOf, rowOf>>
        /\ dpc'[d] = "objects" /\ report'[d] = contents /\ todo'[d] = ids
    BY <1>5 DEF Read, Types, TypeOK
  <2>2. Numbers(d)'
    BY <1>0, <1>5, <1>u, <2>1 DEF Numbers
  <2>3. Report(d)'
    BY <1>5, <1>u, <2>1 DEF Report, Origin, Listed
  <2> QED
    BY <1>3, <2>1, <2>2, <2>3
<1>6. CASE ListAll(d)
  BY <1>5, <1>6 DEF ListAll
<1>7. CASE ListChanges(d)
  <2>1. CASE Reset(d)
    BY <1>2, <2>1
  <2>2. CASE ~Reset(d)
    <3> DEFINE deleted == {ch.id : ch \in {ch \in Latest(d) : ch.deleted}}
               contents == [o \in ObjectIds |-> IF o \in deleted THEN NoEvent ELSE view[d][o]]
               ids == {ch.id : ch \in Latest(d)} \ deleted
    <3>1. Read(d, contents, ids) /\ dpc[d] = "row" /\ token[d] # NoToken
      BY <1>7, <2>2 DEF ListChanges
    <3>2. ASSUME Origin(d) = incarnation, cal.exists, NEW o \in ObjectIds
          PROVE  o \in ids \/ contents[o] = cal.objects[o]
      <4>1. tokenOf[d] = incarnation
        BY <1>0, <3>1, <3>2 DEF Origin
      <4> QED
        BY <3>1, <3>2, <4>1, ChangesListed
    <3> HIDE DEF contents, ids
    <3> QED
      BY <1>5, <3>1, <3>2
  <2> QED
    BY <2>1, <2>2
<1>8. CASE ListObject(d)
  <2>1. PICK o \in todo[d] : /\ report' = [report EXCEPT ![d][o] = cal.objects[o]]
                             /\ todo' = [todo EXCEPT ![d] = @ \ {o}]
    BY <1>8 DEF ListObject
  <2>2. /\ o \in ObjectIds /\ dpc[d] = "objects"
        /\ UNCHANGED <<dpc, token, view, row, tokenOf, rowOf>>
        /\ report'[d][o] = cal.objects[o]
        /\ \A p \in ObjectIds \ {o} : report'[d][p] = report[d][p]
        /\ todo'[d] = todo[d] \ {o}
    BY <1>8, <2>1 DEF ListObject, Types, TypeOK
  <2>3. Numbers(d)'
    BY <1>0, <1>u, <2>2 DEF Numbers
  <2>4. Report(d)'
    BY <1>0, <1>u, <2>2 DEF Report, Origin, Listed
  <2> QED
    BY <1>3, <2>2, <2>3, <2>4
<1>9. CASE Deliver(d)
  <2>1. /\ dpc[d] = "objects" /\ todo[d] = {} /\ dpc'[d] = "idle" /\ view'[d] = report[d]
        /\ token'[d] = row[d] /\ tokenOf'[d] = Origin(d) /\ rowOf'[d] = 0
    BY <1>9 DEF Deliver, Forget, Types, TypeOK
  <2>2. Origin(d) = incarnation \/ Origin(d) = 0
    BY DEF Origin
  <2>3. Numbers(d)' /\ Report(d)'
    BY <1>0, <1>u, <2>1, <2>2 DEF Numbers, Report
  <2>4. Copy(d)'
    <3> SUFFICES ASSUME Origin(d) = incarnation, cal.exists
                 PROVE  /\ row[d] <= revision
                        /\ \A o \in ObjectIds :
                             (\A ch \in Past(d)' : ch.id # o) => report[d][o] = cal.objects[o]
      BY <1>u, <2>1 DEF Copy
    <3>1. rowOf[d] = incarnation
      BY <1>0 DEF Origin
    <3>2. row[d] <= revision
      BY <1>0, <2>1, <3>1 DEF Numbers
    <3>3. ASSUME NEW o \in ObjectIds, \A ch \in Past(d)' : ch.id # o
          PROVE  report[d][o] = cal.objects[o]
      <4>1. Listed(d, o)
        BY <1>0, <2>1 DEF Report
      <4>2. \A ch \in changes : ch.id = o => ~(ch.revision > row[d])
        BY <1>u, <2>1, <3>3 DEF Past
      <4> QED
        BY <2>1, <4>1, <4>2 DEF Listed
    <3> QED
      BY <3>2, <3>3
  <2> QED
    BY <2>3, <2>4
<1>10. CASE ListFails(d)
  <2>1. UNCHANGED <<token, view, tokenOf>> /\ dpc'[d] = "idle" /\ rowOf'[d] = 0
    BY <1>10 DEF ListFails, Forget, Types, TypeOK
  <2> QED
    BY <1>0, <1>3, <1>u, <2>1 DEF Numbers, Report
<1> QED
  BY <1>4, <1>6, <1>7, <1>8, <1>9, <1>10 DEF DeviceNext

-----------------------------------------------------------------------------
(* The inductive invariant and the theorems. *)

IInv == Types /\ CallInv /\ LockInv /\ StagedInv /\ GoneInv /\ LogInv /\ SyncInv

LEMMA IInvInit == Init => IInv
  BY TypesInit, LockInit, LogInit, SyncInit DEF IInv

LEMMA IInvStep == IInv /\ [Next]_vars => IInv'
<1> SUFFICES ASSUME IInv, [Next]_vars PROVE IInv'
  OBVIOUS
<1>1. CallInv' /\ LockInv' /\ StagedInv' /\ GoneInv' /\ LogInv'
  BY LockStep, GoneStep, LogStep DEF IInv
<1>2. ASSUME NEW c \in Clients, ClientNext(c)
      PROVE  Types' /\ SyncInv'
  BY <1>2, ClientTypes, ClientsKeepDevices, ClientSyncStep DEF IInv
<1>3. ASSUME NEW d \in Devices, DeviceNext(d)
      PROVE  Types' /\ SyncInv'
  BY <1>3, DeviceTypes, DeviceSyncStep DEF IInv
<1>4. ASSUME UNCHANGED vars
      PROVE  Types' /\ SyncInv'
  <2>1. Types'
    BY <1>4 DEF IInv, Types, TypeOK, vars, rows, clientVars, deviceVars
  <2>2. SyncInv'
    BY <1>4, ClientSyncStep DEF IInv, vars
  <2> QED
    BY <2>1, <2>2
<1> QED
  BY <1>1, <1>2, <1>3, <1>4 DEF Next, IInv

LEMMA Invariance == Spec => []IInv
  BY IInvInit, IInvStep, PTL DEF Spec

\* Every variable holds a value of its type, however often transactions fail and retry.
THEOREM TypeCorrect == Spec => []TypeOK
<1>1. IInv => TypeOK
  BY DEF IInv, Types
<1> QED
  BY <1>1, Invariance, PTL

\* dav_calendar_changes has one row for every revision of the collection row, and the
\* last one of an object says whether dav_calendar_objects has it.
THEOREM LogCorrect == Spec => []LogExplainsObjects
<1>1. IInv => LogExplainsObjects
  BY LogInvImpliesLogExplainsObjects DEF IInv
<1> QED
  BY <1>1, Invariance, PTL

\* A token never hides a change from its device, although listCalendarObjects reads the
\* row, the changes and each object in statements of their own, without a lock.
THEOREM SyncCorrect == Spec => []SyncSound
<1>1. IInv => SyncSound
  BY DEF IInv, SyncInv
<1> QED
  BY <1>1, Invariance, PTL

-----------------------------------------------------------------------------
(* Every step is a step of the contract, or changes nothing the contract knows. *)

InProgress == {"begin", "resolved", "checked", "written"}

LEMMA CallValues ==
  ASSUME Types, NEW c \in Clients
  PROVE  /\ pc[c] = "idle" => call[c] = [req |-> req[c], answer |-> "none"]
         /\ pc[c] \in InProgress => call[c] = [req |-> req[c], answer |-> "pending"]
         /\ pc[c] = "replied" => call[c] = [req |-> req[c], answer |-> answer[c]]
  BY DEF call, InProgress

\* A step of client c is seen in call[c] only.
LEMMA CallOfOthers ==
  ASSUME Types, CallInv, NEW c \in Clients, ClientNext(c)
  PROVE  call' = [call EXCEPT ![c] = call'[c]]
<1>1. ASSUME NEW d \in Clients, d # c PROVE call'[d] = call[d]
  BY <1>1, OthersUntouched DEF call
<1>2. call = [d \in Clients |-> call[d]] /\ call' = [d \in Clients |-> call'[d]]
  BY DEF call
<1> HIDE DEF call
<1>3. call' = [d \in Clients |-> IF d = c THEN call'[c] ELSE call[d]]
  BY <1>1, <1>2
<1> QED
  BY <1>2, <1>3

\* The same for a call that goes on, and for one that is answered.
LEMMA GoesOn ==
  ASSUME Types, Types', CallInv, NEW c \in Clients, ClientNext(c), pc[c] \in InProgress,
         pc'[c] \in InProgress, req'[c] = req[c]
  PROVE  call' = call
<1>1. call'[c] = call[c]
  BY DEF call, InProgress
<1>2. call' = [call EXCEPT ![c] = call[c]] /\ call = [d \in Clients |-> call[d]]
  BY <1>1, CallOfOthers DEF call
<1> HIDE DEF call
<1> QED
  BY <1>2

LEMMA Answered ==
  ASSUME Types, Types', CallInv, NEW c \in Clients, ClientNext(c), pc[c] \in InProgress,
         pc'[c] = "replied", req'[c] = req[c]
  PROVE  /\ call[c].answer = "pending" /\ call[c].req = req[c]
         /\ call' = [call EXCEPT ![c].answer = answer'[c]]
<1>1. call[c] = [req |-> req[c], answer |-> "pending"]
  BY CallValues
<1>2. call'[c] = [req |-> req[c], answer |-> answer'[c]]
  BY DEF call
<1>3. call' = [call EXCEPT ![c] = call'[c]]
  BY CallOfOthers
<1>4. [call[c] EXCEPT !.answer = answer'[c]] = call'[c]
  BY <1>1, <1>2
<1> QED
  BY <1>1, <1>3, <1>4

\* An attempt that is given up is retried, or answered with what the contract allows.
LEMMA ThrowRefines ==
  ASSUME IInv, Types', NEW c \in Clients, ClientNext(c), NEW error \in Errors, Throw(c, error),
         pc[c] \in InProgress,
         error = "UNAVAILABLE" \/ error \in Contract!Verdicts(cal, c, req[c])
  PROVE  Contract!Next \/ UNCHANGED Contract!vars
<1>0. Types /\ CallInv /\ cal' = cal /\ req'[c] = req[c]
  BY DEF IInv, Throw, rows
<1>1. pc'[c] \in {"begin", "replied"} /\ (pc'[c] = "replied" => answer'[c] = error)
  BY <1>0, ThrowStep DEF InProgress
<1>2. CASE pc'[c] = "begin"
  BY <1>0, <1>2, GoesOn DEF InProgress, Contract!vars
<1>3. CASE pc'[c] = "replied"
  <2>1. /\ call[c].answer = "pending" /\ call[c].req = req[c]
        /\ call' = [call EXCEPT ![c].answer = error]
    BY <1>0, <1>1, <1>3, Answered
  <2>2. CASE error = "UNAVAILABLE"
    BY <1>0, <2>1, <2>2 DEF Contract!Next, Contract!Unavailable
  <2>3. CASE error \in Contract!Verdicts(cal, c, req[c])
    <3>1. error # "ok"
      BY DEF Errors
    <3>2. Contract!Perform(c)
      BY <1>0, <2>1, <2>3, <3>1 DEF Contract!Perform
    <3> QED
      BY <3>2 DEF Contract!Next
  <2> QED
    BY <2>2, <2>3
<1> QED
  BY <1>1, <1>2, <1>3

\* The adapter's test of a permission is the contract's.
LEMMA PermittedIsPermission ==
  ASSUME NEW user, NEW permission \in {"read", "write"}
  PROVE  Permitted(user, permission) <=> permission \in Contract!Permissions(cal, user)
  BY DEF Permitted, Contract!Permissions

LEMMA ResolveRefines ==
  ASSUME IInv, Types', NEW c \in Clients, Resolve(c)
  PROVE  Contract!Next \/ UNCHANGED Contract!vars
<1>0. /\ Types /\ CallInv /\ ClientNext(c) /\ pc[c] \in InProgress /\ pc[c] # "idle"
      /\ Op(c) # "createCalendarCollection" /\ Needs(c) \in {"read", "write"}
  BY DEF IInv, ClientNext, Resolve, InProgress, Creates, Needs
<1>1. CASE ~cal.exists
  <2>1. "CALENDAR_NOT_FOUND" \in Contract!Verdicts(cal, c, req[c])
    BY <1>0, <1>1 DEF Contract!Verdicts, Contract!Access, Contract!OwnerAccess, Op
  <2> QED
    BY <1>0, <1>1, <2>1, ThrowRefines DEF Resolve, Errors
<1>2. CASE cal.exists /\ ~Permitted(c, Needs(c))
  <2>1. "ACL_DENIED" \in Contract!Verdicts(cal, c, req[c])
    BY <1>0, <1>2, PermittedIsPermission
    DEF Contract!Verdicts, Contract!Access, Contract!OwnerAccess, Op, Needs
  <2> QED
    BY <1>0, <1>2, <2>1, ThrowRefines DEF Resolve, Errors
<1>3. CASE cal.exists /\ Permitted(c, Needs(c))
  <2>1. pc' = [pc EXCEPT ![c] = "resolved"] /\ UNCHANGED <<rows, req>>
    BY <1>3 DEF Resolve
  <2>2. pc'[c] \in InProgress /\ req'[c] = req[c] /\ cal' = cal
    BY <2>1 DEF IInv, Types, TypeOK, InProgress, rows
  <2> QED
    BY <1>0, <2>2, GoesOn DEF Contract!vars
<1> QED
  BY <1>1, <1>2, <1>3

\* What the contract answers to a caller who has resolved the collection.
LEMMA ResolvedVerdicts ==
  ASSUME IInv, NEW c \in Clients, pc[c] = "resolved"
  PROVE  /\ Op(c) \in Contract!ObjectOps =>
               Contract!Verdicts(cal, c, req[c]) = {Contract!ObjectVerdict(cal, req[c])}
         /\ Op(c) \notin Contract!ObjectOps => Contract!Access(cal, c, "read") = "ok"
         /\ Op(c) # "createCalendarCollection"
<1>1. cal.exists /\ Permitted(c, Needs(c)) /\ Op(c) # "createCalendarCollection"
  BY DEF IInv, LockInv, Creates
<1>2. CASE Op(c) \in Contract!ObjectOps
  BY <1>1, <1>2, PermittedIsPermission DEF Needs, Contract!Verdicts, Contract!Access, Op
<1>3. CASE Op(c) \notin Contract!ObjectOps
  BY <1>1, <1>3, PermittedIsPermission DEF Needs, Contract!Access
<1> QED
  BY <1>1, <1>2, <1>3

LEMMA ExecuteRefines ==
  ASSUME IInv, Types', NEW c \in Clients, Execute(c)
  PROVE  Contract!Next \/ UNCHANGED Contract!vars
<1>0. /\ Types /\ CallInv /\ ClientNext(c) /\ pc[c] = "resolved" /\ pc[c] \in InProgress
  BY ExecuteThrowsOrStages DEF IInv, ClientNext, InProgress
<1>s. ASSUME NEW write, Stage(c, write) PROVE Contract!Next \/ UNCHANGED Contract!vars
  <2>1. pc'[c] \in InProgress /\ req'[c] = req[c] /\ cal' = cal
    BY <1>0, <1>s, StageStep DEF InProgress
  <2> QED
    BY <1>0, <2>1, GoesOn DEF Contract!vars
<1>t. ASSUME NEW error \in Errors, Throw(c, error), error \in Contract!Verdicts(cal, c, req[c])
      PROVE  Contract!Next \/ UNCHANGED Contract!vars
  BY <1>0, <1>t, ThrowRefines
<1>1. CASE CreateObject(c)
  <2>1. Stored(c) # NoEvent =>
          (IF req[c].ifNoneMatch THEN "PRECONDITION_FAILED" ELSE "OBJECT_EXISTS")
            \in Contract!Verdicts(cal, c, req[c])
    BY <1>0, <1>1, ResolvedVerdicts
    DEF CreateObject, Resolved, Op, Stored, Contract!ObjectOps, Contract!ObjectVerdict
  <2> QED
    BY <1>1, <1>s, <1>t, <2>1 DEF CreateObject, Errors
<1>2. CASE RefuseUnmatched(c)
  <2>1. PICK error \in {"OBJECT_NOT_FOUND", "PRECONDITION_REQUIRED", "PRECONDITION_FAILED"} :
          /\ Throw(c, error)
          /\ error = Contract!IfMatchVerdict(req[c].ifMatch, Stored(c))
    BY <1>2 DEF RefuseUnmatched, Matches, Contract!IfMatchVerdict
  <2>2. error \in Contract!Verdicts(cal, c, req[c])
    BY <1>0, <1>2, <2>1, ResolvedVerdicts
    DEF RefuseUnmatched, Op, Stored, Contract!ObjectOps, Contract!ObjectVerdict
  <2> QED
    BY <1>t, <2>1, <2>2 DEF Errors
<1>3. CASE UpdateObject(c)
  <2>1. CASE UidOf[req[c].event] # UidOf[Stored(c)]
    <3>1. req[c].id \in ObjectIds /\ req[c].ifMatch \in Events \cup {AnyEtag, Absent}
      BY <1>0, <1>3, RequestType DEF UpdateObject, Resolved, Contract!ObjectOps
    <3>2. Stored(c) \in Events
      BY <1>3, <3>1 DEF UpdateObject, Stored, IInv, Types, TypeOK, Contract!Calendars
    <3>3. Contract!IfMatchVerdict(req[c].ifMatch, Stored(c)) = "ok"
      BY <1>3, <3>2, CalendarAssumption DEF UpdateObject, Matches, Contract!IfMatchVerdict
    <3>4. "UID_IMMUTABLE" \in Contract!Verdicts(cal, c, req[c])
      BY <1>0, <1>3, <2>1, <3>3, ResolvedVerdicts
      DEF UpdateObject, Resolved, Op, Stored, Contract!ObjectOps, Contract!ObjectVerdict
    <3> QED
      BY <1>3, <1>t, <2>1, <3>4 DEF UpdateObject, Errors
  <2>2. CASE UidOf[req[c].event] = UidOf[Stored(c)]
    BY <1>3, <1>s, <2>2 DEF UpdateObject
  <2> QED
    BY <2>1, <2>2
<1>4. CASE DeleteObject(c) \/ RevokeAcl(c)
  BY <1>4, <1>s DEF DeleteObject, RevokeAcl
<1>5. CASE RefuseNotOwner(c)
  <2>1. "ACL_OWNER_REQUIRED" \in Contract!Verdicts(cal, c, req[c])
    BY <1>0, <1>5, ResolvedVerdicts
    DEF RefuseNotOwner, Contract!Verdicts, Contract!OwnerAccess, Op
  <2> QED
    BY <1>5, <1>t, <2>1 DEF RefuseNotOwner, Errors
<1>6. CASE SetAcl(c)
  <2>1. req[c].to = Owner => "INVALID_ACL" \in Contract!Verdicts(cal, c, req[c])
    BY <1>0, <1>6, ResolvedVerdicts
    DEF SetAcl, Resolved, Contract!Verdicts, Contract!OwnerAccess, Op, Contract!ObjectOps
  <2> QED
    BY <1>6, <1>s, <1>t, <2>1 DEF SetAcl, Errors
<1>7. CASE DeleteCollection(c)
  <2>1. Op(c) = "deleteCalendarCollection" /\ c = Owner /\ Contract!OwnerAccess(cal, c) = "ok"
    BY <1>0, <1>7, ResolvedVerdicts
    DEF DeleteCollection, Resolved, Contract!OwnerAccess, Contract!ObjectOps
  <2>2. cal.objects # Absence => \E o \in ObjectIds : cal.objects[o] # NoEvent
    BY DEF IInv, Types, TypeOK, Contract!Calendars, Absence
  <2>3. cal.objects # Absence => "CALENDAR_NOT_EMPTY" \in Contract!Verdicts(cal, c, req[c])
    BY <2>1, <2>2 DEF Contract!Verdicts, Op, Contract!ObjectOps, Contract!AclOps
  <2>4. cal.objects = Absence /\ req[c].ifMatch \notin {Absent, AnyEtag} =>
          "PRECONDITION_FAILED" \in Contract!Verdicts(cal, c, req[c])
    BY <2>1 DEF Contract!Verdicts, Op, Contract!ObjectOps, Contract!AclOps, Absence
  <2> QED
    BY <1>7, <1>s, <1>t, <2>3, <2>4 DEF DeleteCollection, Errors
<1> QED
  BY <1>1, <1>2, <1>3, <1>4, <1>5, <1>6, <1>7 DEF Execute

LEMMA CreationRefines ==
  ASSUME IInv, Types', NEW c \in Clients, CheckNoCollection(c) \/ InsertCollection(c)
  PROVE  Contract!Next \/ UNCHANGED Contract!vars
<1>0. /\ Types /\ CallInv /\ ClientNext(c) /\ pc[c] \in InProgress
  BY DEF IInv, ClientNext, CheckNoCollection, InsertCollection, InProgress
<1>1. ASSUME pc'[c] \in InProgress, UNCHANGED <<rows, req>>
      PROVE  Contract!Next \/ UNCHANGED Contract!vars
  BY <1>0, <1>1, GoesOn DEF Contract!vars, rows
<1>2. CASE CheckNoCollection(c)
  <2>1. Op(c) = "createCalendarCollection"
    BY <1>2 DEF CheckNoCollection, Creates
  <2>2. CASE c # Owner
    <3>1. pc'[c] = "replied" /\ answer'[c] = "ACL_DENIED" /\ UNCHANGED <<cal, req>>
      BY <1>0, <1>2, <2>2 DEF CheckNoCollection, Types, TypeOK, rows
    <3>2. /\ call[c].answer = "pending" /\ call[c].req = req[c]
          /\ call' = [call EXCEPT ![c].answer = "ACL_DENIED"]
      BY <1>0, <3>1, Answered
    <3>3. "ACL_DENIED" \in Contract!Verdicts(cal, c, req[c])
      BY <2>1, <2>2 DEF Contract!Verdicts, Op, Contract!ObjectOps
    <3>4. Contract!Perform(c)
      BY <3>1, <3>2, <3>3 DEF Contract!Perform
    <3> QED
      BY <3>4 DEF Contract!Next
  <2>3. CASE c = Owner /\ cal.exists
    <3>1. "CALENDAR_EXISTS" \in Contract!Verdicts(cal, c, req[c])
      BY <2>1, <2>3 DEF Contract!Verdicts, Op, Contract!ObjectOps
    <3> QED
      BY <1>0, <1>2, <2>3, <3>1, ThrowRefines DEF CheckNoCollection, Errors
  <2>4. CASE c = Owner /\ ~cal.exists
    BY <1>0, <1>1, <1>2, <2>4 DEF CheckNoCollection, Types, TypeOK, InProgress
  <2> QED
    BY <2>2, <2>3, <2>4
<1>3. CASE InsertCollection(c)
  <2>1. CASE cal.exists
    BY <1>0, <1>3, <2>1, ThrowRefines DEF InsertCollection, Errors
  <2>2. CASE ~cal.exists
    BY <1>0, <1>1, <1>3, <2>2 DEF InsertCollection, Types, TypeOK, InProgress
  <2> QED
    BY <2>1, <2>2
<1> QED
  BY <1>2, <1>3

\* What has been staged is what the contract does on the calendar as it is now.
LEMMA StagedIsContract ==
  ASSUME IInv, NEW c \in Clients, Commit(c)
  PROVE  /\ "ok" \in Contract!Verdicts(cal, c, req[c])
         /\ cal' = Contract!Effect(cal, req[c])
<1>0. pc[c] = "written" /\ StagedOK(c) /\ cal \in Contract!Calendars /\ pc[c] # "idle"
      /\ Types /\ CallInv
  BY DEF IInv, StagedInv, Commit, Types, TypeOK
<1>1. ASSUME NEW o, NEW event, staged[c] = [kind |-> "object", id |-> o, event |-> event]
      PROVE  cal' = [cal EXCEPT !.objects[o] = event]
  BY <1>1 DEF Commit, CommitObject
<1>2. CASE CreateStaged(c) \/ UpdateStaged(c) \/ DeleteStaged(c)
  <2>1. Op(c) \in Contract!ObjectOps /\ cal.exists /\ Permitted(c, "write")
    BY <1>2 DEF CreateStaged, UpdateStaged, DeleteStaged, MayWrite, Contract!ObjectOps
  <2>2. Contract!Verdicts(cal, c, req[c]) = {Contract!ObjectVerdict(cal, req[c])}
    BY <2>1, PermittedIsPermission DEF Contract!Verdicts, Contract!Access, Op
  <2>3. req[c].id \in ObjectIds
    BY <1>0, <2>1, RequestType
  <2>4. ASSUME Stored(c) # NoEvent, Matches(c)
        PROVE  Contract!IfMatchVerdict(req[c].ifMatch, Stored(c)) = "ok"
    <3>1. Stored(c) \in Events
      BY <1>0, <2>3, <2>4 DEF Stored, Contract!Calendars
    <3> QED
      BY <2>4, <3>1, CalendarAssumption DEF Matches, Contract!IfMatchVerdict
  <2>5. CASE CreateStaged(c)
    BY <1>1, <2>2, <2>5 DEF CreateStaged, MayWrite, Op, Stored, ObjectWrite, Contract!ObjectVerdict,
      Contract!Effect
  <2>6. CASE UpdateStaged(c)
    BY <1>1, <2>2, <2>4, <2>6 DEF UpdateStaged, MayWrite, Op, Stored, ObjectWrite,
      Contract!ObjectVerdict, Contract!Effect
  <2>7. CASE DeleteStaged(c)
    BY <1>1, <2>2, <2>4, <2>7 DEF DeleteStaged, MayWrite, Op, Stored, ObjectWrite,
      Contract!ObjectVerdict, Contract!Effect
  <2> QED
    BY <1>2, <2>5, <2>6, <2>7
<1>3. ASSUME cal.exists, c = Owner PROVE Contract!OwnerAccess(cal, c) = "ok"
  BY <1>3 DEF Contract!OwnerAccess, Contract!Access, Contract!Permissions
<1>4. CASE ShareStaged(c)
  <2>1. "ok" \in Contract!Verdicts(cal, c, req[c])
    BY <1>3, <1>4 DEF ShareStaged, MayOwn, Op, Contract!Verdicts, Contract!ObjectOps, Contract!AclOps
  <2>2. cal' = [cal EXCEPT !.acl = [to |-> req[c].to, permissions |-> req[c].permissions \cup {"read"}]]
    BY <1>4 DEF ShareStaged, Commit
  <2> QED
    BY <1>4, <2>1, <2>2 DEF ShareStaged, MayOwn, Op, Contract!Effect
<1>5. CASE RevokeStaged(c)
  BY <1>3, <1>5 DEF RevokeStaged, MayOwn, Op, Commit, Contract!Verdicts, Contract!ObjectOps,
    Contract!AclOps, Contract!Effect
<1>6. CASE DropStaged(c)
  <2>1. ~\E o \in ObjectIds : cal.objects[o] # NoEvent
    BY <1>6 DEF DropStaged, Absence
  <2>2. "ok" \in Contract!Verdicts(cal, c, req[c])
    BY <1>3, <1>6, <2>1 DEF DropStaged, MayOwn, Op, Contract!Verdicts, Contract!ObjectOps,
      Contract!AclOps
  <2> QED
    BY <1>6, <2>2 DEF DropStaged, MayOwn, Op, Commit, Contract!Effect
<1>7. CASE NewStaged(c)
  BY <1>7 DEF NewStaged, Creates, Op, Commit, Contract!Verdicts, Contract!ObjectOps, Contract!Effect
<1> QED
  BY <1>0, <1>2, <1>4, <1>5, <1>6, <1>7 DEF StagedOK

LEMMA ClientRefines ==
  ASSUME IInv, Types', NEW c \in Clients, ClientNext(c)
  PROVE  Contract!Next \/ UNCHANGED Contract!vars
<1>0. Types /\ CallInv
  BY DEF IInv
<1>1. CASE Issue(c)
  <2>1. PICK q \in Issued[c] : req' = [req EXCEPT ![c] = q]
    BY <1>1 DEF Issue
  <2>2. /\ pc[c] = "idle" /\ pc'[c] = "begin" /\ req[c] = NoRequest /\ req'[c] = q /\ cal' = cal
    BY <1>0, <1>1, <2>1 DEF Issue, Types, TypeOK, CallInv, rows
  <2>3. call[c] = Contract!IdleCall /\ call'[c] = [req |-> q, answer |-> "pending"]
    BY <2>2 DEF call, Contract!IdleCall
  <2>4. Contract!Issue(c)
    BY <1>0, <2>1, <2>2, <2>3, CallOfOthers DEF Contract!Issue
  <2> QED
    BY <2>4 DEF Contract!Next
<1>2. CASE Commit(c)
  <2>1. pc[c] = "written" /\ pc'[c] = "replied" /\ answer'[c] = "ok" /\ req'[c] = req[c]
    BY <1>0, <1>2 DEF Commit, Types, TypeOK
  <2>2. /\ call[c].answer = "pending" /\ call[c].req = req[c]
        /\ call' = [call EXCEPT ![c].answer = "ok"]
    BY <1>0, <2>1, Answered DEF InProgress
  <2>3. Contract!Perform(c)
    BY <1>2, <2>2, StagedIsContract DEF Contract!Perform
  <2> QED
    BY <2>3 DEF Contract!Next
<1>3. CASE ConnectionFails(c)
  BY <1>3, ThrowRefines DEF ConnectionFails, Errors, InProgress
<1>4. CASE Return(c)
  <2>1. /\ pc[c] = "replied" /\ answer[c] # "none" /\ answer[c] # "pending"
        /\ pc'[c] = "idle" /\ req'[c] = NoRequest /\ cal' = cal
    <3>1. answer[c] \in {"none", "ok"} \cup Errors /\ pc[c] = "replied" /\ answer[c] # "none"
      BY <1>0, <1>4 DEF Return, Types, CallInv
    <3>2. answer[c] # "pending"
      BY <3>1 DEF Errors
    <3> QED
      BY <1>0, <1>4, <3>1, <3>2 DEF Return, Types, TypeOK, rows
  <2>2. call[c].answer = answer[c] /\ call'[c] = Contract!IdleCall
    BY <2>1 DEF call, Contract!IdleCall
  <2>3. Contract!Return(c)
    BY <1>0, <2>1, <2>2, CallOfOthers DEF Contract!Return
  <2> QED
    BY <2>3 DEF Contract!Next
<1> QED
  BY <1>1, <1>2, <1>3, <1>4, ResolveRefines, ExecuteRefines, CreationRefines DEF ClientNext

LEMMA RefinementStep ==
  ASSUME IInv, [Next]_vars
  PROVE  [Contract!Next]_Contract!vars
<1>1. Types'
  BY IInvStep DEF IInv
<1>2. ASSUME NEW c \in Clients, ClientNext(c) PROVE Contract!Next \/ UNCHANGED Contract!vars
  BY <1>1, <1>2, ClientRefines
<1>3. CASE UNCHANGED <<rows, clientVars>>
  BY <1>3 DEF rows, clientVars, Contract!vars, call
<1>4. ASSUME NEW d \in Devices, DeviceNext(d) PROVE UNCHANGED <<rows, clientVars>>
  BY <1>4, DevicesKeepClients
<1> QED
  BY <1>2, <1>3, <1>4 DEF Next, vars

\* Transactions on one calendar, with their retries and failed connections, answer and
\* take effect as the contract's operations, one at a time, in each other's order.
THEOREM Refinement == Spec => ImplementsContract
<1>1. Init => Contract!Init
  BY DEF Init, Contract!Init, call, Contract!IdleCall
<1>2. IInv /\ [Next]_vars => [Contract!Next]_Contract!vars
  BY RefinementStep
<1> QED
  BY <1>1, <1>2, Invariance, PTL DEF Spec, ImplementsContract, Contract!Spec
=============================================================================
