------------------------------ MODULE DavFrontend ------------------------------
(***************************************************************************)
(* The DAV requests of the HTTP server (src/runtime/server.ts:              *)
(* authenticateDavRequest, handleDavRoute, handleDavDiscovery) on the way   *)
(* to the stores: TLS, the throttle of failed passwords, the tenant's rate  *)
(* limit, the CSRF token of a browser, the URL against the principal, the   *)
(* body, and the preconditions given to the store.                          *)
(*                                                                         *)
(* Requests of one address and one user share a failure record, read before *)
(* the password is verified and written from that copy afterwards;          *)
(* `overlapped` is history: two of them were verified at a time.  A store   *)
(* has one calendar or one address book with one object, its versions       *)
(* numbered; what it answers is that of the contracts (CalDavContract,      *)
(* CardDavContract).  The status of a refused request is left out.          *)
(***************************************************************************)
EXTENDS Integers, FiniteSets, Sequences

CONSTANTS Clients, FailureLimit, FailureWindow,
          DavTime, MaxVersion, MaxDavRequests       \* bounds

VARIABLES now, failures, wrong, overlapped, kind, dav, stored, versions, handled

vars == <<now, failures, wrong, overlapped, kind, dav, stored, versions, handled>>

Kinds == {"caldav", "carddav"}
Levels == {"discovery", "collection", "object", "unknown"}
Methods == {"GET", "PUT", "DELETE", "PROPFIND", "REPORT", "LOCK"}
Targets == {"own", "other's", "other tenant's"}
Routes == [level : Levels, method : Methods, target : Targets]

NoFailures == [startedAt |-> 0, count |-> 0]
Gone == -1                          \* the collection is
NotThere == 0
Versions == 1 .. MaxVersion
AnyVersion == MaxVersion + 1        \* If-Match: *
NoHeader == MaxVersion + 2
NoRoute == [level |-> "unknown", method |-> "GET", target |-> "own"]

Answers == [status : {0, 201, 204},
            before : Gone .. MaxVersion, after : Gone .. MaxVersion,
            ifMatch : Versions \cup {AnyVersion, NoHeader}, ifNoneMatch : BOOLEAN]
NoAnswer == [status |-> 0, before |-> NotThere, after |-> NotThere,
             ifMatch |-> NoHeader, ifNoneMatch |-> FALSE]
Slots == [stage : {"idle", "verifying", "routing", "body", "calling"}, via : {"basic", "cookie"},
          read : [startedAt : 0 .. DavTime, count : 0 .. MaxDavRequests], since : 0 .. DavTime,
          route : Routes, answer : Answers]

Init ==
    /\ now = 0 /\ failures = NoFailures /\ wrong = <<>> /\ overlapped = FALSE
    /\ dav = [c \in Clients |-> [stage |-> "idle", via |-> "cookie", read |-> NoFailures,
                                 since |-> 0, route |-> NoRoute, answer |-> NoAnswer]]
    /\ kind \in Kinds /\ stored = NotThere /\ versions = 0 /\ handled = 0
-----------------------------------------------------------------------------
At(c, stage) == dav[c].stage = stage
To(c, stage) == dav' = [dav EXCEPT ![c].stage = stage, ![c].read = NoFailures, ![c].since = 0]
Release(c) == dav' = [dav EXCEPT ![c] = [@ EXCEPT !.stage = "idle", !.via = "cookie",
                                   !.read = NoFailures, !.since = 0, !.route = NoRoute]]

throttle == <<failures, wrong, overlapped>>
store == <<stored, versions>>

Running(record, at) == record.count > 0 /\ at - record.startedAt < FailureWindow

\* Mutant: the attempt that reaches the limit is let through once more.
ThrottledLate == Running(failures, now) /\ failures.count > FailureLimit

Throttled == Running(failures, now) /\ failures.count >= FailureLimit

\* A request without credentials, of another scheme or without TLS is refused at once, and one
\* for OPTIONS answered.  The session of a browser has been resolved before.
ArriveWithCookie(c) ==
    /\ At(c, "idle") /\ handled < MaxDavRequests /\ handled' = handled + 1
    /\ dav' = [dav EXCEPT ![c].stage = "routing", ![c].via = "cookie", ![c].answer = NoAnswer]
    /\ UNCHANGED <<now, kind, throttle, store>>

ArriveWithPassword(c) ==
    /\ At(c, "idle") /\ handled < MaxDavRequests /\ handled' = handled + 1
    /\ ~Throttled
    /\ dav' = [dav EXCEPT ![c].stage = "verifying", ![c].via = "basic", ![c].read = failures,
                          ![c].since = now, ![c].answer = NoAnswer]
    /\ overlapped' = (overlapped \/ \E d \in Clients : At(d, "verifying"))
    /\ UNCHANGED <<now, kind, failures, wrong, store>>

\* Mutant: a failure opens a new window each time.
FailedAgain(read, at) == [startedAt |-> at, count |-> 1]

\* The copy is tested against the time the request came.
Failed(read, at) ==
    IF Running(read, at) THEN [read EXCEPT !.count = @ + 1] ELSE [startedAt |-> at, count |-> 1]

PasswordWrong(c) ==
    LET at == dav[c].since
    IN  /\ At(c, "verifying") /\ failures' = Failed(dav[c].read, at) /\ wrong' = Append(wrong, at)
        /\ Release(c)
        /\ UNCHANGED <<now, kind, overlapped, store, handled>>

PasswordRight(c) ==
    /\ At(c, "verifying") /\ failures' = NoFailures /\ wrong' = <<>>
    /\ To(c, "routing")
    /\ UNCHANGED <<now, kind, overlapped, store, handled>>

Tick ==
    /\ now < DavTime /\ now' = now + 1
    /\ UNCHANGED <<throttle, kind, dav, store, handled>>
-----------------------------------------------------------------------------
(* handleDavRoute *)

\* The tenant-wide limit, for those the generic limiter took for anonymous.
RateLimited(c) ==
    /\ At(c, "routing") /\ dav[c].via = "basic" /\ Release(c)
    /\ UNCHANGED <<now, kind, throttle, store, handled>>

\* Mutant: who the URL names is left to the store.
DeniedByStore(route) == FALSE

\* Authorization never trusts the URL.
Denied(route) ==
    \/ route.target = "other tenant's"
    \/ route.target = "other's" /\ (kind = "carddav" \/ route.level = "discovery")

\* What the router answers without the store.
Refused(via, token, route) ==
    \/ via = "cookie" /\ route.method \in {"PUT", "DELETE"} /\ ~token
    \/ route.method = "LOCK" \/ route.level = "unknown"
    \/ Denied(route)
    \/ route.level = "discovery" /\ route.method # "PROPFIND"
    \/ route.level = "collection" /\ route.method \in {"GET", "PUT"}
    \/ route.level = "object" /\ route.method = "REPORT"

\* A store that is not configured refuses everything that would reach it.
Route(c) ==
    /\ At(c, "routing")
    /\ \/ Release(c)                                   \* of the requests Refused there are always some
       \/ \E route \in {r \in Routes : \E token \in BOOLEAN : ~Refused(dav[c].via, token, r)} :
             dav' = [dav EXCEPT ![c].route = route,
                         ![c].via = "cookie",
                         ![c].stage = IF route.method \in {"PUT", "REPORT"} THEN "body" ELSE "calling"]
    /\ UNCHANGED <<now, kind, throttle, store, handled>>

\* readRawBody; it may be too long or break off.
ReadBody(c) ==
    /\ At(c, "body") /\ (To(c, "calling") \/ Release(c))
    /\ UNCHANGED <<now, kind, throttle, store, handled>>
-----------------------------------------------------------------------------
(* The stores, and the status made of their answer. *)

IfMatchStatus(ifMatch, object) ==
    IF object = NotThere THEN 404
    ELSE IF ifMatch = NoHeader THEN 428
    ELSE IF ifMatch \in {AnyVersion, object} THEN 204 ELSE 412

\* If-None-Match: * decides alone; a calendar object is created without a header too.
PutStatus(ifMatch, ifNoneMatch, object) ==
    IF ifNoneMatch THEN IF object = NotThere THEN 201 ELSE 412
    ELSE IF kind = "caldav" /\ ifMatch = NoHeader THEN IF object = NotThere THEN 201 ELSE 409
    ELSE IfMatchStatus(ifMatch, object)

Status(route, ifMatch, ifNoneMatch, object) ==
    IF object = Gone THEN 404
    ELSE IF route.level = "collection"
    THEN IF kind = "caldav" /\ object # NotThere THEN 409
         ELSE IF kind = "carddav" /\ ifMatch = NoHeader THEN 428 ELSE 204
    ELSE IF route.method = "PUT" THEN PutStatus(ifMatch, ifNoneMatch, object)
    ELSE IfMatchStatus(ifMatch, object)

After(route, object) ==
    IF route.method = "PUT" THEN versions + 1
    ELSE IF route.level = "collection" THEN Gone ELSE NotThere

Write(c) ==
    LET route == dav[c].route
    IN  /\ At(c, "calling") /\ route.method \in {"PUT", "DELETE"}
        /\ \E ifMatch \in Versions \cup {AnyVersion, NoHeader}, ifNoneMatch \in BOOLEAN :
              LET status == Status(route, ifMatch, ifNoneMatch, stored)
                  after == After(route, stored)
              IN  /\ ifNoneMatch => route.method = "PUT"
                  /\ status \in {201, 204} /\ after <= MaxVersion /\ stored' = after
                  /\ versions' = IF after > versions THEN after ELSE versions
                  /\ dav' = [dav EXCEPT ![c].stage = "idle", ![c].via = "cookie",
                                 ![c].answer = [status |-> status, before |-> stored, after |-> after,
                                                ifMatch |-> ifMatch, ifNoneMatch |-> ifNoneMatch]]
        /\ UNCHANGED <<now, kind, throttle, handled>>

\* A request that only reads; a write that the store refuses, for its headers or for other
\* reasons, the access list of a calendar among them; Depth: infinity; a report of another kind.
End(c) == At(c, "calling") /\ Release(c) /\ UNCHANGED <<now, kind, throttle, store, handled>>

Next ==
    \/ Tick
    \/ \E c \in Clients : \/ ArriveWithCookie(c) \/ ArriveWithPassword(c)
                          \/ PasswordWrong(c) \/ PasswordRight(c) \/ RateLimited(c) \/ Route(c)
                          \/ ReadBody(c) \/ Write(c) \/ End(c)

Spec == Init /\ [][Next]_vars
-----------------------------------------------------------------------------
TypeOK ==
    /\ dav \in [Clients -> Slots] /\ kind \in Kinds /\ stored \in Gone .. MaxVersion
    /\ failures \in [startedAt : 0 .. DavTime, count : 0 .. MaxDavRequests]
    /\ overlapped \in BOOLEAN /\ versions \in 0 .. MaxVersion /\ handled \in 0 .. MaxDavRequests

WrongIn(times) == Cardinality({i \in DOMAIN wrong : wrong[i] \in times})

\* As long as verifications of one key do not overlap, the record counts the wrong passwords
\* since the last right one in the window that runs, and no more than the limit are tried in it
\* (authenticateDavRequest).  Whatever two clients do at a time, a request that reached the
\* store named what its principal may name, and a write that succeeded found the version its
\* headers ask for and none that nobody named; what was refused changed nothing
\* (handleDavRoute).
FrontendHolds ==
    /\ ~overlapped /\ failures.count > 0 =>
           /\ failures.count = WrongIn(failures.startedAt .. failures.startedAt + FailureWindow - 1)
           /\ failures.count <= FailureLimit
    /\ \A c \in Clients :
           LET answer == dav[c].answer  route == dav[c].route
           IN  /\ route.target = "own" \/ (route.target = "other's" /\ kind = "caldav")
               /\ answer # NoAnswer =>
                     /\ answer.before \in Versions /\ route.level = "object" =>
                            ~answer.ifNoneMatch /\ answer.ifMatch \in {answer.before, AnyVersion}
                     /\ answer.status = 201 <=> answer.before = NotThere /\ answer.after \in Versions
=============================================================================
