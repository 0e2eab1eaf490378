------------------------------- MODULE AuditLog -------------------------------
(***************************************************************************)
(* The audit store and the administration tools before it (admin-tools.ts): *)
(* one bounded log for all tenants, which anybody with an identity writes   *)
(* and each role reads a part of.  An event is its writer and its subject;  *)
(* what metadata is accepted is left out.  `recorded` is history: how many  *)
(* events there have been.                                                  *)
(***************************************************************************)
EXTENDS AccessControl, Naturals, SequencesExt

CONSTANTS MaxEvents, MaxRecorded        \* MaxRecorded is a bound

VARIABLES auditLog, recorded, masterLogAccess

vars == <<auditLog, recorded, masterLogAccess>>

AuditEvents == [number : 1 .. MaxRecorded, tenant : Tenants, role : AdminRoles \cup {"user"},
                actor : Users \cup {NoUser}, subject : Users \cup {NoUser}]

TypeOK ==
    /\ auditLog \in Seq(AuditEvents) /\ Len(auditLog) <= MaxEvents
    /\ recorded \in 0 .. MaxRecorded /\ masterLogAccess \in BOOLEAN

Init == auditLog = <<>> /\ recorded = 0 /\ masterLogAccess \in BOOLEAN

\* Mutant: once full, the log keeps what it has.
BoundedFirst(log) == IF Len(log) <= MaxEvents THEN log ELSE SubSeq(log, 1, MaxEvents)

\* Mutant: nothing is ever dropped.
Unbounded(log) == log

Bounded(log) == IF Len(log) <= MaxEvents THEN log ELSE Tail(log)

\* record
Record(a, subject) ==
    /\ recorded < MaxRecorded /\ recorded' = recorded + 1
    /\ auditLog' = Bounded(Append(auditLog,
           [number |-> recorded + 1, tenant |-> a.tenant, role |-> a.role, actor |-> a.user,
            subject |-> subject]))
    /\ UNCHANGED masterLogAccess

\* Who may look, and at whose events (view, viewAudit).
MayView(a, subject) ==
    IF a.role = "user"
      THEN /\ subject \in {NoUser, a.user}
           /\ Authorized(a, Request("audit.read.self", a.tenant, a.user, FALSE), FALSE)
      ELSE Authorized(a, [Request("audit.read", a.tenant, NoUser, FALSE)
                              EXCEPT !.logAccess = masterLogAccess], FALSE)

\* Mutant: what a user of another tenant with the same name did is shown, too.
ShownOfAnyTenant(a, subject, e) ==
    IF a.role = "user" THEN a.user \in {e.actor, e.subject} ELSE subject \in {NoUser, e.subject}

Shown(a, subject, e) ==
    /\ e.tenant = a.tenant
    /\ IF a.role = "user" THEN a.user \in {e.actor, e.subject} ELSE subject \in {NoUser, e.subject}

\* The events of the log that are shown, in their order.
Filtered(a, subject) ==
    LET kept[i \in 0 .. Len(auditLog)] ==
            IF i = 0 THEN <<>>
            ELSE IF Shown(a, subject, auditLog[i]) THEN Append(kept[i - 1], auditLog[i])
            ELSE kept[i - 1]
    IN  kept[Len(auditLog)]

\* view: the last `limit` of them, the newest first
View(a, subject, limit) ==
    LET seen == Filtered(a, subject) IN
        IF ~MayView(a, subject) THEN <<>>
        ELSE Reverse(SubSeq(seen, IF Len(seen) > limit THEN Len(seen) - limit + 1 ELSE 1, Len(seen)))

Next == \E a \in Actors, s \in Users \cup {NoUser} : Record(a, s)

Spec == Init /\ [][Next]_vars
-----------------------------------------------------------------------------
\* The log keeps the newest events of all tenants together, and what it shows is the reader's:
\* of his tenant, and a user's own; a master of a tenant that hides its log sees none; and a
\* limit takes away the oldest, never the newest.
LogShowsItsOwn ==
    /\ \A i \in DOMAIN auditLog : auditLog[i].number = recorded - Len(auditLog) + i
    /\ recorded >= MaxEvents => Len(auditLog) = MaxEvents
    /\ \A a \in Actors, s \in Users \cup {NoUser} :
          LET seen == View(a, s, MaxEvents) IN
          /\ View(a, s, 1) = IF seen = <<>> THEN <<>> ELSE <<seen[1]>>
          /\ \A i \in DOMAIN seen :
                /\ seen[i].tenant = a.tenant
                /\ a.role = "user" => a.user \in {seen[i].actor, seen[i].subject}
                /\ a.role = "tenant_master" => masterLogAccess
                /\ i > 1 => seen[i].number < seen[i - 1].number
=============================================================================
