------------------------------- MODULE MCCalDav -------------------------------
(* A small instance of CalDavPostgres for TLC. *)
EXTENDS CalDavPostgres

CONSTANTS alice, bob, carol, phone, o1, o2, e1, e2, f1, uidA, uidB

\* e1 and e2 are two versions of one event, f1 is another event.
MCUidOf == [e \in {e1, e2, f1} |-> IF e = f1 THEN uidB ELSE uidA]
MCUserOf == [d \in {phone} |-> bob]

Create(id, event, ifNoneMatch) ==
    [op |-> "createCalendarObject", id |-> id, event |-> event, ifNoneMatch |-> ifNoneMatch]
Update(id, event, ifMatch) ==
    [op |-> "updateCalendarObject", id |-> id, event |-> event, ifMatch |-> ifMatch]
Delete(id, ifMatch) == [op |-> "deleteCalendarObject", id |-> id, ifMatch |-> ifMatch]
Share(to, permissions) == [op |-> "setCalendarAcl", to |-> to, permissions |-> permissions]

Do(op) == [op |-> op]
Drop(ifMatch) == [op |-> "deleteCalendarCollection", ifMatch |-> ifMatch]

MCIssued == [c \in {alice, bob} |->
    IF c = alice
    THEN { Create(o1, e1, TRUE), Create(o2, f1, FALSE), Update(o1, e2, e1), Update(o1, f1, AnyEtag),
           Share(bob, {"write"}), Share(bob, {"read"}),
           Do("revokeCalendarAcl"), Do("createCalendarCollection"), Drop(Absent), Drop("etag") }
    ELSE { Update(o1, e2, e1), Update(o1, e1, Absent), Delete(o1, AnyEtag),
           Do("revokeCalendarAcl"), Do("createCalendarCollection") }]
=============================================================================
