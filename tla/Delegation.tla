------------------------------ MODULE Delegation ------------------------------
(***************************************************************************)
(* The delegation store (delegation.ts): one record per owner, made by the  *)
(* owner or forced by a tenant master, that lets one delegate read or write *)
(* what the owner stored.  Records are kept by owner alone, whatever the    *)
(* tenant: two tenants with a user of the same name share a slot.  Reasons, *)
(* their required presence and the event history are left out.              *)
(***************************************************************************)
EXTENDS AccessControl, Naturals

CONSTANTS Never, MaxTime

VARIABLES now, delegation

vars == <<now, delegation>>

NoDelegation == [tenant |-> NoUser]
Records == [tenant : Tenants, delegate : Users, permissions : (SUBSET Permissions) \ {{}},
            forced : BOOLEAN, createdAt : 0 .. MaxTime, expiresAt : 0 .. MaxTime \cup {Never},
            by : UserActors \cup AdminActors]

TypeOK == now \in 0 .. MaxTime /\ delegation \in [Users -> Records \cup {NoDelegation}]

Init == now = 0 /\ delegation = [o \in Users |-> NoDelegation]

Tick == now < MaxTime /\ now' = now + 1 /\ UNCHANGED delegation

Expired(expiry) == expiry # Never /\ expiry <= now

\* Mutant: a record is active for ever.
ActiveOnceMade(o) == delegation[o] # NoDelegation

\* isActive
Active(o) == delegation[o] # NoDelegation /\ ~Expired(delegation[o].expiresAt)

\* assertTenantOwner; the tenant of the owner is never asked for.
MayManage(a, o) == \/ a.role = "user" /\ a.user = o
                   \/ a.role = "tenant_master"

\* create: a master's delegation is forced, a user's is not.
Create(a, o, d, permissions, expiry) ==
    /\ MayManage(a, o) /\ o # d /\ ~Expired(expiry) /\ ~Active(o)
    /\ delegation' = [delegation EXCEPT ![o] =
           [tenant |-> a.tenant, delegate |-> d, permissions |-> permissions,
            forced |-> a.role = "tenant_master", createdAt |-> now, expiresAt |-> expiry,
            by |-> a]]
    /\ UNCHANGED now

\* Mutant: a user may change what a master has forced.
MayChangeAny(a, o) == MayManage(a, o) /\ Active(o) /\ delegation[o].tenant = a.tenant

\* What update and revoke ask before they change the record.
MayChange(a, o) ==
    /\ MayManage(a, o) /\ Active(o) /\ delegation[o].tenant = a.tenant
    /\ delegation[o].forced => a.role # "user"

Update(a, o, d, permissions, expiry) ==
    /\ MayChange(a, o) /\ o # d /\ ~Expired(expiry)
    /\ delegation' = [delegation EXCEPT ![o].delegate = d, ![o].permissions = permissions,
                                        ![o].expiresAt = expiry, ![o].by = a]
    /\ UNCHANGED now

Revoke(a, o) ==
    /\ MayChange(a, o)
    /\ delegation' = [delegation EXCEPT ![o].expiresAt = now, ![o].by = a]
    /\ UNCHANGED now

\* canAccess, for an owner other than the actor
CanAccess(a, o, permission) ==
    /\ a.role = "user" /\ Active(o)
    /\ delegation[o].tenant = a.tenant /\ delegation[o].delegate = a.user
    /\ permission \in delegation[o].permissions

Next ==
    \/ Tick
    \/ \E a \in Actors, o \in Users :
          \/ Revoke(a, o)
          \/ \E d \in Users, ps \in (SUBSET Permissions) \ {{}}, x \in 0 .. MaxTime \cup {Never} :
                \/ Create(a, o, d, ps, x)
                \/ Update(a, o, d, ps, x)

Spec == Init /\ [][Next]_vars
-----------------------------------------------------------------------------
\* What a stored object of user `o` is open to, as the gate decides it.
Reads(a, o) == LET r == Request("content.read", a.tenant, o, TRUE) IN
                   Authorized(a, r, CanAccess(a, o, Delegated(r)))
Writes(a, o) == LET r == Request("content.write", a.tenant, o, TRUE) IN
                    Authorized(a, r, CanAccess(a, o, Delegated(r)))

\* Nobody but one other user at a time reaches what a user stored, and then by the
\* word of somebody entitled to give it in the same tenant: an administrator never does,
\* and two users never do at once; and no word outlasts its time.
OneOutsiderAtMost ==
    \A o \in Users, a, b \in Actors :
        /\ (Reads(a, o) \/ Writes(a, o)) /\ a.user # o =>
              /\ a.role = "user" /\ delegation[o] # NoDelegation /\ ~Expired(delegation[o].expiresAt)
              /\ delegation[o].by.tenant = a.tenant
              /\ delegation[o].by.role = "user" => delegation[o].by.user = o
        /\ Reads(a, o) /\ Writes(b, o) /\ o \notin {a.user, b.user} => a = b

\* A master's word stands until a master of the same tenant takes it back or its time is up,
\* whatever the owner and the other tenants do; and a delegation that has ended gives access
\* again only as a new one.
GrantSteps ==
    \A o \in Users :
        /\ (Active(o) /\ delegation[o].forced /\ delegation'[o] # delegation[o]) =>
              /\ delegation'[o].by.role = "tenant_master"
              /\ delegation'[o].by.tenant = delegation[o].tenant
        /\ (~Active(o) /\ Active(o)') => delegation'[o].createdAt = now

GrantsStand == [][GrantSteps]_vars
=============================================================================
