----------------------------- MODULE QuotaLedger -----------------------------
(***************************************************************************)
(* The quota ledger of one tenant (quota.ts): what each user may store,     *)
(* what is in use, and the reservations that deliveries make and give back  *)
(* by their number.  A delivery may give a reservation back twice.          *)
(* `initial` is history: the use a user came with.                          *)
(***************************************************************************)
EXTENDS AccessControl, Naturals, FiniteSetsExt

CONSTANTS
    Home,               \* the ledger's tenant
    GrossQuota,
    MaxReservations     \* bound

VARIABLES allocation, usage, reservation, initial

vars == <<allocation, usage, reservation, initial>>

Bytes == 0 .. GrossQuota
Unknown == GrossQuota + 1       \* no allocation exists
Numbers == 1 .. MaxReservations
NoReservation == [user |-> NoUser, size |-> 0, released |-> FALSE]

Known(u) == allocation[u] # Unknown
Made == {n \in Numbers : reservation[n] # NoReservation}

\* totalAllocated
Allocated(users) == MapThenSumSet(LAMBDA u : allocation[u], {u \in users : Known(u)})

TypeOK ==
    /\ allocation \in [Users -> Bytes \cup {Unknown}]
    /\ usage \in [Users -> Nat]
    /\ reservation \in [Numbers -> [user : Users \cup {NoUser}, size : Bytes, released : BOOLEAN]]
    /\ initial \in [Users -> Bytes]

\* initialUsers
Init ==
    /\ allocation \in [Users -> {0, GrossQuota, Unknown}] /\ Allocated(Users) <= GrossQuota
    /\ usage \in [Users -> {0, 1}]
    /\ \A u \in Users : usage[u] <= IF Known(u) THEN allocation[u] ELSE 0
    /\ initial = usage
    /\ reservation = [n \in Numbers |-> NoReservation]

\* setAllocation
Fits(u, bytes) == Allocated(Users \ {u}) + bytes <= GrossQuota
Set(u, bytes) == Fits(u, bytes) /\ allocation' = [allocation EXCEPT ![u] = bytes]

May(a, permission, u) == /\ a.tenant = Home
                         /\ Authorized(a, Request(permission, Home, u, FALSE), FALSE)

RegisterUser(a, u, bytes) ==
    /\ May(a, "user.manage", u) /\ ~Known(u)
    /\ Set(u, bytes)
    /\ UNCHANGED <<usage, reservation, initial>>

\* Mutant: the use at the time is not looked at.
AllocateAnyway(a, u, bytes) ==
    /\ May(a, "quota.manage", u) /\ Known(u)
    /\ Set(u, bytes)
    /\ UNCHANGED <<usage, reservation, initial>>

Allocate(a, u, bytes) ==
    /\ May(a, "quota.manage", u) /\ Known(u) /\ bytes >= usage[u]
    /\ Set(u, bytes)
    /\ UNCHANGED <<usage, reservation, initial>>

\* reserve: refused when it does not fit, numbered in order when it does
Reserve(u, size) ==
    /\ Known(u) /\ size <= allocation[u] - usage[u]
    /\ Made # Numbers
    /\ usage' = [usage EXCEPT ![u] = @ + size]
    /\ reservation' = [reservation EXCEPT ![Min(Numbers \ Made)] =
                           [user |-> u, size |-> size, released |-> FALSE]]
    /\ UNCHANGED <<allocation, initial>>

\* Mutant: a second release of one reservation gives the bytes back again.
ReleaseAgain(n) ==
    LET r == reservation[n] IN
    /\ n \in Made
    /\ usage' = [usage EXCEPT ![r.user] = IF @ < r.size THEN 0 ELSE @ - r.size]
    /\ reservation' = [reservation EXCEPT ![n].released = TRUE]
    /\ UNCHANGED <<allocation, initial>>

\* release: Math.max(0, ...), and only once
Release(n) ==
    LET r == reservation[n] IN
    /\ n \in Made /\ ~r.released
    /\ usage' = [usage EXCEPT ![r.user] = IF @ < r.size THEN 0 ELSE @ - r.size]
    /\ reservation' = [reservation EXCEPT ![n].released = TRUE]
    /\ UNCHANGED <<allocation, initial>>

Next ==
    \/ \E a \in Actors, u \in Users, bytes \in Bytes : \/ RegisterUser(a, u, bytes)
                                                       \/ Allocate(a, u, bytes)
    \/ \E u \in Users, size \in Bytes : Reserve(u, size)
    \/ \E n \in Numbers : Release(n)

Spec == Init /\ [][Next]_vars
-----------------------------------------------------------------------------
Open(u) == {n \in Made : reservation[n].user = u /\ ~reservation[n].released}

\* The books balance: the tenant's quota covers every allocation, an allocation covers what is
\* in use, and what is in use is what the user came with and the reservations still open, no
\* matter how reservations, releases and new allocations of several users follow each other.
BooksBalance ==
    /\ Allocated(Users) <= GrossQuota
    /\ \A u \in Users :
          /\ usage[u] = initial[u] + MapThenSumSet(LAMBDA n : reservation[n].size, Open(u))
          /\ usage[u] <= IF Known(u) THEN allocation[u] ELSE 0
=============================================================================
