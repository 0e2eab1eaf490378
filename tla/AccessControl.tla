---------------------------- MODULE AccessControl ----------------------------
(***************************************************************************)
(* The roles of an installation and what each may ask for (rbac.ts): an     *)
(* actor is a user of a tenant or one of its administrators, a request      *)
(* names a permission, a tenant, at most one user and what it is about.     *)
(* Malformed names are refused before anything else and left out.           *)
(***************************************************************************)
CONSTANTS Tenants, Users, NoUser

AdminRoles == {"provider", "tenant_master", "monitor"}
Permissions == {"read", "write"}        \* what a delegate may be given

\* normalizeActor: an administrator has an identity but no user scope.
UserActors == [tenant : Tenants, role : {"user"}, user : Users]
AdminActors == [tenant : Tenants, role : AdminRoles, user : {NoUser}]
Actors == UserActors \cup AdminActors

\* What every administrator may see, and what none but a user may do.
Watched == {"tenant.read", "quota.read", "queue.read", "service.read", "metrics.read", "audit.read"}
Managed == {"policy.read", "policy.manage", "user.read", "user.manage", "alias.read",
            "alias.manage", "quota.manage", "delegation.read", "delegation.manage", "log.read",
            "mfa.reset.user", "recovery.reset.user"}
Own == {"user.read.self", "user.update.self", "quota.read", "content.read", "content.write",
        "session.read", "session.revoke", "mfa.manage.self", "recovery.manage.self",
        "backup.request.self", "delegation.manage.self", "audit.read.self"}

PermissionMatrix ==
    [provider      |-> Watched \cup Managed \cup {"tenant.manage", "queue.action"},
     tenant_master |-> Watched \cup Managed,
     monitor       |-> Watched,
     user          |-> Own]

ContentPermissions == {"content.read", "content.write"}

\* A request about a user of a tenant; `content` is set when the resource or the
\* caller says that it reaches what the user stored.
Request(permission, tenant, user, content) ==
    [permission |-> permission, tenant |-> tenant, user |-> user, content |-> content,
     field |-> "none", logAccess |-> FALSE]

\* isContentRequest
AsksForContent(r) == r.content \/ r.permission \in ContentPermissions

\* The permission a delegate needs (canDelegateContent).
Delegated(r) == IF r.permission = "content.write" THEN "write" ELSE "read"

\* Mutant: whoever may read content reads everybody's.
AuthorizedByRole(a, r, lent) == r.tenant = a.tenant /\ r.permission \in PermissionMatrix[a.role]

\* authorize; `lent` says whether the delegation store lets the actor in.
Authorized(a, r, lent) ==
    /\ r.tenant = a.tenant
    /\ AsksForContent(r) => a.role = "user"
    /\ r.permission \in PermissionMatrix[a.role]
    /\ (a.role = "user" /\ r.user \notin {NoUser, a.user}) =>
          r.permission \in ContentPermissions /\ lent
    /\ a.role = "tenant_master" =>
          /\ r.permission \in {"audit.read", "log.read"} => r.logAccess
          /\ r.field \notin {"masterLogAccess", "grossQuotaBytes"}
=============================================================================
