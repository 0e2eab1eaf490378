---------------------------- MODULE LoginIdentity ----------------------------
(***************************************************************************)
(* One person's sign-ins at the identity source of the packaging target     *)
(* (src/runtime/login.ts): a directory (src/integrations/ldap-client.ts),   *)
(* the table local_users (db-identity-client.ts), or a panel whose mail     *)
(* server knows the password and whose API knows the account                *)
(* (cpanel-identity-client.ts, plesk-identity-client.ts).  The password is  *)
(* verified first and the account looked up after it; an administrator may  *)
(* change the account between any two calls, and any call may fail.         *)
(***************************************************************************)
EXTENDS Naturals, FiniteSets

CONSTANTS LookupRetries,
          MaxPersonChanges          \* bound

VARIABLES source, settings, person, changes, signIn

vars == <<source, settings, person, changes, signIn>>

Sources == {"ldap", "database", "cpanel", "plesk"}
Panels == {"cpanel", "plesk"}
Passwords == {"p1", "p2"}

\* What a source may hold of a person: the directory any number of entries and of role values,
\* the table one row and one allowed role, a panel no role at all.
Persons ==
    [entries : 0 .. 2, active : BOOLEAN, password : Passwords,
     roles : {{}, {"monitor"}, {"provider"}, {"user", "monitor"}}]
Held(s) ==
    {p \in Persons : /\ s # "ldap" => p.entries <= 1
                     /\ s = "database" => p.roles = {"monitor"}
                     /\ s \in Panels => p.roles = {}}

Refused == [user |-> "none", role |-> "none"]
Idle == [stage |-> "idle", guess |-> "p1", left |-> LookupRetries, guesses |-> 0,
         faulty |-> FALSE, seen |-> {}, answer |-> Refused]

Init ==
    /\ source \in Sources /\ settings \in {"ok", "disabled", "incomplete"}
    /\ person \in Held(source) /\ changes = 0 /\ signIn = Idle

\* createLdapIdentityClient and its like: incomplete settings throw, and the promise of the client
\* is kept for good; disabled ones make a client that is not asked.
HasClient == settings = "ok"

\* Outside the source's clients: an administrator changes one thing of the account.
AdministratorChanges ==
    /\ changes < MaxPersonChanges
    /\ person' \in {p \in Held(source) :
                       Cardinality({f \in DOMAIN p : p[f] # person[f]}) = 1}
    /\ changes' = changes + 1
    /\ signIn' = [signIn EXCEPT !.seen = IF @ = {} THEN {} ELSE @ \cup {person'}]
    /\ UNCHANGED <<source, settings>>

At(stage) == signIn.stage = stage /\ UNCHANGED <<source, settings, person, changes>>
Goes(stage) == signIn' = [signIn EXCEPT !.stage = stage, !.left = LookupRetries]
Refuses(fault) == signIn' = [signIn EXCEPT !.stage = "done", !.faulty = @ \/ fault, !.answer = Refused]

\* parseLoginEmail, createTenantContext, USERNAME_PATTERN: what is no address of a mailbox is
\* refused before any call, a password of no characters too.
Begin(guess, wellFormed) ==
    /\ signIn.stage \in {"idle", "done"}
    /\ UNCHANGED <<source, settings, person, changes>>
    /\ signIn' = [Idle EXCEPT !.guess = guess, !.seen = {person}, !.faulty = ~wellFormed,
                              !.stage = IF wellFormed /\ HasClient
                                        THEN (IF source = "ldap" THEN "find" ELSE "verify")
                                        ELSE "done"]

\* retry: the next attempt, or what follows when none is left.
Again(giveUp) ==
    \/ signIn.left > 0 /\ signIn' = [signIn EXCEPT !.left = @ - 1]
    \/ signIn.left = 0 /\ giveUp

\* ldap authenticate: the entry is looked up with the service account, several entries are an
\* error.  An attribute of the directory is a string, which is never the boolean `false`: every
\* entry counts as active.
Find ==
    /\ At("find")
    /\ \/ person.entries = 1 /\ Goes("bind")
       \/ person.entries = 0 /\ Refuses(FALSE)
       \/ person.entries = 2 /\ Again(Refuses(FALSE))
FindFails == At("find") /\ Again(Refuses(TRUE))

\* Mutant: the bind of the user is tried again like the lookups.
VerifierDownRetried ==
    IF source = "ldap" THEN [signIn EXCEPT !.guesses = @ + 1]
    ELSE [signIn EXCEPT !.stage = "done", !.faulty = TRUE, !.guesses = @ + 1]

\* The bind with the person's own password, its IMAP login or its transaction fails.
VerifierDown == [signIn EXCEPT !.stage = "done", !.faulty = TRUE, !.guesses = @ + 1]

\* The verifiers: the bind as the entry found, a row that is active and its hash, an IMAP login,
\* whose server may or may not let a suspended mailbox in.
Verified(barred) ==
    /\ person.entries > 0 /\ person.password = signIn.guess
    /\ source = "database" => person.active
    /\ source \in Panels => person.active \/ ~barred

VerifyPassword ==
    /\ At("bind") \/ At("verify")
    /\ \E barred \in BOOLEAN :
          signIn' = [signIn EXCEPT !.guesses = @ + 1,
                                   !.stage = IF Verified(barred) THEN "lookup" ELSE "done"]
VerifyFails == (At("bind") \/ At("verify")) /\ signIn' = VerifierDown

\* lookupUser: the answers of the four clients, roleAttribute among them.
NoIdentity == [known |-> FALSE, active |-> TRUE, role |-> "absent"]
Identity ==
    IF person.entries = 0 THEN NoIdentity
    ELSE [known |-> TRUE, active |-> source = "ldap" \/ person.active,
          role |-> IF person.roles = {} THEN "absent"
                   ELSE IF Cardinality(person.roles) > 1 THEN "ambiguous"
                   ELSE CHOOSE r \in person.roles : TRUE]

\* Mutant: a value no sign-in may carry becomes the least privilege instead of a refusal.
LoginRoleOpen(role) == IF role \in {"tenant_master", "monitor"} THEN role ELSE "user"

\* resolveLoginRole
LoginRole(role) ==
    IF role = "absent" THEN "user"
    ELSE IF role \in {"user", "tenant_master", "monitor"} THEN role ELSE "none"

\* Mutant: only the password decides.
MayEnterAnyone(identity) == LoginRole(identity.role) # "none"

MayEnter(identity) == identity.active /\ LoginRole(identity.role) # "none"

\* The end of the authenticator: the user is the source's identifier, or the name typed in.
Concludes(identity, fault) ==
    signIn' = [signIn EXCEPT !.stage = "done", !.faulty = @ \/ fault,
                             !.answer = IF ~MayEnter(identity) THEN Refused
                                        ELSE [user |-> IF identity.known THEN "own" ELSE "typed",
                                              role |-> LoginRole(identity.role)]]

Lookup ==
    /\ At("lookup")
    /\ \/ source = "ldap" /\ person.entries = 2 /\ Again(Concludes(NoIdentity, FALSE))
       \/ source = "plesk" /\ person.entries > 0 /\ Goes("accounts")
       \/ /\ source = "plesk" => person.entries = 0
          /\ person.entries < 2 /\ Concludes(Identity, FALSE)
LookupAccounts == At("accounts") /\ Concludes(Identity, FALSE)

\* The catch around lookupUser: the sign-in goes on without an identity.
LookupFails ==
    \/ At("lookup") /\ source = "ldap" /\ Again(Concludes(NoIdentity, TRUE))
    \/ At("lookup") /\ source # "ldap" /\ Concludes(NoIdentity, TRUE)
    \/ At("accounts") /\ Concludes(NoIdentity, TRUE)

\* cPanel reports an error of its own with status 200 and no data: no row, no identity.
PanelReportsError == At("lookup") /\ source = "cpanel" /\ Concludes(NoIdentity, TRUE)

\* callUapi, request: the timer is cleared when the headers are there; the body may never come.
BodyNeverComes ==
    /\ At("lookup") \/ At("accounts")
    /\ source \in Panels /\ Goes("stuck")

Next ==
    \/ AdministratorChanges
    \/ \E guess \in Passwords, wellFormed \in BOOLEAN : Begin(guess, wellFormed)
    \/ Find \/ FindFails \/ VerifyPassword \/ VerifyFails
    \/ Lookup \/ LookupAccounts \/ LookupFails \/ PanelReportsError \/ BodyNeverComes

Spec == Init /\ [][Next]_vars
-----------------------------------------------------------------------------
Roles == {"none", "user", "tenant_master", "monitor"}

TypeOK ==
    /\ source \in Sources /\ settings \in {"ok", "disabled", "incomplete"}
    /\ person \in Held(source) /\ changes \in 0 .. MaxPersonChanges
    /\ signIn.stage \in {"idle", "find", "bind", "verify", "lookup", "accounts", "stuck", "done"}
    /\ signIn.guess \in Passwords /\ signIn.left \in 0 .. LookupRetries
    /\ signIn.guesses \in Nat /\ signIn.faulty \in BOOLEAN /\ signIn.seen \subseteq Held(source)
    /\ signIn.answer \in [user : {"none", "own", "typed"}, role : Roles]

\* What the person is to be answered by an account that stays as it is.
Due(p) ==
    IF /\ settings = "ok" /\ p.entries = 1 /\ p.password = signIn.guess
       /\ source = "ldap" \/ p.active
       /\ p.roles \in {{}, {"monitor"}}
    THEN [user |-> "own", role |-> IF p.roles = {} THEN "user" ELSE "monitor"]
    ELSE Refused

\* A sign-in is answered by what the source held while it ran: the password was right and tried
\* once, in the table of an active account; a role above the least was the only one of the
\* account; who is known was active, except in a directory; and an account that nobody touched,
\* in calls whose failures the retries made good,
\* gets exactly its due (login.ts: createProvisionedLoginAuthenticator).
SignInIsEarned ==
    /\ signIn.guesses <= 1
    /\ signIn.answer # Refused =>
          /\ \E p \in signIn.seen : /\ p.entries > 0 /\ p.password = signIn.guess
                                   /\ source = "database" => p.active
          /\ signIn.answer.role # "user" => \E p \in signIn.seen : p.roles = {signIn.answer.role}
          /\ (signIn.answer.user = "own" /\ source # "ldap") => \E p \in signIn.seen : p.active
    /\ (signIn.stage = "done" /\ ~signIn.faulty /\ Cardinality(signIn.seen) = 1) =>
          \A p \in signIn.seen : signIn.answer = Due(p)
=============================================================================
