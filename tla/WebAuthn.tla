------------------------------- MODULE WebAuthn -------------------------------
(***************************************************************************)
(* The WebAuthn ceremony manager (auth/webauthn.ts): challenges, used up by *)
(* the first answer whatever it is, and the credentials of all users, with  *)
(* their signature counters.  The signature check behind the manager and    *)
(* the rate limiter are a verdict; origin, RP ID and format checks end like *)
(* a signature that does not hold.                                          *)
(*                                                                         *)
(* `completed` and `shown` are history: what each challenge was good for,   *)
(* and the positive counters accepted from a credential since the last 0.   *)
(***************************************************************************)
EXTENDS Naturals, FiniteSetsExt

CONSTANTS
    Holders, Credentials, NoHolder,
    ChallengeTtl,
    MaxChallenges, MaxCount, MaxTime        \* bounds

VARIABLES now, challenge, credential, completed, shown

vars == <<now, challenge, credential, completed, shown>>

Challenges == 1 .. MaxChallenges
NoChallenge == [type |-> "unused", user |-> NoHolder, allow |-> {}, expiresAt |-> 0]
GoneChallenge == [NoChallenge EXCEPT !.type = "gone"]
NoCredential == [user |-> NoHolder, signCount |-> 0, revoked |-> FALSE]

ChallengeRecords ==
    [type : {"unused", "registration", "assertion", "gone"}, user : Holders \cup {NoHolder},
     allow : SUBSET Credentials, expiresAt : 0 .. MaxTime + ChallengeTtl]

Completions == [type : {"registration", "assertion"}, user : Holders, credential : Credentials,
                asked : 0 .. MaxTime, at : 0 .. MaxTime]

TypeOK ==
    /\ now \in 0 .. MaxTime
    /\ challenge \in [Challenges -> ChallengeRecords]
    /\ credential \in [Credentials -> [user : Holders \cup {NoHolder}, signCount : 0 .. MaxCount,
                                       revoked : BOOLEAN]]
    /\ completed \in [Challenges -> SUBSET Completions]
    /\ shown \in [Credentials -> SUBSET (1 .. MaxCount)]

Init ==
    /\ now = 0
    /\ challenge = [c \in Challenges |-> NoChallenge]
    /\ credential = [k \in Credentials |-> NoCredential]
    /\ completed = [c \in Challenges |-> {}]
    /\ shown = [k \in Credentials |-> {}]

Tick == now < MaxTime /\ now' = now + 1 /\ UNCHANGED <<challenge, credential, completed, shown>>

Registered(k) == credential[k] # NoCredential
Usable(u, k) == credential[k].user = u /\ ~credential[k].revoked

\* issueChallenge
Issue(type, u, allow) ==
    LET unused == {c \in Challenges : challenge[c] = NoChallenge} IN
    /\ unused # {}
    /\ challenge' = [challenge EXCEPT ![Min(unused)] =
           [type |-> type, user |-> u, allow |-> allow, expiresAt |-> now + ChallengeTtl]]
    /\ UNCHANGED <<now, credential, completed, shown>>

BeginRegistration(u) == Issue("registration", u, {})

\* beginAssertion: what the caller named and the user can use, or all the user can use
BeginAssertion(u, named) ==
    Issue("assertion", u, {k \in Credentials : Usable(u, k) /\ (named = {} \/ k \in named)})

\* Mutant: a challenge is used up only by the answer it is for.
SpentWhenRight(c, type, u) ==
    challenge' = IF challenge[c].type = type /\ challenge[c].user = u
                   THEN challenge ELSE [challenge EXCEPT ![c] = GoneChallenge]

\* consumeChallenge: gone with the first answer, before anything is tested
Spent(c, type, u) == challenge' = [challenge EXCEPT ![c] = GoneChallenge]

Good(c, type, u) == /\ challenge[c].type = type /\ challenge[c].user = u
                    /\ challenge[c].expiresAt > now

Completed(c, type, u, k) ==
    completed' = [completed EXCEPT ![c] = @ \cup
        {[type |-> type, user |-> u, credential |-> k, asked |-> challenge[c].expiresAt - ChallengeTtl,
          at |-> now]}]

\* completeRegistration; a credential id is one user's for good
CompleteRegistration(c, u, k, valid, count) ==
    /\ challenge[c].type \in {"registration", "assertion"}
    /\ Spent(c, "registration", u)
    /\ IF Good(c, "registration", u) /\ valid /\ ~Registered(k)
         THEN /\ credential' = [credential EXCEPT ![k] =
                     [user |-> u, signCount |-> count, revoked |-> FALSE]]
              /\ Completed(c, "registration", u, k)
              /\ shown' = [shown EXCEPT ![k] = {count} \ {0}]
         ELSE UNCHANGED <<credential, completed, shown>>
    /\ UNCHANGED now

\* The answers an assertion is refused for after the challenge is gone.
Allowed(c, k) == challenge[c].allow # {} => k \in challenge[c].allow
RolledBack(k, count) == credential[k].signCount > 0 /\ count > 0 /\ count <= credential[k].signCount

CompleteAssertion(c, u, k, valid, count) ==
    /\ challenge[c].type \in {"registration", "assertion"}
    /\ Spent(c, "assertion", u)
    /\ IF Good(c, "assertion", u) /\ Allowed(c, k) /\ Usable(u, k) /\ valid /\ ~RolledBack(k, count)
         THEN /\ credential' = [credential EXCEPT ![k].signCount = count]
              /\ Completed(c, "assertion", u, k)
              /\ shown' = [shown EXCEPT ![k] = IF count = 0 THEN {} ELSE @ \cup {count}]
         ELSE UNCHANGED <<credential, completed, shown>>
    /\ UNCHANGED now

\* revokeCredential, by the user or by whom the installation authorizes
RevokeCredential(u, k) ==
    /\ credential[k].user = u
    /\ credential' = [credential EXCEPT ![k].revoked = TRUE]
    /\ UNCHANGED <<now, challenge, completed, shown>>

Next ==
    \/ Tick
    \/ \E u \in Holders :
          \/ BeginRegistration(u)
          \/ \E named \in SUBSET Credentials : BeginAssertion(u, named)
          \/ \E k \in Credentials :
                \/ RevokeCredential(u, k)
                \/ \E c \in Challenges, valid \in BOOLEAN, count \in 0 .. MaxCount :
                      \/ CompleteRegistration(c, u, k, valid, count)
                      \/ CompleteAssertion(c, u, k, valid, count)

Spec == Init /\ [][Next]_vars
-----------------------------------------------------------------------------
\* A challenge buys one ceremony at the most, for the user it was issued to and in its time,
\* however many answers arrive for it; and every counter accepted since the last 0 is at most
\* the one that is stored, so that none of them is taken again.  (The code takes a 0 whatever is
\* stored, and the counting begins anew: between two 0s only are counters monotonic.)
CeremoniesSingle ==
    /\ \A c \in Challenges :
          /\ Cardinality(completed[c]) <= 1
          /\ \A d \in completed[c] : d.at < d.asked + ChallengeTtl /\ challenge[c].type = "gone"
    /\ \A k \in Credentials : \A n \in shown[k] : n <= credential[k].signCount

\* A credential belongs to the user who registered it for good, and once it is revoked its
\* counter, and with it its last use, stands still.
CredentialSteps ==
    \A k \in Credentials : Registered(k) =>
        /\ credential'[k].user = credential[k].user
        /\ credential[k].revoked => credential'[k] = credential[k] /\ shown'[k] = shown[k]

CredentialsKept == [][CredentialSteps]_vars
=============================================================================
