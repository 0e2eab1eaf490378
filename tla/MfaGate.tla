------------------------------- MODULE MfaGate -------------------------------
(***************************************************************************)
(* The second-factor gate of the web login (src/runtime/mfa.ts) for one     *)
(* user, with the user's factors in the TOTP manager (src/core/auth/totp.ts) *)
(* and the recovery code manager (src/core/auth/recovery-codes.ts).         *)
(*                                                                         *)
(* A correct password opens a challenge; requests that name its token are   *)
(* served in any order and from several browsers, one at a time.  A         *)
(* challenge keeps what was enrolled when it was opened, while the managers *)
(* go on changing under it.  The WebAuthn manager is injected: here it is   *)
(* the set of credentials and a verdict per ceremony (its own module is     *)
(* WebAuthn).  Requests that answer "invalid" or "not_allowed" change       *)
(* nothing, apart from dropping an expired challenge, and are no actions.   *)
(*                                                                         *)
(* The managers are synchronous: a call is one step, and the operators on   *)
(* factors below say what it does.  A TOTP code is the time step it belongs *)
(* to, a recovery code a member of RecoveryCodes; Wrong is any other        *)
(* well-formed code and Malformed one that does not have the shape of a     *)
(* code.  A factor carries its entry of the manager's `attempts` map: a     *)
(* missing entry is failed = lockedUntil = 0.                               *)
(*                                                                         *)
(* History variables: `had` is what the user had enrolled when the password *)
(* was checked, `proofs` what a challenge has accepted, `guesses` the times *)
(* of the last codes that were compared and refused.                        *)
(***************************************************************************)
EXTENDS Integers, FiniteSets, Sequences, TLC

CONSTANTS
    RecoveryCodes,      \* the codes of one recovery factor (count)
    Wrong, Malformed,
    Period,             \* periodSeconds, in clock units
    Window,             \* window: accepted distance from the current step
    FactorFailures,     \* maxFailures of both managers
    Lockout             \* lockoutMs, in clock units

ASSUME CodeAssumption ==
    /\ Wrong # Malformed /\ Wrong \notin Nat /\ Malformed \notin Nat
    /\ {Wrong, Malformed} \cap RecoveryCodes = {}
ASSUME ManagerAssumption ==
    /\ Period \in Nat \ {0} /\ Window \in Nat
    /\ FactorFailures \in Nat \ {0} /\ Lockout \in Nat \ {0}

Totps == [status : {"absent", "pending", "active", "revoked"}, last : Int,
          failed : Nat, lockedUntil : Nat]
NoTotp == [status |-> "absent", last |-> -1, failed |-> 0, lockedUntil |-> 0]
NewTotp == [NoTotp EXCEPT !.status = "pending"]

RecoverySets == [status : {"absent", "live", "revoked"}, unused : SUBSET RecoveryCodes,
                 failed : Nat, lockedUntil : Nat]
NoRecovery == [status |-> "absent", unused |-> {}, failed |-> 0, lockedUntil |-> 0]
NewRecovery == [NoRecovery EXCEPT !.status = "live", !.unused = RecoveryCodes]
-----------------------------------------------------------------------------
Locked(factor, now) == factor.lockedUntil > now

\* Mutant: the lock is taken one failure too late.
FailedLate(factor, now) ==
    [factor EXCEPT
       !.failed = @ + 1,
       !.lockedUntil = IF factor.failed + 1 > FactorFailures THEN now + Lockout ELSE @]

\* A failed attempt is counted, also while the factor is locked: that extends the lock.
Failed(factor, now) ==
    [factor EXCEPT
       !.failed = @ + 1,
       !.lockedUntil = IF factor.failed + 1 >= FactorFailures THEN now + Lockout ELSE @]

\* An attempt after the lock has run out starts a new count.
Unlocked(factor) ==
    IF factor.lockedUntil = 0 THEN factor
    ELSE [factor EXCEPT !.failed = 0, !.lockedUntil = 0]

TimeStep(now) == now \div Period

\* The code is compared with the secret's codes: a malformed one never is.
TotpCompares(factor, code, now) == code # Malformed /\ ~Locked(factor, now)

TotpAccepts(factor, code, now) ==
    /\ TotpCompares(factor, code, now)
    /\ code # Wrong
    /\ TimeStep(now) - Window <= code /\ code <= TimeStep(now) + Window
    /\ code > factor.last

\* Mutant: the accepted time step is not remembered.
TotpEvaluatedForgetful(factor, code, now) ==
    IF TotpAccepts(factor, code, now)
    THEN [factor EXCEPT !.failed = 0, !.lockedUntil = 0]
    ELSE Failed(IF TotpCompares(factor, code, now) THEN Unlocked(factor) ELSE factor, now)

\* evaluate: the factor after an attempt with `code`.
TotpEvaluated(factor, code, now) ==
    IF TotpAccepts(factor, code, now)
    THEN [factor EXCEPT !.failed = 0, !.lockedUntil = 0, !.last = code]
    ELSE Failed(IF TotpCompares(factor, code, now) THEN Unlocked(factor) ELSE factor, now)

RecoveryAccepts(factor, code, now) == ~Locked(factor, now) /\ code \in factor.unused

\* consume: the recovery factor after an attempt with `code`.
RecoveryConsumed(factor, code, now) ==
    IF RecoveryAccepts(factor, code, now)
    THEN [factor EXCEPT !.failed = 0, !.lockedUntil = 0, !.unused = @ \ {code}]
    ELSE Failed(IF Locked(factor, now) THEN factor ELSE Unlocked(factor), now)
-----------------------------------------------------------------------------
CONSTANTS
    Challenges,         \* tokens: random, so never used twice
    Policy,             \* [Types -> {"disabled", "optional", "required"}]
    Managers,           \* the factor types that have a manager
    RecoveryEnabled,    \* policy.recoveryCodes, and there is a manager
    Ttl, MaxFailures, MaxPending,
    Revocations,        \* may factors be revoked during a login?
    MaxTotps, MaxRecoverySets, MaxCredentials, MaxTime   \* bounds

Types == {"totp", "webauthn"}

ASSUME PolicyAssumption ==
    /\ Policy \in [Types -> {"disabled", "optional", "required"}]
    /\ Managers \subseteq Types /\ RecoveryEnabled \in BOOLEAN /\ Revocations \in BOOLEAN
ASSUME GateAssumption ==
    /\ Ttl \in Nat \ {0} /\ MaxFailures \in Nat \ {0} /\ MaxPending \in Nat
    /\ MaxTotps \in Nat /\ MaxRecoverySets \in Nat /\ MaxCredentials \in Nat /\ MaxTime \in Nat

TotpIds == 1 .. MaxTotps            \* in the order of enrollment
RecoveryIds == 1 .. MaxRecoverySets
CredentialIds == 1 .. MaxCredentials

VARIABLES now, phase, entry, totp, recovery, credential, had, proofs, guesses

factorVars == <<totp, recovery, credential>>
vars == <<now, phase, entry, factorVars, had, proofs, guesses>>

Entries == [expiresAt : Nat, needs : SUBSET Types, enrolled : SUBSET Types,
            satisfied : SUBSET Types, failures : Nat,
            enrolling : TotpIds \cup {0},      \* totpEnrollmentFactorId
            codesIssued : BOOLEAN]             \* recoveryIssued
NoEntry == [expiresAt |-> 0, needs |-> {}, enrolled |-> {}, satisfied |-> {},
            failures |-> 0, enrolling |-> 0, codesIssued |-> FALSE]

TotpCodes == (0 .. TimeStep(MaxTime) + Window) \cup {Wrong, Malformed}
RecoveryInputs == RecoveryCodes \cup {Wrong, Malformed}

\* What was accepted for a factor type: a code of a factor, or a ceremony.
Proofs == [type : Types, source : {"totp", "recovery", "webauthn"}, id : Nat,
           code : TotpCodes \cup RecoveryInputs \cup Challenges]
Proof(type, source, id, code) ==
    [type |-> type, source |-> source, id |-> id, code |-> code]

TotpActive == {f \in TotpIds : totp[f].status = "active"}
First(ids) == CHOOSE f \in ids : \A g \in ids : f <= g
RecoveryUsable == {r \in RecoveryIds : recovery[r].status = "live" /\ recovery[r].unused # {}}
CredentialActive == {k \in CredentialIds : credential[k] = "active"}

\* isEnrolled
Enrolled == {t \in Types : IF t = "totp" THEN TotpActive # {} ELSE CredentialActive # {}}

\* The managers may come with what the user enrolled before.
Init ==
    /\ now = 0
    /\ phase = [c \in Challenges |-> "fresh"]
    /\ entry = [c \in Challenges |-> NoEntry]
    /\ \E has \in SUBSET {"totp", "recovery", "webauthn"} :
         /\ totp = [f \in TotpIds |-> IF f = 1 /\ "totp" \in has
                                      THEN [NewTotp EXCEPT !.status = "active"] ELSE NoTotp]
         /\ recovery = [r \in RecoveryIds |-> IF r = 1 /\ "recovery" \in has
                                              THEN NewRecovery ELSE NoRecovery]
         /\ credential = [k \in CredentialIds |-> IF k = 1 /\ "webauthn" \in has
                                                  THEN "active" ELSE "absent"]
    /\ had = [c \in Challenges |-> {}]
    /\ proofs = [c \in Challenges |-> {}]
    /\ guesses = [f \in TotpIds |-> <<>>]

Tick ==
    /\ now < MaxTime /\ now' = now + 1
    /\ UNCHANGED <<phase, entry, factorVars, had, proofs, guesses>>
-----------------------------------------------------------------------------
(* begin *)

Expired(c) == phase[c] = "pending" /\ entry[c].expiresAt <= now
Pending == {c \in Challenges : phase[c] = "pending"}

\* purgeExpired
Purged == [c \in Challenges |-> IF Expired(c) THEN "gone" ELSE phase[c]]

Usable(t) == Policy[t] # "disabled" /\ t \in Managers
Unavailable == \E t \in Types : Policy[t] = "required" /\ t \notin Managers
Needs == {t \in Types : Usable(t) /\ (Policy[t] = "required" \/ t \in Enrolled)}

Begin(c) ==
    /\ phase[c] = "fresh"
    /\ \/ /\ Unavailable \/ (Needs # {} /\ Cardinality({d \in Pending : ~Expired(d)}) >= MaxPending)
          /\ phase' = Purged                              \* 503
          /\ UNCHANGED <<entry, had>>
       \/ /\ ~Unavailable /\ Needs = {}                   \* the password is enough
          /\ phase' = [Purged EXCEPT ![c] = "complete"]
          /\ had' = [had EXCEPT ![c] = Enrolled]
          /\ UNCHANGED entry
       \/ /\ ~Unavailable /\ Needs # {}
          /\ Cardinality({d \in Pending : ~Expired(d)}) < MaxPending
          /\ phase' = [Purged EXCEPT ![c] = "pending"]
          /\ entry' = [entry EXCEPT ![c] =
                         [NoEntry EXCEPT !.expiresAt = now + Ttl, !.needs = Needs,
                                         !.enrolled = {t \in Enrolled : Usable(t)}]]
          /\ had' = [had EXCEPT ![c] = Enrolled]
    /\ UNCHANGED <<now, factorVars, proofs, guesses>>

\* lookup, for an expired challenge
DropExpired(c) ==
    /\ Expired(c)
    /\ phase' = [phase EXCEPT ![c] = "gone"]
    /\ UNCHANGED <<now, entry, factorVars, had, proofs, guesses>>
-----------------------------------------------------------------------------
(* The steps of a challenge. *)

Live(c) == phase[c] = "pending" /\ ~Expired(c)
Outstanding(c, t) == Live(c) /\ t \in Managers /\ t \in entry[c].needs \ entry[c].satisfied

MayEnroll(c, t) ==
    t \in entry[c].needs \ entry[c].enrolled /\ entry[c].enrolled \subseteq entry[c].satisfied

\* Mutant: the budget is checked before the failure is counted.
FailureLate(c) ==
    /\ entry' = [entry EXCEPT ![c].failures = @ + 1]
    /\ phase' = [phase EXCEPT ![c] = IF entry[c].failures >= MaxFailures THEN "gone" ELSE @]
    /\ UNCHANGED <<now, had, proofs>>

\* failure
Failure(c) ==
    /\ entry' = [entry EXCEPT ![c].failures = @ + 1]
    /\ phase' = [phase EXCEPT ![c] = IF entry[c].failures + 1 >= MaxFailures THEN "gone" ELSE @]
    /\ UNCHANGED <<now, had, proofs>>

\* Mutant: a factor that is revoked meanwhile is no longer asked for.
AdvanceOnCurrent(c, satisfied) ==
    phase' = [phase EXCEPT ![c] =
                IF entry[c].needs \cap (Enrolled \cup entry[c].satisfied) \subseteq satisfied
                THEN "complete" ELSE @]

\* advance
Advance(c, satisfied) ==
    phase' = [phase EXCEPT ![c] = IF entry[c].needs \subseteq satisfied THEN "complete" ELSE @]

Satisfy(c, proof) ==
    /\ entry' = [entry EXCEPT ![c].satisfied = @ \cup {proof.type}]
    /\ Advance(c, entry[c].satisfied \cup {proof.type})
    /\ proofs' = [proofs EXCEPT ![c] = @ \cup {proof}]
    /\ UNCHANGED <<now, had>>

\* issueRecoveryCodes: a new set, unless there is one with unused codes.
IssuesCodes(c) == RecoveryEnabled /\ ~entry[c].codesIssued /\ RecoveryUsable = {}
NextRecovery == {r \in RecoveryIds : recovery[r].status = "absent"}
IssueRecoveryCodes(c) ==
    IF IssuesCodes(c)
    THEN /\ NextRecovery # {}           \* bound
         /\ recovery' = [recovery EXCEPT ![First(NextRecovery)] = NewRecovery]
    ELSE UNCHANGED recovery

\* A first factor of its type was confirmed in this challenge.
Enroll(c, proof) ==
    /\ entry' = [entry EXCEPT ![c].satisfied = @ \cup {proof.type},
                              ![c].enrolled = @ \cup {proof.type},
                              ![c].codesIssued = @ \/ IssuesCodes(c)]
    /\ Advance(c, entry[c].satisfied \cup {proof.type})
    /\ IssueRecoveryCodes(c)
    /\ proofs' = [proofs EXCEPT ![c] = @ \cup {proof}]
    /\ UNCHANGED <<now, had>>

\* enrollTotp
EnrollTotp(c) ==
    /\ Live(c) /\ "totp" \in Managers /\ MayEnroll(c, "totp")
    /\ \E f \in TotpIds :                \* bound: there is an id left
         /\ totp[f].status = "absent" /\ \A g \in 1 .. f - 1 : totp[g].status # "absent"
         /\ totp' = [totp EXCEPT ![f] = NewTotp]
         /\ entry' = [entry EXCEPT ![c].enrolling = f]
    /\ UNCHANGED <<now, phase, recovery, credential, had, proofs, guesses>>

\* Only the last FactorFailures + 1 guesses are kept.
Guess(f, code) ==
    guesses' = [guesses EXCEPT ![f] =
        IF TotpAccepts(totp[f], code, now) THEN <<>>
        ELSE IF ~TotpCompares(totp[f], code, now) THEN @
        ELSE IF Len(@) > FactorFailures THEN Append(Tail(@), now) ELSE Append(@, now)]

\* verifyTotp, for a user who had a TOTP factor when the challenge was opened.
VerifyTotp(c, code) ==
    /\ Outstanding(c, "totp") /\ "totp" \in entry[c].enrolled
    /\ \/ /\ TotpActive = {} /\ Failure(c)
          /\ UNCHANGED <<totp, guesses>>
       \/ /\ TotpActive # {}
          /\ LET f == First(TotpActive) IN
               /\ totp' = [totp EXCEPT ![f] = TotpEvaluated(@, code, now)]
               /\ Guess(f, code)
               /\ IF TotpAccepts(totp[f], code, now)
                  THEN Satisfy(c, Proof("totp", "totp", f, code)) ELSE Failure(c)
    /\ UNCHANGED <<recovery, credential>>

\* verifyTotp, with confirmEnrollment of the factor this challenge has enrolled.
ConfirmTotp(c, code) ==
    /\ Outstanding(c, "totp") /\ "totp" \notin entry[c].enrolled
    /\ entry[c].enrolling # 0 /\ MayEnroll(c, "totp")
    /\ LET f == entry[c].enrolling IN
         \/ /\ totp[f].status # "pending" /\ Failure(c)
            /\ UNCHANGED <<totp, recovery, guesses>>
         \/ /\ totp[f].status = "pending"
            /\ Guess(f, code)
            /\ \/ /\ TotpAccepts(totp[f], code, now)
                  /\ totp' = [totp EXCEPT ![f] =
                                [TotpEvaluated(@, code, now) EXCEPT !.status = "active"]]
                  /\ Enroll(c, Proof("totp", "totp", f, code))
               \/ /\ ~TotpAccepts(totp[f], code, now)
                  /\ totp' = [totp EXCEPT ![f] = TotpEvaluated(@, code, now)]
                  /\ Failure(c) /\ UNCHANGED recovery
    /\ UNCHANGED credential

\* verifyRecovery: the code stands in for the first enrolled factor that is outstanding.
VerifyRecovery(c, code) ==
    /\ Live(c) /\ RecoveryEnabled
    /\ LET targets == (entry[c].needs \cap entry[c].enrolled) \ entry[c].satisfied
           target == IF "totp" \in targets THEN "totp" ELSE "webauthn"
       IN /\ targets # {}
          /\ \/ /\ RecoveryUsable = {} /\ Failure(c) /\ UNCHANGED recovery
             \/ /\ RecoveryUsable # {}
                /\ LET r == First(RecoveryUsable) IN
                     /\ recovery' = [recovery EXCEPT ![r] = RecoveryConsumed(@, code, now)]
                     /\ IF RecoveryAccepts(recovery[r], code, now)
                        THEN Satisfy(c, Proof(target, "recovery", r, code)) ELSE Failure(c)
    /\ UNCHANGED <<totp, credential, guesses>>

\* webauthnComplete: the ceremony is an assertion or, without a credential, a registration.
CompleteAssertion(c) ==
    /\ Outstanding(c, "webauthn") /\ "webauthn" \in entry[c].enrolled
    /\ \/ \E k \in CredentialActive : Satisfy(c, Proof("webauthn", "webauthn", k, c))
       \/ Failure(c)
    /\ UNCHANGED <<factorVars, guesses>>

CompleteRegistration(c) ==
    /\ Outstanding(c, "webauthn") /\ MayEnroll(c, "webauthn")
    /\ \/ /\ \E k \in CredentialIds :       \* bound: there is an id left
               /\ credential[k] = "absent" /\ \A j \in 1 .. k - 1 : credential[j] # "absent"
               /\ credential' = [credential EXCEPT ![k] = "active"]
               /\ Enroll(c, Proof("webauthn", "webauthn", k, c))
       \/ Failure(c) /\ UNCHANGED <<credential, recovery>>
    /\ UNCHANGED <<totp, guesses>>
-----------------------------------------------------------------------------
(* revoke, revokeCredential: operations of the managers that no route calls. *)

Revoke ==
    /\ Revocations
    /\ \/ /\ \E f \in TotpIds :
               /\ totp[f].status \in {"pending", "active"}
               /\ totp' = [totp EXCEPT ![f] = [@ EXCEPT !.status = "revoked", !.failed = 0,
                                                        !.lockedUntil = 0]]
          /\ UNCHANGED <<recovery, credential>>
       \/ /\ \E r \in RecoveryIds :
               /\ recovery[r].status = "live"
               /\ recovery' = [recovery EXCEPT ![r] = [@ EXCEPT !.status = "revoked", !.failed = 0,
                                                                !.lockedUntil = 0]]
          /\ UNCHANGED <<totp, credential>>
       \/ /\ \E k \in CredentialActive : credential' = [credential EXCEPT ![k] = "revoked"]
          /\ UNCHANGED <<totp, recovery>>
    /\ UNCHANGED <<now, phase, entry, had, proofs, guesses>>

Request(c) ==
    \/ Begin(c) \/ DropExpired(c) \/ EnrollTotp(c)
    \/ \E code \in TotpCodes : VerifyTotp(c, code) \/ ConfirmTotp(c, code)
    \/ \E code \in RecoveryInputs : VerifyRecovery(c, code)
    \/ CompleteAssertion(c) \/ CompleteRegistration(c)

Next == Tick \/ Revoke \/ \E c \in Challenges : Request(c)

Spec == Init /\ [][Next]_vars
-----------------------------------------------------------------------------
(* Properties. *)

\* Every variable holds a value of its type; a pending challenge has some of
\* its five failures left and a factor outstanding.
TypeOK ==
    /\ now \in Nat
    /\ phase \in [Challenges -> {"fresh", "pending", "complete", "gone"}]
    /\ entry \in [Challenges -> Entries]
    /\ \A c \in Challenges : phase[c] = "pending" =>
         entry[c].failures < MaxFailures /\ entry[c].needs \ entry[c].satisfied # {}
    /\ totp \in [TotpIds -> Totps]
    /\ recovery \in [RecoveryIds -> RecoverySets]
    /\ credential \in [CredentialIds -> {"absent", "active", "revoked"}]
    /\ had \in [Challenges -> SUBSET Types]
    /\ \A c \in Challenges : \A p \in proofs[c] : p \in Proofs
    /\ guesses \in [TotpIds -> Seq(Nat)]

\* A login that is let through has shown every factor its policy requires and
\* every factor the user had when the password was checked, whatever has been
\* enrolled, used up or revoked since ("all listed factors").
EveryDemandedFactorProven ==
    \A c \in Challenges : phase[c] = "complete" =>
        \A t \in Types :
            Usable(t) /\ (Policy[t] = "required" \/ t \in had[c]) =>
                \E p \in proofs[c] : p.type = t

\* Nothing is accepted twice: one TOTP time step of a factor, or one recovery
\* code, satisfies one factor of one challenge, across all challenges of the user
\* (lastUsedCounter, usedAt).
ProofsSpentOnce ==
    \A c, d \in Challenges : \A p \in proofs[c], q \in proofs[d] :
        /\ p.source = q.source /\ p.id = q.id /\ p.code = q.code
        /\ p.source # "webauthn"
        => c = d /\ p = q

\* However many challenges are open, and whatever is sent while the factor is
\* locked, the secret is compared with at most FactorFailures wrong codes within
\* one lockout period.
GuessesSpaced ==
    \A f \in TotpIds : Len(guesses[f]) > FactorFailures =>
        guesses[f][Len(guesses[f])] - guesses[f][1] >= Lockout

\* "A new factor may only be added once every factor the user already has is
\* satisfied in this challenge" (mayEnroll): the factors the user has at that
\* time, not those of the time the challenge was opened.
EnrollmentNeedsEveryFactor ==
    [][\A c \in Challenges :
         phase[c] = "pending" /\ entry'[c].enrolled # entry[c].enrolled =>
             {t \in Enrolled : Usable(t)} \subseteq entry[c].satisfied]_vars

\* Policies of the instances, and what is interchangeable in them.
TotpRequired == [t \in Types |-> IF t = "totp" THEN "required" ELSE "disabled"]
BothRequired == [t \in Types |-> "required"]

ChallengeSymmetry == Permutations(Challenges)
CodeSymmetry == Permutations(RecoveryCodes)
AllSymmetry == ChallengeSymmetry \cup CodeSymmetry
=============================================================================
