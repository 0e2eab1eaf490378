------------------------------ MODULE MfaProofs ------------------------------
(***************************************************************************)
(* Proofs about MfaGate, for any number of challenges, factors and codes,   *)
(* any policy and any clock.  The inductive invariant adds to the types     *)
(* what an accepted proof leaves behind in its factor (ProofInv) and what a *)
(* challenge still owes (ChallengeInv).                                     *)
(***************************************************************************)
EXTENDS MfaGate, WellFoundedInduction, TLAPS

\* The types, without the history of guesses.
Typing ==
    /\ now \in Nat
    /\ phase \in [Challenges -> {"fresh", "pending", "complete", "gone"}]
    /\ entry \in [Challenges -> Entries]
    /\ totp \in [TotpIds -> Totps]
    /\ recovery \in [RecoveryIds -> RecoverySets]
    /\ credential \in [CredentialIds -> {"absent", "active", "revoked"}]
    /\ had \in [Challenges -> SUBSET Types]
    /\ proofs \in [Challenges -> SUBSET Proofs]

\* A pending challenge has some of its budget left, and a factor to ask for.
PendingInv ==
    \A c \in Challenges : phase[c] = "pending" =>
        entry[c].failures < MaxFailures /\ entry[c].needs \ entry[c].satisfied # {}

GuessesInv == guesses \in [TotpIds -> Seq(Nat)]

\* An accepted code is used up in its factor.
Spent(p) ==
    /\ p.source = "totp" => /\ p.id \in TotpIds /\ totp[p.id].status # "absent"
                            /\ p.code \in Nat /\ p.code <= totp[p.id].last
    /\ p.source = "recovery" => /\ p.id \in RecoveryIds /\ recovery[p.id].status # "absent"
                                /\ p.code \notin recovery[p.id].unused

ProofInv == \A c \in Challenges : \A p \in proofs[c] : Spent(p)

Owed(c) == {t \in Types : Usable(t) /\ (Policy[t] = "required" \/ t \in had[c])}
Shown(c, t) == \E p \in proofs[c] : p.type = t

\* A challenge asks for what it owes, and believes only what was shown.
ChallengeInv ==
    \A c \in Challenges :
        /\ phase[c] = "fresh" => proofs[c] = {}
        /\ phase[c] = "pending" => entry[c].needs = Owed(c)
        /\ phase[c] = "pending" => \A t \in entry[c].satisfied : Shown(c, t)
        /\ phase[c] = "complete" => \A t \in Owed(c) : Shown(c, t)

IInv == Typing /\ PendingInv /\ GuessesInv /\ ProofInv /\ ChallengeInv /\ ProofsSpentOnce
-----------------------------------------------------------------------------
(* The factors. *)

\* A failed attempt touches the counters of a factor only (emitFailure, failure).
LEMMA FailedTotp ==
    ASSUME NEW f \in Totps, NEW n \in Nat
    PROVE  /\ Failed(f, n) \in Totps
           /\ Failed(f, n).status = f.status /\ Failed(f, n).last = f.last
<1> DEFINE until == IF f.failed + 1 >= FactorFailures THEN n + Lockout ELSE f.lockedUntil
<1>1. f.failed + 1 \in Nat /\ until \in Nat
  BY ManagerAssumption DEF Totps
<1>2. Failed(f, n) = [f EXCEPT !.failed = f.failed + 1, !.lockedUntil = until]
  BY DEF Failed
<1> HIDE DEF until
<1> QED BY <1>1, <1>2 DEF Totps

LEMMA FailedRecovery ==
    ASSUME NEW f \in RecoverySets, NEW n \in Nat
    PROVE  /\ Failed(f, n) \in RecoverySets
           /\ Failed(f, n).status = f.status /\ Failed(f, n).unused = f.unused
<1> DEFINE until == IF f.failed + 1 >= FactorFailures THEN n + Lockout ELSE f.lockedUntil
<1>1. f.failed + 1 \in Nat /\ until \in Nat
  BY ManagerAssumption DEF RecoverySets
<1>2. Failed(f, n) = [f EXCEPT !.failed = f.failed + 1, !.lockedUntil = until]
  BY DEF Failed
<1> HIDE DEF until
<1> QED BY <1>1, <1>2 DEF RecoverySets

\* An accepted TOTP code is a later time step than the last one, and becomes it.
LEMMA EvaluatedTotp ==
    ASSUME NEW f \in Totps, NEW n \in Nat, NEW code \in TotpCodes
    PROVE  LET g == TotpEvaluated(f, code, n) IN
           /\ g \in Totps /\ g.status = f.status /\ f.last <= g.last
           /\ TotpAccepts(f, code, n) => code \in Nat /\ f.last < code /\ g.last = code
<1>1. CASE TotpAccepts(f, code, n)
  <2>1. code \in Nat /\ f.last < code
    BY <1>1, CodeAssumption DEF TotpAccepts, TotpCompares, TotpCodes, Totps
  <2>2. TotpEvaluated(f, code, n) = [f EXCEPT !.failed = 0, !.lockedUntil = 0, !.last = code]
    BY <1>1 DEF TotpEvaluated
  <2>3. f.last \in Int /\ code \in Int
    BY <2>1 DEF Totps
  <2> DEFINE g == [f EXCEPT !.failed = 0, !.lockedUntil = 0, !.last = code]
  <2>4. g \in Totps /\ g.status = f.status /\ g.last = code
    BY <2>3 DEF Totps
  <2> HIDE DEF g
  <2>5. TotpEvaluated(f, code, n) = g
    BY <2>2 DEF g
  <2> QED BY <2>1, <2>3, <2>4, <2>5
<1>2. CASE ~TotpAccepts(f, code, n)
  <2>1. Unlocked(f) \in Totps /\ Unlocked(f).status = f.status /\ Unlocked(f).last = f.last
    BY DEF Unlocked, Totps
  <2> DEFINE h == IF TotpCompares(f, code, n) THEN Unlocked(f) ELSE f
  <2>2. h \in Totps /\ h.status = f.status /\ h.last = f.last
    BY <2>1
  <2>3. TotpEvaluated(f, code, n) = Failed(h, n)
    BY <1>2 DEF TotpEvaluated
  <2> HIDE DEF h
  <2>4. f.last \in Int
    BY DEF Totps
  <2> QED BY <1>2, <2>2, <2>3, <2>4, FailedTotp
<1> QED BY <1>1, <1>2

\* An accepted recovery code was unused, and is not any more.
LEMMA ConsumedRecovery ==
    ASSUME NEW f \in RecoverySets, NEW n \in Nat, NEW code
    PROVE  LET g == RecoveryConsumed(f, code, n) IN
           /\ g \in RecoverySets /\ g.status = f.status /\ g.unused \subseteq f.unused
           /\ RecoveryAccepts(f, code, n) => code \in f.unused /\ code \notin g.unused
<1>1. CASE RecoveryAccepts(f, code, n)
  BY <1>1 DEF RecoveryAccepts, RecoveryConsumed, RecoverySets
<1>2. CASE ~RecoveryAccepts(f, code, n)
  <2> DEFINE h == IF Locked(f, n) THEN f ELSE Unlocked(f)
  <2>1. h \in RecoverySets /\ h.status = f.status /\ h.unused = f.unused
    BY DEF Unlocked, RecoverySets
  <2>2. RecoveryConsumed(f, code, n) = Failed(h, n)
    BY <1>2 DEF RecoveryConsumed
  <2> HIDE DEF h
  <2> QED BY <1>2, <2>1, <2>2, FailedRecovery
<1> QED BY <1>1, <1>2

\* What steps do to the factors: no accepted code becomes acceptable again.
FactorsMove ==
    /\ totp' \in [TotpIds -> Totps] /\ recovery' \in [RecoveryIds -> RecoverySets]
    /\ credential' \in [CredentialIds -> {"absent", "active", "revoked"}]
    /\ \A f \in TotpIds : totp[f].status # "absent" =>
          totp'[f].status # "absent" /\ totp[f].last <= totp'[f].last
    /\ \A r \in RecoveryIds : recovery[r].status # "absent" =>
          recovery'[r].status # "absent" /\ recovery'[r].unused \subseteq recovery[r].unused

LEMMA SpentStays ==
    ASSUME Typing, FactorsMove, NEW p, Spent(p)
    PROVE  Spent(p)'
<1>1. p.source = "totp" => totp[p.id].last \in Int /\ totp'[p.id].last \in Int
  BY DEF Typing, FactorsMove, Spent, Totps
<1> QED BY <1>1 DEF FactorsMove, Spent

LEMMA ProofsStay ==
    ASSUME Typing, ProofInv, ProofsSpentOnce, FactorsMove, UNCHANGED proofs
    PROVE  ProofInv' /\ ProofsSpentOnce'
  BY SpentStays DEF ProofInv, ProofsSpentOnce

\* A proof is new if nothing that was accepted has the same code.
Unseen(p) == \A d \in Challenges : \A q \in proofs[d] :
    ~(q.source = p.source /\ q.id = p.id /\ q.code = p.code) \/ p.source = "webauthn"

LEMMA OneMoreProof ==
    ASSUME Typing, ProofInv, ProofsSpentOnce, FactorsMove,
           NEW c \in Challenges, NEW p \in Proofs, Spent(p)', Unseen(p),
           proofs' = [proofs EXCEPT ![c] = @ \cup {p}]
    PROVE  ProofInv' /\ ProofsSpentOnce'
<1>1. \A d \in Challenges : \A q \in proofs'[d] : q \in proofs[d] \/ (d = c /\ q = p)
  BY DEF Typing
<1>2. ProofInv'
  BY <1>1, SpentStays DEF ProofInv
<1>3. ProofsSpentOnce'
  BY <1>1 DEF ProofsSpentOnce, Unseen
<1> QED BY <1>2, <1>3
\* find: the first of some ids in the order of enrollment.
LEMMA FirstIsMember ==
    ASSUME NEW S, S # {}, S \subseteq Nat
    PROVE  First(S) \in S
<1> DEFINE R == {ss \in Nat \X Nat : ss[1] < ss[2]}
<1>0. IsWellFoundedOn(R, Nat)
  BY NatLessThanWellFounded DEF OpToRel
<1>1. PICK f \in S : \A g \in S : <<g, f>> \notin R
  BY <1>0, WFMin
<1>2. \A g \in S : ~(g < f)
  BY <1>1
<1>3. \A g \in S : f <= g
  BY <1>2
<1> QED BY <1>3 DEF First
-----------------------------------------------------------------------------
(* The challenges. *)

ChallengesTyped ==
    /\ now \in Nat
    /\ phase \in [Challenges -> {"fresh", "pending", "complete", "gone"}]
    /\ entry \in [Challenges -> Entries]
    /\ had \in [Challenges -> SUBSET Types]
    /\ proofs \in [Challenges -> SUBSET Proofs]

\* failure: one less to go, and the challenge with it when it was the last.
LEMMA FailureStep ==
    ASSUME Typing, PendingInv, ChallengeInv, NEW c \in Challenges, phase[c] = "pending", Failure(c)
    PROVE  ChallengesTyped' /\ PendingInv' /\ ChallengeInv'
<1> DEFINE e == [entry[c] EXCEPT !.failures = entry[c].failures + 1]
<1>1. entry[c] \in Entries /\ entry[c].failures \in Nat
  BY DEF Typing, Entries
<1>2. e \in Entries /\ e.failures = entry[c].failures + 1 /\ e.needs = entry[c].needs
        /\ e.satisfied = entry[c].satisfied
  BY <1>1 DEF Entries
<1>3. entry' = [entry EXCEPT ![c] = e]
  BY DEF Failure
<1> HIDE DEF e
<1>4. entry' \in [Challenges -> Entries] /\ entry'[c] = e
        /\ \A d \in Challenges : d # c => entry'[d] = entry[d]
  BY <1>2, <1>3 DEF Typing
<1>5. phase' \in [Challenges -> {"fresh", "pending", "complete", "gone"}]
        /\ phase'[c] = (IF entry[c].failures + 1 >= MaxFailures THEN "gone" ELSE "pending")
        /\ \A d \in Challenges : d # c => phase'[d] = phase[d]
  BY DEF Failure, Typing
<1>6. ChallengesTyped'
  BY <1>4, <1>5 DEF Failure, Typing, ChallengesTyped
<1>7. PendingInv'
  BY <1>1, <1>2, <1>4, <1>5, GateAssumption DEF PendingInv
<1>8. ChallengeInv'
  BY <1>2, <1>4, <1>5 DEF Failure, ChallengeInv, Owed, Shown
<1> QED BY <1>6, <1>7, <1>8

\* advance, after a factor was shown: the login is let through when nothing is owed.
LEMMA ShownStep ==
    ASSUME Typing, PendingInv, ChallengeInv, NEW c \in Challenges, phase[c] = "pending",
           NEW p \in Proofs, NEW e \in Entries,
           e.needs = entry[c].needs, e.failures = entry[c].failures,
           e.satisfied = entry[c].satisfied \cup {p.type},
           entry' = [entry EXCEPT ![c] = e],
           Advance(c, entry[c].satisfied \cup {p.type}),
           proofs' = [proofs EXCEPT ![c] = @ \cup {p}], UNCHANGED <<now, had>>
    PROVE  ChallengesTyped' /\ PendingInv' /\ ChallengeInv'
<1>1. entry' \in [Challenges -> Entries] /\ entry'[c] = e
        /\ \A d \in Challenges : d # c => entry'[d] = entry[d]
  BY DEF Typing
<1>2. phase' \in [Challenges -> {"fresh", "pending", "complete", "gone"}]
        /\ phase'[c] = (IF e.needs \subseteq e.satisfied THEN "complete" ELSE "pending")
        /\ \A d \in Challenges : d # c => phase'[d] = phase[d]
  BY DEF Advance, Typing
<1>3. proofs' \in [Challenges -> SUBSET Proofs] /\ proofs'[c] = proofs[c] \cup {p}
        /\ \A d \in Challenges : d # c => proofs'[d] = proofs[d]
  BY DEF Typing
<1>4. ChallengesTyped'
  BY <1>1, <1>2, <1>3 DEF Typing, ChallengesTyped
<1>5. PendingInv'
  BY <1>1, <1>2 DEF PendingInv
<1>6. \A t \in e.satisfied : Shown(c, t)'
  BY <1>3 DEF ChallengeInv, Shown
<1>7. e.needs = Owed(c)'
  BY DEF ChallengeInv, Owed
<1>8. ChallengeInv'
  <2> SUFFICES ASSUME NEW d \in Challenges
               PROVE  /\ (phase[d] = "fresh" => proofs[d] = {})'
                      /\ (phase[d] = "pending" => entry[d].needs = Owed(d))'
                      /\ (phase[d] = "pending" => \A t \in entry[d].satisfied : Shown(d, t))'
                      /\ (phase[d] = "complete" => \A t \in Owed(d) : Shown(d, t))'
    BY DEF ChallengeInv
  <2>1. CASE d = c
    BY <2>1, <1>1, <1>2, <1>6, <1>7
  <2>2. CASE d # c
    BY <2>2, <1>1, <1>2, <1>3 DEF ChallengeInv, Owed, Shown
  <2> QED BY <2>1, <2>2
<1> QED BY <1>4, <1>5, <1>8

LEMMA SatisfyStep ==
    ASSUME Typing, PendingInv, ChallengeInv, NEW c \in Challenges, phase[c] = "pending",
           NEW p \in Proofs, Satisfy(c, p)
    PROVE  ChallengesTyped' /\ PendingInv' /\ ChallengeInv'
<1> DEFINE e == [entry[c] EXCEPT !.satisfied = entry[c].satisfied \cup {p.type}]
<1>1. entry[c] \in Entries /\ p.type \in Types
  BY DEF Typing, Proofs
<1>2. e \in Entries /\ e.needs = entry[c].needs /\ e.failures = entry[c].failures
        /\ e.satisfied = entry[c].satisfied \cup {p.type}
  BY <1>1 DEF Entries
<1>3. entry' = [entry EXCEPT ![c] = e]
  BY DEF Satisfy
<1> HIDE DEF e
<1> QED BY <1>2, <1>3, ShownStep DEF Satisfy

LEMMA EnrollStep ==
    ASSUME Typing, PendingInv, ChallengeInv, NEW c \in Challenges, phase[c] = "pending",
           NEW p \in Proofs, Enroll(c, p)
    PROVE  ChallengesTyped' /\ PendingInv' /\ ChallengeInv'
<1> DEFINE issued == entry[c].codesIssued \/ IssuesCodes(c)
           e == [entry[c] EXCEPT !.satisfied = entry[c].satisfied \cup {p.type},
                                 !.enrolled = entry[c].enrolled \cup {p.type},
                                 !.codesIssued = issued]
<1>1. entry[c] \in Entries /\ p.type \in Types /\ issued \in BOOLEAN
  BY DEF Typing, Proofs
<1>3. entry' = [entry EXCEPT ![c] = e]
  BY DEF Enroll
<1> HIDE DEF issued
<1>2. e \in Entries /\ e.needs = entry[c].needs /\ e.failures = entry[c].failures
        /\ e.satisfied = entry[c].satisfied \cup {p.type}
  BY <1>1 DEF Entries
<1> HIDE DEF e
<1> QED BY <1>2, <1>3, ShownStep DEF Enroll

\* issueRecoveryCodes takes a new id: no recovery factor is touched.
LEMMA IssueStep ==
    ASSUME Typing, NEW c \in Challenges, IssueRecoveryCodes(c)
    PROVE  /\ recovery' \in [RecoveryIds -> RecoverySets]
           /\ \A r \in RecoveryIds : recovery[r].status # "absent" => recovery'[r] = recovery[r]
<1>1. NewRecovery \in RecoverySets
  BY DEF NewRecovery, NoRecovery, RecoverySets
<1>2. CASE IssuesCodes(c)
  <2>1. NextRecovery # {} /\ recovery' = [recovery EXCEPT ![First(NextRecovery)] = NewRecovery]
    BY <1>2 DEF IssueRecoveryCodes
  <2>2. \A r \in RecoveryIds : recovery[r].status # "absent" => r \notin NextRecovery
    BY DEF NextRecovery
  <2>3. First(NextRecovery) \in NextRecovery
    BY <2>1, FirstIsMember DEF NextRecovery, RecoveryIds
  <2> QED BY <1>1, <2>1, <2>2, <2>3 DEF Typing
<1>3. CASE ~IssuesCodes(c)
  BY <1>3 DEF IssueRecoveryCodes, Typing
<1> QED BY <1>2, <1>3
-----------------------------------------------------------------------------
(* The actions. *)

\* Guesses are times.
LEMMA GuessStep ==
    ASSUME Typing, GuessesInv, NEW f \in TotpIds, NEW code, Guess(f, code)
    PROVE  GuessesInv'
<1>1. guesses[f] \in Seq(Nat) /\ now \in Nat
  BY DEF GuessesInv, Typing
<1>2. Append(guesses[f], now) \in Seq(Nat)
  BY <1>1
<1>3. Len(guesses[f]) > FactorFailures => Append(Tail(guesses[f]), now) \in Seq(Nat)
  BY <1>1, ManagerAssumption
<1>4. <<>> \in Seq(Nat)
  OBVIOUS
<1> QED BY <1>1, <1>2, <1>3, <1>4 DEF Guess, GuessesInv

LEMMA FactorsStay ==
    ASSUME Typing, UNCHANGED factorVars
    PROVE  FactorsMove
  BY DEF Typing, FactorsMove, factorVars, Totps

LEMMA TypingFromParts ==
    ASSUME ChallengesTyped', FactorsMove
    PROVE  Typing'
  BY DEF ChallengesTyped, FactorsMove, Typing

THEOREM InitEstablishes == Init => IInv
<1> SUFFICES ASSUME Init PROVE IInv
  OBVIOUS
<1>1. NoTotp \in Totps /\ NewTotp \in Totps /\ [NewTotp EXCEPT !.status = "active"] \in Totps
  <2>1. NoTotp \in Totps
    BY DEF NoTotp, Totps
  <2>2. NewTotp \in Totps
    BY <2>1 DEF NewTotp, Totps
  <2> QED BY <2>1, <2>2 DEF Totps
<1>2. NoRecovery \in RecoverySets /\ NewRecovery \in RecoverySets
  BY DEF NoRecovery, NewRecovery, RecoverySets
<1>3. NoEntry \in Entries
  BY DEF NoEntry, Entries
<1>4. Typing
  <2>1. totp \in [TotpIds -> Totps]
    BY <1>1 DEF Init
  <2>2. recovery \in [RecoveryIds -> RecoverySets]
    BY <1>2 DEF Init
  <2>3. credential \in [CredentialIds -> {"absent", "active", "revoked"}]
    BY DEF Init
  <2> QED BY <1>3, <2>1, <2>2, <2>3 DEF Init, Typing
<1>5. GuessesInv
  BY DEF Init, GuessesInv
<1> QED BY <1>4, <1>5 DEF Init, IInv, PendingInv, ProofInv, ChallengeInv, ProofsSpentOnce

LEMMA BeginKeeps ==
    ASSUME IInv, NEW c \in Challenges, Begin(c)
    PROVE  IInv'
<1> USE DEF IInv
<1>1. FactorsMove /\ GuessesInv' /\ ProofInv' /\ ProofsSpentOnce'
  BY FactorsStay, ProofsStay DEF Begin, factorVars, GuessesInv
<1>2. Purged \in [Challenges -> {"fresh", "pending", "complete", "gone"}]
        /\ \A d \in Challenges : Purged[d] # phase[d] => Purged[d] = "gone"
  BY DEF Purged, Typing
<1>3. \/ phase' = Purged /\ UNCHANGED <<entry, had>>
      \/ /\ Needs = {} /\ phase' = [Purged EXCEPT ![c] = "complete"]
         /\ had' = [had EXCEPT ![c] = Enrolled] /\ UNCHANGED entry
      \/ /\ Needs # {} /\ phase' = [Purged EXCEPT ![c] = "pending"]
         /\ entry' = [entry EXCEPT ![c] =
                         [NoEntry EXCEPT !.expiresAt = now + Ttl, !.needs = Needs,
                                         !.enrolled = {t \in Enrolled : Usable(t)}]]
         /\ had' = [had EXCEPT ![c] = Enrolled]
  BY DEF Begin
<1>4. proofs[c] = {} /\ UNCHANGED proofs /\ UNCHANGED now
  BY DEF Begin, ChallengeInv
<1>5. Needs \subseteq Types /\ Enrolled \subseteq Types
  BY DEF Needs, Enrolled
<1>6. CASE phase' = Purged /\ UNCHANGED <<entry, had>>
  <2>1. ChallengesTyped'
    BY <1>2, <1>4, <1>6 DEF Typing, ChallengesTyped
  <2>2. PendingInv' /\ ChallengeInv'
    BY <1>2, <1>4, <1>6 DEF Typing, PendingInv, ChallengeInv, Owed, Shown
  <2> QED BY <1>1, <2>1, <2>2, TypingFromParts
<1>7. CASE /\ Needs = {} /\ phase' = [Purged EXCEPT ![c] = "complete"]
           /\ had' = [had EXCEPT ![c] = Enrolled] /\ UNCHANGED entry
  <2>1. ChallengesTyped'
    BY <1>2, <1>4, <1>5, <1>7 DEF Typing, ChallengesTyped
  <2>2. PendingInv'
    BY <1>2, <1>7 DEF Typing, PendingInv
  <2>3. Owed(c)' = {}
    BY <1>7 DEF Typing, Owed, Needs
  <2>4. ChallengeInv'
    BY <1>2, <1>4, <1>7, <2>3 DEF Typing, ChallengeInv, Owed, Shown
  <2> QED BY <1>1, <2>1, <2>2, <2>4, TypingFromParts
<1>8. CASE /\ Needs # {} /\ phase' = [Purged EXCEPT ![c] = "pending"]
           /\ entry' = [entry EXCEPT ![c] =
                           [NoEntry EXCEPT !.expiresAt = now + Ttl, !.needs = Needs,
                                           !.enrolled = {t \in Enrolled : Usable(t)}]]
           /\ had' = [had EXCEPT ![c] = Enrolled]
  <2> DEFINE e == [NoEntry EXCEPT !.expiresAt = now + Ttl, !.needs = Needs,
                                  !.enrolled = {t \in Enrolled : Usable(t)}]
  <2>1. now + Ttl \in Nat
    BY GateAssumption DEF Typing
  <2>2. e \in Entries /\ e.needs = Needs /\ e.satisfied = {} /\ e.failures = 0
    BY <1>5, <2>1 DEF NoEntry, Entries
  <2>3. entry' = [entry EXCEPT ![c] = e]
    BY <1>8
  <2> HIDE DEF e
  <2>4. entry' \in [Challenges -> Entries] /\ entry'[c] = e
          /\ \A d \in Challenges : d # c => entry'[d] = entry[d]
    BY <2>2, <2>3 DEF Typing
  <2>5. ChallengesTyped'
    BY <1>2, <1>4, <1>5, <1>8, <2>4 DEF Typing, ChallengesTyped
  <2>6. phase'[c] = "pending" /\ \A d \in Challenges : d # c => phase'[d] = Purged[d]
    BY <1>2, <1>8
  <2>7. PendingInv'
    <3>1. entry'[c].failures < MaxFailures /\ entry'[c].needs \ entry'[c].satisfied # {}
      <4>1. e.failures < MaxFailures
        BY <2>2, GateAssumption
      <4>2. e.needs \ e.satisfied # {}
        BY <1>8, <2>2
      <4> QED BY <2>4, <4>1, <4>2
    <3>2. \A d \in Challenges : d # c /\ phase'[d] = "pending" =>
             phase[d] = "pending" /\ entry'[d] = entry[d]
      BY <1>2, <2>4, <2>6
    <3> QED BY <3>1, <3>2 DEF PendingInv
  <2>8. Owed(c)' = Needs
    BY <1>8 DEF Typing, Owed, Needs
  <2>9. \A d \in Challenges : d # c => had'[d] = had[d]
    BY <1>8 DEF Typing
  <2>10. ChallengeInv'
    BY <1>2, <1>4, <2>2, <2>4, <2>6, <2>8, <2>9 DEF ChallengeInv, Owed, Shown
  <2> QED BY <1>1, <2>5, <2>7, <2>10, TypingFromParts
<1> QED BY <1>3, <1>6, <1>7, <1>8

LEMMA DropExpiredKeeps ==
    ASSUME IInv, NEW c \in Challenges, DropExpired(c)
    PROVE  IInv'
<1> USE DEF IInv
<1>1. FactorsMove /\ GuessesInv' /\ ProofInv' /\ ProofsSpentOnce'
  BY FactorsStay, ProofsStay DEF DropExpired, factorVars, GuessesInv
<1>2. ChallengesTyped' /\ PendingInv' /\ ChallengeInv'
  BY DEF DropExpired, Typing, ChallengesTyped, PendingInv, ChallengeInv, Owed, Shown
<1> QED BY <1>1, <1>2, TypingFromParts

LEMMA TickKeeps ==
    ASSUME IInv, Tick
    PROVE  IInv'
<1> USE DEF IInv
<1>1. FactorsMove /\ GuessesInv' /\ ProofInv' /\ ProofsSpentOnce'
  BY FactorsStay, ProofsStay DEF Tick, factorVars, GuessesInv
<1>2. ChallengesTyped' /\ PendingInv' /\ ChallengeInv'
  BY DEF Tick, Typing, ChallengesTyped, PendingInv, ChallengeInv, Owed, Shown
<1> QED BY <1>1, <1>2, TypingFromParts

LEMMA EnrollTotpKeeps ==
    ASSUME IInv, NEW c \in Challenges, EnrollTotp(c)
    PROVE  IInv'
<1> USE DEF IInv
<1>1. PICK f \in TotpIds :
        /\ totp[f].status = "absent"
        /\ totp' = [totp EXCEPT ![f] = NewTotp]
        /\ entry' = [entry EXCEPT ![c].enrolling = f]
  BY DEF EnrollTotp
<1>2. UNCHANGED <<now, phase, recovery, credential, had, proofs, guesses>>
  BY DEF EnrollTotp
<1> DEFINE e == [entry[c] EXCEPT !.enrolling = f]
<1>3. entry[c] \in Entries
  BY DEF Typing
<1>4. /\ e \in Entries /\ e.needs = entry[c].needs /\ e.failures = entry[c].failures
      /\ e.satisfied = entry[c].satisfied
  BY <1>3 DEF Entries
<1>5. entry' = [entry EXCEPT ![c] = e]
  BY <1>1
<1> HIDE DEF e
<1>6. ChallengesTyped' /\ PendingInv' /\ ChallengeInv'
  BY <1>2, <1>4, <1>5 DEF Typing, ChallengesTyped, PendingInv, ChallengeInv, Owed, Shown
<1>7. NewTotp \in Totps
  BY DEF NewTotp, NoTotp, Totps
<1>8. FactorsMove
  <2>1. totp' \in [TotpIds -> Totps] /\ \A g \in TotpIds : g # f => totp'[g] = totp[g]
    BY <1>1, <1>7 DEF Typing
  <2>2. \A g \in TotpIds : totp[g].last \in Int
    BY DEF Typing, Totps
  <2> QED BY <1>1, <1>2, <2>1, <2>2 DEF Typing, FactorsMove
<1>9. GuessesInv' /\ ProofInv' /\ ProofsSpentOnce'
  BY <1>2, <1>8, ProofsStay DEF GuessesInv
<1> QED BY <1>6, <1>8, <1>9, TypingFromParts

\* An attempt with a code of an enrolled TOTP factor moves the factors.
LEMMA TotpMoves ==
    ASSUME Typing, NEW f \in TotpIds, totp[f].status # "absent", NEW code \in TotpCodes,
           NEW g \in Totps, g.status # "absent", g.last = TotpEvaluated(totp[f], code, now).last,
           totp' = [totp EXCEPT ![f] = g],
           UNCHANGED credential,
           \/ UNCHANGED recovery
           \/ /\ recovery' \in [RecoveryIds -> RecoverySets]
              /\ \A r \in RecoveryIds :
                    recovery[r].status # "absent" => recovery'[r] = recovery[r]
    PROVE  FactorsMove
<1>1. totp[f] \in Totps /\ now \in Nat
  BY DEF Typing
<1>2. totp[f].last <= g.last
  BY <1>1, EvaluatedTotp
<1>3. totp' \in [TotpIds -> Totps] /\ totp'[f] = g
        /\ \A h \in TotpIds : h # f => totp'[h] = totp[h]
  BY DEF Typing
<1>4. \A h \in TotpIds : totp[h].last \in Int
  BY DEF Typing, Totps
<1> QED BY <1>2, <1>3, <1>4 DEF Typing, FactorsMove

\* The proof an accepted TOTP code leaves is new, and spent.
LEMMA TotpProof ==
    ASSUME Typing, ProofInv, NEW c \in Challenges, NEW f \in TotpIds, NEW code \in TotpCodes,
           totp[f].status # "absent", TotpAccepts(totp[f], code, now),
           NEW g \in Totps, g.status # "absent", g.last = TotpEvaluated(totp[f], code, now).last,
           totp' = [totp EXCEPT ![f] = g]
    PROVE  LET p == Proof("totp", "totp", f, code) IN
           p \in Proofs /\ Unseen(p) /\ Spent(p)'
<1> DEFINE p == Proof("totp", "totp", f, code)
<1>1. totp[f] \in Totps /\ now \in Nat
  BY DEF Typing
<1>2. code \in Nat /\ totp[f].last < code /\ g.last = code
  BY <1>1, EvaluatedTotp
<1>3. p \in Proofs
  BY DEF Proof, Proofs, Types, TotpIds
<1>4. p.source = "totp" /\ p.id = f /\ p.code = code
  BY DEF Proof
<1> HIDE DEF p
<1>5. totp'[f] = g
  BY DEF Typing
<1>6. totp[f].last \in Int
  BY <1>1 DEF Totps
<1>7. Spent(p)'
  BY <1>2, <1>4, <1>5 DEF Spent
<1>8. Unseen(p)
  BY <1>2, <1>4, <1>6 DEF Unseen, ProofInv, Spent
<1> QED BY <1>3, <1>7, <1>8 DEF p

LEMMA VerifyTotpKeeps ==
    ASSUME IInv, NEW c \in Challenges, NEW code \in TotpCodes, VerifyTotp(c, code)
    PROVE  IInv'
<1> USE DEF IInv
<1>1. phase[c] = "pending" /\ UNCHANGED <<recovery, credential>>
  BY DEF VerifyTotp, Outstanding, Live
<1>2. CASE TotpActive = {} /\ Failure(c) /\ UNCHANGED <<totp, guesses>>
  <2>1. FactorsMove /\ GuessesInv' /\ ProofInv' /\ ProofsSpentOnce'
    BY <1>1, <1>2, FactorsStay, ProofsStay DEF Failure, factorVars, GuessesInv
  <2> QED BY <1>1, <1>2, <2>1, FailureStep, TypingFromParts
<1>3. CASE TotpActive # {}
  <2>0. PICK f \in TotpIds : f = First(TotpActive) /\ totp[f].status = "active"
    <3>1. First(TotpActive) \in TotpActive
      BY <1>3, FirstIsMember DEF TotpActive, TotpIds
    <3> QED BY <3>1 DEF TotpActive
  <2>1. PICK g \in Totps : g = TotpEvaluated(totp[f], code, now) /\ g.status = "active"
    BY <2>0, EvaluatedTotp DEF Typing
  <2>2. /\ totp' = [totp EXCEPT ![f] = g]
        /\ Guess(f, code)
        /\ IF TotpAccepts(totp[f], code, now)
           THEN Satisfy(c, Proof("totp", "totp", f, code)) ELSE Failure(c)
    BY <1>3, <2>0, <2>1 DEF VerifyTotp
  <2>3. totp[f].status # "absent" /\ g.status # "absent"
    BY <2>0, <2>1
  <2>4. FactorsMove
    BY <1>1, <2>1, <2>2, <2>3, TotpMoves
  <2>5. GuessesInv'
    BY <2>1, <2>2, GuessStep
  <2>6. CASE TotpAccepts(totp[f], code, now)
    <3> DEFINE p == Proof("totp", "totp", f, code)
    <3>1. p \in Proofs /\ Unseen(p) /\ Spent(p)'
      BY <2>1, <2>2, <2>3, <2>6, TotpProof
    <3>2. Satisfy(c, p)
      BY <2>2, <2>6
    <3> HIDE DEF p
    <3>3. ChallengesTyped' /\ PendingInv' /\ ChallengeInv'
      BY <1>1, <3>1, <3>2, SatisfyStep
    <3>4. ProofInv' /\ ProofsSpentOnce'
      BY <2>4, <3>1, <3>2, OneMoreProof DEF Satisfy
    <3> QED BY <2>4, <2>5, <3>3, <3>4, TypingFromParts
  <2>7. CASE ~TotpAccepts(totp[f], code, now)
    <3>1. Failure(c)
      BY <2>2, <2>7
    <3>2. ProofInv' /\ ProofsSpentOnce'
      BY <2>4, <3>1, ProofsStay DEF Failure
    <3> QED BY <1>1, <2>4, <2>5, <3>1, <3>2, FailureStep, TypingFromParts
  <2> QED BY <2>6, <2>7
<1> QED BY <1>2, <1>3 DEF VerifyTotp

LEMMA ConfirmTotpKeeps ==
    ASSUME IInv, NEW c \in Challenges, NEW code \in TotpCodes, ConfirmTotp(c, code)
    PROVE  IInv'
<1> USE DEF IInv
<1>1. phase[c] = "pending" /\ UNCHANGED credential
  BY DEF ConfirmTotp, Outstanding, Live
<1>2. PICK f \in TotpIds : f = entry[c].enrolling
  BY DEF ConfirmTotp, Typing, Entries
<1>3. CASE Failure(c) /\ UNCHANGED <<totp, recovery, guesses>>
  <2>1. FactorsMove /\ GuessesInv' /\ ProofInv' /\ ProofsSpentOnce'
    BY <1>1, <1>3, FactorsStay, ProofsStay DEF Failure, factorVars, GuessesInv
  <2> QED BY <1>1, <1>3, <2>1, FailureStep, TypingFromParts
<1>4. CASE /\ totp[f].status = "pending" /\ Guess(f, code)
           /\ TotpAccepts(totp[f], code, now)
           /\ totp' = [totp EXCEPT ![f] = [TotpEvaluated(@, code, now) EXCEPT !.status = "active"]]
           /\ Enroll(c, Proof("totp", "totp", f, code))
  <2>1. PICK h \in Totps : h = TotpEvaluated(totp[f], code, now)
    BY EvaluatedTotp DEF Typing
  <2>2. PICK g \in Totps : g = [h EXCEPT !.status = "active"]
    BY DEF Totps
  <2>3. g.status = "active" /\ g.last = h.last
    BY <2>2 DEF Totps
  <2>4. totp' = [totp EXCEPT ![f] = g]
    BY <1>4, <2>1, <2>2
  <2>5. totp[f].status # "absent" /\ g.status # "absent"
          /\ g.last = TotpEvaluated(totp[f], code, now).last
    BY <1>4, <2>1, <2>3
  <2>6. /\ recovery' \in [RecoveryIds -> RecoverySets]
        /\ \A r \in RecoveryIds : recovery[r].status # "absent" => recovery'[r] = recovery[r]
    BY <1>4, IssueStep DEF Enroll
  <2>7. FactorsMove
    BY <1>1, <2>4, <2>5, <2>6, TotpMoves
  <2>8. GuessesInv'
    BY <1>4, GuessStep
  <2> DEFINE p == Proof("totp", "totp", f, code)
  <2>9. p \in Proofs /\ Unseen(p) /\ Spent(p)'
    BY <1>4, <2>4, <2>5, TotpProof
  <2>10. Enroll(c, p)
    BY <1>4
  <2> HIDE DEF p
  <2>11. ChallengesTyped' /\ PendingInv' /\ ChallengeInv'
    BY <1>1, <2>9, <2>10, EnrollStep
  <2>12. ProofInv' /\ ProofsSpentOnce'
    BY <2>7, <2>9, <2>10, OneMoreProof DEF Enroll
  <2> QED BY <2>7, <2>8, <2>11, <2>12, TypingFromParts
<1>5. CASE /\ totp[f].status = "pending" /\ Guess(f, code)
           /\ totp' = [totp EXCEPT ![f] = TotpEvaluated(@, code, now)]
           /\ Failure(c) /\ UNCHANGED recovery
  <2>1. PICK g \in Totps : g = TotpEvaluated(totp[f], code, now) /\ g.status = "pending"
    BY <1>5, EvaluatedTotp DEF Typing
  <2>2. totp' = [totp EXCEPT ![f] = g] /\ totp[f].status # "absent" /\ g.status # "absent"
    BY <1>5, <2>1
  <2>3. FactorsMove
    BY <1>1, <1>5, <2>1, <2>2, TotpMoves
  <2>4. GuessesInv'
    BY <1>5, GuessStep
  <2>5. ProofInv' /\ ProofsSpentOnce'
    BY <1>5, <2>3, ProofsStay DEF Failure
  <2> QED BY <1>1, <1>5, <2>3, <2>4, <2>5, FailureStep, TypingFromParts
<1> QED BY <1>2, <1>3, <1>4, <1>5 DEF ConfirmTotp

LEMMA VerifyRecoveryKeeps ==
    ASSUME IInv, NEW c \in Challenges, NEW code \in RecoveryInputs, VerifyRecovery(c, code)
    PROVE  IInv'
<1> USE DEF IInv
<1>1. phase[c] = "pending" /\ UNCHANGED <<totp, credential, guesses>>
  BY DEF VerifyRecovery, Live
<1>2. PICK target \in Types :
        \/ RecoveryUsable = {} /\ Failure(c) /\ UNCHANGED recovery
        \/ /\ RecoveryUsable # {}
           /\ LET r == First(RecoveryUsable) IN
                /\ recovery' = [recovery EXCEPT ![r] = RecoveryConsumed(@, code, now)]
                /\ IF RecoveryAccepts(recovery[r], code, now)
                   THEN Satisfy(c, Proof(target, "recovery", r, code)) ELSE Failure(c)
  BY DEF VerifyRecovery, Types
<1>3. GuessesInv'
  BY <1>1 DEF GuessesInv
<1>4. CASE RecoveryUsable = {} /\ Failure(c) /\ UNCHANGED recovery
  <2>1. FactorsMove /\ ProofInv' /\ ProofsSpentOnce'
    BY <1>1, <1>4, FactorsStay, ProofsStay DEF Failure, factorVars
  <2> QED BY <1>1, <1>3, <1>4, <2>1, FailureStep, TypingFromParts
<1>5. CASE RecoveryUsable # {}
  <2>1. PICK r \in RecoveryIds : r = First(RecoveryUsable) /\ recovery[r].status = "live"
    <3>1. RecoveryUsable \subseteq Nat
      BY DEF RecoveryUsable, RecoveryIds
    <3>2. First(RecoveryUsable) \in RecoveryUsable
      BY <1>5, <3>1, FirstIsMember
    <3> QED BY <3>2 DEF RecoveryUsable
  <2>2. recovery[r] \in RecoverySets /\ now \in Nat
    BY DEF Typing
  <2>3. PICK g \in RecoverySets : g = RecoveryConsumed(recovery[r], code, now) /\ g.status = "live"
                                   /\ g.unused \subseteq recovery[r].unused
    BY <2>1, <2>2, ConsumedRecovery
  <2>4. /\ recovery' = [recovery EXCEPT ![r] = g]
        /\ IF RecoveryAccepts(recovery[r], code, now)
           THEN Satisfy(c, Proof(target, "recovery", r, code)) ELSE Failure(c)
    BY <1>2, <1>5, <2>1, <2>3
  <2>5. recovery' \in [RecoveryIds -> RecoverySets] /\ recovery'[r] = g
          /\ \A s \in RecoveryIds : s # r => recovery'[s] = recovery[s]
    BY <2>4 DEF Typing
  <2>6. FactorsMove
    <3>1. \A f \in TotpIds : totp[f].last \in Int
      BY DEF Typing, Totps
    <3> QED BY <1>1, <2>3, <2>5, <3>1 DEF Typing, FactorsMove
  <2>7. CASE RecoveryAccepts(recovery[r], code, now)
    <3> DEFINE p == Proof(target, "recovery", r, code)
    <3>1. p \in Proofs /\ p.source = "recovery" /\ p.id = r /\ p.code = code
      BY DEF Proof, Proofs, RecoveryIds
    <3>2. Satisfy(c, p)
      BY <2>4, <2>7
    <3> HIDE DEF p
    <3>3. code \in recovery[r].unused /\ code \notin g.unused
      BY <2>2, <2>3, <2>7, ConsumedRecovery
    <3>4. Spent(p)'
      BY <2>3, <2>5, <3>1, <3>3 DEF Spent
    <3>5. Unseen(p)
      BY <3>1, <3>3 DEF Unseen, ProofInv, Spent
    <3>6. ChallengesTyped' /\ PendingInv' /\ ChallengeInv'
      BY <1>1, <3>1, <3>2, SatisfyStep
    <3>7. ProofInv' /\ ProofsSpentOnce'
      BY <2>6, <3>1, <3>2, <3>4, <3>5, OneMoreProof DEF Satisfy
    <3> QED BY <1>3, <2>6, <3>6, <3>7, TypingFromParts
  <2>8. CASE ~RecoveryAccepts(recovery[r], code, now)
    <3>1. Failure(c)
      BY <2>4, <2>8
    <3>2. ProofInv' /\ ProofsSpentOnce'
      BY <2>6, <3>1, ProofsStay DEF Failure
    <3> QED BY <1>1, <1>3, <2>6, <3>1, <3>2, FailureStep, TypingFromParts
  <2> QED BY <2>7, <2>8
<1> QED BY <1>2, <1>4, <1>5

\* A ceremony's proof claims nothing about a code.
LEMMA CeremonyProof ==
    ASSUME NEW c \in Challenges, NEW k \in CredentialIds
    PROVE  LET p == Proof("webauthn", "webauthn", k, c) IN
           p \in Proofs /\ Unseen(p) /\ Spent(p)'
  BY DEF Proof, Proofs, Types, CredentialIds, Unseen, Spent

LEMMA CompleteAssertionKeeps ==
    ASSUME IInv, NEW c \in Challenges, CompleteAssertion(c)
    PROVE  IInv'
<1> USE DEF IInv
<1>1. phase[c] = "pending" /\ FactorsMove /\ GuessesInv'
  BY FactorsStay DEF CompleteAssertion, Outstanding, Live, factorVars, GuessesInv
<1>2. CASE Failure(c)
  <2>1. ProofInv' /\ ProofsSpentOnce'
    BY <1>1, <1>2, ProofsStay DEF Failure
  <2> QED BY <1>1, <1>2, <2>1, FailureStep, TypingFromParts
<1>3. ASSUME NEW k \in CredentialIds, Satisfy(c, Proof("webauthn", "webauthn", k, c))
      PROVE  IInv'
  <2> DEFINE p == Proof("webauthn", "webauthn", k, c)
  <2>1. p \in Proofs /\ Unseen(p) /\ Spent(p)'
    BY CeremonyProof
  <2>2. Satisfy(c, p)
    BY <1>3
  <2> HIDE DEF p
  <2>3. ChallengesTyped' /\ PendingInv' /\ ChallengeInv'
    BY <1>1, <2>1, <2>2, SatisfyStep
  <2>4. ProofInv' /\ ProofsSpentOnce'
    BY <1>1, <2>1, <2>2, OneMoreProof DEF Satisfy
  <2> QED BY <1>1, <2>3, <2>4, TypingFromParts
<1> QED BY <1>2, <1>3 DEF CompleteAssertion, CredentialActive

LEMMA CompleteRegistrationKeeps ==
    ASSUME IInv, NEW c \in Challenges, CompleteRegistration(c)
    PROVE  IInv'
<1> USE DEF IInv
<1>1. phase[c] = "pending" /\ UNCHANGED totp /\ GuessesInv'
  BY DEF CompleteRegistration, Outstanding, Live, GuessesInv
<1>2. CASE Failure(c) /\ UNCHANGED <<credential, recovery>>
  <2>1. FactorsMove /\ ProofInv' /\ ProofsSpentOnce'
    BY <1>1, <1>2, FactorsStay, ProofsStay DEF Failure, factorVars
  <2> QED BY <1>1, <1>2, <2>1, FailureStep, TypingFromParts
<1>3. ASSUME NEW k \in CredentialIds, credential' = [credential EXCEPT ![k] = "active"],
             Enroll(c, Proof("webauthn", "webauthn", k, c))
      PROVE  IInv'
  <2> DEFINE p == Proof("webauthn", "webauthn", k, c)
  <2>1. p \in Proofs /\ Unseen(p) /\ Spent(p)'
    BY CeremonyProof
  <2>2. Enroll(c, p)
    BY <1>3
  <2> HIDE DEF p
  <2>3. FactorsMove
    <3>1. /\ recovery' \in [RecoveryIds -> RecoverySets]
          /\ \A r \in RecoveryIds : recovery[r].status # "absent" => recovery'[r] = recovery[r]
      BY <2>2, IssueStep DEF Enroll
    <3>2. \A f \in TotpIds : totp[f].last \in Int
      BY DEF Typing, Totps
    <3> QED BY <1>1, <1>3, <3>1, <3>2 DEF Typing, FactorsMove
  <2>4. ChallengesTyped' /\ PendingInv' /\ ChallengeInv'
    BY <1>1, <2>1, <2>2, EnrollStep
  <2>5. ProofInv' /\ ProofsSpentOnce'
    BY <2>1, <2>2, <2>3, OneMoreProof DEF Enroll
  <2> QED BY <1>1, <2>3, <2>4, <2>5, TypingFromParts
<1> QED BY <1>2, <1>3 DEF CompleteRegistration

LEMMA RevokeKeeps ==
    ASSUME IInv, Revoke
    PROVE  IInv'
<1> USE DEF IInv
<1>1. UNCHANGED <<now, phase, entry, had, proofs, guesses>>
  BY DEF Revoke
<1>2. ChallengesTyped' /\ PendingInv' /\ ChallengeInv' /\ GuessesInv'
  BY <1>1 DEF Typing, ChallengesTyped, PendingInv, ChallengeInv, Owed, Shown, GuessesInv
<1>3. FactorsMove
  <2>1. \A f \in TotpIds : totp[f].last \in Int
    BY DEF Typing, Totps
  <2>2. ASSUME NEW f \in TotpIds, UNCHANGED <<recovery, credential>>,
               totp' = [totp EXCEPT ![f] = [@ EXCEPT !.status = "revoked", !.failed = 0,
                                                     !.lockedUntil = 0]]
        PROVE  FactorsMove
    <3>1. totp[f] \in Totps
      BY DEF Typing
    <3>2. PICK g \in Totps : g = [totp[f] EXCEPT !.status = "revoked", !.failed = 0,
                                                  !.lockedUntil = 0]
      BY <3>1 DEF Totps
    <3>3. g.status = "revoked" /\ g.last = totp[f].last
      BY <3>1, <3>2 DEF Totps
    <3>4. totp' \in [TotpIds -> Totps] /\ totp'[f] = g
            /\ \A h \in TotpIds : h # f => totp'[h] = totp[h]
      BY <2>2, <3>2 DEF Typing
    <3> QED BY <2>1, <2>2, <3>3, <3>4 DEF Typing, FactorsMove
  <2>3. ASSUME NEW r \in RecoveryIds, UNCHANGED <<totp, credential>>,
               recovery' = [recovery EXCEPT ![r] = [@ EXCEPT !.status = "revoked", !.failed = 0,
                                                             !.lockedUntil = 0]]
        PROVE  FactorsMove
    <3>1. recovery[r] \in RecoverySets
      BY DEF Typing
    <3>2. PICK g \in RecoverySets : g = [recovery[r] EXCEPT !.status = "revoked", !.failed = 0,
                                                             !.lockedUntil = 0]
      BY <3>1 DEF RecoverySets
    <3>3. g.status = "revoked" /\ g.unused = recovery[r].unused
      BY <3>1, <3>2 DEF RecoverySets
    <3>4. recovery' \in [RecoveryIds -> RecoverySets] /\ recovery'[r] = g
            /\ \A s \in RecoveryIds : s # r => recovery'[s] = recovery[s]
      BY <2>3, <3>2 DEF Typing
    <3> QED BY <2>1, <2>3, <3>3, <3>4 DEF Typing, FactorsMove
  <2>4. ASSUME NEW k \in CredentialActive, UNCHANGED <<totp, recovery>>,
               credential' = [credential EXCEPT ![k] = "revoked"]
        PROVE  FactorsMove
    <3>1. credential' \in [CredentialIds -> {"absent", "active", "revoked"}]
      BY <2>4 DEF Typing, CredentialActive
    <3> QED BY <2>1, <2>4, <3>1 DEF Typing, FactorsMove
  <2> QED BY <2>2, <2>3, <2>4 DEF Revoke
<1>4. ProofInv' /\ ProofsSpentOnce'
  BY <1>1, <1>3, ProofsStay
<1> QED BY <1>2, <1>3, <1>4, TypingFromParts
-----------------------------------------------------------------------------
(* The theorems. *)

\* The invariant is inductive: one case for every request, the clock and the revocations.
THEOREM NextKeeps == IInv /\ [Next]_vars => IInv'
<1> SUFFICES ASSUME IInv, [Next]_vars PROVE IInv'
  OBVIOUS
<1>1. CASE Tick
  BY <1>1, TickKeeps
<1>2. CASE Revoke
  BY <1>2, RevokeKeeps
<1>3. ASSUME NEW c \in Challenges, Request(c)
      PROVE  IInv'
  <2>1. CASE Begin(c)
    BY <2>1, BeginKeeps
  <2>2. CASE DropExpired(c)
    BY <2>2, DropExpiredKeeps
  <2>3. CASE EnrollTotp(c)
    BY <2>3, EnrollTotpKeeps
  <2>4. ASSUME NEW code \in TotpCodes, VerifyTotp(c, code)
        PROVE  IInv'
    BY <2>4, VerifyTotpKeeps
  <2>5. ASSUME NEW code \in TotpCodes, ConfirmTotp(c, code)
        PROVE  IInv'
    BY <2>5, ConfirmTotpKeeps
  <2>6. ASSUME NEW code \in RecoveryInputs, VerifyRecovery(c, code)
        PROVE  IInv'
    BY <2>6, VerifyRecoveryKeeps
  <2>7. CASE CompleteAssertion(c)
    BY <2>7, CompleteAssertionKeeps
  <2>8. CASE CompleteRegistration(c)
    BY <2>8, CompleteRegistrationKeeps
  <2> QED BY <1>3, <2>1, <2>2, <2>3, <2>4, <2>5, <2>6, <2>7, <2>8 DEF Request
<1>4. CASE UNCHANGED vars
  BY <1>4 DEF vars, factorVars, IInv, Typing, PendingInv, GuessesInv, ProofInv, Spent,
              ChallengeInv, Owed, Shown, ProofsSpentOnce
<1> QED BY <1>1, <1>2, <1>3, <1>4 DEF Next

THEOREM Invariance == Spec => []IInv
  BY InitEstablishes, NextKeeps, PTL DEF Spec

\* Types, and the budget of a pending challenge (failure, advance).
THEOREM TypeCorrect == Spec => []TypeOK
<1>1. IInv => TypeOK
  BY DEF IInv, Typing, PendingInv, GuessesInv, TypeOK
<1> QED BY <1>1, Invariance, PTL

\* No login is let through without every factor it owes (begin, advance), for
\* any number of challenges that advance at the same time.
THEOREM FactorsProven == Spec => []EveryDemandedFactorProven
<1>1. IInv => EveryDemandedFactorProven
  BY DEF IInv, ChallengeInv, Owed, Shown, EveryDemandedFactorProven
<1> QED BY <1>1, Invariance, PTL

\* A code is accepted once, across the challenges of the user (lastUsedCounter, usedAt).
THEOREM SpentOnce == Spec => []ProofsSpentOnce
<1>1. IInv => ProofsSpentOnce
  BY DEF IInv
<1> QED BY <1>1, Invariance, PTL
-----------------------------------------------------------------------------
(* The guesses of a factor. *)

\* What keeps the guesses of one factor apart, for a factor t, its guesses s and the time n:
\* a lock that has been set lasts a lockout beyond every guess; and without one, the guesses
\* that are not among the last t.failed lie a lockout before the last.
Apart(t, s, n) ==
    /\ Len(s) <= FactorFailures + 1
    /\ \A i \in 1 .. Len(s) : s[i] <= n
    /\ Len(s) > FactorFailures => s[Len(s)] - s[1] >= Lockout
    /\ t.status = "absent" => s = <<>>
    /\ t.status \in {"pending", "active"} /\ t.lockedUntil # 0 =>
          \A i \in 1 .. Len(s) : s[i] + Lockout <= t.lockedUntil
    /\ t.status \in {"pending", "active"} /\ t.lockedUntil = 0 =>
          /\ t.failed < FactorFailures
          /\ t.failed = 0 => s = <<>>
          /\ \A i \in 1 .. Len(s) : i + t.failed <= Len(s) => s[i] + Lockout <= s[Len(s)]

SpacingInv == \A f \in TotpIds : Apart(totp[f], guesses[f], now)

\* The guesses after one more attempt (Guess).
Guessed(t, s, code, n) ==
    IF TotpAccepts(t, code, n) THEN <<>>
    ELSE IF ~TotpCompares(t, code, n) THEN s
    ELSE IF Len(s) > FactorFailures THEN Append(Tail(s), n) ELSE Append(s, n)

\* One more guess, at the time n: what stays of the guesses before it, and where.
LEMMA GuessAppended ==
    ASSUME NEW s \in Seq(Nat), NEW n \in Nat, Len(s) <= FactorFailures + 1
    PROVE  LET r == IF Len(s) > FactorFailures THEN Append(Tail(s), n) ELSE Append(s, n) IN
           /\ r \in Seq(Nat) /\ Len(r) <= FactorFailures + 1
           /\ r[Len(r)] = n
           /\ \/ Len(s) <= FactorFailures /\ Len(r) = Len(s) + 1
                 /\ \A i \in 1 .. Len(s) : r[i] = s[i]
              \/ Len(s) = FactorFailures + 1 /\ Len(r) = Len(s)
                 /\ \A i \in 1 .. FactorFailures : r[i] = s[i + 1]
<1>1. Len(s) \in Nat /\ FactorFailures \in Nat \ {0}
  BY ManagerAssumption
<1>2. CASE Len(s) <= FactorFailures
  <2>1. /\ Append(s, n) \in Seq(Nat) /\ Len(Append(s, n)) = Len(s) + 1
        /\ Append(s, n)[Len(s) + 1] = n
        /\ \A i \in 1 .. Len(s) : Append(s, n)[i] = s[i]
    OBVIOUS
  <2> QED BY <1>1, <1>2, <2>1
<1>3. CASE Len(s) = FactorFailures + 1
  <2>1. /\ Tail(s) \in Seq(Nat) /\ Len(Tail(s)) = FactorFailures
        /\ \A i \in 1 .. FactorFailures : Tail(s)[i] = s[i + 1]
    BY <1>1, <1>3
  <2> DEFINE u == Tail(s)
  <2> HIDE DEF u
  <2>2. /\ Append(u, n) \in Seq(Nat) /\ Len(Append(u, n)) = FactorFailures + 1
        /\ Append(u, n)[FactorFailures + 1] = n
        /\ \A i \in 1 .. FactorFailures : Append(u, n)[i] = u[i]
    BY <2>1 DEF u
  <2>3. Len(s) > FactorFailures
    BY <1>1, <1>3
  <2>4. \A i \in 1 .. FactorFailures : Append(u, n)[i] = s[i + 1]
    BY <2>1, <2>2 DEF u
  <2>5. (IF Len(s) > FactorFailures THEN Append(Tail(s), n) ELSE Append(s, n)) = Append(u, n)
    BY <2>3 DEF u
  <2> QED BY <1>3, <2>2, <2>4, <2>5
<1> QED BY <1>1, <1>2, <1>3

\* A refused attempt, with what it leaves of the factor's counters.
LEMMA FailedCounters ==
    ASSUME NEW t \in Totps, NEW n \in Nat
    PROVE  /\ Failed(t, n).failed = t.failed + 1
           /\ Failed(t, n).lockedUntil = IF t.failed + 1 >= FactorFailures THEN n + Lockout
                                         ELSE t.lockedUntil
  BY DEF Failed, Totps

\* A lock that is taken now lasts a lockout beyond every guess so far.
LEMMA LockedApart ==
    ASSUME NEW g \in Totps, NEW s \in Seq(Nat), NEW n \in Nat,
           Len(s) <= FactorFailures + 1, \A i \in 1 .. Len(s) : s[i] <= n,
           Len(s) > FactorFailures => s[Len(s)] - s[1] >= Lockout,
           g.status # "absent", g.lockedUntil = n + Lockout
    PROVE  Apart(g, s, n)
<1>1. \A i \in 1 .. Len(s) : s[i] \in Nat
  OBVIOUS
<1> QED BY <1>1, ManagerAssumption DEF Apart

\* An attempt that is not compared, malformed or under a lock, only counts.
LEMMA UncomparedApart ==
    ASSUME NEW t \in Totps, NEW s \in Seq(Nat), NEW n \in Nat, Apart(t, s, n),
           t.status \in {"pending", "active"},
           NEW g \in Totps, g.status = t.status, g.failed = t.failed + 1,
           g.lockedUntil = IF t.failed + 1 >= FactorFailures THEN n + Lockout ELSE t.lockedUntil
    PROVE  Apart(g, s, n)
<1>1. t.failed \in Nat /\ t.lockedUntil \in Nat /\ \A i \in 1 .. Len(s) : s[i] \in Nat
  BY DEF Totps
<1>2. FactorFailures \in Nat \ {0} /\ Lockout \in Nat \ {0} /\ Len(s) \in Nat
  BY ManagerAssumption
<1>3. CASE t.failed + 1 >= FactorFailures
  BY <1>3, LockedApart DEF Apart
<1>4. CASE ~(t.failed + 1 >= FactorFailures)
  <2>1. g.lockedUntil = t.lockedUntil /\ g.failed < FactorFailures /\ g.failed # 0
    BY <1>1, <1>2, <1>4
  <2>2. ASSUME t.lockedUntil = 0, NEW i \in 1 .. Len(s), i + g.failed <= Len(s)
        PROVE  s[i] + Lockout <= s[Len(s)]
    BY <1>1, <1>2, <2>2 DEF Apart
  <2> QED BY <2>1, <2>2 DEF Apart
<1> QED BY <1>3, <1>4

\* An attempt that is compared and refused is a guess, a lockout after the guesses before the
\* lock that has run out, or among the first that no lock has followed yet.
LEMMA ComparedApart ==
    ASSUME NEW t \in Totps, NEW s \in Seq(Nat), NEW n \in Nat, Apart(t, s, n),
           t.status \in {"pending", "active"}, ~Locked(t, n),
           NEW g \in Totps, g.status = t.status,
           NEW k \in Nat, k = IF t.lockedUntil = 0 THEN t.failed ELSE 0,
           g.failed = k + 1,
           g.lockedUntil = IF k + 1 >= FactorFailures THEN n + Lockout ELSE 0,
           NEW r, r = IF Len(s) > FactorFailures THEN Append(Tail(s), n) ELSE Append(s, n)
    PROVE  Apart(g, r, n)
<1>1. t.failed \in Nat /\ t.lockedUntil \in Nat /\ \A i \in 1 .. Len(s) : s[i] \in Nat
  BY DEF Totps
<1>2. FactorFailures \in Nat \ {0} /\ Lockout \in Nat \ {0} /\ Len(s) \in Nat
  BY ManagerAssumption
<1>3. Len(s) <= FactorFailures + 1 /\ \A i \in 1 .. Len(s) : s[i] <= n
  BY DEF Apart
<1>4. /\ r \in Seq(Nat) /\ Len(r) <= FactorFailures + 1 /\ r[Len(r)] = n /\ Len(r) >= 1
      /\ \/ Len(s) <= FactorFailures /\ Len(r) = Len(s) + 1 /\ \A i \in 1 .. Len(s) : r[i] = s[i]
         \/ Len(s) = FactorFailures + 1 /\ Len(r) = Len(s)
            /\ \A i \in 1 .. FactorFailures : r[i] = s[i + 1]
  BY <1>2, <1>3, GuessAppended
<1>5. \A i \in 1 .. Len(r) : r[i] \in Nat /\ r[i] <= n
  BY <1>1, <1>2, <1>3, <1>4
\* Of the guesses before this one, all but the last k lie a lockout before it.
<1>6. \A i \in 1 .. Len(s) : i + k <= Len(s) => s[i] + Lockout <= n
  <2> SUFFICES ASSUME NEW i \in 1 .. Len(s), i + k <= Len(s) PROVE s[i] + Lockout <= n
    OBVIOUS
  <2>1. CASE t.lockedUntil # 0
    <3>1. s[i] + Lockout <= t.lockedUntil
      BY <2>1 DEF Apart
    <3>2. t.lockedUntil <= n
      BY <1>1 DEF Locked
    <3> QED BY <1>1, <1>2, <3>1, <3>2
  <2>2. CASE t.lockedUntil = 0
    <3>1. s[i] + Lockout <= s[Len(s)]
      BY <2>2 DEF Apart
    <3>2. Len(s) \in 1 .. Len(s)
      BY <1>2
    <3>3. s[Len(s)] <= n /\ s[Len(s)] \in Nat
      BY <1>1, <1>3, <3>2
    <3> QED BY <1>1, <1>2, <3>1, <3>3
  <2> QED BY <2>1, <2>2
<1>7. \A i \in 1 .. Len(r) : i + k + 1 <= Len(r) => r[i] + Lockout <= n
  <2> SUFFICES ASSUME NEW i \in 1 .. Len(r), i + k + 1 <= Len(r) PROVE r[i] + Lockout <= n
    OBVIOUS
  <2>1. CASE Len(s) <= FactorFailures /\ Len(r) = Len(s) + 1 /\ \A j \in 1 .. Len(s) : r[j] = s[j]
    BY <1>2, <1>6, <2>1
  <2>2. CASE Len(s) = FactorFailures + 1 /\ Len(r) = Len(s)
             /\ \A j \in 1 .. FactorFailures : r[j] = s[j + 1]
    <3>1. Len(s) = FactorFailures + 1 /\ i \in 1 .. Len(s) /\ i + k + 1 <= Len(s)
      BY <2>2
    <3>2. i \in Nat /\ 1 <= i /\ i + 1 <= Len(s) /\ (i + 1) + k <= Len(s)
      BY <1>2, <3>1
    <3>3. i + 1 \in 1 .. Len(s)
      BY <1>2, <3>2
    <3>4. i \in 1 .. FactorFailures
      BY <1>2, <3>1, <3>2
    <3> QED BY <1>6, <2>2, <3>2, <3>3, <3>4
  <2> QED BY <1>4, <2>1, <2>2
\* Fewer than FactorFailures guesses follow no lock, so that the first of one more does.
<1>8. k < FactorFailures
  BY <1>2 DEF Apart
<1>9. Len(r) > FactorFailures => r[Len(r)] - r[1] >= Lockout
  <2> SUFFICES ASSUME Len(r) > FactorFailures PROVE r[Len(r)] - r[1] >= Lockout
    OBVIOUS
  <2>1. Len(r) \in Nat /\ Len(r) = FactorFailures + 1 /\ 1 \in 1 .. Len(r)
    BY <1>2, <1>4
  <2>2. 1 + k + 1 <= Len(r)
    BY <1>2, <1>8, <2>1
  <2>3. r[1] + Lockout <= n /\ r[1] \in Nat
    BY <1>5, <1>7, <2>1, <2>2
  <2> QED BY <1>2, <1>4, <2>3
<1>10. CASE k + 1 >= FactorFailures
  BY <1>4, <1>5, <1>9, <1>10, LockedApart
<1>11. CASE ~(k + 1 >= FactorFailures)
  <2>1. g.lockedUntil = 0 /\ g.failed = k + 1 /\ k + 1 < FactorFailures /\ k + 1 # 0
    BY <1>2, <1>11
  <2>2. ASSUME NEW i \in 1 .. Len(r), i + g.failed <= Len(r)
        PROVE  r[i] + Lockout <= r[Len(r)]
    <3>1. i + k + 1 <= Len(r)
      BY <1>4, <2>1, <2>2
    <3> QED BY <1>4, <1>7, <3>1
  <2>3. Len(r) <= FactorFailures + 1 /\ \A i \in 1 .. Len(r) : r[i] <= n
    BY <1>4, <1>5
  <2> QED BY <1>9, <2>1, <2>2, <2>3 DEF Apart
<1> QED BY <1>10, <1>11

\* Any attempt with a code keeps the guesses apart.
LEMMA AttemptApart ==
    ASSUME NEW t \in Totps, NEW s \in Seq(Nat), NEW n \in Nat, Apart(t, s, n), NEW code,
           t.status \in {"pending", "active"},
           NEW g \in Totps, g.status \in {"pending", "active"},
           g.status # t.status => TotpAccepts(t, code, n),
           g.failed = TotpEvaluated(t, code, n).failed,
           g.lockedUntil = TotpEvaluated(t, code, n).lockedUntil
    PROVE  Apart(g, Guessed(t, s, code, n), n)
<1>1. CASE TotpAccepts(t, code, n)
  <2>1. g.failed = 0 /\ g.lockedUntil = 0
    BY <1>1 DEF TotpEvaluated, Totps
  <2>2. Guessed(t, s, code, n) = <<>>
    BY <1>1 DEF Guessed
  <2> QED BY <2>1, <2>2, ManagerAssumption DEF Apart
<1>2. CASE ~TotpAccepts(t, code, n) /\ ~TotpCompares(t, code, n)
  <2>1. TotpEvaluated(t, code, n) = Failed(t, n) /\ Guessed(t, s, code, n) = s
    BY <1>2 DEF TotpEvaluated, Guessed
  <2> QED BY <1>2, <2>1, FailedCounters, UncomparedApart
<1>3. CASE ~TotpAccepts(t, code, n) /\ TotpCompares(t, code, n)
  <2> DEFINE u == Unlocked(t)
             r == IF Len(s) > FactorFailures THEN Append(Tail(s), n) ELSE Append(s, n)
             k == IF t.lockedUntil = 0 THEN t.failed ELSE 0
  <2>1. u \in Totps /\ u.failed = k /\ u.lockedUntil = 0 /\ k \in Nat
    BY DEF Unlocked, Totps
  <2>2. TotpEvaluated(t, code, n) = Failed(u, n) /\ Guessed(t, s, code, n) = r
    BY <1>3 DEF TotpEvaluated, Guessed
  <2>3. ~Locked(t, n)
    BY <1>3 DEF TotpCompares
  <2>4. k = IF t.lockedUntil = 0 THEN t.failed ELSE 0
    OBVIOUS
  <2>5. r = IF Len(s) > FactorFailures THEN Append(Tail(s), n) ELSE Append(s, n)
    OBVIOUS
  <2> HIDE DEF u, r, k
  <2>6. g.failed = k + 1 /\ g.lockedUntil = IF k + 1 >= FactorFailures THEN n + Lockout ELSE 0
    BY <2>1, <2>2, FailedCounters
  <2>7. Apart(g, r, n)
    BY <1>3, <2>1, <2>3, <2>4, <2>5, <2>6, ComparedApart
  <2> QED BY <2>2, <2>7
<1> QED BY <1>1, <1>2, <1>3

\* A step that attempts no code of factor f and leaves its guesses.
LEMMA ApartStays ==
    ASSUME Typing, GuessesInv, SpacingInv, NEW f \in TotpIds,
           UNCHANGED <<totp[f], guesses[f]>>, now' \in Nat, now <= now'
    PROVE  Apart(totp[f], guesses[f], now)'
<1>1. guesses[f] \in Seq(Nat) /\ now \in Nat /\ Apart(totp[f], guesses[f], now)
  BY DEF Typing, GuessesInv, SpacingInv
<1>2. \A i \in 1 .. Len(guesses[f]) : guesses[f][i] \in Nat
  BY <1>1
<1>3. \A i \in 1 .. Len(guesses[f]) : guesses[f][i] <= now'
  BY <1>1, <1>2 DEF Apart
<1> QED BY <1>1, <1>3 DEF Apart

\* An attempt with a code of factor f, whose status may become active when it is accepted.
LEMMA AttemptStep ==
    ASSUME Typing, Typing', GuessesInv, SpacingInv, NEW f \in TotpIds, NEW code,
           totp[f].status \in {"pending", "active"}, totp'[f].status \in {"pending", "active"},
           totp'[f].status # totp[f].status => TotpAccepts(totp[f], code, now),
           totp'[f].failed = TotpEvaluated(totp[f], code, now).failed,
           totp'[f].lockedUntil = TotpEvaluated(totp[f], code, now).lockedUntil,
           \A h \in TotpIds : h # f => totp'[h] = totp[h],
           Guess(f, code), UNCHANGED now
    PROVE  SpacingInv'
<1>1. /\ totp[f] \in Totps /\ totp'[f] \in Totps /\ guesses[f] \in Seq(Nat) /\ now \in Nat
      /\ Apart(totp[f], guesses[f], now)
  BY DEF Typing, GuessesInv, SpacingInv
<1>2. /\ guesses'[f] = Guessed(totp[f], guesses[f], code, now)
      /\ \A h \in TotpIds : h # f => guesses'[h] = guesses[h]
  BY DEF Guess, Guessed, GuessesInv
<1>3. PICK g \in Totps : g = totp'[f]
  BY <1>1
<1>4. Apart(g, Guessed(totp[f], guesses[f], code, now), now)
  BY <1>1, <1>3, AttemptApart
<1>5. now' \in Nat /\ now <= now'
  BY <1>1
<1>6. ASSUME NEW h \in TotpIds
      PROVE  Apart(totp[h], guesses[h], now)'
  <2>1. CASE h = f
    BY <1>2, <1>3, <1>4, <2>1
  <2>2. CASE h # f
    BY <1>2, <1>5, <2>2, ApartStays
  <2> QED BY <2>1, <2>2
<1> QED BY <1>6 DEF SpacingInv

\* Only a request that shows a code guesses, and only the factor that it is compared with.
LEMMA SpacingKeeps ==
    ASSUME IInv, IInv', SpacingInv, [Next]_vars
    PROVE  SpacingInv'
<1> USE DEF IInv
<1>0. now \in Nat /\ now' \in Nat
  BY DEF Typing
<1>1. CASE Tick
  <2>1. now <= now' /\ UNCHANGED <<totp, guesses>>
    BY <1>0, <1>1 DEF Tick, factorVars
  <2> QED BY <1>0, <2>1, ApartStays DEF SpacingInv
<1>2. CASE UNCHANGED <<now, totp, guesses>>
  BY <1>0, <1>2, ApartStays DEF SpacingInv
<1>3. CASE Revoke
  <2>1. CASE UNCHANGED totp
    BY <1>2, <1>3, <2>1 DEF Revoke
  <2>2. ASSUME NEW f \in TotpIds, totp[f].status \in {"pending", "active"},
               totp' = [totp EXCEPT ![f] = [@ EXCEPT !.status = "revoked", !.failed = 0,
                                                     !.lockedUntil = 0]]
        PROVE  SpacingInv'
    <3>1. UNCHANGED <<now, guesses>>
      BY <1>3 DEF Revoke
    <3>2. totp'[f].status = "revoked" /\ \A h \in TotpIds : h # f => totp'[h] = totp[h]
      BY <2>2 DEF Typing, Totps
    <3>3. ASSUME NEW h \in TotpIds
          PROVE  Apart(totp[h], guesses[h], now)'
      <4>1. CASE h = f
        BY <3>1, <3>2, <4>1 DEF Apart, SpacingInv
      <4>2. CASE h # f
        BY <1>0, <3>1, <3>2, <4>2, ApartStays
      <4> QED BY <4>1, <4>2
    <3> QED BY <3>3 DEF SpacingInv
  <2> QED BY <1>3, <2>1, <2>2 DEF Revoke
<1>4. ASSUME NEW c \in Challenges, EnrollTotp(c)
      PROVE  SpacingInv'
  <2>1. PICK f \in TotpIds : totp[f].status = "absent" /\ totp' = [totp EXCEPT ![f] = NewTotp]
    BY <1>4 DEF EnrollTotp
  <2>2. UNCHANGED <<now, guesses>>
    BY <1>4 DEF EnrollTotp
  <2>3. totp'[f] = NewTotp /\ \A h \in TotpIds : h # f => totp'[h] = totp[h]
    BY <2>1 DEF Typing
  <2>4. guesses[f] = <<>>
    BY <2>1 DEF SpacingInv, Apart
  <2>5. Apart(NewTotp, <<>>, now)
    BY ManagerAssumption DEF Apart, NewTotp, NoTotp
  <2>6. ASSUME NEW h \in TotpIds
        PROVE  Apart(totp[h], guesses[h], now)'
    <3>1. CASE h = f
      BY <2>2, <2>3, <2>4, <2>5, <3>1
    <3>2. CASE h # f
      BY <1>0, <2>2, <2>3, <3>2, ApartStays
    <3> QED BY <3>1, <3>2
  <2> QED BY <2>6 DEF SpacingInv
<1>5. ASSUME NEW c \in Challenges, NEW code \in TotpCodes, VerifyTotp(c, code)
      PROVE  SpacingInv'
  <2>1. UNCHANGED now
    BY <1>5 DEF VerifyTotp, Failure, Satisfy
  <2>2. CASE TotpActive = {}
    BY <1>2, <1>5, <2>1, <2>2 DEF VerifyTotp
  <2>3. CASE TotpActive # {}
    <3> DEFINE f == First(TotpActive)
    <3>1. f \in TotpActive
      BY <2>3, FirstIsMember DEF TotpActive, TotpIds
    <3>2. totp' = [totp EXCEPT ![f] = TotpEvaluated(@, code, now)] /\ Guess(f, code)
      BY <1>5, <2>3 DEF VerifyTotp
    <3> HIDE DEF f
    <3>3. f \in TotpIds /\ totp[f].status = "active"
      BY <3>1 DEF TotpActive
    <3>4. totp'[f] = TotpEvaluated(totp[f], code, now) /\ \A h \in TotpIds : h # f => totp'[h] = totp[h]
      BY <3>2, <3>3 DEF Typing
    <3>5. totp'[f].status = "active"
      BY <3>3, <3>4, EvaluatedTotp DEF Typing
    <3> QED BY <2>1, <3>2, <3>3, <3>4, <3>5, AttemptStep
  <2> QED BY <2>2, <2>3
<1>6. ASSUME NEW c \in Challenges, NEW code \in TotpCodes, ConfirmTotp(c, code)
      PROVE  SpacingInv'
  <2> DEFINE f == entry[c].enrolling
  <2>1. UNCHANGED now
    BY <1>6 DEF ConfirmTotp, Failure, Enroll
  <2>2. f \in TotpIds
    BY <1>6 DEF ConfirmTotp, Typing, Entries
  <2>3. \/ UNCHANGED <<totp, guesses>>
        \/ /\ totp[f].status = "pending" /\ Guess(f, code)
           /\ \/ TotpAccepts(totp[f], code, now)
                 /\ totp' = [totp EXCEPT ![f] = [TotpEvaluated(@, code, now) EXCEPT !.status = "active"]]
              \/ totp' = [totp EXCEPT ![f] = TotpEvaluated(@, code, now)]
    BY <1>6 DEF ConfirmTotp
  <2> HIDE DEF f
  <2>4. CASE UNCHANGED <<totp, guesses>>
    BY <1>2, <2>1, <2>4
  <2> DEFINE e == TotpEvaluated(totp[f], code, now)
  <2>5. ASSUME totp[f].status = "pending", Guess(f, code), TotpAccepts(totp[f], code, now),
               totp' = [totp EXCEPT ![f] = [e EXCEPT !.status = "active"]]
        PROVE  SpacingInv'
    <3>1. e \in Totps
      BY <2>2, EvaluatedTotp DEF Typing
    <3> HIDE DEF e
    <3>2. /\ totp'[f] = [e EXCEPT !.status = "active"]
          /\ \A h \in TotpIds : h # f => totp'[h] = totp[h]
      BY <2>2, <2>5 DEF Typing
    <3>3. /\ totp'[f].status = "active" /\ totp'[f].failed = e.failed
          /\ totp'[f].lockedUntil = e.lockedUntil
      BY <3>1, <3>2 DEF Totps
    <3> QED BY <2>1, <2>2, <2>5, <3>2, <3>3, AttemptStep DEF e
  <2>6. ASSUME totp[f].status = "pending", Guess(f, code), totp' = [totp EXCEPT ![f] = e]
        PROVE  SpacingInv'
    <3>1. totp'[f] = e /\ \A h \in TotpIds : h # f => totp'[h] = totp[h]
      BY <2>2, <2>6 DEF Typing
    <3>2. totp'[f].status = "pending"
      BY <2>2, <2>6, <3>1, EvaluatedTotp DEF Typing
    <3> QED BY <2>1, <2>2, <2>6, <3>1, <3>2, AttemptStep
  <2> QED BY <2>3, <2>4, <2>5, <2>6
<1>7. ASSUME NEW c \in Challenges, Begin(c) \/ DropExpired(c) \/ CompleteAssertion(c)
      PROVE  UNCHANGED <<now, totp, guesses>>
  BY <1>7 DEF Begin, DropExpired, CompleteAssertion, Failure, Satisfy, factorVars
<1>8. ASSUME NEW c \in Challenges, CompleteRegistration(c)
      PROVE  UNCHANGED <<now, totp, guesses>>
  BY <1>8 DEF CompleteRegistration, Failure, Enroll
<1>9. ASSUME NEW c \in Challenges, NEW code \in RecoveryInputs, VerifyRecovery(c, code)
      PROVE  UNCHANGED <<now, totp, guesses>>
  BY <1>9 DEF VerifyRecovery, Failure, Satisfy
<1>10. CASE UNCHANGED vars
  BY <1>2, <1>10 DEF vars, factorVars
<1> QED BY <1>1, <1>2, <1>3, <1>4, <1>5, <1>6, <1>7, <1>8, <1>9, <1>10 DEF Next, Request

\* Within a lockout the secret is compared with at most FactorFailures wrong codes, however
\* many challenges send them (evaluate, emitFailure, allowAttempt).
THEOREM GuessesApart == Spec => []GuessesSpaced
<1>1. Init => SpacingInv
  BY ManagerAssumption DEF Init, SpacingInv, Apart, NewTotp, NoTotp
<1>2. IInv /\ IInv' /\ SpacingInv /\ [Next]_vars => SpacingInv'
  BY SpacingKeeps
<1>3. SpacingInv => GuessesSpaced
  BY DEF SpacingInv, Apart, GuessesSpaced
<1> QED BY <1>1, <1>2, <1>3, Invariance, PTL DEF Spec
=============================================================================
