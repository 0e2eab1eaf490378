--------------------------- MODULE PasswordHashes ---------------------------
(***************************************************************************)
(* The password hash of one account across changes of the configured cost   *)
(* and of the policy (src/core/auth/password-hashing.ts,                    *)
(* password-policy.ts).  A password is its length and its characters; the   *)
(* memory scrypt needs is compared in bytes with the limit the code sets.   *)
(***************************************************************************)
EXTENDS Integers, Sequences

CONSTANT MaxDeployments          \* bound

VARIABLES cost, minLength, stored, last, deployments

vars == <<cost, minLength, stored, last, deployments>>

\* Costs on both sides of every limit, and one assertCost refuses; passwords for every reason.
Costs == [N : {2 ^ 14, 2 ^ 15}, r : {8}, p : {1, 8}] \cup [N : {2 ^ 15, 3 * 2 ^ 13, 2 ^ 16}, r : {1}, p : {1}]
Passwords ==
    [length : {7, 8, 12, 257}, characters : {"ascii"}] \cup [length : {8}, characters : {"wide", "blank"}]

Nobody == CHOOSE password \in Passwords : TRUE
NoCall == [operation |-> "none", password |-> Nobody, code |-> "none", valid |-> FALSE, rehash |-> FALSE]

\* assertCost: powers of two only.
PowersOfTwo == {2 ^ k : k \in 14 .. 20}
Accepted(c) == c.N \in PowersOfTwo /\ c.r \in 1 .. 32 /\ c.p \in 1 .. 8

\* createPasswordHasher and createPasswordPolicy refuse anything else when the process starts.
Init ==
    /\ cost \in {c \in Costs : Accepted(c)}
    /\ minLength \in {8, 12} /\ stored = <<>> /\ last = NoCall /\ deployments = 0

\* derive: the limit leaves one KiB above the table of N blocks, or 32 MiB.
Larger(a, b) == IF a > b THEN a ELSE b
MemoryLimit(c) == Larger(32 * 1024 * 1024, 128 * c.N * c.r + 1024)

\* Outside the program: what the library's scrypt needs, and its bound on N.
Derivable(c) ==
    /\ 128 * c.r * (c.N + 2) + 128 * c.r * c.p <= MemoryLimit(c)
    /\ c.r = 1 => c.N < 2 ^ 16

\* validate: the first reason found.
Validate(password) ==
    IF password.length < minLength THEN "PASSWORD_TOO_SHORT"
    ELSE IF password.length > 256 THEN "PASSWORD_TOO_LONG"
    ELSE IF password.characters = "ascii" THEN "none"
    ELSE IF password.characters = "wide" THEN "PASSWORD_NON_ASCII"
    ELSE "PASSWORD_CHARACTER_NOT_ALLOWED"

\* The process starts again with another cost, or a tenant's other minimum.
Deploy ==
    /\ deployments < MaxDeployments /\ deployments' = deployments + 1
    /\ cost' \in {c \in Costs : Accepted(c)} /\ minLength' \in {8, 12}
    /\ last' = NoCall /\ UNCHANGED stored

\* What is read back is not what was written: parseHash answers null.
Damage ==
    /\ stored # <<>> /\ stored' = [stored EXCEPT ![1].whole = FALSE]
    /\ last' = NoCall /\ UNCHANGED <<cost, minLength, deployments>>

HashCode(password) ==
    IF Validate(password) # "none" THEN Validate(password)
    ELSE IF ~Derivable(cost) THEN "HASH_DERIVATION_FAILED" ELSE "none"

\* hash, and the row it is written to: a refused password leaves the old hash.
Hash(password) ==
    /\ last' = [NoCall EXCEPT !.operation = "hash", !.password = password, !.code = HashCode(password)]
    /\ stored' = IF HashCode(password) = "none"
                 THEN <<[password |-> password, cost |-> cost, whole |-> TRUE]>> ELSE stored
    /\ UNCHANGED <<cost, minLength, deployments>>

\* Mutant: the digest is derived with the cost of today.
MatchesToday(password) == stored[1].password = password /\ stored[1].cost = cost

\* Mutant: a password the policy of today refuses is refused here too.
MatchesPolicy(password) == stored[1].password = password /\ Validate(password) = "none"

\* The digest is derived with the salt and the cost of the hash itself.
Matches(password) == stored[1].password = password /\ Derivable(stored[1].cost)

\* verify: what cannot be parsed or derived is no password.
Verify(password) ==
    /\ stored # <<>>
    /\ LET parsed == stored[1].whole /\ Accepted(stored[1].cost)
           valid == parsed /\ Matches(password)
       IN  last' = [operation |-> "verify", password |-> password, valid |-> valid,
                    rehash |-> valid /\ stored[1].cost # cost,
                    code |-> IF ~parsed \/ ~Derivable(stored[1].cost) THEN "HASH_INVALID"
                             ELSE IF valid THEN "none" ELSE "PASSWORD_INVALID"]
    /\ UNCHANGED <<cost, minLength, stored, deployments>>

Next ==
    \/ Deploy \/ Damage
    \/ \E password \in Passwords : Hash(password) \/ Verify(password)

Spec == Init /\ [][Next]_vars
-----------------------------------------------------------------------------
Codes == {"none", "HASH_INVALID", "PASSWORD_INVALID", "PASSWORD_TOO_SHORT", "PASSWORD_TOO_LONG",
          "PASSWORD_NON_ASCII", "PASSWORD_CHARACTER_NOT_ALLOWED", "HASH_DERIVATION_FAILED"}

TypeOK ==
    /\ cost \in Costs /\ minLength \in {8, 12} /\ deployments \in 0 .. MaxDeployments
    /\ stored = <<>> \/ (stored[1].password \in Passwords /\ stored[1].cost \in Costs)
    /\ last.code \in Codes /\ last.valid \in BOOLEAN /\ last.rehash \in BOOLEAN

\* A stored password opens the account and no other one does, whatever the cost and the minimum
\* were changed to since; a hash is made again when its cost is not the configured one; and no
\* stored password is shorter than the baseline or holds another character
\* (password-hashing.ts: verify, hash).
PasswordStands ==
    stored # <<>> =>
        /\ stored[1].password.length >= 8 /\ stored[1].password.characters = "ascii"
        /\ (last.operation = "verify" /\ stored[1].whole) =>
              /\ last.valid <=> last.password = stored[1].password
              /\ last.rehash <=> (last.valid /\ stored[1].cost # cost)
        /\ (last.operation = "verify" /\ ~stored[1].whole) => ~last.valid
=============================================================================
