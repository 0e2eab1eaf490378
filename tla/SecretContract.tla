---------------------------- MODULE SecretContract ----------------------------
(***************************************************************************)
(* What RotatableSecretStore promises (src/core/secrets/secret-store.ts): a *)
(* register of versions that is changed by compare-and-swap only.  0 is no  *)
(* version.                                                                 *)
(***************************************************************************)
EXTENDS Naturals

CONSTANT Versions

VARIABLES active, previous, used

cvars == <<active, previous, used>>

Init == active = 0 /\ previous = 0 /\ used = {}

\* A new version replaces the active one, which can be rolled back to.
Rotate(version) ==
    /\ version \notin used      \* versions are never used twice
    /\ active' = version /\ previous' = active
    /\ used' = used \cup {version}

Rollback ==
    /\ previous # 0
    /\ active' = previous /\ previous' = active
    /\ UNCHANGED used

Next == Rollback \/ \E version \in Versions : Rotate(version)

Spec == Init /\ [][Next]_cvars
=============================================================================
