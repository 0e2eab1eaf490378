---------------------------- MODULE MailSubmission ----------------------------
(***************************************************************************)
(* What the mail queue promises the sender of a message, whatever the SMTP  *)
(* session does: the server takes the message at most once, a delivered     *)
(* message was taken, a bounced one was not and never will be, and only a   *)
(* quarantined one leaves that open.                                        *)
(***************************************************************************)
CONSTANT Entries

VARIABLES fate, taken

svars == <<fate, taken>>

Fates == {"pending", "delivered", "bounced", "quarantined"}

Init ==
    /\ fate = [e \in Entries |-> "pending"]
    /\ taken = [e \in Entries |-> FALSE]

\* The server may take a quarantined message after the queue has given up on it.
Take(e) ==
    /\ fate[e] \in {"pending", "quarantined"} /\ ~taken[e]
    /\ taken' = [taken EXCEPT ![e] = TRUE]
    /\ UNCHANGED fate

Settle(e, f) ==
    /\ fate[e] = "pending"
    /\ \/ f = "delivered" /\ taken[e]
       \/ f = "bounced" /\ ~taken[e]
       \/ f = "quarantined"
    /\ fate' = [fate EXCEPT ![e] = f]
    /\ UNCHANGED taken

Next == \E e \in Entries : Take(e) \/ \E f \in Fates : Settle(e, f)

Spec == Init /\ [][Next]_svars
=============================================================================
