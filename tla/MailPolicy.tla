------------------------------ MODULE MailPolicy ------------------------------
(***************************************************************************)
(* The mail policy (src/core/mail/mail-policy.ts): who may submit under     *)
(* which sender, what an address resolves to, and how often a user may      *)
(* submit.                                                                  *)
(*                                                                         *)
(* The mailbox of a user is the user; there is one alias, one address of    *)
(* the tenant's domain that is neither, and one of another domain.  The     *)
(* directory comes with every call and may be a wrong one.                  *)
(* `accepted` is history: the times of the accepted submissions of a user.  *)
(***************************************************************************)
EXTENDS Naturals, FiniteSets, Sequences

CONSTANTS Members, SubmissionLimit, SubmissionWindow, MaxRecipients,
          SubmissionTime                \* bound: the clock

VARIABLES directory, submitted, clock, accepted, last

vars == <<directory, submitted, clock, accepted, last>>

Alias == "alias"
Stranger == "stranger"                  \* of the domain, but nobody's
Elsewhere == "elsewhere"                \* of another domain
Addresses == Members \cup {Alias, Stranger, Elsewhere}
Internal == Addresses \ {Elsewhere}

Directories == [active : SUBSET Members, destinations : SUBSET Members]
NoWindow == [startedAt |-> 0, count |-> 0]
Faults == {"none", "other actor", "other tenant", "unauthenticated", "too large"}
Recipients == {r \in SUBSET Addresses : Cardinality(r) <= MaxRecipients + 1}   \* bound
Requests == [user : Members, fault : Faults, sender : Addresses, recipients : Recipients]
Outcomes == [path : {"none", "submission", "inbound"}, user : Members,
             sender : Addresses, recipients : SUBSET Addresses]

Init ==
    /\ directory \in Directories
    /\ submitted = [u \in Members |-> NoWindow]
    /\ clock = 0 /\ accepted = [u \in Members |-> <<>>]
    /\ \E u \in Members : last = [path |-> "none", user |-> u, sender |-> u, recipients |-> {}]
-----------------------------------------------------------------------------
\* normalizeAliasDestinations: such a directory makes every call throw.
Broken == ~(directory.destinations \subseteq directory.active)

\* The users an address stands for; none where it is external or unknown.
Resolved(address) ==
    IF address \in directory.active THEN {address}
    ELSE IF address = Alias THEN directory.destinations ELSE {}

\* Mutant: any sender of the tenant's directory will do.
OwnsSenderOfTenant(request) == Resolved(request.sender) # {}

OwnsSender(request) == request.user \in Resolved(request.sender)

\* authorizeSubmission, up to the rate: only the recipients of the own domain are looked up.
MaySubmit(request) ==
    /\ request.fault = "none"
    /\ request.sender \in Internal /\ ~Broken /\ OwnsSender(request)
    /\ request.recipients # {} /\ Cardinality(request.recipients) <= MaxRecipients
    /\ \A address \in request.recipients \cap Internal : Resolved(address) # {}

Fresh(window) == window.count = 0 \/ clock - window.startedAt >= SubmissionWindow

\* Mutant: the last one allowed is let through once more.
ExhaustedLate(window) == ~Fresh(window) /\ window.count > SubmissionLimit

Exhausted(window) == ~Fresh(window) /\ window.count >= SubmissionLimit

\* consumeSubmissionRate
Consumed(window) ==
    IF Fresh(window) THEN [startedAt |-> clock, count |-> 1] ELSE [window EXCEPT !.count = @ + 1]

\* authorizeSubmission; a refused one throws and leaves everything as it was.
AuthorizeSubmission(request) ==
    LET user == request.user
    IN  /\ MaySubmit(request) /\ ~Exhausted(submitted[user])
        /\ submitted' = [submitted EXCEPT ![user] = Consumed(@)]
        /\ accepted' = [accepted EXCEPT ![user] = Append(@, clock)]
        /\ last' = [path |-> "submission", user |-> user, sender |-> request.sender,
                    recipients |-> request.recipients]
        /\ UNCHANGED <<directory, clock>>

\* Mutant: one recipient of the tenant lets the others pass.
DeliverableAny(recipients) == \E address \in recipients : Resolved(address) # {}

\* resolveRecipients
Deliverable(recipients) ==
    /\ recipients # {} /\ Cardinality(recipients) <= MaxRecipients
    /\ ~Broken /\ \A address \in recipients : Resolved(address) # {}

\* authorizeInbound: the sender may be anyone.
AuthorizeInbound(recipients, fault) ==
    /\ fault \notin {"other tenant", "too large"} /\ Deliverable(recipients)
    /\ last' = [last EXCEPT !.path = "inbound", !.recipients = recipients]
    /\ UNCHANGED <<directory, submitted, clock, accepted>>

Tick ==
    /\ clock < SubmissionTime /\ clock' = clock + 1
    /\ UNCHANGED <<directory, submitted, accepted, last>>

Next ==
    \/ Tick
    \/ \E request \in Requests : AuthorizeSubmission(request)
    \/ \E recipients \in Recipients, fault \in Faults : AuthorizeInbound(recipients, fault)

Spec == Init /\ [][Next]_vars
-----------------------------------------------------------------------------
TypeOK ==
    /\ directory \in Directories /\ clock \in 0 .. SubmissionTime /\ last \in Outcomes
    /\ submitted \in [Members -> [startedAt : 0 .. SubmissionTime, count : 0 .. SubmissionLimit]]

AcceptedIn(user, times) == Cardinality({i \in DOMAIN accepted[user] : accepted[user][i] \in times})

\* What was accepted can be answered and delivered: a reply to the sender of a submission
\* reaches whoever submitted it, every recipient of the domain is an active user's, mail that
\* comes in leaves for nowhere else; and a user's submissions are no more than the limit in the
\* window that runs and twice that in any time as long as a window, refused ones counting
\* nothing (mail-policy.ts: authorizeSubmission, authorizeInbound, consumeSubmissionRate).
PolicyHolds ==
    /\ last.path = "submission" => last.user \in Resolved(last.sender) \cap directory.active
    /\ last.path # "none" =>
           \A address \in last.recipients :
               \/ last.path = "submission" /\ address = Elsewhere
               \/ Resolved(address) # {} /\ Resolved(address) \subseteq directory.active
    /\ \A user \in Members :
           LET window == submitted[user]
           IN  /\ window.count > 0 =>
                      AcceptedIn(user, window.startedAt .. SubmissionTime) = window.count
               /\ window.count <= SubmissionLimit
               /\ \A t \in 0 .. SubmissionTime :
                      AcceptedIn(user, t .. t + SubmissionWindow - 1) <= 2 * SubmissionLimit
=============================================================================
