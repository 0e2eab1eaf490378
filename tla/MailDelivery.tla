----------------------------- MODULE MailDelivery -----------------------------
(***************************************************************************)
(* The mail queue (src/core/mail/mail-queue.ts) and the workers that submit *)
(* its entries over SMTP (smtp-queue-adapter.ts, smtp-client.ts).           *)
(*                                                                         *)
(* A worker's session is a row of commands.  The server (external) answers  *)
(* each one, in order; the client reads the next answer or gives up after   *)
(* commandTimeoutMs, and the answer it did not wait for is still to come.   *)
(* An answer is its class: "ok" (2xx), "go" (354), "temp" (4xx), "perm"     *)
(* (5xx), "bad" (no SMTP reply).  Whatever fails before the first recipient *)
(* ends the session, so the commands up to there are two steps, and between  *)
(* them the wait for the TLS handshake of STARTTLS and for the credentials,  *)
(* which no timer bounds; QUIT and its answer are one step too.              *)
(*                                                                         *)
(* History: `copies` is how often the server has taken an entry's message.  *)
(***************************************************************************)
EXTENDS Integers, Sequences

CONSTANTS
    Entries, Workers,
    Recipients,         \* number of recipients of an entry
    MaxAttempts         \* maxAttempts

ASSUME DeliveryAssumption ==
    Recipients \in Nat \ {0} /\ MaxAttempts \in Nat \ {0}

VARIABLES
    state, attempts, reason,    \* the queue's entries
    session,                    \* the workers' deliver() calls
    wire,                       \* answers on their way to a worker
    open,                       \* is the worker's connection up?
    valid,                      \* server: recipients it has taken in the session
    body,                       \* server: a whole message it has yet to answer
    late,                       \* server: the same, of sessions the client has left
    copies

queue == <<state, attempts, reason>>
serverVars == <<valid, body, late, copies>>
vars == <<queue, session, wire, open, serverVars>>

States == {"absent", "queued", "delivering", "deferred", "delivered", "bounced", "quarantined"}
Settled == {"delivered", "bounced", "quarantined"}
Reasons == {"accepted", "smtp_temporary_failure", "retry_exhausted", "smtp_rejected",
            "smtp_outcome_unknown", "smtp_delivered"}
Answers == {"ok", "go", "temp", "perm", "bad"}

Steps == {"idle", "connect", "upgrade", "login", "rcpt", "rcpt-answer", "read", "data", "data-answer", "body",
          "body-answer", "quit"}
\* accepted, rejected: recipients; soft: one of the rejected has no 5xx code.
Sessions == [at : Steps, entry : Entries \cup {"none"}, rcpt : 1 .. Recipients + 1,
             accepted : SUBSET (1 .. Recipients), soft : BOOLEAN]
Idle == [at |-> "idle", entry |-> "none", rcpt |-> 1, accepted |-> {}, soft |-> FALSE]

Init ==
    /\ state = [e \in Entries |-> "absent"]
    /\ attempts = [e \in Entries |-> 0]
    /\ reason = [e \in Entries |-> "accepted"]
    /\ session = [w \in Workers |-> Idle]
    /\ wire = [w \in Workers |-> <<>>]
    /\ open = [w \in Workers |-> FALSE]
    /\ valid = [w \in Workers |-> {}]
    /\ body = [w \in Workers |-> FALSE]
    /\ late = [e \in Entries |-> 0]
    /\ copies = [e \in Entries |-> 0]
-----------------------------------------------------------------------------
(* The queue. *)

Enqueue(e) ==
    /\ state[e] = "absent"
    /\ state' = [state EXCEPT ![e] = "queued"]
    /\ UNCHANGED <<attempts, reason, session, wire, open, serverVars>>

\* Mutant: an entry that is being delivered can be claimed again.
ClaimableAnyTime(e) == state[e] \in {"queued", "deferred", "delivering"}

Claimable(e) == state[e] \in {"queued", "deferred"}

\* Mutant: one attempt more than allowed.
DeferOffByOne(e) ==
    LET spent == attempts[e] > MaxAttempts IN
    /\ state' = [state EXCEPT ![e] = IF spent THEN "bounced" ELSE "deferred"]
    /\ reason' = [reason EXCEPT ![e] = IF spent THEN "retry_exhausted"
                                       ELSE "smtp_temporary_failure"]

Defer(e) ==
    LET spent == attempts[e] >= MaxAttempts IN
    /\ state' = [state EXCEPT ![e] = IF spent THEN "bounced" ELSE "deferred"]
    /\ reason' = [reason EXCEPT ![e] = IF spent THEN "retry_exhausted"
                                       ELSE "smtp_temporary_failure"]

Complete(e, final, why) ==
    /\ state' = [state EXCEPT ![e] = final]
    /\ reason' = [reason EXCEPT ![e] = why]
-----------------------------------------------------------------------------
(* deliver *)

At(w) == session[w].at
Entry(w) == session[w].entry

\* claim, and a new client
Claim(w, e) ==
    /\ At(w) = "idle" /\ Claimable(e)
    /\ state' = [state EXCEPT ![e] = "delivering"]
    /\ attempts' = [attempts EXCEPT ![e] = @ + 1]
    /\ session' = [session EXCEPT ![w] = [Idle EXCEPT !.at = "connect", !.entry = e]]
    /\ UNCHANGED <<reason, wire, open, valid, body, late, copies>>

\* The client's connection is gone; what the server has, it keeps.
Leave(w) ==
    /\ session' = [session EXCEPT ![w] = Idle]
    /\ wire' = [wire EXCEPT ![w] = <<>>]
    /\ open' = [open EXCEPT ![w] = FALSE]
    /\ valid' = [valid EXCEPT ![w] = {}]
    /\ body' = [body EXCEPT ![w] = FALSE]
    /\ late' = [late EXCEPT ![Entry(w)] = @ + (IF body[w] THEN 1 ELSE 0)]
    /\ UNCHANGED <<attempts, copies>>

\* catch, for a failure that is not a reply of the server
Unanswered(w) == Defer(Entry(w)) /\ Leave(w)

\* catch, for an unexpected reply: SmtpCommandError.temporary is 4xx
Refused(w, answer) ==
    /\ IF answer \in {"temp", "bad"} THEN Defer(Entry(w))
       ELSE Complete(Entry(w), "bounced", "smtp_rejected")
    /\ Leave(w)

\* A 5xx before the first recipient, to AUTH excepted (authenticationFailed), is a verdict.
OpeningFails(w) ==
    \/ Unanswered(w)
    \/ Complete(Entry(w), "bounced", "smtp_rejected") /\ Leave(w)

Proceed(w, step) ==
    /\ session' = [session EXCEPT ![w].at = step]
    /\ UNCHANGED <<queue, wire, open, serverVars>>

\* connect, ehlo, and the STARTTLS command where it is configured
Connect(w) ==
    /\ At(w) = "connect"
    /\ Proceed(w, "upgrade") \/ Proceed(w, "login") \/ OpeningFails(w)

\* startTls after its answer, resolveCredentials: nothing ends the wait but its own end.
Upgrade(w) ==
    /\ At(w) = "upgrade"
    /\ Proceed(w, "login") \/ Unanswered(w)

\* ehlo, authenticate, mailFrom
Login(w) ==
    /\ At(w) = "login"
    /\ \/ /\ session' = [session EXCEPT ![w].at = "rcpt"]
          /\ open' = [open EXCEPT ![w] = TRUE]
          /\ UNCHANGED <<queue, wire, serverVars>>
       \/ OpeningFails(w)

\* The server's answer to a command, one of `possible`.
Send(w, possible, answer) ==
    /\ answer \in possible
    /\ wire' = [wire EXCEPT ![w] = Append(@, answer)]

Skip(w, soft) ==
    session' = [session EXCEPT ![w].at = "rcpt", ![w].rcpt = @ + 1,
                               ![w].soft = @ \/ soft]

\* rcptTo
Rcpt(w) ==
    /\ At(w) = "rcpt" /\ session[w].rcpt <= Recipients
    /\ \/ /\ open[w]
          /\ \E answer \in Answers \ {"go"} :
               /\ Send(w, Answers \ {"go"}, answer)
               /\ valid' = [valid EXCEPT ![w] =
                              IF answer = "ok" THEN @ \cup {session[w].rcpt} ELSE @]
          /\ session' = [session EXCEPT ![w].at = "rcpt-answer"]
          /\ UNCHANGED <<queue, open, body, late, copies>>
       \/ /\ ~open[w] /\ Skip(w, TRUE)                 \* NOT_CONNECTED
          /\ UNCHANGED <<queue, wire, open, serverVars>>


\* A failed recipient is noted and the session goes on with the next one.
RcptAnswer(w) ==
    /\ At(w) = "rcpt-answer"
    /\ \/ /\ open[w] /\ wire[w] # <<>>
          /\ wire' = [wire EXCEPT ![w] = Tail(@)]
          /\ IF Head(wire[w]) = "ok"
             THEN session' = [session EXCEPT ![w].at = "rcpt", ![w].rcpt = @ + 1,
                                             ![w].accepted = @ \cup {session[w].rcpt}]
             ELSE Skip(w, Head(wire[w]) # "perm")
       \/ Skip(w, TRUE) /\ UNCHANGED wire              \* TIMEOUT, CONNECTION_CLOSED
    /\ UNCHANGED <<queue, open, serverVars>>

\* After the last recipient: nobody to deliver to, or the message is read.
AllRecipients(w) ==
    /\ At(w) = "rcpt" /\ session[w].rcpt > Recipients
    /\ session' = [session EXCEPT ![w].at = IF session[w].accepted = {} THEN "quit" ELSE "read"]
    /\ UNCHANGED <<queue, wire, open, serverVars>>

ReadMessage(w) ==
    /\ At(w) = "read"
    /\ \/ /\ session' = [session EXCEPT ![w].at = "data"]
          /\ UNCHANGED <<queue, wire, open, serverVars>>
       \/ Unanswered(w)

Data(w) ==
    /\ At(w) = "data"
    /\ \/ /\ open[w]
          /\ \E answer \in Answers \ {"ok"} :
               Send(w, (Answers \ {"ok"}) \ (IF valid[w] = {} THEN {"go"} ELSE {}), answer)
          /\ session' = [session EXCEPT ![w].at = "data-answer"]
          /\ UNCHANGED <<queue, open, valid, body, late, copies>>
       \/ ~open[w] /\ Unanswered(w)

\* Mutant: any positive answer starts the message.
DataAnswerLoose(w) ==
    /\ At(w) = "data-answer"
    /\ \/ /\ open[w] /\ wire[w] # <<>>
          /\ \/ /\ Head(wire[w]) \in {"ok", "go"}
                /\ wire' = [wire EXCEPT ![w] = Tail(@)]
                /\ session' = [session EXCEPT ![w].at = "body"]
                /\ UNCHANGED <<queue, open, serverVars>>
             \/ Head(wire[w]) \notin {"ok", "go"} /\ Refused(w, Head(wire[w]))
       \/ Unanswered(w)

DataAnswer(w) ==
    /\ At(w) = "data-answer"
    /\ \/ /\ open[w] /\ wire[w] # <<>>
          /\ \/ /\ Head(wire[w]) = "go"
                /\ wire' = [wire EXCEPT ![w] = Tail(@)]
                /\ session' = [session EXCEPT ![w].at = "body"]
                /\ UNCHANGED <<queue, open, serverVars>>
             \/ Head(wire[w]) # "go" /\ Refused(w, Head(wire[w]))
       \/ Unanswered(w)

\* The message and its end line: written as a whole, or the server does not have it.
Body(w) ==
    /\ At(w) = "body"
    /\ \/ /\ open[w]
          /\ body' = [body EXCEPT ![w] = TRUE]
          /\ session' = [session EXCEPT ![w].at = "body-answer"]
          /\ UNCHANGED <<queue, wire, open, valid, late, copies>>
       \/ Unanswered(w)

\* Mutant: a message without an answer is sent again.
UnknownRetried(w) == Defer(Entry(w))

\* DATA_OUTCOME_UNKNOWN
Unknown(w) == Complete(Entry(w), "quarantined", "smtp_outcome_unknown")

BodyAnswer(w) ==
    /\ At(w) = "body-answer"
    /\ \/ /\ open[w] /\ wire[w] # <<>>
          /\ \/ /\ Head(wire[w]) = "ok"
                /\ wire' = [wire EXCEPT ![w] = Tail(@)]
                /\ session' = [session EXCEPT ![w].at = "quit"]
                /\ UNCHANGED <<queue, open, serverVars>>
             \/ Head(wire[w]) \in {"temp", "perm", "go"} /\ Refused(w, Head(wire[w]))
             \/ Head(wire[w]) = "bad" /\ Unknown(w) /\ Leave(w)
       \/ Unknown(w) /\ Leave(w)                \* TIMEOUT, CONNECTION_CLOSED

\* safeClose, and then the verdict
Quit(w) ==
    /\ At(w) = "quit"
    /\ IF session[w].accepted # {} THEN Complete(Entry(w), "delivered", "smtp_delivered")
       ELSE IF session[w].soft THEN Defer(Entry(w))
       ELSE Complete(Entry(w), "bounced", "smtp_rejected")
    /\ Leave(w)

\* The steps that a timer ends, or that end at once.
Timed(w) ==
    \/ Connect(w) \/ Login(w) \/ Rcpt(w) \/ RcptAnswer(w) \/ AllRecipients(w) \/ Data(w)
    \/ DataAnswer(w) \/ Body(w) \/ BodyAnswer(w) \/ Quit(w)

Deliver(w) == Timed(w) \/ Upgrade(w) \/ ReadMessage(w)
-----------------------------------------------------------------------------
(* The server (external). *)

\* The connection breaks: answers that were not read are lost.
Drop(w) ==
    /\ open[w]
    /\ open' = [open EXCEPT ![w] = FALSE]
    /\ wire' = [wire EXCEPT ![w] = <<>>]
    /\ UNCHANGED <<queue, session, serverVars>>

\* It decides on a whole message; the client may have gone by then.
DecideBody(w) ==
    /\ body[w]
    /\ body' = [body EXCEPT ![w] = FALSE]
    /\ \E answer \in {"ok", "temp", "perm", "bad"} :
         /\ wire' = [wire EXCEPT ![w] = IF open[w] THEN Append(@, answer) ELSE @]
         /\ \/ answer \in {"ok", "bad"} /\ copies' = [copies EXCEPT ![Entry(w)] = @ + 1]
            \/ answer # "ok" /\ UNCHANGED copies
    /\ UNCHANGED <<queue, session, open, valid, late>>

DecideLate(e) ==
    /\ late[e] > 0
    /\ late' = [late EXCEPT ![e] = @ - 1]
    /\ \E n \in {0, 1} : copies' = [copies EXCEPT ![e] = @ + n]
    /\ UNCHANGED <<queue, session, wire, open, valid, body>>

Next ==
    \/ \E e \in Entries : Enqueue(e) \/ DecideLate(e) \/ \E w \in Workers : Claim(w, e)
    \/ \E w \in Workers : Deliver(w) \/ Drop(w) \/ DecideBody(w)

Spec == Init /\ [][Next]_vars

\* connectTimeoutMs and commandTimeoutMs end every wait for the server but the handshake;
\* nothing ends that one, nor the callbacks of the deployment.
FairSpec == Spec /\ \A w \in Workers : WF_vars(Timed(w))
-----------------------------------------------------------------------------
(* Properties. *)

\* Every variable holds a value of its type, and no entry is claimed more often
\* than maxAttempts allows (claim counts, defer decides).
TypeOK ==
    /\ state \in [Entries -> States] /\ reason \in [Entries -> Reasons]
    /\ attempts \in [Entries -> 0 .. MaxAttempts]
    /\ session \in [Workers -> Sessions]
    /\ \A w \in Workers : At(w) # "idle" => Entry(w) \in Entries
    /\ wire \in [Workers -> Seq(Answers)] /\ open \in [Workers -> BOOLEAN]
    /\ valid \in [Workers -> SUBSET (1 .. Recipients)]
    /\ body \in [Workers -> BOOLEAN] /\ late \in [Entries -> Nat]
    /\ copies \in [Entries -> Nat]

\* The message is sent only after every earlier answer has been read: a late
\* answer to a recipient is never taken for the answer to the message.
BodyAnswerIsItsOwn ==
    \A w \in Workers : At(w) \in {"body", "body-answer"} =>
        IF At(w) = "body" \/ body[w] THEN wire[w] = <<>> ELSE Len(wire[w]) <= 1

\* An entry is in one session at most: it is never submitted by two workers.
OneSessionPerEntry ==
    \A v, w \in Workers : At(v) # "idle" /\ At(w) # "idle" /\ Entry(v) = Entry(w) => v = w

\* Deliver at most once, and tell the truth about it: the queue with its workers
\* implements MailSubmission, with the queue's states before a verdict as "pending".
Submission == INSTANCE MailSubmission WITH
    fate <- [e \in Entries |-> IF state[e] \in Settled THEN state[e] ELSE "pending"],
    taken <- [e \in Entries |-> copies[e] > 0]
ImplementsSubmission == Submission!Spec

\* A message is taken once.
TakenOnce == \A e \in Entries : copies[e] <= 1

=============================================================================
