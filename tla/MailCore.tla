------------------------------- MODULE MailCore -------------------------------
(***************************************************************************)
(* A message on its way through the mail core (src/core/mail/mail-core.ts): *)
(* Rspamd, ClamAV, then quota, LMTP and the IDLE broker for one recipient   *)
(* after another, every step an await that may fail.  A scanner's verdict   *)
(* is normalised by its adapter and once more by the core                   *)
(* (mail-scanners.ts).                                                      *)
(*                                                                         *)
(* `resolved` is what the policy made of the recipients: a user who is      *)
(* named by his mailbox and by an alias is there twice.                     *)
(*                                                                         *)
(* And the status of a scanner's signatures                                 *)
(* (src/core/mail/scanner-signatures.ts): a reader reads the pointer, then  *)
(* the manifest it names, while the provider's job writes the next          *)
(* generation, moves the pointer to it by a rename and removes the old      *)
(* ones, all but one (doc/scanner-signature-volume.md).  The job is         *)
(* external; its clock may be ahead.  The two share no state.               *)
(***************************************************************************)
EXTENDS Naturals, FiniteSets, Sequences

CONSTANTS Members, MaxAge,
          MaxResolved, MaxGenerations, SignatureTime     \* bounds

VARIABLES path, resolved, message, manifest, active, reader, clock

\* What a scanner's endpoint can do; "ok" is a status, not an action.
RspamdReplies == {"accept", "no_action", "ok", "soft_reject", "reject", "quarantine",
                  "unavailable", "malformed", "fails", "missing"}
ClamAvReplies == {"clean", "infected", "unavailable", "malformed", "fails", "missing"}

Stages == {"rspamd", "clamav", "recipients", "reserved", "accepted", "answered"}
Answers == {"none", "delivered", "partial", "deferred", "rejected", "quarantined", "queued", "error"}
Queued == {"none", "scanner", "delivery", "submission"}
Messages == [stage : Stages, rspamd : RspamdReplies, clamav : ClamAvReplies, at : Nat,
             reserved : Seq(Members), delivered : Seq(Members), deferred : Seq(Members),
             notified : Seq(Members), queued : Queued, answer : Answers]

CoreInit ==
    /\ path \in {"inbound", "submission"}
    /\ resolved \in UNION {[1 .. n -> Members] : n \in 1 .. MaxResolved}
    /\ message = [stage |-> "rspamd", rspamd |-> "missing", clamav |-> "missing", at |-> 1,
                  reserved |-> <<>>, delivered |-> <<>>, deferred |-> <<>>, notified |-> <<>>,
                  queued |-> "none", answer |-> "none"]
-----------------------------------------------------------------------------
\* createRspamdScanner, normalizeRspamdVerdict
RspamdAction(reply) ==
    CASE reply \in {"malformed", "fails", "missing"} -> "unavailable"
      [] reply = "ok" -> "accept"
      [] OTHER -> reply

\* Mutant: only an answer that says so counts as unavailable.
ClamAvStatusOpen(reply) == IF reply \in {"malformed", "fails", "missing"} THEN "clean" ELSE reply

\* createClamAvScanner, normalizeClamAvVerdict
ClamAvStatus(reply) == IF reply \in {"malformed", "fails", "missing"} THEN "unavailable" ELSE reply

At(stage) == message.stage = stage
Become(m) == message' = m /\ UNCHANGED <<path, resolved>>
Answer(m, answer) == [m EXCEPT !.stage = "answered", !.answer = answer]

\* What deferring means: inbound mail is queued, a submission goes back to the client.
Deferred(m) ==
    IF path = "inbound" THEN Answer([m EXCEPT !.queued = "scanner"], "deferred") ELSE Answer(m, "deferred")

\* scan, first half
ScanRspamd(reply) ==
    LET action == RspamdAction(reply)
        m == [message EXCEPT !.rspamd = reply]
    IN  /\ At("rspamd")
        /\ Become(CASE action = "reject" -> Answer(m, "rejected")
                    [] action = "quarantine" -> Answer(m, "quarantined")
                    [] action \in {"soft_reject", "unavailable"} -> Deferred(m)
                    [] OTHER -> [m EXCEPT !.stage = "clamav"])

\* scan, second half; a clean submission is queued, inbound mail is delivered.
ScanClamAv(reply) ==
    LET status == ClamAvStatus(reply)
        m == [message EXCEPT !.clamav = reply]
    IN  /\ At("clamav")
        /\ Become(CASE status = "infected" -> Answer(m, "quarantined")
                    [] status = "unavailable" -> Deferred(m)
                    [] status = "clean" /\ path = "submission" -> Answer([m EXCEPT !.queued = "submission"], "queued")
                    [] OTHER -> [m EXCEPT !.stage = "recipients"])
-----------------------------------------------------------------------------
(* receiveInbound: one recipient after another. *)

Recipient == resolved[message.at]
More == At("recipients") /\ message.at <= Len(resolved)
NextOne(m) == [m EXCEPT !.at = @ + 1, !.stage = "recipients"]

Reserve ==
    /\ More
    /\ Become([message EXCEPT !.reserved = Append(@, Recipient), !.stage = "reserved"])

\* Over quota, or the quota store fails: what follows is not tried.
ReserveFails == More /\ Become(Answer(message, "error"))

LmtpTakes ==
    /\ At("reserved")
    /\ Become([message EXCEPT !.delivered = Append(@, Recipient), !.stage = "accepted"])

LmtpDefers ==
    /\ At("reserved")
    /\ Become(NextOne([message EXCEPT !.deferred = Append(@, Recipient)]))

\* A failure for good, or an exception.
LmtpFails(answer) == At("reserved") /\ Become(Answer(message, answer))

Notify ==
    /\ At("accepted")
    /\ Become(NextOne([message EXCEPT !.notified = Append(@, Recipient)]))

\* A subscriber's callback throws.
NotifyFails == At("accepted") /\ Become(Answer(message, "error"))

\* Mutant: what was put off is forgotten when something was delivered.
FinishedForgetting(m) ==
    IF m.delivered # <<>> THEN Answer(m, "delivered")
    ELSE Answer([m EXCEPT !.queued = "delivery"], "deferred")

\* The queue entry names every recipient, those who have the message included.
Finished(m) ==
    IF m.deferred = <<>> THEN Answer(m, "delivered")
    ELSE Answer([m EXCEPT !.queued = "delivery"], IF m.delivered # <<>> THEN "partial" ELSE "deferred")

Finish ==
    /\ At("recipients") /\ message.at > Len(resolved)
    /\ Become(Finished(message))

CoreNext ==
    \/ \E reply \in RspamdReplies : ScanRspamd(reply)
    \/ \E reply \in ClamAvReplies : ScanClamAv(reply)
    \/ Reserve \/ ReserveFails
    \/ LmtpTakes \/ LmtpDefers \/ \E answer \in {"rejected", "error"} : LmtpFails(answer)
    \/ Notify \/ NotifyFails \/ Finish

-----------------------------------------------------------------------------
CoreTypeOK == message \in Messages /\ path \in {"inbound", "submission"} /\ resolved \in Seq(Members)

\* What a sequence begins with, element by element.
Begins(s, t) == Len(s) <= Len(t) /\ \A i \in 1 .. Len(s) : s[i] = t[i]

Clean == message.rspamd \in {"accept", "no_action", "ok"} /\ message.clamav = "clean"

\* Nothing is kept anywhere, reserved, delivered or queued for submission, that both scanners
\* did not answer for; of what is delivered, room was reserved for it before; subscribers hear
\* of nothing else; and unless the call fails, every recipient has the message once for each
\* time he was named or it is queued (mail-core.ts: scan, receiveInbound, submit).
MessageAccounted ==
    /\ message.reserved # <<>> \/ message.queued \in {"delivery", "submission"} => Clean
    /\ Len(message.delivered) <= Len(message.reserved)
    /\ Begins(message.reserved, resolved) /\ Begins(message.notified, message.delivered)
    /\ message.answer = "delivered" =>
           message.delivered = resolved /\ message.notified = resolved /\ message.queued = "none"
    /\ message.answer \in {"partial", "deferred"} /\ path = "inbound" =>
           message.queued # "none" /\ message.notified = message.delivered
    /\ message.answer \in {"rejected", "quarantined", "error"} => message.queued = "none"
    /\ At("answered") <=> message.answer # "none"
-----------------------------------------------------------------------------
(* The signatures of a scanner. *)

Generations == 1 .. MaxGenerations
NoGeneration == 0
Absent == [state |-> "absent", publishedAt |-> 0]
Manifests == [state : {"absent", "partial", "whole"}, publishedAt : 0 .. SignatureTime + 1]
Statuses == {"none", "ready", "stale", "invalid", "missing"}

\* `activations` is history: how often the pointer moved since the reader read it.
Readers == [stage : {"idle", "pointer"}, pointer : 0 .. MaxGenerations, status : Statuses,
            readAt : 0 .. SignatureTime, activations : 0 .. MaxGenerations]

SignatureInit ==
    /\ manifest = [g \in Generations |-> Absent] /\ clock = 0
    /\ active = [current |-> NoGeneration, previous |-> NoGeneration]
    /\ reader = [stage |-> "idle", pointer |-> NoGeneration, status |-> "none",
                 readAt |-> 0, activations |-> 0]
-----------------------------------------------------------------------------
\* The job writes a generation, and may stop in the middle of it.
Write(g) ==
    /\ manifest[g].state = "absent" /\ g > active.current
    /\ \A older \in active.current + 1 .. g - 1 : manifest[older] # Absent
    /\ manifest' = [manifest EXCEPT ![g].state = "partial"]
    /\ UNCHANGED <<active, reader, clock>>

Complete(g) ==
    /\ manifest[g].state = "partial"
    /\ \E ahead \in 0 .. 1 : manifest' = [manifest EXCEPT ![g] = [state |-> "whole", publishedAt |-> clock + ahead]]
    /\ UNCHANGED <<active, reader, clock>>

Activate(g) ==
    /\ manifest[g].state = "whole" /\ g > active.current
    /\ active' = [current |-> g, previous |-> active.current]
    /\ reader' = [reader EXCEPT !.activations = IF reader.stage = "pointer" THEN @ + 1 ELSE @]
    /\ UNCHANGED <<manifest, clock>>

\* All but the active generation and the one that was active before it.
Collect(g) ==
    /\ g < active.current /\ g # active.previous
    /\ manifest' = [manifest EXCEPT ![g] = Absent]
    /\ UNCHANGED <<active, reader, clock>>

SignatureTick == clock < SignatureTime /\ clock' = clock + 1 /\ UNCHANGED <<manifest, active, reader>>
-----------------------------------------------------------------------------
(* readScannerSignatureStatus *)

ReadPointer ==
    /\ reader.stage = "idle"
    /\ reader' = IF active.current = NoGeneration
                 THEN [reader EXCEPT !.status = "missing", !.pointer = NoGeneration, !.readAt = clock]
                 ELSE [reader EXCEPT !.stage = "pointer", !.status = "none", !.pointer = active.current,
                                     !.activations = 0]
    /\ UNCHANGED <<manifest, active, clock>>

\* Mutant: what is published in the future has no age.
StatusClamped(m) == IF m.publishedAt <= clock /\ clock - m.publishedAt > MaxAge THEN "stale" ELSE "ready"

\* createScannerSignatureStatus
Status(m) ==
    IF m.publishedAt > clock \/ clock - m.publishedAt > MaxAge THEN "stale" ELSE "ready"

ReadManifest ==
    LET m == manifest[reader.pointer]
    IN  /\ reader.stage = "pointer"
        /\ reader' = [reader EXCEPT !.stage = "idle", !.readAt = clock,
                          !.status = CASE m.state = "absent" -> "missing"
                                       [] m.state = "partial" -> "invalid"
                                       [] OTHER -> Status(m)]
        /\ UNCHANGED <<manifest, active, clock>>

SignatureNext ==
    \/ \E g \in Generations : Write(g) \/ Complete(g) \/ Activate(g) \/ Collect(g)
    \/ SignatureTick \/ ReadPointer \/ ReadManifest
-----------------------------------------------------------------------------
SignatureTypeOK ==
    /\ manifest \in [Generations -> Manifests]
    /\ active \in [current : 0 .. MaxGenerations, previous : 0 .. MaxGenerations]
    /\ reader \in Readers /\ clock \in 0 .. SignatureTime

\* A reader is never shown a generation that is being written, and misses one that was active
\* only when the pointer moved twice under it; what it calls ready was published, no longer ago
\* than signatures may be old, and not in the future (scanner-signatures.ts).
StatusIsTrue ==
    reader.stage = "idle" =>
        /\ reader.status # "invalid"
        /\ reader.status = "missing" => reader.pointer = NoGeneration \/ reader.activations > 1
        /\ reader.status = "ready" =>
               LET m == manifest[reader.pointer]
               IN  m.state = "absent" \/ (m.state = "whole" /\ m.publishedAt <= reader.readAt
                                          /\ reader.readAt - m.publishedAt <= MaxAge)
=============================================================================
