------------------------------ MODULE WebClient ------------------------------
(***************************************************************************)
(* The page of web/src/app.ts in one browser tab: the sign-in steps, the    *)
(* CSRF token it holds, its event stream, the timer that stands in for IMAP *)
(* IDLE, and the message list.  Every handler sends a request and goes on   *)
(* when the answer comes; answers come in any order, late, or not at all,   *)
(* and none says to which sign-in it belongs.                               *)
(*                                                                         *)
(* The server is as far here as the page can see it: the session of the     *)
(* browser's cookie, the challenges and the tokens it would accept.  A      *)
(* session, a challenge and a token are numbers in the order of issue, and  *)
(* the requests under way with their answers are a bag: how often of each.  *)
(* `disturbed` is history: an answer of an earlier sign-in was applied, or  *)
(* that of a change that was made never came.                               *)
(***************************************************************************)
EXTENDS Naturals, FiniteSets

CONSTANTS
    MaxIssued, MaxRequests          \* bounds: sessions, challenges and tokens; requests under way

VARIABLES page, request, server, disturbed

vars == <<page, request, server, disturbed>>

Ids == 0 .. MaxIssued

Kinds == {"session", "login", "verify", "logout", "change", "folder", "idle"}
Outcomes == {"none", "refused", "spent", "done", "session", "challenge", "token", "messages"}
Answers == [outcome : Outcomes, session : Ids, token : Ids, codes : BOOLEAN]
NoAnswer == [outcome |-> "none", session |-> 0, token |-> 0, codes |-> FALSE]

RequestRecords == [kind : Kinds, proof : Ids, answer : Answers, outlived : BOOLEAN]

Pages == [authentication : {"checking", "signed-in", "signed-out"},
          step : {"password", "mfa", "recovery"},
          challenge : Ids, pending : Answers,           \* state.mfa
          csrfToken : Ids, account : Ids, messages : Ids, busy : BOOLEAN,
          eventStream : BOOLEAN, streams : 0 .. 2,      \* the one it knows, and those open
          idle : {"unknown", "yes", "no"},
          timer : BOOLEAN, timers : 0 .. 2]             \* the one it knows, and those that run

Copies(requests, r) == IF r \in DOMAIN requests THEN requests[r] ELSE 0
Add(requests, r) ==
    [q \in DOMAIN requests \cup {r} |-> Copies(requests, q) + (IF q = r THEN 1 ELSE 0)]
Remove(requests, r) ==
    [q \in {q \in DOMAIN requests : q = r => requests[q] > 1} |->
        IF q = r THEN requests[q] - 1 ELSE requests[q]]

Send(requests, kind, proof) ==
    Add(requests, [kind |-> kind, proof |-> proof, answer |-> NoAnswer, outlived |-> FALSE])

Outlive(requests) ==
    [q \in {[r EXCEPT !.outlived = TRUE] : r \in DOMAIN requests} |->
        Copies(requests, q) + Copies(requests, [q EXCEPT !.outlived = FALSE])]

Room(requests) ==
    MaxRequests - Cardinality({rn \in (DOMAIN requests) \X (1 .. MaxRequests) : rn[2] <= requests[rn[1]]})

Waiting(kinds) == \E r \in DOMAIN request : r.kind \in kinds

\* start: the browser may still hold the cookie of a session.
Init ==
    /\ page = [authentication |-> "checking", step |-> "password",
               challenge |-> 0, pending |-> NoAnswer, csrfToken |-> 0, account |-> 0,
               messages |-> 0, busy |-> TRUE, eventStream |-> FALSE, streams |-> 0,
               idle |-> "unknown", timer |-> FALSE, timers |-> 0]
    /\ request = Send([q \in {} |-> 0], "session", 0)
    /\ \E s \in 0 .. 1 : server = [session |-> s, challenges |-> {}, tokens |-> {}, issued |-> s]
    /\ disturbed = FALSE
-----------------------------------------------------------------------------
(* What the handlers do with the page. *)

StopMailAutoRefresh(p) ==
    [p EXCEPT !.timer = FALSE, !.timers = IF p.timer THEN @ - 1 ELSE @]

\* Mutant: the timer that runs is forgotten instead of cleared.
ApplyMailAutoRefreshAgain(p) ==
    IF p.idle # "no" THEN StopMailAutoRefresh(p)
    ELSE [p EXCEPT !.timer = TRUE, !.timers = IF @ = 2 THEN @ ELSE @ + 1]

ApplyMailAutoRefresh(p) ==
    LET q == StopMailAutoRefresh(p)
    IN  IF q.idle # "no" THEN q ELSE [q EXCEPT !.timer = TRUE, !.timers = @ + 1]

\* Mutant: a second entry opens a second stream.
StartEventStreamAgain(p) ==
    [p EXCEPT !.eventStream = TRUE, !.streams = IF @ = 2 THEN @ ELSE @ + 1]

StartEventStream(p) ==
    IF p.eventStream THEN p ELSE [p EXCEPT !.eventStream = TRUE, !.streams = @ + 1]

ShowLogin(p) ==
    [StopMailAutoRefresh(p) EXCEPT
        !.authentication = "signed-out", !.step = "password", !.challenge = 0, !.pending = NoAnswer,
        !.account = 0, !.csrfToken = 0, !.busy = FALSE, !.idle = "unknown",
        !.eventStream = FALSE, !.streams = IF p.eventStream THEN @ - 1 ELSE @]

ShowMfa(p, answer) ==
    [p EXCEPT !.challenge = answer.session, !.pending = NoAnswer, !.busy = FALSE, !.step = "mfa"]

EnterWorkspace(p, answer) ==
    StartEventStream([p EXCEPT !.authentication = "signed-in", !.account = answer.session,
                               !.csrfToken = answer.token, !.busy = FALSE,
                               !.challenge = 0, !.pending = NoAnswer])

Ask(requests) == Send(Send(requests, "idle", 0), "folder", 0)
-----------------------------------------------------------------------------
(* What the user does, and the timer and the stream for him. *)

SignedIn == page.authentication = "signed-in"
At(step) == page.authentication = "signed-out" /\ page.step = step

SubmitLogin ==
    /\ At("password") /\ ~page.busy /\ Room(request) > 0
    /\ page' = [page EXCEPT !.busy = TRUE]
    /\ request' = Send(request, "login", 0)
    /\ UNCHANGED <<server, disturbed>>

\* The button stays enabled: the form may be sent again before the answer.
SubmitMfa ==
    /\ At("mfa") /\ Room(request) > 0
    /\ request' = Send(request, "verify", page.challenge)
    /\ UNCHANGED <<page, server, disturbed>>

CancelMfa ==
    /\ At("mfa")
    /\ page' = ShowLogin(page) /\ request' = Outlive(request)
    /\ UNCHANGED <<server, disturbed>>

FinishRecoveryStep ==
    /\ At("recovery") /\ Room(request) > 1
    /\ page' = EnterWorkspace(page, page.pending) /\ request' = Ask(request)
    /\ UNCHANGED <<server, disturbed>>

\* submitCompose and the archive button; logout.
SubmitWithToken(kind) ==
    /\ SignedIn /\ Room(request) > 0
    /\ request' = Send(request, kind, page.csrfToken)
    /\ UNCHANGED <<page, server, disturbed>>

LoadFolder ==
    /\ SignedIn \/ page.timers > 0 \/ page.streams > 0
    /\ Room(request) > 0 /\ ~Waiting({"folder"})       \* bound: one at a time
    /\ request' = Send(request, "folder", 0)
    /\ UNCHANGED <<page, server, disturbed>>

SubmitPreferences ==
    /\ SignedIn /\ page' = ApplyMailAutoRefresh(page)
    /\ UNCHANGED <<request, server, disturbed>>
-----------------------------------------------------------------------------
(* What the server answers (server.ts). *)

Next1 == server.issued + 1
\* What an answered request was sent with no longer matters.
Answered(r, answer) == request' = Add(Remove(request, r), [r EXCEPT !.answer = answer, !.proof = 0])
Refused(r) == Answered(r, [NoAnswer EXCEPT !.outcome = "refused"]) /\ UNCHANGED server

\* createAuthenticatedSession: the session of the cookie is replaced by the new one.
Begin(r, spent, codes) ==
    /\ server.issued < MaxIssued
    /\ server' = [session |-> Next1, challenges |-> server.challenges \ spent,
                  tokens |-> {Next1}, issued |-> Next1]
    /\ Answered(r, [outcome |-> "session", session |-> Next1, token |-> Next1, codes |-> codes])

HandleSession(r) ==
    IF server.session = 0 THEN Refused(r)
    ELSE /\ server.issued < MaxIssued
         /\ server' = [server EXCEPT !.tokens = @ \cup {Next1}, !.issued = Next1]
         /\ Answered(r, [outcome |-> "session", session |-> server.session, token |-> Next1,
                         codes |-> FALSE])

HandleLogin(r) ==
    \/ Refused(r)
    \/ Begin(r, {}, FALSE)
    \/ /\ server.issued < MaxIssued
       /\ server' = [server EXCEPT !.challenges = @ \cup {Next1}, !.issued = Next1]
       /\ Answered(r, [NoAnswer EXCEPT !.outcome = "challenge", !.session = Next1])

HandleVerify(r) ==
    LET challenge == r.proof
    IN  \/ challenge \in server.challenges /\ Refused(r)
        \/ /\ challenge \in server.challenges
           /\ \E codes \in BOOLEAN : Begin(r, {challenge}, codes)
        \/ /\ challenge \notin server.challenges /\ UNCHANGED server
           /\ Answered(r, [NoAnswer EXCEPT !.outcome = "spent"])

HandleLogout(r) ==
    IF r.proof \notin server.tokens THEN Refused(r)
    ELSE /\ server' = [server EXCEPT !.session = 0, !.tokens = {}]
         /\ Answered(r, [NoAnswer EXCEPT !.outcome = "done"])

\* A change that is made spends the token and brings the next one; one that fails spends nothing.
HandleChange(r) ==
    \/ Refused(r)
    \/ /\ r.proof \in server.tokens /\ server.issued < MaxIssued
       /\ server' = [server EXCEPT !.tokens = (@ \ {r.proof}) \cup {Next1}, !.issued = Next1]
       /\ Answered(r, [NoAnswer EXCEPT !.outcome = "token", !.token = Next1])

HandleFolder(r) ==
    \/ Refused(r)
    \/ /\ server.session # 0 /\ UNCHANGED server
       /\ Answered(r, [NoAnswer EXCEPT !.outcome = "messages", !.session = server.session])

Handle(r) ==
    /\ r.kind # "idle"           \* idle: its answer is chosen when it comes
    /\ r.answer = NoAnswer
    /\ CASE r.kind = "session" -> HandleSession(r)
         [] r.kind = "login" -> HandleLogin(r)
         [] r.kind = "verify" -> HandleVerify(r)
         [] r.kind = "logout" -> HandleLogout(r)
         [] r.kind = "change" -> HandleChange(r)
         [] r.kind = "folder" -> HandleFolder(r)
    /\ UNCHANGED <<page, disturbed>>

\* The session expires or is revoked elsewhere.
SessionEnds ==
    /\ server.session # 0
    /\ server' = [server EXCEPT !.session = 0, !.tokens = {}]
    /\ UNCHANGED <<page, request, disturbed>>

\* The connection fails, before the server saw the request or after: to the page an error too.
Lose(r) ==
    /\ r.kind # "idle" /\ r.answer.outcome # "refused"
    /\ Answered(r, [NoAnswer EXCEPT !.outcome = "refused"])
    /\ disturbed' = (disturbed \/ r.answer.outcome = "token")
    /\ UNCHANGED <<page, server>>
-----------------------------------------------------------------------------
(* The answer comes, and the handler goes on. *)

Becomes(p, requests) == page' = p /\ request' = requests

\* start, submitLogin
TakeSignIn(answer, rest) ==
    \/ /\ answer.outcome = "session" /\ Room(rest) > 1
       /\ Becomes(EnterWorkspace(page, answer), Ask(rest))
    \/ answer.outcome = "challenge" /\ Becomes(ShowMfa(page, answer), rest)
    \/ answer.outcome = "refused" /\ Becomes(ShowLogin(page), Outlive(rest))

\* submitMfa: codes are shown first, and the session waits for them.
TakeVerified(answer, rest) ==
    \/ /\ answer.outcome = "session" /\ ~answer.codes /\ Room(rest) > 1
       /\ Becomes(EnterWorkspace(page, answer), Ask(rest))
    \/ /\ answer.outcome = "session" /\ answer.codes
       /\ Becomes([page EXCEPT !.csrfToken = answer.token, !.step = "recovery",
                               !.challenge = 0, !.pending = answer], rest)
    \/ answer.outcome = "spent" /\ Becomes(ShowLogin(page), Outlive(rest))
    \/ answer.outcome = "refused" /\ Becomes(page, rest)

\* Logout is local whatever the server said.
TakeLogout(answer, rest) == Becomes(ShowLogin(page), Outlive(rest))

\* Mutant: the token that was spent is kept.
TakeChangeKeepingToken(answer, rest) ==
    Becomes(page, rest)

\* request takes the next token; the archive button loads the folder again.
TakeChange(answer, rest) ==
    /\ \/ request' = rest
       \/ answer.outcome = "token" /\ Room(rest) > 0 /\ request' = Send(rest, "folder", 0)
    /\ page' = IF answer.outcome = "token" THEN [page EXCEPT !.csrfToken = answer.token] ELSE page

TakeFolder(answer, rest) == Becomes([page EXCEPT !.messages = answer.session], rest)

\* checkImapIdleAvailability: an error counts as no.
TakeIdle(rest) ==
    \E idle \in {"yes", "no"} :
        Becomes(ApplyMailAutoRefresh([page EXCEPT !.idle = idle]), rest)

Take(r) ==
    LET answer == r.answer
        rest == Remove(request, r)
    IN  /\ \/ r.kind \in {"session", "login"} /\ TakeSignIn(answer, rest)
           \/ r.kind = "verify" /\ TakeVerified(answer, rest)
           \/ r.kind = "logout" /\ answer # NoAnswer /\ TakeLogout(answer, rest)
           \/ r.kind = "change" /\ answer # NoAnswer /\ TakeChange(answer, rest)
           \/ r.kind = "folder" /\ answer # NoAnswer /\ TakeFolder(answer, rest)
           \/ r.kind = "idle" /\ TakeIdle(rest)
        /\ disturbed' = (disturbed \/ r.outlived)
        /\ UNCHANGED server

Next ==
    \/ SubmitLogin \/ SubmitMfa \/ CancelMfa \/ FinishRecoveryStep
    \/ LoadFolder \/ SubmitPreferences \/ SessionEnds
    \/ \E kind \in {"change", "logout"} : SubmitWithToken(kind)
    \/ \E r \in DOMAIN request : Handle(r) \/ Lose(r) \/ Take(r)

Spec == Init /\ [][Next]_vars
-----------------------------------------------------------------------------
TypeOK ==
    /\ page \in Pages /\ DOMAIN request \subseteq RequestRecords /\ request \in [DOMAIN request -> Nat \ {0}]
    /\ server \in [session : Ids, challenges : SUBSET Ids, tokens : SUBSET Ids, issued : Ids]
    /\ disturbed \in BOOLEAN

\* The page holds what it shows: one stream while signed in and none otherwise, no timer but
\* the one it would clear and only where IDLE is not available, a form for every step, and a
\* sign-in button that is disabled only while an answer is outstanding (app.ts: showLogin,
\* enterWorkspace, startEventStream, applyMailAutoRefresh).
PageHoldsItsOwn ==
    /\ page.streams = (IF SignedIn THEN 1 ELSE 0) /\ (page.eventStream <=> SignedIn)
    /\ page.timers = (IF page.timer THEN 1 ELSE 0) /\ (page.timer => page.idle = "no")
    /\ page.timer /\ ~disturbed => SignedIn
    /\ At("mfa") => page.challenge # 0
    /\ At("recovery") => page.pending # NoAnswer
    /\ page.busy => Waiting({"session", "login"})

\* Unless an answer of an earlier sign-in was applied or that of a change was lost, a page at
\* rest holds a token the server accepts and shows the messages of its own account (app.ts:
\* request, setCsrfToken, loadFolder; server.ts: the token of the next change).
PageAgreesWithServer ==
    SignedIn /\ ~disturbed /\ server.session = page.account
             /\ ~Waiting(Kinds \ {"idle"})
        => /\ page.csrfToken \in server.tokens
           /\ page.messages \in {0, page.account}
=============================================================================
