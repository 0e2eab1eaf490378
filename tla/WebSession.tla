----------------------------- MODULE WebSession -----------------------------
(***************************************************************************)
(* Web sessions of one account: the session, CSRF token and mail credential *)
(* stores (src/web/security) and the routes of src/runtime/server.ts that   *)
(* use them: sign-in and its throttle, the session and logout routes, the   *)
(* CSRF check of a DAV write, and the mail changes (send, archive).         *)
(*                                                                         *)
(* A request runs without interruption up to its next await; the session is *)
(* looked up once, before the first one, and used after the last one.  A    *)
(* request may name any session and any token ever handed out: a browser    *)
(* has several tabs, and a slow one repeats what an earlier one sent.       *)
(*                                                                         *)
(* Every access drops what has expired, so here an entry goes when its time *)
(* is up.  The window of the sign-in throttle is left open: it may end at   *)
(* any time.  The second factor is the module MfaGate, the SMTP dialogue    *)
(* MailDelivery; here each is its verdict.  Requests that are refused       *)
(* before they change anything are no actions.  `answered` is history: what *)
(* a token has bought, a change, a DAV write or a logout.                   *)
(***************************************************************************)
EXTENDS Naturals, FiniteSets, TLC

CONSTANTS
    Calls,                      \* requests that wait for something
    SessionTtl, TokenTtl, MaxOutstanding,
    FailureLimit,                           \* LOGIN_FAILURE_LIMIT
    MaxSessions, MaxTokens, MaxTime         \* bounds

ASSUME SessionAssumption ==
    /\ SessionTtl \in Nat \ {0} /\ TokenTtl \in Nat \ {0} /\ MaxOutstanding \in Nat \ {0}
    /\ FailureLimit \in Nat \ {0}
    /\ MaxSessions \in Nat /\ MaxTokens \in Nat /\ MaxTime \in Nat

SessionIds == 1 .. MaxSessions      \* in the order of creation
Tokens == 1 .. MaxTokens            \* in the order of issue
NoSession == 0

VARIABLES now, session, token, credential, changing, failure, call, answered

stores == <<session, token, credential>>
vars == <<now, stores, changing, failure, call, answered>>

Sessions == [status : {"unused", "open", "closed"}, expiresAt : Nat]
TokenRecords == [session : SessionIds \cup {NoSession}, expiresAt : Nat,
                 status : {"unused", "usable", "gone"}]
UnusedSession == [status |-> "unused", expiresAt |-> 0]
ClosedSession == [status |-> "closed", expiresAt |-> 0]
UnusedToken == [session |-> NoSession, expiresAt |-> 0, status |-> "unused"]
GoneToken == [session |-> NoSession, expiresAt |-> 0, status |-> "gone"]

\* What a request keeps across its awaits.
CallRecords == [stage : {"idle", "verifying", "second factor", "reading", "sending",
                         "accepted", "moving"},
                session : SessionIds \cup {NoSession}, token : Tokens \cup {0},
                previous : Nat]         \* previousFailure.count, or 0
NoCall == [stage |-> "idle", session |-> NoSession, token |-> 0,
           previous |-> 0]

Init ==
    /\ now = 0
    /\ session = [s \in SessionIds |-> UnusedSession]
    /\ token = [t \in Tokens |-> UnusedToken]
    /\ credential = {}
    /\ changing = {}
    /\ failure = 0
    /\ call = [c \in Calls |-> NoCall]
    /\ answered = [t \in Tokens |-> 0]

-----------------------------------------------------------------------------
(* The stores. *)

First(ids) == CHOOSE i \in ids : \A j \in ids : i <= j

\* getActiveSession
Active(s) == s \in SessionIds /\ session[s].status = "open"

Bucket(tokens, s) == {t \in Tokens : tokens[t].session = s /\ tokens[t].status = "usable"}
UnusedTokens == {t \in Tokens : token[t].status = "unused"}

\* Mutant: the bucket is allowed one token too many.
EvictedLate(tokens, s) ==
    IF Cardinality(Bucket(tokens, s)) <= MaxOutstanding THEN {} ELSE {First(Bucket(tokens, s))}

\* issue: the oldest token of a full bucket is dropped.
Evicted(tokens, s) ==
    IF Cardinality(Bucket(tokens, s)) < MaxOutstanding THEN {} ELSE {First(Bucket(tokens, s))}

Spend(tokens, gone) == [t \in Tokens |-> IF t \in gone THEN GoneToken ELSE tokens[t]]

Issue(tokens, s) ==
    [Spend(tokens, Evicted(tokens, s)) EXCEPT ![First(UnusedTokens)] =
        [session |-> s, expiresAt |-> now + TokenTtl, status |-> "usable"]]

\* validate
Valid(s, t) == Active(s) /\ t \in Bucket(token, s)

\* logout and revokeSession
Closed(s) == [i \in SessionIds |-> IF i = s THEN ClosedSession ELSE session[i]]
Revoked(s) == Spend(token, Bucket(token, s))

\* Mutant: the password outlives the logout.
LogOutKeepingCredential(s) ==
    session' = Closed(s) /\ token' = Revoked(s) /\ UNCHANGED credential

LogOut(s) == session' = Closed(s) /\ token' = Revoked(s) /\ credential' = credential \ {s}

\* getActiveSession, removeExpired, sweep
Tick ==
    /\ now < MaxTime /\ now' = now + 1
    /\ LET over == {s \in SessionIds : Active(s) /\ now + 1 >= session[s].expiresAt} IN
         /\ session' = [s \in SessionIds |-> IF s \in over THEN ClosedSession ELSE session[s]]
         /\ token' = Spend(token, {t \in Tokens : \/ token[t].session \in over
                                                  \/ /\ token[t].status = "usable"
                                                     /\ now + 1 >= token[t].expiresAt})
         /\ credential' = credential \ over
    /\ UNCHANGED <<changing, failure, call, answered>>
-----------------------------------------------------------------------------
(* POST /api/session/login, and the completion of the second factor. *)

\* The failures so far are read, then the password goes to the directory.
SignIn(c, s) ==
    /\ call[c].stage = "idle" /\ failure < FailureLimit
    /\ s = NoSession \/ Active(s)
    /\ call' = [call EXCEPT ![c] = [NoCall EXCEPT !.stage = "verifying", !.session = s,
                                                  !.previous = failure]]
    /\ UNCHANGED <<now, stores, changing, failure, answered>>

\* The failure is counted from the copy.
PasswordRefused(c) ==
    /\ call[c].stage = "verifying"
    /\ failure' = call[c].previous + 1
    /\ call' = [call EXCEPT ![c] = NoCall]
    /\ UNCHANGED <<now, stores, changing, answered>>

\* LOGIN_FAILURE_WINDOW_MS after the first failure that is counted.
WindowEnds ==
    /\ failure > 0 /\ failure' = 0
    /\ UNCHANGED <<now, stores, changing, call, answered>>

\* The gate wants a second factor, or cannot ask for one (503).
SecondFactorDemanded(c) ==
    /\ call[c].stage = "verifying"
    /\ \/ /\ failure' = 0
          /\ call' = [call EXCEPT ![c] = [NoCall EXCEPT !.stage = "second factor"]]
       \/ /\ call' = [call EXCEPT ![c] = NoCall]
          /\ UNCHANGED failure
    /\ UNCHANGED <<now, stores, changing, answered>>

UnusedSessions == {s \in SessionIds : session[s].status = "unused"}

\* createSession, issue and mailCredentials.set, after the old session's logout.
Opened(old, new) ==
    /\ session' = [Closed(old) EXCEPT ![new] = [status |-> "open",
                                                expiresAt |-> now + SessionTtl]]
    /\ token' = Issue(Revoked(old), new)

\* startSession: it fails half way (401) for an identity that makes no tenant
\* context, and for a password of more bytes than the credential store takes.
StartSession(old, failureCleared) ==
    \/ /\ LogOut(old)
       /\ UNCHANGED failure
    \/ /\ UnusedSessions # {} /\ UnusedTokens # {}          \* bounds
       /\ LET new == First(UnusedSessions) IN
            /\ Opened(old, new)
            /\ \/ /\ credential' = (credential \ {old}) \cup {new}
                  /\ failure' = failureCleared
               \/ /\ credential' = credential \ {old}
                  /\ UNCHANGED failure

SignedIn(c) ==
    /\ call[c].stage = "verifying"
    /\ StartSession(call[c].session, 0)
    /\ call' = [call EXCEPT ![c] = NoCall]
    /\ UNCHANGED <<now, changing, answered>>

\* The last step of the challenge, in a request of its own; or it is given up.
SecondFactorShown(c, s) ==
    /\ call[c].stage = "second factor"
    /\ s = NoSession \/ Active(s)
    /\ \/ StartSession(s, failure)
       \/ UNCHANGED <<stores, failure>>
    /\ call' = [call EXCEPT ![c] = NoCall]
    /\ UNCHANGED <<now, changing, answered>>
-----------------------------------------------------------------------------
(* Routes that answer at once. *)

\* GET /api/session
SessionInfo(s) ==
    /\ Active(s) /\ UnusedTokens # {}       \* bound
    /\ token' = Issue(token, s)
    /\ UNCHANGED <<now, session, credential, changing, failure, call, answered>>

\* POST /api/session/logout
Logout(s, t) ==
    /\ Valid(s, t)
    /\ LogOut(s)
    /\ answered' = [answered EXCEPT ![t] = @ + 1]
    /\ UNCHANGED <<now, changing, failure, call>>

\* A DAV write that carries the session cookie spends its token first.
DavWrite(s, t) ==
    /\ Valid(s, t)
    /\ token' = Spend(token, {t})
    /\ answered' = [answered EXCEPT ![t] = @ + 1]
    /\ UNCHANGED <<now, session, credential, changing, failure, call>>
-----------------------------------------------------------------------------
(* POST /api/mail/send and POST /api/mail/messages/:id/archive. *)

Change == {"reading", "sending", "accepted", "moving"}

\* Mutant: the mark is set once the body has been read.
ChangeArrivesUnmarked(c, s, t) ==
    /\ call[c].stage = "idle" /\ Valid(s, t) /\ s \in credential \ changing
    /\ \E stage \in {"reading", "moving"} :
         /\ call' = [call EXCEPT ![c] = [NoCall EXCEPT !.stage = stage, !.session = s, !.token = t]]
         /\ changing' = IF stage = "moving" THEN changing \cup {s} ELSE changing
    /\ UNCHANGED <<now, stores, failure, answered>>

\* The token is checked and not spent, the session marked: 409 for a second one.
ChangeArrives(c, s, t) ==
    /\ call[c].stage = "idle" /\ Valid(s, t) /\ s \in credential \ changing
    /\ \E stage \in {"reading", "moving"} :
         call' = [call EXCEPT ![c] = [NoCall EXCEPT !.stage = stage, !.session = s, !.token = t]]
    /\ changing' = changing \cup {s}
    /\ UNCHANGED <<now, stores, failure, answered>>

\* finally
EndChange(c) ==
    /\ changing' = changing \ {call[c].session}
    /\ call' = [call EXCEPT ![c] = NoCall]
    /\ UNCHANGED <<now, session, credential, failure>>

\* The body does not arrive whole, or is no message.
InputRefused(c) ==
    /\ call[c].stage = "reading"
    /\ EndChange(c)
    /\ UNCHANGED <<token, answered>>

Submit(c) ==
    /\ call[c].stage = "reading"
    /\ call' = [call EXCEPT ![c].stage = "sending"]
    /\ UNCHANGED <<now, stores, changing, failure, answered>>

\* client.data() has returned: the message is on its way, QUIT is sent.
Accepted(c) ==
    /\ call[c].stage = "sending"
    /\ call' = [call EXCEPT ![c].stage = "accepted"]
    /\ UNCHANGED <<now, stores, changing, failure, answered>>

\* Refused, unreachable or without an answer: the token stays usable.  A QUIT
\* that is not answered ends here as well.
BackendFailed(c) ==
    /\ call[c].stage \in {"sending", "accepted", "moving"}
    /\ EndChange(c)
    /\ UNCHANGED <<token, answered>>

\* Mutant: the token that was checked on arrival is not checked again.
SpentUnchecked(c) ==
    /\ UnusedTokens # {}
    /\ token' = Issue(Spend(token, {call[c].token}), call[c].session)
    /\ answered' = [answered EXCEPT ![call[c].token] = @ + 1]

\* reply: spends the token and issues the next one, or throws (500).
Spent(c) ==
    IF Valid(call[c].session, call[c].token)
    THEN /\ UnusedTokens # {}               \* bound
         /\ token' = Issue(Spend(token, {call[c].token}), call[c].session)
         /\ answered' = [answered EXCEPT ![call[c].token] = @ + 1]
    ELSE UNCHANGED <<token, answered>>

\* QUIT is answered, or the message has been moved.
Done(c) ==
    /\ call[c].stage \in {"accepted", "moving"}
    /\ Spent(c)
    /\ EndChange(c)
-----------------------------------------------------------------------------
Step(c) ==
    \/ PasswordRefused(c) \/ SecondFactorDemanded(c) \/ SignedIn(c)
    \/ \E s \in SessionIds \cup {NoSession} : SecondFactorShown(c, s)
    \/ InputRefused(c) \/ Submit(c) \/ Accepted(c) \/ BackendFailed(c) \/ Done(c)

Arrive ==
    \/ \E c \in Calls, s \in SessionIds \cup {NoSession} : SignIn(c, s)
    \/ \E c \in Calls, s \in SessionIds, t \in Tokens : ChangeArrives(c, s, t)
    \/ \E s \in SessionIds : SessionInfo(s)
    \/ \E s \in SessionIds, t \in Tokens : Logout(s, t) \/ DavWrite(s, t)

Next == Tick \/ WindowEnds \/ Arrive \/ \E c \in Calls : Step(c)

Spec == Init /\ [][Next]_vars
-----------------------------------------------------------------------------
\* The shape of the stores, and the limit on the tokens a session has out
\* (maxOutstandingTokens).
TypeOK ==
    /\ now \in Nat
    /\ session \in [SessionIds -> Sessions]
    /\ token \in [Tokens -> TokenRecords]
    /\ credential \subseteq SessionIds
    /\ changing \subseteq SessionIds
    /\ failure \in 0 .. FailureLimit
    /\ call \in [Calls -> CallRecords]
    /\ answered \in [Tokens -> Nat]
    /\ \A s \in SessionIds : Cardinality(Bucket(token, s)) <= MaxOutstanding

\* "One change per session at a time, so a double click cannot send or move
\* twice" (handleRequest): no session has two changes under way, from arrival to
\* answer, and no early return or failure leaves a mark behind.
OneChangeAtATime ==
    /\ changing = {call[c].session : c \in {d \in Calls : call[d].stage \in Change}}
    /\ \A c, d \in Calls : call[c].stage \in Change /\ call[d].stage \in Change
                           /\ call[c].session = call[d].session => c = d

\* "CSRF tokens are single-use": whatever mail changes, DAV writes and logouts
\* overlap, one token buys one of them (validate, reply).
TokenBuysOnce == \A t \in Tokens : answered[t] <= 1

\* Tokens and the stored password end with their session: a change that is
\* answered after the logout leaves nothing behind (logout, startSession, reply).
NothingOutlivesSession ==
    /\ \A t \in Tokens : token[t].status = "usable" => Active(token[t].session)
    /\ \A s \in credential : Active(s)

\* The calls are interchangeable.
CallSymmetry == Permutations(Calls)
=============================================================================
