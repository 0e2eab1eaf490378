-------------------------- MODULE WebSessionProofs --------------------------
(***************************************************************************)
(* Proofs about WebSession for any number of requests, sessions and tokens. *)
(* The inductive invariant IInv adds to the three properties the types, and *)
(* that no answer has been bought with a token that can still be spent.     *)
(***************************************************************************)
EXTENDS WebSession, TLAPS, FiniteSetTheorems, WellFoundedInduction

Typed ==
    /\ session \in [SessionIds -> Sessions]
    /\ token \in [Tokens -> TokenRecords]
    /\ credential \subseteq SessionIds
    /\ changing \subseteq SessionIds
    /\ call \in [Calls -> CallRecords]
    /\ answered \in [Tokens -> Nat]
    /\ failure \in Nat
    /\ now \in Nat

\* A change under way names a session and a token.
Named == \A c \in Calls : call[c].stage \in Change =>
            call[c].session \in SessionIds /\ call[c].token \in Tokens

Unspent == \A t \in Tokens : token[t].status # "gone" => answered[t] = 0

IInv == Typed /\ Named /\ Unspent /\ OneChangeAtATime /\ TokenBuysOnce /\ NothingOutlivesSession

USE SessionAssumption
-----------------------------------------------------------------------------
(* The stores. *)

\* The first of some identifiers is one of them.
LEMMA FirstIsMember ==
    ASSUME NEW S, S # {}, S \subseteq Nat
    PROVE  First(S) \in S
<1> DEFINE R == {p \in Nat \X Nat : p[1] < p[2]}
<1>1. IsWellFoundedOn(R, Nat)
  BY NatLessThanWellFounded DEF OpToRel
<1>2. PICK f \in S : \A g \in S : <<g, f>> \notin R
  BY <1>1, WFMin
<1>3. \A g \in S : ~(g < f)
  BY <1>2
<1>4. \A g \in S : f <= g
  BY <1>3
<1> QED BY <1>4 DEF First

\* What spending does to a well-typed store.
LEMMA SpendFacts ==
    ASSUME NEW toks \in [Tokens -> TokenRecords], NEW gone
    PROVE  /\ Spend(toks, gone) \in [Tokens -> TokenRecords]
           /\ \A t \in Tokens : Spend(toks, gone)[t] = IF t \in gone THEN GoneToken ELSE toks[t]
BY DEF Spend, TokenRecords, GoneToken, NoSession

\* Issuing hands out a token that was never used, and may only take others away.
LEMMA IssueFacts ==
    ASSUME Typed, NEW toks \in [Tokens -> TokenRecords], NEW s \in SessionIds, UnusedTokens # {}
    PROVE  /\ Issue(toks, s) \in [Tokens -> TokenRecords]
           /\ \E n \in UnusedTokens :
                /\ Issue(toks, s)[n].session = s
                /\ Issue(toks, s)[n].status = "usable"
                /\ \A t \in Tokens \ {n} :
                     Issue(toks, s)[t] = toks[t] \/ Issue(toks, s)[t] = GoneToken
<1> DEFINE n == First(UnusedTokens)
           new == [session |-> s, expiresAt |-> now + TokenTtl, status |-> "usable"]
           kept == Spend(toks, Evicted(toks, s))
<1>0. UnusedTokens \subseteq Nat /\ UnusedTokens \subseteq Tokens
  BY DEF UnusedTokens, Tokens
<1>1. n \in UnusedTokens /\ n \in Tokens
  BY <1>0, FirstIsMember
<1>2. new \in TokenRecords
  BY DEF Typed, TokenRecords
<1>3. kept \in [Tokens -> TokenRecords] /\ \A t \in Tokens : kept[t] = toks[t] \/ kept[t] = GoneToken
  BY SpendFacts
<1>4. Issue(toks, s) = [kept EXCEPT ![n] = new]
  BY DEF Issue
<1> HIDE DEF kept, n
<1>5. Issue(toks, s)[n] = new
  BY <1>1, <1>3, <1>4
<1>6. Issue(toks, s) \in [Tokens -> TokenRecords]
  BY <1>1, <1>2, <1>3, <1>4
<1>7. \A t \in Tokens \ {n} : Issue(toks, s)[t] = kept[t]
  BY <1>1, <1>3, <1>4
<1> QED BY <1>1, <1>3, <1>5, <1>6, <1>7
-----------------------------------------------------------------------------
(* What a step may do to the stores, each part on its own. *)

\* Tokens are dropped, or one that was never used is issued to a session.
Issuing(s) ==
    \E n \in UnusedTokens :
        /\ token'[n].session = s /\ token'[n].status = "usable"
        /\ \A t \in Tokens \ {n} : token'[t] = token[t] \/ token'[t] = GoneToken
Dropping == \A t \in Tokens : token'[t] = token[t] \/ token'[t] = GoneToken

\* Dropping tokens, or issuing one, keeps the unspent ones unspent.
LEMMA UnspentKept ==
    ASSUME IInv, token' \in [Tokens -> TokenRecords], UNCHANGED answered,
           Dropping \/ \E s \in SessionIds : Issuing(s)
    PROVE  Unspent' /\ TokenBuysOnce'
BY DEF IInv, Unspent, TokenBuysOnce, Issuing, Dropping, UnusedTokens, GoneToken, Typed

\* A token that buys an answer was unspent, and is gone afterwards.
LEMMA BuyingOnce ==
    ASSUME IInv, NEW b \in Tokens, token[b].status = "usable",
           token' \in [Tokens -> TokenRecords], token'[b] = GoneToken,
           answered' = [answered EXCEPT ![b] = @ + 1],
           Dropping \/ \E s \in SessionIds : Issuing(s)
    PROVE  Unspent' /\ TokenBuysOnce' /\ answered' \in [Tokens -> Nat]
<1>1. answered[b] = 0 /\ answered \in [Tokens -> Nat]
  BY DEF IInv, Unspent, Typed
<1>2. \A t \in Tokens : answered'[t] = IF t = b THEN 1 ELSE answered[t]
  BY <1>1
<1>3. TokenBuysOnce' /\ answered' \in [Tokens -> Nat]
  BY <1>1, <1>2 DEF IInv, TokenBuysOnce
<1>4. Unspent'
  BY <1>2 DEF IInv, Unspent, Issuing, Dropping, UnusedTokens, GoneToken
<1> QED BY <1>3, <1>4

\* A session that ends takes its tokens and its password with it.
LEMMA LogOutFacts ==
    ASSUME IInv, NEW s \in SessionIds \cup {NoSession}, LogOut(s)
    PROVE  /\ session' \in [SessionIds -> Sessions] /\ token' \in [Tokens -> TokenRecords]
           /\ credential' \subseteq SessionIds /\ Dropping /\ NothingOutlivesSession'
           /\ \A t \in Tokens : token[t].status = "usable" /\ token[t].session = s
                               => token'[t] = GoneToken
<1>1. session' \in [SessionIds -> Sessions]
  BY DEF IInv, Typed, LogOut, Closed, Sessions, ClosedSession
<1>2. /\ token' \in [Tokens -> TokenRecords]
      /\ \A t \in Tokens : token'[t] = IF t \in Bucket(token, s) THEN GoneToken ELSE token[t]
  BY SpendFacts DEF IInv, Typed, LogOut, Revoked
<1>3. \A i \in SessionIds : i # s => session'[i] = session[i]
  BY DEF LogOut, Closed
<1>4. NothingOutlivesSession'
  BY <1>2, <1>3 DEF IInv, NothingOutlivesSession, Active, LogOut, Bucket, GoneToken, Typed
<1> QED BY <1>1, <1>2, <1>4 DEF Dropping, Bucket, LogOut, IInv, Typed

\* Only these two touch calls and marks: nothing, or a call that is no change.
LEMMA NoChangeInvolved ==
    ASSUME IInv, NEW c \in Calls, NEW r \in CallRecords,
           call[c].stage \notin Change, r.stage \notin Change,
           call' = [call EXCEPT ![c] = r], UNCHANGED changing
    PROVE  OneChangeAtATime' /\ Named' /\ call' \in [Calls -> CallRecords]
<1>1. \A d \in Calls : call'[d] = IF d = c THEN r ELSE call[d]
  BY DEF IInv, Typed
<1>2. {d \in Calls : call'[d].stage \in Change} = {d \in Calls : call[d].stage \in Change}
  BY <1>1
<1>3. \A d \in Calls : call'[d].stage \in Change => call'[d] = call[d]
  BY <1>1
<1>4. OneChangeAtATime'
  BY <1>2, <1>3 DEF IInv, OneChangeAtATime
<1> QED BY <1>1, <1>3, <1>4 DEF IInv, Typed, Named

LEMMA SameChanges ==
    ASSUME IInv, UNCHANGED <<call, changing>>
    PROVE  OneChangeAtATime' /\ Named' /\ call' \in [Calls -> CallRecords]
                             /\ changing' \subseteq SessionIds
BY DEF IInv, OneChangeAtATime, Named, Typed

\* A change that ends takes its own mark away and nobody else's.
LEMMA EndChangeFacts ==
    ASSUME IInv, NEW c \in Calls, call[c].stage \in Change, EndChange(c)
    PROVE  OneChangeAtATime' /\ Named' /\ call' \in [Calls -> CallRecords]
                             /\ changing' \subseteq SessionIds
<1>1. \A d \in Calls : call'[d] = IF d = c THEN NoCall ELSE call[d]
  BY DEF IInv, Typed, EndChange
<1>2. NoCall \in CallRecords /\ NoCall.stage \notin Change
  BY DEF NoCall, CallRecords, Change, NoSession
<1>3. {d \in Calls : call'[d].stage \in Change} = {d \in Calls : call[d].stage \in Change} \ {c}
  BY <1>1, <1>2
<1>4. \A d \in Calls : call'[d].stage \in Change => d # c /\ call'[d] = call[d]
  BY <1>1, <1>2
<1>5. changing' = {call'[d].session : d \in {e \in Calls : call'[e].stage \in Change}}
  BY <1>3, <1>4 DEF IInv, OneChangeAtATime, EndChange
<1>6. OneChangeAtATime'
  BY <1>4, <1>5 DEF IInv, OneChangeAtATime
<1> QED BY <1>1, <1>2, <1>4, <1>6 DEF IInv, Typed, Named, EndChange

OpenNext(i) == i \in SessionIds /\ session'[i].status = "open"

\* A token that is issued to an open session belongs to one.
LEMMA IssuingFacts ==
    ASSUME IInv, NEW toks \in [Tokens -> TokenRecords], NEW s \in SessionIds, UnusedTokens # {},
           \A t \in Tokens : toks[t] = token[t] \/ toks[t] = GoneToken,
           \A t \in Tokens : toks[t].status = "usable" => OpenNext(toks[t].session),
           OpenNext(s), token' = Issue(toks, s)
    PROVE  /\ token' \in [Tokens -> TokenRecords] /\ Issuing(s)
           /\ \A t \in Tokens : token'[t].status = "usable" => OpenNext(token'[t].session)
<1>1. Typed
  BY DEF IInv
<1>2. /\ token' \in [Tokens -> TokenRecords]
      /\ \E n \in UnusedTokens :
           /\ token'[n].session = s /\ token'[n].status = "usable"
           /\ \A t \in Tokens \ {n} : token'[t] = toks[t] \/ token'[t] = GoneToken
  BY <1>1, IssueFacts
<1>3. \A t \in Tokens : token'[t].status = "usable" =>
         token'[t].session = s \/ token'[t] = toks[t]
  BY <1>2 DEF GoneToken
<1>5. \A t \in Tokens : token'[t].status = "usable" => OpenNext(token'[t].session)
  BY <1>3
<1> QED BY <1>2, <1>5 DEF Issuing

\* A new session starts with a token of its own, and the old one ends.
LEMMA StartSessionFacts ==
    ASSUME IInv, NEW s \in SessionIds \cup {NoSession}, NEW f \in Nat, StartSession(s, f)
    PROVE  /\ session' \in [SessionIds -> Sessions] /\ token' \in [Tokens -> TokenRecords]
           /\ credential' \subseteq SessionIds /\ failure' \in Nat /\ NothingOutlivesSession'
           /\ Dropping \/ \E i \in SessionIds : Issuing(i)
<1>1. CASE LogOut(s) /\ UNCHANGED failure
  BY <1>1, LogOutFacts DEF IInv, Typed
<1>2. ASSUME UnusedSessions # {}, UnusedTokens # {}, NEW new, new = First(UnusedSessions),
             Opened(s, new),
             \/ credential' = (credential \ {s}) \cup {new} /\ failure' = f
             \/ credential' = credential \ {s} /\ UNCHANGED failure
      PROVE  /\ session' \in [SessionIds -> Sessions] /\ token' \in [Tokens -> TokenRecords]
             /\ credential' \subseteq SessionIds /\ failure' \in Nat /\ NothingOutlivesSession'
             /\ \E i \in SessionIds : Issuing(i)
  <2>0. UnusedSessions \subseteq Nat
    BY DEF UnusedSessions, SessionIds
  <2>1. new \in SessionIds /\ session[new].status = "unused"
    BY <1>2, <2>0, FirstIsMember DEF UnusedSessions
  <2>2. Closed(s) \in [SessionIds -> Sessions]
        /\ \A i \in SessionIds : Closed(s)[i] = IF i = s THEN ClosedSession ELSE session[i]
    BY DEF IInv, Typed, Closed, Sessions, ClosedSession
  <2>3. /\ session' \in [SessionIds -> Sessions] /\ session'[new].status = "open"
        /\ \A i \in SessionIds \ {s, new} : session'[i] = session[i]
    BY <1>2, <2>1, <2>2 DEF Opened, Sessions, IInv, Typed
  <2>5. \A i \in SessionIds \ {s} : Active(i) => OpenNext(i)
    BY <2>1, <2>3 DEF Active, OpenNext
  <2>6. PICK toks \in [Tokens -> TokenRecords] :
          /\ toks = Revoked(s)
          /\ \A t \in Tokens : toks[t] = IF t \in Bucket(token, s) THEN GoneToken ELSE token[t]
    BY SpendFacts DEF IInv, Typed, Revoked
  <2>7. \A t \in Tokens : toks[t].status = "usable" =>
          toks[t] = token[t] /\ token[t].status = "usable" /\ token[t].session # s
    BY <2>6 DEF Bucket, GoneToken
  <2>8. \A t \in Tokens : toks[t].status = "usable" => OpenNext(toks[t].session)
    BY <2>5, <2>7 DEF IInv, NothingOutlivesSession, Active
  <2>9. token' = Issue(toks, new) /\ OpenNext(new)
    BY <1>2, <2>1, <2>3, <2>6 DEF Opened, OpenNext
  <2>10. /\ token' \in [Tokens -> TokenRecords] /\ Issuing(new)
         /\ \A t \in Tokens : token'[t].status = "usable" => OpenNext(token'[t].session)
    BY <1>2, <2>1, <2>6, <2>8, <2>9, IssuingFacts
  <2>11. credential' \subseteq SessionIds /\ \A i \in credential' : OpenNext(i)
    BY <1>2, <2>1, <2>5, <2>9 DEF IInv, Typed, NothingOutlivesSession
  <2>12. failure' \in Nat
    BY <1>2 DEF IInv, Typed
  <2> QED BY <2>1, <2>3, <2>10, <2>11, <2>12 DEF NothingOutlivesSession, OpenNext, Active
<1> QED BY <1>1, <1>2 DEF StartSession
-----------------------------------------------------------------------------
(* The inductive invariant. *)

LEMMA InitInv == Init => IInv
<1> SUFFICES ASSUME Init PROVE IInv
  OBVIOUS
<1>1. NoCall \in CallRecords /\ NoCall.stage \notin Change
  BY DEF NoCall, CallRecords, Change, NoSession
<1>2. UnusedSession \in Sessions /\ UnusedToken \in TokenRecords
  BY DEF UnusedSession, Sessions, UnusedToken, TokenRecords, NoSession
<1>3. Typed
  BY <1>1, <1>2 DEF Init, Typed
<1>4. Named /\ OneChangeAtATime
  BY <1>1 DEF Init, Named, OneChangeAtATime
<1>5. Unspent /\ TokenBuysOnce /\ NothingOutlivesSession
  BY DEF Init, Unspent, TokenBuysOnce, NothingOutlivesSession, UnusedToken
<1> QED BY <1>3, <1>4, <1>5 DEF IInv

\* The clock closes sessions together with what belongs to them.
LEMMA TickInv == ASSUME IInv, Tick PROVE IInv'
<1> PICK over \in SUBSET SessionIds :
        /\ over = {s \in SessionIds : Active(s) /\ now + 1 >= session[s].expiresAt}
        /\ session' = [s \in SessionIds |-> IF s \in over THEN ClosedSession ELSE session[s]]
        /\ token' = Spend(token, {t \in Tokens : \/ token[t].session \in over
                                                 \/ /\ token[t].status = "usable"
                                                    /\ now + 1 >= token[t].expiresAt})
        /\ credential' = credential \ over
  BY DEF Tick
<1>1. session' \in [SessionIds -> Sessions]
  BY DEF IInv, Typed, Sessions, ClosedSession
<1>2. /\ token' \in [Tokens -> TokenRecords] /\ Dropping
      /\ \A t \in Tokens : token[t].session \in over => token'[t] = GoneToken
  BY SpendFacts DEF IInv, Typed, Dropping
<1>3. NothingOutlivesSession'
  <2>1. \A s \in SessionIds : Active(s) /\ s \notin over => Active(s)'
    BY DEF Active
  <2>2. \A t \in Tokens : token'[t].status = "usable" =>
          token'[t] = token[t] /\ token[t].session \notin over /\ Active(token[t].session)
    <3>1. GoneToken.status # "usable"
      BY DEF GoneToken
    <3>2. \A t \in Tokens : token[t].status = "usable" => Active(token[t].session)
      BY DEF IInv, NothingOutlivesSession
    <3> QED BY <1>2, <3>1, <3>2 DEF Dropping
  <2>3. \A t \in Tokens : token'[t].status = "usable" => OpenNext(token'[t].session)
    BY <2>1, <2>2 DEF Active, OpenNext
  <2>4. \A s \in credential' : Active(s)'
    BY <2>1 DEF IInv, Typed, NothingOutlivesSession
  <2> QED BY <2>3, <2>4 DEF NothingOutlivesSession, OpenNext, Active
<1>4. Unspent' /\ TokenBuysOnce'
  BY <1>2, UnspentKept DEF Tick
<1>5. OneChangeAtATime' /\ Named'
  BY SameChanges DEF Tick
<1> QED BY <1>1, <1>2, <1>3, <1>4, <1>5 DEF IInv, Typed, Tick

\* The routes that answer at once.
LEMMA RouteInv ==
    ASSUME IInv, NEW s \in SessionIds, NEW t \in Tokens,
           SessionInfo(s) \/ Logout(s, t) \/ DavWrite(s, t)
    PROVE  IInv'
<1>0. Typed /\ GoneToken.status = "gone"
  BY DEF IInv, GoneToken
<1>1. CASE SessionInfo(s)
  <2>1. PICK toks \in [Tokens -> TokenRecords] : toks = token
    BY <1>0 DEF Typed
  <2>2. \A i : Active(i) <=> OpenNext(i)
    BY <1>1 DEF SessionInfo, Active, OpenNext
  <2>3. token' \in [Tokens -> TokenRecords] /\ Issuing(s)
        /\ \A u \in Tokens : token'[u].status = "usable" => OpenNext(token'[u].session)
    BY <1>1, <2>1, <2>2, IssuingFacts DEF SessionInfo, IInv, NothingOutlivesSession
  <2>4. Unspent' /\ TokenBuysOnce'
    BY <1>1, <2>3, UnspentKept DEF SessionInfo
  <2>5. NothingOutlivesSession'
    BY <1>1, <2>3 DEF SessionInfo, IInv, NothingOutlivesSession, OpenNext, Active
  <2> QED BY <1>1, <2>3, <2>4, <2>5, SameChanges DEF SessionInfo, IInv, Typed
<1>2. CASE Logout(s, t)
  <2>1. token[t].status = "usable" /\ token[t].session = s
    BY <1>2 DEF Logout, Valid, Bucket
  <2>2. /\ session' \in [SessionIds -> Sessions] /\ token' \in [Tokens -> TokenRecords]
        /\ credential' \subseteq SessionIds /\ Dropping /\ NothingOutlivesSession'
        /\ token'[t] = GoneToken
    BY <1>2, <2>1, LogOutFacts DEF Logout
  <2>3. Unspent' /\ TokenBuysOnce' /\ answered' \in [Tokens -> Nat]
    BY <1>2, <2>1, <2>2, BuyingOnce DEF Logout
  <2> QED BY <1>2, <2>2, <2>3, SameChanges DEF Logout, IInv, Typed
<1>3. CASE DavWrite(s, t)
  <2>1. token[t].status = "usable"
    BY <1>3 DEF DavWrite, Valid, Bucket
  <2>2. token' \in [Tokens -> TokenRecords] /\ Dropping /\ token'[t] = GoneToken
    BY <1>0, <1>3, SpendFacts DEF DavWrite, Typed, Dropping
  <2>3. Unspent' /\ TokenBuysOnce' /\ answered' \in [Tokens -> Nat]
    BY <1>3, <2>1, <2>2, BuyingOnce DEF DavWrite
  <2>4. NothingOutlivesSession'
    BY <1>0, <1>3, <2>2 DEF DavWrite, IInv, NothingOutlivesSession, Active, Dropping
  <2> QED BY <1>3, <2>2, <2>3, <2>4, SameChanges DEF DavWrite, IInv, Typed
<1> QED BY <1>1, <1>2, <1>3

\* Sign-in, up to the new session.
LEMMA SignInInv ==
    ASSUME IInv, NEW c \in Calls, NEW s \in SessionIds \cup {NoSession},
           \/ SignIn(c, s) \/ PasswordRefused(c) \/ SecondFactorDemanded(c)
           \/ SignedIn(c) \/ SecondFactorShown(c, s)
    PROVE  IInv'
<1>1. /\ call[c] \in CallRecords /\ NoCall \in CallRecords /\ NoCall.stage \notin Change
      /\ [NoCall EXCEPT !.stage = "second factor"] \in CallRecords
      /\ [NoCall EXCEPT !.stage = "verifying", !.session = s, !.previous = failure] \in CallRecords
  BY DEF IInv, Typed, NoCall, CallRecords, Change, NoSession
<1>2. call[c].session \in SessionIds \cup {NoSession} /\ call[c].previous \in Nat
  BY <1>1 DEF CallRecords
<1>3. PICK r \in CallRecords :
        /\ r.stage \in {"idle", "second factor", "verifying"}
        /\ call' = [call EXCEPT ![c] = r]
  <2>1. [NoCall EXCEPT !.stage = "second factor"].stage = "second factor"
        /\ [NoCall EXCEPT !.stage = "verifying", !.session = s, !.previous = failure].stage = "verifying"
        /\ NoCall.stage = "idle"
    BY DEF NoCall
  <2> QED BY <1>1, <2>1 DEF SignIn, PasswordRefused, SecondFactorDemanded, SignedIn, SecondFactorShown
<1>4. call[c].stage \notin Change /\ r.stage \notin Change /\ UNCHANGED changing
  BY <1>3 DEF SignIn, PasswordRefused, SecondFactorDemanded, SignedIn, SecondFactorShown, Change
<1>5. OneChangeAtATime' /\ Named' /\ call' \in [Calls -> CallRecords]
  BY <1>3, <1>4, NoChangeInvolved
<1>6. CASE UNCHANGED stores /\ failure' \in Nat /\ UNCHANGED <<now, answered>>
  <2>1. Unspent' /\ TokenBuysOnce'
    BY <1>6 DEF stores, IInv, Unspent, TokenBuysOnce
  <2>2. NothingOutlivesSession'
    BY <1>6 DEF stores, IInv, NothingOutlivesSession, Active
  <2> QED BY <1>4, <1>5, <1>6, <2>1, <2>2 DEF stores, IInv, Typed
<1>7. ASSUME NEW old \in SessionIds \cup {NoSession}, NEW f \in Nat, StartSession(old, f),
             UNCHANGED <<now, answered>>
      PROVE  IInv'
  <2>1. /\ session' \in [SessionIds -> Sessions] /\ token' \in [Tokens -> TokenRecords]
        /\ credential' \subseteq SessionIds /\ failure' \in Nat /\ NothingOutlivesSession'
        /\ Dropping \/ \E i \in SessionIds : Issuing(i)
    BY <1>7, StartSessionFacts
  <2>2. Unspent' /\ TokenBuysOnce'
    BY <1>7, <2>1, UnspentKept
  <2> QED BY <1>4, <1>5, <1>7, <2>1, <2>2 DEF IInv, Typed
<1>8. CASE SignIn(c, s) \/ PasswordRefused(c) \/ SecondFactorDemanded(c)
  <2>1. failure \in Nat
    BY DEF IInv, Typed
  <2>2. UNCHANGED <<now, stores, answered>>
    BY <1>8 DEF SignIn, PasswordRefused, SecondFactorDemanded, stores
  <2>3. failure' = failure \/ failure' = call[c].previous + 1 \/ failure' = 0
    BY <1>8 DEF SignIn, PasswordRefused, SecondFactorDemanded
  <2>4. failure' \in Nat
    BY <1>2, <2>1, <2>3
  <2> QED BY <1>6, <2>2, <2>4
<1>9. CASE SignedIn(c)
  <2>1. PICK old \in SessionIds \cup {NoSession} : old = call[c].session
    BY <1>2
  <2> QED BY <1>7, <1>9, <2>1 DEF SignedIn
<1>10. CASE SecondFactorShown(c, s)
  <2>1. PICK f \in Nat : f = failure
    BY DEF IInv, Typed
  <2>2. UNCHANGED <<stores, failure>> => failure' \in Nat
    BY <2>1
  <2> QED BY <1>6, <1>7, <1>10, <2>1, <2>2 DEF SecondFactorShown
<1> QED BY <1>8, <1>9, <1>10

\* A change, from its arrival to its answer.
LEMMA ChangeInv ==
    ASSUME IInv, NEW c \in Calls, NEW s \in SessionIds, NEW t \in Tokens,
           \/ ChangeArrives(c, s, t) \/ InputRefused(c) \/ Submit(c) \/ Accepted(c)
           \/ BackendFailed(c) \/ Done(c)
    PROVE  IInv'
<1>0. Typed /\ GoneToken.status = "gone" /\ call[c] \in CallRecords
  BY DEF IInv, GoneToken, Typed
<1>1. ASSUME UNCHANGED <<stores, answered, failure, now>>, OneChangeAtATime', Named',
             call' \in [Calls -> CallRecords], changing' \subseteq SessionIds
      PROVE  IInv'
  <2>1. Unspent' /\ TokenBuysOnce'
    BY <1>1 DEF stores, IInv, Unspent, TokenBuysOnce
  <2>2. NothingOutlivesSession'
    BY <1>1 DEF stores, IInv, NothingOutlivesSession, Active
  <2> QED BY <1>0, <1>1, <2>1, <2>2 DEF stores, IInv, Typed
<1>2. CASE ChangeArrives(c, s, t)
  <2>1. PICK r \in CallRecords : /\ r.stage \in Change /\ r.session = s /\ r.token = t
                                /\ call' = [call EXCEPT ![c] = r]
    <3>1. PICK stage \in {"reading", "moving"} :
            call' = [call EXCEPT ![c] = [NoCall EXCEPT !.stage = stage, !.session = s, !.token = t]]
      BY <1>2 DEF ChangeArrives
    <3> DEFINE r == [NoCall EXCEPT !.stage = stage, !.session = s, !.token = t]
    <3>2. r \in CallRecords /\ r.stage \in Change /\ r.session = s /\ r.token = t
      BY DEF NoCall, CallRecords, Change
    <3> QED BY <3>1, <3>2
  <2>2. \A d \in Calls : call'[d] = IF d = c THEN r ELSE call[d]
    BY <1>0, <2>1 DEF Typed
  <2>3. call[c].stage \notin Change /\ s \notin changing /\ changing' = changing \cup {s}
    BY <1>2 DEF ChangeArrives, Change
  <2>4. {d \in Calls : call'[d].stage \in Change}
          = {d \in Calls : call[d].stage \in Change} \cup {c}
    BY <2>1, <2>2
  <2>5. changing' = {call'[d].session : d \in {e \in Calls : call'[e].stage \in Change}}
    BY <2>1, <2>2, <2>3, <2>4 DEF IInv, OneChangeAtATime
  <2>6. \A d \in Calls : call[d].stage \in Change => call[d].session # s
    BY <2>3 DEF IInv, OneChangeAtATime
  <2>7. OneChangeAtATime'
    BY <2>1, <2>2, <2>3, <2>5, <2>6 DEF IInv, OneChangeAtATime
  <2>8. Named' /\ call' \in [Calls -> CallRecords]
    BY <1>0, <2>1, <2>2 DEF IInv, Named, Typed
  <2> QED BY <1>0, <1>1, <1>2, <2>3, <2>7, <2>8 DEF ChangeArrives, Typed
<1>3. ASSUME NEW stage \in {"sending", "accepted"}, call[c].stage \in Change,
             call' = [call EXCEPT ![c].stage = stage],
             UNCHANGED <<now, stores, changing, failure, answered>>
      PROVE  IInv'
  <2>1. \A d \in Calls : /\ call'[d] \in CallRecords /\ call'[d].session = call[d].session
                         /\ call'[d].token = call[d].token
                         /\ call'[d].stage \in Change <=> call[d].stage \in Change
    BY <1>0, <1>3 DEF Typed, CallRecords, Change
  <2>2. call' \in [Calls -> CallRecords]
    BY <1>0, <1>3, <2>1 DEF Typed
  <2>3. {d \in Calls : call'[d].stage \in Change} = {d \in Calls : call[d].stage \in Change}
    BY <2>1
  <2>4. OneChangeAtATime' /\ Named'
    BY <1>3, <2>1, <2>3 DEF IInv, OneChangeAtATime, Named
  <2> QED BY <1>0, <1>1, <1>3, <2>2, <2>4 DEF Typed
<1>4. CASE Submit(c) \/ Accepted(c)
  BY <1>3, <1>4 DEF Submit, Accepted, Change
<1>5. CASE InputRefused(c) \/ BackendFailed(c)
  <2>1. call[c].stage \in Change /\ EndChange(c) /\ UNCHANGED <<token, answered>>
    BY <1>5 DEF InputRefused, BackendFailed, Change
  <2> QED BY <1>1, <2>1, EndChangeFacts DEF EndChange, stores
<1>6. CASE Done(c)
  <2>1. call[c].stage \in Change /\ EndChange(c) /\ Spent(c)
    BY <1>6 DEF Done, Change
  <2>2. PICK i \in SessionIds, b \in Tokens : i = call[c].session /\ b = call[c].token
    BY <2>1 DEF IInv, Named
  <2>3. CASE ~Valid(i, b)
    BY <1>1, <2>1, <2>2, <2>3, EndChangeFacts DEF Spent, EndChange, stores
  <2>4. CASE Valid(i, b)
    <3>1. /\ Active(i) /\ token[b].status = "usable" /\ UnusedTokens # {}
          /\ token' = Issue(Spend(token, {b}), i)
          /\ answered' = [answered EXCEPT ![b] = @ + 1]
          /\ UNCHANGED <<now, session, credential, failure>>
      BY <2>1, <2>2, <2>4 DEF Spent, Valid, Bucket, EndChange
    <3>2. PICK toks \in [Tokens -> TokenRecords] :
            /\ toks = Spend(token, {b}) /\ toks[b] = GoneToken
            /\ \A u \in Tokens \ {b} : toks[u] = token[u]
      BY <1>0, SpendFacts DEF Typed
    <3>3. \A u : Active(u) <=> OpenNext(u)
      BY <3>1 DEF Active, OpenNext
    <3>4. \A u \in Tokens : toks[u].status = "usable" => OpenNext(toks[u].session)
      BY <1>0, <3>2, <3>3 DEF IInv, NothingOutlivesSession
    <3>5. /\ token' \in [Tokens -> TokenRecords] /\ Issuing(i)
          /\ \A u \in Tokens : token'[u].status = "usable" => OpenNext(token'[u].session)
      BY <3>1, <3>2, <3>3, <3>4, IssuingFacts
    <3>6. token'[b] = GoneToken
      <4>1. PICK n \in UnusedTokens :
              \A u \in Tokens \ {n} : token'[u] = toks[u] \/ token'[u] = GoneToken
        <5>1. token' = Issue(toks, i)
          BY <3>1, <3>2
        <5> HIDE DEF Issue
        <5> QED BY <1>0, <3>1, <5>1, IssueFacts
      <4> QED BY <3>1, <3>2, <4>1 DEF UnusedTokens
    <3>7. Unspent' /\ TokenBuysOnce' /\ answered' \in [Tokens -> Nat]
      BY <3>1, <3>5, <3>6, BuyingOnce
    <3>8. NothingOutlivesSession'
      BY <3>1, <3>5 DEF IInv, NothingOutlivesSession, OpenNext, Active
    <3> QED BY <1>0, <2>1, <3>1, <3>5, <3>7, <3>8, EndChangeFacts DEF IInv, Typed
  <2> QED BY <2>3, <2>4
<1> QED BY <1>2, <1>4, <1>5, <1>6

LEMMA NextInv == IInv /\ [Next]_vars => IInv'
<1> SUFFICES ASSUME IInv, [Next]_vars PROVE IInv'
  OBVIOUS
<1>1. CASE Tick
  BY <1>1, TickInv
<1>2. CASE UNCHANGED vars \/ WindowEnds
  <2>1. UNCHANGED <<now, stores, changing, call, answered>> /\ failure' \in Nat
    BY <1>2 DEF vars, WindowEnds, IInv, Typed
  <2>2. Typed' /\ Unspent' /\ TokenBuysOnce' /\ NothingOutlivesSession'
    BY <2>1 DEF stores, IInv, Typed, Unspent, TokenBuysOnce, NothingOutlivesSession, Active
  <2> QED BY <2>1, <2>2, SameChanges DEF IInv
<1>3. CASE Arrive
  <2>1. ASSUME NEW c \in Calls, NEW s \in SessionIds \cup {NoSession}, SignIn(c, s)
        PROVE  IInv'
    BY <2>1, SignInInv
  <2>2. ASSUME NEW c \in Calls, NEW s \in SessionIds, NEW t \in Tokens, ChangeArrives(c, s, t)
        PROVE  IInv'
    BY <2>2, ChangeInv
  <2>3. ASSUME NEW s \in SessionIds, SessionInfo(s)
        PROVE  IInv'
    <3>1. PICK t : t \in Tokens
      BY <2>3 DEF SessionInfo, UnusedTokens
    <3> QED BY <2>3, <3>1, RouteInv
  <2>4. ASSUME NEW s \in SessionIds, NEW t \in Tokens, Logout(s, t) \/ DavWrite(s, t)
        PROVE  IInv'
    BY <2>4, RouteInv
  <2> QED BY <1>3, <2>1, <2>2, <2>3, <2>4 DEF Arrive
<1>4. ASSUME NEW c \in Calls, Step(c) PROVE IInv'
  <2>1. CASE PasswordRefused(c) \/ SecondFactorDemanded(c) \/ SignedIn(c)
             \/ \E s \in SessionIds \cup {NoSession} : SecondFactorShown(c, s)
    BY <2>1, SignInInv
  <2>2. CASE InputRefused(c) \/ Submit(c) \/ Accepted(c) \/ BackendFailed(c) \/ Done(c)
    <3>1. call[c].stage \in Change
      BY <2>2 DEF InputRefused, Submit, Accepted, BackendFailed, Done, Change
    <3>2. call[c].session \in SessionIds /\ call[c].token \in Tokens
      BY <3>1 DEF IInv, Named
    <3> QED BY <2>2, <3>2, ChangeInv
  <2> QED BY <1>4, <2>1, <2>2 DEF Step
<1> QED BY <1>1, <1>2, <1>3, <1>4 DEF Next

LEMMA Invariance == Spec => []IInv
<1> QED BY InitInv, NextInv, PTL DEF Spec
-----------------------------------------------------------------------------
\* However requests overlap, a session has at most one change under way, and
\* carries a mark exactly as long (handleRequest).
THEOREM ChangesOneAtATime == Spec => []OneChangeAtATime
<1>1. IInv => OneChangeAtATime
  BY DEF IInv
<1> QED BY <1>1, Invariance, PTL

\* A CSRF token is answered with success at most once, over mail changes, DAV
\* writes and logouts (validate, reply).
THEOREM TokensBuyOnce == Spec => []TokenBuysOnce
<1>1. IInv => TokenBuysOnce
  BY DEF IInv
<1> QED BY <1>1, Invariance, PTL

\* Nothing can be done with the tokens or the password of a session that has
\* ended, also by a change that was under way when it did (logout, reply).
THEOREM SessionsEndWhole == Spec => []NothingOutlivesSession
<1>1. IInv => NothingOutlivesSession
  BY DEF IInv
<1> QED BY <1>1, Invariance, PTL
-----------------------------------------------------------------------------
(* The limits: the tokens a session has out, the failures that are counted. *)

Outstanding == \A s \in SessionIds : Cardinality(Bucket(token, s)) <= MaxOutstanding

\* A password that is tried was let in below the limit, and so is the copy it keeps.
Throttled == failure <= FailureLimit /\ \A c \in Calls : call[c].previous < FailureLimit

LEMMA BucketFinite ==
    ASSUME NEW toks, NEW s
    PROVE  IsFiniteSet(Bucket(toks, s)) /\ Cardinality(Bucket(toks, s)) \in Nat
<1>1. Bucket(toks, s) \subseteq Tokens /\ IsFiniteSet(Tokens)
  BY FS_Interval DEF Bucket, Tokens
<1> QED BY <1>1, FS_Subset, FS_CardinalityType

\* Fewer tokens make smaller buckets.
LEMMA BucketShrinks ==
    ASSUME NEW toks \in [Tokens -> TokenRecords], NEW fewer \in [Tokens -> TokenRecords],
           \A t \in Tokens : fewer[t] = toks[t] \/ fewer[t] = GoneToken, NEW s
    PROVE  Cardinality(Bucket(fewer, s)) <= Cardinality(Bucket(toks, s))
<1>1. Bucket(fewer, s) \subseteq Bucket(toks, s)
  BY DEF Bucket, GoneToken
<1> QED BY <1>1, BucketFinite, FS_Subset

\* issue: the new token takes the place of the oldest one in a full bucket.
LEMMA IssueBound ==
    ASSUME Typed, NEW toks \in [Tokens -> TokenRecords], NEW s \in SessionIds, UnusedTokens # {},
           \A i \in SessionIds : Cardinality(Bucket(toks, i)) <= MaxOutstanding
    PROVE  \A i \in SessionIds : Cardinality(Bucket(Issue(toks, s), i)) <= MaxOutstanding
<1> DEFINE n == First(UnusedTokens)
           new == [session |-> s, expiresAt |-> now + TokenTtl, status |-> "usable"]
           full == Bucket(toks, s)
           kept == full \ Evicted(toks, s)
<1>1. n \in Tokens
  <2>1. UnusedTokens \subseteq Nat /\ UnusedTokens \subseteq Tokens
    BY DEF UnusedTokens, Tokens
  <2> QED BY <2>1, FirstIsMember
<1>2. \A t \in Tokens : Issue(toks, s)[t] =
        IF t = n THEN new ELSE IF t \in Evicted(toks, s) THEN GoneToken ELSE toks[t]
  <2>1. PICK spent \in [Tokens -> TokenRecords] :
          /\ spent = Spend(toks, Evicted(toks, s))
          /\ \A t \in Tokens : spent[t] = IF t \in Evicted(toks, s) THEN GoneToken ELSE toks[t]
    BY SpendFacts
  <2>2. Issue(toks, s) = [spent EXCEPT ![n] = new]
    BY <2>1 DEF Issue
  <2> QED BY <1>1, <2>1, <2>2
<1>3. IsFiniteSet(full) /\ Cardinality(full) \in Nat /\ Cardinality(full) <= MaxOutstanding
  BY BucketFinite
<1>4. IsFiniteSet(kept) /\ Cardinality(kept) \in Nat /\ Cardinality(kept) < MaxOutstanding
  <2>1. CASE Cardinality(full) < MaxOutstanding
    <3>1. kept = full
      BY <2>1 DEF Evicted
    <3> QED BY <1>3, <2>1, <3>1
  <2>2. CASE ~(Cardinality(full) < MaxOutstanding)
    <3>1. full # {} /\ full \subseteq Nat
      BY <1>3, <2>2, FS_EmptySet DEF Bucket, Tokens
    <3>2. First(full) \in full
      BY <3>1, FirstIsMember
    <3>3. kept = full \ {First(full)}
      BY <2>2 DEF Evicted
    <3>4. IsFiniteSet(kept) /\ Cardinality(kept) = Cardinality(full) - 1
      BY <1>3, <3>2, <3>3, FS_RemoveElement
    <3>5. Cardinality(kept) \in Nat
      BY <3>4, FS_CardinalityType
    <3> QED BY <1>3, <3>4, <3>5
  <2> QED BY <2>1, <2>2
<1>5. Cardinality(Bucket(Issue(toks, s), s)) <= MaxOutstanding
  <2>1. Bucket(Issue(toks, s), s) \subseteq kept \cup {n}
    BY <1>2 DEF Bucket, GoneToken
  <2>2. IsFiniteSet(kept \cup {n}) /\ Cardinality(kept \cup {n}) <= MaxOutstanding
        /\ Cardinality(kept \cup {n}) \in Nat
    <3> HIDE DEF kept, n
    <3>1. /\ IsFiniteSet(kept \cup {n})
          /\ Cardinality(kept \cup {n}) = Cardinality(kept)
               \/ Cardinality(kept \cup {n}) = Cardinality(kept) + 1
      BY <1>4, FS_AddElement
    <3> QED BY <1>4, <3>1
  <2> HIDE DEF kept, n
  <2> QED BY <2>1, <2>2, BucketFinite, FS_Subset
<1>6. ASSUME NEW i \in SessionIds, i # s
      PROVE  Cardinality(Bucket(Issue(toks, s), i)) <= MaxOutstanding
  <2>1. Bucket(Issue(toks, s), i) \subseteq Bucket(toks, i)
    BY <1>2, <1>6 DEF Bucket, GoneToken
  <2> QED BY <2>1, BucketFinite, FS_Subset
<1> QED BY <1>5, <1>6

\* A step drops tokens, or issues one after it has dropped some.
LEMMA TokenStep ==
    ASSUME IInv, [Next]_vars
    PROVE  \/ Dropping
           \/ \E s \in SessionIds, toks \in [Tokens -> TokenRecords] :
                /\ UnusedTokens # {} /\ token' = Issue(toks, s)
                /\ \A t \in Tokens : toks[t] = token[t] \/ toks[t] = GoneToken
<1> DEFINE Issues == \E s \in SessionIds, toks \in [Tokens -> TokenRecords] :
                        /\ UnusedTokens # {} /\ token' = Issue(toks, s)
                        /\ \A t \in Tokens : toks[t] = token[t] \/ toks[t] = GoneToken
<1>1. token \in [Tokens -> TokenRecords] /\ Typed
  BY DEF IInv, Typed
<1>2. ASSUME NEW gone, token' = Spend(token, gone)
      PROVE  Dropping
  BY <1>1, <1>2, SpendFacts DEF Dropping
<1>3. ASSUME NEW gone, NEW s \in SessionIds, UnusedTokens # {},
             token' = Issue(Spend(token, gone), s)
      PROVE  Issues
  BY <1>1, <1>3, SpendFacts
<1>4. ASSUME NEW s \in SessionIds, SessionInfo(s)
      PROVE  Issues
  BY <1>1, <1>4 DEF SessionInfo
<1>5. ASSUME NEW old, NEW f, StartSession(old, f)
      PROVE  Dropping \/ Issues
  <2>1. CASE LogOut(old)
    BY <1>2, <2>1 DEF LogOut, Revoked
  <2>2. ASSUME UnusedSessions # {}, UnusedTokens # {}, Opened(old, First(UnusedSessions))
        PROVE  Issues
    <3>1. UnusedSessions \subseteq Nat /\ UnusedSessions \subseteq SessionIds
      BY DEF UnusedSessions, SessionIds
    <3>2. First(UnusedSessions) \in SessionIds
      BY <2>2, <3>1, FirstIsMember
    <3> QED BY <1>3, <2>2, <3>2 DEF Opened, Revoked
  <2> QED BY <1>5, <2>1, <2>2 DEF StartSession
<1>6. ASSUME NEW c \in Calls, Done(c)
      PROVE  Dropping \/ Issues
  <2>1. call[c].session \in SessionIds
    BY <1>6 DEF Done, Change, IInv, Named
  <2> QED BY <1>3, <1>6, <2>1 DEF Done, Spent, Dropping
<1>7. CASE UNCHANGED token
  BY <1>7 DEF Dropping
<1>8. CASE Tick
  BY <1>2, <1>8 DEF Tick
<1>9. ASSUME NEW s \in SessionIds, NEW t \in Tokens, Logout(s, t) \/ DavWrite(s, t)
      PROVE  Dropping
  BY <1>2, <1>9 DEF Logout, LogOut, Revoked, DavWrite
<1>10. ASSUME NEW c \in Calls, Step(c)
       PROVE  Dropping \/ Issues
  BY <1>5, <1>6, <1>7, <1>10
  DEF Step, PasswordRefused, SecondFactorDemanded, SignedIn, SecondFactorShown, InputRefused,
      Submit, Accepted, BackendFailed, stores
<1>11. CASE Arrive
  BY <1>4, <1>7, <1>9, <1>11 DEF Arrive, SignIn, ChangeArrives, stores
<1> QED BY <1>7, <1>8, <1>10, <1>11 DEF Next, WindowEnds, vars, stores

\* Nor does any sequence of requests put more tokens out.
LEMMA OutstandingStep ==
    ASSUME IInv, Outstanding, [Next]_vars
    PROVE  Outstanding'
<1>1. IInv'
  BY NextInv
<1>2. /\ token \in [Tokens -> TokenRecords] /\ token' \in [Tokens -> TokenRecords] /\ Typed
      /\ \A toks, s : Cardinality(Bucket(toks, s)) \in Nat
  BY <1>1, BucketFinite DEF IInv, Typed
<1>3. PICK after : after = token'
  OBVIOUS
<1>4. CASE Dropping
  <2>1. \A s : Cardinality(Bucket(after, s)) <= Cardinality(Bucket(token, s))
    BY <1>2, <1>3, <1>4, BucketShrinks DEF Dropping
  <2>2. \A s \in SessionIds : Cardinality(Bucket(after, s)) <= MaxOutstanding
    BY <1>2, <2>1 DEF Outstanding
  <2> QED BY <1>3, <2>2 DEF Outstanding, Bucket
<1>5. ASSUME NEW s \in SessionIds, NEW toks \in [Tokens -> TokenRecords],
             UnusedTokens # {}, after = Issue(toks, s),
             \A t \in Tokens : toks[t] = token[t] \/ toks[t] = GoneToken
      PROVE  Outstanding'
  <2>1. \A i : Cardinality(Bucket(toks, i)) <= Cardinality(Bucket(token, i))
    BY <1>2, <1>5, BucketShrinks
  <2>2. \A i \in SessionIds : Cardinality(Bucket(toks, i)) <= MaxOutstanding
    BY <1>2, <2>1 DEF Outstanding
  <2>3. \A i \in SessionIds : Cardinality(Bucket(after, i)) <= MaxOutstanding
    BY <1>2, <1>5, <2>2, IssueBound
  <2> QED BY <1>3, <2>3 DEF Outstanding, Bucket
<1> QED BY <1>3, <1>4, <1>5, TokenStep

LEMMA ThrottledStep ==
    ASSUME IInv, Throttled, [Next]_vars
    PROVE  Throttled'
<1>1. call \in [Calls -> CallRecords] /\ failure \in Nat
  BY DEF IInv, Typed
<1>2. NoCall.previous = 0
  BY DEF NoCall
<1>3. ASSUME NEW c \in Calls, NEW r, call' = [call EXCEPT ![c] = r], r.previous < FailureLimit
      PROVE  \A d \in Calls : call'[d].previous < FailureLimit
  BY <1>1, <1>3 DEF Throttled
<1>4. ASSUME NEW c \in Calls, PasswordRefused(c)
      PROVE  Throttled'
  <2>1. failure' = call[c].previous + 1 /\ call[c].previous \in Nat
    BY <1>1, <1>4 DEF PasswordRefused, CallRecords
  <2>2. failure' <= FailureLimit
    BY <2>1 DEF Throttled
  <2> QED BY <1>2, <1>3, <1>4, <2>2 DEF PasswordRefused, Throttled
<1>5. ASSUME NEW c \in Calls, NEW s, SignIn(c, s)
      PROVE  Throttled'
  <2> DEFINE r == [NoCall EXCEPT !.stage = "verifying", !.session = s, !.previous = failure]
  <2>1. r.previous = failure /\ failure < FailureLimit
    BY <1>5 DEF SignIn, NoCall
  <2>2. call' = [call EXCEPT ![c] = r] /\ failure' = failure
    BY <1>5 DEF SignIn
  <2> HIDE DEF r
  <2> QED BY <1>1, <1>3, <2>1, <2>2 DEF Throttled
<1>6. ASSUME NEW c \in Calls, NEW r, r.previous = 0, call' = [call EXCEPT ![c] = r],
             failure' = 0 \/ failure' = failure
      PROVE  Throttled'
  <2>1. 0 < FailureLimit /\ r.previous < FailureLimit
    BY <1>6
  <2>2. \A d \in Calls : call'[d].previous < FailureLimit
    BY <1>3, <1>6, <2>1
  <2>3. failure' <= FailureLimit
    BY <1>6 DEF Throttled
  <2> QED BY <2>2, <2>3 DEF Throttled
<1>7. ASSUME NEW old, NEW f, f = 0 \/ f = failure, StartSession(old, f)
      PROVE  failure' = 0 \/ failure' = failure
  BY <1>7 DEF StartSession
<1>8. ASSUME NEW c \in Calls, NEW s, SecondFactorDemanded(c) \/ SignedIn(c) \/ SecondFactorShown(c, s)
      PROVE  Throttled'
  <2>1. PICK r : r.previous = 0 /\ call' = [call EXCEPT ![c] = r]
    <3>1. [NoCall EXCEPT !.stage = "second factor"].previous = 0
      BY DEF NoCall
    <3> QED BY <1>2, <1>8, <3>1 DEF SecondFactorDemanded, SignedIn, SecondFactorShown
  <2>2. failure' = 0 \/ failure' = failure
    BY <1>7, <1>8 DEF SecondFactorDemanded, SignedIn, SecondFactorShown
  <2> QED BY <1>6, <2>1, <2>2
<1>9. ASSUME NEW c \in Calls, EndChange(c)
      PROVE  Throttled'
  BY <1>2, <1>6, <1>9 DEF EndChange
<1>10. ASSUME NEW c \in Calls, Submit(c) \/ Accepted(c)
       PROVE  Throttled'
  <2>1. PICK stage : call' = [call EXCEPT ![c].stage = stage] /\ failure' = failure
    BY <1>10 DEF Submit, Accepted
  <2>2. \A d \in Calls : call'[d].previous = call[d].previous
    BY <1>1, <2>1 DEF CallRecords
  <2> QED BY <2>1, <2>2 DEF Throttled
<1>11. ASSUME NEW c \in Calls, NEW s, NEW t, ChangeArrives(c, s, t)
       PROVE  Throttled'
  <2>1. PICK stage :
          call' = [call EXCEPT ![c] = [NoCall EXCEPT !.stage = stage, !.session = s, !.token = t]]
    BY <1>11 DEF ChangeArrives
  <2>2. [NoCall EXCEPT !.stage = stage, !.session = s, !.token = t].previous = 0
    BY DEF NoCall
  <2> QED BY <1>3, <1>11, <2>1, <2>2 DEF ChangeArrives, Throttled
<1>12. CASE UNCHANGED call /\ (failure' = 0 \/ failure' = failure)
  BY <1>12 DEF Throttled
<1>13. ASSUME NEW c \in Calls, Step(c)
       PROVE  Throttled'
  BY <1>4, <1>8, <1>9, <1>10, <1>13 DEF Step, InputRefused, BackendFailed, Done
<1>14. CASE Arrive
  BY <1>5, <1>11, <1>12, <1>14 DEF Arrive, SessionInfo, Logout, DavWrite
<1> QED BY <1>12, <1>13, <1>14 DEF Next, Tick, WindowEnds, vars

\* The shape of the stores; the tokens a session has out never pass the limit, nor the
\* failures of a sign-in theirs, although parallel attempts count from the copy each of
\* them read before it waited (issue, the sign-in route's
\* previousFailure).
THEOREM TypeCorrect == Spec => []TypeOK
<1>1. Init => Outstanding /\ Throttled
  <2> SUFFICES ASSUME Init PROVE Outstanding /\ Throttled
    OBVIOUS
  <2>1. \A s : Bucket(token, s) = {}
    BY DEF Init, Bucket, UnusedToken
  <2>2. Outstanding
    BY <2>1, FS_EmptySet DEF Outstanding
  <2>3. \A c \in Calls : call[c].previous = 0
    BY DEF Init, NoCall
  <2>4. Throttled
    BY <2>3 DEF Init, Throttled
  <2> QED BY <2>2, <2>4
<1>2. IInv /\ Outstanding /\ Throttled /\ [Next]_vars => Outstanding' /\ Throttled'
  BY OutstandingStep, ThrottledStep
<1>3. IInv /\ Outstanding /\ Throttled => TypeOK
  BY DEF IInv, Typed, Outstanding, Throttled, TypeOK
<1> QED BY <1>1, <1>2, <1>3, Invariance, PTL DEF Spec
=============================================================================
