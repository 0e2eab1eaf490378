---------------------------- MODULE AbuseControls ----------------------------
(***************************************************************************)
(* The abuse guard (ops/abuse/index.ts): a rate limiter with fixed windows  *)
(* over several dimensions of a call, and failures that lock a subject out  *)
(* and, when they go on, quarantine it.  A key is a subject in one channel  *)
(* and dimension; a call names the keys it has.  The limiter keeps at most  *)
(* MaxBuckets buckets, and drops the one inserted first.  The time of a     *)
(* call is the guard's clock: no caller gives the `now` it might.            *)
(*                                                                         *)
(* `admitted`, `evicted` and `failedAt` are history: what was let through   *)
(* when, the buckets dropped, and the failures since the last success.      *)
(***************************************************************************)
EXTENDS Naturals, FiniteSetsExt, SequencesExt

CONSTANTS
    TenantKey, OtherKeys,           \* the keys of a tenant, and of addresses and sessions
    Subjects,                       \* the keys failures are counted for
    Limit, Window,                  \* a rate rule, the same for all keys here
    MaxBuckets,
    FailureThreshold, QuarantineThreshold, FailureWindow, LockoutTime, QuarantineTime,
    MaxTime, MaxFailures            \* bounds

VARIABLES now, bucket, order, failure, lockedUntil, quarantinedUntil, admitted, evicted, failedAt

limiter == <<bucket, order, admitted, evicted>>
guard == <<failure, lockedUntil, quarantinedUntil, failedAt>>
vars == <<now, limiter, guard>>

Keys == {TenantKey} \cup OtherKeys

\* The keys of a call, by dimension: its tenant, and an address or a session.
Calls == {<<TenantKey, k>> : k \in OtherKeys}

Times == 0 .. MaxTime
NoBucket == [startedAt |-> 0, count |-> 0]

TypeOK ==
    /\ now \in Times
    /\ bucket \in [Keys -> [startedAt : Times, count : Nat]]
    /\ order \in Seq(Keys) /\ IsInjective(order) /\ Len(order) <= MaxBuckets
    /\ failure \in [Subjects -> [startedAt : Times, count : 0 .. MaxFailures]]
    /\ lockedUntil \in [Subjects -> Nat] /\ quarantinedUntil \in [Subjects -> Nat]
    /\ admitted \in [Keys -> [Times -> Nat]]
    /\ evicted \subseteq Keys
    /\ failedAt \in [Subjects -> Seq(Times)]

Init ==
    /\ now = 0
    /\ bucket = [k \in Keys |-> NoBucket] /\ order = <<>>
    /\ failure = [s \in Subjects |-> NoBucket]
    /\ lockedUntil = [s \in Subjects |-> 0] /\ quarantinedUntil = [s \in Subjects |-> 0]
    /\ admitted = [k \in Keys |-> [t \in Times |-> 0]] /\ evicted = {}
    /\ failedAt = [s \in Subjects |-> <<>>]

Tick == now < MaxTime /\ now' = now + 1 /\ UNCHANGED <<limiter, guard>>
-----------------------------------------------------------------------------
(* createRateLimiter *)

Kept(k) == k \in ToSet(order)

\* The bucket a call is counted in: a new one when there is none or its window is over.
Current(k) == IF Kept(k) /\ now - bucket[k].startedAt < Window
                THEN bucket[k] ELSE [startedAt |-> now, count |-> 0]

\* Mutant: the first dimension with room lets the call in.
LimitedInAll(call) == {k \in ToSet(call) : \A j \in ToSet(call) : Current(j).count + 1 > Limit}

Limited(call) == {k \in ToSet(call) : Current(k).count + 1 > Limit}

\* prune: the keys inserted first go
Pruned(keys) == IF Len(keys) <= MaxBuckets THEN keys
                ELSE SubSeq(keys, Len(keys) - MaxBuckets + 1, Len(keys))

\* Map.set: a known key keeps its place.
Inserted(keys, k) == IF k \in ToSet(keys) THEN keys ELSE Append(keys, k)

\* consume with nothing limited: all dimensions are charged, one after the other.
\* A limited call changes nothing.
Consume(call) ==
    /\ Limited(call) = {}
    /\ LET added == Inserted(Inserted(order, call[1]), call[2])
           left == ToSet(Pruned(added)) IN
         /\ order' = Pruned(added)
         /\ bucket' = [k \in Keys |-> IF k \notin left THEN NoBucket
                                      ELSE IF k \in ToSet(call) THEN [Current(k) EXCEPT !.count = @ + 1]
                                      ELSE bucket[k]]
         /\ evicted' = evicted \cup (ToSet(added) \ left)
    /\ admitted' = [k \in Keys |-> IF k \in ToSet(call) THEN [admitted[k] EXCEPT ![now] = @ + 1]
                                   ELSE admitted[k]]
    /\ UNCHANGED <<now, guard>>
-----------------------------------------------------------------------------
(* createAbuseGuard *)

Locked(s) == lockedUntil[s] > now
Quarantined(s) == quarantinedUntil[s] > now

\* status and check: a call with a blocked subject is not even counted
Check(call) ==
    /\ \A s \in ToSet(call) \cap Subjects : ~Locked(s) /\ ~Quarantined(s)
    /\ Consume(call)

\* Mutant: the lockout is set when the threshold is passed, not when it is reached.
ThresholdReachedLate(count, threshold) == count > threshold

ThresholdReached(count, threshold) == count >= threshold

RecordFailure(s) ==
    LET open == failure[s].count > 0 /\ now - failure[s].startedAt < FailureWindow
        counted == IF open THEN [failure[s] EXCEPT !.count = @ + 1]
                   ELSE [startedAt |-> now, count |-> 1] IN
    /\ Len(failedAt[s]) < MaxFailures
    /\ failure' = [failure EXCEPT ![s] = counted]
    /\ lockedUntil' = [lockedUntil EXCEPT ![s] =
           IF ThresholdReached(counted.count, FailureThreshold) THEN now + LockoutTime ELSE @]
    /\ quarantinedUntil' = [quarantinedUntil EXCEPT ![s] =
           IF ThresholdReached(counted.count, QuarantineThreshold) THEN now + QuarantineTime ELSE @]
    /\ failedAt' = [failedAt EXCEPT ![s] = Append(@, now)]
    /\ UNCHANGED <<now, limiter>>

Forget(s) ==
    /\ failure' = [failure EXCEPT ![s] = NoBucket]
    /\ lockedUntil' = [lockedUntil EXCEPT ![s] = 0]
    /\ failedAt' = [failedAt EXCEPT ![s] = <<>>]

RecordSuccess(s) == Forget(s) /\ UNCHANGED <<now, limiter, quarantinedUntil>>

\* quarantineSubject, for as long as the operator says
QuarantineSubject(s, time) ==
    /\ quarantinedUntil' = [quarantinedUntil EXCEPT ![s] = now + time]
    /\ UNCHANGED <<now, limiter, failure, lockedUntil, failedAt>>

ReleaseSubject(s) ==
    /\ Forget(s) /\ quarantinedUntil' = [quarantinedUntil EXCEPT ![s] = 0]
    /\ UNCHANGED <<now, limiter>>

Next ==
    \/ Tick
    \/ \E call \in Calls : Check(call)
    \/ \E s \in Subjects : \/ RecordFailure(s) \/ RecordSuccess(s) \/ ReleaseSubject(s)
                           \/ \E time \in {1, QuarantineTime + 1} : QuarantineSubject(s, time)

Spec == Init /\ [][Next]_vars
-----------------------------------------------------------------------------
Span(from, to) == {t \in Times : from <= t /\ t <= to}
Recent(s) == {i \in DOMAIN failedAt[s] : now - failedAt[s][i] < FailureWindow}

\* What a fixed window is worth when measured from any moment: no key whose bucket has not been
\* dropped gets twice its limit and more through in the length of a window; and of 2 * threshold
\* - 1 failures of a subject in that length, whenever the window happened to start, one at least
\* locked it out, for the whole lockout from then on.
LimitsHold ==
    /\ \A k \in Keys \ evicted, t \in Times :
          MapThenSumSet(LAMBDA u : admitted[k][u], Span(t, t + Window - 1)) <= 2 * Limit
    /\ \A s \in Subjects : Cardinality(Recent(s)) >= 2 * FailureThreshold - 1 =>
          \E i \in Recent(s) : lockedUntil[s] >= failedAt[s][i] + LockoutTime
=============================================================================
