-------------------------------- MODULE Alerts --------------------------------
(***************************************************************************)
(* Alerts: the policy that turns a snapshot of measurements into a report   *)
(* (src/core/observability/alert-policy.ts), evaluated again and again       *)
(* while things get worse, and the delivery of a report to a webhook, one    *)
(* alert after another, each tried again after an error that may pass        *)
(* (src/core/observability/webhook-alert-adapter.ts).  The caller hands the  *)
(* report from the one to the other; the two share no state, and each has    *)
(* an initial predicate and a next-state relation of its own.                *)
(*                                                                         *)
(* A measurement is a small number, a missing one, or an invalid one, on    *)
(* which the evaluation throws as a whole.  All categories share one pair   *)
(* of thresholds; a certificate's days count downwards.  An alert under     *)
(* delivery is its place in the report; `received` is what the receiver     *)
(* took, external.                                                          *)
(***************************************************************************)
EXTENDS Integers, Sequences, FiniteSets

CONSTANTS
    Top,                        \* bound: the highest measurement, and threshold
    MaxAlerts, AlertRetries

VARIABLES
    threshold, snapshot, report,        \* the policy's
    alerts, delivery, received          \* the webhook's

Absent == -2
Invalid == -1
Measured == 0 .. Top
Counted == {"queue", "storage", "auth"}             \* the more the worse
Sources == Counted \cup {"certificate", "dependency"}
Statuses == {"ok", "disabled", "starting", "degraded", "failed"}

Snapshots == [queue : Measured \cup {Absent, Invalid}, storage : Measured \cup {Absent},
              auth : Measured, certificate : Measured \cup {Absent}, dependency : Statuses]
Severities == {"critical", "warning"}
PossibleAlerts == [source : Sources, severity : Severities]
NoReport == [status |-> "none", alerts |-> <<>>]

\* mergeThresholds refuses a critical threshold on the wrong side of the warning one.
PolicyInit ==
    /\ threshold \in [warning : 1 .. Top, critical : 1 .. Top]
    /\ threshold.warning <= threshold.critical
    /\ snapshot \in Snapshots
    /\ report = NoReport
-----------------------------------------------------------------------------
\* Mutant: the critical threshold itself is in neither range.
SeverityWithGap(value) ==
    IF value > threshold.critical THEN "critical"
    ELSE IF value >= threshold.warning /\ value < threshold.critical THEN "warning" ELSE "none"

\* evaluateQueue, evaluateCapacity, evaluateAuthAbuse: a missing value is below any threshold.
Severity(value) ==
    IF value >= threshold.critical THEN "critical"
    ELSE IF value >= threshold.warning THEN "warning" ELSE "none"

\* evaluateDependencies, evaluateCertificates
Level(s, source) ==
    CASE source = "dependency" ->
            (IF s.dependency = "failed" THEN "critical"
             ELSE IF s.dependency \in {"degraded", "starting"} THEN "warning" ELSE "none")
      [] source = "certificate" ->
            (IF s.certificate = Absent THEN "none" ELSE Severity(Top + 1 - s.certificate))
      [] OTHER -> Severity(s[source])

AlertsOf(s) == {a \in PossibleAlerts : Level(s, a.source) = a.severity}

Within(s) == {s[i] : i \in DOMAIN s}

\* Critical before warning.
Sorted(raised) ==
    LET Listed(some) == CHOOSE s \in [1 .. Cardinality(some) -> some] : Within(s) = some
        With(severity) == Listed({a \in raised : a.severity = severity})
    IN  With("critical") \o With("warning")

Worst(raised) ==
    IF \E a \in raised : a.severity = "critical" THEN "critical"
    ELSE IF raised # {} THEN "warning" ELSE "ok"

\* evaluate: one measurement that is no number throws it as a whole.
Evaluation(s) ==
    IF s.queue = Invalid THEN [status |-> "error", alerts |-> <<>>]
    ELSE [status |-> Worst(AlertsOf(s)), alerts |-> Sorted(AlertsOf(s))]

Evaluate ==
    /\ report = NoReport /\ report' = Evaluation(snapshot)
    /\ UNCHANGED <<threshold, snapshot>>

Worse(s, source) ==
    CASE source \in Counted -> [s EXCEPT ![source] = @ + 1]
      [] source = "certificate" -> [s EXCEPT !.certificate = @ - 1]
      [] OTHER -> [s EXCEPT !.dependency = IF @ = "ok" THEN "degraded" ELSE "failed"]

\* A measurement gets worse, or a dependency does, before the next evaluation.
Worsen(source) ==
    /\ report # NoReport
    /\ IF source = "dependency" THEN snapshot.dependency \in {"ok", "starting", "degraded"}
       ELSE snapshot[source] \in Measured
    /\ snapshot' = Worse(snapshot, source) /\ snapshot' \in Snapshots
    /\ report' = Evaluation(snapshot')
    /\ UNCHANGED threshold

PolicyNext == Evaluate \/ \E source \in Sources : Worsen(source)

-----------------------------------------------------------------------------
PolicyTypeOK ==
    /\ snapshot \in Snapshots /\ Within(report.alerts) \subseteq PossibleAlerts
    /\ report.status \in {"none", "ok", "warning", "critical", "error"}

\* What is at its critical threshold makes the report critical, what is at its warning
\* threshold no better than a warning, and nothing else does: the status is that of the first
\* alert (alert-policy.ts: evaluate).
StatusIsTheWorst ==
    report.status \notin {"none", "error"} =>
        /\ (\E source \in Counted : snapshot[source] >= threshold.critical) => report.status = "critical"
        /\ snapshot.dependency \in {"degraded", "starting"} => report.status # "ok"
        /\ report.status = IF report.alerts = <<>> THEN "ok" ELSE report.alerts[1].severity

Rank(severity) == CASE severity = "critical" -> 2 [] severity = "warning" -> 1 [] OTHER -> 0
RankOf(r, source) ==
    IF \E a \in Within(r.alerts) : a.source = source /\ a.severity = "critical" THEN 2
    ELSE IF \E a \in Within(r.alerts) : a.source = source THEN 1 ELSE 0

\* When a measurement gets worse and none is invalid, no alert goes away or gets milder, and
\* neither does the status (alert-policy.ts: evaluate).
WorseIsNoMilder ==
    snapshot' # snapshot /\ report'.status # "error"
        => /\ Rank(report'.status) >= Rank(report.status)
           /\ \A source \in Sources : RankOf(report', source) >= RankOf(report, source)
-----------------------------------------------------------------------------
(* The delivery of a report. *)

Places == 1 .. MaxAlerts

WebhookInit ==
    /\ alerts \in 0 .. MaxAlerts
    /\ delivery = [at |-> 1, attempt |-> 0, delivered |-> {}, failed |-> {}]
    /\ received = <<>>

Posting == delivery.at <= alerts

After(field) == [delivery EXCEPT !.at = @ + 1, !.attempt = 0, ![field] = @ \cup {delivery.at}]

\* deliver: a 2xx.
Accepted ==
    /\ Posting /\ received' = Append(received, delivery.at)
    /\ delivery' = After("delivered")
    /\ UNCHANGED alerts

\* Mutant: what will not pass is tried again too, one time too often.
GivesUpLate(transient) == delivery.attempt > AlertRetries

\* isRetryable, retryAttempts
GivesUp(transient) == ~transient \/ delivery.attempt = AlertRetries

\* postWithRetry: a timeout, a network error or a 5xx may come after the receiver took the
\* alert; a 4xx means that it did not.
Fails(transient, taken) ==
    /\ Posting /\ (taken => transient)
    /\ received' = IF taken THEN Append(received, delivery.at) ELSE received
    /\ delivery' = IF GivesUp(transient) THEN After("failed")
                   ELSE [delivery EXCEPT !.attempt = @ + 1]
    /\ UNCHANGED alerts

WebhookNext == Accepted \/ \E transient, taken \in BOOLEAN : Fails(transient, taken)

-----------------------------------------------------------------------------
WebhookTypeOK ==
    /\ alerts \in 0 .. MaxAlerts /\ received \in Seq(Places)
    /\ delivery \in [at : 1 .. MaxAlerts + 1, attempt : 0 .. AlertRetries,
                     delivered : SUBSET Places, failed : SUBSET Places]

Count(a) == Cardinality({i \in DOMAIN received : received[i] = a})

\* The receiver has the alerts in the order of the report, none more often than it may be
\* tried, and each one counted as delivered; each is counted once, whatever became of the ones
\* before it (webhook-alert-adapter.ts: deliver, postWithRetry).
ReportDelivered ==
    /\ \A i, j \in DOMAIN received : i < j => received[i] <= received[j]
    /\ \A i \in Places : Count(i) <= AlertRetries + 1
    /\ delivery.delivered \subseteq Within(received)
    /\ delivery.delivered \cap delivery.failed = {}
    /\ delivery.delivered \cup delivery.failed = 1 .. delivery.at - 1
=============================================================================
