--------------------------- MODULE ProjectedSecrets ---------------------------
(***************************************************************************)
(* Reads of one secret that Docker or Kubernetes projects as a file         *)
(* (src/core/secrets/projected-secret-file-store.ts), file operation by     *)
(* file operation, while the orchestrator rotates it: Kubernetes makes a    *)
(* directory per version and swings a link to it, the old one goes later;   *)
(* a file mounted from the host is emptied and written again in place.      *)
(* Reads share nothing but the files: one call at a time is followed.       *)
(***************************************************************************)
EXTENDS Naturals

CONSTANTS MaxProjections, MaxReads    \* bounds

VARIABLES orchestrator, linked, files, read, recorded, reads

vars == <<orchestrator, linked, files, read, recorded, reads>>

\* The file of a version: what is in it, and when it was written.
Contents == {"whole", "large", "binary", "writable"}
Gone == [content |-> "gone", time |-> 0]
File(content, time) == [content |-> content, time |-> time]
Versions == 1 .. MaxProjections + 1

Idle == [step |-> "idle", operation |-> "get", from |-> 0, sound |-> FALSE, target |-> 1, statTime |-> 0,
         value |-> Gone, answer |-> "none", held |-> FALSE]

Init ==
    /\ orchestrator \in {"docker", "kubernetes"} /\ linked = 1
    /\ files = [v \in Versions |-> IF v = 1 THEN File("whole", 1) ELSE Gone]
    /\ read = Idle /\ recorded = {} /\ reads = 0

\* Outside the code: Kubernetes projects the next version and swings the link, and removes later
\* what is no longer linked; a mounted file is emptied and filled.
Newest == files[IF orchestrator = "kubernetes" THEN linked ELSE 1]
Projected ==
    /\ UNCHANGED <<orchestrator, recorded, reads>>
    /\ read' = [read EXCEPT !.sound = @ /\ Newest'.content = "whole"]
Project ==
    /\ orchestrator = "kubernetes" /\ linked \in 1 .. MaxProjections /\ linked' = linked + 1
    /\ \E content \in Contents : files' = [files EXCEPT ![linked + 1] = File(content, linked + 1)]
    /\ Projected
Sweep ==
    /\ orchestrator = "kubernetes"
    /\ \E v \in Versions : v < linked /\ files[v] # Gone /\ files' = [files EXCEPT ![v] = Gone]
    /\ UNCHANGED linked /\ Projected
Rewrite ==
    /\ orchestrator = "docker" /\ UNCHANGED linked
    /\ \/ files[1].time <= MaxProjections /\ files[1].content # "empty"
          /\ files' = [files EXCEPT ![1] = File("empty", @.time + 1)]
       \/ files[1].content = "empty"
          /\ \E content \in Contents : files' = [files EXCEPT ![1].content = content]
    /\ Projected

\* get, status: what is no reference, or none of this store, is refused before anything else, and
\* on no record.
Begin ==
    /\ read.step \in {"idle", "done"} /\ reads < MaxReads
    /\ \E operation \in {"get", "status"} :
          read' = [Idle EXCEPT !.step = "path", !.operation = operation, !.from = Newest.time,
                               !.sound = Newest.content = "whole"]
    /\ recorded' = {} /\ reads' = reads + 1
    /\ UNCHANGED <<orchestrator, linked, files>>

At(step) == read.step = step /\ UNCHANGED <<orchestrator, linked, files, reads>>
Goes(to) == read' = [to EXCEPT !.step = CASE read.step = "path" -> "stat" [] read.step = "stat" -> "file" [] OTHER -> "audit"]
Fails(code) ==
    read' = [read EXCEPT !.step = IF @ \in {"path", "stat", "file"} /\ read.operation = "get" THEN "audit" ELSE "done",
                         !.answer = code]

\* A minimum validity is never met by a secret without an expiry.
Expiring == At("path") /\ read.operation = "get" /\ Fails("expiring") /\ UNCHANGED recorded

\* #target: the link is followed here, once.
Resolve ==
    /\ At("path") /\ UNCHANGED recorded
    /\ Goes([read EXCEPT !.target = IF orchestrator = "kubernetes" THEN linked ELSE 1])

\* Mutant: the time is taken without a look at the mode and the size.
StatUnchecked ==
    /\ At("stat") /\ UNCHANGED recorded
    /\ IF files[read.target] = Gone THEN Fails("missing")
       ELSE Goes([read EXCEPT !.statTime = files[read.target].time])
\* #read: the file's type, mode and size
Stat ==
    /\ At("stat") /\ UNCHANGED recorded
    /\ LET f == files[read.target]
       IN  CASE f = Gone -> Fails("missing")
             [] f.content = "writable" -> Fails("unsafe")
             [] f.content = "empty" -> Fails("unavailable")
             [] f.content = "large" -> Fails("large")
             [] OTHER -> Goes([read EXCEPT !.statTime = f.time])

\* #read: what is read now is looked at again, its mode is not.
ReadFile ==
    /\ At("file") /\ UNCHANGED recorded
    /\ LET f == files[read.target]
       IN  CASE f.content \in {"gone", "empty", "binary"} -> Fails("unavailable")
             [] f.content = "large" -> Fails("large")
             [] OTHER -> IF read.operation = "get" THEN Goes([read EXCEPT !.value = f])
                         ELSE read' = [read EXCEPT !.step = "done", !.value = f, !.answer = "ready"]

\* Mutant: the lease is made before the sink has taken the record.
EmitLate ==
    /\ At("audit")
    /\ IF read.answer = "none"
       THEN /\ read' = [read EXCEPT !.step = "done", !.answer = "lease", !.held = TRUE]
            /\ recorded' \in {recorded, recorded \cup {"success"}}
       ELSE \/ Fails(read.answer) /\ recorded' = recorded \cup {"failed"}
            \/ Fails("audit") /\ recorded' \in {recorded, recorded \cup {"failed"}}
\* #emit: the success, whose own failure is recorded as one of the call; and the failure, whose
\* record failing is the answer.  A sink that fails may have written.
Emit ==
    /\ At("audit")
    /\ IF read.answer = "none"
       THEN \/ recorded' = recorded \cup {"success"}
               /\ read' = [read EXCEPT !.step = "done", !.answer = "lease", !.held = TRUE]
            \/ recorded' \in {recorded, recorded \cup {"success"}}
               /\ read' = [read EXCEPT !.answer = "audit", !.value = Gone]
       ELSE \/ Fails(read.answer) /\ recorded' = recorded \cup {"failed"}
            \/ Fails("audit") /\ recorded' \in {recorded, recorded \cup {"failed"}}

\* createSecretResolver: the value is taken out of the lease, which is of no use after that.
Resolver ==
    /\ At("done") /\ read.held /\ UNCHANGED recorded
    /\ read' = [read EXCEPT !.held = FALSE]

Next ==
    \/ Project \/ Sweep \/ Rewrite
    \/ Begin \/ Expiring \/ Resolve \/ Stat \/ ReadFile \/ Emit \/ Resolver

Spec == Init /\ [][Next]_vars
-----------------------------------------------------------------------------
TypeOK ==
    /\ orchestrator \in {"docker", "kubernetes"} /\ linked \in Versions
    /\ \A v \in Versions : files[v].content \in Contents \cup {"gone", "empty"}
    /\ read.step \in {"idle", "path", "stat", "file", "audit", "done"}
    /\ read.answer \in {"none", "lease", "ready", "expiring", "missing", "unsafe", "unavailable", "large", "audit"}
    /\ recorded \subseteq {"success", "failed"} /\ reads \in 0 .. MaxReads

Given == read.answer \in {"lease", "ready"}

\* What a link shows is read whole, in the version it showed at some time of the call, with the time
\* that version was made; of a file written in place only that it is text of no forbidden size, and
\* its time may be of the content before (#target, #read).
GivenIsAVersion ==
    Given => /\ read.value.content \notin {"gone", "empty", "binary", "large"}
             /\ read.value.time >= read.from /\ read.statTime <= read.value.time
             /\ orchestrator = "kubernetes" =>
                   read.value.content = "whole" /\ read.statTime = read.value.time

\* No value is handed out that is not on record as read, none that was refused is on record as
\* refused and read unless the sink failed, and a refusal has a record unless the sink failed (get).
RecordTellsTheRead ==
    read.step = "done" /\ read.operation = "get" =>
        /\ Given => recorded = {"success"}
        /\ read.answer \notin {"lease", "audit"} => recorded = {"failed"}

\* A good secret is refused only while it changes hands, or when its record cannot be written, or
\* when more validity is asked for than a projected file can have.
RefusedForCause ==
    read.step = "done" /\ read.answer \in {"missing", "unsafe", "unavailable", "large"} /\ read.sound =>
        Newest.time > read.from

ProjectedHolds == GivenIsAVersion /\ RecordTellsTheRead /\ RefusedForCause
=============================================================================
