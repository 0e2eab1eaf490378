-------------------------------- MODULE Logging --------------------------------
(***************************************************************************)
(* Logging: what a structured log record shows of the value it is given     *)
(* (src/runtime/logger.ts), the walk of sanitizeLogValue over objects that   *)
(* share or contain one another, one entry at a time; and the fields of a    *)
(* record, those of the call, its details and the contexts of a chain of     *)
(* child loggers, and of a structured event, which a malformed or too long   *)
(* one does not become (src/core/observability/structured-event.ts).  The    *)
(* two share no state, and each has an initial predicate of its own.         *)
(*                                                                         *)
(* A text is plain or holds a credential; a key is plain or sensitive.       *)
(***************************************************************************)
EXTENDS Naturals, Sequences

CONSTANTS
    LoggedObjects,
    MaxContexts                         \* bound

VARIABLES
    heap, todo, expanded, shown,        \* of the value
    contexts, context, record, event    \* of the record

Texts == {"plain", "credential"}
Values == Texts \cup LoggedObjects
Root == CHOOSE o \in LoggedObjects : TRUE

None == "none"

RedactionInit ==
    /\ heap \in [LoggedObjects -> [list : BOOLEAN, detail : Values \cup {None}, password : Values \cup {None}]]
    /\ todo = <<[path |-> <<>>, key |-> None, value |-> Root]>>
    /\ expanded = {} /\ shown = {}

\* isSensitiveKey: the entries of an array are passed on without a key.
Sensitive(key) == key = "password"

\* redactText
Redacted(value) == IF value = "credential" THEN "redacted" ELSE value

\* Mutant: an object is remembered only while it is a list.
RepeatedList(value) == value \in expanded /\ heap[value].list

\* seen.has: an object met before, circular or only shared, is not walked again.
Repeated(value) == value \in expanded

Entries(o, path) ==
    LET Present(k) == IF heap[o][k] # None THEN <<k>> ELSE <<>>
        present == Present("detail") \o Present("password")
    IN  [i \in DOMAIN present |->
            [path |-> Append(path, present[i]), value |-> heap[o][present[i]],
             key |-> IF heap[o].list THEN None ELSE present[i]]]

Show(entry, leaf) == shown' = shown \cup {[path |-> entry.path, key |-> entry.key, value |-> entry.value, leaf |-> leaf]}

\* sanitizeLogValue, one value: a sensitive key hides whatever it holds.
Sanitize ==
    /\ todo # <<>>
    /\ LET entry == Head(todo)
       IN  IF Sensitive(entry.key) THEN
             Show(entry, "redacted") /\ todo' = Tail(todo) /\ UNCHANGED expanded
           ELSE IF entry.value \in Texts THEN
             Show(entry, Redacted(entry.value)) /\ todo' = Tail(todo) /\ UNCHANGED expanded
           ELSE IF Repeated(entry.value) THEN
             Show(entry, "circular") /\ todo' = Tail(todo) /\ UNCHANGED expanded
           ELSE /\ Show(entry, "object") /\ expanded' = expanded \cup {entry.value}
                /\ todo' = Entries(entry.value, entry.path) \o Tail(todo)
    /\ UNCHANGED heap
-----------------------------------------------------------------------------
RedactionTypeOK ==
    /\ expanded \subseteq LoggedObjects
    /\ \A entry \in shown : entry.value \in Values /\ entry.leaf \in {"plain", "redacted", "circular", "object"}

\* No credential is shown and nothing under a sensitive key is; what is not shown is shown
\* elsewhere: every object met is walked once, all its entries shown (logger.ts: sanitizeLogValue).
LogShowsAllButSecrets ==
    /\ \A e \in shown : e.leaf # "credential" /\ (e.key = "password" => e.leaf = "redacted")
    /\ \A e \in shown : e.leaf \in {"circular", "object"} =>
          \E d \in shown : d.value = e.value /\ d.leaf = "object"
    /\ \A d, e \in shown : (d.leaf = "object" /\ e.leaf = "object" /\ d.value = e.value) => d = e
    /\ todo = <<>> =>
          \A d \in shown : d.leaf = "object" =>
             \A i \in DOMAIN Entries(d.value, d.path) :
                \E s \in shown : s.path = Entries(d.value, d.path)[i].path
-----------------------------------------------------------------------------
(* The fields of a record. *)

\* A field that is reserved, one that is not, and one with an alias; each is given by nobody, the
\* call, the details or the n-th context.
Fields == {"event", "tenant", "request_id"}
By(who, n) == [who |-> who, n |-> n]
Nobody == By("nobody", 0)
Unnamed == [f \in Fields |-> Nobody]
Given == [Unnamed EXCEPT !.event = By("call", 0)]
NoEvent == [made |-> FALSE, audit |-> FALSE, actor |-> None, details |-> {}]

RecordInit == contexts = <<>> /\ context = Unnamed /\ record = Unnamed /\ event = NoEvent

\* normalizeContext: requestId and request_id are one field; a value is its context.
Alias(f) == IF f = "requestId" THEN "request_id" ELSE f

\* Mutant: what the parent's context names stays.
MergedUnder(old, names, n) ==
    [f \in Fields |-> IF old[f] = Nobody /\ \E k \in names : Alias(k) = f THEN By("context", n) ELSE old[f]]

\* child: the parent's context with the child's over it.
Merged(old, names, n) ==
    [f \in Fields |-> IF \E k \in names : Alias(k) = f THEN By("context", n) ELSE old[f]]

\* child, withContext: one with both spellings of the request's field is left out.
Child(names) ==
    /\ Len(contexts) < MaxContexts /\ ~({"requestId", "request_id"} \subseteq names)
    /\ contexts' = Append(contexts, names)
    /\ context' = Merged(context, names, Len(contexts'))
    /\ record' = Unnamed /\ UNCHANGED event

\* log: the details may not name a reserved field; the contexts come last and may.
Log(details) ==
    /\ record' = [f \in Fields |->
                    IF context[f] # Nobody THEN context[f]
                    ELSE IF f \in details \ {"event"} THEN By("details", 0) ELSE Given[f]]
    /\ UNCHANGED <<contexts, context, event>>

\* Mutant: an audit event without an actor is one all the same.
IdentifierThrowsWhenGiven(actor, audit) == actor = "malformed"

\* normalizeIdentifier: an audit event has an actor.
IdentifierThrows(actor, audit) == actor = "malformed" \/ (audit /\ actor = None)

\* createStructuredEvent, createAuditEvent: the details keep what is not the event's own.
CreateEvent(actor, audit, details, fits) ==
    /\ event' = IF IdentifierThrows(actor, audit) \/ ~fits THEN NoEvent
                ELSE [made |-> TRUE, audit |-> audit, actor |-> actor,
                      details |-> details \ {"event", "tenant"}]
    /\ UNCHANGED <<contexts, context, record>>

RecordNext ==
    \/ \E names \in SUBSET (Fields \cup {"requestId"}) : Child(names)
    \/ \E details \in SUBSET Fields : Log(details)
    \/ \E actor \in {"actor", "malformed", None}, audit, fits \in BOOLEAN, details \in SUBSET Fields :
          CreateEvent(actor, audit, details, fits)

-----------------------------------------------------------------------------
RecordTypeOK ==
    /\ Len(contexts) <= MaxContexts
    /\ context \in [Fields -> [who : {"nobody", "context"}, n : 0 .. MaxContexts]]
    /\ record \in [Fields -> [who : {"nobody", "context", "call", "details"}, n : 0 .. MaxContexts]]
    /\ event \in [made : BOOLEAN, audit : BOOLEAN, actor : {"actor", None}, details : SUBSET Fields]

Naming(f) == {n \in DOMAIN contexts : \E k \in contexts[n] : Alias(k) = f}

\* A record is the one of the innermost logger that names a field, and of its own call and its
\* details otherwise; who did it is in every audit event (logger.ts: log, child;
\* structured-event.ts: createAuditEvent).
RecordsBelong ==
    /\ \A f \in Fields : record[f].who = "context" =>
          record[f].n \in Naming(f) /\ \A k \in Naming(f) : k <= record[f].n
    /\ record # Unnamed => \A f \in Fields : Naming(f) # {} => record[f].who = "context"
    /\ event.audit => event.actor # None
=============================================================================
