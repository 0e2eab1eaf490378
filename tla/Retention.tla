------------------------------ MODULE Retention ------------------------------
(***************************************************************************)
(* The retention store (retention.ts): items in the trash, their holds and  *)
(* locks, and the batch that purges what is due.  The store is synchronous, *)
(* but the batch calls an adapter for every item, and the adapter may call  *)
(* the store back: the operations below run outside a batch or inside one   *)
(* of its callbacks.  An item deleted again is a new record that keeps the  *)
(* holds of the old one; the batch goes on with the old one.  A repeated    *)
(* idempotency key changes nothing; limits of a batch are left out, and so  *)
(* is the batch over several users.  The dates of a deletion, a lock and a  *)
(* batch are the caller's own; the store's clock `now` is asked for holds.  *)
(***************************************************************************)
EXTENDS Naturals, FiniteSets

CONSTANTS Items, Worker, OtherWorker, RetentionTime, LeaseTime,
          MaxTime, MaxGeneration            \* bounds

VARIABLES now, item, holdUntil, batch

vars == <<now, item, holdUntil, batch>>

NoHold == 0
Forever == MaxTime + 1
Unlocked == [owner |-> "nobody", until |-> 0]
Later == 0 .. MaxTime + RetentionTime + LeaseTime

ItemRecords == [generation : 0 .. MaxGeneration, state : {"none", "trashed", "restored", "purged"},
                retentionUntil : Later, lock : [owner : {"nobody", Worker, OtherWorker}, until : Later]]
NoItem == [generation |-> 0, state |-> "none", retentionUntil |-> 0, lock |-> Unlocked]
NoBatch == [running |-> FALSE, calling |-> {}, startedAt |-> 0, todo |-> {}, old |-> NoItem]

TypeOK ==
    /\ now \in 0 .. MaxTime
    /\ item \in [Items -> ItemRecords]
    /\ holdUntil \in [Items -> NoHold .. Forever]
    /\ batch \in [running : BOOLEAN, calling : SUBSET Items, startedAt : 0 .. MaxTime,
                  todo : SUBSET Items, old : ItemRecords]

Init ==
    /\ now = 0 /\ item = [i \in Items |-> NoItem] /\ holdUntil = [i \in Items |-> NoHold]
    /\ batch = NoBatch

\* activeHolds and locked
Held(i, date) == holdUntil[i] > date
Locked(i, date) == item[i].lock.until > date

\* Where an operation may run.
Open == ~batch.running \/ batch.calling # {}

Tick == Open /\ now < MaxTime /\ now' = now + 1 /\ UNCHANGED <<item, holdUntil, batch>>

\* markDeleted: a new record, unlocked
MarkDeleted(i, date) ==
    /\ Open /\ item[i].generation < MaxGeneration
    /\ item' = [item EXCEPT ![i] = [generation |-> @.generation + 1, state |-> "trashed",
                                    retentionUntil |-> date + RetentionTime, lock |-> Unlocked]]
    /\ UNCHANGED <<now, holdUntil, batch>>

Exists(i) == item[i].state # "none"

RestoreItem(i) ==
    /\ Open /\ Exists(i) /\ item[i].state # "purged"
    /\ item' = [item EXCEPT ![i].state = "restored", ![i].retentionUntil = 0, ![i].lock = Unlocked]
    /\ UNCHANGED <<now, holdUntil, batch>>

\* addHold and releaseHold; a hold that is there stays as it is
AddHold(i, until) ==
    /\ Open /\ Exists(i) /\ holdUntil[i] = NoHold /\ until > now
    /\ holdUntil' = [holdUntil EXCEPT ![i] = until]
    /\ UNCHANGED <<now, item, batch>>

ReleaseHold(i) ==
    /\ Open /\ holdUntil[i] # NoHold
    /\ holdUntil' = [holdUntil EXCEPT ![i] = NoHold]
    /\ UNCHANGED <<now, item, batch>>

\* acquireLock, releaseLock
AcquireLock(i, owner, date) ==
    /\ Open /\ Exists(i) /\ (Locked(i, date) => item[i].lock.owner = owner)
    /\ item' = [item EXCEPT ![i].lock = [owner |-> owner, until |-> date + LeaseTime]]
    /\ UNCHANGED <<now, holdUntil, batch>>

ReleaseLock(i, owner) ==
    /\ Open /\ item[i].lock.owner = owner
    /\ item' = [item EXCEPT ![i].lock = Unlocked]
    /\ UNCHANGED <<now, holdUntil, batch>>
-----------------------------------------------------------------------------
(* runPurgeBatch *)

Due(record, date) == record.state = "trashed" /\ record.retentionUntil <= date

Candidate(i, date) == Due(item[i], date) /\ ~Held(i, date) /\ ~Locked(i, date)

StartBatch(date) ==
    /\ ~batch.running
    /\ batch' = [NoBatch EXCEPT !.running = TRUE, !.startedAt = date,
                                !.todo = {i \in Items : Candidate(i, date)}]
    /\ UNCHANGED <<now, item, holdUntil>>

\* An item that is no candidate any more is skipped, another is locked and handed over.
TakeItem(i) ==
    /\ batch.running /\ batch.calling = {} /\ i \in batch.todo
    /\ IF Candidate(i, batch.startedAt)
         THEN LET lock == [owner |-> Worker, until |-> batch.startedAt + LeaseTime] IN
              /\ item' = [item EXCEPT ![i].lock = lock]
              /\ batch' = [batch EXCEPT !.todo = @ \ {i}, !.calling = {i},
                                        !.old = [item[i] EXCEPT !.lock = lock]]
         ELSE UNCHANGED item /\ batch' = [batch EXCEPT !.todo = @ \ {i}]
    /\ UNCHANGED <<now, holdUntil>>

\* Mutant: what the adapter was asked to do is done, whatever it did to the item.
TakenForDue(i) == TRUE

\* The second look, at the record that was taken; the lock is not looked at again.
StillDue(i) == Due(item[i], batch.startedAt) /\ ~Held(i, batch.startedAt)

\* The adapter has answered; a record replaced since keeps its new state.
AnswerItem(i, accepted) ==
    /\ batch.calling = {i}
    /\ item' = IF batch.old.generation # item[i].generation THEN item
               ELSE [item EXCEPT ![i].lock = Unlocked,
                                 ![i].state = IF accepted /\ StillDue(i) THEN "purged" ELSE @]
    /\ batch' = [batch EXCEPT !.calling = {}, !.old = NoItem]
    /\ UNCHANGED <<now, holdUntil>>

EndBatch ==
    /\ batch.running /\ batch.calling = {} /\ batch.todo = {}
    /\ batch' = NoBatch /\ UNCHANGED <<now, item, holdUntil>>

Next ==
    \/ Tick \/ EndBatch
    \/ \E date \in 0 .. MaxTime : StartBatch(date)
    \/ \E i \in Items :
          \/ RestoreItem(i) \/ ReleaseHold(i) \/ TakeItem(i)
          \/ \E until \in 1 .. Forever : AddHold(i, until)
          \/ \E date \in 0 .. MaxTime : MarkDeleted(i, date)
          \/ \E w \in {Worker, OtherWorker} :
                ReleaseLock(i, w) \/ \E date \in 0 .. MaxTime : AcquireLock(i, w, date)
          \/ \E accepted \in BOOLEAN : AnswerItem(i, accepted)

Spec == Init /\ [][Next]_vars
-----------------------------------------------------------------------------
\* An item is recorded as purged only as the deletion the batch took, whose time was up at the
\* batch's own date and that nothing held then, not as one the adapter's callback restored, held
\* or deleted anew; and from there it comes back only as a new deletion.
RetentionSteps ==
    \A i \in Items :
        /\ item'[i].state = "purged" /\ item[i].state # "purged" =>
              /\ batch.calling = {i} /\ item[i].generation = batch.old.generation
              /\ Due(item[i], batch.startedAt) /\ ~Held(i, batch.startedAt)
        /\ item[i].state = "purged" /\ item'[i].state # "purged" =>
              item'[i].generation > item[i].generation /\ item'[i].state = "trashed"

ItemsRetained == [][RetentionSteps]_vars
=============================================================================
