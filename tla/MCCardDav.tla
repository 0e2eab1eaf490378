------------------------------ MODULE MCCardDav ------------------------------
(* Small instances of CardDavPostgres for TLC. *)
EXTENDS CardDavPostgres, TLC

CONSTANTS alice, bob, phone, h1, h2, a1, a2, b1, uidA, uidB

\* a1 and a2 are two versions of one contact, b1 is another contact.
MCUidOf == [k \in {a1, a2, b1} |-> IF k = b1 THEN uidB ELSE uidA]
MCUidOfOne == [k \in {a1, a2} |-> uidA]

Put(href, card, ifMatch, ifNoneMatch) ==
    [op |-> "putContact", href |-> href, card |-> card,
     ifMatch |-> ifMatch, ifNoneMatch |-> ifNoneMatch]

Create(href, card, ifNoneMatch) ==
    [op |-> "createContact", href |-> href, card |-> card,
     ifMatch |-> Absent, ifNoneMatch |-> ifNoneMatch]

Delete(href, ifMatch) == [op |-> "deleteContact", href |-> href, ifMatch |-> ifMatch]
DeleteBook(ifMatch) == [op |-> "deleteAddressBook", ifMatch |-> ifMatch]
CreateBook == [op |-> "createAddressBook"]

\* Writers that race on two hrefs and one UID, with and without preconditions.
WriterRequests ==
    { Put(h1, a1, Absent, TRUE), Put(h2, a2, Absent, TRUE),
      Put(h1, a2, a1, FALSE), Put(h1, a1, AnyEtag, FALSE), Put(h1, b1, AnyEtag, FALSE),
      Put(h1, a2, Absent, FALSE), Put(h1, a1, Absent, FALSE),
      Create(h2, b1, TRUE), Delete(h1, a1), Delete(h1, AnyEtag), Delete(h2, Absent),
      DeleteBook(1), CreateBook }

\* The same, and the create without If-None-Match that no route sends.
FaultRequests ==
    { Put(h1, a1, Absent, TRUE), Put(h1, a2, a1, FALSE), Put(h1, a1, a2, FALSE),
      Delete(h1, AnyEtag), Create(h2, b1, TRUE), Create(h2, a1, FALSE),
      DeleteBook(AnyEtag), CreateBook }

\* A writer a replica reads behind.
SyncRequests ==
    { Put(h1, a1, Absent, TRUE), Put(h1, a2, AnyEtag, FALSE), Put(h2, b1, Absent, TRUE),
      Delete(h1, AnyEtag), DeleteBook(AnyEtag), CreateBook }

EitherRequests == WriterRequests \cup SyncRequests

ClientSymmetry == Permutations(Clients)
-----------------------------------------------------------------------------
(* A behaviour is one of racing writers, or of one writer and the replicas  *)
(* that read behind it: what a replica reads is committed, whoever did it.  *)
(* "everyone" does all of it at once.                                       *)

CONSTANT Scenes
VARIABLE scene          \* "everyone", "writers", or the writer the replicas read behind

MayAct(c) == scene \in {"everyone", "writers", c}
MayIssue(c) ==
    CASE scene = "everyone" -> TRUE
      [] scene = "writers" -> req'[c] \in {NoRequest} \cup WriterRequests
      [] OTHER -> req'[c] \in {NoRequest} \cup SyncRequests

MCInit == Init /\ scene \in Scenes

MCNext ==
    \/ \E c \in Clients : MayAct(c) /\ ClientNext(c) /\ MayIssue(c) /\ UNCHANGED scene
    \/ \E r \in Replicas : scene # "writers" /\ ReplicaNext(r) /\ UNCHANGED scene

MCSpec == MCInit /\ [][MCNext]_<<vars, scene>>
MCFairSpec == MCSpec /\ Fairness

WritersOrOne == {"writers"} \cup Clients
=============================================================================
