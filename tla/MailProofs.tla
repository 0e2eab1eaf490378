----------------------------- MODULE MailProofs -----------------------------
(***************************************************************************)
(* Proofs about MailDelivery for every number of entries, workers and       *)
(* recipients and every maxAttempts, with answers that come late or never    *)
(* and connections that break anywhere.                                     *)
(*                                                                         *)
(* The argument: an entry is in delivery in exactly one session (HoldInv);  *)
(* answers come in the order of the commands and only DATA is answered with *)
(* "go", so a session that has read "go" has read everything before it and  *)
(* the next answer is the message's own (WireInv); hence what the client     *)
(* concludes from that answer, or from none, agrees with what the server has *)
(* taken or may yet take (TakenInv).                                        *)
(***************************************************************************)
EXTENDS MailDelivery, SequenceTheorems, TLAPS

-----------------------------------------------------------------------------
(* The invariant. *)

Busy(w) == At(w) # "idle"

AttemptsInv ==
    \A e \in Entries :
        /\ state[e] \in {"absent", "queued"} => attempts[e] = 0
        /\ state[e] = "deferred" => attempts[e] < MaxAttempts

HoldInv ==
    /\ \A w \in Workers : Busy(w) => state[Entry(w)] = "delivering"
    /\ \A e \in Entries : state[e] = "delivering" => \E w \in Workers : Busy(w) /\ Entry(w) = e
    /\ OneSessionPerEntry

AfterRecipients == {"read", "data", "data-answer", "body", "body-answer"}

\* No answer on its way is the one that DATA would be answered with.
NoGo(answers) == \A i \in 1 .. Len(answers) : answers[i] # "go"

Wired(w) ==
    /\ body[w] => At(w) = "body-answer" /\ wire[w] = <<>>
    /\ At(w) \in {"idle", "connect", "upgrade", "login", "body"} => wire[w] = <<>>
    /\ At(w) \in {"rcpt", "rcpt-answer", "read", "data"} => NoGo(wire[w])
    /\ At(w) = "data-answer" => \A i \in 1 .. Len(wire[w]) - 1 : wire[w][i] # "go"
    /\ At(w) = "body-answer" => Len(wire[w]) <= 1
    /\ At(w) = "rcpt-answer" => session[w].rcpt <= Recipients
    /\ At(w) \in AfterRecipients => session[w].accepted # {}

WireInv == \A w \in Workers : Wired(w)

\* What a session knows of the copies of its entry.
Copied(w) ==
    /\ At(w) \notin {"idle", "body-answer", "quit"} => copies[Entry(w)] = 0
    /\ At(w) = "quit" => copies[Entry(w)] = IF session[w].accepted # {} THEN 1 ELSE 0
    /\ At(w) = "body-answer" =>
          /\ copies[Entry(w)] \in {0, 1}
          /\ body[w] => copies[Entry(w)] = 0
          /\ wire[w] # <<>> =>
               /\ Head(wire[w]) \in {"ok", "temp", "perm", "bad"}
               /\ Head(wire[w]) = "ok" => copies[Entry(w)] = 1
               /\ Head(wire[w]) \in {"temp", "perm"} => copies[Entry(w)] = 0

TakenInv ==
    /\ \A e \in Entries :
         /\ state[e] \in {"absent", "queued", "deferred", "bounced"} => copies[e] = 0
         /\ state[e] = "delivered" => copies[e] = 1
         /\ state[e] # "quarantined" => late[e] = 0
         /\ copies[e] + late[e] <= 1
    /\ \A w \in Workers : Copied(w)

IInv == TypeOK /\ AttemptsInv /\ HoldInv /\ WireInv /\ TakenInv
-----------------------------------------------------------------------------
(* Answers on their way. *)

LEMMA NoGoAppend ==
  ASSUME NEW q \in Seq(Answers), NEW a \in Answers, NoGo(q), a # "go"
  PROVE  NoGo(Append(q, a))
  BY LenProperties DEF NoGo

LEMMA NoGoTail ==
  ASSUME NEW q \in Seq(Answers), q # <<>>, NoGo(q)
  PROVE  Tail(q) \in Seq(Answers) /\ NoGo(Tail(q))
<1>1. /\ Tail(q) \in Seq(Answers) /\ Len(Tail(q)) = Len(q) - 1
      /\ \A i \in 1 .. Len(Tail(q)) : Tail(q)[i] = q[i + 1]
  BY HeadTailProperties
<1>2. Len(q) \in Nat /\ Len(Tail(q)) \in Nat
  BY <1>1, LenProperties
<1>3. ASSUME NEW i \in 1 .. Len(Tail(q)) PROVE Tail(q)[i] # "go"
  <2>1. i + 1 \in 1 .. Len(q) /\ Tail(q)[i] = q[i + 1]
    BY <1>1, <1>2
  <2> QED
    BY <2>1 DEF NoGo
<1> QED
  BY <1>1, <1>3 DEF NoGo

\* Only the last answer may be "go": when it is read, nothing is left.
LEMMA GoIsLast ==
  ASSUME NEW q \in Seq(Answers), q # <<>>, Head(q) = "go",
         \A i \in 1 .. Len(q) - 1 : q[i] # "go"
  PROVE  Tail(q) = <<>>
<1>1. Tail(q) \in Seq(Answers) /\ Len(Tail(q)) = Len(q) - 1 /\ Len(q) \in Nat
  BY HeadTailProperties, LenProperties
<1>2. Head(q) = q[1]
  OBVIOUS
<1>3. Len(q) # 0
  BY EmptySeq
<1>4. Len(q) = 1
  BY <1>1, <1>2, <1>3
<1>5. ASSUME NEW r \in Seq(Answers), Len(r) = 0 PROVE r = <<>>
  BY <1>5, EmptySeq
<1> DEFINE r == Tail(q)
<1>6. r \in Seq(Answers) /\ Len(r) = 0
  BY <1>1, <1>4
<1> HIDE DEF r
<1>7. r = <<>>
  BY <1>5, <1>6
<1> QED
  BY <1>7 DEF r

-----------------------------------------------------------------------------
(* Init, and the two shapes of a worker's step. *)

LEMMA IInvInit == Init => IInv
<1> SUFFICES ASSUME Init PROVE IInv
  OBVIOUS
<1>1. \A w \in Workers : session[w] = Idle /\ At(w) = "idle" /\ wire[w] = <<>> /\ ~body[w]
  BY DEF Init, At, Idle
<1>2. Idle \in Sessions
  BY DeliveryAssumption DEF Idle, Sessions, Steps
<1>3. TypeOK
  <2>1. \A e \in Entries : 0 \in 0 .. MaxAttempts
    BY DeliveryAssumption
  <2>2. wire \in [Workers -> Seq(Answers)]
    BY EmptySeq DEF Init
  <2> QED
    BY <1>1, <1>2, <2>1, <2>2 DEF Init, TypeOK, States, Reasons, At, Entry
<1>4. WireInv
  <2>1. ASSUME NEW w \in Workers PROVE Wired(w)
    BY <1>1 DEF Wired, AfterRecipients
  <2> QED
    BY <2>1 DEF WireInv
<1> QED
  BY <1>1, <1>3, <1>4
  DEF Init, IInv, AttemptsInv, HoldInv, TakenInv, Copied, Busy, OneSessionPerEntry

\* The worker goes on with its entry; queue and server's copies are as before.
LEMMA Stays ==
  ASSUME IInv, NEW w \in Workers, Busy(w), NEW s \in Sessions, NEW q \in Seq(Answers),
         NEW b \in BOOLEAN, s.at # "idle", s.entry = Entry(w),
         session' = [session EXCEPT ![w] = s], wire' = [wire EXCEPT ![w] = q],
         body' = [body EXCEPT ![w] = b], open' \in [Workers -> BOOLEAN],
         valid' \in [Workers -> SUBSET (1 .. Recipients)],
         UNCHANGED <<queue, late, copies>>, Wired(w)', Copied(w)'
  PROVE  IInv'
<1> USE DEF queue
<1>1. TypeOK
  BY DEF IInv
<1>2. /\ session'[w] = s /\ \A v \in Workers \ {w} : session'[v] = session[v]
      /\ \A v \in Workers \ {w} : wire'[v] = wire[v] /\ body'[v] = body[v]
      /\ At(w)' = s.at /\ Entry(w)' = Entry(w) /\ At(w) # "idle"
  BY <1>1 DEF TypeOK, At, Entry, Busy
<1>3. \A v \in Workers : /\ Busy(v)' <=> Busy(v)
                         /\ Entry(v)' = Entry(v)
  BY <1>2 DEF Busy, At, Entry
<1>4. TypeOK'
  <2>1. /\ session' \in [Workers -> Sessions] /\ wire' \in [Workers -> Seq(Answers)]
        /\ body' \in [Workers -> BOOLEAN]
    BY <1>1 DEF TypeOK
  <2>2. \A v \in Workers : At(v)' # "idle" => Entry(v)' \in Entries
    BY <1>1, <1>3 DEF TypeOK, Busy
  <2> QED
    BY <1>1, <2>1, <2>2 DEF TypeOK
<1>5. AttemptsInv'
  BY DEF IInv, AttemptsInv
<1>6. HoldInv'
  <2>1. \A v \in Workers : Busy(v)' => state'[Entry(v)'] = "delivering"
    BY <1>3 DEF IInv, HoldInv
  <2>2. \A e \in Entries : state'[e] = "delivering" => \E v \in Workers : Busy(v)' /\ Entry(v)' = e
    BY <1>3 DEF IInv, HoldInv
  <2>3. OneSessionPerEntry'
    BY <1>3 DEF IInv, HoldInv, OneSessionPerEntry, Busy
  <2> QED
    BY <2>1, <2>2, <2>3 DEF HoldInv
<1>7. WireInv'
  <2>1. ASSUME NEW v \in Workers \ {w} PROVE Wired(v)'
    BY <1>2 DEF IInv, WireInv, Wired, At
  <2> QED
    BY <2>1 DEF WireInv
<1>8. TakenInv'
  <2>1. ASSUME NEW v \in Workers \ {w} PROVE Copied(v)'
    BY <1>2 DEF IInv, TakenInv, Copied, At, Entry
  <2> QED
    BY <2>1 DEF IInv, TakenInv
<1> QED
  BY <1>4, <1>5, <1>6, <1>7, <1>8 DEF IInv

\* The worker is done with its entry; `f` agrees with what the server has.
Agrees(w, f) ==
    /\ f \in {"deferred", "delivered", "bounced", "quarantined"}
    /\ f = "deferred" => attempts[Entry(w)] < MaxAttempts
    /\ f # "quarantined" => ~body[w]
    /\ f \in {"deferred", "bounced"} => copies[Entry(w)] = 0
    /\ f = "delivered" => copies[Entry(w)] = 1
    /\ f = "quarantined" => At(w) = "body-answer"

LEMMA Leaves ==
  ASSUME IInv, NEW w \in Workers, Busy(w), Leave(w), NEW f, Agrees(w, f),
         state' = [state EXCEPT ![Entry(w)] = f],
         reason' \in [Entries -> Reasons]
  PROVE  IInv'
<1> DEFINE e == Entry(w)
<1>1. TypeOK
  BY DEF IInv
<1>2. e \in Entries /\ state[e] = "delivering" /\ late[e] = 0
  <2>1. At(w) # "idle"
    BY DEF Busy
  <2>2. e \in Entries /\ state[e] = "delivering"
    BY <1>1, <2>1 DEF TypeOK, IInv, HoldInv
  <2> QED
    BY <2>2 DEF IInv, TakenInv
<1>3. /\ session'[w] = Idle /\ wire'[w] = <<>> /\ body'[w] = FALSE
      /\ \A v \in Workers \ {w} : /\ session'[v] = session[v] /\ wire'[v] = wire[v]
                                /\ body'[v] = body[v]
  BY <1>1 DEF Leave, TypeOK
<1>4. /\ attempts' = attempts /\ copies' = copies /\ state'[e] = f
      /\ \A d \in Entries \ {e} : state'[d] = state[d] /\ late'[d] = late[d]
      /\ late'[e] = late[e] + (IF body[w] THEN 1 ELSE 0)
  BY <1>1, <1>2 DEF Leave, TypeOK
<1>5. At(w)' = "idle" /\ ~Busy(w)'
  BY <1>3 DEF At, Idle, Busy
<1>6. \A v \in Workers \ {w} : Busy(v) => Entry(v) # e
  BY DEF IInv, HoldInv, OneSessionPerEntry, Busy
<1>7. \A v \in Workers \ {w} : At(v)' = At(v) /\ Entry(v)' = Entry(v) /\ (Busy(v)' <=> Busy(v))
  BY <1>3 DEF At, Entry, Busy
<1>8. TypeOK'
  <2>1. Idle \in Sessions
    BY DeliveryAssumption DEF Idle, Sessions, Steps
  <2>2. wire' \in [Workers -> Seq(Answers)]
    BY <1>1, EmptySeq DEF Leave, TypeOK
  <2>3. state' \in [Entries -> States]
    BY <1>1 DEF TypeOK, Agrees, States
  <2>4. late' \in [Entries -> Nat]
    BY <1>1, <1>2 DEF TypeOK, Leave
  <2>5. \A v \in Workers : At(v)' # "idle" => Entry(v)' \in Entries
    BY <1>1, <1>5, <1>7 DEF TypeOK
  <2> QED
    BY <1>1, <1>4, <2>1, <2>2, <2>3, <2>4, <2>5 DEF TypeOK, Leave
<1>9. AttemptsInv'
  BY <1>2, <1>4 DEF IInv, AttemptsInv, Agrees
<1>10. HoldInv'
  <2>1. ASSUME NEW v \in Workers, Busy(v)' PROVE state'[Entry(v)'] = "delivering"
    <3>1. v # w /\ Busy(v) /\ Entry(v)' = Entry(v) /\ Entry(v) # e
      BY <1>5, <1>6, <1>7, <2>1
    <3>2. Entry(v) \in Entries /\ state[Entry(v)] = "delivering"
      BY <1>1, <3>1 DEF TypeOK, Busy, IInv, HoldInv
    <3> QED
      BY <1>4, <3>1, <3>2
  <2>2. ASSUME NEW d \in Entries, state'[d] = "delivering"
        PROVE  \E v \in Workers : Busy(v)' /\ Entry(v)' = d
    <3>1. d # e /\ state[d] = "delivering"
      BY <1>4, <2>2 DEF Agrees
    <3>2. PICK v \in Workers : Busy(v) /\ Entry(v) = d
      BY <3>1 DEF IInv, HoldInv
    <3> QED
      BY <1>7, <3>1, <3>2
  <2>3. OneSessionPerEntry'
    BY <1>5, <1>7 DEF IInv, HoldInv, OneSessionPerEntry
  <2> QED
    BY <2>1, <2>2, <2>3 DEF HoldInv
<1>11. WireInv'
  <2>1. ASSUME NEW v \in Workers \ {w} PROVE Wired(v)'
    BY <1>3, <1>7 DEF IInv, WireInv, Wired
  <2>2. Wired(w)'
    BY <1>3, <1>5 DEF Wired, AfterRecipients
  <2> QED
    BY <2>1, <2>2 DEF WireInv
<1>12. TakenInv'
  <2>1. ASSUME NEW v \in Workers \ {w} PROVE Copied(v)'
    BY <1>3, <1>4, <1>7 DEF IInv, TakenInv, Copied
  <2>2. Copied(w)'
    BY <1>5 DEF Copied
  <2>3. f = "quarantined" => copies[e] \in {0, 1} /\ (body[w] => copies[e] = 0)
    BY DEF IInv, TakenInv, Copied, Agrees
  <2>4. ASSUME NEW d \in Entries
        PROVE  /\ state'[d] \in {"absent", "queued", "deferred", "bounced"} => copies'[d] = 0
               /\ state'[d] = "delivered" => copies'[d] = 1
               /\ state'[d] # "quarantined" => late'[d] = 0
               /\ copies'[d] + late'[d] <= 1
    <3>1. CASE d # e
      BY <1>4, <3>1 DEF IInv, TakenInv
    <3>2. CASE d = e
      BY <1>2, <1>4, <2>3, <3>2 DEF Agrees
    <3> QED
      BY <3>1, <3>2
  <2> QED
    BY <2>1, <2>2, <2>4 DEF TakenInv
<1> QED
  BY <1>8, <1>9, <1>10, <1>11, <1>12 DEF IInv
-----------------------------------------------------------------------------
(* The steps of a worker. *)

\* What a worker at work knows of its entry.
LEMMA AtWork ==
  ASSUME IInv, NEW w \in Workers, Busy(w)
  PROVE  /\ session[w] \in Sessions /\ wire[w] \in Seq(Answers) /\ body[w] \in BOOLEAN
         /\ Entry(w) \in Entries /\ state[Entry(w)] = "delivering" /\ late[Entry(w)] = 0
         /\ Wired(w) /\ Copied(w)
<1>1. At(w) # "idle" /\ TypeOK
  BY DEF Busy, IInv
<1>2. Entry(w) \in Entries /\ state[Entry(w)] = "delivering"
  BY <1>1 DEF TypeOK, IInv, HoldInv
<1> QED
  BY <1>1, <1>2 DEF TypeOK, IInv, TakenInv, WireInv

LEMMA Moves ==
  ASSUME IInv, NEW w \in Workers, Busy(w), NEW s \in Sessions,
         s.at # "idle", s.entry = Entry(w), session' = [session EXCEPT ![w] = s],
         UNCHANGED <<queue, wire, valid, body, late, copies>>,
         open' \in [Workers -> BOOLEAN], Wired(w)', Copied(w)'
  PROVE  IInv'
<1>1. TypeOK
  BY DEF IInv
<1>2. wire' = [wire EXCEPT ![w] = wire[w]] /\ body' = [body EXCEPT ![w] = body[w]]
  BY <1>1 DEF TypeOK
<1>3. wire[w] \in Seq(Answers) /\ body[w] \in BOOLEAN
  BY AtWork
<1>4. valid' \in [Workers -> SUBSET (1 .. Recipients)]
  BY <1>1 DEF TypeOK
<1> QED
  BY <1>2, <1>3, <1>4, Stays DEF queue

LEMMA Completes ==
  ASSUME IInv, NEW w \in Workers, Busy(w), Leave(w), NEW f, NEW why \in Reasons,
         Agrees(w, f), Complete(Entry(w), f, why)
  PROVE  IInv'
<1>1. reason' \in [Entries -> Reasons]
  BY DEF Complete, IInv, TypeOK
<1>2. state' = [state EXCEPT ![Entry(w)] = f]
  BY DEF Complete
<1> QED
  BY <1>1, <1>2, Leaves

LEMMA Defers ==
  ASSUME IInv, NEW w \in Workers, Busy(w), Unanswered(w), ~body[w], copies[Entry(w)] = 0
  PROVE  IInv'
<1>1. PICK f \in {"bounced", "deferred"} :
        /\ f = "deferred" <=> ~(attempts[Entry(w)] >= MaxAttempts)
        /\ state' = [state EXCEPT ![Entry(w)] = f]
  BY DEF Unanswered, Defer
<1>2. reason' \in [Entries -> Reasons]
  <2>1. "retry_exhausted" \in Reasons /\ "smtp_temporary_failure" \in Reasons
    BY DEF Reasons
  <2> QED
    BY <2>1 DEF Unanswered, Defer, IInv, TypeOK
<1>3. Agrees(w, f)
  <2>1. attempts[Entry(w)] \in Nat /\ MaxAttempts \in Nat
    BY AtWork, DeliveryAssumption DEF IInv, TypeOK
  <2> QED
    BY <1>1, <2>1 DEF Agrees
<1> QED
  BY <1>1, <1>2, <1>3, Leaves DEF Unanswered

\* Before the message is written, no copy of it is out.
LEMMA Early ==
  ASSUME IInv, NEW w \in Workers, Busy(w), At(w) \notin {"body-answer", "quit"}
  PROVE  ~body[w] /\ copies[Entry(w)] = 0
  BY AtWork DEF Wired, Copied, Busy

LEMMA Refuses ==
  ASSUME IInv, NEW w \in Workers, Busy(w), NEW answer, Refused(w, answer),
         ~body[w], copies[Entry(w)] = 0
  PROVE  IInv'
<1>1. CASE Unanswered(w)
  BY <1>1, Defers
<1>2. CASE Complete(Entry(w), "bounced", "smtp_rejected") /\ Leave(w)
  <2>1. Agrees(w, "bounced") /\ "smtp_rejected" \in Reasons
    BY DEF Agrees, Reasons
  <2> QED
    BY <1>2, <2>1, Completes
<1> QED
  BY <1>1, <1>2 DEF Refused, Unanswered

\* Before the first recipient the server has answered nothing that is still to be read.
LEMMA Opens ==
  ASSUME IInv, NEW w \in Workers, At(w) \in {"connect", "upgrade", "login"},
         NEW step \in {"upgrade", "login", "rcpt"},
         session' = [session EXCEPT ![w].at = step],
         NEW up \in BOOLEAN, open' = [open EXCEPT ![w] = up], UNCHANGED <<queue, wire, serverVars>>
  PROVE  IInv'
<1>1. Busy(w) /\ ~body[w] /\ copies[Entry(w)] = 0
  BY Early DEF Busy
<1> DEFINE s == [session[w] EXCEPT !.at = step]
<1>2. s \in Sessions /\ s.at = step /\ s.entry = Entry(w)
  BY <1>1, AtWork DEF Sessions, Steps, Entry
<1>3. session' = [session EXCEPT ![w] = s] /\ session'[w] = s
  BY DEF IInv, TypeOK
<1>4. Wired(w)'
  <2>1. wire'[w] = <<>> /\ ~body'[w] /\ At(w)' = step
    BY <1>1, <1>2, <1>3, AtWork DEF Wired, At, serverVars
  <2> QED
    BY <2>1 DEF Wired, NoGo, AfterRecipients
<1>5. Copied(w)'
  BY <1>1, <1>2, <1>3 DEF Copied, At, Entry, serverVars
<1>6. open' \in [Workers -> BOOLEAN]
  BY DEF IInv, TypeOK
<1> HIDE DEF s
<1> QED
  BY <1>1, <1>2, <1>3, <1>4, <1>5, <1>6, Moves DEF serverVars

LEMMA Proceeds ==
  ASSUME IInv, NEW w \in Workers, At(w) \in {"connect", "upgrade"},
         NEW step \in {"upgrade", "login"}, Proceed(w, step)
  PROVE  IInv'
<1>1. open[w] \in BOOLEAN /\ open' = [open EXCEPT ![w] = open[w]]
  BY DEF Proceed, IInv, TypeOK
<1>2. session' = [session EXCEPT ![w].at = step] /\ UNCHANGED <<queue, wire, serverVars>>
  BY DEF Proceed
<1> QED
  BY <1>1, <1>2, Opens

LEMMA OpeningFailsStep ==
  ASSUME IInv, NEW w \in Workers, At(w) \in {"connect", "upgrade", "login"}, OpeningFails(w)
  PROVE  IInv'
<1>1. Busy(w) /\ ~body[w] /\ copies[Entry(w)] = 0
  BY Early DEF Busy
<1>2. CASE Unanswered(w)
  BY <1>1, <1>2, Defers
<1>3. CASE Complete(Entry(w), "bounced", "smtp_rejected") /\ Leave(w)
  <2>1. Refused(w, "perm")
    BY <1>3 DEF Refused
  <2> QED
    BY <1>1, <2>1, Refuses
<1> QED
  BY <1>2, <1>3 DEF OpeningFails

LEMMA ConnectStep ==
  ASSUME IInv, NEW w \in Workers, Connect(w)
  PROVE  IInv'
  BY Proceeds, OpeningFailsStep DEF Connect

LEMMA UpgradeStep ==
  ASSUME IInv, NEW w \in Workers, Upgrade(w)
  PROVE  IInv'
  BY Proceeds, OpeningFailsStep DEF Upgrade, OpeningFails

LEMMA LoginStep ==
  ASSUME IInv, NEW w \in Workers, Login(w)
  PROVE  IInv'
<1>1. CASE /\ session' = [session EXCEPT ![w].at = "rcpt"]
           /\ open' = [open EXCEPT ![w] = TRUE]
           /\ UNCHANGED <<queue, wire, serverVars>>
  BY <1>1, Opens DEF Login
<1>2. CASE OpeningFails(w)
  BY <1>2, OpeningFailsStep DEF Login
<1> QED
  BY <1>1, <1>2 DEF Login

\* The next recipient: what is on its way does not begin with "go".
LEMMA Skips ==
  ASSUME IInv, NEW w \in Workers, Busy(w), At(w) \in {"rcpt", "rcpt-answer"},
         session[w].rcpt <= Recipients, NEW s \in Sessions, s.at = "rcpt", s.entry = Entry(w),
         session' = [session EXCEPT ![w] = s], NEW q \in Seq(Answers), NoGo(q),
         wire' = [wire EXCEPT ![w] = q], UNCHANGED <<queue, open, serverVars>>
  PROVE  IInv'
<1>1. ~body[w] /\ copies[Entry(w)] = 0
  BY Early
<1>2. At(w)' = "rcpt" /\ Entry(w)' = Entry(w) /\ wire'[w] = q
  BY DEF At, Entry, IInv, TypeOK
<1>3. Wired(w)'
  BY <1>1, <1>2 DEF Wired, AfterRecipients, serverVars
<1>4. Copied(w)'
  BY <1>1, <1>2 DEF Copied, serverVars
<1>5. /\ body' = [body EXCEPT ![w] = FALSE] /\ open' \in [Workers -> BOOLEAN]
      /\ valid' \in [Workers -> SUBSET (1 .. Recipients)]
  BY <1>1 DEF IInv, TypeOK, serverVars
<1>6. s.at # "idle" /\ UNCHANGED <<queue, late, copies>>
  BY DEF serverVars
<1> QED
  BY <1>3, <1>4, <1>5, <1>6, Stays

LEMMA SkipStep ==
  ASSUME IInv, NEW w \in Workers, Busy(w), At(w) \in {"rcpt", "rcpt-answer"},
         session[w].rcpt <= Recipients, NEW soft \in BOOLEAN, Skip(w, soft),
         NEW q \in Seq(Answers), NoGo(q), wire' = [wire EXCEPT ![w] = q],
         UNCHANGED <<queue, open, serverVars>>
  PROVE  IInv'
<1> DEFINE s == [session[w] EXCEPT !.at = "rcpt", !.rcpt = @ + 1, !.soft = @ \/ soft]
<1>1. session[w] \in Sessions
  BY AtWork
<1>2. session[w].rcpt + 1 \in 1 .. Recipients + 1
  BY <1>1, DeliveryAssumption DEF Sessions
<1>3. s \in Sessions /\ s.at = "rcpt" /\ s.entry = Entry(w)
  BY <1>1, <1>2 DEF Sessions, Steps, Entry
<1>4. session' = [session EXCEPT ![w] = s]
  BY DEF Skip, IInv, TypeOK
<1> HIDE DEF s
<1> QED
  BY <1>3, <1>4, Skips
\* A command is sent: the worker waits, the server's answer is on its way.
LEMMA Sends ==
  ASSUME IInv, NEW w \in Workers, Busy(w), At(w) \in {"rcpt", "data"},
         NEW at \in {"rcpt-answer", "data-answer"}, NEW answer \in Answers,
         session[w].rcpt <= Recipients \/ at = "data-answer",
         at = "rcpt-answer" => answer # "go", at = "data-answer" => At(w) = "data",
         session' = [session EXCEPT ![w].at = at],
         wire' = [wire EXCEPT ![w] = Append(@, answer)],
         valid' \in [Workers -> SUBSET (1 .. Recipients)],
         UNCHANGED <<queue, open, body, late, copies>>
  PROVE  IInv'
<1> DEFINE s == [session[w] EXCEPT !.at = at]
           q == Append(wire[w], answer)
<1>1. session[w] \in Sessions /\ wire[w] \in Seq(Answers) /\ Wired(w) /\ Copied(w)
  BY AtWork
<1>2. s \in Sessions /\ s.at = at /\ s.entry = Entry(w) /\ s.rcpt = session[w].rcpt
      /\ s.accepted = session[w].accepted
  BY <1>1 DEF Sessions, Steps, Entry
<1>3. q \in Seq(Answers) /\ Len(q) = Len(wire[w]) + 1
      /\ \A i \in 1 .. Len(wire[w]) : q[i] = wire[w][i]
  BY <1>1
<1>4. session' = [session EXCEPT ![w] = s] /\ wire' = [wire EXCEPT ![w] = q]
      /\ session'[w] = s /\ wire'[w] = q
  BY DEF IInv, TypeOK
<1>5. ~body[w] /\ copies[Entry(w)] = 0
  BY Early
<1>6. NoGo(wire[w])
  BY <1>1 DEF Wired
<1>7. at = "rcpt-answer" => NoGo(q)
  BY <1>1, <1>6, NoGoAppend
<1>8. \A i \in 1 .. Len(q) - 1 : q[i] # "go"
  BY <1>1, <1>3, <1>6, LenProperties DEF NoGo
<1> HIDE DEF q, s
<1>9. Wired(w)'
  BY <1>1, <1>2, <1>4, <1>5, <1>7, <1>8 DEF Wired, At, AfterRecipients
<1>10. Copied(w)'
  BY <1>2, <1>4, <1>5 DEF Copied, At, Entry
<1>11. body' = [body EXCEPT ![w] = FALSE] /\ open' \in [Workers -> BOOLEAN]
  BY <1>5 DEF IInv, TypeOK
<1> QED
  BY <1>2, <1>3, <1>4, <1>9, <1>10, <1>11, Stays

LEMMA RcptStep ==
  ASSUME IInv, NEW w \in Workers, Rcpt(w)
  PROVE  IInv'
<1>1. At(w) = "rcpt" /\ Busy(w) /\ session[w].rcpt <= Recipients
  BY DEF Rcpt, Busy
<1>2. CASE ~open[w] /\ Skip(w, TRUE) /\ UNCHANGED <<queue, wire, open, serverVars>>
  <2>1. wire[w] \in Seq(Answers) /\ NoGo(wire[w]) /\ wire' = [wire EXCEPT ![w] = wire[w]]
    BY <1>1, <1>2, AtWork DEF Wired, IInv, TypeOK
  <2> QED
    BY <1>1, <1>2, <2>1, SkipStep
<1>3. ASSUME NEW answer \in Answers \ {"go"}, Send(w, Answers \ {"go"}, answer),
             valid' = [valid EXCEPT ![w] =
                         IF answer = "ok" THEN @ \cup {session[w].rcpt} ELSE @],
             session' = [session EXCEPT ![w].at = "rcpt-answer"],
             UNCHANGED <<queue, open, body, late, copies>>
      PROVE  IInv'
  <2>1. session[w].rcpt \in 1 .. Recipients
    BY <1>1, AtWork, DeliveryAssumption DEF Sessions
  <2>2. valid' \in [Workers -> SUBSET (1 .. Recipients)]
    BY <1>3, <2>1 DEF IInv, TypeOK
  <2> QED
    BY <1>1, <1>3, <2>2, Sends DEF Send
<1> QED
  BY <1>2, <1>3 DEF Rcpt

LEMMA RcptAnswerStep ==
  ASSUME IInv, NEW w \in Workers, RcptAnswer(w)
  PROVE  IInv'
<1>1. At(w) = "rcpt-answer" /\ Busy(w) /\ UNCHANGED <<queue, open, serverVars>>
  BY DEF RcptAnswer, Busy
<1>2. /\ session[w] \in Sessions /\ wire[w] \in Seq(Answers) /\ NoGo(wire[w])
      /\ session[w].rcpt <= Recipients
  BY <1>1, AtWork DEF Wired
<1>3. CASE Skip(w, TRUE) /\ UNCHANGED wire
  <2>1. wire' = [wire EXCEPT ![w] = wire[w]]
    BY <1>3 DEF IInv, TypeOK
  <2> QED
    BY <1>1, <1>2, <1>3, <2>1, SkipStep
<1>4. CASE /\ open[w] /\ wire[w] # <<>>
           /\ wire' = [wire EXCEPT ![w] = Tail(@)]
           /\ IF Head(wire[w]) = "ok"
              THEN session' = [session EXCEPT ![w].at = "rcpt", ![w].rcpt = @ + 1,
                                              ![w].accepted = @ \cup {session[w].rcpt}]
              ELSE Skip(w, Head(wire[w]) # "perm")
  <2> DEFINE q == Tail(wire[w])
  <2>1. q \in Seq(Answers) /\ NoGo(q)
    BY <1>2, <1>4, NoGoTail
  <2>2. wire' = [wire EXCEPT ![w] = q]
    BY <1>4 DEF IInv, TypeOK
  <2> HIDE DEF q
  <2>3. CASE Head(wire[w]) # "ok"
    <3>1. Skip(w, Head(wire[w]) # "perm")
      BY <1>4, <2>3
    <3> QED
      BY <1>1, <1>2, <2>1, <2>2, <3>1, SkipStep
  <2>4. CASE Head(wire[w]) = "ok"
    <3> DEFINE s == [session[w] EXCEPT !.at = "rcpt", !.rcpt = @ + 1,
                                       !.accepted = @ \cup {session[w].rcpt}]
    <3>1. session[w].rcpt + 1 \in 1 .. Recipients + 1 /\ session[w].rcpt \in 1 .. Recipients
      BY <1>2, DeliveryAssumption DEF Sessions
    <3>2. s \in Sessions /\ s.at = "rcpt" /\ s.entry = Entry(w)
      BY <1>2, <3>1 DEF Sessions, Steps, Entry
    <3>3. session' = [session EXCEPT ![w] = s]
      BY <1>4, <2>4 DEF IInv, TypeOK
    <3> HIDE DEF s
    <3> QED
      BY <1>1, <1>2, <2>1, <2>2, <3>2, <3>3, Skips
  <2> QED
    BY <2>3, <2>4
<1> QED
  BY <1>3, <1>4 DEF RcptAnswer

LEMMA AllRecipientsStep ==
  ASSUME IInv, NEW w \in Workers, AllRecipients(w)
  PROVE  IInv'
<1>1. At(w) = "rcpt" /\ Busy(w) /\ UNCHANGED <<queue, wire, open, serverVars>>
  BY DEF AllRecipients, Busy
<1>2. PICK at \in {"quit", "read"} :
        /\ at = "quit" <=> session[w].accepted = {}
        /\ session' = [session EXCEPT ![w].at = at]
  BY DEF AllRecipients
<1> DEFINE s == [session[w] EXCEPT !.at = at]
<1>3. /\ s \in Sessions /\ s.at = at /\ s.entry = Entry(w)
      /\ s.accepted = session[w].accepted
  BY <1>1, AtWork DEF Sessions, Steps, Entry
<1>4. session' = [session EXCEPT ![w] = s] /\ session'[w] = s
  BY <1>2 DEF IInv, TypeOK
<1> HIDE DEF s
<1>5. ~body[w] /\ copies[Entry(w)] = 0 /\ NoGo(wire[w])
  BY <1>1, AtWork, Early DEF Wired
<1>6. wire'[w] = wire[w] /\ body'[w] = body[w]
  BY <1>1 DEF serverVars
<1>7. Wired(w)'
  BY <1>2, <1>3, <1>4, <1>5, <1>6 DEF Wired, At, AfterRecipients
<1>8. Copied(w)'
  BY <1>1, <1>2, <1>3, <1>4, <1>5 DEF Copied, At, Entry, serverVars
<1>9. open' \in [Workers -> BOOLEAN]
  BY <1>1 DEF IInv, TypeOK
<1> QED
  BY <1>1, <1>3, <1>4, <1>7, <1>8, <1>9, Moves DEF serverVars

LEMMA ReadMessageStep ==
  ASSUME IInv, NEW w \in Workers, ReadMessage(w)
  PROVE  IInv'
<1>1. At(w) = "read" /\ Busy(w) /\ ~body[w] /\ copies[Entry(w)] = 0
  BY Early DEF ReadMessage, Busy
<1>2. CASE Unanswered(w)
  BY <1>1, <1>2, Defers
<1>3. CASE /\ session' = [session EXCEPT ![w].at = "data"]
           /\ UNCHANGED <<queue, wire, open, serverVars>>
  <2> DEFINE s == [session[w] EXCEPT !.at = "data"]
  <2>1. /\ s \in Sessions /\ s.at = "data" /\ s.entry = Entry(w)
        /\ s.accepted = session[w].accepted
    BY <1>1, AtWork DEF Sessions, Steps, Entry
  <2>2. session' = [session EXCEPT ![w] = s] /\ session'[w] = s
    BY <1>3 DEF IInv, TypeOK
  <2> HIDE DEF s
  <2>3. Wired(w)'
    <3>1. NoGo(wire[w]) /\ session[w].accepted # {}
      BY <1>1, AtWork DEF Wired, AfterRecipients
    <3> QED
      BY <1>1, <1>3, <2>1, <2>2, <3>1 DEF Wired, At, serverVars
  <2>4. Copied(w)'
    BY <1>1, <1>3, <2>1, <2>2 DEF Copied, At, Entry, serverVars
  <2>5. open' \in [Workers -> BOOLEAN]
    BY <1>3 DEF IInv, TypeOK
  <2> QED
    BY <1>1, <1>3, <2>1, <2>2, <2>3, <2>4, <2>5, Moves DEF serverVars
<1> QED
  BY <1>2, <1>3 DEF ReadMessage
LEMMA DataStep ==
  ASSUME IInv, NEW w \in Workers, Data(w)
  PROVE  IInv'
<1>1. At(w) = "data" /\ Busy(w) /\ ~body[w] /\ copies[Entry(w)] = 0
  BY Early DEF Data, Busy
<1>2. CASE Unanswered(w)
  BY <1>1, <1>2, Defers
<1>3. ASSUME NEW answer \in Answers,
             wire' = [wire EXCEPT ![w] = Append(@, answer)],
             session' = [session EXCEPT ![w].at = "data-answer"],
             UNCHANGED <<queue, open, valid, body, late, copies>>
      PROVE  IInv'
  <2>1. valid' \in [Workers -> SUBSET (1 .. Recipients)]
    BY <1>3 DEF IInv, TypeOK
  <2> QED
    BY <1>1, <1>3, <2>1, Sends
<1> QED
  BY <1>2, <1>3 DEF Data, Send

\* "go" is the answer to DATA, and with it every answer has been read.
LEMMA DataAnswerStep ==
  ASSUME IInv, NEW w \in Workers, DataAnswer(w)
  PROVE  IInv'
<1>1. At(w) = "data-answer" /\ Busy(w) /\ ~body[w] /\ copies[Entry(w)] = 0
  BY Early DEF DataAnswer, Busy
<1>2. CASE Unanswered(w)
  BY <1>1, <1>2, Defers
<1>3. CASE Refused(w, Head(wire[w]))
  BY <1>1, <1>3, Refuses
<1>4. CASE /\ wire[w] # <<>> /\ Head(wire[w]) = "go"
           /\ wire' = [wire EXCEPT ![w] = Tail(@)]
           /\ session' = [session EXCEPT ![w].at = "body"]
           /\ UNCHANGED <<queue, open, serverVars>>
  <2> DEFINE s == [session[w] EXCEPT !.at = "body"]
  <2>1. /\ wire[w] \in Seq(Answers) /\ session[w].accepted # {}
        /\ \A i \in 1 .. Len(wire[w]) - 1 : wire[w][i] # "go"
    BY <1>1, AtWork DEF Wired, AfterRecipients
  <2>2. Tail(wire[w]) = <<>>
    BY <1>4, <2>1, GoIsLast
  <2>3. wire' = [wire EXCEPT ![w] = <<>>] /\ wire'[w] = <<>> /\ <<>> \in Seq(Answers)
    BY <1>4, <2>2, EmptySeq DEF IInv, TypeOK
  <2>4. /\ s \in Sessions /\ s.at = "body" /\ s.entry = Entry(w)
        /\ s.accepted = session[w].accepted
    BY <1>1, AtWork DEF Sessions, Steps, Entry
  <2>5. session' = [session EXCEPT ![w] = s] /\ session'[w] = s
    BY <1>4 DEF IInv, TypeOK
  <2> HIDE DEF s
  <2>6. Wired(w)'
    BY <1>1, <1>4, <2>1, <2>3, <2>4, <2>5 DEF Wired, At, AfterRecipients, serverVars
  <2>7. Copied(w)'
    BY <1>1, <1>4, <2>4, <2>5 DEF Copied, At, Entry, serverVars
  <2>8. /\ body' = [body EXCEPT ![w] = FALSE] /\ open' \in [Workers -> BOOLEAN]
        /\ valid' \in [Workers -> SUBSET (1 .. Recipients)]
    BY <1>1, <1>4 DEF IInv, TypeOK, serverVars
  <2> QED
    BY <1>1, <1>4, <2>3, <2>4, <2>5, <2>6, <2>7, <2>8, Stays DEF serverVars
<1> QED
  BY <1>2, <1>3, <1>4 DEF DataAnswer

LEMMA BodyStep ==
  ASSUME IInv, NEW w \in Workers, Body(w)
  PROVE  IInv'
<1>1. At(w) = "body" /\ Busy(w) /\ ~body[w] /\ copies[Entry(w)] = 0
  BY Early DEF Body, Busy
<1>2. CASE Unanswered(w)
  BY <1>1, <1>2, Defers
<1>3. CASE /\ body' = [body EXCEPT ![w] = TRUE]
           /\ session' = [session EXCEPT ![w].at = "body-answer"]
           /\ UNCHANGED <<queue, wire, open, valid, late, copies>>
  <2> DEFINE s == [session[w] EXCEPT !.at = "body-answer"]
  <2>1. wire[w] = <<>> /\ session[w].accepted # {}
    BY <1>1, AtWork DEF Wired, AfterRecipients
  <2>2. /\ s \in Sessions /\ s.at = "body-answer" /\ s.entry = Entry(w)
        /\ s.accepted = session[w].accepted
    BY <1>1, AtWork DEF Sessions, Steps, Entry
  <2>3. session' = [session EXCEPT ![w] = s] /\ session'[w] = s
    BY <1>3 DEF IInv, TypeOK
  <2>4. wire' = [wire EXCEPT ![w] = <<>>] /\ wire'[w] = <<>> /\ <<>> \in Seq(Answers)
    BY <1>3, <2>1, EmptySeq DEF IInv, TypeOK
  <2> HIDE DEF s
  <2>5. Wired(w)'
    <3>1. Len(<<>>) <= 1
      BY EmptySeq
    <3> QED
      BY <2>1, <2>2, <2>3, <2>4, <3>1 DEF Wired, At, AfterRecipients
  <2>6. Copied(w)'
    BY <1>1, <1>3, <2>2, <2>3, <2>4 DEF Copied, At, Entry
  <2>7. /\ open' \in [Workers -> BOOLEAN]
        /\ valid' \in [Workers -> SUBSET (1 .. Recipients)]
    BY <1>3 DEF IInv, TypeOK
  <2> QED
    BY <1>1, <1>3, <2>2, <2>3, <2>4, <2>5, <2>6, <2>7, Stays
<1> QED
  BY <1>2, <1>3 DEF Body

\* The answer read is the message's own, so the verdict is the server's.
LEMMA BodyAnswerStep ==
  ASSUME IInv, NEW w \in Workers, BodyAnswer(w)
  PROVE  IInv'
<1>1. At(w) = "body-answer" /\ Busy(w)
  BY DEF BodyAnswer, Busy
<1>2. /\ session[w] \in Sessions /\ session[w].accepted # {} /\ wire[w] \in Seq(Answers)
      /\ Wired(w) /\ Copied(w)
  BY <1>1, AtWork DEF Wired, AfterRecipients
<1>3. CASE Unknown(w) /\ Leave(w)
  <2>1. Agrees(w, "quarantined") /\ "smtp_outcome_unknown" \in Reasons
    BY <1>1 DEF Agrees, Reasons
  <2> QED
    BY <1>1, <1>3, <2>1, Completes DEF Unknown
<1>4. wire[w] # <<>> => ~body[w]
  BY <1>2 DEF Wired
<1>5. CASE /\ wire[w] # <<>> /\ Head(wire[w]) \in {"temp", "perm", "go"}
           /\ Refused(w, Head(wire[w]))
  <2>1. ~body[w] /\ copies[Entry(w)] = 0
    BY <1>1, <1>2, <1>4, <1>5 DEF Copied
  <2> QED
    BY <1>1, <1>5, <2>1, Refuses
<1>6. CASE /\ wire[w] # <<>> /\ Head(wire[w]) = "ok"
           /\ wire' = [wire EXCEPT ![w] = Tail(@)]
           /\ session' = [session EXCEPT ![w].at = "quit"]
           /\ UNCHANGED <<queue, open, serverVars>>
  <2> DEFINE s == [session[w] EXCEPT !.at = "quit"]
             q == Tail(wire[w])
  <2>1. q \in Seq(Answers)
    BY <1>2, <1>6, HeadTailProperties
  <2>2. /\ s \in Sessions /\ s.at = "quit" /\ s.entry = Entry(w)
        /\ s.accepted = session[w].accepted
    BY <1>2 DEF Sessions, Steps, Entry
  <2>3. /\ session' = [session EXCEPT ![w] = s] /\ session'[w] = s
        /\ wire' = [wire EXCEPT ![w] = q]
    BY <1>6 DEF IInv, TypeOK
  <2> HIDE DEF s, q
  <2>4. ~body[w] /\ copies[Entry(w)] = 1
    BY <1>1, <1>2, <1>4, <1>6 DEF Copied
  <2>5. Wired(w)'
    BY <1>6, <2>2, <2>3, <2>4 DEF Wired, At, AfterRecipients, serverVars
  <2>6. Copied(w)'
    BY <1>2, <1>6, <2>2, <2>3, <2>4 DEF Copied, At, Entry, serverVars
  <2>7. /\ body' = [body EXCEPT ![w] = FALSE] /\ open' \in [Workers -> BOOLEAN]
        /\ valid' \in [Workers -> SUBSET (1 .. Recipients)]
    BY <1>6, <2>4 DEF IInv, TypeOK, serverVars
  <2> QED
    BY <1>1, <1>6, <2>1, <2>2, <2>3, <2>5, <2>6, <2>7, Stays DEF serverVars
<1> QED
  BY <1>3, <1>5, <1>6 DEF BodyAnswer

LEMMA QuitStep ==
  ASSUME IInv, NEW w \in Workers, Quit(w)
  PROVE  IInv'
<1>1. At(w) = "quit" /\ Busy(w)
  BY DEF Quit, Busy
<1>2. ~body[w] /\ copies[Entry(w)] = IF session[w].accepted # {} THEN 1 ELSE 0
  BY <1>1, AtWork DEF Wired, Copied
<1>3. CASE session[w].accepted # {}
  <2>1. Agrees(w, "delivered") /\ "smtp_delivered" \in Reasons
    BY <1>2, <1>3 DEF Agrees, Reasons
  <2> QED
    BY <1>1, <1>3, <2>1, Completes DEF Quit
<1>4. CASE session[w].accepted = {} /\ session[w].soft
  BY <1>1, <1>2, <1>4, Defers DEF Quit, Unanswered
<1>5. CASE session[w].accepted = {} /\ ~session[w].soft
  <2>1. Agrees(w, "bounced") /\ "smtp_rejected" \in Reasons
    BY <1>2, <1>5 DEF Agrees, Reasons
  <2> QED
    BY <1>1, <1>5, <2>1, Completes DEF Quit
<1> QED
  BY <1>3, <1>4, <1>5

-----------------------------------------------------------------------------
(* The queue and the server. *)

LEMMA EnqueueStep ==
  ASSUME IInv, NEW e \in Entries, Enqueue(e)
  PROVE  IInv'
<1>1. TypeOK'
  BY DEF IInv, TypeOK, Enqueue, serverVars, States, At, Entry
<1>2. AttemptsInv'
  BY DEF IInv, TypeOK, Enqueue, AttemptsInv
<1>3. HoldInv'
  BY DEF IInv, TypeOK, Enqueue, HoldInv, Busy, At, Entry, OneSessionPerEntry
<1>4. WireInv'
  BY DEF IInv, Enqueue, serverVars, WireInv, Wired, At
<1>5. TakenInv'
  BY DEF IInv, TypeOK, Enqueue, serverVars, TakenInv, Copied, At, Entry
<1> QED
  BY <1>1, <1>2, <1>3, <1>4, <1>5 DEF IInv

LEMMA ClaimStep ==
  ASSUME IInv, NEW w \in Workers, NEW e \in Entries, Claim(w, e)
  PROVE  IInv'
<1> DEFINE s == [Idle EXCEPT !.at = "connect", !.entry = e]
<1>1. TypeOK
  BY DEF IInv
<1>2. s \in Sessions /\ s.at = "connect" /\ s.entry = e
  <2>1. Idle \in Sessions
    BY DeliveryAssumption DEF Idle, Sessions, Steps
  <2> QED
    BY <2>1 DEF Sessions, Steps
<1>3. session' = [session EXCEPT ![w] = s]
  BY DEF Claim
<1> HIDE DEF s
<1>4. /\ At(w) = "idle" /\ At(w)' = "connect" /\ Entry(w)' = e
      /\ \A v \in Workers \ {w} : session'[v] = session[v]
  BY <1>1, <1>2, <1>3 DEF Claim, TypeOK, At, Entry
<1>5. \A v \in Workers \ {w} : At(v)' = At(v) /\ Entry(v)' = Entry(v) /\ (Busy(v)' <=> Busy(v))
  BY <1>4 DEF At, Entry, Busy
<1>6. state[e] \in {"queued", "deferred"} /\ copies[e] = 0 /\ late[e] = 0
  BY DEF Claim, Claimable, IInv, TakenInv
<1>7. \A v \in Workers : Busy(v) => Entry(v) # e
  BY <1>6 DEF IInv, HoldInv
<1>8. /\ state' = [state EXCEPT ![e] = "delivering"] /\ attempts' = [attempts EXCEPT ![e] = @ + 1]
      /\ UNCHANGED <<reason, wire, open, valid, body, late, copies>>
  BY DEF Claim
<1>9. TypeOK'
  <2>1. attempts[e] + 1 \in 0 .. MaxAttempts
    BY <1>1, <1>6, DeliveryAssumption DEF TypeOK, IInv, AttemptsInv
  <2>2. attempts' \in [Entries -> 0 .. MaxAttempts] /\ state' \in [Entries -> States]
    BY <1>1, <1>8, <2>1 DEF TypeOK, States
  <2>3. session' \in [Workers -> Sessions]
    BY <1>1, <1>2, <1>3 DEF TypeOK
  <2>4. \A v \in Workers : At(v)' # "idle" => Entry(v)' \in Entries
    BY <1>1, <1>4, <1>5 DEF TypeOK
  <2> QED
    BY <1>1, <1>8, <2>2, <2>3, <2>4 DEF TypeOK
<1>10. AttemptsInv'
  BY <1>1, <1>8 DEF TypeOK, IInv, AttemptsInv
<1>11. HoldInv'
  <2>1. ASSUME NEW v \in Workers, Busy(v)' PROVE state'[Entry(v)'] = "delivering"
    <3>1. CASE v = w
      BY <1>1, <1>4, <1>8, <3>1 DEF TypeOK
    <3>2. CASE v # w
      <4>1. Busy(v) /\ Entry(v)' = Entry(v) /\ Entry(v) # e
        BY <1>5, <1>7, <2>1, <3>2
      <4>2. Entry(v) \in Entries /\ state[Entry(v)] = "delivering"
        BY <4>1, AtWork
      <4> QED
        BY <1>1, <1>8, <4>1, <4>2 DEF TypeOK
    <3> QED
      BY <3>1, <3>2
  <2>2. ASSUME NEW d \in Entries, state'[d] = "delivering"
        PROVE  \E v \in Workers : Busy(v)' /\ Entry(v)' = d
    <3>1. CASE d = e
      <4>1. Busy(w)' /\ Entry(w)' = d
        BY <1>4, <3>1 DEF Busy
      <4> QED
        BY <4>1
    <3>2. CASE d # e
      <4>1. state[d] = "delivering"
        BY <1>1, <1>8, <2>2, <3>2 DEF TypeOK
      <4>2. PICK v \in Workers : Busy(v) /\ Entry(v) = d
        BY <4>1 DEF IInv, HoldInv
      <4>3. v # w
        BY <1>4, <4>2 DEF Busy
      <4> QED
        BY <1>5, <4>2, <4>3
    <3> QED
      BY <3>1, <3>2
  <2>3. OneSessionPerEntry'
    BY <1>4, <1>5, <1>7 DEF IInv, HoldInv, OneSessionPerEntry, Busy
  <2> QED
    BY <2>1, <2>2, <2>3 DEF HoldInv
<1>12. WireInv'
  <2>1. ASSUME NEW v \in Workers \ {w} PROVE Wired(v)'
    BY <1>4, <1>5, <1>8 DEF IInv, WireInv, Wired
  <2>2. Wired(w)'
    BY <1>4, <1>8 DEF IInv, WireInv, Wired, AfterRecipients
  <2> QED
    BY <2>1, <2>2 DEF WireInv
<1>13. TakenInv'
  <2>1. ASSUME NEW v \in Workers \ {w} PROVE Copied(v)'
    BY <1>4, <1>5, <1>8 DEF IInv, TakenInv, Copied
  <2>2. Copied(w)'
    BY <1>4, <1>6, <1>8 DEF Copied
  <2> QED
    BY <1>1, <1>6, <1>8, <2>1, <2>2 DEF IInv, TakenInv, TypeOK
<1> QED
  BY <1>9, <1>10, <1>11, <1>12, <1>13 DEF IInv
LEMMA DropStep ==
  ASSUME IInv, NEW w \in Workers, Drop(w)
  PROVE  IInv'
<1>1. TypeOK /\ wire' = [wire EXCEPT ![w] = <<>>] /\ UNCHANGED <<queue, session, serverVars>>
  BY DEF IInv, Drop
<1>2. wire'[w] = <<>> /\ \A v \in Workers \ {w} : wire'[v] = wire[v]
  BY <1>1 DEF TypeOK
<1>3. TypeOK'
  <2>1. wire' \in [Workers -> Seq(Answers)] /\ open' \in [Workers -> BOOLEAN]
    BY <1>1, EmptySeq DEF TypeOK, Drop
  <2> QED
    BY <1>1, <2>1 DEF TypeOK, queue, serverVars, At, Entry
<1>4. AttemptsInv' /\ HoldInv'
  BY <1>1 DEF IInv, AttemptsInv, HoldInv, OneSessionPerEntry, Busy, At, Entry, queue
<1>5. WireInv'
  <2>1. ASSUME NEW v \in Workers \ {w} PROVE Wired(v)'
    BY <1>1, <1>2 DEF IInv, WireInv, Wired, At, serverVars
  <2>2. Wired(w)'
    <3>1. Len(<<>>) = 0
      BY EmptySeq
    <3> QED
      BY <1>1, <1>2, <3>1 DEF IInv, WireInv, Wired, NoGo, At, serverVars
  <2> QED
    BY <2>1, <2>2 DEF WireInv
<1>6. TakenInv'
  <2>1. ASSUME NEW v \in Workers PROVE Copied(v)'
    BY <1>1, <1>2 DEF IInv, TakenInv, Copied, At, Entry, serverVars
  <2> QED
    BY <1>1, <2>1 DEF IInv, TakenInv, queue, serverVars
<1> QED
  BY <1>3, <1>4, <1>5, <1>6 DEF IInv

\* The server decides while the worker waits; the answer is about what it has done.
LEMMA DecideBodyStep ==
  ASSUME IInv, NEW w \in Workers, DecideBody(w)
  PROVE  IInv'
<1>1. TypeOK
  BY DEF IInv
<1>2. At(w) = "body-answer" /\ Busy(w) /\ wire[w] = <<>> /\ copies[Entry(w)] = 0
  <2>1. At(w) = "body-answer" /\ wire[w] = <<>>
    BY DEF DecideBody, IInv, WireInv, Wired
  <2> QED
    BY <2>1, AtWork DEF DecideBody, Copied, Busy
<1>3. session[w].accepted # {} /\ Entry(w) \in Entries /\ late[Entry(w)] = 0
      /\ state[Entry(w)] = "delivering"
  BY <1>2, AtWork DEF Wired, AfterRecipients
<1>4. PICK answer \in {"ok", "temp", "perm", "bad"}, n \in {0, 1} :
        /\ wire' = [wire EXCEPT ![w] = IF open[w] THEN Append(@, answer) ELSE @]
        /\ copies' = [copies EXCEPT ![Entry(w)] = @ + n]
        /\ answer = "ok" => n = 1
        /\ answer \in {"temp", "perm"} => n = 0
  <2>1. PICK answer \in {"ok", "temp", "perm", "bad"} :
          /\ wire' = [wire EXCEPT ![w] = IF open[w] THEN Append(@, answer) ELSE @]
          /\ \/ answer \in {"ok", "bad"} /\ copies' = [copies EXCEPT ![Entry(w)] = @ + 1]
             \/ answer # "ok" /\ UNCHANGED copies
    BY DEF DecideBody
  <2>2. CASE answer \in {"ok", "bad"} /\ copies' = [copies EXCEPT ![Entry(w)] = @ + 1]
    BY <2>1, <2>2
  <2>3. CASE answer # "ok" /\ UNCHANGED copies
    <3>1. copies' = [copies EXCEPT ![Entry(w)] = @ + 0]
      BY <1>1, <1>3, <2>3 DEF TypeOK
    <3> QED
      BY <2>1, <2>3, <3>1
  <2> QED
    BY <2>1, <2>2, <2>3
<1>5. body' = [body EXCEPT ![w] = FALSE] /\ UNCHANGED <<queue, session, open, valid, late>>
  BY DEF DecideBody
<1> DEFINE q == IF open[w] THEN Append(wire[w], answer) ELSE wire[w]
<1>6. wire' = [wire EXCEPT ![w] = q]
  BY <1>1, <1>4 DEF TypeOK
<1>7. q \in Seq(Answers) /\ Len(q) <= 1 /\ (q # <<>> => Head(q) = answer)
  <2>1. wire[w] \in Seq(Answers) /\ Len(wire[w]) = 0 /\ answer \in Answers
    BY <1>1, <1>2, EmptySeq DEF TypeOK, Answers
  <2>2. CASE open[w]
    BY <2>1, <2>2
  <2>3. CASE ~open[w]
    BY <1>2, <2>1, <2>3
  <2> QED
    BY <2>2, <2>3
<1> HIDE DEF q
<1>8. /\ wire'[w] = q /\ body'[w] = FALSE /\ copies'[Entry(w)] = n
      /\ \A v \in Workers \ {w} : wire'[v] = wire[v] /\ body'[v] = body[v]
      /\ \A d \in Entries \ {Entry(w)} : copies'[d] = copies[d]
  BY <1>1, <1>2, <1>3, <1>4, <1>5, <1>6 DEF TypeOK
<1>9. TypeOK'
  <2>1. /\ wire' \in [Workers -> Seq(Answers)] /\ body' \in [Workers -> BOOLEAN]
        /\ copies' \in [Entries -> Nat]
    BY <1>1, <1>3, <1>4, <1>5, <1>6, <1>7 DEF TypeOK
  <2> QED
    BY <1>1, <1>5, <2>1 DEF TypeOK, queue, At, Entry
<1>10. AttemptsInv' /\ HoldInv'
  BY <1>5 DEF IInv, AttemptsInv, HoldInv, OneSessionPerEntry, Busy, At, Entry, queue
<1>11. WireInv'
  <2>1. ASSUME NEW v \in Workers \ {w} PROVE Wired(v)'
    BY <1>5, <1>8 DEF IInv, WireInv, Wired, At
  <2>2. Wired(w)'
    BY <1>2, <1>3, <1>5, <1>7, <1>8 DEF Wired, At, AfterRecipients
  <2> QED
    BY <2>1, <2>2 DEF WireInv
<1>12. TakenInv'
  <2>1. ASSUME NEW v \in Workers \ {w} PROVE Copied(v)'
    <3>1. Busy(v) => Entry(v) # Entry(w) /\ Entry(v) \in Entries
      BY <1>1, <1>2 DEF IInv, HoldInv, OneSessionPerEntry, Busy, TypeOK
    <3> QED
      BY <1>5, <1>8, <3>1 DEF IInv, TakenInv, Copied, At, Entry, Busy
  <2>2. Copied(w)'
    BY <1>2, <1>4, <1>5, <1>7, <1>8 DEF Copied, At, Entry
  <2>3. ASSUME NEW d \in Entries
        PROVE  /\ state'[d] \in {"absent", "queued", "deferred", "bounced"} => copies'[d] = 0
               /\ state'[d] = "delivered" => copies'[d] = 1
               /\ state'[d] # "quarantined" => late'[d] = 0
               /\ copies'[d] + late'[d] <= 1
    <3>1. CASE d # Entry(w)
      BY <1>5, <1>8, <3>1 DEF IInv, TakenInv, queue
    <3>2. CASE d = Entry(w)
      BY <1>3, <1>5, <1>8, <3>2 DEF queue
    <3> QED
      BY <3>1, <3>2
  <2> QED
    BY <2>1, <2>2, <2>3 DEF TakenInv
<1> QED
  BY <1>9, <1>10, <1>11, <1>12 DEF IInv

LEMMA DecideLateStep ==
  ASSUME IInv, NEW e \in Entries, DecideLate(e)
  PROVE  IInv'
<1>1. TypeOK /\ UNCHANGED <<queue, session, wire, open, valid, body>>
  BY DEF IInv, DecideLate
<1>2. PICK n \in {0, 1} : copies' = [copies EXCEPT ![e] = @ + n]
  BY DEF DecideLate
<1>3. late[e] > 0 /\ late' = [late EXCEPT ![e] = @ - 1]
  BY DEF DecideLate
<1>4. state[e] = "quarantined" /\ copies[e] = 0 /\ late[e] = 1
  BY <1>1, <1>3 DEF TypeOK, IInv, TakenInv
<1>5. /\ copies'[e] = n /\ late'[e] = 0
      /\ \A d \in Entries \ {e} : copies'[d] = copies[d] /\ late'[d] = late[d]
  BY <1>1, <1>2, <1>3, <1>4 DEF TypeOK
<1>6. TypeOK'
  <2>1. copies' \in [Entries -> Nat] /\ late' \in [Entries -> Nat]
    BY <1>1, <1>2, <1>3, <1>4 DEF TypeOK
  <2> QED
    BY <1>1, <2>1 DEF TypeOK, queue, At, Entry
<1>7. AttemptsInv' /\ HoldInv' /\ WireInv'
  BY <1>1 DEF IInv, AttemptsInv, HoldInv, OneSessionPerEntry, Busy, At, Entry, queue, WireInv,
     Wired
<1>8. TakenInv'
  <2>1. ASSUME NEW v \in Workers PROVE Copied(v)'
    <3>1. Busy(v) => Entry(v) # e /\ Entry(v) \in Entries
      BY <1>4, AtWork
    <3> QED
      BY <1>1, <1>5, <3>1 DEF IInv, TakenInv, Copied, At, Entry, Busy
  <2>2. ASSUME NEW d \in Entries
        PROVE  /\ state'[d] \in {"absent", "queued", "deferred", "bounced"} => copies'[d] = 0
               /\ state'[d] = "delivered" => copies'[d] = 1
               /\ state'[d] # "quarantined" => late'[d] = 0
               /\ copies'[d] + late'[d] <= 1
    <3>1. CASE d # e
      BY <1>1, <1>5, <3>1 DEF IInv, TakenInv, queue
    <3>2. CASE d = e
      BY <1>1, <1>4, <1>5, <3>2 DEF queue
    <3> QED
      BY <3>1, <3>2
  <2> QED
    BY <2>1, <2>2 DEF TakenInv
<1> QED
  BY <1>6, <1>7, <1>8 DEF IInv

LEMMA StutterStep == IInv /\ UNCHANGED vars => IInv'
<1> SUFFICES ASSUME IInv, UNCHANGED vars PROVE IInv'
  OBVIOUS
<1> USE DEF vars, queue, serverVars
<1>1. TypeOK' /\ AttemptsInv'
  BY DEF IInv, TypeOK, At, Entry, AttemptsInv
<1>2. HoldInv' /\ WireInv'
  BY DEF IInv, HoldInv, Busy, OneSessionPerEntry, At, Entry, WireInv, Wired
<1>3. TakenInv'
  BY DEF IInv, TakenInv, Copied, At, Entry
<1> QED
  BY <1>1, <1>2, <1>3 DEF IInv

LEMMA IInvStep == IInv /\ [Next]_vars => IInv'
<1> SUFFICES ASSUME IInv, [Next]_vars PROVE IInv'
  OBVIOUS
<1>1. ASSUME NEW e \in Entries, Enqueue(e) PROVE IInv'
  BY <1>1, EnqueueStep
<1>2. ASSUME NEW e \in Entries, DecideLate(e) PROVE IInv'
  BY <1>2, DecideLateStep
<1>3. ASSUME NEW e \in Entries, NEW w \in Workers, Claim(w, e) PROVE IInv'
  BY <1>3, ClaimStep
<1>4. ASSUME NEW w \in Workers, Deliver(w) PROVE IInv'
  BY <1>4, ConnectStep, UpgradeStep, LoginStep, RcptStep, RcptAnswerStep, AllRecipientsStep,
     ReadMessageStep, DataStep, DataAnswerStep, BodyStep, BodyAnswerStep, QuitStep
     DEF Deliver, Timed
<1>5. ASSUME NEW w \in Workers, Drop(w) PROVE IInv'
  BY <1>5, DropStep
<1>6. ASSUME NEW w \in Workers, DecideBody(w) PROVE IInv'
  BY <1>6, DecideBodyStep
<1>7. CASE UNCHANGED vars
  BY <1>7, StutterStep
<1> QED
  BY <1>1, <1>2, <1>3, <1>4, <1>5, <1>6, <1>7 DEF Next

LEMMA Invariance == Spec => []IInv
  BY IInvInit, IInvStep, PTL DEF Spec

-----------------------------------------------------------------------------
(* The theorems. *)

\* Every variable holds a value of its type, and an entry is claimed at most
\* maxAttempts times (mail-queue.ts claim and defer).
THEOREM TypeCorrect == Spec => []TypeOK
<1>1. IInv => TypeOK
  BY DEF IInv
<1> QED
  BY <1>1, Invariance, PTL

\* No two workers submit the same entry (mail-queue.ts claim).
THEOREM OneSession == Spec => []OneSessionPerEntry
<1>1. IInv => OneSessionPerEntry
  BY DEF IInv, HoldInv
<1> QED
  BY <1>1, Invariance, PTL

\* The answer that settles a message is the server's answer to that message, never
\* one that a recipient or DATA did not wait for (smtp-client.ts data).
THEOREM AnswersOwn == Spec => []BodyAnswerIsItsOwn
<1>1. IInv => BodyAnswerIsItsOwn
  BY DEF IInv, WireInv, Wired, BodyAnswerIsItsOwn
<1> QED
  BY <1>1, Invariance, PTL

\* The server takes no message twice, whatever is lost, late or retried
\* (smtp-queue-adapter.ts deliver, smtp-client.ts data).
THEOREM TakenOnceCorrect == Spec => []TakenOnce
<1>1. ASSUME IInv, NEW e \in Entries PROVE copies[e] <= 1
  <2>1. copies[e] \in Nat /\ late[e] \in Nat /\ copies[e] + late[e] <= 1
    BY <1>1 DEF IInv, TypeOK, TakenInv
  <2> QED
    BY <2>1
<1>2. IInv => TakenOnce
  BY <1>1 DEF TakenOnce
<1> QED
  BY <1>2, Invariance, PTL
-----------------------------------------------------------------------------
(* Refinement. *)

Fate(e) == IF state[e] \in Settled THEN state[e] ELSE "pending"

\* A step settles one entry, or it gives the server a copy of one.
Settling(e) ==
    /\ state[e] \notin Settled /\ UNCHANGED copies
    /\ \A d \in Entries \ {e} : state'[d] = state[d]

Taking(e) ==
    /\ UNCHANGED state /\ copies' \in [Entries -> Nat]
    /\ \A d \in Entries \ {e} : copies'[d] = copies[d]
    /\ copies'[e] >= copies[e]

LEMMA DeliverShape ==
  ASSUME IInv, NEW w \in Workers, Deliver(w)
  PROVE  UNCHANGED <<state, copies>> \/ Settling(Entry(w))
<1>1. Busy(w)
  BY DEF Deliver, Timed, Connect, Upgrade, Login, Rcpt, RcptAnswer, AllRecipients, ReadMessage,
     Data, DataAnswer, Body, BodyAnswer, Quit, Busy
<1>2. Entry(w) \in Entries /\ state[Entry(w)] \notin Settled /\ state \in [Entries -> States]
  BY <1>1, AtWork DEF Settled, IInv, TypeOK
<1>3. ASSUME NEW f, Leave(w), state' = [state EXCEPT ![Entry(w)] = f] PROVE Settling(Entry(w))
  BY <1>2, <1>3 DEF Settling, Leave
<1>4. Unanswered(w) => Settling(Entry(w))
  BY <1>3 DEF Unanswered, Defer
<1>5. ASSUME NEW f, NEW why, Complete(Entry(w), f, why), Leave(w) PROVE Settling(Entry(w))
  BY <1>3, <1>5 DEF Complete
<1>6. ASSUME NEW answer, Refused(w, answer) PROVE Settling(Entry(w))
  BY <1>4, <1>5, <1>6 DEF Refused, Unanswered
<1> USE DEF queue, serverVars
<1>7. CASE Connect(w) \/ Upgrade(w) \/ Login(w)
  <2>1. OpeningFails(w) => Settling(Entry(w))
    BY <1>4, <1>5 DEF OpeningFails
  <2>2. CASE Connect(w)
    BY <2>1, <2>2 DEF Connect, Proceed
  <2>3. CASE Upgrade(w)
    BY <1>4, <2>3 DEF Upgrade, Proceed
  <2>4. CASE Login(w)
    BY <2>1, <2>4 DEF Login
  <2> QED
    BY <1>7, <2>2, <2>3, <2>4
<1>8. CASE Rcpt(w) \/ RcptAnswer(w) \/ AllRecipients(w)
  BY <1>8 DEF Rcpt, RcptAnswer, AllRecipients
<1>9. CASE ReadMessage(w) \/ Data(w) \/ Body(w)
  BY <1>4, <1>9 DEF ReadMessage, Data, Body
<1>10. CASE DataAnswer(w)
  BY <1>4, <1>6, <1>10 DEF DataAnswer
<1>11. CASE BodyAnswer(w)
  BY <1>5, <1>6, <1>11 DEF BodyAnswer, Unknown
<1>12. CASE Quit(w)
  BY <1>4, <1>5, <1>12 DEF Quit, Unanswered
<1> QED
  BY <1>7, <1>8, <1>9, <1>10, <1>11, <1>12 DEF Deliver, Timed

LEMMA Shape ==
  ASSUME IInv, Next
  PROVE  UNCHANGED <<state, copies>> \/ \E e \in Entries : Settling(e) \/ Taking(e)
<1>1. TypeOK
  BY DEF IInv
<1>2. ASSUME NEW e \in Entries, Enqueue(e) \/ \E w \in Workers : Claim(w, e)
      PROVE  Settling(e)
  BY <1>1, <1>2 DEF Enqueue, Claim, Claimable, Settling, Settled, TypeOK, serverVars
<1>3. ASSUME NEW e \in Entries, DecideLate(e) PROVE Taking(e)
  <2>1. PICK n \in {0, 1} : copies' = [copies EXCEPT ![e] = @ + n]
    BY <1>3 DEF DecideLate
  <2> QED
    BY <1>1, <1>3, <2>1 DEF DecideLate, Taking, TypeOK, queue
<1>4. ASSUME NEW w \in Workers, Deliver(w)
      PROVE  UNCHANGED <<state, copies>> \/ \E e \in Entries : Settling(e)
  <2>1. UNCHANGED <<state, copies>> \/ Settling(Entry(w))
    BY <1>4, DeliverShape
  <2>2. Busy(w)
    BY <1>4 DEF Deliver, Timed, Connect, Upgrade, Login, Rcpt, RcptAnswer, AllRecipients,
       ReadMessage, Data, DataAnswer, Body, BodyAnswer, Quit, Busy
  <2>3. Entry(w) \in Entries
    BY <2>2, AtWork
  <2> QED
    BY <2>1, <2>3
<1>5. ASSUME NEW w \in Workers, Drop(w) PROVE UNCHANGED <<state, copies>>
  BY <1>5 DEF Drop, queue, serverVars
<1>6. ASSUME NEW w \in Workers, DecideBody(w)
      PROVE  UNCHANGED <<state, copies>> \/ \E e \in Entries : Taking(e)
  <2>1. body[w] /\ At(w) = "body-answer" /\ Busy(w)
    BY <1>6 DEF DecideBody, IInv, WireInv, Wired, Busy
  <2>2. Entry(w) \in Entries
    BY <2>1, AtWork
  <2>3. UNCHANGED state
    BY <1>6 DEF DecideBody, queue
  <2>4. UNCHANGED copies \/ copies' = [copies EXCEPT ![Entry(w)] = @ + 1]
    BY <1>6 DEF DecideBody
  <2>5. copies' = [copies EXCEPT ![Entry(w)] = @ + 1] => Taking(Entry(w))
    BY <1>1, <2>2, <2>3 DEF Taking, TypeOK
  <2> QED
    BY <2>2, <2>3, <2>4, <2>5
<1> QED
  BY <1>2, <1>3, <1>4, <1>5, <1>6 DEF Next

LEMMA SubmissionStep ==
  ASSUME IInv, IInv', Next
  PROVE  [Submission!Next]_(Submission!svars)
<1>1. TypeOK /\ TypeOK' /\ TakenInv /\ TakenInv'
  BY DEF IInv
<1>2. CASE UNCHANGED <<state, copies>>
  BY <1>2 DEF Submission!svars
<1>3. ASSUME NEW e \in Entries, Settling(e)
      PROVE  [Submission!Next]_(Submission!svars)
  <2>1. /\ Fate(e) = "pending" /\ \A d \in Entries \ {e} : Fate(d)' = Fate(d)
        /\ UNCHANGED copies
    BY <1>3 DEF Fate, Settling
  <2>2. [d \in Entries |-> Fate(d)]' = [[d \in Entries |-> Fate(d)] EXCEPT ![e] = Fate(e)']
    BY <2>1
  <2>3. CASE Fate(e)' = "pending"
    <3>1. \A d \in Entries : Fate(d)' = Fate(d)
      BY <2>1, <2>3
    <3>2. [d \in Entries |-> IF state'[d] \in Settled THEN state'[d] ELSE "pending"]
            = [d \in Entries |-> IF state[d] \in Settled THEN state[d] ELSE "pending"]
      BY <3>1, Zenon DEF Fate
    <3>3. [d \in Entries |-> copies'[d] > 0] = [d \in Entries |-> copies[d] > 0]
      BY <2>1
    <3> QED
      BY <3>2, <3>3 DEF Submission!svars
  <2>4. CASE Fate(e)' # "pending"
    <3>1. PICK f \in Settled : f = state'[e] /\ f = Fate(e)'
      BY <2>1, <2>4 DEF Fate
    <3>2. (f = "delivered" => copies[e] > 0) /\ (f = "bounced" => ~(copies[e] > 0))
      <4>1. (f = "delivered" => copies'[e] = 1) /\ (f = "bounced" => copies'[e] = 0)
        BY <1>1, <3>1 DEF TakenInv
      <4> QED
        BY <2>1, <4>1
    <3>3. Submission!Settle(e, f)
      BY <2>1, <2>2, <3>1, <3>2 DEF Submission!Settle, Fate, Settled
    <3>4. f \in Submission!Fates
      BY <3>1 DEF Submission!Fates, Settled
    <3> QED
      BY <3>3, <3>4 DEF Submission!Next
  <2> QED
    BY <2>3, <2>4
<1>4. ASSUME NEW e \in Entries, Taking(e)
      PROVE  [Submission!Next]_(Submission!svars)
  <2>1. state' = state /\ copies' \in [Entries -> Nat] /\ copies \in [Entries -> Nat]
        /\ (\A d \in Entries \ {e} : copies'[d] = copies[d]) /\ copies'[e] >= copies[e]
    BY <1>1, <1>4 DEF Taking, TypeOK
  <2>2. CASE (copies'[e] > 0) <=> (copies[e] > 0)
    <3>1. [d \in Entries |-> copies'[d] > 0] = [d \in Entries |-> copies[d] > 0]
      BY <2>1, <2>2
    <3> QED
      BY <2>1, <3>1 DEF Submission!svars
  <2>3. CASE ~(copies[e] > 0) /\ copies'[e] > 0
    <3>1. Fate(e) \in {"pending", "quarantined"}
      BY <1>1, <2>1, <2>3 DEF TakenInv, Fate, Settled, TypeOK
    <3>2. [d \in Entries |-> copies'[d] > 0]
            = [[d \in Entries |-> copies[d] > 0] EXCEPT ![e] = TRUE]
      <4>1. \A d \in Entries \ {e} : (copies'[d] > 0) = (copies[d] > 0)
        BY <2>1
      <4>2. (copies'[e] > 0) = TRUE
        BY <2>3
      <4> QED
        BY <4>1, <4>2, Zenon
    <3>3. Submission!Take(e)
      BY <2>1, <2>3, <3>1, <3>2 DEF Submission!Take, Fate
    <3> QED
      BY <3>3 DEF Submission!Next
  <2> QED
    BY <2>1, <2>2, <2>3
<1> QED
  BY <1>2, <1>3, <1>4, Shape

\* The queue, its workers and whatever the server does implement MailSubmission: at
\* most one delivery, and a verdict that agrees with it.
THEOREM Refinement == Spec => ImplementsSubmission
<1>1. Init => Submission!Init
  <2> SUFFICES ASSUME Init PROVE Submission!Init
    OBVIOUS
  <2>1. ASSUME NEW e \in Entries PROVE (copies[e] > 0) = FALSE
    <3>1. copies[e] = 0
      BY DEF Init
    <3> QED
      BY <3>1
  <2>2. [e \in Entries |-> copies[e] > 0] = [e \in Entries |-> FALSE]
    BY <2>1, Zenon
  <2>3. [e \in Entries |-> IF state[e] \in Settled THEN state[e] ELSE "pending"]
          = [e \in Entries |-> "pending"]
    BY DEF Init, Settled
  <2> QED
    BY <2>2, <2>3 DEF Submission!Init
<1>2. IInv /\ IInv' /\ [Next]_vars => [Submission!Next]_(Submission!svars)
  <2>1. UNCHANGED vars => UNCHANGED Submission!svars
    BY DEF vars, queue, serverVars, Submission!svars
  <2> QED
    BY <2>1, SubmissionStep
<1> QED
  BY <1>1, <1>2, Invariance, PTL DEF Spec, Submission!Spec, ImplementsSubmission
=============================================================================
