----------------------------- MODULE OutboxProofs -----------------------------
(***************************************************************************)
(* The e-mail queue implements Outbox, for any companies, rows, batches,   *)
(* requests and faults but an overrun: its initial states are initial      *)
(* states of Outbox, and each of its steps is a step of Outbox or none.    *)
(***************************************************************************)
EXTENDS QueueOutbox, EmailQueueProofs

\* A message about to be recorded was counted.
CommitCounted == \A w \in Worker : worker[w].pc = "commit" => delivered[Target(w)] > 0

BoxInv == TypeInv /\ OnceInv /\ CommitCounted

-----------------------------------------------------------------------------
(* What is on its way. *)

\* Steps that begin and end no message, ...
LEMMA SameUnderWay ==
    ASSUME TypeInv, Keeps,
           \A w \in Worker : worker'[w].pc = worker[w].pc /\ worker'[w].item = worker[w].item
    PROVE  /\ UnderWay' = UnderWay
           /\ \A w \in Worker : worker[w].pc \in {"send", "commit"} => Target(w)' = Target(w)
<1>1. ASSUME NEW w \in Worker, worker[w].pc \in {"send", "commit"}
      PROVE  Target(w)' = Target(w)
  BY <1>1 DEF TypeInv, Given, Keeps, Target
<1>2. QED
  BY <1>1 DEF UnderWay

\* ... and steps of the only batch there is.
LEMMA OneUnderWay ==
    ASSUME TypeInv, NEW w \in Worker, \A v \in Worker : v # w => ~Busy(v),
           NEW new, worker' = [worker EXCEPT ![w] = new]
    PROVE  /\ UnderWay = IF worker[w].pc = "send" THEN {Target(w)} ELSE {}
           /\ UnderWay' = IF new.pc = "send" THEN {row'[new.item].of} ELSE {}
           /\ \A v \in Worker : worker'[v].pc = "commit" => v = w /\ new.pc = "commit"
           /\ Target(w)' = row'[new.item].of
<1>1. \A v \in Worker : worker'[v] = IF v = w THEN new ELSE worker[v]
  BY DEF TypeInv, TypeOK
<1>2. \A v \in Worker : v # w => worker[v].pc = "idle" /\ worker'[v].pc = "idle"
  BY <1>1 DEF Busy
<1>3. UnderWay = IF worker[w].pc = "send" THEN {Target(w)} ELSE {}
  BY <1>2 DEF UnderWay
<1>4. UnderWay' = IF new.pc = "send" THEN {row'[new.item].of} ELSE {}
  BY <1>1, <1>2 DEF UnderWay, Target
<1>5. \A v \in Worker : worker'[v].pc = "commit" => v = w /\ new.pc = "commit"
  BY <1>1, <1>2
<1>6. Target(w)' = row'[new.item].of
  BY <1>1 DEF Target
<1>7. QED
  BY <1>3, <1>4, <1>5, <1>6

\* A sending has a company, and it stays the company of the row.
LEMMA TargetStays ==
    ASSUME TypeInv, Keeps, NEW w \in Worker, worker[w].pc \in {"send", "commit"}
    PROVE  Target(w) \in Company /\ row'[worker[w].item].of = Target(w)
BY TargetIsCompany DEF TypeInv, Given, Keeps, Target
-----------------------------------------------------------------------------
(* What a step of the queue is to Outbox. *)

BoxStep == [Box!OutboxNext]_Box!outboxVars

LEMMA Stutters ==
    ASSUME UnderWay' = UnderWay, OptedOut' = OptedOut, UNCHANGED <<delivered, unrecorded>>
    PROVE  BoxStep
BY DEF BoxStep, Box!outboxVars

\* A step that changes unsub of no company.
LEMMA SameOptedOut ==
    ASSUME \A c \in Company : company'[c].unsub = company[c].unsub
    PROVE  OptedOut' = OptedOut
BY DEF OptedOut

\* Steps that begin and end no message, mail nothing and lose nothing.
LEMMA QuietStep ==
    ASSUME TypeInv, Keeps, CommitCounted, UNCHANGED <<delivered, unrecorded>>,
           \A w \in Worker : worker'[w].pc = worker[w].pc /\ worker'[w].item = worker[w].item,
           OptedOut' = OptedOut
    PROVE  CommitCounted' /\ BoxStep
<1>1. UnderWay' = UnderWay /\ \A w \in Worker : worker[w].pc \in {"send", "commit"} => Target(w)' = Target(w)
  BY SameUnderWay
<1>2. CommitCounted'
  BY <1>1 DEF CommitCounted
<1>3. QED
  BY <1>1, <1>2, Stutters

\* The batch moves on, to no message: one that was on its way is given up, one
\* that was not recorded is forgotten.
LEMMA MoveOn ==
    ASSUME TypeInv, Keeps, CommitCounted, NEW w \in Worker, \A v \in Worker : v # w => ~Busy(v),
           NEW new, worker' = [worker EXCEPT ![w] = new], new.pc \notin {"send", "commit"},
           OptedOut' = OptedOut, delivered' = delivered,
           \/ unrecorded' = unrecorded
           \/ worker[w].pc = "commit" /\ unrecorded' = unrecorded \cup {Target(w)}
    PROVE  CommitCounted' /\ BoxStep
<1>1. /\ UnderWay = IF worker[w].pc = "send" THEN {Target(w)} ELSE {}
      /\ UnderWay' = {}
      /\ \A v \in Worker : worker'[v].pc # "commit"
  BY OneUnderWay
<1>2. CommitCounted'
  BY <1>1 DEF CommitCounted
<1>3. CASE worker[w].pc = "send"
  <2>1. Target(w) \in Company
    BY <1>3, TargetIsCompany
  <2>2. Box!GiveUp(Target(w))
    BY <1>1, <1>3 DEF Box!GiveUp
  <2>3. QED
    BY <1>2, <2>1, <2>2 DEF BoxStep, Box!OutboxNext
<1>4. CASE worker[w].pc # "send" /\ unrecorded' = unrecorded
  BY <1>1, <1>2, <1>4, Stutters
<1>5. CASE worker[w].pc = "commit" /\ unrecorded' = unrecorded \cup {Target(w)}
  <2>1. Target(w) \in Company /\ delivered[Target(w)] > 0
    BY <1>5, TargetIsCompany DEF CommitCounted
  <2>2. Box!Forget(Target(w))
    BY <1>1, <1>5, <2>1 DEF Box!Forget
  <2>3. QED
    BY <1>2, <2>1, <2>2 DEF BoxStep, Box!OutboxNext
<1>6. QED
  BY <1>3, <1>4, <1>5

\* No recording of a sending touches unsub.
LEMMA RecordOptsNobodyOut == ASSUME TypeInv, NEW w \in Worker, Record(w) PROVE OptedOut' = OptedOut
<1>1. \A c \in Company : company'[c].unsub = company[c].unsub
  BY DEF Record, TypeInv, TypeOK, CompanyType
<1>2. QED
  BY <1>1, SameOptedOut

\* A message is begun by the fresh check.
LEMMA CheckBegins ==
    ASSUME BoxInv, Keeps, NEW w \in Worker, Check(w)
    PROVE  CommitCounted' /\ BoxStep
<1> USE DEF BoxInv
<1>1. PICK n \in worker[w].todo, pc \in {"send", "log"} :
        /\ worker' = [worker EXCEPT ![w] =
               Doing(pc, worker[w].todo \ {n}, worker[w].unfit, n, company[row[n].of].consent)]
        /\ pc = "send" => Sendable(row[n].of)
  BY DEF Check
<1> DEFINE new == Doing(pc, worker[w].todo \ {n}, worker[w].unfit, n, company[row[n].of].consent)
           c == row[n].of
<1>2. worker' = [worker EXCEPT ![w] = new] /\ new.pc = pc /\ new.item = n
  BY <1>1 DEF Doing
<1> HIDE DEF new
<1>3. worker[w].pc = "batch" /\ UNCHANGED <<company, row, delivered, unrecorded>>
  BY DEF Check
<1>4. \A v \in Worker : v # w => ~Busy(v)
  BY <1>3 DEF OnceInv, OneBatch, Busy
<1>5. OptedOut' = OptedOut
  BY <1>3, SameOptedOut
<1>6. CASE pc = "log"
  BY <1>2, <1>3, <1>4, <1>5, <1>6, MoveOn
<1>7. CASE pc = "send"
  <2>1. /\ UnderWay = {} /\ UnderWay' = {c}
        /\ \A v \in Worker : worker'[v].pc # "commit"
    <3>1. new.pc = "send" /\ row'[new.item].of = c
      BY <1>2, <1>3, <1>7
    <3>2. QED
      BY <1>2, <1>3, <1>4, <3>1, OneUnderWay
  <2>2. c \in Company /\ Sendable(c)
    <3>1. n \in RowId /\ n <= rows
      BY DEF TypeInv, TypeOK, Given, WorkerType
    <3>2. QED
      BY <1>1, <1>7, <3>1 DEF TypeInv, Given
  <2>3. delivered[c] = 0 \/ c \in unrecorded
    <3>1. SUFFICES ASSUME c \notin unrecorded PROVE delivered[c] = 0
      OBVIOUS
    <3>2. Accounted(c) /\ ~Committing(c) /\ delivered[c] \in 0..2
      BY <1>3, <1>4, <2>2, <3>1 DEF OnceInv, Committing, TypeInv, TypeOK, Busy
    <3>3. QED
      BY <2>2, <3>2 DEF Accounted, Sendable
  <2>4. Box!Begin(c)
    BY <1>3, <1>5, <2>1, <2>2, <2>3 DEF Box!Begin, Box!MayBegin, OptedOut, Sendable
  <2>5. CommitCounted'
    BY <2>1 DEF CommitCounted
  <2>6. QED
    BY <2>2, <2>4, <2>5 DEF BoxStep, Box!OutboxNext
<1>8. QED
  BY <1>6, <1>7

\* A message that was on its way is mailed, with or without an answer.
LEMMA DeliverMails ==
    ASSUME BoxInv, Keeps, NEW w \in Worker, Deliver(w) \/ DeliverUnanswered(w)
    PROVE  CommitCounted' /\ BoxStep
<1> USE DEF BoxInv
<1> DEFINE c == Target(w)
<1>1. worker[w].pc = "send" /\ UNCHANGED <<company, row>> /\ delivered' = Delivered(c)
  BY DEF Deliver, DeliverUnanswered
<1>2. c \in Company
  BY <1>1, TargetIsCompany
<1>3. \A v \in Worker : v # w => ~Busy(v)
  BY <1>1 DEF OnceInv, OneBatch, Busy
<1>4. PICK pc \in {"commit", "log"} :
        /\ worker' = [worker EXCEPT ![w] = [worker[w] EXCEPT !.pc = pc]]
        /\ unrecorded' = IF pc = "log" THEN unrecorded \cup {c} ELSE unrecorded
  BY DEF Deliver, DeliverUnanswered
<1> DEFINE new == [worker[w] EXCEPT !.pc = pc]
<1>5. new.pc = pc /\ new.item = worker[w].item
  BY DEF TypeInv, TypeOK, WorkerType
<1>6. worker' = [worker EXCEPT ![w] = new]
  BY <1>4
<1> HIDE DEF new
<1>7. /\ UnderWay = {c} /\ UnderWay' = {}
      /\ \A v \in Worker : worker'[v].pc = "commit" => v = w
      /\ Target(w)' = c
  <2>1. /\ UnderWay = {Target(w)} /\ UnderWay' = {}
        /\ \A v \in Worker : worker'[v].pc = "commit" => v = w
        /\ Target(w)' = row'[new.item].of
    <3>1. new.pc # "send"
      BY <1>5
    <3>2. QED
      BY <1>1, <1>3, <1>6, <3>1, OneUnderWay
  <2>2. row'[new.item].of = Target(w)
    BY <1>1, <1>5 DEF Target
  <2>3. QED
    BY <2>1, <2>2
<1>8. delivered'[c] > 0
  BY <1>1, <1>2 DEF Delivered, TypeInv, TypeOK
<1>9. CommitCounted'
  BY <1>7, <1>8 DEF CommitCounted
<1>10. OptedOut' = OptedOut
  BY <1>1, SameOptedOut
<1>11. Box!Mail(c) \/ Box!MailUnheard(c)
  BY <1>1, <1>4, <1>7, <1>10 DEF Box!Mail, Box!MailUnheard, Box!Counted, Delivered
<1>12. QED
  BY <1>2, <1>9, <1>11 DEF BoxStep, Box!OutboxNext

\* Of the requests only an opt-out changes what Outbox knows.
LEMMA RequestStep ==
    ASSUME BoxInv, Keeps, Request
    PROVE  CommitCounted' /\ BoxStep
<1> USE DEF BoxInv
<1>1. UNCHANGED <<delivered, unrecorded>>
  BY DEF Request, Ask, Enqueue, Approve, Withdraw, MarkSent, SetConsent, OptOut, Remove
<1>2. \A w \in Worker : worker'[w].pc = worker[w].pc /\ worker'[w].item = worker[w].item
  <2>1. ASSUME NEW c \in Company, worker' = Raced(c), NEW w \in Worker
        PROVE  worker'[w].pc = worker[w].pc /\ worker'[w].item = worker[w].item
    BY <2>1 DEF Raced, TypeInv, TypeOK, WorkerType
  <2>2. worker' = worker \/ \E c \in Company : worker' = Raced(c)
    BY DEF Request, Ask, Enqueue, Approve, Withdraw, MarkSent, SetConsent, OptOut, Remove
  <2>3. QED
    BY <2>1, <2>2
<1>3. CASE \E c \in Company, ready \in BOOLEAN : OptOut(c, ready)
  <2>1. PICK c \in Company, ready \in BOOLEAN : OptOut(c, ready)
    BY <1>3
  <2>2. \A b \in Company : company'[b].unsub = (b = c \/ company[b].unsub)
    BY <2>1 DEF OptOut, TypeInv, TypeOK, CompanyType
  <2>3. OptedOut' = OptedOut \cup {c}
    BY <2>2 DEF OptedOut
  <2>4. UnderWay' = UnderWay /\ \A w \in Worker : worker[w].pc \in {"send", "commit"} => Target(w)' = Target(w)
    BY <1>2, SameUnderWay
  <2>5. CommitCounted'
    BY <1>1, <1>2, <2>4 DEF CommitCounted
  <2>6. Box!OptOut(c)
    BY <1>1, <2>3, <2>4 DEF Box!OptOut
  <2>7. QED
    BY <2>5, <2>6 DEF BoxStep, Box!OutboxNext
<1>4. CASE ~\E c \in Company, ready \in BOOLEAN : OptOut(c, ready)
  <2>1. \A b \in Company : company'[b].unsub = company[b].unsub
    <3>1. CASE company' = company
      BY <3>1
    <3>2. CASE \E c \in Company : Approve(c) \/ Withdraw(c) \/ MarkSent(c)
      BY <3>2 DEF Approve, Withdraw, MarkSent, TypeInv, TypeOK, CompanyType
    <3>3. CASE \E c \in Company, consent \in Consent : SetConsent(c, consent)
      BY <3>3 DEF SetConsent, TypeInv, TypeOK, CompanyType
    <3>4. QED
      BY <1>4, <3>1, <3>2, <3>3 DEF Request, Ask, Enqueue, Remove
  <2>2. QED
    BY <1>1, <1>2, <2>1, SameOptedOut, QuietStep
<1>5. QED
  BY <1>3, <1>4

\* Every step, without overruns.
LEMMA NextStep ==
    ASSUME "overrun" \notin Fault, BoxInv, [Next]_vars
    PROVE  BoxInv' /\ BoxStep
<1> USE DEF BoxInv
<1>1. Keeps /\ TypeInv' /\ OnceInv'
  BY NextKeeps, NextTypes, NextOnce
<1>2. SUFFICES CommitCounted' /\ BoxStep
  BY <1>1
<1>3. ASSUME UNCHANGED <<company, worker, delivered, unrecorded>> PROVE CommitCounted' /\ BoxStep
  BY <1>1, <1>3, SameOptedOut, QuietStep
<1>4. CASE UNCHANGED vars
  BY <1>3, <1>4 DEF vars
<1>5. ASSUME NEW w \in Worker, StartBatch(w) PROVE CommitCounted' /\ BoxStep
  <2>1. /\ worker' = [worker EXCEPT ![w] = [worker[w] EXCEPT !.pc = "claim"]]
        /\ \A v \in Worker : ~Busy(v)
        /\ UNCHANGED <<company, delivered, unrecorded>>
    BY <1>5 DEF StartBatch, Busy
  <2>2. [worker[w] EXCEPT !.pc = "claim"].pc = "claim"
    BY DEF TypeInv, TypeOK, WorkerType
  <2>3. QED
    BY <1>1, <2>1, <2>2, SameOptedOut, MoveOn
<1>6. ASSUME NEW w \in Worker, Claim(w) PROVE CommitCounted' /\ BoxStep
  <2> DEFINE eligible == {n \in RowId : row[n].status = "pending" /\ ~company[row[n].of].unsub}
             claimed == {n \in eligible : Cardinality({m \in eligible : m < n}) < BatchSize}
             unfit == {n \in claimed : ~Fit(row[n].of)}
             new == IF eligible = {} THEN Idle ELSE Doing("batch", claimed, unfit, 0, "cold")
  <2>1. /\ worker' = [worker EXCEPT ![w] = new] /\ worker[w].pc = "claim"
        /\ UNCHANGED <<company, delivered, unrecorded>>
    BY <1>6 DEF Claim
  <2> HIDE DEF eligible, claimed, unfit
  <2>2. new.pc \notin {"send", "commit"}
    BY DEF Idle, Doing
  <2> HIDE DEF new
  <2>3. \A v \in Worker : v # w => ~Busy(v)
    BY <2>1 DEF OnceInv, OneBatch, Busy
  <2>4. QED
    BY <1>1, <2>1, <2>2, <2>3, SameOptedOut, MoveOn
<1>7. ASSUME NEW w \in Worker,
             \/ EndBatch(w) \/ PutBack(w) \/ Refuse(w) \/ Commit(w) \/ CommitFails(w)
             \/ CommitUnanswered(w) \/ LogDead(w) \/ LogDeadFails(w) \/ MarkFailed(w) \/ Crash(w)
      PROVE  CommitCounted' /\ BoxStep
  <2>1. Busy(w) /\ delivered' = delivered
    BY <1>7 DEF EndBatch, PutBack, Refuse, Commit, CommitFails, CommitUnanswered, LogDead,
                LogDeadFails, MarkFailed, Crash, Busy
  <2>2. PICK new \in {Idle, Doing("batch", worker[w].todo, worker[w].unfit, 0, "cold"),
                      [worker[w] EXCEPT !.pc = "log"], [worker[w] EXCEPT !.pc = "mark"]} :
          worker' = [worker EXCEPT ![w] = new]
    BY <1>7 DEF EndBatch, PutBack, Refuse, Commit, CommitFails, CommitUnanswered, LogDead,
                LogDeadFails, MarkFailed, Crash, Done
  <2>3. new.pc \notin {"send", "commit"}
    BY <2>2 DEF Idle, Doing, TypeInv, TypeOK, WorkerType
  <2>4. \/ unrecorded' = unrecorded
        \/ worker[w].pc = "commit" /\ unrecorded' = unrecorded \cup {Target(w)}
    BY <1>7 DEF EndBatch, PutBack, Refuse, Commit, CommitFails, CommitUnanswered, LogDead,
                LogDeadFails, MarkFailed, Crash
  <2>5. OptedOut' = OptedOut
    <3>1. CASE Commit(w) \/ CommitUnanswered(w)
      BY <3>1, RecordOptsNobodyOut DEF Commit, CommitUnanswered
    <3>2. CASE company' = company
      BY <3>2, SameOptedOut
    <3>3. QED
      BY <1>7, <3>1, <3>2 DEF EndBatch, PutBack, Refuse, CommitFails, LogDead, LogDeadFails, MarkFailed, Crash
  <2>6. \A v \in Worker : v # w => ~Busy(v)
    BY <2>1 DEF OnceInv, OneBatch
  <2>7. QED
    BY <1>1, <2>1, <2>2, <2>3, <2>4, <2>5, <2>6, MoveOn
<1>8. ASSUME \/ \E d \in LetterId : RetryOne(d) \/ Due(d)
             \/ \E n \in RowId : Age(n)
             \/ NewDay
      PROVE  CommitCounted' /\ BoxStep
  BY <1>3, <1>8 DEF RetryOne, Due, Age, NewDay
<1>9. QED
  BY <1>1, <1>4, <1>5, <1>6, <1>7, <1>8, CheckBegins, DeliverMails, RequestStep DEF Next, AnyStart, WorkerStep

\* While batches keep within their lease, what the queue, its retries, its
\* crashes and the handlers do to the companies is what Outbox promises.
THEOREM QueueKeepsPromise == ASSUME "overrun" \notin Fault PROVE Spec => KeepsPromise
<1>1. Init => BoxInv
  <2>1. SUFFICES ASSUME Init PROVE BoxInv
    OBVIOUS
  <2>2. \A w \in Worker : worker[w].pc = "idle"
    BY <2>1 DEF Init, Idle, Doing
  <2>3. \A c \in Company : Accounted(c)
    BY <2>1, <2>2 DEF Init, Accounted
  <2>4. QED
    BY <2>1, <2>2, <2>3, InitTypes DEF BoxInv, OnceInv, OneBatch, Busy, CommitCounted
<1>2. Init => Box!OutboxInit
  <2>1. SUFFICES ASSUME Init PROVE Box!OutboxInit
    OBVIOUS
  <2>2. \A w \in Worker : worker[w].pc # "send"
    BY <2>1 DEF Init, Idle, Doing
  <2>3. UnderWay = {}
    BY <2>2 DEF UnderWay
  <2>4. \A c \in Company : ~company[c].unsub
    BY <2>1 DEF Init
  <2>5. OptedOut = {}
    BY <2>4 DEF OptedOut
  <2>6. QED
    BY <2>1, <2>3, <2>5 DEF Init, Box!OutboxInit
<1>3. BoxInv /\ [Next]_vars => BoxInv' /\ [Box!OutboxNext]_Box!outboxVars
  BY NextStep DEF BoxStep
<1>4. QED
  BY <1>1, <1>2, <1>3, PTL DEF Spec, KeepsPromise, Box!OutboxSpec
=============================================================================
