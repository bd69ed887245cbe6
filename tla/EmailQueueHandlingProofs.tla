---------------------- MODULE EmailQueueHandlingProofs ----------------------
(***************************************************************************)
(* Four more invariants of EmailQueue, for every value of the constants: an*)
(* opt-out is honoured at the fresh check, no failure is forgotten, a cold *)
(* company is mailed only when it was asked for, and the daily budget is   *)
(* exceeded by less than a batch.  They rest on the types and on what      *)
(* every step keeps (EmailQueueProofs).                                    *)
(***************************************************************************)
EXTENDS EmailQueueProofs, FiniteSetTheorems

USE DEF RowId, LetterId, Context, Consent

-----------------------------------------------------------------------------
(* OptOutHonoured is inductive: a sending begins with a company that has not *)
(* opted out, and an opt-out marks the sendings it is too late for.          *)

\* A step that begins no sending and changes no opt-out keeps it.
LEMMA NoSendingBegins ==
  ASSUME TypeInv, OptOutHonoured, Keeps,
         \A c \in Company : company'[c].unsub = company[c].unsub,
         \A w \in Worker : worker'[w].pc = "send" => worker'[w] = worker[w]
  PROVE  OptOutHonoured'
<1> SUFFICES ASSUME NEW w \in Worker, worker'[w].pc = "send", company'[Target(w)'].unsub
             PROVE  worker'[w].raced
  BY DEF OptOutHonoured
<1>1. worker'[w] = worker[w] /\ worker[w].item \in 1..rows /\ Target(w) \in Company
  BY TargetIsCompany DEF TypeInv, Given
<1>2. Target(w)' = Target(w)
  BY <1>1 DEF Target, Keeps
<1> QED
  BY <1>1, <1>2 DEF OptOutHonoured

\* A batch that moves anywhere but to a sending is such a step.
LEMMA MoveBeginsNoSending ==
  ASSUME TypeInv, OptOutHonoured, Keeps,
         \A c \in Company : company'[c].unsub = company[c].unsub,
         NEW w \in Worker, NEW new, worker' = [worker EXCEPT ![w] = new], new.pc # "send"
  PROVE  OptOutHonoured'
<1>1. \A v \in Worker : worker'[v] = IF v = w THEN new ELSE worker[v]
  BY DEF TypeInv, TypeOK
<1> QED
  BY <1>1, NoSendingBegins

\* Every step keeps OptOutHonoured.
LEMMA NextOptOut == ASSUME TypeInv, OptOutHonoured, [Next]_vars PROVE OptOutHonoured'
<1>0. Keeps
  BY NextKeeps
<1>a. company \in [Company -> CompanyType] /\ worker \in [Worker -> WorkerType]
  BY DEF TypeInv, TypeOK
<1>1. CASE UNCHANGED vars
  BY <1>0, <1>1, NoSendingBegins DEF vars
<1>2. ASSUME NEW w \in Worker, StartBatch(w) PROVE OptOutHonoured'
  <2>1. worker' = [worker EXCEPT ![w] = [worker[w] EXCEPT !.pc = "claim"]] /\ company' = company
    BY <1>2 DEF StartBatch
  <2>2. [worker[w] EXCEPT !.pc = "claim"].pc = "claim"
    BY <1>a DEF WorkerType
  <2> QED
    BY <1>0, <2>1, <2>2, MoveBeginsNoSending
<1>3. ASSUME NEW w \in Worker, Claim(w) PROVE OptOutHonoured'
  <2> DEFINE eligible == {n \in RowId : row[n].status = "pending" /\ ~company[row[n].of].unsub}
             claimed == {n \in eligible : Cardinality({m \in eligible : m < n}) < BatchSize}
             unfit == {n \in claimed : ~Fit(row[n].of)}
             new == IF eligible = {} THEN Idle ELSE Doing("batch", claimed, unfit, 0, "cold")
  <2>1. worker' = [worker EXCEPT ![w] = new] /\ company' = company
    BY <1>3 DEF Claim
  <2> HIDE DEF eligible, claimed, unfit
  <2>2. new.pc # "send"
    BY DEF Idle, Doing
  <2> HIDE DEF new
  <2> QED
    BY <1>0, <2>1, <2>2, MoveBeginsNoSending
<1>4. ASSUME NEW w \in Worker, Check(w) PROVE OptOutHonoured'
  <2>1. PICK n \in worker[w].todo, pc \in {"send", "log"} :
          /\ worker' = [worker EXCEPT ![w] =
                 Doing(pc, worker[w].todo \ {n}, worker[w].unfit, n, company[row[n].of].consent)]
          /\ pc = "send" => Sendable(row[n].of)
    BY <1>4 DEF Check
  <2> DEFINE new == Doing(pc, worker[w].todo \ {n}, worker[w].unfit, n, company[row[n].of].consent)
  <2>2. /\ worker' = [worker EXCEPT ![w] = new]
        /\ new.pc = pc /\ new.item = n
    BY <2>1 DEF Doing
  <2> HIDE DEF new
  <2>3. company' = company /\ row' = row
    BY <1>4 DEF Check
  <2>4. CASE pc = "log"
    BY <1>0, <2>2, <2>3, <2>4, MoveBeginsNoSending
  <2>5. CASE pc = "send"
    <3>1. worker'[w].item = n /\ \A v \in Worker : v # w => worker'[v] = worker[v]
      BY <1>a, <2>2
    <3>2. ~company'[Target(w)'].unsub
      BY <2>1, <2>3, <2>5, <3>1 DEF Target, Sendable
    <3>3. ASSUME NEW v \in Worker, v # w, worker'[v].pc = "send", company'[Target(v)'].unsub
          PROVE  worker'[v].raced
      BY <2>3, <3>1, <3>3 DEF OptOutHonoured, Target
    <3> QED
      BY <3>2, <3>3 DEF OptOutHonoured
  <2> QED
    BY <2>4, <2>5
<1>5. ASSUME NEW w \in Worker,
             \/ EndBatch(w) \/ PutBack(w) \/ Refuse(w) \/ Deliver(w) \/ DeliverUnanswered(w)
             \/ Commit(w) \/ CommitFails(w) \/ CommitUnanswered(w)
             \/ LogDead(w) \/ LogDeadFails(w) \/ MarkFailed(w) \/ Crash(w)
      PROVE  OptOutHonoured'
  <2>1. PICK new \in {Idle, Doing("batch", worker[w].todo, worker[w].unfit, 0, "cold"),
                      [worker[w] EXCEPT !.pc = "log"], [worker[w] EXCEPT !.pc = "mark"],
                      [worker[w] EXCEPT !.pc = "commit"]} :
          worker' = [worker EXCEPT ![w] = new]
    BY <1>5 DEF EndBatch, PutBack, Refuse, Deliver, DeliverUnanswered, Commit, CommitFails,
                CommitUnanswered, LogDead, LogDeadFails, MarkFailed, Crash, Done
  <2>2. new.pc # "send"
    BY <1>a, <2>1 DEF Idle, Doing, WorkerType
  <2>3. company' = company \/ company' = [company EXCEPT ![Target(w)] = [company[Target(w)] EXCEPT !.sent = TRUE]]
    BY <1>5 DEF EndBatch, PutBack, Refuse, Deliver, DeliverUnanswered, Commit, CommitFails,
                CommitUnanswered, LogDead, LogDeadFails, MarkFailed, Crash, Record
  <2>4. \A c \in Company : company'[c].unsub = company[c].unsub
    BY <1>a, <2>3 DEF CompanyType
  <2> QED
    BY <1>0, <2>1, <2>2, <2>4, MoveBeginsNoSending
<1>6. ASSUME \/ \E d \in LetterId : RetryOne(d) \/ Due(d)
             \/ \E n \in RowId : Age(n) \/ Remove(n)
             \/ NewDay
             \/ \E c \in Company, ctx \in Context : Ask(c, ctx) \/ Enqueue(c, ctx)
      PROVE  OptOutHonoured'
  <2>1. worker' = worker /\ company' = company
    BY <1>6 DEF RetryOne, Due, Age, Remove, NewDay, Ask, Enqueue
  <2> QED
    BY <1>0, <2>1, NoSendingBegins
<1>7. ASSUME NEW c \in Company,
             \/ Approve(c) \/ Withdraw(c) \/ MarkSent(c)
             \/ \E consent \in Consent : SetConsent(c, consent)
      PROVE  OptOutHonoured'
  <2>1. worker' = worker /\ \E new \in {[company[c] EXCEPT !.ready = TRUE], [company[c] EXCEPT !.ready = FALSE],
                                        [company[c] EXCEPT !.sent = TRUE]}
                                       \cup {[company[c] EXCEPT !.consent = x] : x \in Consent} :
          company' = [company EXCEPT ![c] = new]
    BY <1>7 DEF Approve, Withdraw, MarkSent, SetConsent
  <2>2. \A b \in Company : company'[b].unsub = company[b].unsub
    BY <1>a, <2>1 DEF CompanyType
  <2> QED
    BY <1>0, <2>1, <2>2, NoSendingBegins
<1>8. ASSUME NEW c \in Company, NEW ready \in BOOLEAN, OptOut(c, ready) PROVE OptOutHonoured'
  <2>1. worker' = Raced(c) /\ row' = row
        /\ company' = [company EXCEPT ![c] = [company[c] EXCEPT !.unsub = TRUE, !.ready = ready]]
    BY <1>8 DEF OptOut
  <2>2. \A b \in Company : b # c => company'[b] = company[b]
    BY <1>a, <2>1
  <2>3. ASSUME NEW w \in Worker
        PROVE  /\ worker'[w].pc = worker[w].pc /\ worker'[w].item = worker[w].item
               /\ worker[w].raced => worker'[w].raced
               /\ worker[w].pc = "send" /\ Target(w) = c => worker'[w].raced
    BY <1>a, <2>1 DEF Raced, WorkerType
  <2>4. ASSUME NEW w \in Worker, worker'[w].pc = "send", company'[Target(w)'].unsub
        PROVE  worker'[w].raced
    <3>1. Target(w)' = Target(w) /\ worker[w].pc = "send" /\ Target(w) \in Company
      BY <2>1, <2>3, <2>4, TargetIsCompany DEF Target
    <3> QED
      BY <2>2, <2>3, <2>4, <3>1 DEF OptOutHonoured
  <2> QED
    BY <2>4 DEF OptOutHonoured
<1> QED
  BY <1>1, <1>2, <1>3, <1>4, <1>5, <1>6, <1>7, <1>8 DEF Next, AnyStart, WorkerStep, Request

\* Whatever the faults, overlapping batches included, a message is under way to
\* a company that opted out only when it did so after the fresh check.
THEOREM OptOutsHonoured == Spec => []OptOutHonoured
<1>1. Init => OptOutHonoured
  BY DEF Init, OptOutHonoured, Idle, Doing
<1>2. TypeInv /\ OptOutHonoured /\ [Next]_vars => OptOutHonoured'
  BY NextOptOut
<1> QED
  BY <1>1, <1>2, InitTypes, NextTypes, PTL DEF Spec

-----------------------------------------------------------------------------
(* FailedHasLetter is not inductive: the dead letter is written one step     *)
(* before the row is marked failed, so the invariant also speaks of the row  *)
(* about to be marked; and a free place of the table belongs to no row.      *)

Remembered(n) == n \in settled \/ \E d \in LetterId : letter[d].row = n

AboutToFail(n) == \E w \in Worker : worker[w].pc = "mark" /\ worker[w].item = n

FailInv ==
    /\ \A d \in LetterId : ~Open(d) => letter[d].row = 0
    /\ \A n \in RowId :
          row[n].status = "failed" \/ (AboutToFail(n) /\ row[n].status # "deleted") => Remembered(n)

\* A step that leaves the dead letters alone, fails no row and brings no batch
\* to the marking keeps it.
LEMMA NoFailure ==
  ASSUME TypeInv, FailInv, letter' = letter, settled' = settled,
         \A n \in RowId : /\ row'[n].status = "failed" => row[n].status = "failed"
                          /\ row'[n].status # "deleted" => row[n].status # "deleted",
         \A w \in Worker : worker'[w].pc = "mark" =>
             worker[w].pc = "mark" /\ worker'[w].item = worker[w].item
  PROVE  FailInv'
<1>1. \A n \in RowId : AboutToFail(n)' => AboutToFail(n)
  BY DEF AboutToFail
<1>2. \A n \in RowId : Remembered(n) => Remembered(n)'
  BY DEF Remembered
<1> QED
  BY <1>1, <1>2 DEF FailInv, Open

\* So does a step that only adds to what is remembered.
LEMMA MoreRemembered ==
  ASSUME TypeInv, FailInv, worker' = worker,
         \A d \in LetterId : letter'[d].of = None => letter'[d].row = 0,
         \A n \in RowId : Remembered(n) => Remembered(n)' \/ row'[n].status = "deleted",
         \A n \in RowId : /\ row'[n].status = "failed" => row[n].status = "failed"
                          /\ row'[n].status # "deleted" => row[n].status # "deleted"
  PROVE  FailInv'
<1>1. \A n \in RowId : AboutToFail(n)' <=> AboutToFail(n)
  BY DEF AboutToFail
<1> QED
  BY <1>1 DEF FailInv, Open

\* A status other than "failed" and "deleted" fails no row and brings none back.
LEMMA StatusFailsNoRow ==
  ASSUME TypeInv, NEW n \in RowId, NEW status \in {"pending", "sent"}, row' = SetStatus(n, status),
         NEW m \in RowId
  PROVE  /\ row'[m].status = "failed" => row[m].status = "failed"
         /\ row'[m].status # "deleted" => row[m].status # "deleted"
<1>1. row \in [RowId -> RowType]
  BY DEF TypeInv, TypeOK
<1>2. CASE row[n].status \in {"none", "deleted"}
  BY <1>2 DEF SetStatus
<1>3. CASE row[n].status \notin {"none", "deleted"}
  <2>1. row' = [row EXCEPT ![n] = [row[n] EXCEPT !.status = status, !.old = FALSE]]
    BY <1>3 DEF SetStatus
  <2> QED
    BY <1>1, <1>3, <2>1 DEF RowType
<1> QED
  BY <1>2, <1>3

\* An inserted row has not failed.
LEMMA InsertFailsNoRow ==
  ASSUME TypeInv, NEW c \in Company, NEW ctx \in Context,
         Insert(c, ctx), NEW m \in RowId
  PROVE  /\ row'[m].status = "failed" => row[m].status = "failed"
         /\ row'[m].status # "deleted" => row[m].status # "deleted"
<1>1. row \in [RowId -> RowType] /\ rows \in 0..MaxRows
  BY DEF TypeInv, TypeOK
<1>2. CASE row' = row
  BY <1>2
<1>3. CASE row' # row
  <2>1. /\ rows < MaxRows
        /\ row' = [row EXCEPT ![rows + 1] =
              [status |-> "pending", of |-> c, ctx |-> ctx, old |-> FALSE]]
    BY <1>3 DEF Insert
  <2>2. rows + 1 \in RowId /\ ~(rows + 1 <= rows)
    BY <1>1, <2>1, BoundAssumption
  <2>3. row[rows + 1] = NoRow
    BY <2>2 DEF TypeInv, Given
  <2> QED
    BY <1>1, <2>1, <2>2, <2>3 DEF NoRow
<1> QED
  BY <1>2, <1>3

\* The steps of a batch keep the invariant.
LEMMA BatchFail ==
  ASSUME TypeInv, FailInv, "log" \notin Fault, NEW w \in Worker,
         StartBatch(w) \/ WorkerStep(w) \/ Crash(w)
  PROVE  FailInv'
<1>a. /\ worker \in [Worker -> WorkerType] /\ row \in [RowId -> RowType]
      /\ letter \in [LetterId -> LetterType]
  BY DEF TypeInv, TypeOK
<1>1. ASSUME NEW new, worker' = [worker EXCEPT ![w] = new], new.pc # "mark"
      PROVE  \A v \in Worker : worker'[v].pc = "mark" =>
                 worker[v].pc = "mark" /\ worker'[v].item = worker[v].item
  BY <1>a, <1>1
<1>2. CASE StartBatch(w)
  <2>1. [worker[w] EXCEPT !.pc = "claim"].pc = "claim"
    BY <1>a DEF WorkerType
  <2>2. ASSUME NEW n \in RowId
        PROVE  /\ row'[n].status = "failed" => row[n].status = "failed"
               /\ row'[n].status # "deleted" => row[n].status # "deleted"
    <3>1. row'[n] = IF Recoverable(n) THEN [row[n] EXCEPT !.status = "pending", !.old = FALSE] ELSE row[n]
      BY <1>2 DEF StartBatch
    <3> QED
      BY <1>a, <3>1 DEF Recoverable, RowType
  <2> QED
    BY <1>1, <1>2, <2>1, <2>2, NoFailure DEF StartBatch
<1>3. CASE Claim(w)
  <2> DEFINE eligible == {n \in RowId : row[n].status = "pending" /\ ~company[row[n].of].unsub}
             claimed == {n \in eligible : Cardinality({m \in eligible : m < n}) < BatchSize}
             unfit == {n \in claimed : ~Fit(row[n].of)}
             new == IF eligible = {} THEN Idle ELSE Doing("batch", claimed, unfit, 0, "cold")
  <2>1. /\ worker' = [worker EXCEPT ![w] = new]
        /\ UNCHANGED <<letter, settled>>
        /\ \/ row' = row
           \/ row' = [n \in RowId |->
                  IF n \in claimed THEN [row[n] EXCEPT !.status = "sending", !.old = FALSE] ELSE row[n]]
    BY <1>3 DEF Claim
  <2>2. \A n \in claimed : row[n].status = "pending"
    OBVIOUS
  <2> HIDE DEF eligible, claimed, unfit
  <2>3. new.pc # "mark"
    BY DEF Idle, Doing
  <2> HIDE DEF new
  <2>4. ASSUME NEW n \in RowId
        PROVE  /\ row'[n].status = "failed" => row[n].status = "failed"
               /\ row'[n].status # "deleted" => row[n].status # "deleted"
    <3>1. row'[n] = row[n] \/ (n \in claimed /\ row'[n] = [row[n] EXCEPT !.status = "sending", !.old = FALSE])
      BY <2>1
    <3> QED
      BY <1>a, <2>2, <3>1 DEF RowType
  <2> QED
    BY <1>1, <2>1, <2>3, <2>4, NoFailure
<1>4. CASE LogDead(w)
  <2> DEFINE n == worker[w].item
  <2>1. /\ worker[w].pc = "log" /\ row' = row /\ settled' = settled
        /\ worker' = [worker EXCEPT ![w] = [worker[w] EXCEPT !.pc = "mark"]]
    BY <1>4 DEF LogDead
  <2>2. n \in RowId /\ Target(w) \in Company /\ row[n].status # "none"
    BY <2>1, TargetIsCompany, BoundAssumption DEF TypeInv, TypeOK, Given
  <2>3. \/ letter' = letter /\ ~Loggable(n)
        \/ \E d \in LetterId :
              /\ ~Open(d)
              /\ letter' = [letter EXCEPT ![d] = [row |-> n, of |-> row[n].of, retries |-> 0, due |-> TRUE]]
    BY <1>4 DEF LogDead
  <2>4. /\ \A d \in LetterId : letter'[d].of = None => letter'[d].row = 0
        /\ \A m \in RowId : Remembered(m) => Remembered(m)'
        /\ row[n].status # "deleted" => Remembered(n)'
    <3>1. CASE letter' = letter /\ ~Loggable(n)
      BY <2>1, <2>2, <3>1 DEF Remembered, Loggable, FailInv, Open
    <3>2. ASSUME NEW d \in LetterId, ~Open(d),
                 letter' = [letter EXCEPT ![d] = [row |-> n, of |-> row[n].of, retries |-> 0, due |-> TRUE]]
          PROVE  /\ \A e \in LetterId : letter'[e].of = None => letter'[e].row = 0
                 /\ \A m \in RowId : Remembered(m) => Remembered(m)'
                 /\ row[n].status # "deleted" => Remembered(n)'
      <4>1. \A e \in LetterId : letter'[e] = IF e = d THEN [row |-> n, of |-> row[n].of, retries |-> 0, due |-> TRUE]
                                                      ELSE letter[e]
        BY <1>a, <3>2
      <4>2. letter[d].row = 0 /\ letter'[d].row = n /\ letter'[d].of = row[n].of
        BY <3>2, <4>1 DEF FailInv
      <4>3. row[n].of # None
        BY <2>2, BoundAssumption DEF Target
      <4> QED
        BY <2>1, <4>1, <4>2, <4>3 DEF Remembered, FailInv, Open
    <3> QED
      BY <2>3, <3>1, <3>2
  <2>5. \A v \in Worker : /\ v # w => worker'[v] = worker[v]
                          /\ worker'[w].item = n
    BY <1>a, <2>1 DEF WorkerType
  <2>6. \A m \in RowId : AboutToFail(m)' => AboutToFail(m) \/ m = n
    BY <2>5 DEF AboutToFail
  <2> QED
    BY <2>1, <2>4, <2>6 DEF FailInv, Open
<1>5. CASE MarkFailed(w)
  <2> DEFINE n == worker[w].item
             new == Doing("batch", worker[w].todo, worker[w].unfit, 0, "cold")
  <2>1. /\ worker[w].pc = "mark" /\ row' = SetStatus(n, "failed")
        /\ UNCHANGED <<letter, settled>>
        /\ worker' = [worker EXCEPT ![w] = new]
    BY <1>5 DEF MarkFailed, Done
  <2>2. new.pc # "mark"
    BY DEF Doing
  <2> HIDE DEF new
  <2>3. n \in RowId /\ AboutToFail(n)
    BY <2>1, TargetIsCompany DEF AboutToFail
  <2>4. ASSUME NEW m \in RowId
        PROVE  /\ row'[m].status = "failed" => row[m].status = "failed" \/ (m = n /\ row[n].status # "deleted")
               /\ row'[m].status # "deleted" => row[m].status # "deleted"
    BY <1>a, <2>1, <2>3 DEF SetStatus, RowType
  <2>5. \A m \in RowId : AboutToFail(m)' => AboutToFail(m)
    BY <1>1, <2>1, <2>2 DEF AboutToFail
  <2>6. \A m \in RowId : Remembered(m) => Remembered(m)'
    BY <2>1 DEF Remembered
  <2> QED
    BY <2>1, <2>3, <2>4, <2>5, <2>6 DEF FailInv, Open
<1>6. CASE \/ Check(w) \/ EndBatch(w) \/ PutBack(w) \/ Refuse(w) \/ Deliver(w) \/ DeliverUnanswered(w)
           \/ Commit(w) \/ CommitFails(w) \/ CommitUnanswered(w) \/ Crash(w)
  <2>1. PICK new : worker' = [worker EXCEPT ![w] = new] /\ new.pc # "mark"
    <3>1. CASE Check(w)
      <4>1. PICK n \in worker[w].todo, pc \in {"send", "log"} :
               worker' = [worker EXCEPT ![w] =
                   Doing(pc, worker[w].todo \ {n}, worker[w].unfit, n, company[row[n].of].consent)]
        BY <3>1 DEF Check
      <4>2. Doing(pc, worker[w].todo \ {n}, worker[w].unfit, n, company[row[n].of].consent).pc # "mark"
        BY DEF Doing
      <4> QED
        BY <4>1, <4>2
    <3>2. CASE \/ EndBatch(w) \/ PutBack(w) \/ Refuse(w) \/ Deliver(w) \/ DeliverUnanswered(w)
               \/ Commit(w) \/ CommitFails(w) \/ CommitUnanswered(w) \/ Crash(w)
      <4>1. PICK new \in {Idle, Doing("batch", worker[w].todo, worker[w].unfit, 0, "cold"),
                          [worker[w] EXCEPT !.pc = "log"], [worker[w] EXCEPT !.pc = "commit"]} :
              worker' = [worker EXCEPT ![w] = new]
        BY <3>2 DEF EndBatch, PutBack, Refuse, Deliver, DeliverUnanswered, Commit, CommitFails,
                    CommitUnanswered, Crash, Done
      <4>2. new.pc # "mark"
        BY <1>a, <4>1 DEF Idle, Doing, WorkerType
      <4> QED
        BY <4>1, <4>2
    <3> QED
      BY <1>6, <3>1, <3>2
  <2>2. UNCHANGED <<letter, settled>>
    BY <1>6 DEF Check, EndBatch, PutBack, Refuse, Deliver, DeliverUnanswered, Commit, CommitFails,
                CommitUnanswered, Crash
  <2>3. row' = row \/ (worker[w].item \in RowId /\ \E status \in {"pending", "sent"} :
                          row' = SetStatus(worker[w].item, status))
    BY <1>6, TargetIsCompany
       DEF Check, EndBatch, PutBack, Refuse, Deliver, DeliverUnanswered, Commit, CommitFails,
           CommitUnanswered, Crash, Record
  <2>4. ASSUME NEW n \in RowId
        PROVE  /\ row'[n].status = "failed" => row[n].status = "failed"
               /\ row'[n].status # "deleted" => row[n].status # "deleted"
    BY <2>3, StatusFailsNoRow
  <2> QED
    BY <1>1, <2>1, <2>2, <2>4, NoFailure
<1> QED
  BY <1>2, <1>3, <1>4, <1>5, <1>6 DEF WorkerStep, LogDeadFails

\* A dead letter that is deleted settles its row; one that is kept still
\* speaks of the same row.
LEMMA LettersKept ==
  ASSUME TypeInv, FailInv, NEW d \in LetterId, NEW new,
         letter' = [letter EXCEPT ![d] = new],
         \/ new = NoLetter /\ settled' = settled \cup {letter[d].row}
         \/ new.row = letter[d].row /\ new.of = letter[d].of /\ settled' = settled
  PROVE  /\ \A e \in LetterId : letter'[e].of = None => letter'[e].row = 0
         /\ \A n \in RowId : Remembered(n) => Remembered(n)'
<1>1. \A e \in LetterId : letter'[e] = IF e = d THEN new ELSE letter[e]
  BY DEF TypeInv, TypeOK
<1> QED
  BY <1>1 DEF FailInv, Remembered, Open, NoLetter

\* The retries and the passing of time keep the invariant.
LEMMA RetryFail ==
  ASSUME TypeInv, FailInv,
         \/ \E d \in LetterId : RetryOne(d) \/ Due(d)
         \/ \E n \in RowId : Age(n)
         \/ NewDay
  PROVE  FailInv'
<1>a. row \in [RowId -> RowType] /\ letter \in [LetterId -> LetterType]
  BY DEF TypeInv, TypeOK
<1>1. ASSUME NEW d \in LetterId, RetryOne(d) PROVE FailInv'
  <2>1. worker' = worker /\ letter[d].of \in Company /\ RetryContext(d) \in Context
    <3>1. letter[d] \in LetterType
      BY <1>a
    <3>2. letter[d].of \in Company
      BY <1>1, <3>1 DEF RetryOne, Retriable, Open, LetterType
    <3>3. letter[d].row # 0 => row[letter[d].row] \in RowType
      BY <1>a, <3>1, BoundAssumption DEF LetterType
    <3>4. RetryContext(d) \in Context
      BY <3>3 DEF RetryContext, RowType
    <3> QED
      BY <1>1, <3>2, <3>4 DEF RetryOne
  <2>2. CASE company[letter[d].of].sent
    <3>1. letter' = [letter EXCEPT ![d] = NoLetter] /\ settled' = settled \cup {letter[d].row} /\ row' = row
      BY <1>1, <2>2 DEF RetryOne
    <3> QED
      BY <2>1, <3>1, LettersKept, MoreRemembered
  <2>3. CASE ~company[letter[d].of].sent
    <3> DEFINE new == [letter[d] EXCEPT !.retries = letter[d].retries + 1, !.due = FALSE]
    <3>1. /\ letter' = [letter EXCEPT ![d] = new] /\ settled' = settled
          /\ Insert(letter[d].of, RetryContext(d))
      BY <1>1, <2>3 DEF RetryOne
    <3>2. new.row = letter[d].row /\ new.of = letter[d].of
      BY <1>a DEF LetterType
    <3> HIDE DEF new
    <3>3. /\ \A e \in LetterId : letter'[e].of = None => letter'[e].row = 0
          /\ \A n \in RowId : Remembered(n) => Remembered(n)'
      BY <3>1, <3>2, LettersKept
    <3>4. \A m \in RowId : /\ row'[m].status = "failed" => row[m].status = "failed"
                           /\ row'[m].status # "deleted" => row[m].status # "deleted"
      BY <2>1, <3>1, InsertFailsNoRow
    <3> QED
      BY <2>1, <3>3, <3>4, MoreRemembered
  <2> QED
    BY <2>2, <2>3
<1>2. ASSUME NEW d \in LetterId, Due(d) PROVE FailInv'
  <2> DEFINE new == [letter[d] EXCEPT !.due = TRUE]
  <2>1. letter' = [letter EXCEPT ![d] = new] /\ UNCHANGED <<settled, row, worker>>
    BY <1>2 DEF Due
  <2>2. new.row = letter[d].row /\ new.of = letter[d].of
    BY <1>a DEF LetterType
  <2> HIDE DEF new
  <2> QED
    BY <2>1, <2>2, LettersKept, MoreRemembered
<1>3. ASSUME NEW n \in RowId, Age(n) PROVE FailInv'
  <2>1. row' = [row EXCEPT ![n] = [row[n] EXCEPT !.old = TRUE]] /\ UNCHANGED <<letter, settled, worker>>
    BY <1>3 DEF Age
  <2>2. \A m \in RowId : row'[m].status = row[m].status
    BY <1>a, <2>1 DEF RowType
  <2> QED
    BY <2>1, <2>2, NoFailure
<1>4. CASE NewDay
  BY <1>4, NoFailure DEF NewDay
<1> QED
  BY <1>1, <1>2, <1>3, <1>4

\* The requests keep the invariant.
LEMMA RequestFail == ASSUME TypeInv, FailInv, Request PROVE FailInv'
<1>a. /\ row \in [RowId -> RowType] /\ letter \in [LetterId -> LetterType]
      /\ worker \in [Worker -> WorkerType]
  BY DEF TypeInv, TypeOK
<1>1. ASSUME NEW c \in Company, NEW ctx \in Context, Ask(c, ctx) \/ Enqueue(c, ctx) PROVE FailInv'
  <2>1. UNCHANGED <<letter, settled, worker>> /\ (row' = row \/ Insert(c, ctx))
    BY <1>1 DEF Ask, Enqueue
  <2>2. \A m \in RowId : /\ row'[m].status = "failed" => row[m].status = "failed"
                         /\ row'[m].status # "deleted" => row[m].status # "deleted"
    BY <2>1, InsertFailsNoRow
  <2> QED
    BY <2>1, <2>2, NoFailure
<1>2. ASSUME NEW c \in Company,
             \/ Approve(c) \/ Withdraw(c) \/ MarkSent(c)
             \/ \E consent \in Consent : SetConsent(c, consent)
      PROVE  FailInv'
  BY <1>2, NoFailure DEF Approve, Withdraw, MarkSent, SetConsent
<1>3. ASSUME NEW c \in Company, NEW ready \in BOOLEAN, OptOut(c, ready) PROVE FailInv'
  <2>1. UNCHANGED <<letter, settled, row>> /\ worker' = Raced(c)
    BY <1>3 DEF OptOut
  <2>2. \A w \in Worker : worker'[w].pc = worker[w].pc /\ worker'[w].item = worker[w].item
    BY <1>a, <2>1 DEF Raced, WorkerType
  <2> QED
    BY <2>1, <2>2, NoFailure
<1>4. ASSUME NEW id \in RowId, Remove(id) PROVE FailInv'
  <2>1. worker' = worker
    BY <1>4 DEF Remove
  <2>2. CASE /\ row[id].status \notin {"none", "deleted"}
             /\ row' = SetStatus(id, "deleted")
             /\ letter' = [d \in LetterId |-> IF letter[d].row = id THEN [letter[d] EXCEPT !.row = 0] ELSE letter[d]]
             /\ settled' = settled
    <3>1. \A n \in RowId : row'[n].status = IF n = id THEN "deleted" ELSE row[n].status
      BY <1>a, <2>2 DEF SetStatus, RowType
    <3>2. \A d \in LetterId : /\ letter'[d].of = letter[d].of
                              /\ letter'[d].row = IF letter[d].row = id THEN 0 ELSE letter[d].row
      BY <1>a, <2>2 DEF LetterType
    <3>3. \A d \in LetterId : letter'[d].of = None => letter'[d].row = 0
      BY <3>2 DEF FailInv, Open
    <3>4. \A n \in RowId : Remembered(n) => Remembered(n)' \/ row'[n].status = "deleted"
      BY <2>2, <3>1, <3>2 DEF Remembered
    <3> QED
      BY <2>1, <2>2, <3>1, <3>3, <3>4, MoreRemembered
  <2>3. CASE /\ letter' = [letter EXCEPT ![id] = NoLetter]
             /\ settled' = settled \cup {letter[id].row}
             /\ row' = row
    BY <2>1, <2>3, LettersKept, MoreRemembered
  <2> QED
    BY <1>4, <2>2, <2>3 DEF Remove
<1> QED
  BY <1>1, <1>2, <1>3, <1>4 DEF Request

\* Whatever the requests, crashes, retries, recovered claims and overlapping
\* batches, a failed row has its dead letter, or had one that was deleted.
THEOREM NoFailureForgotten == Spec => []FailedHasLetter
<1>1. CASE "log" \in Fault
  <2>1. FailedHasLetter
    BY <1>1 DEF FailedHasLetter
  <2> QED
    BY <2>1, PTL
<1>2. CASE "log" \notin Fault
  <2>1. Init => FailInv
    BY DEF Init, FailInv, AboutToFail, Idle, Doing, NoRow, NoLetter
  <2>2. TypeInv /\ FailInv /\ [Next]_vars => FailInv'
    <3>1. TypeInv /\ FailInv /\ UNCHANGED vars => FailInv'
      BY NoFailure DEF vars
    <3> QED
      BY <1>2, <3>1, BatchFail, RetryFail, RequestFail DEF Next, AnyStart
  <2>3. FailInv => FailedHasLetter
    BY DEF FailInv, Remembered, FailedHasLetter
  <2> QED
    BY <2>1, <2>2, <2>3, InitTypes, NextTypes, PTL DEF Spec
<1> QED
  BY <1>1, <1>2

-----------------------------------------------------------------------------
(* ColdOnlyByHand is not inductive: the consent is compared with the context *)
(* of the row one step earlier, the context comes with the row, and a retry  *)
(* copies it from the row its dead letter speaks of.                         *)

\* Some row of the company answered a manual request.
WasAsked(c) == \E n \in byHand : row[n].of = c

\* A dead letter that speaks of a row speaks of its company.
SpeaksOf(l) == l.row # 0 => l.row <= rows /\ l.of = row[l.row].of
LettersAgree == \A d \in LetterId : SpeaksOf(letter[d])

ColdInv ==
    /\ byHand \subseteq 1..rows
    /\ \A n \in RowId : row[n].ctx = "manual" => WasAsked(row[n].of)
    /\ LettersAgree
    /\ \A w \in Worker : worker[w].pc \in {"send", "commit"} /\ worker[w].consent = "cold" =>
           row[worker[w].item].ctx = "manual"

\* No row changes its context.
SameContext == \A n \in RowId : row'[n].ctx = row[n].ctx

LEMMA SetStatusKeepsContext ==
  ASSUME TypeInv, NEW n \in RowId,
         NEW status \in {"pending", "sending", "sent", "failed", "deleted"},
         row' = SetStatus(n, status)
  PROVE  SameContext
<1>1. row \in [RowId -> RowType]
  BY DEF TypeInv, TypeOK
<1>2. row' = row \/ row' = [row EXCEPT ![n] = [row[n] EXCEPT !.status = status, !.old = FALSE]]
  BY DEF SetStatus
<1>3. ASSUME NEW m \in RowId PROVE row'[m].ctx = row[m].ctx
  <2>1. row'[m] = row[m] \/ row'[m] = [row[m] EXCEPT !.status = status, !.old = FALSE]
    BY <1>1, <1>2
  <2> QED
    BY <1>1, <2>1 DEF RowType
<1> QED
  BY <1>3 DEF SameContext

LEMMA StatusesKeepContext ==
  ASSUME TypeInv, NEW S, NEW status,
         row' = [n \in RowId |-> IF n \in S THEN [row[n] EXCEPT !.status = status, !.old = FALSE]
                                            ELSE row[n]]
  PROVE  SameContext
<1> SUFFICES ASSUME NEW n \in RowId PROVE row'[n].ctx = row[n].ctx
  BY DEF SameContext
<1>1. row[n] \in RowType
  BY DEF TypeInv, TypeOK
<1>2. row'[n] = row[n] \/ row'[n] = [row[n] EXCEPT !.status = status, !.old = FALSE]
  OBVIOUS
<1> QED
  BY <1>1, <1>2 DEF RowType

\* Whoever was asked for stays asked for.
LEMMA AskedStays ==
  ASSUME TypeInv, ColdInv, Keeps, byHand \subseteq byHand', NEW c, WasAsked(c)
  PROVE  WasAsked(c)'
<1>1. PICK n \in byHand : row[n].of = c
  BY DEF WasAsked
<1>2. row'[n].of = c /\ n \in byHand'
  BY <1>1 DEF ColdInv, Keeps
<1> QED
  BY <1>2 DEF WasAsked

\* A step that inserts no row, writes no other dead letter and begins no
\* sending to a cold company keeps the invariant.
LEMMA ColdKept ==
  ASSUME TypeInv, TypeInv', ColdInv, Keeps, SameContext, rows' = rows, byHand' = byHand,
         \A d \in LetterId : SpeaksOf(letter'[d]),
         \A w \in Worker : worker'[w].pc \in {"send", "commit"} /\ worker'[w].consent = "cold" =>
             row[worker'[w].item].ctx = "manual"
  PROVE  ColdInv'
<1>0. rows \in 0..MaxRows /\ MaxRows \in Nat
  BY BoundAssumption DEF TypeInv, TypeOK
<1>1. \A n \in RowId : row'[n].of = row[n].of /\ row'[n].ctx = row[n].ctx
  <2> TAKE n \in RowId
  <2>1. CASE n <= rows
    BY <1>0, <2>1 DEF Keeps, SameContext
  <2>2. CASE ~(n <= rows)
    BY <2>2 DEF TypeInv, Given, NoRow
  <2> QED
    BY <2>1, <2>2
<1>2. byHand' \subseteq 1..rows'
  BY DEF ColdInv
<1>3. ASSUME NEW n \in RowId, row'[n].ctx = "manual" PROVE WasAsked(row[n].of)'
  <2>1. PICK m \in byHand : row[m].of = row[n].of
    BY <1>1, <1>3 DEF ColdInv, WasAsked
  <2>2. m \in byHand' /\ row'[m].of = row[m].of
    BY <2>1 DEF ColdInv, Keeps
  <2> QED
    BY <1>1, <2>1, <2>2 DEF WasAsked
<1>4. LettersAgree'
  <2>1. \A d \in LetterId : letter'[d].row \in 0..MaxRows
    BY DEF TypeInv, TypeOK, LetterType
  <2>2. \A d \in LetterId : letter'[d].row # 0 => letter'[d].row \in RowId
    BY <1>0, <2>1
  <2> QED
    BY <1>1, <2>2 DEF LettersAgree, SpeaksOf
<1>5. \A w \in Worker : worker'[w].pc \in {"send", "commit"} /\ worker'[w].consent = "cold" =>
          row'[worker'[w].item].ctx = "manual"
  <2>1. \A w \in Worker : worker'[w].pc \in {"send", "commit"} => worker'[w].item \in 1..rows'
    BY DEF TypeInv, Given
  <2>2. \A w \in Worker : worker'[w].pc \in {"send", "commit"} => worker'[w].item \in RowId
    BY <1>0, <2>1
  <2> QED
    BY <1>1, <2>2
<1> QED
  BY <1>2, <1>3, <1>4, <1>5, Zenon DEF ColdInv

\* So does an insertion, by hand only for a company that was asked for.
LEMMA ColdInserted ==
  ASSUME TypeInv, TypeInv', ColdInv, Keeps, NEW c \in Company, NEW ctx \in Context, Insert(c, ctx),
         worker' = worker, byHand \subseteq byHand', byHand' \subseteq 1..rows',
         ctx = "manual" => WasAsked(c)',
         \A d \in LetterId : SpeaksOf(letter'[d])
  PROVE  ColdInv'
<1>0. rows \in 0..MaxRows /\ MaxRows \in Nat /\ row \in [RowId -> RowType]
  BY BoundAssumption DEF TypeInv, TypeOK
<1>a. rows <= rows' /\ rows' \in Nat
  BY <1>0 DEF Insert
<1>1. \A n \in RowId : \/ row'[n].ctx = row[n].ctx /\ row'[n].of = row[n].of
                       \/ n = rows + 1 /\ row'[n].ctx = ctx /\ row'[n].of = c
  <2>1. CASE row' = row
    BY <2>1
  <2>2. CASE row' # row
    <3>1. /\ rows + 1 \in RowId
          /\ row' = [row EXCEPT ![rows + 1] = [status |-> "pending", of |-> c, ctx |-> ctx, old |-> FALSE]]
      BY <1>0, <2>2 DEF Insert
    <3> QED
      BY <1>0, <3>1
  <2> QED
    BY <2>1, <2>2
<1>2. ASSUME NEW n \in RowId, row'[n].ctx = "manual" PROVE WasAsked(row[n].of)'
  <2>1. CASE row'[n].ctx = row[n].ctx /\ row'[n].of = row[n].of
    <3>1. PICK m \in byHand : row[m].of = row[n].of
      BY <1>2, <2>1 DEF ColdInv, WasAsked
    <3>2. m \in byHand' /\ row'[m].of = row[m].of
      BY <3>1 DEF ColdInv, Keeps
    <3> QED
      BY <2>1, <3>1, <3>2 DEF WasAsked
  <2>2. CASE row'[n].ctx = ctx /\ row'[n].of = c
    BY <1>2, <2>2 DEF WasAsked
  <2> QED
    BY <1>1, <2>1, <2>2
<1>3. \A n \in RowId : n <= rows => row'[n].ctx = row[n].ctx /\ row'[n].of = row[n].of
  BY <1>0, <1>1
<1>4. LettersAgree'
  <2>1. \A d \in LetterId : letter'[d].row \in 0..MaxRows
    BY DEF TypeInv, TypeOK, LetterType
  <2>2. \A d \in LetterId : letter'[d].row # 0 => letter'[d].row \in RowId
    BY <1>0, <2>1
  <2>3. ASSUME NEW d \in LetterId, letter'[d].row # 0
        PROVE  letter'[d].row <= rows' /\ letter'[d].of = row'[letter'[d].row].of
    <3>1. letter'[d].row <= rows /\ letter'[d].of = row[letter'[d].row].of /\ letter'[d].row \in RowId
      BY <2>2, <2>3 DEF SpeaksOf
    <3>2. letter'[d].row <= rows'
      BY <1>0, <1>a, <3>1
    <3> QED
      BY <1>3, <3>1, <3>2
  <2> QED
    BY <2>3 DEF LettersAgree, SpeaksOf
<1>5. \A w \in Worker : worker'[w].pc \in {"send", "commit"} /\ worker'[w].consent = "cold" =>
          row'[worker'[w].item].ctx = "manual"
  <2>1. \A w \in Worker : worker[w].pc \in {"send", "commit"} =>
            worker[w].item \in RowId /\ worker[w].item <= rows
    BY <1>0 DEF TypeInv, Given
  <2> QED
    BY <1>3, <2>1 DEF ColdInv
<1> QED
  BY <1>2, <1>4, <1>5, Zenon DEF ColdInv

\* A batch that moves to anything but a sending to a cold company.
LEMMA MoveKeepsCold ==
  ASSUME TypeInv, TypeInv', ColdInv, Keeps, SameContext, rows' = rows, byHand' = byHand,
         \A d \in LetterId : SpeaksOf(letter'[d]),
         NEW w \in Worker, NEW new, worker' = [worker EXCEPT ![w] = new],
         new.pc \in {"send", "commit"} /\ new.consent = "cold" => row[new.item].ctx = "manual"
  PROVE  ColdInv'
<1>1. \A v \in Worker : worker'[v] = IF v = w THEN new ELSE worker[v]
  BY DEF TypeInv, TypeOK
<1>2. \A v \in Worker : worker'[v].pc \in {"send", "commit"} /\ worker'[v].consent = "cold" =>
          row[worker'[v].item].ctx = "manual"
  BY <1>1 DEF ColdInv
<1> QED
  BY <1>2, ColdKept

\* The steps of a batch.
LEMMA BatchCold ==
  ASSUME TypeInv, TypeInv', ColdInv, Keeps, NEW w \in Worker,
         StartBatch(w) \/ WorkerStep(w) \/ Crash(w)
  PROVE  ColdInv'
<1>a. /\ worker \in [Worker -> WorkerType] /\ worker[w] \in WorkerType
      /\ letter \in [LetterId -> LetterType] /\ row \in [RowId -> RowType]
  BY DEF TypeInv, TypeOK
<1>b. \A d \in LetterId : SpeaksOf(letter[d])
  BY DEF ColdInv, LettersAgree
<1>c. row' = row => SameContext
  BY DEF SameContext
<1>1. CASE StartBatch(w)
  <2> DEFINE new == [worker[w] EXCEPT !.pc = "claim"]
             S == {n \in RowId : Recoverable(n)}
  <2>1. /\ worker' = [worker EXCEPT ![w] = new] /\ UNCHANGED <<letter, rows, byHand>>
        /\ row' = [n \in RowId |-> IF n \in S THEN [row[n] EXCEPT !.status = "pending", !.old = FALSE]
                                              ELSE row[n]]
    BY <1>1 DEF StartBatch
  <2>2. new.pc = "claim"
    BY <1>a DEF WorkerType
  <2> HIDE DEF new, S
  <2>3. SameContext
    BY <2>1, StatusesKeepContext
  <2> QED
    BY <1>b, <2>1, <2>2, <2>3, MoveKeepsCold
<1>2. CASE Claim(w)
  <2> DEFINE eligible == {n \in RowId : row[n].status = "pending" /\ ~company[row[n].of].unsub}
             claimed == {n \in eligible : Cardinality({m \in eligible : m < n}) < BatchSize}
             unfit == {n \in claimed : ~Fit(row[n].of)}
             new == IF eligible = {} THEN Idle ELSE Doing("batch", claimed, unfit, 0, "cold")
  <2>1. /\ worker' = [worker EXCEPT ![w] = new] /\ UNCHANGED <<letter, rows, byHand>>
        /\ \/ row' = row
           \/ row' = [n \in RowId |->
                  IF n \in claimed THEN [row[n] EXCEPT !.status = "sending", !.old = FALSE] ELSE row[n]]
    BY <1>2 DEF Claim
  <2> HIDE DEF eligible, claimed, unfit
  <2>2. new.pc \notin {"send", "commit"}
    BY DEF Idle, Doing
  <2> HIDE DEF new
  <2>3. SameContext
    BY <1>c, <2>1, StatusesKeepContext
  <2> QED
    BY <1>b, <2>1, <2>2, <2>3, MoveKeepsCold
<1>3. CASE Check(w)
  <2>1. PICK n \in worker[w].todo, pc \in {"send", "log"} :
          /\ worker' = [worker EXCEPT ![w] =
                 Doing(pc, worker[w].todo \ {n}, worker[w].unfit, n, company[row[n].of].consent)]
          /\ pc = "send" => Admits(company[row[n].of].consent, row[n].ctx)
    BY <1>3 DEF Check
  <2> DEFINE new == Doing(pc, worker[w].todo \ {n}, worker[w].unfit, n, company[row[n].of].consent)
  <2>2. /\ worker' = [worker EXCEPT ![w] = new]
        /\ new.pc = pc /\ new.item = n /\ new.consent = company[row[n].of].consent
    BY <2>1 DEF Doing
  <2>3. new.pc \in {"send", "commit"} /\ new.consent = "cold" => row[new.item].ctx = "manual"
    BY <2>1, <2>2 DEF Admits
  <2> HIDE DEF new
  <2>4. UNCHANGED <<letter, rows, byHand, row>>
    BY <1>3 DEF Check
  <2> QED
    BY <1>b, <1>c, <2>2, <2>3, <2>4, MoveKeepsCold
<1>4. CASE Deliver(w)
  <2> DEFINE new == [worker[w] EXCEPT !.pc = "commit"]
  <2>1. /\ worker' = [worker EXCEPT ![w] = new] /\ UNCHANGED <<letter, rows, byHand, row>>
        /\ worker[w].pc = "send"
    BY <1>4 DEF Deliver
  <2>2. new.consent = worker[w].consent /\ new.item = worker[w].item
    BY <1>a DEF WorkerType
  <2>3. new.consent = "cold" => row[new.item].ctx = "manual"
    BY <2>1, <2>2 DEF ColdInv
  <2> HIDE DEF new
  <2> QED
    BY <1>b, <1>c, <2>1, <2>3, MoveKeepsCold
<1>5. CASE LogDead(w)
  <2> DEFINE n == worker[w].item
             new == [worker[w] EXCEPT !.pc = "mark"]
  <2>1. /\ worker' = [worker EXCEPT ![w] = new] /\ UNCHANGED <<rows, byHand, row>>
        /\ \/ letter' = letter
           \/ \E d \in LetterId :
                 letter' = [letter EXCEPT ![d] = [row |-> n, of |-> row[n].of, retries |-> 0, due |-> TRUE]]
    BY <1>5 DEF LogDead
  <2>2. new.pc = "mark"
    BY <1>a DEF WorkerType
  <2>a. n <= rows
    BY <1>5 DEF LogDead, TypeInv, TypeOK, Given
  <2>3. \A d \in LetterId : SpeaksOf(letter'[d])
    <3>1. CASE letter' = letter
      BY <1>b, <3>1
    <3>2. ASSUME NEW d \in LetterId, NEW e \in LetterId,
                 letter' = [letter EXCEPT ![d] = [row |-> n, of |-> row[n].of, retries |-> 0, due |-> TRUE]]
          PROVE  SpeaksOf(letter'[e])
      <4>1. letter'[e] = letter[e] \/ (letter'[e].row = n /\ letter'[e].of = row[n].of)
        BY <1>a, <3>2
      <4> QED
        BY <1>b, <2>a, <4>1 DEF SpeaksOf
    <3> QED
      BY <2>1, <3>1, <3>2
  <2> HIDE DEF new
  <2> QED
    BY <1>c, <2>1, <2>2, <2>3, MoveKeepsCold
<1>6. CASE \/ EndBatch(w) \/ PutBack(w) \/ Refuse(w) \/ DeliverUnanswered(w)
           \/ Commit(w) \/ CommitFails(w) \/ CommitUnanswered(w)
           \/ LogDeadFails(w) \/ MarkFailed(w) \/ Crash(w)
  <2>1. PICK new \in {Idle, Doing("batch", worker[w].todo, worker[w].unfit, 0, "cold"),
                      [worker[w] EXCEPT !.pc = "log"], [worker[w] EXCEPT !.pc = "mark"]} :
          worker' = [worker EXCEPT ![w] = new]
    BY <1>6 DEF EndBatch, PutBack, Refuse, DeliverUnanswered, Commit, CommitFails,
                CommitUnanswered, LogDeadFails, MarkFailed, Crash, Done
  <2>2. new.pc \notin {"send", "commit"}
    BY <1>a, <2>1 DEF Idle, Doing, WorkerType
  <2>3. UNCHANGED <<letter, rows, byHand>>
    BY <1>6 DEF EndBatch, PutBack, Refuse, DeliverUnanswered, Commit, CommitFails,
                CommitUnanswered, LogDeadFails, MarkFailed, Crash
  <2>4. row' = row \/ (worker[w].item \in RowId /\ \E status \in {"pending", "sent", "failed"} :
                          row' = SetStatus(worker[w].item, status))
    BY <1>6, TargetIsCompany
       DEF EndBatch, PutBack, Refuse, DeliverUnanswered, Commit, CommitFails,
           CommitUnanswered, LogDeadFails, MarkFailed, Crash, Record
  <2>5. SameContext
    BY <1>c, <2>4, SetStatusKeepsContext
  <2> QED
    BY <1>b, <2>1, <2>2, <2>3, <2>5, MoveKeepsCold
<1> QED
  BY <1>1, <1>2, <1>3, <1>4, <1>5, <1>6 DEF WorkerStep

\* The retries and the passing of time.
LEMMA RetryCold ==
  ASSUME TypeInv, TypeInv', ColdInv, Keeps,
         \/ \E d \in LetterId : RetryOne(d) \/ Due(d)
         \/ \E n \in RowId : Age(n)
         \/ NewDay
  PROVE  ColdInv'
<1>a. row \in [RowId -> RowType] /\ letter \in [LetterId -> LetterType]
  BY DEF TypeInv, TypeOK
<1>b. \A d \in LetterId : SpeaksOf(letter[d])
  BY DEF ColdInv, LettersAgree
<1>c. \A w \in Worker : worker[w].pc \in {"send", "commit"} /\ worker[w].consent = "cold" =>
          row[worker[w].item].ctx = "manual"
  BY DEF ColdInv
<1>1. ASSUME NEW d \in LetterId, RetryOne(d) PROVE ColdInv'
  <2> DEFINE c == letter[d].of
             ctx == RetryContext(d)
             new == [letter[d] EXCEPT !.retries = letter[d].retries + 1, !.due = FALSE]
  <2>1. UNCHANGED <<worker, byHand>> /\ Open(d)
    BY <1>1 DEF RetryOne, Retriable
  <2>2. CASE company[c].sent
    <3>1. letter' = [letter EXCEPT ![d] = NoLetter] /\ UNCHANGED <<row, rows>>
      BY <1>1, <2>2 DEF RetryOne
    <3>2. \A e \in LetterId : letter'[e] = letter[e] \/ letter'[e].row = 0
      BY <1>a, <3>1 DEF NoLetter
    <3>3. \A e \in LetterId : SpeaksOf(letter'[e])
      BY <1>b, <3>2 DEF SpeaksOf
    <3> QED
      BY <1>c, <2>1, <3>1, <3>3, ColdKept DEF SameContext
  <2>3. CASE ~company[c].sent
    <3>1. letter' = [letter EXCEPT ![d] = new] /\ Insert(c, ctx)
      BY <1>1, <2>3 DEF RetryOne
    <3>2. new.row = letter[d].row /\ new.of = letter[d].of
      BY <1>a DEF LetterType
    <3> HIDE DEF new
    <3>3. \A e \in LetterId : letter'[e].row = letter[e].row /\ letter'[e].of = letter[e].of
      BY <1>a, <3>1, <3>2
    <3>5. c \in Company /\ ctx \in Context
      <4>1. letter[d] \in LetterType /\ c # None
        BY <1>a, <2>1 DEF Open
      <4>2. letter[d].row # 0 => row[letter[d].row] \in RowType
        BY <1>a, <4>1, BoundAssumption DEF LetterType
      <4> QED
        BY <4>1, <4>2 DEF LetterType, RowType, RetryContext
    <3>6. ctx = "manual" => WasAsked(c)
      <4> SUFFICES ASSUME ctx = "manual" PROVE WasAsked(c)
        OBVIOUS
      <4>1. letter[d].row # 0 /\ row[letter[d].row].ctx = "manual"
        BY DEF RetryContext
      <4>2. c = row[letter[d].row].of
        BY <1>b, <4>1 DEF SpeaksOf
      <4>3. letter[d].row \in RowId
        BY <1>a, <4>1, BoundAssumption DEF LetterType
      <4> QED
        BY <4>1, <4>2, <4>3 DEF ColdInv
    <3>7. byHand' \subseteq 1..rows'
      <4>1. rows \in Nat /\ (rows' = rows \/ rows' = rows + 1)
        BY <3>1 DEF Insert, TypeInv, TypeOK
      <4> QED
        BY <2>1, <4>1 DEF ColdInv
    <3>8. \A e \in LetterId : SpeaksOf(letter'[e])
      BY <1>b, <3>3 DEF SpeaksOf
    <3>9. ASSUME NEW x \in Company, NEW y \in Context, x = c, y = ctx PROVE ColdInv'
      <4>1. Insert(x, y) /\ (y = "manual" => WasAsked(x))
        BY <3>1, <3>6, <3>9
      <4>2. y = "manual" => WasAsked(x)'
        BY <2>1, <4>1, AskedStays
      <4> QED
        BY <2>1, <3>7, <3>8, <4>1, <4>2, ColdInserted
    <3> QED
      BY <3>5, <3>9
  <2> QED
    BY <2>2, <2>3
<1>2. ASSUME NEW d \in LetterId, Due(d) PROVE ColdInv'
  <2>1. letter' = [letter EXCEPT ![d] = [letter[d] EXCEPT !.due = TRUE]] /\ UNCHANGED <<row, rows, worker, byHand>>
    BY <1>2 DEF Due
  <2>2. \A e \in LetterId : letter'[e].row = letter[e].row /\ letter'[e].of = letter[e].of
    BY <1>a, <2>1 DEF LetterType
  <2>3. \A e \in LetterId : SpeaksOf(letter'[e])
    BY <1>b, <2>2 DEF SpeaksOf
  <2> QED
    BY <1>c, <2>1, <2>3, ColdKept DEF SameContext
<1>3. ASSUME NEW n \in RowId, Age(n) PROVE ColdInv'
  <2>1. row' = [row EXCEPT ![n] = [row[n] EXCEPT !.old = TRUE]] /\ UNCHANGED <<letter, rows, worker, byHand>>
    BY <1>3 DEF Age
  <2>2. SameContext
    BY <1>a, <2>1 DEF RowType, SameContext
  <2> QED
    BY <1>b, <1>c, <2>1, <2>2, ColdKept
<1>4. CASE NewDay
  <2>1. UNCHANGED <<row, letter, rows, worker, byHand>>
    BY <1>4 DEF NewDay
  <2> QED
    BY <1>b, <1>c, <2>1, ColdKept DEF SameContext
<1> QED
  BY <1>1, <1>2, <1>3, <1>4

\* The requests.
LEMMA RequestCold ==
  ASSUME TypeInv, TypeInv', ColdInv, Keeps, Request
  PROVE  ColdInv'
<1>a. /\ row \in [RowId -> RowType] /\ letter \in [LetterId -> LetterType]
      /\ worker \in [Worker -> WorkerType]
  BY DEF TypeInv, TypeOK
<1>b. \A d \in LetterId : SpeaksOf(letter[d])
  BY DEF ColdInv, LettersAgree
<1>c. \A w \in Worker : worker[w].pc \in {"send", "commit"} /\ worker[w].consent = "cold" =>
          row[worker[w].item].ctx = "manual"
  BY DEF ColdInv
<1>1. CASE \/ \E c \in Company, ctx \in Context : Ask(c, ctx)
           \/ \E c \in Company : Approve(c) \/ Withdraw(c) \/ MarkSent(c)
           \/ \E c \in Company, consent \in Consent : SetConsent(c, consent)
  <2>1. UNCHANGED <<row, letter, rows, worker, byHand>>
    BY <1>1 DEF Ask, Approve, Withdraw, MarkSent, SetConsent
  <2> QED
    BY <1>b, <1>c, <2>1, ColdKept DEF SameContext
<1>2. ASSUME NEW c \in Company, NEW ready \in BOOLEAN, OptOut(c, ready) PROVE ColdInv'
  <2>1. UNCHANGED <<row, letter, rows, byHand>> /\ worker' = Raced(c)
    BY <1>2 DEF OptOut
  <2>2. \A w \in Worker : /\ worker'[w].pc = worker[w].pc /\ worker'[w].item = worker[w].item
                          /\ worker'[w].consent = worker[w].consent
    BY <1>a, <2>1 DEF Raced, WorkerType
  <2>3. \A w \in Worker : worker'[w].pc \in {"send", "commit"} /\ worker'[w].consent = "cold" =>
            row[worker'[w].item].ctx = "manual"
    BY <1>c, <2>2
  <2> QED
    BY <1>b, <2>1, <2>3, ColdKept DEF SameContext
<1>3. ASSUME NEW id \in RowId, Remove(id) PROVE ColdInv'
  <2>1. UNCHANGED <<rows, worker, byHand>>
    BY <1>3 DEF Remove
  <2>2. SameContext /\ \A e \in LetterId : SpeaksOf(letter'[e])
    <3>1. CASE /\ row' = SetStatus(id, "deleted")
               /\ letter' = [d \in LetterId |-> IF letter[d].row = id THEN [letter[d] EXCEPT !.row = 0] ELSE letter[d]]
      <4>1. SameContext
        BY <3>1, SetStatusKeepsContext
      <4>2. \A e \in LetterId : letter'[e] = letter[e] \/ letter'[e].row = 0
        BY <1>a, <3>1 DEF LetterType
      <4> QED
        BY <1>b, <4>1, <4>2 DEF SpeaksOf
    <3>2. CASE letter' = [letter EXCEPT ![id] = NoLetter] /\ row' = row
      <4>1. \A e \in LetterId : letter'[e] = letter[e] \/ letter'[e].row = 0
        BY <1>a, <3>2 DEF NoLetter
      <4> QED
        BY <1>b, <3>2, <4>1 DEF SameContext, SpeaksOf
    <3> QED
      BY <1>3, <3>1, <3>2 DEF Remove
  <2> QED
    BY <1>c, <2>1, <2>2, ColdKept
<1>4. ASSUME NEW c \in Company, NEW ctx \in Context, Enqueue(c, ctx) PROVE ColdInv'
  <2>1. /\ Insert(c, ctx) /\ UNCHANGED <<letter, worker>>
        /\ byHand' = IF ctx = "manual" THEN byHand \cup AnsweredBy(c) ELSE byHand
    BY <1>4 DEF Enqueue
  <2>2. rows \in 0..MaxRows /\ MaxRows \in Nat /\ (rows' = rows \/ rows' = rows + 1)
    BY <2>1, BoundAssumption DEF Insert, TypeInv, TypeOK
  <2>3. AnsweredBy(c) \subseteq 1..rows'
    <3> SUFFICES ASSUME NEW n \in RowId, row'[n].of = c PROVE n <= rows'
      BY <2>2 DEF AnsweredBy
    <3>1. c # None
      BY BoundAssumption
    <3> QED
      BY <3>1 DEF TypeInv, Given, NoRow
  <2>4. byHand \subseteq byHand' /\ byHand' \subseteq 1..rows'
    <3>1. byHand \subseteq 1..rows'
      BY <2>2 DEF ColdInv
    <3> QED
      BY <2>1, <2>3, <3>1
  <2>5. \E n \in AnsweredBy(c) : row'[n].of = c
    <3>1. CASE HasLiveRow(c)
      <4>1. row' = row
        BY <2>1, <3>1 DEF Insert
      <4> QED
        BY <3>1, <4>1 DEF HasLiveRow, Live, AnsweredBy
    <3>2. CASE ~HasLiveRow(c)
      <4>1. /\ rows + 1 \in RowId
            /\ row' = [row EXCEPT ![rows + 1] = [status |-> "pending", of |-> c, ctx |-> ctx, old |-> FALSE]]
        BY <2>1, <2>2, <3>2 DEF Insert
      <4>2. row'[rows + 1].of = c /\ row'[rows + 1].status = "pending"
        BY <1>a, <4>1
      <4> QED
        BY <4>1, <4>2 DEF AnsweredBy
    <3> QED
      BY <3>1, <3>2
  <2>6. ctx = "manual" => WasAsked(c)'
    BY <2>1, <2>5 DEF WasAsked
  <2>7. \A e \in LetterId : SpeaksOf(letter'[e])
    BY <1>b, <2>1
  <2> QED
    BY <2>1, <2>4, <2>6, <2>7, ColdInserted
<1> QED
  BY <1>1, <1>2, <1>3, <1>4 DEF Request

\* A company that was cold at the fresh check is mailed only when a person
\* asked for it, whatever became of the row that answered: through retries,
\* removed rows and reused ids.
THEOREM ColdMailIsAskedFor == Spec => []ColdOnlyByHand
<1>1. Init => ColdInv
  BY BoundAssumption DEF Init, ColdInv, LettersAgree, SpeaksOf, Idle, Doing, NoRow, NoLetter
<1>2. TypeInv /\ TypeInv' /\ ColdInv /\ [Next]_vars => ColdInv'
  <2> SUFFICES ASSUME TypeInv, TypeInv', ColdInv, [Next]_vars PROVE ColdInv'
    OBVIOUS
  <2>1. Keeps
    BY NextKeeps
  <2>2. CASE UNCHANGED vars
    <3>1. UNCHANGED <<row, letter, rows, worker, byHand>>
      BY <2>2 DEF vars
    <3> QED
      BY <2>1, <3>1, ColdKept DEF SameContext, ColdInv, LettersAgree
  <2> QED
    BY <2>1, <2>2, BatchCold, RetryCold, RequestCold DEF Next, AnyStart
<1>3. TypeInv /\ ColdInv => ColdOnlyByHand
  <2> SUFFICES ASSUME TypeInv, ColdInv, NEW w \in Worker, worker[w].pc \in {"send", "commit"},
                      worker[w].consent = "cold"
               PROVE  WasAsked(Target(w))
    BY DEF ColdOnlyByHand, WasAsked
  <2>1. worker[w].item \in RowId /\ row[worker[w].item].ctx = "manual"
    BY TargetIsCompany DEF ColdInv
  <2> QED
    BY <2>1 DEF ColdInv, Target
<1> QED
  BY <1>1, <1>2, <1>3, InitTypes, NextTypes, PTL DEF Spec

-----------------------------------------------------------------------------
(* CapExceededByLessThanABatch is not inductive: it takes that a batch       *)
(* started under the budget, claimed no more than a batch, and what it has   *)
(* still to send.                                                            *)

\* What a busy batch may still send: what is left of it, and the message that
\* is under way.
UnderWay(pc) == IF pc \in {"send", "commit"} THEN 1 ELSE 0
ToSend(w) == Cardinality(worker[w].todo) + UnderWay(worker[w].pc)

CapInv ==
    /\ IsFiniteSet(today)
    /\ Cardinality(today) < MaxPerDay + BatchSize
    /\ \A w \in Worker :
        /\ worker[w].pc = "claim" => UnderCap
        /\ worker[w].pc \notin {"idle", "claim"} =>
               Cardinality(today) + ToSend(w) < MaxPerDay + BatchSize

\* Ids below a bound are finitely many.
LEMMA IdsAreFinite ==
  ASSUME NEW S \in SUBSET RowId
  PROVE  IsFiniteSet(S) /\ Cardinality(S) \in Nat
<1>1. IsFiniteSet(RowId)
  BY BoundAssumption, FS_Interval
<1> QED
  BY <1>1, FS_Subset, FS_CardinalityType

\* ORDER BY ... LIMIT: the ids with fewer than BatchSize below them are no more
\* than BatchSize.
LEMMA BatchIsLimited ==
  ASSUME NEW S \in SUBSET RowId
  PROVE  Cardinality({n \in S : Cardinality({m \in S : m < n}) < BatchSize}) <= BatchSize
<1> DEFINE below(n) == {m \in S : m < n}
           K == {n \in S : Cardinality(below(n)) < BatchSize}
           f == [n \in K |-> Cardinality(below(n))]
<1>1. BatchSize \in Nat /\ RowId \subseteq Nat
  BY BoundAssumption
<1>2. IsFiniteSet(K) /\ Cardinality(K) \in Nat
  BY IdsAreFinite
<1>3. \A n \in S : IsFiniteSet(below(n)) /\ Cardinality(below(n)) \in Nat
  BY IdsAreFinite
<1>4. IsFiniteSet(0..(BatchSize - 1)) /\ Cardinality(0..(BatchSize - 1)) = BatchSize
  BY <1>1, BoundAssumption, FS_Interval
<1>5. f \in [K -> 0..(BatchSize - 1)]
  <2>1. \A n \in K : n \in S /\ Cardinality(below(n)) < BatchSize
    OBVIOUS
  <2> HIDE DEF K, below
  <2>2. \A n \in K : Cardinality(below(n)) \in 0..(BatchSize - 1)
    <3> TAKE n \in K
    <3>1. Cardinality(below(n)) \in Nat /\ Cardinality(below(n)) < BatchSize
      BY <1>3, <2>1
    <3> QED
      BY <1>1, <3>1
  <2> QED
    BY <2>2
<1>6. ASSUME NEW n \in S, NEW m \in S, n < m
      PROVE  Cardinality(below(n)) < Cardinality(below(m))
  <2>1. n \notin below(n) /\ below(n) \cup {n} \subseteq below(m)
    <3>1. n \in Nat /\ m \in Nat /\ \A k \in S : k \in Nat
      BY <1>1
    <3>2. ~(n < n) /\ \A k \in S : k < n => k < m
      BY <1>6, <3>1
    <3> QED
      BY <1>6, <3>2
  <2> HIDE DEF below
  <2>2. IsFiniteSet(below(n) \cup {n}) /\ Cardinality(below(n) \cup {n}) = Cardinality(below(n)) + 1
    BY <1>3, <2>1, FS_AddElement
  <2>3. Cardinality(below(n) \cup {n}) <= Cardinality(below(m))
    BY <1>3, <2>1, FS_Subset
  <2> QED
    BY <1>3, <2>2, <2>3
<1>7. \A n, m \in K : n # m => f[n] # f[m]
  <2> SUFFICES ASSUME NEW n \in K, NEW m \in K, n # m PROVE f[n] # f[m]
    OBVIOUS
  <2>1. n < m \/ m < n
    BY <1>1
  <2>2. f[n] = Cardinality(below(n)) /\ f[m] = Cardinality(below(m))
    OBVIOUS
  <2>3. n \in S /\ m \in S
    OBVIOUS
  <2> HIDE DEF f, below, K
  <2> QED
    BY <1>3, <1>6, <2>1, <2>2, <2>3
<1> HIDE DEF f, K
<1>8. ~(BatchSize < Cardinality(K))
  BY <1>2, <1>4, <1>5, <1>7, FS_PigeonHole
<1>9. Cardinality(K) <= BatchSize
  BY <1>1, <1>2, <1>8
<1> QED
  BY <1>9 DEF K

\* The sizes the invariant speaks of.
LEMMA Sizes ==
  ASSUME TypeInv, CapInv
  PROVE  /\ MaxPerDay \in Nat \ {0} /\ BatchSize \in Nat \ {0} /\ Cardinality(today) \in Nat
         /\ \A w \in Worker : /\ worker[w].todo \in SUBSET RowId
                              /\ IsFiniteSet(worker[w].todo) /\ Cardinality(worker[w].todo) \in Nat
<1>1. \A w \in Worker : worker[w].todo \in SUBSET RowId
  BY DEF TypeInv, TypeOK, WorkerType
<1>2. Cardinality(today) \in Nat
  BY FS_CardinalityType DEF CapInv
<1> QED
  BY <1>1, <1>2, IdsAreFinite, BoundAssumption

\* Nobody is mailed and no batch gains anything.
LEMMA QuietKeepsCap ==
  ASSUME TypeInv, CapInv, today' = today,
         \A w \in Worker : worker'[w].pc = worker[w].pc /\ worker'[w].todo = worker[w].todo
  PROVE  CapInv'
<1>1. \A w \in Worker : ToSend(w)' = ToSend(w)
  BY DEF ToSend
<1> QED
  BY <1>1 DEF CapInv, UnderCap

\* One batch, the only one, moves to do no more than before.
LEMMA MoveKeepsCap ==
  ASSUME TypeInv, OneBatch, CapInv, NEW w \in Worker, worker[w].pc # "idle",
         NEW new, worker' = [worker EXCEPT ![w] = new],
         IsFiniteSet(today'), Cardinality(today') < MaxPerDay + BatchSize,
         new.pc # "claim",
         new.pc # "idle" => Cardinality(today') + (Cardinality(new.todo) + UnderWay(new.pc))
                                < MaxPerDay + BatchSize
  PROVE  CapInv'
<1>1. \A v \in Worker : worker'[v] = IF v = w THEN new ELSE worker[v]
  BY DEF TypeInv, TypeOK
<1>2. \A v \in Worker : v # w => worker'[v].pc = "idle"
  BY <1>1 DEF OneBatch, Busy
<1>3. worker'[w] = new
  BY <1>1
<1>4. ToSend(w)' = Cardinality(new.todo) + UnderWay(new.pc)
  BY <1>3 DEF ToSend
<1> QED
  BY <1>2, <1>3, <1>4 DEF CapInv

LEMMA NextCap ==
  ASSUME "overrun" \notin Fault, TypeInv, OneBatch, CapInv, [Next]_vars
  PROVE  CapInv'
<1> DEFINE T == Cardinality(today)
           Todo(w) == Cardinality(worker[w].todo)
           Limit == MaxPerDay + BatchSize
<1>0. /\ MaxPerDay \in Nat \ {0} /\ BatchSize \in Nat \ {0} /\ T \in Nat
      /\ \A w \in Worker : /\ worker[w].todo \in SUBSET RowId
                           /\ IsFiniteSet(worker[w].todo) /\ Todo(w) \in Nat
  BY Sizes
<1>a. worker \in [Worker -> WorkerType]
  BY DEF TypeInv, TypeOK
<1>b. IsFiniteSet(today) /\ T < Limit
  BY DEF CapInv
<1>c. \A w \in Worker : worker[w].pc \notin {"idle", "claim"} => T + (Todo(w) + UnderWay(worker[w].pc)) < Limit
  BY DEF CapInv, ToSend
<1>d. /\ UnderWay("send") = 1 /\ UnderWay("commit") = 1
      /\ UnderWay("batch") = 0 /\ UnderWay("log") = 0 /\ UnderWay("mark") = 0
  BY DEF UnderWay
<1> HIDE DEF T, Todo, Limit
<1>1. ASSUME NEW w \in Worker, StartBatch(w) PROVE CapInv'
  <2>1. /\ \A v \in Worker : worker[v].pc = "idle"
        /\ UnderCap /\ today' = today /\ worker' = [worker EXCEPT ![w] = [worker[w] EXCEPT !.pc = "claim"]]
    BY <1>1 DEF StartBatch
  <2>2. \A v \in Worker : worker'[v].pc \in {"idle", "claim"}
    BY <1>a, <2>1 DEF WorkerType
  <2>3. UnderCap'
    BY <2>1 DEF UnderCap
  <2> QED
    BY <1>b, <2>1, <2>2, <2>3 DEF CapInv, T, Limit
<1>2. ASSUME NEW w \in Worker, Claim(w) PROVE CapInv'
  <2> DEFINE eligible == {n \in RowId : row[n].status = "pending" /\ ~company[row[n].of].unsub}
             claimed == {n \in eligible : Cardinality({m \in eligible : m < n}) < BatchSize}
             unfit == {n \in claimed : ~Fit(row[n].of)}
             new == IF eligible = {} THEN Idle ELSE Doing("batch", claimed, unfit, 0, "cold")
  <2>1. /\ worker' = [worker EXCEPT ![w] = new] /\ today' = today /\ worker[w].pc = "claim"
    BY <1>2 DEF Claim
  <2>2. Cardinality(claimed) <= BatchSize /\ Cardinality(claimed) \in Nat
    BY BatchIsLimited, IdsAreFinite
  <2>3. T < MaxPerDay
    BY <2>1 DEF CapInv, UnderCap, T
  <2>4. T + (Cardinality(claimed) + UnderWay("batch")) < Limit
    BY <1>0, <1>d, <2>2, <2>3 DEF Limit
  <2> HIDE DEF eligible, claimed, unfit
  <2>5. \/ new.pc = "idle"
        \/ new.pc = "batch" /\ new.todo = claimed
    BY DEF Idle, Doing
  <2> HIDE DEF new
  <2> QED
    BY <1>b, <2>1, <2>4, <2>5, MoveKeepsCap DEF T, Limit
<1>3. ASSUME NEW w \in Worker, Check(w) PROVE CapInv'
  <2>1. PICK n \in worker[w].todo, pc \in {"send", "log"} :
          worker' = [worker EXCEPT ![w] =
              Doing(pc, worker[w].todo \ {n}, worker[w].unfit, n, company[row[n].of].consent)]
    BY <1>3 DEF Check
  <2> DEFINE new == Doing(pc, worker[w].todo \ {n}, worker[w].unfit, n, company[row[n].of].consent)
  <2>2. /\ worker' = [worker EXCEPT ![w] = new] /\ new.pc = pc /\ new.todo = worker[w].todo \ {n}
        /\ worker[w].pc = "batch" /\ today' = today
    BY <1>3, <2>1 DEF Check, Doing
  <2> HIDE DEF new
  <2>3. Cardinality(new.todo) = Todo(w) - 1
    <3>1. IsFiniteSet(worker[w].todo) /\ n \in worker[w].todo
      BY <1>0
    <3>2. Cardinality(worker[w].todo \ {n}) = Cardinality(worker[w].todo) - 1
      BY <3>1, FS_RemoveElement
    <3> QED
      BY <2>2, <3>2 DEF Todo
  <2>4. T + Todo(w) < Limit
    BY <1>0, <1>c, <1>d, <2>2
  <2>5. UnderWay(pc) \in 0..1
    BY DEF UnderWay
  <2>6. T + (Cardinality(new.todo) + UnderWay(pc)) < Limit
    BY <1>0, <2>3, <2>4, <2>5 DEF Limit
  <2> QED
    BY <1>b, <2>2, <2>6, MoveKeepsCap DEF T, Limit
<1>4. ASSUME NEW w \in Worker, Commit(w) \/ CommitUnanswered(w) PROVE CapInv'
  <2>1. PICK new \in {Doing("batch", worker[w].todo, worker[w].unfit, 0, "cold"), [worker[w] EXCEPT !.pc = "log"]} :
          worker' = [worker EXCEPT ![w] = new]
    BY <1>4 DEF Commit, CommitUnanswered, Done
  <2>2. new.pc \in {"batch", "log"} /\ new.todo = worker[w].todo
    BY <1>a, <2>1 DEF Doing, WorkerType
  <2>3. worker[w].pc = "commit" /\ today' = today \cup {Target(w)}
    BY <1>4 DEF Commit, CommitUnanswered, Record
  <2>4. IsFiniteSet(today') /\ Cardinality(today') \in Nat /\ Cardinality(today') <= T + 1
    <3>1. IsFiniteSet(today') /\ Cardinality(today') \in {T, T + 1}
      BY <1>b, <2>3, FS_AddElement DEF T
    <3> QED
      BY <1>0, <3>1
  <2>5. T + (Todo(w) + 1) < Limit
    BY <1>c, <1>d, <2>3
  <2>6. /\ Cardinality(today') + (Todo(w) + 0) < Limit
        /\ Cardinality(today') < Limit
    BY <1>0, <2>4, <2>5 DEF Limit
  <2>7. UnderWay(new.pc) = 0
    BY <1>d, <2>2
  <2> QED
    BY <2>1, <2>2, <2>3, <2>4, <2>6, <2>7, MoveKeepsCap DEF Limit, Todo
<1>5. ASSUME NEW w \in Worker,
             \/ EndBatch(w) \/ PutBack(w) \/ Refuse(w) \/ Deliver(w) \/ DeliverUnanswered(w)
             \/ CommitFails(w) \/ LogDead(w) \/ LogDeadFails(w) \/ MarkFailed(w) \/ Crash(w)
      PROVE  CapInv'
  <2>1. PICK new \in {Idle, Doing("batch", worker[w].todo, worker[w].unfit, 0, "cold"),
                      [worker[w] EXCEPT !.pc = "log"], [worker[w] EXCEPT !.pc = "mark"],
                      [worker[w] EXCEPT !.pc = "commit"]} :
          /\ worker' = [worker EXCEPT ![w] = new]
          /\ new.pc = "commit" => worker[w].pc = "send"
          /\ new.pc # "idle" => worker[w].pc \in {"send", "commit", "log", "mark"}
    <3>1. CASE EndBatch(w) \/ Crash(w)
      BY <3>1 DEF EndBatch, Crash, Idle, Doing
    <3>2. CASE PutBack(w) \/ MarkFailed(w) \/ Refuse(w) \/ DeliverUnanswered(w) \/ CommitFails(w)
               \/ LogDead(w) \/ LogDeadFails(w)
      <4>1. /\ worker[w].pc \in {"send", "commit", "log", "mark"}
            /\ \E new \in {Doing("batch", worker[w].todo, worker[w].unfit, 0, "cold"),
                           [worker[w] EXCEPT !.pc = "log"], [worker[w] EXCEPT !.pc = "mark"]} :
                  worker' = [worker EXCEPT ![w] = new]
        BY <3>2 DEF PutBack, MarkFailed, Refuse, DeliverUnanswered, CommitFails, LogDead, LogDeadFails, Done
      <4>2. \A new \in {Doing("batch", worker[w].todo, worker[w].unfit, 0, "cold"),
                        [worker[w] EXCEPT !.pc = "log"], [worker[w] EXCEPT !.pc = "mark"]} :
                new.pc # "commit"
        BY <1>a DEF Doing, WorkerType
      <4> QED
        BY <4>1, <4>2
    <3>3. CASE Deliver(w)
      BY <3>3 DEF Deliver
    <3> QED
      BY <1>5, <3>1, <3>2, <3>3
  <2>2. worker[w].pc # "idle" /\ today' = today
    BY <1>5 DEF EndBatch, PutBack, Refuse, Deliver, DeliverUnanswered, CommitFails, LogDead,
                LogDeadFails, MarkFailed, Crash
  <2>3. /\ new.pc \in {"idle", "batch", "log", "mark", "commit"}
        /\ new.pc # "idle" => new.todo = worker[w].todo
    BY <1>a, <2>1 DEF Idle, Doing, WorkerType
  <2>4. ASSUME new.pc # "idle" PROVE T + (Cardinality(new.todo) + UnderWay(new.pc)) < Limit
    <3>1. T + (Todo(w) + UnderWay(worker[w].pc)) < Limit
      BY <1>c, <2>1, <2>4
    <3>2. UnderWay(new.pc) \in 0..1 /\ UnderWay(worker[w].pc) \in 0..1
          /\ UnderWay(new.pc) <= UnderWay(worker[w].pc)
      BY <1>d, <2>1, <2>3, <2>4 DEF UnderWay
    <3>3. Cardinality(new.todo) = Todo(w)
      BY <2>3, <2>4 DEF Todo
    <3> QED
      BY <1>0, <3>1, <3>2, <3>3 DEF Limit
  <2> QED
    BY <1>b, <2>1, <2>2, <2>3, <2>4, MoveKeepsCap DEF T, Limit
<1>6. CASE NewDay
  <2>1. today' = {} /\ worker' = worker
    BY <1>6 DEF NewDay
  <2>2. IsFiniteSet(today') /\ Cardinality(today') = 0
    BY <2>1, FS_EmptySet
  <2>3. \A w \in Worker : ToSend(w)' = Todo(w) + UnderWay(worker[w].pc) /\ UnderWay(worker[w].pc) \in 0..1
    BY <2>1 DEF ToSend, Todo, UnderWay
  <2>4. 0 < Limit /\ UnderCap'
    BY <1>0, <2>2 DEF Limit, UnderCap
  <2>5. ASSUME NEW w \in Worker, worker[w].pc \notin {"idle", "claim"}
        PROVE  0 + (Todo(w) + UnderWay(worker[w].pc)) < Limit
    <3>1. T + (Todo(w) + UnderWay(worker[w].pc)) < Limit
      BY <1>c, <2>5
    <3> QED
      BY <1>0, <2>3, <3>1 DEF Limit
  <2> QED
    BY <2>1, <2>2, <2>3, <2>4, <2>5 DEF CapInv, Limit
<1>7. ASSUME NEW c \in Company, NEW ready \in BOOLEAN, OptOut(c, ready) PROVE CapInv'
  <2>1. worker' = Raced(c) /\ today' = today
    BY <1>7 DEF OptOut
  <2>2. \A w \in Worker : worker'[w].pc = worker[w].pc /\ worker'[w].todo = worker[w].todo
    BY <1>a, <2>1 DEF Raced, WorkerType
  <2> QED
    BY <2>1, <2>2, QuietKeepsCap
<1>8. CASE \/ \E d \in LetterId : RetryOne(d) \/ Due(d)
           \/ \E n \in RowId : Age(n) \/ Remove(n)
           \/ \E c \in Company, ctx \in Context : Ask(c, ctx) \/ Enqueue(c, ctx)
           \/ \E c \in Company : Approve(c) \/ Withdraw(c) \/ MarkSent(c)
           \/ \E c \in Company, consent \in Consent : SetConsent(c, consent)
           \/ UNCHANGED vars
  <2>1. worker' = worker /\ today' = today
    BY <1>8 DEF RetryOne, Due, Age, Remove, Ask, Enqueue, Approve, Withdraw, MarkSent, SetConsent, vars
  <2> QED
    BY <2>1, QuietKeepsCap
<1> QED
  BY <1>1, <1>2, <1>3, <1>4, <1>5, <1>6, <1>7, <1>8 DEF Next, AnyStart, WorkerStep, Request

\* The budget of the day, checked once per batch, is exceeded by less than a
\* batch, unless a batch outlives its lease.
THEOREM BudgetOverrunIsBounded == Spec => []CapExceededByLessThanABatch
<1>1. CASE "overrun" \in Fault
  <2>1. CapExceededByLessThanABatch
    BY <1>1 DEF CapExceededByLessThanABatch
  <2> QED
    BY <2>1, PTL
<1>2. CASE "overrun" \notin Fault
  <2>1. Init => CapInv
    <3> SUFFICES ASSUME Init PROVE CapInv
      OBVIOUS
    <3>1. today = {} /\ \A w \in Worker : worker[w].pc = "idle"
      BY DEF Init, Idle, Doing
    <3>2. Cardinality(today) = 0 /\ IsFiniteSet(today) /\ 0 < MaxPerDay + BatchSize
      BY <3>1, FS_EmptySet, BoundAssumption
    <3> QED
      BY <3>1, <3>2 DEF CapInv
  <2>2. Init => OnceInv
    BY DEF Init, OnceInv, OneBatch, Busy, Idle, Doing, Accounted
  <2>3. TypeInv /\ OnceInv /\ [Next]_vars => OnceInv'
    BY <1>2, NextOnce
  <2>4. TypeInv /\ OnceInv /\ CapInv /\ [Next]_vars => CapInv'
    BY <1>2, NextCap DEF OnceInv
  <2>5. CapInv => CapExceededByLessThanABatch
    BY DEF CapInv, CapExceededByLessThanABatch
  <2> QED
    BY <2>1, <2>2, <2>3, <2>4, <2>5, InitTypes, NextTypes, PTL DEF Spec
<1> QED
  BY <1>1, <1>2
=============================================================================
