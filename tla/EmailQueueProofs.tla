-------------------------- MODULE EmailQueueProofs --------------------------
(***************************************************************************)
(* Proofs about EmailQueue, for every set of companies and workers, every  *)
(* batch size, every budget and every bound.                               *)
(***************************************************************************)
EXTENDS EmailQueue, TLAPS

\* A row has a company exactly when its id has been given, and a batch works
\* on given ids only.
Given ==
    /\ \A n \in RowId : IF n <= rows THEN row[n].of \in Company /\ row[n].status # "none"
                                     ELSE row[n] = NoRow
    /\ \A w \in Worker :
        /\ \A n \in worker[w].todo : n <= rows
        /\ worker[w].pc \in {"send", "commit", "log", "mark"} => worker[w].item \in 1..rows

TypeInv == TypeOK /\ Given

USE DEF RowId, LetterId, Context, Consent

\* The initial state is well typed.
LEMMA InitTypes == Init => TypeInv
<1> SUFFICES ASSUME Init PROVE TypeInv
  OBVIOUS
<1>1. company \in [Company -> CompanyType]
  BY DEF Init, CompanyType
<1>2. row \in [RowId -> RowType] /\ rows \in 0..MaxRows
  BY BoundAssumption DEF Init, NoRow, RowType
<1>3. letter \in [LetterId -> LetterType]
  BY BoundAssumption DEF Init, NoLetter, LetterType
<1>4. worker \in [Worker -> WorkerType]
  BY BoundAssumption DEF Init, Idle, Doing, WorkerType
<1>5. Given
  BY BoundAssumption DEF Init, Given, Idle, Doing
<1>6. delivered \in [Company -> 0..2]
  BY DEF Init
<1>7. /\ asked \subseteq Company \X Context /\ today \subseteq Company
      /\ unrecorded \subseteq Company /\ settled \subseteq 0..MaxRows /\ byHand \subseteq RowId
  BY DEF Init
<1> QED
  BY <1>1, <1>2, <1>3, <1>4, <1>5, <1>6, <1>7 DEF TypeInv, TypeOK

-----------------------------------------------------------------------------
\* What a change of email_queue must do to keep rows well typed and given: it
\* leaves the company of a row alone and turns no row into a missing one or a
\* missing one into a row.
SameRows ==
    /\ row' \in [RowId -> RowType]
    /\ \A n \in RowId : /\ row'[n].of = row[n].of
                        /\ row[n].status = "none" => row'[n] = row[n]
                        /\ row[n].status # "none" => row'[n].status # "none"

\* Setting the status of one row is such a change.
LEMMA SetStatusKeepsRows ==
  ASSUME TypeInv, NEW n \in RowId,
         NEW status \in {"pending", "sending", "sent", "failed", "deleted"},
         row' = SetStatus(n, status)
  PROVE  SameRows
<1> USE DEF TypeInv, TypeOK
<1>0. row \in [RowId -> RowType]
  OBVIOUS
<1>1. CASE row[n].status \in {"none", "deleted"}
  <2>1. row' = row
    BY <1>1 DEF SetStatus
  <2> QED
    BY <1>0, <2>1 DEF SameRows
<1>2. CASE row[n].status \notin {"none", "deleted"}
  <2> DEFINE new == [row[n] EXCEPT !.status = status, !.old = FALSE]
  <2>1. row' = [row EXCEPT ![n] = new]
    BY <1>2 DEF SetStatus
  <2>2. /\ new \in RowType
        /\ new.of = row[n].of /\ new.status # "none"
    BY <1>0 DEF RowType
  <2> HIDE DEF new
  <2>3. row' \in [RowId -> RowType]
    BY <1>0, <2>1, <2>2
  <2> QED
    BY <1>0, <1>2, <2>1, <2>2, <2>3 DEF SameRows
<1> QED
  BY <1>1, <1>2

\* Given is kept by a change of rows that is one of those, when no batch moves.
LEMMA SameRowsKeepGiven ==
  ASSUME TypeInv, SameRows, UNCHANGED <<rows, worker>>
  PROVE  Given'
<1>1. \A n \in RowId : n > rows => row[n].status = "none"
  BY DEF TypeInv, Given, NoRow, TypeOK
<1> QED
  BY <1>1 DEF TypeInv, TypeOK, Given, SameRows

\* The same when one batch moves to given ids.
LEMMA MoveKeepsGiven ==
  ASSUME TypeInv, SameRows, rows' = rows,
         NEW w \in Worker, NEW new \in WorkerType, worker' = [worker EXCEPT ![w] = new],
         \A n \in new.todo : n <= rows,
         new.pc \in {"send", "commit", "log", "mark"} => new.item \in 1..rows
  PROVE  worker' \in [Worker -> WorkerType] /\ Given'
<1>1. \A n \in RowId : n > rows => row[n].status = "none"
  BY DEF TypeInv, Given, NoRow, TypeOK
<1>2. worker' \in [Worker -> WorkerType]
  BY DEF TypeInv, TypeOK
<1>3. \A v \in Worker : worker'[v] = IF v = w THEN new ELSE worker[v]
  BY DEF TypeInv, TypeOK
<1>4. (\A n \in RowId : IF n <= rows THEN row[n].of \in Company /\ row[n].status # "none"
                                     ELSE row[n] = NoRow)'
  BY <1>1 DEF TypeInv, TypeOK, Given, SameRows
<1>5. (\A v \in Worker :
        /\ \A n \in worker[v].todo : n <= rows
        /\ worker[v].pc \in {"send", "commit", "log", "mark"} => worker[v].item \in 1..rows)'
  BY <1>3 DEF TypeInv, Given
<1> QED
  BY <1>2, <1>4, <1>5 DEF Given

-----------------------------------------------------------------------------
\* A batch moves and nothing else does, history apart.
LEMMA MoveKeepsTypes ==
  ASSUME TypeInv, SameRows, rows' = rows,
         NEW w \in Worker, NEW new \in WorkerType, worker' = [worker EXCEPT ![w] = new],
         \A n \in new.todo : n <= rows,
         new.pc \in {"send", "commit", "log", "mark"} => new.item \in 1..rows,
         company' \in [Company -> CompanyType], letter' \in [LetterId -> LetterType],
         today' \subseteq Company, delivered' \in [Company -> 0..2], unrecorded' \subseteq Company,
         UNCHANGED <<asked, settled, byHand>>
  PROVE  TypeInv'
<1>1. worker' \in [Worker -> WorkerType] /\ Given'
  BY MoveKeepsGiven
<1> QED
  BY <1>1 DEF TypeInv, TypeOK, SameRows

\* Nothing changes in email_queue.
LEMMA SameRowsWhenUnchanged ==
  ASSUME TypeInv, row' = row
  PROVE  SameRows
  BY DEF TypeInv, TypeOK, SameRows

\* So is setting the status of several rows at once.
LEMMA StatusesKeepRows ==
  ASSUME TypeInv, NEW S \in SUBSET RowId, \A n \in S : row[n].status # "none",
         NEW status \in {"pending", "sending", "sent", "failed", "deleted"},
         row' = [n \in RowId |-> IF n \in S THEN [row[n] EXCEPT !.status = status, !.old = FALSE]
                                            ELSE row[n]]
  PROVE  SameRows
<1>1. ASSUME NEW n \in RowId
      PROVE  /\ row'[n] \in RowType /\ row'[n].of = row[n].of
             /\ row[n].status = "none" => row'[n] = row[n]
             /\ row[n].status # "none" => row'[n].status # "none"
  <2>1. row[n] \in RowType
    BY DEF TypeInv, TypeOK
  <2>2. CASE n \in S
    <3>1. row'[n] = [row[n] EXCEPT !.status = status, !.old = FALSE]
      BY <2>2
    <3> QED
      BY <2>1, <2>2, <3>1 DEF RowType
  <2>3. CASE n \notin S
    BY <2>1, <2>3
  <2> QED
    BY <2>2, <2>3
<1>2. row' \in [RowId -> RowType]
  <2>1. row' = [n \in RowId |-> row'[n]]
    OBVIOUS
  <2> QED
    BY <1>1, <2>1
<1> QED
  BY <1>1, <1>2 DEF SameRows

\* So is taking stale claims back.
LEMMA StartKeepsRows ==
  ASSUME TypeInv, NEW w \in Worker, StartBatch(w)
  PROVE  SameRows
<1> DEFINE S == {n \in RowId : Recoverable(n)}
<1>1. row' = [n \in RowId |-> IF n \in S THEN [row[n] EXCEPT !.status = "pending", !.old = FALSE]
                                         ELSE row[n]]
  BY DEF StartBatch
<1>2. \A n \in S : row[n].status # "none"
  BY DEF Recoverable
<1>3. S \in SUBSET RowId
  OBVIOUS
<1> HIDE DEF S
<1> QED
  BY <1>1, <1>2, <1>3, StatusesKeepRows

\* A busy batch deals with a company.
LEMMA TargetIsCompany ==
  ASSUME TypeInv, NEW w \in Worker, worker[w].pc \in {"send", "commit", "log", "mark"}
  PROVE  worker[w].item \in RowId /\ Target(w) \in Company
<1>1. worker[w].item \in 1..rows /\ rows \in 0..MaxRows
  BY DEF TypeInv, TypeOK, Given
<1>2. worker[w].item \in RowId /\ worker[w].item <= rows
  BY <1>1, BoundAssumption
<1> QED
  BY <1>2 DEF TypeInv, Given, Target

\* The steps of a batch between two statements of the queue keep the types.
LEMMA BatchTypes ==
  ASSUME TypeInv, NEW w \in Worker,
         \/ StartBatch(w) \/ Claim(w) \/ Check(w) \/ EndBatch(w)
  PROVE  TypeInv'
<1> DEFINE old == worker[w]
<1>0. old \in WorkerType /\ worker \in [Worker -> WorkerType]
  BY DEF TypeInv, TypeOK
<1>1. CASE StartBatch(w)
  <2> DEFINE new == [old EXCEPT !.pc = "claim"]
  <2>1. SameRows
    BY <1>1, StartKeepsRows
  <2>2. new \in WorkerType /\ new.todo = old.todo /\ new.pc = "claim"
    BY <1>0 DEF WorkerType
  <2>3. worker' = [worker EXCEPT ![w] = new]
    BY <1>1 DEF StartBatch
  <2>4. \A n \in new.todo : n <= rows
    BY <2>2 DEF TypeInv, Given
  <2> HIDE DEF new
  <2> QED
    BY <1>1, <2>1, <2>2, <2>3, <2>4, MoveKeepsTypes DEF StartBatch, TypeInv, TypeOK
<1>2. CASE Claim(w)
  <2> DEFINE eligible == {n \in RowId : row[n].status = "pending" /\ ~company[row[n].of].unsub}
             claimed == {n \in eligible : Cardinality({m \in eligible : m < n}) < BatchSize}
             unfit == {n \in claimed : ~Fit(row[n].of)}
             new == Doing("batch", claimed, unfit, 0, "cold")
  <2>1. CASE eligible = {}
    <3>1. Idle \in WorkerType /\ Idle.todo = {} /\ Idle.pc = "idle"
      BY BoundAssumption DEF Idle, Doing, WorkerType
    <3>2. worker' = [worker EXCEPT ![w] = Idle] /\ row' = row
      BY <1>2, <2>1 DEF Claim
    <3> QED
      BY <1>2, <3>1, <3>2, SameRowsWhenUnchanged, MoveKeepsTypes DEF Claim, TypeInv, TypeOK
  <2>2. CASE eligible # {}
    <3>1. claimed \subseteq RowId /\ unfit \subseteq RowId
      OBVIOUS
    <3>2. \A n \in claimed : row[n].status = "pending"
      OBVIOUS
    <3>3. /\ row' = [n \in RowId |-> IF n \in claimed THEN [row[n] EXCEPT !.status = "sending", !.old = FALSE]
                                                      ELSE row[n]]
          /\ worker' = [worker EXCEPT ![w] = new]
      BY <1>2, <2>2 DEF Claim
    <3> HIDE DEF claimed, unfit
    <3>4. SameRows
      BY <3>1, <3>2, <3>3, StatusesKeepRows
    <3>5. new \in WorkerType /\ new.todo = claimed /\ new.pc = "batch"
      BY <3>1, BoundAssumption DEF Idle, Doing, WorkerType
    <3>6. \A n \in claimed : n <= rows
      <4>1. \A n \in RowId : row[n].status # "none" => n <= rows
        BY NoRow.status = "none" DEF TypeInv, Given, NoRow
      <4> QED
        BY <3>1, <3>2, <4>1
    <3> HIDE DEF new
    <3> QED
      BY <1>2, <3>3, <3>4, <3>5, <3>6, MoveKeepsTypes DEF Claim, TypeInv, TypeOK
  <2> QED
    BY <2>1, <2>2
<1>3. CASE Check(w)
  <2>1. PICK n \in old.todo, ok \in BOOLEAN :
          worker' = [worker EXCEPT ![w] =
              Doing(IF ok THEN "send" ELSE "log", old.todo \ {n}, old.unfit, n, company[row[n].of].consent)]
    BY <1>3 DEF Check
  <2> DEFINE new == Doing(IF ok THEN "send" ELSE "log", old.todo \ {n}, old.unfit, n,
                          company[row[n].of].consent)
  <2>2. n \in RowId /\ n \in 1..rows
    BY <1>0 DEF WorkerType, TypeInv, TypeOK, Given
  <2>3. row[n].of \in Company /\ company[row[n].of].consent \in Consent
    BY <2>2 DEF TypeInv, TypeOK, Given, CompanyType
  <2>4. /\ new \in WorkerType
        /\ new.todo = old.todo \ {n} /\ new.item = n
    BY <1>0, <2>2, <2>3, BoundAssumption DEF WorkerType, Doing
  <2>5. \A m \in new.todo : m <= rows
    BY <2>4 DEF TypeInv, Given
  <2>6. worker' = [worker EXCEPT ![w] = new]
    BY <2>1
  <2> HIDE DEF new
  <2> QED
    BY <1>3, <2>2, <2>4, <2>5, <2>6, SameRowsWhenUnchanged, MoveKeepsTypes DEF Check, TypeInv, TypeOK
<1>4. CASE EndBatch(w)
  <2>1. Idle \in WorkerType /\ Idle.todo = {} /\ Idle.pc = "idle"
    BY BoundAssumption DEF Idle, Doing, WorkerType
  <2> QED
    BY <1>4, <2>1, SameRowsWhenUnchanged, MoveKeepsTypes DEF EndBatch, TypeInv, TypeOK
<1> QED
  BY <1>1, <1>2, <1>3, <1>4

\* The steps that deal with one item keep the types.
LEMMA ItemTypes ==
  ASSUME TypeInv, NEW w \in Worker,
         \/ PutBack(w) \/ Refuse(w) \/ Deliver(w) \/ DeliverUnanswered(w)
         \/ Commit(w) \/ CommitFails(w) \/ CommitUnanswered(w)
         \/ LogDead(w) \/ LogDeadFails(w) \/ MarkFailed(w)
  PROVE  TypeInv'
<1> DEFINE old == worker[w]
           c == Target(w)
           done == Doing("batch", old.todo, old.unfit, 0, "cold")
           At(pc) == [old EXCEPT !.pc = pc]
<1>1. old \in WorkerType /\ worker \in [Worker -> WorkerType] /\ \A n \in old.todo : n <= rows
  BY DEF TypeInv, TypeOK, Given
<1>2. old.pc \in {"send", "commit", "log", "mark"}
  BY DEF PutBack, Refuse, Deliver, DeliverUnanswered, Commit, CommitFails, CommitUnanswered,
         LogDead, LogDeadFails, MarkFailed
<1>3. old.item \in RowId /\ old.item \in 1..rows /\ c \in Company
  BY <1>2, TargetIsCompany DEF TypeInv, Given
<1>4. done \in WorkerType /\ done.todo = old.todo /\ done.pc = "batch"
  BY <1>1, BoundAssumption DEF Doing, WorkerType
<1>5. \A pc \in {"commit", "log", "mark"} :
        At(pc) \in WorkerType /\ At(pc).todo = old.todo /\ At(pc).item = old.item
  BY <1>1 DEF WorkerType
<1>6. Done(w) = [worker EXCEPT ![w] = done]
  BY DEF Done
<1>7. Delivered(c) \in [Company -> 0..2]
  BY <1>3 DEF Delivered, TypeInv, TypeOK
<1> HIDE DEF done
\* The cases below differ in what the batch becomes.
<1>8. ASSUME SameRows, rows' = rows, UNCHANGED <<asked, settled, byHand>>,
             company' \in [Company -> CompanyType], letter' \in [LetterId -> LetterType],
             today' \subseteq Company, delivered' \in [Company -> 0..2], unrecorded' \subseteq Company,
             \/ worker' = [worker EXCEPT ![w] = done]
             \/ \E pc \in {"commit", "log", "mark"} : worker' = [worker EXCEPT ![w] = At(pc)]
      PROVE  TypeInv'
  <2>1. CASE worker' = [worker EXCEPT ![w] = done]
    BY <1>1, <1>4, <1>8, <2>1, MoveKeepsTypes
  <2>2. ASSUME NEW pc \in {"commit", "log", "mark"}, worker' = [worker EXCEPT ![w] = At(pc)]
        PROVE  TypeInv'
    <3>1. At(pc) \in WorkerType /\ At(pc).todo = old.todo /\ At(pc).item = old.item
      BY <1>5
    <3> HIDE DEF At
    <3> QED
      BY <1>1, <1>3, <1>8, <2>2, <3>1, MoveKeepsTypes
  <2> QED
    BY <1>8, <2>1, <2>2
<1>9. /\ company \in [Company -> CompanyType] /\ letter \in [LetterId -> LetterType]
      /\ today \subseteq Company /\ delivered \in [Company -> 0..2] /\ unrecorded \subseteq Company
  BY DEF TypeInv, TypeOK
<1>10. ASSUME Record(w)
       PROVE  SameRows /\ company' \in [Company -> CompanyType] /\ today' \subseteq Company
  <2>1. SameRows
    BY <1>3, <1>10, SetStatusKeepsRows DEF Record
  <2>2. company' = [company EXCEPT ![c] = [company[c] EXCEPT !.sent = TRUE]]
    BY <1>10 DEF Record
  <2>3. [company[c] EXCEPT !.sent = TRUE] \in CompanyType
    BY <1>3, <1>9 DEF CompanyType
  <2> HIDE DEF c
  <2>4. company' \in [Company -> CompanyType]
    BY <1>3, <1>9, <2>2, <2>3
  <2> QED
    BY <1>3, <1>9, <1>10, <2>1, <2>4 DEF Record, c
<1>11. CASE PutBack(w)
  <2>1. SameRows
    BY <1>3, <1>11, SetStatusKeepsRows, SameRowsWhenUnchanged DEF PutBack
  <2> QED
    BY <1>6, <1>8, <1>9, <1>11, <2>1 DEF PutBack
<1>12. CASE Refuse(w)
  BY <1>8, <1>9, <1>12, SameRowsWhenUnchanged DEF Refuse
<1>13. CASE Deliver(w)
  BY <1>7, <1>8, <1>9, <1>13, SameRowsWhenUnchanged DEF Deliver
<1>14. CASE DeliverUnanswered(w)
  BY <1>3, <1>7, <1>8, <1>9, <1>14, SameRowsWhenUnchanged DEF DeliverUnanswered
<1>15. CASE Commit(w)
  BY <1>6, <1>8, <1>9, <1>10, <1>15 DEF Commit
<1>16. CASE CommitFails(w)
  BY <1>3, <1>8, <1>9, <1>16, SameRowsWhenUnchanged DEF CommitFails
<1>17. CASE CommitUnanswered(w)
  BY <1>8, <1>9, <1>10, <1>17 DEF CommitUnanswered
<1>18. CASE LogDead(w)
  <2>1. [row |-> old.item, of |-> row[old.item].of, retries |-> 0, due |-> TRUE] \in LetterType
    BY <1>3, BoundAssumption DEF LetterType, Target
  <2>2. letter' \in [LetterId -> LetterType]
    BY <1>9, <1>18, <2>1 DEF LogDead
  <2> QED
    BY <1>8, <1>9, <1>18, <2>2, SameRowsWhenUnchanged DEF LogDead
<1>19. CASE LogDeadFails(w)
  BY <1>8, <1>9, <1>19, SameRowsWhenUnchanged DEF LogDeadFails
<1>20. CASE MarkFailed(w)
  <2>1. SameRows
    BY <1>3, <1>20, SetStatusKeepsRows DEF MarkFailed
  <2> QED
    BY <1>6, <1>8, <1>9, <1>20, <2>1 DEF MarkFailed
<1> QED
  BY <1>11, <1>12, <1>13, <1>14, <1>15, <1>16, <1>17, <1>18, <1>19, <1>20

\* Inserting a row, or finding a live one, keeps the types.
LEMMA InsertTypes ==
  ASSUME TypeInv, NEW c \in Company, NEW ctx \in Context,
         Insert(c, ctx), worker' = worker
  PROVE  row' \in [RowId -> RowType] /\ rows' \in 0..MaxRows /\ Given'
<1>1. CASE HasLiveRow(c)
  BY <1>1 DEF Insert, TypeInv, TypeOK, Given
<1>2. CASE ~HasLiveRow(c)
  <2> DEFINE new == [status |-> "pending", of |-> c, ctx |-> ctx, old |-> FALSE]
  <2>1. rows < MaxRows /\ rows' = rows + 1 /\ row' = [row EXCEPT ![rows + 1] = new]
    BY <1>2 DEF Insert
  <2>2. new \in RowType /\ new.of \in Company /\ new.status # "none"
    BY DEF RowType
  <2>3. rows \in 0..MaxRows /\ row \in [RowId -> RowType]
    BY DEF TypeInv, TypeOK
  <2>4. rows + 1 \in RowId /\ rows' \in 0..MaxRows
    BY <2>1, <2>3, BoundAssumption
  <2> HIDE DEF new
  <2>5. row' \in [RowId -> RowType]
    BY <2>1, <2>2, <2>3, <2>4
  <2>6. \A n \in RowId : IF n <= rows' THEN row'[n].of \in Company /\ row'[n].status # "none"
                                     ELSE row'[n] = NoRow
    <3> SUFFICES ASSUME NEW n \in RowId
                 PROVE  IF n <= rows' THEN row'[n].of \in Company /\ row'[n].status # "none"
                                      ELSE row'[n] = NoRow
      OBVIOUS
    <3>1. row'[n] = IF n = rows + 1 THEN new ELSE row[n]
      BY <2>1, <2>3, <2>4
    <3>2. IF n <= rows THEN row[n].of \in Company /\ row[n].status # "none" ELSE row[n] = NoRow
      BY DEF TypeInv, Given
    <3> QED
      BY <2>1, <2>2, <2>3, <3>1, <3>2, BoundAssumption
  <2>7. \A w \in Worker :
          /\ \A n \in worker[w].todo : n <= rows'
          /\ worker[w].pc \in {"send", "commit", "log", "mark"} => worker[w].item \in 1..rows'
    <3>1. \A w \in Worker : worker[w].todo \subseteq RowId
      BY DEF TypeInv, TypeOK, WorkerType
    <3> QED
      BY <2>1, <2>3, <3>1, BoundAssumption DEF TypeInv, Given
  <2> QED
    BY <2>4, <2>5, <2>6, <2>7 DEF Given
<1> QED
  BY <1>1, <1>2

\* The retries and the passing of time keep the types.
LEMMA TimeTypes ==
  ASSUME TypeInv,
         \/ \E d \in LetterId : RetryOne(d) \/ Due(d)
         \/ \E n \in RowId : Age(n)
         \/ NewDay
         \/ \E w \in Worker : Crash(w)
  PROVE  TypeInv'
<1> USE DEF TypeInv
<1>1. ASSUME NEW d \in LetterId, RetryOne(d)
      PROVE  TypeInv'
  <2> DEFINE c == letter[d].of
  <2>1. letter[d] \in LetterType /\ c \in Company /\ letter[d].retries < MaxRetry /\ letter[d].row \in 0..MaxRows
    BY <1>1 DEF TypeOK, RetryOne, Retriable, Open, LetterType
  <2>2. CASE company[c].sent
    <3>1. /\ letter' = [letter EXCEPT ![d] = NoLetter]
          /\ settled' = settled \cup {letter[d].row}
          /\ UNCHANGED <<company, row, rows, worker, asked, today, delivered, unrecorded, byHand>>
      BY <1>1, <2>2 DEF RetryOne
    <3>2. NoLetter \in LetterType
      BY BoundAssumption DEF NoLetter, LetterType
    <3>3. letter' \in [LetterId -> LetterType] /\ settled' \subseteq 0..MaxRows
      BY <2>1, <3>1, <3>2 DEF TypeOK
    <3> QED
      BY <3>1, <3>3 DEF TypeOK, Given
  <2>3. CASE ~company[c].sent
    <3> DEFINE new == [letter[d] EXCEPT !.retries = letter[d].retries + 1, !.due = FALSE]
    <3>1. /\ Insert(c, RetryContext(d))
          /\ letter' = [letter EXCEPT ![d] = new]
          /\ UNCHANGED <<company, worker, asked, today, delivered, unrecorded, settled, byHand>>
      BY <1>1, <2>3 DEF RetryOne
    <3>2. new \in LetterType
      <4>1. letter[d].retries + 1 \in 0..MaxRetry
        BY <2>1, BoundAssumption DEF LetterType
      <4> QED
        BY <2>1, <4>1 DEF LetterType
    <3>3. RetryContext(d) \in Context
      <4>1. letter[d].row # 0 => letter[d].row \in RowId
        BY <2>1, BoundAssumption
      <4> QED
        BY <4>1 DEF RetryContext, TypeOK, RowType
    <3> HIDE DEF new
    <3>4. letter' \in [LetterId -> LetterType]
      BY <3>1, <3>2 DEF TypeOK
    <3>5. row' \in [RowId -> RowType] /\ rows' \in 0..MaxRows /\ Given'
      BY <2>1, <3>1, <3>3, InsertTypes
    <3> QED
      BY <3>1, <3>4, <3>5 DEF TypeOK
  <2> QED
    BY <2>2, <2>3
<1>2. ASSUME NEW d \in LetterId, Due(d)
      PROVE  TypeInv'
  <2>1. letter' = [letter EXCEPT ![d] = [letter[d] EXCEPT !.due = TRUE]]
    BY <1>2 DEF Due
  <2>2. [letter[d] EXCEPT !.due = TRUE] \in LetterType
    BY DEF TypeOK, LetterType
  <2>3. letter' \in [LetterId -> LetterType]
    BY <2>1, <2>2 DEF TypeOK
  <2> QED
    BY <1>2, <2>3 DEF Due, TypeOK, Given
<1>3. ASSUME NEW n \in RowId, Age(n)
      PROVE  TypeInv'
  <2>1. row' = [row EXCEPT ![n] = [row[n] EXCEPT !.old = TRUE]] /\ row[n].status = "sending"
    BY <1>3 DEF Age
  <2>2. SameRows
    BY <2>1 DEF SameRows, TypeOK, RowType
  <2>3. Given'
    BY <1>3, <2>2, SameRowsKeepGiven DEF Age
  <2> QED
    BY <1>3, <2>2, <2>3 DEF Age, TypeOK, SameRows
<1>4. CASE NewDay
  BY <1>4 DEF NewDay, TypeOK, Given
<1>5. ASSUME NEW w \in Worker, Crash(w)
      PROVE  TypeInv'
  <2>1. Idle \in WorkerType /\ Idle.todo = {} /\ Idle.pc = "idle"
    BY BoundAssumption DEF Idle, Doing, WorkerType
  <2>2. unrecorded' \subseteq Company
    BY <1>5, TargetIsCompany DEF Crash, TypeOK
  <2> QED
    BY <1>5, <2>1, <2>2, SameRowsWhenUnchanged, MoveKeepsTypes DEF Crash, TypeOK
<1> QED
  BY <1>1, <1>2, <1>3, <1>4, <1>5

\* The request handlers keep the types.
LEMMA RequestTypes == ASSUME TypeInv, Request PROVE TypeInv'
<1> USE DEF TypeInv
<1>0. ASSUME NEW c \in Company, NEW new \in CompanyType, company' = [company EXCEPT ![c] = new],
             UNCHANGED <<row, rows, letter, worker, asked, today, delivered, unrecorded, settled, byHand>>
      PROVE  TypeInv'
  BY <1>0 DEF TypeOK, Given
<1>1. ASSUME NEW c \in Company, NEW ctx \in Context, Ask(c, ctx)
      PROVE  TypeInv'
  BY <1>1 DEF Ask, TypeOK, Given
<1>2. ASSUME NEW c \in Company, NEW ctx \in Context, Enqueue(c, ctx)
      PROVE  TypeInv'
  <2>1. row' \in [RowId -> RowType] /\ rows' \in 0..MaxRows /\ Given'
    BY <1>2, InsertTypes DEF Enqueue
  <2>2. byHand' \subseteq RowId
    BY <1>2 DEF Enqueue, AnsweredBy, TypeOK
  <2> QED
    BY <1>2, <2>1, <2>2 DEF Enqueue, TypeOK
<1>3. ASSUME NEW c \in Company, Approve(c) \/ Withdraw(c) \/ MarkSent(c)
      PROVE  TypeInv'
  <2>1. PICK ready \in BOOLEAN, sent \in BOOLEAN :
          company' = [company EXCEPT ![c] = [company[c] EXCEPT !.ready = ready, !.sent = sent]]
    <3>1. company[c] \in CompanyType
      BY DEF TypeOK
    <3>2. CASE Approve(c)
      BY <3>1, <3>2 DEF Approve, CompanyType
    <3>3. CASE Withdraw(c)
      BY <3>1, <3>3 DEF Withdraw, CompanyType
    <3>4. CASE MarkSent(c)
      BY <3>1, <3>4 DEF MarkSent, CompanyType
    <3> QED
      BY <1>3, <3>2, <3>3, <3>4
  <2>2. [company[c] EXCEPT !.ready = ready, !.sent = sent] \in CompanyType
    BY DEF TypeOK, CompanyType
  <2> QED
    BY <1>0, <1>3, <2>1, <2>2 DEF Approve, Withdraw, MarkSent
<1>4. ASSUME NEW c \in Company, NEW consent \in Consent, SetConsent(c, consent)
      PROVE  TypeInv'
  <2>1. [company[c] EXCEPT !.consent = consent] \in CompanyType
    BY DEF TypeOK, CompanyType
  <2>2. company' = [company EXCEPT ![c] = [company[c] EXCEPT !.consent = consent]]
    BY <1>4 DEF SetConsent
  <2> QED
    BY <1>0, <1>4, <2>1, <2>2 DEF SetConsent
<1>5. ASSUME NEW c \in Company, NEW ready \in BOOLEAN, OptOut(c, ready)
      PROVE  TypeInv'
  <2>1. [company[c] EXCEPT !.unsub = TRUE, !.ready = ready] \in CompanyType
    BY DEF TypeOK, CompanyType
  <2>2. company' \in [Company -> CompanyType]
    BY <1>5, <2>1 DEF OptOut, TypeOK
  <2>3. /\ worker' \in [Worker -> WorkerType]
        /\ \A w \in Worker : /\ worker'[w].todo = worker[w].todo
                            /\ worker'[w].pc = worker[w].pc
                            /\ worker'[w].item = worker[w].item
    <3>1. worker \in [Worker -> WorkerType]
      BY DEF TypeOK
    <3>2. \A w \in Worker : [worker[w] EXCEPT !.raced = TRUE] \in WorkerType
      BY <3>1 DEF WorkerType
    <3>3. worker' = Raced(c)
      BY <1>5 DEF OptOut
    <3> QED
      BY <3>1, <3>2, <3>3 DEF Raced, WorkerType
  <2> QED
    BY <1>5, <2>2, <2>3 DEF OptOut, TypeOK, Given
<1>6. ASSUME NEW id \in RowId, Remove(id)
      PROVE  TypeInv'
  <2>1. NoLetter \in LetterType
    BY BoundAssumption DEF NoLetter, LetterType
  <2>2. letter' \in [LetterId -> LetterType]
    <3>1. ASSUME NEW d \in LetterId PROVE [letter[d] EXCEPT !.row = 0] \in LetterType
      <4>1. letter[d] \in LetterType /\ 0 \in 0..MaxRows
        BY BoundAssumption DEF TypeOK
      <4> QED
        BY <4>1 DEF LetterType
    <3> QED
      BY <1>6, <2>1, <3>1 DEF Remove, TypeOK
  <2>3. settled' \subseteq 0..MaxRows
    BY <1>6 DEF Remove, TypeOK, LetterType
  <2>4. SameRows
    BY <1>6, SetStatusKeepsRows, SameRowsWhenUnchanged DEF Remove
  <2>5. Given'
    BY <1>6, <2>4, SameRowsKeepGiven DEF Remove
  <2> QED
    BY <1>6, <2>2, <2>3, <2>4, <2>5 DEF Remove, TypeOK, SameRows
<1> QED
  BY <1>1, <1>2, <1>3, <1>4, <1>5, <1>6 DEF Request

\* Every step keeps the types.
LEMMA NextTypes == TypeInv /\ [Next]_vars => TypeInv'
<1> SUFFICES ASSUME TypeInv, [Next]_vars PROVE TypeInv'
  OBVIOUS
<1>1. CASE UNCHANGED vars
  BY <1>1 DEF vars, TypeInv, TypeOK, Given
<1>2. CASE AnyStart
  BY <1>2, BatchTypes DEF AnyStart
<1>3. ASSUME NEW w \in Worker, WorkerStep(w) PROVE TypeInv'
  BY <1>3, BatchTypes, ItemTypes DEF WorkerStep
<1>4. CASE Request
  BY <1>4, RequestTypes
<1> QED
  BY <1>1, <1>2, <1>3, <1>4, TimeTypes DEF Next

\* The rows, dead letters, batches and companies of the queue keep their
\* types for ever; in particular no dead letter is retried more than MaxRetry
\* times, and a batch only deals with rows that were inserted.
THEOREM TypeCorrect == Spec => [](TypeOK /\ Given)
<1>1. TypeInv => TypeOK /\ Given
  BY DEF TypeInv
<1> QED
  BY <1>1, InitTypes, NextTypes, PTL DEF Spec

-----------------------------------------------------------------------------
(* A company is mailed at most once unless a message left unrecorded.       *)
(*                                                                         *)
(* delivered[c] <= 1 alone is not inductive: the fresh check reads inviato, *)
(* not the number of messages sent, so it takes the fact that a message     *)
(* already delivered is either recorded or about to be, and that the batch  *)
(* about to record it is the only batch there is.                           *)

Busy(w) == worker[w].pc # "idle"

\* Batches that keep within their lease do not overlap.
OneBatch == \A v, w \in Worker : Busy(v) /\ Busy(w) => v = w

Committing(c) == \E w \in Worker : worker[w].pc = "commit" /\ Target(w) = c

\* What is known of a company none of whose messages got lost.
Accounted(c) ==
    /\ delivered[c] <= 1
    /\ delivered[c] = 1 => company[c].sent \/ Committing(c)
    /\ \A w \in Worker : worker[w].pc = "send" /\ Target(w) = c => delivered[c] = 0

OnceInv == OneBatch /\ \A c \in Company \ unrecorded : Accounted(c)

\* What every step keeps: the company of a row, a recorded sending, a loss.
Keeps ==
    /\ \A n \in 1..rows : row'[n].of = row[n].of
    /\ \A c \in Company : company[c].sent => company'[c].sent
    /\ unrecorded \subseteq unrecorded'

\* No step moves a row to another company, withdraws inviato or forgets a loss.
LEMMA NextKeeps == ASSUME TypeInv, [Next]_vars PROVE Keeps
<1> USE DEF TypeInv
<1>0. 1..rows \subseteq RowId
  BY BoundAssumption DEF TypeOK
<1>1. ASSUME SameRows, \A c \in Company : company[c].sent => company'[c].sent,
             unrecorded \subseteq unrecorded'
      PROVE  Keeps
  BY <1>0, <1>1 DEF Keeps, SameRows
<1>2. CASE UNCHANGED vars
  BY <1>1, <1>2, SameRowsWhenUnchanged DEF vars
<1>3. ASSUME NEW w \in Worker, StartBatch(w) PROVE Keeps
  <2>1. SameRows
    BY <1>3, StartKeepsRows
  <2> QED
    BY <1>1, <1>3, <2>1 DEF StartBatch
<1>4. ASSUME NEW w \in Worker, Claim(w) PROVE Keeps
  <2>1. ASSUME NEW n \in RowId PROVE row'[n].of = row[n].of
    <3>1. \/ row' = row
          \/ row'[n] = row[n]
          \/ row'[n] = [row[n] EXCEPT !.status = "sending", !.old = FALSE]
      BY <1>4 DEF Claim
    <3>2. row[n] \in RowType
      BY DEF TypeOK
    <3> QED
      BY <3>1, <3>2 DEF RowType
  <2> QED
    BY <1>0, <1>4, <2>1 DEF Claim, Keeps
<1>5. ASSUME NEW w \in Worker, WorkerStep(w), ~Claim(w) PROVE Keeps
  <2>1. worker[w].pc \in {"send", "commit", "log", "mark"} => worker[w].item \in RowId
    BY TargetIsCompany
  <2>2. SameRows
    BY <1>5, <2>1, SetStatusKeepsRows, SameRowsWhenUnchanged
       DEF WorkerStep, Check, EndBatch, PutBack, Refuse, Deliver, DeliverUnanswered,
           Commit, CommitFails, CommitUnanswered, Record, LogDead, LogDeadFails, MarkFailed
  <2>3. \A c \in Company : company[c].sent => company'[c].sent
    BY <1>5 DEF WorkerStep, Check, EndBatch, PutBack, Refuse, Deliver, DeliverUnanswered,
           Commit, CommitFails, CommitUnanswered, Record, LogDead, LogDeadFails, MarkFailed,
           TypeOK, CompanyType
  <2>4. unrecorded \subseteq unrecorded'
    BY <1>5 DEF WorkerStep, Check, EndBatch, PutBack, Refuse, Deliver, DeliverUnanswered,
           Commit, CommitFails, CommitUnanswered, Record, LogDead, LogDeadFails, MarkFailed
  <2> QED
    BY <1>1, <2>2, <2>3, <2>4
<1>6. ASSUME NEW w \in Worker, Crash(w) PROVE Keeps
  BY <1>1, <1>6, SameRowsWhenUnchanged DEF Crash
<1>7. ASSUME NEW c \in Company, NEW ctx \in Context,
             Insert(c, ctx), UNCHANGED <<company, unrecorded>>
      PROVE  Keeps
  <2>1. CASE HasLiveRow(c)
    BY <1>7, <2>1 DEF Insert, Keeps
  <2>2. CASE ~HasLiveRow(c)
    <3> DEFINE new == [status |-> "pending", of |-> c, ctx |-> ctx, old |-> FALSE]
    <3>1. row' = [row EXCEPT ![rows + 1] = new]
      BY <1>7, <2>2 DEF Insert
    <3> HIDE DEF new
    <3>2. \A n \in 1..rows : n # rows + 1 /\ n \in RowId
      BY <1>0 DEF TypeOK
    <3>3. \A n \in 1..rows : row'[n].of = row[n].of
      BY <3>1, <3>2 DEF TypeOK
    <3> QED
      BY <1>7, <3>3 DEF Keeps
  <2> QED
    BY <2>1, <2>2
<1>8. ASSUME NEW d \in LetterId, RetryOne(d) PROVE Keeps
  <2>1. letter[d].of \in Company /\ letter[d].row \in 0..MaxRows
    BY <1>8 DEF RetryOne, Retriable, Open, TypeOK, LetterType
  <2>2. RetryContext(d) \in Context
    <3>1. letter[d].row # 0 => letter[d].row \in RowId
      BY <2>1, BoundAssumption
    <3> QED
      BY <3>1 DEF RetryContext, TypeOK, RowType
  <2> QED
    BY <1>1, <1>7, <1>8, <2>1, <2>2, SameRowsWhenUnchanged DEF RetryOne
<1>9. ASSUME NEW n \in RowId, Age(n) PROVE Keeps
  <2>1. SameRows
    BY <1>9 DEF Age, SameRows, TypeOK, RowType
  <2> QED
    BY <1>1, <1>9, <2>1 DEF Age
<1>10. ASSUME (\E d \in LetterId : Due(d)) \/ NewDay PROVE Keeps
  BY <1>1, <1>10, SameRowsWhenUnchanged DEF Due, NewDay
<1>11. CASE Request
  <2>1. ASSUME NEW c \in Company, NEW ctx \in Context, Ask(c, ctx) \/ Enqueue(c, ctx) PROVE Keeps
    BY <1>1, <1>7, <2>1, SameRowsWhenUnchanged DEF Ask, Enqueue
  <2>2. ASSUME NEW c \in Company, Approve(c) \/ Withdraw(c) \/ MarkSent(c) PROVE Keeps
    <3>1. \A b \in Company : company[b].sent => company'[b].sent
      BY <2>2 DEF Approve, Withdraw, MarkSent, TypeOK, CompanyType
    <3> QED
      BY <1>1, <2>2, <3>1, SameRowsWhenUnchanged DEF Approve, Withdraw, MarkSent
  <2>3. ASSUME NEW c \in Company, NEW consent \in Consent, SetConsent(c, consent) PROVE Keeps
    <3>1. \A b \in Company : company[b].sent => company'[b].sent
      BY <2>3 DEF SetConsent, TypeOK, CompanyType
    <3> QED
      BY <1>1, <2>3, <3>1, SameRowsWhenUnchanged DEF SetConsent
  <2>4. ASSUME NEW c \in Company, NEW ready \in BOOLEAN, OptOut(c, ready) PROVE Keeps
    <3>1. \A b \in Company : company[b].sent => company'[b].sent
      BY <2>4 DEF OptOut, TypeOK, CompanyType
    <3> QED
      BY <1>1, <2>4, <3>1, SameRowsWhenUnchanged DEF OptOut
  <2>5. ASSUME NEW id \in RowId, Remove(id) PROVE Keeps
    BY <1>1, <2>5, SetStatusKeepsRows, SameRowsWhenUnchanged DEF Remove
  <2> QED
    BY <1>11, <2>1, <2>2, <2>3, <2>4, <2>5 DEF Request
<1> QED
  BY <1>2, <1>3, <1>4, <1>5, <1>6, <1>8, <1>9, <1>10, <1>11 DEF Next, AnyStart

\* A step that moves no batch and delivers nothing keeps the invariant.
LEMMA QuietStepKeepsOnce ==
  ASSUME TypeInv, OnceInv, Keeps, delivered' = delivered,
         \A w \in Worker : worker'[w].pc = worker[w].pc /\ worker'[w].item = worker[w].item
  PROVE  OnceInv'
<1>1. ASSUME NEW w \in Worker, worker[w].pc \in {"send", "commit"}
      PROVE  Target(w)' = Target(w)
  BY <1>1 DEF TypeInv, Given, Keeps, Target
<1> QED
  BY <1>1 DEF OnceInv, OneBatch, Busy, Accounted, Committing, Keeps

\* A batch that moves anywhere but to a sending, and leaves a delivered message
\* only recorded or lost, keeps it too.
LEMMA MoveKeepsOnce ==
  ASSUME TypeInv, OnceInv, Keeps, delivered' = delivered,
         NEW w \in Worker, \A v \in Worker : v # w => ~Busy(v),
         NEW new, worker' = [worker EXCEPT ![w] = new], new.pc # "send",
         worker[w].pc = "commit" => \/ company'[Target(w)].sent
                                    \/ Target(w) \in unrecorded'
  PROVE  OnceInv'
<1>0. \A v \in Worker : worker'[v] = IF v = w THEN new ELSE worker[v]
  BY DEF TypeInv, TypeOK
<1>1. OneBatch'
  BY <1>0 DEF OneBatch, Busy
<1>2. ASSUME NEW c \in Company \ unrecorded'
      PROVE  Accounted(c)'
  <2>1. Accounted(c)
    BY <1>2 DEF OnceInv, Keeps
  <2>2. delivered[c] = 1 => company[c].sent \/ (worker[w].pc = "commit" /\ Target(w) = c)
    BY <2>1 DEF Accounted, Committing, Busy
  <2>3. delivered'[c] = 1 => company'[c].sent
    BY <1>2, <2>2 DEF Keeps
  <2>4. \A v \in Worker : worker'[v].pc # "send"
    BY <1>0 DEF Busy
  <2> QED
    BY <2>1, <2>3, <2>4 DEF Accounted
<1> QED
  BY <1>1, <1>2 DEF OnceInv

\* Without overruns every step keeps the invariant.
LEMMA NextOnce == ASSUME "overrun" \notin Fault, TypeInv, OnceInv, [Next]_vars PROVE OnceInv'
<1>0. Keeps
  BY NextKeeps
<1>1. ASSUME NEW w \in Worker, Busy(w)
      PROVE  \A v \in Worker : v # w => ~Busy(v)
  BY <1>1 DEF OnceInv, OneBatch
<1>2. CASE UNCHANGED vars
  BY <1>0, <1>2, QuietStepKeepsOnce DEF vars
<1>3. ASSUME NEW w \in Worker, StartBatch(w) PROVE OnceInv'
  <2>1. /\ worker' = [worker EXCEPT ![w] = [worker[w] EXCEPT !.pc = "claim"]]
        /\ \A v \in Worker : ~Busy(v)
        /\ delivered' = delivered /\ worker[w].pc = "idle"
    BY <1>3 DEF StartBatch, Busy
  <2>2. [worker[w] EXCEPT !.pc = "claim"].pc = "claim"
    BY DEF TypeInv, TypeOK, WorkerType
  <2> QED
    BY <1>0, <2>1, <2>2, MoveKeepsOnce
<1>4. ASSUME NEW w \in Worker, Claim(w) PROVE OnceInv'
  <2> DEFINE eligible == {n \in RowId : row[n].status = "pending" /\ ~company[row[n].of].unsub}
             claimed == {n \in eligible : Cardinality({m \in eligible : m < n}) < BatchSize}
             unfit == {n \in claimed : ~Fit(row[n].of)}
             new == IF eligible = {} THEN Idle ELSE Doing("batch", claimed, unfit, 0, "cold")
  <2>1. worker' = [worker EXCEPT ![w] = new] /\ worker[w].pc = "claim" /\ delivered' = delivered
    BY <1>4 DEF Claim
  <2> HIDE DEF eligible, claimed, unfit
  <2>2. new.pc # "send"
    BY DEF Idle, Doing
  <2> HIDE DEF new
  <2> QED
    BY <1>0, <1>1, <2>1, <2>2, MoveKeepsOnce DEF Busy
<1>5. ASSUME NEW w \in Worker, Check(w) PROVE OnceInv'
  <2>0. PICK n \in worker[w].todo, pc \in {"send", "log"} :
          /\ worker' = [worker EXCEPT ![w] =
                 Doing(pc, worker[w].todo \ {n}, worker[w].unfit, n, company[row[n].of].consent)]
          /\ pc = "send" => Sendable(row[n].of)
    BY <1>5 DEF Check
  <2> DEFINE new == Doing(pc, worker[w].todo \ {n}, worker[w].unfit, n, company[row[n].of].consent)
  <2>1. /\ worker' = [worker EXCEPT ![w] = new]
        /\ new.pc = "send" => Sendable(row[n].of)
        /\ new.item = n
    BY <2>0 DEF Doing
  <2> HIDE DEF new
  <2>2. worker[w].pc = "batch" /\ UNCHANGED <<company, row, delivered, unrecorded>>
    BY <1>5 DEF Check
  <2>3. \A v \in Worker : v # w => worker[v].pc = "idle"
    BY <1>1, <2>2 DEF Busy
  <2>4. CASE new.pc # "send"
    BY <1>0, <2>1, <2>2, <2>3, <2>4, MoveKeepsOnce DEF Busy
  <2>5. CASE new.pc = "send"
    <3>1. \A v \in Worker : worker'[v] = IF v = w THEN new ELSE worker[v]
      BY <2>1 DEF TypeInv, TypeOK
    <3>2. OneBatch'
      BY <2>3, <3>1 DEF OneBatch, Busy
    <3>3. ASSUME NEW c \in Company \ unrecorded'
          PROVE  Accounted(c)'
      <4>1. Accounted(c) /\ ~Committing(c) /\ delivered[c] \in 0..2
        BY <2>2, <2>3, <3>3 DEF OnceInv, Committing, TypeInv, TypeOK
      <4>2. delivered[c] = 1 => company[c].sent
        BY <4>1 DEF Accounted
      <4>3. Target(w)' = c => delivered[c] = 0
        BY <2>1, <2>2, <2>5, <3>1, <4>1, <4>2 DEF Target, Sendable, Accounted
      <4>4. \A v \in Worker : worker'[v].pc = "send" => v = w
        BY <2>3, <3>1
      <4> QED
        BY <2>2, <4>1, <4>2, <4>3, <4>4 DEF Accounted
    <3> QED
      BY <3>2, <3>3 DEF OnceInv
  <2> QED
    BY <2>4, <2>5
<1>6. ASSUME NEW w \in Worker, Deliver(w) \/ DeliverUnanswered(w) PROVE OnceInv'
  <2> DEFINE c == Target(w)
  <2>1. /\ worker[w].pc = "send" /\ UNCHANGED <<company, row>>
        /\ delivered' = Delivered(c)
    BY <1>6 DEF Deliver, DeliverUnanswered
  <2>2. c \in Company /\ worker[w].item \in RowId
    BY <2>1, TargetIsCompany
  <2>3. \A v \in Worker : v # w => worker[v].pc = "idle"
    BY <1>1, <2>1 DEF Busy
  <2>4. PICK pc \in {"commit", "log"} :
          /\ worker' = [worker EXCEPT ![w] = [worker[w] EXCEPT !.pc = pc]]
          /\ pc = "log" => c \in unrecorded'
    BY <1>6, <2>2 DEF Deliver, DeliverUnanswered
  <2>5. /\ \A v \in Worker : v # w => worker'[v] = worker[v]
        /\ worker'[w].pc = pc /\ worker'[w].item = worker[w].item
    BY <2>4 DEF TypeInv, TypeOK, WorkerType
  <2>6. OneBatch'
    BY <2>3, <2>5 DEF OneBatch, Busy
  <2>7. Target(w)' = c
    BY <2>1, <2>5 DEF Target
  <2>8. ASSUME NEW b \in Company \ unrecorded'
        PROVE  Accounted(b)'
    <3>1. Accounted(b)
      BY <1>0, <2>8 DEF OnceInv, Keeps
    <3>2. \A v \in Worker : worker'[v].pc # "send"
      BY <2>3, <2>5
    <3>3. CASE b = c
      <4>1. delivered[c] = 0
        BY <2>1, <3>1, <3>3 DEF Accounted
      <4>2. delivered'[b] = 1
        BY <2>1, <2>2, <3>3, <4>1 DEF Delivered, TypeInv, TypeOK
      <4>3. Committing(b)'
        BY <2>4, <2>5, <2>7, <2>8, <3>3 DEF Committing
      <4> QED
        BY <3>2, <4>2, <4>3 DEF Accounted
    <3>4. CASE b # c
      <4>1. delivered'[b] = delivered[b]
        BY <2>1, <3>4 DEF Delivered, TypeInv, TypeOK
      <4>2. ~Committing(b)
        BY <2>1, <2>3 DEF Committing
      <4> QED
        BY <2>1, <3>1, <3>2, <4>1, <4>2 DEF Accounted
    <3> QED
      BY <3>3, <3>4
  <2> QED
    BY <2>6, <2>8 DEF OnceInv
<1>7. ASSUME NEW w \in Worker,
             \/ EndBatch(w) \/ PutBack(w) \/ Refuse(w) \/ Commit(w) \/ CommitFails(w)
             \/ CommitUnanswered(w) \/ LogDead(w) \/ LogDeadFails(w) \/ MarkFailed(w) \/ Crash(w)
      PROVE  OnceInv'
  <2>1. Busy(w) /\ delivered' = delivered
    BY <1>7 DEF EndBatch, PutBack, Refuse, Commit, CommitFails, CommitUnanswered, LogDead,
                LogDeadFails, MarkFailed, Crash, Busy
  <2>2. PICK new \in {Idle, Doing("batch", worker[w].todo, worker[w].unfit, 0, "cold"),
                      [worker[w] EXCEPT !.pc = "log"], [worker[w] EXCEPT !.pc = "mark"]} :
          worker' = [worker EXCEPT ![w] = new]
    BY <1>7 DEF EndBatch, PutBack, Refuse, Commit, CommitFails, CommitUnanswered, LogDead,
                LogDeadFails, MarkFailed, Crash, Done
  <2>3. new.pc # "send"
    BY <2>2 DEF Idle, Doing, TypeInv, TypeOK, WorkerType
  <2>4. worker[w].pc = "commit" => company'[Target(w)].sent \/ Target(w) \in unrecorded'
    <3> SUFFICES ASSUME worker[w].pc = "commit" PROVE company'[Target(w)].sent \/ Target(w) \in unrecorded'
      OBVIOUS
    <3>1. Target(w) \in Company
      BY TargetIsCompany
    <3>2. CASE Commit(w) \/ CommitUnanswered(w)
      <4>1. company' = [company EXCEPT ![Target(w)] = [company[Target(w)] EXCEPT !.sent = TRUE]]
        BY <3>2 DEF Commit, CommitUnanswered, Record
      <4>2. company[Target(w)] \in CompanyType /\ company \in [Company -> CompanyType]
        BY <3>1 DEF TypeInv, TypeOK
      <4> QED
        BY <3>1, <4>1, <4>2 DEF CompanyType
    <3>3. CASE CommitFails(w) \/ Crash(w)
      BY <3>3 DEF CommitFails, Crash
    <3> QED
      BY <1>7, <3>2, <3>3 DEF EndBatch, PutBack, Refuse, LogDead, LogDeadFails, MarkFailed
  <2> QED
    BY <1>0, <1>1, <2>1, <2>2, <2>3, <2>4, MoveKeepsOnce
<1>8. ASSUME \/ \E d \in LetterId : RetryOne(d) \/ Due(d)
             \/ \E n \in RowId : Age(n)
             \/ NewDay
      PROVE  OnceInv'
  <2>1. worker' = worker /\ delivered' = delivered
    BY <1>8 DEF RetryOne, Due, Age, NewDay
  <2> QED
    BY <1>0, <2>1, QuietStepKeepsOnce
<1>9. CASE Request
  <2>1. delivered' = delivered
    BY <1>9 DEF Request, Ask, Enqueue, Approve, Withdraw, MarkSent, SetConsent, OptOut, Remove
  <2>2. \A w \in Worker : worker'[w].pc = worker[w].pc /\ worker'[w].item = worker[w].item
    <3>1. ASSUME NEW c \in Company, worker' = Raced(c), NEW w \in Worker
          PROVE  worker'[w].pc = worker[w].pc /\ worker'[w].item = worker[w].item
      BY <3>1 DEF Raced, TypeInv, TypeOK, WorkerType
    <3>2. worker' = worker \/ \E c \in Company : worker' = Raced(c)
      BY <1>9 DEF Request, Ask, Enqueue, Approve, Withdraw, MarkSent, SetConsent, OptOut, Remove
    <3> QED
      BY <3>1, <3>2
  <2> QED
    BY <1>0, <2>1, <2>2, QuietStepKeepsOnce
<1> QED
  BY <1>2, <1>3, <1>4, <1>5, <1>6, <1>7, <1>8, <1>9 DEF Next, AnyStart, WorkerStep

\* Whatever the failures other than an overrun, and whatever the requests, a
\* company is mailed at most once unless one of its messages left without
\* being recorded.
THEOREM MailedOnce == Spec => []OnceUnlessUnrecorded
<1>1. CASE "overrun" \in Fault
  <2>1. OnceUnlessUnrecorded
    BY <1>1 DEF OnceUnlessUnrecorded
  <2> QED
    BY <2>1, PTL
<1>2. CASE "overrun" \notin Fault
  <2>1. Init => OnceInv
    BY DEF Init, OnceInv, OneBatch, Busy, Idle, Doing, Accounted
  <2>2. TypeInv /\ OnceInv /\ [Next]_vars => OnceInv'
    BY <1>2, NextOnce
  <2>3. OnceInv => OnceUnlessUnrecorded
    BY DEF OnceInv, Accounted, OnceUnlessUnrecorded
  <2> QED
    BY <2>1, <2>2, <2>3, InitTypes, NextTypes, PTL DEF Spec
<1> QED
  BY <1>1, <1>2

=============================================================================
