----------------------------- MODULE EmailQueue -----------------------------
(***************************************************************************)
(* The outgoing e-mail queue: processEmailQueue and retryFailedEmails of   *)
(* src/routes/cron.js, sendCampaignEmail of src/services/email-sender.js,  *)
(* and the request handlers that write the rows those jobs read            *)
(* (companies, email_queue, email_queue_failed).                           *)
(*                                                                         *)
(* Every action is one database statement or transaction, or one message   *)
(* handed to the SMTP server: other processes may act in between.  Time is *)
(* kept as what the code compares it with: the day of a sending, the thirty*)
(* minutes after which a claim is taken back, the hour between retries.    *)
(***************************************************************************)
EXTENDS Naturals, FiniteSets

CONSTANTS
    Company,          \* rows of companies
    Worker,           \* calls of processEmailQueue
    None,             \* no company
    BatchSize,        \* setting queue_batch_size
    MaxPerDay,        \* setting max_emails_per_day
    MaxRetry,         \* the 3 of retry_count < 3
    MaxRows,          \* bound: rows ever inserted in email_queue
    Fault,            \* which failures happen, see below
    Handler,          \* which requests clients make, see below
    SaveSentAborts    \* TRUE: the statements that save what was sent are
                      \* rejected by the database and abort the transaction

\* "crash": the process dies.  "ambiguous": the server accepts the message and
\* the answer is lost.  "commit": the transaction after a sending fails.
\* "log": the dead-letter insert fails.  "overrun": a batch outlives the
\* 300 s lease of "emailQueue" and a second one starts.
ASSUME FaultAssumption == Fault \subseteq {"crash", "ambiguous", "commit", "log", "overrun"}

ASSUME BoundAssumption ==
    /\ BatchSize \in Nat \ {0} /\ MaxPerDay \in Nat \ {0} /\ MaxRetry \in Nat
    /\ MaxRows \in Nat
    /\ None \notin Company /\ SaveSentAborts \in BOOLEAN

VARIABLES
    company,    \* companies: [ready, sent, unsub, consent]
    row,        \* email_queue, by id; ids follow created_at
    rows,       \* the last id given
    letter,     \* email_queue_failed, by id; the id of a deleted one is reused
    worker,     \* what each batch is doing
    asked,      \* send requests checked and not yet inserted
    today,      \* companies whose inviato_at is today
    delivered,  \* history: messages the server accepted, per company, up to 2
    unrecorded, \* history: companies mailed without inviato being committed
    settled,    \* history: rows whose dead letter was deleted
    byHand      \* history: rows that answered an accepted manual request

vars == <<company, row, rows, letter, worker, asked, today,
          delivered, unrecorded, settled, byHand>>

-----------------------------------------------------------------------------
RowId == 1..MaxRows
LetterId == RowId   \* a row has one dead letter at most
Context == {"automatic", "manual"}
Consent == {"cold", "marketing"}

NoRow == [status |-> "none", of |-> None, ctx |-> "automatic", old |-> FALSE]
NoLetter == [row |-> 0, of |-> None, retries |-> 0, due |-> FALSE]

\* A batch at pc, with todo still to do, dealing with item.
Doing(pc, todo, unfit, item, consent) ==
    [pc |-> pc, todo |-> todo, unfit |-> unfit, item |-> item, consent |-> consent, raced |-> FALSE]
Idle == Doing("idle", {}, {}, 0, "cold")

\* ready: bozza_creata, approvato and an address.  old: processed_at is more
\* than 30 minutes ago.  unfit: claimed rows whose company failed the claim's
\* own SELECT.
\* consent: the consent_status of the fresh check.  raced: the company opted
\* out after the fresh check (history).
CompanyType == [ready : BOOLEAN, sent : BOOLEAN, unsub : BOOLEAN, consent : Consent]
RowType == [status : {"none", "pending", "sending", "sent", "failed", "deleted"},
            of : Company \cup {None}, ctx : Context, old : BOOLEAN]
LetterType == [row : 0..MaxRows, of : Company \cup {None}, retries : 0..MaxRetry, due : BOOLEAN]
WorkerType == [pc : {"idle", "claim", "batch", "send", "commit", "log", "mark"},
               todo : SUBSET RowId, unfit : SUBSET RowId, item : 0..MaxRows,
               consent : Consent, raced : BOOLEAN]

\* The columns of the three tables and the local state of the batches.
TypeOK ==
    /\ company \in [Company -> CompanyType]
    /\ row \in [RowId -> RowType] /\ rows \in 0..MaxRows
    /\ letter \in [LetterId -> LetterType]
    /\ worker \in [Worker -> WorkerType]
    /\ asked \subseteq Company \X Context
    /\ today \subseteq Company
    /\ delivered \in [Company -> 0..2]
    /\ unrecorded \subseteq Company
    /\ settled \subseteq 0..MaxRows
    /\ byHand \subseteq RowId

Init ==
    /\ company \in [Company -> [ready : {TRUE}, sent : {FALSE}, unsub : {FALSE}, consent : Consent]]
    /\ row = [n \in RowId |-> NoRow] /\ rows = 0
    /\ letter = [d \in LetterId |-> NoLetter]
    /\ worker = [w \in Worker |-> Idle]
    /\ asked = {} /\ today = {}
    /\ delivered = [c \in Company |-> 0]
    /\ unrecorded = {} /\ settled = {} /\ byHand = {}

Open(d) == letter[d].of # None

-----------------------------------------------------------------------------
\* Mutated forms of the operators below.
SendableAlways(c) == company[c].ready /\ ~company[c].sent
CapNotReached == Cardinality(today) <= MaxPerDay
NeverRecovered(n) == FALSE
RetriedForEver(d) == Open(d) /\ letter[d].due
RetriedByHand(d) == "manual"
LoggedPerCompany(n) ==
    /\ row[n].status \notin {"none", "deleted"}
    /\ \A d \in LetterId : letter[d].of # row[n].of

-----------------------------------------------------------------------------
\* The unique index on (company_id) WHERE status IN ('pending', 'sending').
Live(n) == row[n].status \in {"pending", "sending"}
HasLiveRow(c) == \E n \in RowId : Live(n) /\ row[n].of = c

\* The company a busy worker is dealing with.
Target(w) == row[worker[w].item].of

Fit(c) == company[c].ready /\ ~company[c].sent
\* The fresh check before a sending.
Sendable(c) == company[c].ready /\ ~company[c].sent /\ ~company[c].unsub

\* enforceSchedulingConsent, and enforceConsent without consent_channels,
\* which the claim does not select.
Admits(consent, ctx) == consent = "marketing" \/ ctx = "manual"

UnderCap == Cardinality(today) < MaxPerDay
Recoverable(n) == row[n].status = "sending" /\ row[n].old

\* WHERE retry_count < 3 AND (last_retry_at IS NULL OR an hour ago)
Retriable(d) == Open(d) /\ letter[d].retries < MaxRetry /\ letter[d].due
\* COALESCE(eq.send_context, 'automatic'): the row may be gone
RetryContext(d) == IF letter[d].row = 0 THEN "automatic" ELSE row[letter[d].row].ctx

\* The foreign key to email_queue and the unique index on queue_id.
Loggable(n) ==
    /\ row[n].status \notin {"none", "deleted"}
    /\ \A d \in LetterId : letter[d].row # n

\* Each worker whose message to c is under way.
Raced(c) == [w \in Worker |->
    IF worker[w].pc = "send" /\ Target(w) = c THEN [worker[w] EXCEPT !.raced = TRUE] ELSE worker[w]]

\* UPDATE email_queue SET status: no effect on a row that is not there.
SetStatus(n, status) ==
    IF row[n].status \in {"none", "deleted"} THEN row
    ELSE [row EXCEPT ![n] = [@ EXCEPT !.status = status, !.old = FALSE]]

\* INSERT ... 'pending' ... ON CONFLICT DO NOTHING
Insert(c, ctx) ==
    IF HasLiveRow(c)
    THEN UNCHANGED <<row, rows>>
    ELSE /\ rows < MaxRows
         /\ rows' = rows + 1
         /\ row' = [row EXCEPT ![rows + 1] =
                       [status |-> "pending", of |-> c, ctx |-> ctx, old |-> FALSE]]

AnsweredBy(c) == {n \in RowId : row'[n].of = c /\ row'[n].status \in {"pending", "sending"}}

\* The loop moves on to the next item.
Done(w) == [worker EXCEPT ![w] = Doing("batch", worker[w].todo, worker[w].unfit, 0, "cold")]

Delivered(c) == [delivered EXCEPT ![c] = IF @ < 2 THEN @ + 1 ELSE @]

-----------------------------------------------------------------------------
(* processEmailQueue *)

\* The lease is free, the send window is open and the daily budget is not
\* spent: claims older than thirty minutes are taken back.
StartBatch(w) ==
    /\ worker[w].pc = "idle"
    /\ "overrun" \in Fault \/ \A v \in Worker : worker[v].pc = "idle"
    /\ UnderCap
    /\ row' = [n \in RowId |->
                  IF Recoverable(n) THEN [row[n] EXCEPT !.status = "pending", !.old = FALSE] ELSE row[n]]
    /\ worker' = [worker EXCEPT ![w].pc = "claim"]
    /\ UNCHANGED <<company, rows, letter, asked, today, delivered, unrecorded, settled, byHand>>

\* SELECT ... ORDER BY created_at LIMIT batchSize FOR UPDATE SKIP LOCKED and
\* UPDATE to 'sending', one transaction.
Claim(w) ==
    LET eligible == {n \in RowId : row[n].status = "pending" /\ ~company[row[n].of].unsub}
        claimed == {n \in eligible : Cardinality({m \in eligible : m < n}) < BatchSize}
    IN  /\ worker[w].pc = "claim"
        /\ IF eligible = {}
           THEN worker' = [worker EXCEPT ![w] = Idle] /\ UNCHANGED row
           ELSE /\ row' = [n \in RowId |->
                              IF n \in claimed THEN [row[n] EXCEPT !.status = "sending", !.old = FALSE] ELSE row[n]]
                /\ worker' = [worker EXCEPT ![w] =
                       Doing("batch", claimed, {n \in claimed : ~Fit(row[n].of)}, 0, "cold")]
        /\ UNCHANGED <<company, rows, letter, asked, today, delivered, unrecorded, settled, byHand>>

\* The next item of the batch, in claim order: the check on the claimed
\* values, the fresh check, the scheduling gate.
Check(w) ==
    /\ worker[w].pc = "batch"
    /\ \E n \in worker[w].todo :
        /\ \A m \in worker[w].todo : n <= m
        /\ LET c == row[n].of
               ok == n \notin worker[w].unfit /\ Sendable(c) /\ Admits(company[c].consent, row[n].ctx)
           IN  worker' = [worker EXCEPT ![w] =
                   Doing(IF ok THEN "send" ELSE "log", worker[w].todo \ {n}, worker[w].unfit,
                         n, company[c].consent)]
    /\ UNCHANGED <<company, row, rows, letter, asked, today, delivered, unrecorded, settled, byHand>>

EndBatch(w) ==
    /\ worker[w].pc = "batch" /\ worker[w].todo = {}
    /\ worker' = [worker EXCEPT ![w] = Idle]
    /\ UNCHANGED <<company, row, rows, letter, asked, today, delivered, unrecorded, settled, byHand>>

\* The campaign has reached its daily limit, no SMTP account is left or its
\* selection fails: the claimed row goes back to the queue, whatever has
\* become of it.  The unique index may refuse: a refusal at the campaign check
\* is swallowed and the sending goes on, at the SMTP check it fails the item.
PutBack(w) ==
    LET n == worker[w].item IN
    /\ worker[w].pc = "send"
    /\ \/ /\ Live(n) \/ ~HasLiveRow(row[n].of)
          /\ row' = SetStatus(n, "pending")
          /\ worker' = Done(w)
       \/ /\ ~Live(n) /\ row[n].status # "deleted" /\ HasLiveRow(row[n].of)
          /\ worker' = [worker EXCEPT ![w].pc = "log"]
          /\ UNCHANGED row
    /\ UNCHANGED <<company, rows, letter, asked, today, delivered, unrecorded, settled, byHand>>

\* sendCampaignEmail returns null and nothing was sent: test mode without a
\* recipient, an SMTP error, no address.  ROLLBACK.
Refuse(w) ==
    /\ worker[w].pc = "send"
    /\ worker' = [worker EXCEPT ![w].pc = "log"]
    /\ UNCHANGED <<company, row, rows, letter, asked, today, delivered, unrecorded, settled, byHand>>

\* transporter.sendMail resolves.
Deliver(w) ==
    /\ worker[w].pc = "send"
    /\ delivered' = Delivered(Target(w))
    /\ worker' = [worker EXCEPT ![w].pc = "commit"]
    /\ UNCHANGED <<company, row, rows, letter, asked, today, unrecorded, settled, byHand>>

\* The server accepts the message, sendMail rejects: null is returned.
DeliverUnanswered(w) ==
    /\ "ambiguous" \in Fault
    /\ worker[w].pc = "send"
    /\ delivered' = Delivered(Target(w))
    /\ unrecorded' = unrecorded \cup {Target(w)}
    /\ worker' = [worker EXCEPT ![w].pc = "log"]
    /\ UNCHANGED <<company, row, rows, letter, asked, today, settled, byHand>>

\* Mutated form of the next operator: inviato is not set.
RecordRowOnly(w) ==
    /\ row' = SetStatus(worker[w].item, "sent")
    /\ today' = today \cup {Target(w)}
    /\ UNCHANGED company

\* One transaction: the queue row is 'sent', the company inviato today.
Record(w) ==
    /\ company' = [company EXCEPT ![Target(w)].sent = TRUE]
    /\ row' = SetStatus(worker[w].item, "sent")
    /\ today' = today \cup {Target(w)}

Commit(w) ==
    /\ worker[w].pc = "commit" /\ ~SaveSentAborts
    /\ Record(w)
    /\ worker' = Done(w)
    /\ UNCHANGED <<rows, letter, asked, delivered, unrecorded, settled, byHand>>

\* A statement of the transaction fails: the first one always does when its
\* text is rejected.  ROLLBACK, and the item's catch takes over.
CommitFails(w) ==
    /\ worker[w].pc = "commit"
    /\ SaveSentAborts \/ "commit" \in Fault
    /\ unrecorded' = unrecorded \cup {Target(w)}
    /\ worker' = [worker EXCEPT ![w].pc = "log"]
    /\ UNCHANGED <<company, row, rows, letter, asked, today, delivered, settled, byHand>>

\* COMMIT is applied and its answer is lost.
CommitUnanswered(w) ==
    /\ worker[w].pc = "commit" /\ ~SaveSentAborts /\ "commit" \in Fault
    /\ Record(w)
    /\ worker' = [worker EXCEPT ![w].pc = "log"]
    /\ UNCHANGED <<rows, letter, asked, delivered, unrecorded, settled, byHand>>

\* logFailedEmail: a refused insert is logged and swallowed.
LogDead(w) ==
    LET n == worker[w].item IN
    /\ worker[w].pc = "log"
    /\ IF Loggable(n)
       THEN \E d \in LetterId :
                /\ ~Open(d) /\ \A e \in LetterId : e < d => Open(e)
                /\ letter' = [letter EXCEPT ![d] =
                       [row |-> n, of |-> row[n].of, retries |-> 0, due |-> TRUE]]
       ELSE UNCHANGED letter
    /\ worker' = [worker EXCEPT ![w].pc = "mark"]
    /\ UNCHANGED <<company, row, rows, asked, today, delivered, unrecorded, settled, byHand>>

LogDeadFails(w) ==
    /\ "log" \in Fault
    /\ worker[w].pc = "log"
    /\ worker' = [worker EXCEPT ![w].pc = "mark"]
    /\ UNCHANGED <<company, row, rows, letter, asked, today, delivered, unrecorded, settled, byHand>>

MarkFailed(w) ==
    /\ worker[w].pc = "mark"
    /\ row' = SetStatus(worker[w].item, "failed")
    /\ worker' = Done(w)
    /\ UNCHANGED <<company, rows, letter, asked, today, delivered, unrecorded, settled, byHand>>

\* The process dies, or a statement of the item's catch throws and ends the
\* batch: claimed rows stay 'sending'.
Crash(w) ==
    /\ "crash" \in Fault
    /\ worker[w].pc # "idle"
    /\ unrecorded' = IF worker[w].pc = "commit" THEN unrecorded \cup {Target(w)} ELSE unrecorded
    /\ worker' = [worker EXCEPT ![w] = Idle]
    /\ UNCHANGED <<company, row, rows, letter, asked, today, delivered, settled, byHand>>

-----------------------------------------------------------------------------
(* retryFailedEmails: one item of its transaction *)

RetryOne(d) ==
    /\ Retriable(d)
    /\ LET c == letter[d].of IN
       IF company[c].sent
       THEN /\ letter' = [letter EXCEPT ![d] = NoLetter]
            /\ settled' = settled \cup {letter[d].row}
            /\ UNCHANGED <<row, rows>>
       ELSE /\ Insert(c, RetryContext(d))
            /\ letter' = [letter EXCEPT ![d] = [@ EXCEPT !.retries = letter[d].retries + 1, !.due = FALSE]]
            /\ UNCHANGED settled
    /\ UNCHANGED <<company, worker, asked, today, delivered, unrecorded, byHand>>

-----------------------------------------------------------------------------
(* Time *)

\* Thirty minutes after the claim.  A batch within its lease is over by then.
Age(n) ==
    /\ row[n].status = "sending" /\ ~row[n].old
    /\ "overrun" \in Fault \/ \A w \in Worker : n # worker[w].item /\ n \notin worker[w].todo
    /\ row' = [row EXCEPT ![n].old = TRUE]
    /\ UNCHANGED <<company, rows, letter, worker, asked, today, delivered, unrecorded, settled, byHand>>

\* An hour after the last retry.
Due(d) ==
    /\ Open(d) /\ ~letter[d].due
    /\ letter' = [letter EXCEPT ![d].due = TRUE]
    /\ UNCHANGED <<company, row, rows, worker, asked, today, delivered, unrecorded, settled, byHand>>

NewDay ==
    /\ today # {}
    /\ today' = {}
    /\ UNCHANGED <<company, row, rows, letter, worker, asked, delivered, unrecorded, settled, byHand>>

-----------------------------------------------------------------------------
(* Request handlers *)

\* POST .../send of the company page and of the agents (manual), send-batch
\* and the promotion of planned sendings (automatic): the SELECT that checks
\* the company, ...
Ask(c, ctx) ==
    /\ ctx \in Handler
    /\ <<c, ctx>> \notin asked
    /\ Sendable(c)
    /\ ctx = "automatic" => company[c].consent = "marketing"
    /\ asked' = asked \cup {<<c, ctx>>}
    /\ UNCHANGED <<company, row, rows, letter, worker, today, delivered, unrecorded, settled, byHand>>

\* ... and the INSERT.  The answer is success even when the row is not new.
Enqueue(c, ctx) ==
    /\ <<c, ctx>> \in asked
    /\ Insert(c, ctx)
    /\ asked' = asked \ {<<c, ctx>>}
    /\ byHand' = IF ctx = "manual" THEN byHand \cup AnsweredBy(c) ELSE byHand
    /\ UNCHANGED <<company, letter, worker, today, delivered, unrecorded, settled>>

\* PATCH .../approve, bulk-approve: no handler looks at unsubscribed_at.
Approve(c) ==
    /\ "approve" \in Handler
    /\ ~company[c].ready
    /\ company' = [company EXCEPT ![c].ready = TRUE]
    /\ UNCHANGED <<row, rows, letter, worker, asked, today, delivered, unrecorded, settled, byHand>>

\* approvato = false, or bozza_rifai: a new draft is wanted.
Withdraw(c) ==
    /\ "withdraw" \in Handler
    /\ company[c].ready
    /\ company' = [company EXCEPT ![c].ready = FALSE]
    /\ UNCHANGED <<row, rows, letter, worker, asked, today, delivered, unrecorded, settled, byHand>>

\* PATCH /api/companies/:id {inviato: true}: inviato_at is not touched, the
\* way back is refused.
MarkSent(c) ==
    /\ "byhand" \in Handler
    /\ ~company[c].sent
    /\ company' = [company EXCEPT ![c].sent = TRUE]
    /\ UNCHANGED <<row, rows, letter, worker, asked, today, delivered, unrecorded, settled, byHand>>

\* PUT /api/agent/companies/:id {consent_status}
SetConsent(c, consent) ==
    /\ "consent" \in Handler
    /\ company[c].consent # consent
    /\ company' = [company EXCEPT ![c].consent = consent]
    /\ UNCHANGED <<row, rows, letter, worker, asked, today, delivered, unrecorded, settled, byHand>>

\* GET /unsubscribe/:token withdraws the approval too, the agent's
\* POST .../optout does not.
OptOut(c, ready) ==
    /\ "optout" \in Handler
    /\ ~company[c].unsub
    /\ ready \in {FALSE, company[c].ready}
    /\ company' = [company EXCEPT ![c] = [@ EXCEPT !.unsub = TRUE, !.ready = ready]]
    /\ worker' = Raced(c)
    /\ UNCHANGED <<row, rows, letter, asked, today, delivered, unrecorded, settled, byHand>>

\* DELETE /api/admin/queue/:id, for a queue row or, when there is none with
\* this id, a dead letter: the page sends the ids of either table.
Remove(id) ==
    /\ "delete" \in Handler
    /\ \/ /\ row[id].status \notin {"none", "deleted"}
          /\ row' = SetStatus(id, "deleted")
          /\ letter' = [d \in LetterId |-> IF letter[d].row = id THEN [letter[d] EXCEPT !.row = 0] ELSE letter[d]]
          /\ UNCHANGED settled
       \/ /\ Open(id) /\ row[id].status \in {"none", "deleted"}
          /\ letter' = [letter EXCEPT ![id] = NoLetter]
          /\ settled' = settled \cup {letter[id].row}
          /\ UNCHANGED row
    /\ UNCHANGED <<company, rows, worker, asked, today, delivered, unrecorded, byHand>>

-----------------------------------------------------------------------------
WorkerStep(w) ==
    \/ Claim(w) \/ Check(w) \/ EndBatch(w)
    \/ PutBack(w) \/ Refuse(w) \/ Deliver(w) \/ DeliverUnanswered(w)
    \/ Commit(w) \/ CommitFails(w) \/ CommitUnanswered(w)
    \/ LogDead(w) \/ LogDeadFails(w) \/ MarkFailed(w)

Request ==
    \/ \E c \in Company, ctx \in Context : Ask(c, ctx) \/ Enqueue(c, ctx)
    \/ \E c \in Company : Approve(c) \/ Withdraw(c) \/ MarkSent(c)
    \/ \E c \in Company, consent \in Consent : SetConsent(c, consent)
    \/ \E c \in Company, ready \in BOOLEAN : OptOut(c, ready)
    \/ \E id \in RowId : Remove(id)

AnyStart == \E w \in Worker : StartBatch(w)

Next ==
    \/ AnyStart
    \/ \E w \in Worker : WorkerStep(w) \/ Crash(w)
    \/ \E d \in LetterId : RetryOne(d) \/ Due(d)
    \/ \E n \in RowId : Age(n)
    \/ NewDay
    \/ Request

Spec == Init /\ [][Next]_vars

\* A running batch goes on; days and half hours pass; the job is started every
\* minute for ever, so it finds the window open and the budget unspent again
\* and again.
FairSpec ==
    /\ Spec
    /\ \A w \in Worker : WF_vars(WorkerStep(w))
    /\ \A n \in RowId : WF_vars(Age(n))
    /\ WF_vars(NewDay)
    /\ SF_vars(AnyStart)

-----------------------------------------------------------------------------
\* A company is mailed at most once, unless one of its messages left without
\* being recorded (a lost SMTP answer, a failed transaction, a crash in
\* between) or two batches overlapped: whatever the handlers, the retries and
\* the recovered claims do meanwhile.
OnceUnlessUnrecorded ==
    "overrun" \notin Fault =>
        \A c \in Company : c \notin unrecorded => delivered[c] <= 1

\* A message is under way to a company that opted out only when it opted out
\* after the fresh check of processEmailQueue.
OptOutHonoured ==
    \A w \in Worker :
        worker[w].pc = "send" /\ company[Target(w)].unsub => worker[w].raced

\* A company that was cold at the fresh check is mailed only when a person
\* asked for this company, through retries and removed rows included.
ColdOnlyByHand ==
    \A w \in Worker :
        worker[w].pc \in {"send", "commit"} /\ worker[w].consent = "cold" =>
            \E n \in byHand : row[n].of = Target(w)

\* A row that failed has a dead letter of its own, unless the dead-letter
\* insert failed or the letter was later deleted (by retryFailedEmails because
\* the company has been mailed, or by an administrator): no failure is forgotten.
FailedHasLetter ==
    "log" \notin Fault =>
        \A n \in RowId : row[n].status = "failed" =>
            n \in settled \/ \E d \in LetterId : letter[d].row = n

\* The daily budget is checked once per batch: it is exceeded by less than a
\* batch.
CapExceededByLessThanABatch ==
    "overrun" \notin Fault => Cardinality(today) < MaxPerDay + BatchSize

\* A claimed row does not stay claimed, crashes of the process included.
ClaimIsResolved ==
    \A n \in RowId : row[n].status = "sending" ~> row[n].status # "sending"

-----------------------------------------------------------------------------
(* What a comment says and the code does not do. *)

\* email-sender.js:197: what was sent is saved, with the transaction that
\* records the sending.
SentMailIsRecorded ==
    \A c \in Company :
        /\ delivered[c] > 0
        /\ \A w \in Worker : worker[w].pc = "commit" => Target(w) # c
        => company[c].sent
=============================================================================
